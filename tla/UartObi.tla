------------------------------ MODULE UartObi ------------------------------
(***************************************************************************)
(* The UART, src/rtl/uart_peripheral/uart_obi.sv.  Four always_ff blocks   *)
(* run on one clock: the two baud counters, the OBI side, the transmitter  *)
(* and the receiver.  Edge is one clock edge of all four, every right hand *)
(* side read before the edge.  The lines into the peripheral (the OBI      *)
(* request, the serial input) are variables that the modules which connect *)
(* something to them drive: UartTxLink and UartRxLink.                     *)
(***************************************************************************)
EXTENDS Integers, Sequences

CONSTANTS
    BufferLength,    \* slots of each FIFO (one stays free), a power of two
    DataBits,        \* data bits of a frame
    CounterMax,      \* the baud counters wrap here (2^32 in the code)
    Selector,        \* values written to the baud register
    Divisor,         \* clks_per_bit of each selector, 0 for the disabled ones
    Disabled,        \* the selector after reset, BAUD_DISABLED
    None             \* no request on the OBI lines, no byte on the serial ones

Lane == 0 .. 3                        \* the byte lanes of a 32-bit word
Cell == 0 .. BufferLength - 1
Byte == [0 .. DataBits - 1 -> BOOLEAN]
ZeroByte == [i \in 0 .. DataBits - 1 |-> FALSE]
Count == 0 .. CounterMax - 1

ASSUME SizeAssumption ==
    /\ BufferLength \in Nat \ {0, 1}
    /\ DataBits \in Nat \ {0}
    /\ CounterMax \in Nat \ {0}

ASSUME DivisorAssumption ==
    /\ Divisor \in [Selector -> 0 .. CounterMax - 1]
    /\ Disabled \in Selector
    /\ Divisor[Disabled] = 0

\* The registers an access can name; "OTHER" is every unknown offset.
Register == {"STS", "BAUD", "TX", "RX", "OTHER"}

\* What a bus write carries: four bytes for TX, a selector for BAUD.
Request == [we : BOOLEAN, addr : Register, be : SUBSET Lane,
            bytes : [Lane -> Byte], baud : Selector]

ASSUME NoneAssumption == None \notin Byte /\ None \notin Request

VARIABLES
    device_state, latch, wdata_byte_idx, rvalid, rdata, baud_selector,
    tx_buf, tx_buf_start, tx_buf_end, tx_state, tx_data_latch, tx_data_count,
    rx_buf, rx_buf_start, rx_buf_end, rx_state, rx_sync, rx_collecting,
    rx_collecting_count, rx_restart_baud,
    tx_baud_counter, rx_baud_counter,
    req,             \* external: the OBI request lines
    rx_i             \* external: the serial input

busVars  == <<device_state, latch, wdata_byte_idx, rvalid, rdata, baud_selector,
              tx_buf, tx_buf_end, rx_buf_start>>
txVars   == <<tx_buf_start, tx_state, tx_data_latch, tx_data_count>>
rxVars   == <<rx_buf, rx_buf_end, rx_state, rx_sync, rx_collecting,
              rx_collecting_count, rx_restart_baud>>
baudVars == <<tx_baud_counter, rx_baud_counter>>
uartVars == <<busVars, txVars, rxVars, baudVars>>
vars     == <<uartVars, req, rx_i>>

-----------------------------------------------------------------------------
\* Baud generation.  The counters run freely and are compared for equality,
\* in the width of the counter: below zero is the largest count.

ClksPerBit == Divisor[baud_selector]
Before(n) == IF n = 0 THEN CounterMax - 1 ELSE n - 1

rx_baud   == rx_baud_counter = Before(ClksPerBit)
tx_baud   == tx_baud_counter = Before(ClksPerBit)
rx_sample == rx_baud_counter = Before(ClksPerBit \div 2)

\* Fault: the counter stops at its largest value.
CountUpToMax(c) == IF c = CounterMax - 1 THEN c ELSE c + 1

CountUp(c) == IF c = CounterMax - 1 THEN 0 ELSE c + 1

\* Fault: the transmit counter is not restarted at the end of a bit.
BaudCountersRunOn ==
    /\ rx_baud_counter' = IF rx_baud \/ rx_restart_baud THEN 0 ELSE CountUp(rx_baud_counter)
    /\ tx_baud_counter' = CountUp(tx_baud_counter)

BaudCounters ==
    /\ rx_baud_counter' = IF rx_baud \/ rx_restart_baud THEN 0 ELSE CountUp(rx_baud_counter)
    /\ tx_baud_counter' = IF tx_baud THEN 0 ELSE CountUp(tx_baud_counter)

-----------------------------------------------------------------------------
\* FIFO status.

\* Fault: the FIFO index does not wrap.
IncNoWrap(i) == i + 1

Inc(i) == IF i + 1 = BufferLength THEN 0 ELSE i + 1

rx_empty == rx_buf_start = rx_buf_end
tx_empty == tx_buf_start = tx_buf_end
rx_full  == Inc(rx_buf_end) = rx_buf_start
tx_full  == Inc(tx_buf_end) = tx_buf_start

\* Fault: two fields of the status word are exchanged.
StatusSwapped == [rx_empty |-> rx_full, rx_full |-> rx_empty,
                  tx_empty |-> tx_empty, tx_full |-> tx_full]

Status == [rx_empty |-> rx_empty, rx_full |-> rx_full,
           tx_empty |-> tx_empty, tx_full |-> tx_full]

-----------------------------------------------------------------------------
\* The OBI side.  gnt_o is combinational: a request is granted in WAIT.

gnt_o == device_state = "WAIT" /\ req # None

\* err_o follows the latched access.  A register that exists but not for this
\* direction is answered without an error.
err_o == latch.addr = "OTHER"

Wait ==
    /\ device_state = "WAIT"
    /\ rvalid' = FALSE
    /\ IF req = None
       THEN UNCHANGED <<device_state, latch>>
       ELSE /\ device_state' = IF req.we THEN "WRITE" ELSE "READ"
            /\ latch' = req
    /\ UNCHANGED <<wdata_byte_idx, rdata, baud_selector, tx_buf, tx_buf_end, rx_buf_start>>

\* Reading RX takes a byte from the FIFO and reads zero when there is none.
ReadData ==
    CASE latch.addr = "RX"   -> [reg |-> "RX", val |-> IF rx_empty THEN ZeroByte
                                                       ELSE rx_buf[rx_buf_start]]
      [] latch.addr = "BAUD" -> [reg |-> "BAUD", val |-> baud_selector]
      [] latch.addr = "STS"  -> [reg |-> "STS", val |-> Status]
      [] OTHER               -> [reg |-> "NONE", val |-> ZeroByte]

\* Fault: a read leaves the byte in the FIFO.
ReadKeepsByte ==
    /\ device_state = "READ"
    /\ rdata' = ReadData
    /\ rvalid' = TRUE
    /\ device_state' = "WAIT"
    /\ UNCHANGED <<latch, wdata_byte_idx, baud_selector, tx_buf, tx_buf_end, rx_buf_start>>

Read ==
    /\ device_state = "READ"
    /\ rdata' = ReadData
    /\ rx_buf_start' = IF latch.addr = "RX" /\ ~rx_empty THEN Inc(rx_buf_start)
                       ELSE rx_buf_start
    /\ rvalid' = TRUE
    /\ device_state' = "WAIT"
    /\ UNCHANGED <<latch, wdata_byte_idx, baud_selector, tx_buf, tx_buf_end>>

\* A TX write walks the four lanes, one per cycle, and waits at an enabled
\* lane while the FIFO is full.
LaneEnabled == wdata_byte_idx \in latch.be

\* Fault: a full FIFO does not hold the write back.
WriteTxUnchecked ==
    /\ latch.addr = "TX"
    /\ tx_buf' = IF LaneEnabled
                 THEN [tx_buf EXCEPT ![tx_buf_end] = latch.bytes[wdata_byte_idx]]
                 ELSE tx_buf
    /\ tx_buf_end' = IF LaneEnabled THEN Inc(tx_buf_end) ELSE tx_buf_end
    /\ wdata_byte_idx' = (wdata_byte_idx + 1) % 4
    /\ IF wdata_byte_idx = 3
       THEN rvalid' = TRUE /\ device_state' = "WAIT"
       ELSE UNCHANGED <<rvalid, device_state>>
    /\ UNCHANGED baud_selector

\* Fault: the last lane ends the write although the FIFO is full.
WriteTxDropsLast ==
    /\ latch.addr = "TX"
    /\ IF LaneEnabled /\ tx_full
       THEN UNCHANGED <<tx_buf, tx_buf_end>>
       ELSE /\ tx_buf' = IF LaneEnabled
                         THEN [tx_buf EXCEPT ![tx_buf_end] = latch.bytes[wdata_byte_idx]]
                         ELSE tx_buf
            /\ tx_buf_end' = IF LaneEnabled THEN Inc(tx_buf_end) ELSE tx_buf_end
    /\ IF LaneEnabled /\ tx_full /\ wdata_byte_idx # 3
       THEN UNCHANGED <<wdata_byte_idx, rvalid, device_state>>
       ELSE /\ wdata_byte_idx' = (wdata_byte_idx + 1) % 4
            /\ IF wdata_byte_idx = 3
               THEN rvalid' = TRUE /\ device_state' = "WAIT"
               ELSE UNCHANGED <<rvalid, device_state>>
    /\ UNCHANGED baud_selector

WriteTx ==
    /\ latch.addr = "TX"
    /\ IF LaneEnabled /\ tx_full
       THEN UNCHANGED <<tx_buf, tx_buf_end, wdata_byte_idx, rvalid, device_state>>
       ELSE /\ tx_buf' = IF LaneEnabled
                         THEN [tx_buf EXCEPT ![tx_buf_end] = latch.bytes[wdata_byte_idx]]
                         ELSE tx_buf
            /\ tx_buf_end' = IF LaneEnabled THEN Inc(tx_buf_end) ELSE tx_buf_end
            /\ wdata_byte_idx' = (wdata_byte_idx + 1) % 4
            /\ IF wdata_byte_idx = 3
               THEN rvalid' = TRUE /\ device_state' = "WAIT"
               ELSE UNCHANGED <<rvalid, device_state>>
    /\ UNCHANGED baud_selector

WriteOther ==
    /\ latch.addr # "TX"
    /\ baud_selector' = IF latch.addr = "BAUD" THEN latch.baud ELSE baud_selector
    /\ rvalid' = TRUE
    /\ device_state' = "WAIT"
    /\ UNCHANGED <<tx_buf, tx_buf_end, wdata_byte_idx>>

Write ==
    /\ device_state = "WRITE"
    /\ WriteTx \/ WriteOther
    /\ UNCHANGED <<latch, rdata, rx_buf_start>>

BusFsm == Wait \/ Read \/ Write

-----------------------------------------------------------------------------
\* The transmitter.  The byte stays in the FIFO until its stop bit is over.

tx_o ==
    CASE tx_state = "START" -> FALSE
      [] tx_state = "DATA"  -> tx_data_latch[tx_data_count]
      [] OTHER              -> TRUE

TxHold == (~tx_baud \/ (tx_state = "IDLE" /\ tx_empty)) /\ UNCHANGED txVars

TxIdle ==
    /\ tx_state = "IDLE" /\ tx_baud /\ ~tx_empty
    /\ tx_data_latch' = tx_buf[tx_buf_start]
    /\ tx_state' = "START"
    /\ UNCHANGED <<tx_buf_start, tx_data_count>>

TxStart ==
    /\ tx_state = "START" /\ tx_baud
    /\ tx_data_count' = 0
    /\ tx_state' = "DATA"
    /\ UNCHANGED <<tx_buf_start, tx_data_latch>>

TxData ==
    /\ tx_state = "DATA" /\ tx_baud
    /\ IF tx_data_count = DataBits - 1
       THEN tx_state' = "STOP" /\ UNCHANGED tx_data_count
       ELSE tx_data_count' = tx_data_count + 1 /\ UNCHANGED tx_state
    /\ UNCHANGED <<tx_buf_start, tx_data_latch>>

\* Fault: the byte that was sent stays in the FIFO.
TxStopKeeps ==
    /\ tx_state = "STOP" /\ tx_baud
    /\ tx_state' = "IDLE"
    /\ UNCHANGED <<tx_buf_start, tx_data_latch, tx_data_count>>

TxStop ==
    /\ tx_state = "STOP" /\ tx_baud
    /\ tx_buf_start' = IF tx_empty THEN tx_buf_start ELSE Inc(tx_buf_start)
    /\ tx_state' = "IDLE"
    /\ UNCHANGED <<tx_data_latch, tx_data_count>>

TxFsm == TxHold \/ TxIdle \/ TxStart \/ TxData \/ TxStop

-----------------------------------------------------------------------------
\* The receiver, behind a two-flop synchroniser that resets to a low line.

line == rx_sync[1]

RxSynchronise == rx_sync' = <<rx_sync[2], rx_i>>

RxIdle ==
    /\ rx_state = "IDLE"
    /\ rx_state' = IF line THEN "IDLE" ELSE "START"
    /\ rx_restart_baud' = ~line
    /\ UNCHANGED <<rx_buf, rx_buf_end, rx_collecting, rx_collecting_count>>

\* Half a bit later the line must still be low, else it was a glitch.
RxStart ==
    /\ rx_state = "START"
    /\ rx_state' = IF ~rx_sample THEN "START" ELSE IF line THEN "IDLE" ELSE "DATA"
    /\ rx_restart_baud' = (rx_sample /\ ~line)
    /\ rx_collecting_count' = IF rx_sample /\ ~line THEN 0 ELSE rx_collecting_count
    /\ UNCHANGED <<rx_buf, rx_buf_end, rx_collecting>>

\* Fault: the bit index does not wrap after the last bit.
RxDataNoWrap ==
    /\ rx_state = "DATA"
    /\ rx_restart_baud' = FALSE
    /\ IF rx_baud
       THEN /\ rx_collecting' = [rx_collecting EXCEPT ![rx_collecting_count] = line]
            /\ rx_collecting_count' = rx_collecting_count + 1
            /\ rx_state' = IF rx_collecting_count = DataBits - 1 THEN "STOP" ELSE "DATA"
       ELSE UNCHANGED <<rx_collecting, rx_collecting_count, rx_state>>
    /\ UNCHANGED <<rx_buf, rx_buf_end>>

RxData ==
    /\ rx_state = "DATA"
    /\ rx_restart_baud' = FALSE
    /\ IF rx_baud
       THEN /\ rx_collecting' = [rx_collecting EXCEPT ![rx_collecting_count] = line]
            /\ rx_collecting_count' = (rx_collecting_count + 1) % DataBits
            /\ rx_state' = IF rx_collecting_count = DataBits - 1 THEN "STOP" ELSE "DATA"
       ELSE UNCHANGED <<rx_collecting, rx_collecting_count, rx_state>>
    /\ UNCHANGED <<rx_buf, rx_buf_end>>

\* Faults: the index moves although the FIFO is full, or only then.
RxStopOverruns ==
    /\ rx_state = "STOP"
    /\ rx_restart_baud' = FALSE
    /\ IF rx_baud /\ line
       THEN /\ rx_buf' = [rx_buf EXCEPT ![rx_buf_end] = rx_collecting]
            /\ rx_collecting' = ZeroByte
            /\ rx_buf_end' = Inc(rx_buf_end)
            /\ rx_state' = "IDLE"
       ELSE UNCHANGED <<rx_buf, rx_collecting, rx_buf_end, rx_state>>
    /\ UNCHANGED rx_collecting_count

RxStopWhenFull ==
    /\ rx_state = "STOP"
    /\ rx_restart_baud' = FALSE
    /\ IF rx_baud /\ line
       THEN /\ rx_buf' = [rx_buf EXCEPT ![rx_buf_end] = rx_collecting]
            /\ rx_collecting' = ZeroByte
            /\ rx_buf_end' = IF rx_full THEN Inc(rx_buf_end) ELSE rx_buf_end
            /\ rx_state' = "IDLE"
       ELSE UNCHANGED <<rx_buf, rx_collecting, rx_buf_end, rx_state>>
    /\ UNCHANGED rx_collecting_count

\* The byte is written to the free cell even when the FIFO is full; only the
\* index stays, so the newest byte is lost.  A low stop bit is waited out.
RxStop ==
    /\ rx_state = "STOP"
    /\ rx_restart_baud' = FALSE
    /\ IF rx_baud /\ line
       THEN /\ rx_buf' = [rx_buf EXCEPT ![rx_buf_end] = rx_collecting]
            /\ rx_collecting' = ZeroByte
            /\ rx_buf_end' = IF rx_full THEN rx_buf_end ELSE Inc(rx_buf_end)
            /\ rx_state' = "IDLE"
       ELSE UNCHANGED <<rx_buf, rx_collecting, rx_buf_end, rx_state>>
    /\ UNCHANGED rx_collecting_count

RxFsm == RxSynchronise /\ (RxIdle \/ RxStart \/ RxData \/ RxStop)

-----------------------------------------------------------------------------

Edge == BaudCounters /\ BusFsm /\ TxFsm /\ RxFsm

\* Reset.  The buffers and rdata_o have no reset value; nothing reads them
\* before it is written.
Init ==
    /\ device_state = "WAIT"
    /\ latch = [we |-> FALSE, addr |-> "STS", be |-> {},
                bytes |-> [l \in Lane |-> ZeroByte], baud |-> Disabled]
    /\ wdata_byte_idx = 0 /\ rvalid = FALSE
    /\ rdata = [reg |-> "NONE", val |-> ZeroByte]
    /\ baud_selector = Disabled
    /\ tx_buf = [c \in Cell |-> ZeroByte] /\ tx_buf_start = 0 /\ tx_buf_end = 0
    /\ tx_state = "IDLE" /\ tx_data_latch = ZeroByte /\ tx_data_count = 0
    /\ rx_buf = [c \in Cell |-> ZeroByte] /\ rx_buf_start = 0 /\ rx_buf_end = 0
    /\ rx_state = "IDLE" /\ rx_sync = <<FALSE, FALSE>>
    /\ rx_collecting = ZeroByte /\ rx_collecting_count = 0
    /\ rx_restart_baud = FALSE
    /\ tx_baud_counter = 0 /\ rx_baud_counter = 0
    /\ req = None
    /\ rx_i = TRUE

TxState == {"IDLE", "START", "DATA", "STOP"}

TypeOK ==
    /\ device_state \in {"WAIT", "READ", "WRITE"}
    /\ latch \in Request
    /\ wdata_byte_idx \in Lane
    /\ rvalid \in BOOLEAN
    /\ rdata.reg \in Register \cup {"NONE"}
    /\ baud_selector \in Selector
    /\ tx_buf \in [Cell -> Byte] /\ tx_buf_start \in Cell /\ tx_buf_end \in Cell
    /\ tx_state \in TxState /\ tx_data_latch \in Byte
    /\ tx_data_count \in 0 .. DataBits - 1
    /\ rx_buf \in [Cell -> Byte] /\ rx_buf_start \in Cell /\ rx_buf_end \in Cell
    /\ rx_state \in TxState /\ rx_sync \in BOOLEAN \X BOOLEAN
    /\ rx_collecting \in Byte /\ rx_collecting_count \in 0 .. DataBits - 1
    /\ rx_restart_baud \in BOOLEAN
    /\ tx_baud_counter \in Count /\ rx_baud_counter \in Count
    /\ req \in Request \cup {None}
    /\ rx_i \in BOOLEAN
=============================================================================
