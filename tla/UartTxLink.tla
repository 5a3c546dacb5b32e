----------------------------- MODULE UartTxLink -----------------------------
(***************************************************************************)
(* Transmission end to end: an OBI host writes bytes to the UART, the      *)
(* decoder of the simulation (dv/verilator/peripherals/sim_uart.hpp)       *)
(* listens on tx_o, and the scoreboard of the UVM environment              *)
(* (dv/uvm/obi_uart/obi_uart_scoreboard.svh) compares what it hears with   *)
(* what was written.  The serial input stays idle.                         *)
(***************************************************************************)
EXTENDS UartObi

CONSTANTS
    Word,            \* the words the host writes
    Enable,          \* the byte enables it uses
    Baud,            \* the selector the firmware programs
    BootCycles,      \* BAUD is written at the latest this long after reset
    BaudFirst        \* the host writes no bytes before it has set the baud rate

ASSUME LinkAssumption ==
    /\ Word \subseteq [Lane -> Byte]
    /\ Enable \subseteq SUBSET Lane
    /\ Baud \in Selector
    /\ BootCycles \in Nat
    /\ BaudFirst \in BOOLEAN

\* The decoder counts a cycle less per bit than the transmitter, so its sample
\* moves from the middle of the start bit towards the edge of the stop bit.  It
\* gets there only after half a bit of bits: 108 of them at the highest rate,
\* 50 MHz / 230400.
ASSUME SampleAssumption == (Divisor[Baud] - 1) \div 2 > DataBits

VARIABLES
    dec,             \* the decoder: state, ticks, bit, val
    heard,           \* the byte it reported in the last cycle, or None
    tx_expected      \* bytes written and not yet heard, oldest first

linkVars == <<vars, dec, heard, tx_expected>>

-----------------------------------------------------------------------------
\* UARTDecoder::tick with ticks_per_baud equal to the divisor.

Tpb == Divisor[Baud]

DecIdle(in) ==
    /\ dec.state = "IDLE"
    /\ dec' = IF in THEN dec ELSE [state |-> "START", ticks |-> 0, bit |-> 0, val |-> ZeroByte]
    /\ heard' = None

DecStart ==
    /\ dec.state = "START"
    /\ dec' = IF dec.ticks + 1 = (Tpb - 1) \div 2
              THEN [dec EXCEPT !.state = "DATA", !.ticks = 0, !.bit = 0]
              ELSE [dec EXCEPT !.ticks = @ + 1]
    /\ heard' = None

DecData(in) ==
    /\ dec.state = "DATA"
    /\ dec' = IF dec.ticks + 1 = Tpb - 1
              THEN [state |-> IF dec.bit + 1 = DataBits THEN "STOP" ELSE "DATA",
                    ticks |-> 0, bit |-> dec.bit + 1,
                    val |-> [dec.val EXCEPT ![dec.bit] = in]]
              ELSE [dec EXCEPT !.ticks = @ + 1]
    /\ heard' = None

\* Idle again, with the counters back at rest: nothing reads them there.
Silent == [state |-> "IDLE", ticks |-> 0, bit |-> 0, val |-> ZeroByte]

DecStop ==
    /\ dec.state = "STOP"
    /\ IF dec.ticks + 1 = Tpb - 1
       THEN dec' = Silent /\ heard' = dec.val
       ELSE dec' = [dec EXCEPT !.ticks = @ + 1] /\ heard' = None

DecoderTick == DecIdle(tx_o) \/ DecStart \/ DecData(tx_o) \/ DecStop

-----------------------------------------------------------------------------
\* The scoreboard: the enabled bytes of a TX write are expected on the line,
\* each from when the write is done with its lane, whatever the FIFO does with
\* it; a byte that is heard is struck off.

LeavesLane ==
    /\ device_state = "WRITE" /\ latch.addr = "TX" /\ LaneEnabled
    /\ wdata_byte_idx' # wdata_byte_idx

StruckOff == IF heard' # None /\ tx_expected # <<>> THEN Tail(tx_expected) ELSE tx_expected

Scoreboard ==
    tx_expected' = IF LeavesLane THEN Append(StruckOff, latch.bytes[wdata_byte_idx]) ELSE StruckOff

-----------------------------------------------------------------------------
\* The host.  Firmware programs the baud rate first (main.c:98), then writes.

Blank == [we |-> TRUE, addr |-> "BAUD", be |-> Lane,
          bytes |-> [l \in Lane |-> ZeroByte], baud |-> Baud]

Raise(r) == req = None /\ req' = r /\ UNCHANGED <<uartVars, rx_i, dec, heard, tx_expected>>

WriteBaud ==
    /\ baud_selector = Disabled
    /\ device_state = "WAIT" /\ ~rvalid
    /\ tx_baud_counter <= BootCycles
    /\ Raise(Blank)

WriteBytes(w, be) ==
    /\ BaudFirst => baud_selector # Disabled
    /\ Raise([Blank EXCEPT !.addr = "TX", !.be = be, !.bytes = w])

Clock ==
    /\ Edge
    /\ req' = IF gnt_o THEN None ELSE req
    /\ UNCHANGED rx_i
    /\ DecoderTick
    /\ Scoreboard

TxInit ==
    /\ Init
    /\ dec = Silent
    /\ heard = None
    /\ tx_expected = <<>>

Next ==
    \/ WriteBaud
    \/ \E w \in Word, be \in Enable : WriteBytes(w, be)
    \/ Clock

Spec == TxInit /\ [][Next]_linkVars

\* The clock runs; the host need not write.
FairSpec == Spec /\ WF_linkVars(Clock)

-----------------------------------------------------------------------------

LinkTypeOK ==
    /\ TypeOK
    /\ dec.state \in TxState /\ dec.ticks \in 0 .. Tpb /\ dec.bit \in 0 .. DataBits
    /\ dec.val \in Byte
    /\ heard \in Byte \cup {None}
    /\ tx_expected \in Seq(Byte)

\* The transmitter works on the byte at the head of the FIFO and nobody
\* overwrites or removes it meanwhile: the "buffer is empty" branch of STOP
\* (uart_obi.sv:266) is never taken.
SendsTheHead ==
    tx_state # "IDLE" => ~tx_empty /\ tx_buf[tx_buf_start] = tx_data_latch

\* What is heard is what was written, in order and once: no frame is heard
\* when none is expected (obi_uart_scoreboard.svh, write_dut_tx).
HeardAsWritten ==
    [][Clock /\ heard' # None => tx_expected # <<>> /\ heard' = Head(tx_expected)]_linkVars

\* A baud counter that stands below the limit it is compared with never passes
\* it: it would have to run around all 32 bits before the next bit.  Only BAUD,
\* written when a counter is already beyond the new limit, strands it.
InRange == ClksPerBit # 0 /\ tx_baud_counter < ClksPerBit /\ rx_baud_counter < ClksPerBit

CountersStayInRange == [][InRange => InRange']_linkVars

\* A word write that waits for room in the FIFO is answered in the end.
WritesComplete == device_state = "WRITE" ~> rvalid

\* Every byte that was written is heard in the end.
WrittenIsHeard == tx_expected # <<>> ~> heard # None

\* BAUD_DISABLED holds the transmitter where it is: the comment on it says
\* "0 => DISABLED; stalls tx and rx" (uart_obi.sv:91).
DisabledStallsTx ==
    [][baud_selector = Disabled => UNCHANGED <<tx_state, tx_buf_start>>]_linkVars
=============================================================================
