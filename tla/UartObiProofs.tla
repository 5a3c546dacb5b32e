---------------------------- MODULE UartObiProofs ----------------------------
(***************************************************************************)
(* Proofs about the UART on its own, for every FIFO depth, frame length    *)
(* and width of the baud counters: what one clock edge of its four         *)
(* always_ff blocks keeps, whatever is connected to its lines.             *)
(***************************************************************************)
EXTENDS UartObi, TLAPS

-----------------------------------------------------------------------------
(* The operators the blocks are built from.                                *)

\* The FIFO indices wrap at BufferLength.
LEMMA IncInCell ==
    ASSUME NEW i \in Cell
    PROVE  Inc(i) \in Cell
BY SizeAssumption DEF Cell, Inc

\* The cell i places after cell s.
After(s, i) == IF s + i >= BufferLength THEN s + i - BufferLength ELSE s + i

\* Cells are counted round the buffer: Inc, which the code uses for the
\* indices, is the step of this count.
LEMMA AfterIsCell ==
    ASSUME NEW s \in Cell, NEW i \in Nat, i < BufferLength
    PROVE  /\ After(s, i) \in Cell
           /\ After(s, 0) = s
           /\ i + 1 < BufferLength => /\ Inc(After(s, i)) = After(s, i + 1)
                                      /\ After(Inc(s), i) = After(s, i + 1)
           /\ \A j \in Nat : j < i => After(s, j) # After(s, i)
BY SizeAssumption DEF After, Cell, Inc

\* The baud counters wrap at CounterMax, also when they are compared with the
\* count before zero.
LEMMA CountUpInCount ==
    ASSUME NEW n \in Count
    PROVE  CountUp(n) \in Count /\ 0 \in Count
BY SizeAssumption DEF Count, CountUp

\* All bits low is a byte; so is a byte after one of its bits was set.
LEMMA ByteUpdate ==
    /\ ZeroByte \in Byte
    /\ \A b \in Byte, i \in 0 .. DataBits - 1, x \in BOOLEAN : [b EXCEPT ![i] = x] \in Byte
BY DEF ZeroByte, Byte

\* Two bytes are equal when their bits are.
LEMMA SameBits ==
    ASSUME NEW a \in Byte, NEW b \in Byte, \A i \in 0 .. DataBits - 1 : a[i] = b[i]
    PROVE  a = b
<1>1. /\ a = [i \in 0 .. DataBits - 1 |-> a[i]]
      /\ b = [i \in 0 .. DataBits - 1 |-> b[i]]
  BY DEF Byte
<1> QED BY <1>1

\* The serial output is a level in every state of the transmitter.
LEMMA TxLevel ==
    ASSUME tx_data_latch \in Byte, tx_data_count \in 0 .. DataBits - 1
    PROVE  /\ tx_o \in BOOLEAN
           /\ tx_state = "START" => tx_o = FALSE
           /\ tx_state = "DATA" => tx_o = tx_data_latch[tx_data_count]
           /\ tx_state \in {"IDLE", "STOP"} => tx_o = TRUE
<1>1. tx_data_latch[tx_data_count] \in BOOLEAN
  BY DEF Byte
<1>2. /\ tx_state = "START" => tx_o = FALSE
      /\ tx_state = "DATA" => tx_o = tx_data_latch[tx_data_count]
      /\ tx_state \notin {"START", "DATA"} => tx_o = TRUE
  BY Zenon DEF tx_o
<1> QED BY <1>1, <1>2

\* The register a read names is one of those the read multiplexer knows.
LEMMA ReadDataRegister ==
    /\ ReadData.reg \in Register \cup {"NONE"}
    /\ latch.addr = "STS" => ReadData = [reg |-> "STS", val |-> Status]
    /\ latch.addr = "RX" =>
            ReadData = [reg |-> "RX", val |-> IF rx_empty THEN ZeroByte
                                              ELSE rx_buf[rx_buf_start]]
<1>1. CASE latch.addr = "RX"
  <2>1. ReadData = [reg |-> "RX", val |-> IF rx_empty THEN ZeroByte
                                          ELSE rx_buf[rx_buf_start]]
    BY <1>1, Zenon DEF ReadData
  <2> QED BY <1>1, <2>1 DEF Register
<1>2. CASE latch.addr = "BAUD"
  <2>1. ReadData = [reg |-> "BAUD", val |-> baud_selector]
    BY <1>2, Zenon DEF ReadData
  <2> QED BY <1>2, <2>1 DEF Register
<1>3. CASE latch.addr = "STS"
  <2>1. ReadData = [reg |-> "STS", val |-> Status]
    BY <1>3, Zenon DEF ReadData
  <2> QED BY <1>3, <2>1 DEF Register
<1>4. CASE latch.addr \notin {"RX", "BAUD", "STS"}
  <2>1. ReadData = [reg |-> "NONE", val |-> ZeroByte]
    BY <1>4, Zenon DEF ReadData
  <2> QED BY <1>4, <2>1 DEF Register
<1> QED BY <1>1, <1>2, <1>3, <1>4

-----------------------------------------------------------------------------
(* Type correctness, block by block.                                       *)

BusTyped ==
    /\ device_state \in {"WAIT", "READ", "WRITE"}
    /\ latch \in Request
    /\ wdata_byte_idx \in Lane
    /\ rvalid \in BOOLEAN
    /\ rdata.reg \in Register \cup {"NONE"}
    /\ baud_selector \in Selector
    /\ tx_buf \in [Cell -> Byte] /\ tx_buf_end \in Cell
    /\ rx_buf_start \in Cell

TxTyped ==
    /\ tx_buf_start \in Cell
    /\ tx_state \in TxState /\ tx_data_latch \in Byte
    /\ tx_data_count \in 0 .. DataBits - 1

RxTyped ==
    /\ rx_buf \in [Cell -> Byte] /\ rx_buf_end \in Cell
    /\ rx_state \in TxState /\ rx_sync \in BOOLEAN \X BOOLEAN
    /\ rx_collecting \in Byte /\ rx_collecting_count \in 0 .. DataBits - 1
    /\ rx_restart_baud \in BOOLEAN

BaudTyped == tx_baud_counter \in Count /\ rx_baud_counter \in Count

LinesTyped == req \in Request \cup {None} /\ rx_i \in BOOLEAN

\* Each block has registers of its own.
LEMMA TypedParts ==
    TypeOK <=> BusTyped /\ TxTyped /\ RxTyped /\ BaudTyped /\ LinesTyped
BY DEF TypeOK, BusTyped, TxTyped, RxTyped, BaudTyped, LinesTyped

\* Reset.
LEMMA InitTyped == Init => TypeOK
<1> SUFFICES ASSUME Init PROVE TypeOK
  OBVIOUS
<1>1. ZeroByte \in Byte /\ 0 \in Cell /\ 0 \in Count /\ 0 \in Lane /\ 0 \in 0 .. DataBits - 1
  BY ByteUpdate, SizeAssumption DEF Cell, Count, Lane
<1>2. latch \in Request
  BY <1>1, DivisorAssumption DEF Init, Request, Register
<1>3. rdata.reg = "NONE"
  BY DEF Init
<1> QED
  BY <1>1, <1>2, <1>3, DivisorAssumption DEF Init, TypeOK, TxState

\* The OBI side: a write of the lanes of TX, a read of the FIFO.
LEMMA BusStepTyped ==
    ASSUME BusTyped, LinesTyped, BusFsm
    PROVE  BusTyped'
<1> USE DEF BusTyped
<1>1. CASE Wait
  BY <1>1 DEF Wait, LinesTyped
<1>2. CASE Read
  <2>1. rdata'.reg \in Register \cup {"NONE"}
    BY <1>2, ReadDataRegister DEF Read
  <2>2. rx_buf_start' \in Cell
    BY <1>2, IncInCell DEF Read
  <2> QED BY <1>2, <2>1, <2>2 DEF Read
<1>3. CASE device_state = "WRITE" /\ WriteTx /\ UNCHANGED <<latch, rdata, rx_buf_start>>
  <2>1. (wdata_byte_idx + 1) % 4 \in Lane
    BY DEF Lane
  <2>2. latch.bytes[wdata_byte_idx] \in Byte
    BY DEF Request
  <2>3. Inc(tx_buf_end) \in Cell
    BY IncInCell
  <2>4. tx_buf' \in [Cell -> Byte] /\ tx_buf_end' \in Cell
    BY <1>3, <2>2, <2>3 DEF WriteTx
  <2>5. wdata_byte_idx' \in Lane /\ rvalid' \in BOOLEAN
        /\ device_state' \in {"WAIT", "READ", "WRITE"}
    BY <1>3, <2>1 DEF WriteTx
  <2> QED BY <1>3, <2>4, <2>5 DEF WriteTx
<1>4. CASE device_state = "WRITE" /\ WriteOther /\ UNCHANGED <<latch, rdata, rx_buf_start>>
  <2>1. baud_selector' \in Selector
    BY <1>4 DEF WriteOther, Request
  <2> QED BY <1>4, <2>1 DEF WriteOther
<1> QED BY <1>1, <1>2, <1>3, <1>4 DEF BusFsm, Write

\* The transmitter: its bit count wraps with the frame.
LEMMA TxStepTyped ==
    ASSUME TxTyped, BusTyped, TxFsm
    PROVE  TxTyped'
<1> USE DEF TxTyped
<1>1. 0 \in 0 .. DataBits - 1
  BY SizeAssumption
<1>2. CASE TxHold
  BY <1>2 DEF TxHold, txVars
<1>3. CASE TxIdle
  BY <1>3 DEF TxIdle, BusTyped, TxState
<1>4. CASE TxStart
  BY <1>1, <1>4 DEF TxStart, TxState
<1>5. CASE TxData
  BY <1>5, SizeAssumption DEF TxData, TxState
<1>6. CASE TxStop
  BY <1>6, IncInCell DEF TxStop, TxState
<1> QED BY <1>2, <1>3, <1>4, <1>5, <1>6 DEF TxFsm

\* The receiver: it collects bit by bit and stores the byte, or drops it.
LEMMA RxStepTyped ==
    ASSUME RxTyped, LinesTyped, RxFsm
    PROVE  RxTyped'
<1> USE DEF RxTyped
<1>1. rx_sync' \in BOOLEAN \X BOOLEAN /\ line \in BOOLEAN
  BY DEF RxFsm, RxSynchronise, LinesTyped, line
<1>2. 0 \in 0 .. DataBits - 1
  BY SizeAssumption
<1>3. CASE RxIdle
  BY <1>1, <1>3 DEF RxIdle, TxState
<1>4. CASE RxStart
  <2>1. rx_restart_baud' \in BOOLEAN
    BY <1>4 DEF RxStart
  <2> QED BY <1>1, <1>2, <1>4, <2>1 DEF RxStart, TxState
<1>5. CASE RxData
  <2>1. rx_collecting' \in Byte
    BY <1>1, <1>5, ByteUpdate DEF RxData
  <2>2. rx_collecting_count' \in 0 .. DataBits - 1
    <3>1. (rx_collecting_count + 1) % DataBits \in 0 .. DataBits - 1
      BY SizeAssumption
    <3> QED BY <1>5, <3>1 DEF RxData
  <2> QED BY <1>1, <1>5, <2>1, <2>2 DEF RxData, TxState
<1>6. CASE RxStop
  <2>1. rx_buf' \in [Cell -> Byte] /\ rx_collecting' \in Byte
    BY <1>6, ByteUpdate DEF RxStop
  <2>2. rx_buf_end' \in Cell
    BY <1>6, IncInCell DEF RxStop
  <2> QED BY <1>1, <1>6, <2>1, <2>2 DEF RxStop, TxState
<1> QED BY <1>3, <1>4, <1>5, <1>6 DEF RxFsm

\* The baud counters.
LEMMA BaudStepTyped ==
    ASSUME BaudTyped, BaudCounters
    PROVE  BaudTyped'
BY CountUpInCount DEF BaudTyped, BaudCounters

\* Every register keeps its width at every edge, as long as the lines do.
LEMMA EdgeTyped ==
    ASSUME TypeOK, Edge, LinesTyped'
    PROVE  TypeOK'
<1>1. BusTyped' /\ TxTyped' /\ RxTyped' /\ BaudTyped'
  BY BusStepTyped, TxStepTyped, RxStepTyped, BaudStepTyped, TypedParts DEF Edge
<1> QED BY <1>1 DEF TypeOK, BusTyped, TxTyped, RxTyped, BaudTyped, LinesTyped
=============================================================================
