---------------------------- MODULE UartTxProofs ----------------------------
(***************************************************************************)
(* Proofs about transmission end to end, for every FIFO depth, frame       *)
(* length, divisor and set of words: the registers keep their widths, the  *)
(* transmitter sends the byte at the head of its FIFO, the baud counters   *)
(* stay in range, and the peer hears what was written, in order and once.  *)
(***************************************************************************)
EXTENDS UartTxLink, UartObiProofs

-----------------------------------------------------------------------------
(* The inductive invariant.                                                *)

Half == (Tpb - 1) \div 2

\* The decoder's counters stop at their limits.
DecTyped ==
    /\ dec \in [state : TxState, ticks : 0 .. Tpb, bit : 0 .. DataBits, val : Byte]
    /\ dec.state = "START" => dec.ticks < Half
    /\ dec.state = "DATA" => dec.bit < DataBits /\ dec.ticks < Tpb - 1
    /\ dec.state = "STOP" => dec.bit = DataBits /\ dec.ticks < Tpb - 1
    /\ heard \in Byte \cup {None}
    /\ tx_expected \in Seq(Byte)

\* BAUD is written once, from the disabled state: no second write is on the
\* lines or latched when it has been carried out.
BaudOnce ==
    /\ req # None /\ req.addr = "BAUD" =>
            baud_selector = Disabled /\ device_state = "WAIT" /\ req.baud = Baud
    /\ device_state = "WRITE" /\ latch.addr = "BAUD" =>
            baud_selector = Disabled /\ latch.baud = Baud
    /\ baud_selector \in {Disabled, Baud}

\* Until then the transmitter has nothing to send.
QuietUntilSet ==
    baud_selector = Disabled =>
        /\ tx_state = "IDLE" /\ tx_empty
        /\ req # None => req.addr = "BAUD"
        /\ device_state = "WRITE" => latch.addr = "BAUD"

\* The bit of the frame on the line: the start bit is 0, the stop bit the last.
BitOf(k, state, count) ==
    \/ k = 0 /\ state = "START"
    \/ state = "DATA" /\ k = count + 1
    \/ k = DataBits + 1 /\ state = "STOP"

BitIs(k) == BitOf(k, tx_state, tx_data_count)

\* The decoder has taken b bits and counted t since: the transmitter has come
\* as far, or one bit further.
InStep(b, t) ==
    \/ BitIs(b) /\ tx_baud_counter = 1 + Half - b + t
    \/ BitIs(b + 1) /\ tx_baud_counter + Tpb = 1 + Half - b + t

\* Where the decoder is in the frame, and what it has taken of it.
FrameInStep ==
    /\ tx_state # "IDLE" => tx_baud_counter < Tpb
    /\ dec.state = "IDLE" =>
            tx_state \in {"IDLE", "STOP"} \/ (tx_state = "START" /\ tx_baud_counter = 0)
    /\ dec.state = "START" => tx_state = "START" /\ tx_baud_counter = 1 + dec.ticks
    /\ dec.state \in {"DATA", "STOP"} =>
            /\ InStep(dec.bit, dec.ticks)
            /\ \A i \in 0 .. DataBits - 1 : i < dec.bit => dec.val[i] = tx_data_latch[i]

\* The FIFO holds the bytes of q behind the first h.
Holds(h, s, e, buf, q) ==
    /\ Len(q) + h < BufferLength
    /\ e = After(s, Len(q) + h)
    /\ \A i \in 1 .. Len(q) : q[i] = buf[After(s, i - 1 + h)]

\* The frame on the line has been heard and its byte not yet removed.
HeadIsHeard == tx_state = "STOP" /\ dec.state = "IDLE"

\* The scoreboard waits for the bytes in the FIFO, without the one just heard.
FifoIsExpected ==
    /\ ~HeadIsHeard => Holds(0, tx_buf_start, tx_buf_end, tx_buf, tx_expected)
    /\ HeadIsHeard => Holds(1, tx_buf_start, tx_buf_end, tx_buf, tx_expected)

FrameInv == QuietUntilSet /\ FrameInStep /\ FifoIsExpected

-----------------------------------------------------------------------------
(* Types, the head of the FIFO and the single BAUD write.                  *)

TxInv == TypeOK /\ DecTyped /\ SendsTheHead /\ BaudOnce

\* What SampleAssumption says in the decoder's terms.
LEMMA HalfABit ==
    /\ Tpb \in Nat /\ Half \in Nat
    /\ DataBits < Half /\ 2 * Half < Tpb /\ Tpb < CounterMax
<1>1. Tpb \in 0 .. CounterMax - 1
  BY DivisorAssumption, LinkAssumption DEF Tpb
<1>2. Half > DataBits
  BY SampleAssumption DEF Half, Tpb
<1> HIDE DEF Tpb
<1> QED BY <1>1, <1>2, SizeAssumption DEF Half

\* What the host puts on the lines is a write of BAUD or of TX.
LEMMA BlankIsRequest ==
    /\ Blank \in Request
    /\ \A w \in Word, be \in Enable :
            [Blank EXCEPT !.addr = "TX", !.be = be, !.bytes = w] \in Request
BY LinkAssumption, ByteUpdate DEF Blank, Request, Register

\* Every cycle of the decoder keeps its counters below their limits and reports
\* a byte or nothing.
LEMMA DecoderTyped ==
    ASSUME DecTyped, TxTyped, DecoderTick
    PROVE  /\ dec' \in [state : TxState, ticks : 0 .. Tpb, bit : 0 .. DataBits, val : Byte]
           /\ dec'.state = "START" => dec'.ticks < Half
           /\ dec'.state = "DATA" => dec'.bit < DataBits /\ dec'.ticks < Tpb - 1
           /\ dec'.state = "STOP" => dec'.bit = DataBits /\ dec'.ticks < Tpb - 1
           /\ heard' \in Byte \cup {None}
<1> DEFINE T == Tpb
<1> HIDE DEF T
<1>1. T \in Nat /\ Half \in Nat /\ DataBits < Half /\ 2 * Half < T
  BY HalfABit DEF T
<1>2. tx_o \in BOOLEAN
  BY TxLevel DEF TxTyped
<1>3. ZeroByte \in Byte
  BY ByteUpdate
<1>4. /\ dec \in [state : TxState, ticks : 0 .. T, bit : 0 .. DataBits, val : Byte]
      /\ dec.state = "START" => dec.ticks < Half
      /\ dec.state = "DATA" => dec.bit < DataBits /\ dec.ticks < T - 1
      /\ dec.state = "STOP" => dec.bit = DataBits /\ dec.ticks < T - 1
      /\ heard \in Byte \cup {None}
  BY DEF DecTyped, T
<1>5. CASE DecIdle(tx_o)
  BY <1>1, <1>3, <1>4, <1>5, SizeAssumption DEF DecIdle, TxState, T
<1>6. CASE DecStart
  <2>1. dec' = IF dec.ticks + 1 = Half THEN [dec EXCEPT !.state = "DATA", !.ticks = 0, !.bit = 0]
               ELSE [dec EXCEPT !.ticks = @ + 1]
    BY <1>6 DEF DecStart, Half
  <2>2. dec.state = "START" /\ heard' = None
    BY <1>6 DEF DecStart
  <2>3. CASE dec.ticks + 1 = Half
    <3>1. dec' = [dec EXCEPT !.state = "DATA", !.ticks = 0, !.bit = 0]
      BY <2>1, <2>3
    <3>2. 0 \in 0 .. T /\ 0 \in 0 .. DataBits /\ 0 < DataBits /\ 0 < T - 1
      BY <1>1, SizeAssumption
    <3> QED BY <1>4, <2>2, <3>1, <3>2 DEF TxState, T
  <2>4. CASE dec.ticks + 1 # Half
    BY <1>1, <1>4, <2>1, <2>2, <2>4 DEF TxState, T
  <2> QED BY <2>3, <2>4
<1>7. CASE DecData(tx_o)
  <2>1. [dec.val EXCEPT ![dec.bit] = tx_o] \in Byte
    <3>1. dec.bit \in 0 .. DataBits - 1 /\ dec.val \in Byte
      BY <1>4, <1>7, SizeAssumption DEF DecData
    <3> QED BY <1>2, <3>1, ByteUpdate
  <2>2. dec' = IF dec.ticks + 1 = T - 1
               THEN [state |-> IF dec.bit + 1 = DataBits THEN "STOP" ELSE "DATA",
                     ticks |-> 0, bit |-> dec.bit + 1,
                     val |-> [dec.val EXCEPT ![dec.bit] = tx_o]]
               ELSE [dec EXCEPT !.ticks = @ + 1]
    BY <1>7 DEF DecData, T
  <2> QED BY <1>1, <1>4, <1>7, <2>1, <2>2, SizeAssumption DEF DecData, TxState, T
<1>8. CASE DecStop
  <2>1. CASE dec.ticks + 1 = T - 1
    BY <1>1, <1>3, <1>4, <1>8, <2>1, SizeAssumption DEF DecStop, TxState, T, Silent
  <2>2. CASE dec.ticks + 1 # T - 1
    BY <1>1, <1>4, <1>8, <2>2 DEF DecStop, TxState, T
  <2> QED BY <2>1, <2>2
<1> QED BY <1>5, <1>6, <1>7, <1>8 DEF DecoderTick

\* The scoreboard's queue holds bytes.
LEMMA ScoreboardTyped ==
    ASSUME TypeOK, tx_expected \in Seq(Byte), Scoreboard
    PROVE  /\ StruckOff \in Seq(Byte)
           /\ tx_expected' \in Seq(Byte)
<1>1. StruckOff \in Seq(Byte)
  BY DEF StruckOff
<1>2. latch.bytes[wdata_byte_idx] \in Byte
  BY DEF TypeOK, Request
<1> HIDE DEF StruckOff
<1> QED BY <1>1, <1>2 DEF Scoreboard

\* A bus write touches neither the byte at the head of a FIFO that is not empty
\* nor makes the FIFO empty.
LEMMA WriteKeepsHead ==
    ASSUME BusTyped, BusFsm, tx_buf_start \in Cell, ~tx_empty
    PROVE  /\ tx_buf'[tx_buf_start] = tx_buf[tx_buf_start]
           /\ tx_buf_end' # tx_buf_start
<1>1. CASE Wait \/ Read
  BY <1>1 DEF Wait, Read, tx_empty
<1>2. CASE Write /\ WriteOther
  BY <1>2 DEF Write, WriteOther, tx_empty
<1>3. CASE Write /\ WriteTx
  <2>1. CASE LaneEnabled /\ ~tx_full
    BY <1>3, <2>1 DEF Write, WriteTx, BusTyped, tx_empty, tx_full
  <2>2. CASE ~(LaneEnabled /\ ~tx_full)
    BY <1>3, <2>2 DEF Write, WriteTx, tx_empty
  <2> QED BY <2>1, <2>2
<1> QED BY <1>1, <1>2, <1>3 DEF BusFsm, Write

\* The transmitter latches the byte at the head when it starts a frame and
\* removes it when it ends it; no write comes between.
LEMMA EdgeSendsTheHead ==
    ASSUME TypeOK, SendsTheHead, BusFsm, TxFsm
    PROVE  SendsTheHead'
<1>1. ~tx_empty => /\ tx_buf'[tx_buf_start] = tx_buf[tx_buf_start]
                   /\ tx_buf_end' # tx_buf_start
  BY WriteKeepsHead DEF TypeOK, BusTyped
<1>2. CASE TxHold
  BY <1>1, <1>2 DEF TxHold, txVars, SendsTheHead, tx_empty
<1>3. CASE TxIdle
  BY <1>1, <1>3 DEF TxIdle, SendsTheHead, tx_empty
<1>4. CASE TxStart \/ TxData
  BY <1>1, <1>4 DEF TxStart, TxData, SendsTheHead, tx_empty
<1>5. CASE TxStop
  BY <1>5 DEF TxStop, SendsTheHead
<1> QED BY <1>2, <1>3, <1>4, <1>5 DEF TxFsm

\* A step of the host changes only the request lines.
LEMMA HostStep ==
    ASSUME WriteBaud \/ \E w \in Word, be \in Enable : WriteBytes(w, be)
    PROVE  /\ UNCHANGED <<uartVars, rx_i, dec, heard, tx_expected>>
           /\ req = None
           /\ req' \in Request
           /\ WriteBaud => req'.addr = "BAUD" /\ req'.baud = Baud
           /\ ~WriteBaud => req'.addr = "TX" /\ (BaudFirst => baud_selector # Disabled)
<1>1. CASE WriteBaud
  BY <1>1, BlankIsRequest DEF WriteBaud, Raise, Blank
<1>2. CASE ~WriteBaud
  <2>1. PICK w \in Word, be \in Enable : WriteBytes(w, be)
    BY <1>2
  <2>2. req' = [Blank EXCEPT !.addr = "TX", !.be = be, !.bytes = w]
    BY <2>1 DEF WriteBytes, Raise
  <2>3. req'.addr = "TX"
    BY <2>2 DEF Blank
  <2>4. [Blank EXCEPT !.addr = "TX", !.be = be, !.bytes = w] \in Request
    BY BlankIsRequest, Zenon
  <2>5. req' \in Request
    BY <2>2, <2>4, Zenon
  <2> QED BY <1>2, <2>1, <2>3, <2>5 DEF WriteBytes, Raise
<1> QED BY <1>1, <1>2

\* Reset.
LEMMA InitTxInv == TxInit => TxInv
<1> SUFFICES ASSUME TxInit PROVE TxInv
  OBVIOUS
<1>1. TypeOK
  BY InitTyped DEF TxInit
<1>2. DecTyped
  BY HalfABit, ByteUpdate, SizeAssumption DEF TxInit, DecTyped, Silent, TxState
<1>3. SendsTheHead /\ BaudOnce
  BY DEF TxInit, Init, SendsTheHead, BaudOnce
<1> QED BY <1>1, <1>2, <1>3 DEF TxInv

\* The inductive step.
LEMMA StepTxInv == TxInv /\ [Next]_linkVars => TxInv'
<1> SUFFICES ASSUME TxInv, [Next]_linkVars PROVE TxInv'
  OBVIOUS
<1> USE DEF TxInv
<1>1. CASE WriteBaud \/ \E w \in Word, be \in Enable : WriteBytes(w, be)
  <2>1. /\ UNCHANGED <<uartVars, rx_i, dec, heard, tx_expected>>
        /\ req' \in Request
        /\ WriteBaud => req'.addr = "BAUD" /\ req'.baud = Baud
        /\ ~WriteBaud => req'.addr = "TX"
    BY <1>1, HostStep
  <2>2. TypeOK' /\ DecTyped' /\ SendsTheHead'
    BY <2>1 DEF uartVars, busVars, txVars, rxVars, baudVars, TypeOK, DecTyped,
                SendsTheHead, tx_empty
  <2>3. WriteBaud => baud_selector = Disabled /\ device_state = "WAIT"
    BY DEF WriteBaud
  <2>4. BaudOnce'
    BY <2>1, <2>3 DEF uartVars, busVars, BaudOnce
  <2> QED BY <2>2, <2>4
<1>2. CASE Clock
  <2> USE <1>2 DEF Clock
  <2>1. TypeOK'
    <3>1. LinesTyped'
      BY DEF TypeOK, LinesTyped
    <3> QED BY <3>1, EdgeTyped
  <2>2. DecTyped'
    <3>1. tx_expected' \in Seq(Byte)
      BY ScoreboardTyped DEF DecTyped
    <3> QED BY <3>1, DecoderTyped, TypedParts DEF DecTyped
  <2>3. SendsTheHead'
    BY EdgeSendsTheHead DEF Edge
  <2>4. BaudOnce'
    <3>1. CASE Wait
      BY <3>1 DEF Wait, BaudOnce, gnt_o, TypeOK, Request
    <3>2. CASE Read
      BY <3>2 DEF Read, BaudOnce, gnt_o
    <3>3. CASE Write
      BY <3>3 DEF Write, WriteTx, WriteOther, BaudOnce, gnt_o
    <3> QED BY <3>1, <3>2, <3>3 DEF Edge, BusFsm
  <2> QED BY <2>1, <2>2, <2>3, <2>4
<1>3. CASE UNCHANGED linkVars
  BY <1>3 DEF linkVars, vars, uartVars, busVars, txVars, rxVars, baudVars, TypeOK, DecTyped,
              SendsTheHead, tx_empty, BaudOnce
<1> QED BY <1>1, <1>2, <1>3 DEF Next

\* The invariant of transmission that needs nothing of the timing.
THEOREM TxInvariant == Spec => []TxInv
BY InitTxInv, StepTxInv, PTL DEF Spec

\* Every register of the UART, the decoder and the scoreboard keeps its type;
\* the decoder's counters never pass the values they are compared with.
THEOREM LinkTypeCorrect == Spec => []LinkTypeOK
<1>1. TxInv => LinkTypeOK
  BY DEF TxInv, LinkTypeOK, DecTyped
<1> QED BY <1>1, TxInvariant, PTL

\* The transmitter works on the byte at the head of the FIFO until its stop bit
\* is over: the branch of STOP for an empty buffer (uart_obi.sv:266) is dead.
THEOREM HeadIsSent == Spec => []SendsTheHead
<1>1. TxInv => SendsTheHead
  BY DEF TxInv
<1> QED BY <1>1, TxInvariant, PTL

-----------------------------------------------------------------------------
(* The baud counters.                                                      *)

\* A baud counter below its limit never passes it: BAUD, which could move the
\* limit under a running counter, is written only while there is no limit.
THEOREM CountersInRange == Spec => CountersStayInRange
<1>1. TxInv /\ [Next]_linkVars => (InRange => InRange')
  <2> SUFFICES ASSUME TxInv, [Next]_linkVars, InRange PROVE InRange'
    OBVIOUS
  <2>1. CASE WriteBaud \/ \E w \in Word, be \in Enable : WriteBytes(w, be)
    BY <2>1, HostStep DEF uartVars, busVars, baudVars, InRange, ClksPerBit
  <2>2. CASE Clock
    <3>1. baud_selector # Disabled
      BY DivisorAssumption DEF InRange, ClksPerBit
    <3>2. baud_selector' = baud_selector
      BY <2>2, <3>1 DEF Clock, Edge, BusFsm, Wait, Read, Write, WriteTx, WriteOther, TxInv,
                        BaudOnce
    <3>3. ClksPerBit' = ClksPerBit
      BY <3>2 DEF ClksPerBit
    <3>4. ClksPerBit \in Nat /\ ClksPerBit > 0
      BY DivisorAssumption DEF TxInv, TypeOK, InRange, ClksPerBit
    <3>5. tx_baud_counter' = IF tx_baud THEN 0 ELSE CountUp(tx_baud_counter)
      BY <2>2 DEF Clock, Edge, BaudCounters
    <3>6. rx_baud_counter' = IF rx_baud \/ rx_restart_baud THEN 0 ELSE CountUp(rx_baud_counter)
      BY <2>2 DEF Clock, Edge, BaudCounters
    <3>7. tx_baud_counter \in Nat /\ rx_baud_counter \in Nat
      BY DEF TxInv, TypeOK, Count
    <3> QED BY <3>3, <3>4, <3>5, <3>6, <3>7
            DEF InRange, CountUp, Before, tx_baud, rx_baud
  <2>3. CASE UNCHANGED linkVars
    BY <2>3 DEF linkVars, vars, uartVars, busVars, baudVars, InRange, ClksPerBit
  <2> QED BY <2>1, <2>2, <2>3 DEF Next
<1> QED BY <1>1, TxInvariant, PTL DEF Spec, CountersStayInRange

-----------------------------------------------------------------------------
(* The FIFO as a queue.                                                    *)

\* A byte written to a FIFO that is not full joins the queue at its end.
LEMMA HoldsPush ==
    ASSUME NEW h \in {0, 1}, NEW s \in Cell, NEW e \in Cell, NEW buf \in [Cell -> Byte],
           NEW q \in Seq(Byte), NEW b \in Byte, Holds(h, s, e, buf, q), Inc(e) # s
    PROVE  Holds(h, s, Inc(e), [buf EXCEPT ![e] = b], Append(q, b))
<1> DEFINE n == Len(q)
<1>1. n \in Nat /\ n + h < BufferLength /\ e = After(s, n + h)
  BY DEF Holds
<1>2. n + h + 1 < BufferLength
  BY <1>1, SizeAssumption DEF After, Inc, Cell
<1>3. Inc(e) = After(s, n + h + 1)
  BY <1>1, <1>2, AfterIsCell
<1>4. \A i \in 1 .. n : After(s, i - 1 + h) # e /\ After(s, i - 1 + h) \in Cell
  <2> TAKE i \in 1 .. n
  <2>1. i - 1 + h \in Nat /\ i - 1 + h < n + h /\ n + h \in Nat
    BY <1>1
  <2>2. i - 1 + h < BufferLength
    BY <1>1, <2>1, SizeAssumption
  <2> QED BY <1>1, <2>1, <2>2, AfterIsCell
<1>5. \A i \in 1 .. n : q[i] = buf[After(s, i - 1 + h)]
  BY DEF Holds
<1>6. /\ Len(Append(q, b)) = n + 1
      /\ \A i \in 1 .. n : Append(q, b)[i] = q[i]
      /\ Append(q, b)[n + 1] = b
  OBVIOUS
<1>7. \A i \in 1 .. n + 1 : Append(q, b)[i] = [buf EXCEPT ![e] = b][After(s, i - 1 + h)]
  <2> SUFFICES ASSUME NEW i \in 1 .. n + 1
               PROVE  Append(q, b)[i] = [buf EXCEPT ![e] = b][After(s, i - 1 + h)]
    OBVIOUS
  <2>1. CASE i = n + 1
    <3>1. i - 1 + h = n + h
      BY <1>1, <2>1
    <3> QED BY <1>1, <1>6, <2>1, <3>1
  <2>2. CASE i # n + 1
    <3>1. i \in 1 .. n
      BY <1>1, <2>2
    <3> QED BY <1>4, <1>5, <1>6, <3>1
  <2> QED BY <2>1, <2>2
<1> HIDE DEF n
<1>8. n + 1 + h = n + h + 1
  BY <1>1
<1> QED BY <1>2, <1>3, <1>6, <1>7, <1>8 DEF Holds

\* The byte at the head of the FIFO is the first of the queue; struck off the
\* queue, it stays in the FIFO in front of it.
LEMMA HoldsStrike ==
    ASSUME NEW s \in Cell, NEW e \in Cell, NEW buf \in [Cell -> Byte],
           NEW q \in Seq(Byte), Holds(0, s, e, buf, q), s # e
    PROVE  /\ q # <<>> /\ Head(q) = buf[s]
           /\ Holds(1, s, e, buf, Tail(q))
<1> DEFINE n == Len(q)
<1>1. n \in Nat /\ n < BufferLength /\ e = After(s, n)
  BY DEF Holds
<1>2. n # 0
  BY <1>1, AfterIsCell
<1>3. q # <<>> /\ Tail(q) \in Seq(Byte) /\ Len(Tail(q)) = n - 1
      /\ \A i \in 1 .. n - 1 : Tail(q)[i] = q[i + 1]
  BY <1>1, <1>2
<1>4. \A i \in 1 .. n : q[i] = buf[After(s, i - 1)]
  BY DEF Holds
<1>5. Head(q) = buf[s]
  <2>1. q[1] = buf[After(s, 0)]
    BY <1>1, <1>2, <1>4
  <2> QED BY <1>1, <1>3, <2>1, AfterIsCell
<1>6. \A i \in 1 .. n - 1 : Tail(q)[i] = buf[After(s, i - 1 + 1)]
  <2> TAKE i \in 1 .. n - 1
  <2>1. i + 1 \in 1 .. n /\ i + 1 - 1 = i - 1 + 1
    BY <1>1
  <2> QED BY <1>3, <1>4, <2>1
<1> HIDE DEF n
<1>7. n - 1 + 1 = n /\ n - 1 + 1 < BufferLength
  BY <1>1
<1> QED BY <1>1, <1>3, <1>5, <1>6, <1>7 DEF Holds

\* Removing it moves the start of the FIFO to the first of the queue.
LEMMA HoldsRemove ==
    ASSUME NEW s \in Cell, NEW e, NEW buf, NEW q \in Seq(Byte), Holds(1, s, e, buf, q)
    PROVE  Holds(0, Inc(s), e, buf, q) /\ s # e
<1> DEFINE n == Len(q)
<1>1. n \in Nat /\ n + 1 < BufferLength /\ e = After(s, n + 1)
  BY DEF Holds
<1>2. After(Inc(s), n + 0) = e /\ n + 0 < BufferLength
  BY <1>1, SizeAssumption DEF After, Inc, Cell
<1>3. \A i \in 1 .. n : q[i] = buf[After(s, i - 1 + 1)]
  BY DEF Holds
<1>4. \A i \in 1 .. n : After(Inc(s), i - 1 + 0) = After(s, i - 1 + 1)
  BY <1>1, SizeAssumption DEF After, Inc, Cell
<1>5. s # e
  BY <1>1, SizeAssumption DEF After, Cell
<1> HIDE DEF n
<1> QED BY <1>2, <1>3, <1>4, <1>5 DEF Holds, n

\* The write side of the FIFO moves exactly when the scoreboard expects a byte:
\* a write does not leave an enabled lane behind before its byte is in the FIFO.
LEMMA BusPushes ==
    ASSUME TypeOK, BusFsm
    PROVE  /\ LeavesLane =>
                 /\ tx_buf_end' = Inc(tx_buf_end) /\ ~tx_full
                 /\ tx_buf' = [tx_buf EXCEPT ![tx_buf_end] = latch.bytes[wdata_byte_idx]]
           /\ ~LeavesLane => UNCHANGED <<tx_buf, tx_buf_end>>
<1>1. CASE Wait \/ Read
  BY <1>1 DEF Wait, Read, LeavesLane
<1>2. CASE Write
  <2>1. (wdata_byte_idx + 1) % 4 # wdata_byte_idx
    BY DEF TypeOK, Lane
  <2> QED BY <1>2, <2>1 DEF Write, WriteTx, WriteOther, LeavesLane
<1> QED BY <1>1, <1>2 DEF BusFsm

-----------------------------------------------------------------------------
(* The frame on the line.                                                  *)

\* Until BAUD is written nothing enters the FIFO, when the host waits for that;
\* afterwards the selector stays what it is.
LEMMA EdgeQuiet ==
    ASSUME TxInv, QuietUntilSet, Clock
    PROVE  /\ QuietUntilSet'
           /\ baud_selector = Disabled => UNCHANGED <<txVars, tx_buf_end>>
           /\ baud_selector = Baud => baud_selector' = Baud
<1>1. Baud # Disabled
  BY HalfABit, DivisorAssumption DEF Tpb
<1>2. baud_selector \in {Disabled, Baud}
  BY DEF TxInv, BaudOnce
<1>3. CASE baud_selector = Disabled
  <2>1. tx_state = "IDLE" /\ tx_empty
    BY <1>3 DEF QuietUntilSet
  <2>2. UNCHANGED txVars
    BY <2>1 DEF Clock, Edge, TxFsm, TxHold, TxIdle, TxStart, TxData, TxStop
  <2>3. tx_buf_end' = tx_buf_end
    BY <1>3 DEF Clock, Edge, BusFsm, Wait, Read, Write, WriteTx, WriteOther, QuietUntilSet
  <2>4. baud_selector' = Disabled =>
            /\ req' # None => req'.addr = "BAUD"
            /\ device_state' = "WRITE" => latch'.addr = "BAUD"
    BY <1>1, <1>3 DEF Clock, Edge, BusFsm, Wait, Read, Write, WriteTx, WriteOther, gnt_o,
                      TxInv, BaudOnce, QuietUntilSet
  <2> QED BY <1>1, <1>3, <2>1, <2>2, <2>3, <2>4 DEF QuietUntilSet, txVars, tx_empty
<1>4. CASE baud_selector = Baud
  <2>1. baud_selector' = baud_selector
    BY <1>1, <1>4 DEF Clock, Edge, BusFsm, Wait, Read, Write, WriteTx, WriteOther, TxInv,
                      BaudOnce
  <2> QED BY <1>1, <1>4, <2>1 DEF QuietUntilSet
<1> QED BY <1>2, <1>3, <1>4

\* One clock edge of a frame: the counter moves on, or the next bit begins.
LEMMA NextBit ==
    ASSUME TxInv, QuietUntilSet, tx_state # "IDLE" => tx_baud_counter < Tpb,
           Clock, NEW k \in Nat, BitIs(k)
    PROVE  /\ tx_baud_counter \in Nat /\ tx_baud_counter < Tpb
           /\ k <= DataBits + 1
           /\ tx_data_latch' = tx_data_latch
           /\ tx_baud_counter # Tpb - 1 =>
                    BitIs(k)' /\ tx_baud_counter' = tx_baud_counter + 1 /\ UNCHANGED txVars
           /\ tx_baud_counter = Tpb - 1 /\ k < DataBits + 1 =>
                    BitIs(k + 1)' /\ tx_baud_counter' = 0 /\ tx_buf_start' = tx_buf_start
           /\ tx_baud_counter = Tpb - 1 /\ k = DataBits + 1 =>
                    /\ tx_state' = "IDLE"
                    /\ tx_buf_start' = IF tx_empty THEN tx_buf_start ELSE Inc(tx_buf_start)
<1>1. tx_state # "IDLE"
  BY DEF BitIs, BitOf
<1>2. baud_selector = Baud
  BY <1>1 DEF TxInv, BaudOnce, QuietUntilSet
<1>3. /\ Tpb \in Nat /\ 2 < Tpb /\ Tpb < CounterMax
      /\ tx_baud_counter \in Nat /\ tx_baud_counter < Tpb
  BY <1>1, HalfABit, SizeAssumption DEF TxInv, TypeOK, Count
<1>4. tx_baud <=> tx_baud_counter = Tpb - 1
  <2>1. ClksPerBit = Tpb
    BY <1>2 DEF ClksPerBit, Tpb
  <2> QED BY <1>3, <2>1 DEF tx_baud, Before
<1>5. tx_baud_counter' = IF tx_baud THEN 0 ELSE tx_baud_counter + 1
  <2>1. tx_baud_counter # CounterMax - 1
    BY <1>3, SizeAssumption
  <2> QED BY <2>1 DEF Clock, Edge, BaudCounters, CountUp
<1>6. tx_data_count \in 0 .. DataBits - 1 /\ DataBits \in Nat
  BY SizeAssumption DEF TxInv, TypeOK
<1>7. TxFsm
  BY DEF Clock, Edge
<1>8. CASE ~tx_baud
  <2>1. UNCHANGED txVars
    BY <1>7, <1>8 DEF TxFsm, TxHold, TxIdle, TxStart, TxData, TxStop
  <2>2. BitIs(k)'
    BY <2>1 DEF BitIs, BitOf, txVars
  <2> QED BY <1>3, <1>4, <1>5, <1>6, <1>8, <2>1, <2>2 DEF txVars, BitIs, BitOf
<1>9. CASE tx_baud
  <2>1. k <= DataBits + 1
    BY <1>6 DEF BitIs, BitOf
  <2>2. CASE tx_state = "START"
    BY <1>3, <1>4, <1>5, <1>6, <1>7, <1>9, <2>1, <2>2
       DEF TxFsm, TxHold, TxIdle, TxStart, TxData, TxStop, BitIs, BitOf
  <2>3. CASE tx_state = "DATA"
    BY <1>3, <1>4, <1>5, <1>6, <1>7, <1>9, <2>1, <2>3
       DEF TxFsm, TxHold, TxIdle, TxStart, TxData, TxStop, BitIs, BitOf
  <2>4. CASE tx_state = "STOP"
    BY <1>3, <1>4, <1>5, <1>6, <1>7, <1>9, <2>1, <2>4
       DEF TxFsm, TxHold, TxIdle, TxStart, TxData, TxStop, BitIs, BitOf
  <2> QED BY <2>2, <2>3, <2>4 DEF BitIs, BitOf
<1> QED BY <1>8, <1>9

\* Between two frames the line is high, and the next one starts with the
\* counter at zero.
LEMMA StartOfFrame ==
    ASSUME TxInv, QuietUntilSet, Clock, tx_state = "IDLE"
    PROVE  /\ tx_state' = "IDLE" \/ (tx_state' = "START" /\ tx_baud_counter' = 0)
           /\ tx_buf_start' = tx_buf_start
BY DEF Clock, Edge, TxFsm, TxHold, TxIdle, TxStart, TxData, TxStop, txVars, BaudCounters

\* The first bit is the start bit, the last one the stop bit.
LEMMA StateOfBit ==
    \A k, state : \A count \in 0 .. DataBits - 1 :
        BitOf(k, state, count) => /\ k = 0 => state = "START"
                                  /\ k = DataBits + 1 => state = "STOP"
BY SizeAssumption DEF BitOf

\* The level of bit k.
LEMMA LevelOfBit ==
    ASSUME TypeOK, NEW k \in Nat, BitIs(k)
    PROVE  /\ k = 0 => tx_o = FALSE
           /\ k \in 1 .. DataBits => tx_o = tx_data_latch[k - 1]
<1>1. tx_data_count \in 0 .. DataBits - 1 /\ DataBits \in Nat /\ DataBits # 0
  BY SizeAssumption DEF TypeOK
<1>2. /\ tx_state = "START" => tx_o = FALSE
      /\ tx_state = "DATA" => tx_o = tx_data_latch[tx_data_count]
  BY TxLevel DEF TypeOK
<1>3. tx_state = "DATA" => k - 1 = tx_data_count
  BY <1>1 DEF BitIs, BitOf
<1> QED BY <1>1, <1>2, <1>3 DEF BitIs, BitOf

\* One cycle of the decoder: it stays in step with the frame, and it takes bit b
\* in the cycles in which bit b is on the line.
LEMMA EdgeFrameInStep ==
    ASSUME TxInv, QuietUntilSet, FrameInStep, Clock
    PROVE  FrameInStep'
<1> DEFINE T == Tpb
<1> PICK c : c = tx_baud_counter
  OBVIOUS
<1> PICK b : b = dec.bit
  OBVIOUS
<1> PICK t : t = dec.ticks
  OBVIOUS
<1>1. /\ T \in Nat /\ Half \in Nat /\ DataBits \in Nat \ {0}
      /\ DataBits < Half /\ 2 * Half < T
  BY HalfABit, SizeAssumption
<1>2. /\ dec \in [state : TxState, ticks : 0 .. T, bit : 0 .. DataBits, val : Byte]
      /\ b \in Nat /\ t \in Nat /\ c \in Nat
  BY <1>1 DEF TxInv, DecTyped, TypeOK, Count
<1>3. tx_state # "IDLE" => c < T
  BY DEF FrameInStep
<1>4. \A k \in Nat : BitIs(k) =>
           /\ k <= DataBits + 1 /\ tx_state # "IDLE"
           /\ tx_data_latch' = tx_data_latch
           /\ c # T - 1 => BitIs(k)' /\ tx_baud_counter' = c + 1
           /\ c = T - 1 /\ k < DataBits + 1 => BitIs(k + 1)' /\ tx_baud_counter' = 0
           /\ c = T - 1 /\ k = DataBits + 1 => tx_state' = "IDLE"
  <2> TAKE k \in Nat
  <2> HAVE BitIs(k)
  <2>1. tx_state # "IDLE"
    BY DEF BitIs, BitOf
  <2> QED BY <1>3, <2>1, NextBit
<1>5. tx_state' # "IDLE" => tx_baud_counter' < T
  <2>1. CASE tx_state = "IDLE"
    BY <1>1, <2>1, StartOfFrame
  <2>2. CASE tx_state # "IDLE"
    <3>1. PICK k \in Nat : BitIs(k)
      <4>1. /\ 0 \in Nat /\ DataBits + 1 \in Nat
            /\ tx_data_count + 1 \in Nat /\ tx_state \in TxState
        BY <1>1 DEF TxInv, TypeOK
      <4> QED BY <2>2, <4>1 DEF BitIs, BitOf, TxState
    <3> QED BY <1>1, <1>2, <1>3, <1>4, <2>2, <3>1
  <2> QED BY <2>1, <2>2
<1>6. tx_data_count' \in 0 .. DataBits - 1 /\ tx_state' \in TxState
  BY StepTxInv DEF TxInv, TypeOK, Next
<1> HIDE DEF T
<1>7. CASE DecIdle(tx_o)
  <2>1. tx_state = "IDLE" \/ tx_state = "STOP" \/ (tx_state = "START" /\ c = 0)
    BY <1>7 DEF FrameInStep, DecIdle
  <2>2. CASE tx_state \in {"IDLE", "STOP"}
    <3>1. tx_o = TRUE
      BY <2>2, TxLevel DEF TxInv, TypeOK
    <3>2. dec'.state = "IDLE"
      BY <1>7, <3>1 DEF DecIdle
    <3>3. \/ tx_state' \in {"IDLE", "STOP"}
          \/ tx_state' = "START" /\ tx_baud_counter' = 0
      <4>1. CASE tx_state = "IDLE"
        BY <4>1, StartOfFrame
      <4>2. CASE tx_state = "STOP"
        <5>1. BitIs(DataBits + 1) /\ DataBits + 1 \in Nat
          BY <1>1, <4>2 DEF BitIs, BitOf
        <5>2. BitIs(DataBits + 1)' => tx_state' = "STOP"
          BY <1>1, <1>6, StateOfBit DEF BitIs
        <5> QED BY <1>4, <4>2, <5>1, <5>2
      <4> QED BY <2>2, <4>1, <4>2
    <3> QED BY <1>5, <3>2, <3>3 DEF FrameInStep, T
  <2>3. CASE tx_state = "START" /\ c = 0
    <3>1. BitIs(0) /\ 0 \in Nat
      BY <2>3 DEF BitIs, BitOf
    <3>2. tx_o = FALSE
      BY <3>1, LevelOfBit DEF TxInv
    <3>3. dec' = [state |-> "START", ticks |-> 0, bit |-> 0, val |-> ZeroByte]
      BY <1>7, <3>2 DEF DecIdle
    <3>4. BitIs(0)' /\ tx_baud_counter' = 1
      BY <1>1, <1>4, <2>3, <3>1
    <3>5. tx_state' = "START"
      BY <1>1, <1>6, <3>4, StateOfBit DEF BitIs
    <3> QED BY <1>5, <3>3, <3>4, <3>5 DEF FrameInStep, T
  <2> QED BY <2>1, <2>2, <2>3
<1>8. CASE DecStart
  <2>1. dec.state = "START" /\ tx_state = "START" /\ c = 1 + t /\ t < Half
    BY <1>8 DEF DecStart, FrameInStep, TxInv, DecTyped
  <2>2. BitIs(0) /\ 0 \in Nat
    BY <2>1 DEF BitIs, BitOf
  <2>3. c # T - 1
    BY <1>1, <1>2, <2>1
  <2>4. BitIs(0)' /\ tx_baud_counter' = c + 1
    BY <1>4, <2>2, <2>3
  <2>5. dec' = IF t + 1 = Half THEN [dec EXCEPT !.state = "DATA", !.ticks = 0, !.bit = 0]
               ELSE [dec EXCEPT !.ticks = t + 1]
    BY <1>8 DEF DecStart, Half, T
  <2>6. CASE t + 1 = Half
    <3>1. dec'.state = "DATA" /\ dec'.bit = 0 /\ dec'.ticks = 0
      BY <1>2, <2>5, <2>6
    <3>2. tx_baud_counter' = 1 + Half - 0 + 0
      BY <1>1, <1>2, <2>1, <2>4, <2>6
    <3>3. InStep(0, 0)'
      BY <2>4, <3>2 DEF InStep
    <3>4. InStep(dec.bit, dec.ticks)'
      BY <3>1, <3>3 DEF InStep, BitIs
    <3> QED BY <1>5, <3>1, <3>4 DEF FrameInStep, T
  <2>7. CASE t + 1 # Half
    <3>1. dec'.state = "START" /\ dec'.ticks = t + 1
      BY <1>2, <2>1, <2>5, <2>7
    <3>2. tx_state' = "START"
      BY <1>1, <1>6, <2>4, StateOfBit DEF BitIs
    <3>3. tx_baud_counter' = 1 + (t + 1)
      BY <1>1, <1>2, <2>1, <2>4
    <3> QED BY <1>5, <3>1, <3>2, <3>3 DEF FrameInStep, T
  <2> QED BY <2>6, <2>7
<1>9. CASE DecData(tx_o) \/ DecStop
  <2>1. /\ dec.state \in {"DATA", "STOP"}
        /\ t < T - 1 /\ b <= DataBits
        /\ dec.state = "DATA" => b < DataBits
        /\ dec.state = "STOP" => b = DataBits
        /\ InStep(b, t)
        /\ \A i \in 0 .. DataBits - 1 : i < b => dec.val[i] = tx_data_latch[i]
    BY <1>1, <1>9 DEF DecData, DecStop, FrameInStep, TxInv, DecTyped, T
  <2>2. b + 1 \in Nat
    BY <1>2
  <2>3. \/ BitIs(b) /\ c = 1 + Half - b + t
        \/ BitIs(b + 1) /\ c + T = 1 + Half - b + t
    BY <2>1 DEF InStep, T
  <2>4. tx_data_latch' = tx_data_latch /\ c < T
    BY <1>2, <1>3, <1>4, <2>2, <2>3
  <2>5. CASE t + 1 # T - 1
    <3>1. InStep(b, t + 1)'
      <4>1. CASE BitIs(b) /\ c = 1 + Half - b + t /\ c # T - 1
        <5>1. BitIs(b)' /\ tx_baud_counter' = 1 + Half - b + (t + 1)
          BY <1>1, <1>2, <1>4, <4>1
        <5> QED BY <5>1 DEF InStep
      <4>2. CASE BitIs(b) /\ c = 1 + Half - b + t /\ c = T - 1
        <5>1. BitIs(b + 1)' /\ tx_baud_counter' = 0
          BY <1>1, <1>2, <1>4, <2>1, <4>2
        <5>2. tx_baud_counter' + T = 1 + Half - b + (t + 1)
          BY <1>1, <1>2, <4>2, <5>1
        <5> QED BY <5>1, <5>2 DEF InStep, T
      <4>3. CASE BitIs(b + 1) /\ c + T = 1 + Half - b + t
        <5>1. c # T - 1
          BY <1>1, <1>2, <2>1, <4>3
        <5>2. BitIs(b + 1)' /\ tx_baud_counter' = c + 1
          BY <1>4, <2>2, <4>3, <5>1
        <5>3. tx_baud_counter' + T = 1 + Half - b + (t + 1)
          BY <1>1, <1>2, <4>3, <5>2
        <5> QED BY <5>2, <5>3 DEF InStep, T
      <4> QED BY <2>3, <4>1, <4>2, <4>3
    <3>2. dec' = [dec EXCEPT !.ticks = t + 1]
      BY <1>9, <2>5 DEF DecData, DecStop, T
    <3>3. dec'.state = dec.state /\ dec'.bit = b /\ dec'.ticks = t + 1 /\ dec'.val = dec.val
      BY <1>2, <3>2
    <3>4. InStep(dec.bit, dec.ticks)'
      BY <3>1, <3>3 DEF InStep, BitIs
    <3> QED BY <1>5, <2>1, <2>4, <3>3, <3>4 DEF FrameInStep, T
  <2>6. CASE t + 1 = T - 1
    <3>1. BitIs(b + 1) /\ c = Half - b - 1
      BY <1>1, <1>2, <2>1, <2>3, <2>4, <2>6
    <3>2. c # T - 1
      BY <1>1, <1>2, <2>1, <3>1
    <3>3. BitIs(b + 1)' /\ tx_baud_counter' = c + 1
      BY <1>4, <2>2, <3>1, <3>2
    <3>4. CASE DecData(tx_o)
      <4>1. b \in 0 .. DataBits - 1 /\ b + 1 - 1 = b /\ b + 1 \in 1 .. DataBits
        BY <1>1, <1>2, <2>1, <3>4 DEF DecData
      <4>2. tx_o = tx_data_latch[b]
        <5>1. PICK k \in Nat : k = b + 1
          BY <2>2
        <5>2. k \in 1 .. DataBits /\ k - 1 = b /\ BitIs(k)
          BY <3>1, <4>1, <5>1
        <5>3. tx_o = tx_data_latch[k - 1]
          BY <5>2, LevelOfBit DEF TxInv
        <5> QED BY <5>2, <5>3
      <4>3. /\ dec'.state \in {"DATA", "STOP"} /\ dec'.ticks = 0 /\ dec'.bit = b + 1
            /\ dec'.val = [dec.val EXCEPT ![b] = tx_o]
        BY <2>6, <3>4 DEF DecData, T
      <4>4. tx_baud_counter' = 1 + Half - (b + 1) + 0
        BY <1>1, <1>2, <3>1, <3>3
      <4>5. InStep(b + 1, 0)'
        BY <3>3, <4>4 DEF InStep
      <4>6. InStep(dec.bit, dec.ticks)'
        BY <4>3, <4>5 DEF InStep, BitIs
      <4>7. dec.val \in [0 .. DataBits - 1 -> BOOLEAN]
        BY <1>2 DEF Byte
      <4>8. \A i \in 0 .. DataBits - 1 : i < b + 1 => dec'.val[i] = tx_data_latch[i]
        <5> SUFFICES ASSUME NEW i \in 0 .. DataBits - 1, i < b + 1
                     PROVE  dec'.val[i] = tx_data_latch[i]
          OBVIOUS
        <5>1. i = b \/ i < b
          BY <1>2
        <5> QED BY <2>1, <4>2, <4>3, <4>7, <5>1
      <4> QED BY <1>5, <2>4, <4>3, <4>6, <4>8 DEF FrameInStep, T
    <3>5. CASE DecStop
      <4>1. dec'.state = "IDLE"
        BY <2>6, <3>5 DEF DecStop, Silent, T
      <4>2. b = DataBits
        BY <2>1, <3>5 DEF DecStop
      <4>3. tx_state' = "STOP"
        BY <1>1, <1>6, <3>3, <4>2, StateOfBit DEF BitIs
      <4> QED BY <1>5, <4>1, <4>3 DEF FrameInStep, T
    <3> QED BY <1>9, <3>4, <3>5
  <2> QED BY <2>5, <2>6
<1> QED BY <1>7, <1>8, <1>9 DEF Clock, DecoderTick

\* The stop bit, in which the decoder reports, is the last of the frame: the byte
\* it reports is the one at the head of the FIFO, and that byte leaves the FIFO
\* only afterwards.
LEMMA EdgeHeard ==
    ASSUME TxInv, QuietUntilSet, FrameInStep, Clock
    PROVE  /\ heard' # None =>
                /\ ~HeadIsHeard /\ HeadIsHeard'
                /\ tx_state # "IDLE" /\ heard' = tx_data_latch
                /\ tx_buf_start' = tx_buf_start
           /\ heard' = None /\ ~HeadIsHeard => ~HeadIsHeard' /\ tx_buf_start' = tx_buf_start
           /\ heard' = None /\ HeadIsHeard =>
                \/ HeadIsHeard' /\ tx_buf_start' = tx_buf_start
                \/ ~HeadIsHeard' /\ tx_buf_start' = Inc(tx_buf_start)
<1> DEFINE T == Tpb
<1> PICK c : c = tx_baud_counter
  OBVIOUS
<1> PICK b : b = dec.bit
  OBVIOUS
<1> PICK t : t = dec.ticks
  OBVIOUS
<1>1. /\ T \in Nat /\ Half \in Nat /\ DataBits \in Nat \ {0}
      /\ DataBits < Half /\ 2 * Half < T
  BY HalfABit, SizeAssumption
<1>2. /\ b \in Nat /\ t \in Nat /\ c \in Nat /\ dec.val \in Byte
      /\ tx_data_count \in 0 .. DataBits - 1 /\ tx_state \in TxState
  BY <1>1 DEF TxInv, DecTyped, TypeOK, Count
<1>3. tx_state # "IDLE" => c < T
  BY DEF FrameInStep
<1>4. \A k \in Nat : BitIs(k) =>
           /\ tx_state # "IDLE"
           /\ k < DataBits + 1 => tx_buf_start' = tx_buf_start
           /\ c # T - 1 => BitIs(k)' /\ tx_buf_start' = tx_buf_start
           /\ c = T - 1 /\ k = DataBits + 1 =>
                 /\ tx_state' = "IDLE"
                 /\ tx_buf_start' = IF tx_empty THEN tx_buf_start ELSE Inc(tx_buf_start)
  <2> TAKE k \in Nat
  <2> HAVE BitIs(k)
  <2>1. tx_state # "IDLE"
    BY DEF BitIs, BitOf
  <2> QED BY <1>3, <2>1, NextBit DEF txVars
<1>5. tx_data_count' \in 0 .. DataBits - 1 /\ tx_state' \in TxState
  BY StepTxInv DEF TxInv, TypeOK, Next
<1> HIDE DEF T
<1>6. CASE DecIdle(tx_o)
  <2>1. heard' = None
    BY <1>6 DEF DecIdle
  <2>2. dec.state = "IDLE"
    BY <1>6 DEF DecIdle
  <2>3. CASE tx_state = "IDLE"
    BY <2>1, <2>3, StartOfFrame DEF HeadIsHeard
  <2>4. CASE tx_state = "START" /\ c = 0
    <3>1. BitIs(0) /\ 0 \in Nat /\ c # T - 1
      BY <1>1, <2>4 DEF BitIs, BitOf
    <3>2. BitIs(0)' /\ tx_buf_start' = tx_buf_start
      BY <1>4, <3>1
    <3>3. tx_state' = "START"
      BY <1>5, <3>2, StateOfBit DEF BitIs
    <3> QED BY <2>1, <2>4, <3>2, <3>3 DEF HeadIsHeard
  <2>5. CASE tx_state = "STOP"
    <3>1. BitIs(DataBits + 1) /\ DataBits + 1 \in Nat
      BY <1>1, <2>5 DEF BitIs, BitOf
    <3>2. dec' = dec
      BY <1>6, <2>5, TxLevel DEF DecIdle, TxInv, TypeOK
    <3>3. CASE c # T - 1
      <4>1. BitIs(DataBits + 1)' /\ tx_buf_start' = tx_buf_start
        BY <1>4, <3>1, <3>3
      <4>2. tx_state' = "STOP"
        BY <1>5, <4>1, StateOfBit DEF BitIs
      <4> QED BY <2>1, <2>2, <2>5, <3>2, <4>1, <4>2 DEF HeadIsHeard
    <3>4. CASE c = T - 1
      <4>1. ~tx_empty
        BY <2>5 DEF TxInv, SendsTheHead
      <4>2. tx_state' = "IDLE" /\ tx_buf_start' = Inc(tx_buf_start)
        BY <1>4, <3>1, <3>4, <4>1
      <4> QED BY <2>1, <2>2, <2>5, <4>2 DEF HeadIsHeard
    <3> QED BY <3>3, <3>4
  <2> QED BY <2>2, <2>3, <2>4, <2>5 DEF FrameInStep
<1>7. CASE DecStart
  <2>1. dec.state = "START" /\ tx_state = "START" /\ heard' = None
    BY <1>7 DEF DecStart, FrameInStep
  <2>2. BitIs(0) /\ 0 \in Nat /\ 0 < DataBits + 1
    BY <1>1, <2>1 DEF BitIs, BitOf
  <2>3. dec'.state # "IDLE"
    BY <1>7 DEF DecStart, TxInv, DecTyped
  <2> QED BY <1>4, <2>1, <2>2, <2>3 DEF HeadIsHeard
<1>8. CASE DecData(tx_o)
  <2>1. dec.state = "DATA" /\ b < DataBits /\ InStep(b, t) /\ heard' = None
    BY <1>8 DEF DecData, FrameInStep, TxInv, DecTyped
  <2>2. PICK k \in Nat : BitIs(k) /\ k < DataBits + 1
    BY <1>1, <1>2, <2>1 DEF InStep
  <2>3. dec'.state # "IDLE"
    BY <1>8 DEF DecData, TxInv, DecTyped
  <2> QED BY <1>4, <2>1, <2>2, <2>3 DEF HeadIsHeard
<1>9. CASE DecStop
  <2>1. /\ dec.state = "STOP" /\ b = DataBits /\ InStep(b, t) /\ t < T - 1
        /\ \A i \in 0 .. DataBits - 1 : i < b => dec.val[i] = tx_data_latch[i]
    BY <1>9 DEF DecStop, FrameInStep, TxInv, DecTyped, T
  <2>2. \/ BitIs(b) /\ c = 1 + Half - b + t /\ c < T
        \/ BitIs(b + 1) /\ c + T = 1 + Half - b + t
    BY <1>2, <1>3, <1>4, <2>1 DEF InStep, T
  <2>3. CASE t + 1 = T - 1
    <3>1. BitIs(b + 1) /\ c # T - 1 /\ b + 1 = DataBits + 1 /\ b + 1 \in Nat
      BY <1>1, <1>2, <2>1, <2>2, <2>3
    <3>2. BitIs(b + 1)' /\ tx_buf_start' = tx_buf_start /\ tx_state # "IDLE"
      BY <1>4, <3>1
    <3>3. tx_state' = "STOP"
      BY <1>5, <3>1, <3>2, StateOfBit DEF BitIs
    <3>4. dec'.state = "IDLE" /\ heard' = dec.val
      BY <1>9, <2>3 DEF DecStop, Silent, T
    <3>5. dec.val = tx_data_latch
      <4>1. tx_data_latch \in Byte /\ dec.val \in Byte
        BY <1>2 DEF TxInv, TypeOK
      <4>2. \A i \in 0 .. DataBits - 1 : dec.val[i] = tx_data_latch[i]
        BY <1>1, <2>1
      <4> QED BY <4>1, <4>2, SameBits
    <3>6. heard' # None
      BY <1>2, <3>4, NoneAssumption
    <3> QED BY <2>1, <3>2, <3>3, <3>4, <3>5, <3>6 DEF HeadIsHeard
  <2>4. CASE t + 1 # T - 1
    <3>1. dec'.state = "STOP" /\ heard' = None
      BY <1>9, <2>4 DEF DecStop, TxInv, DecTyped, T
    <3>2. tx_buf_start' = tx_buf_start
      <4>1. CASE BitIs(b)
        BY <1>1, <1>2, <1>4, <2>1, <4>1
      <4>2. CASE BitIs(b + 1) /\ c + T = 1 + Half - b + t
        <5>1. c # T - 1 /\ b + 1 \in Nat
          BY <1>1, <1>2, <2>1, <4>2
        <5> QED BY <1>4, <4>2, <5>1
      <4> QED BY <2>2, <4>1, <4>2
    <3> QED BY <2>1, <3>1, <3>2 DEF HeadIsHeard
  <2> QED BY <2>3, <2>4
<1> QED BY <1>6, <1>7, <1>8, <1>9 DEF Clock, DecoderTick

\* Every clock edge keeps the scoreboard's queue equal to what the FIFO holds,
\* and what is heard is the first of it.
LEMMA EdgeFifoIsExpected ==
    ASSUME TxInv, QuietUntilSet, FrameInStep, FifoIsExpected, Clock
    PROVE  /\ FifoIsExpected'
           /\ heard' # None => tx_expected # <<>> /\ heard' = Head(tx_expected)
<1> DEFINE s == tx_buf_start
           e == tx_buf_end
           buf == tx_buf
           q1 == StruckOff
<1>1. s \in Cell /\ e \in Cell /\ buf \in [Cell -> Byte] /\ tx_expected \in Seq(Byte)
  BY DEF TxInv, TypeOK, DecTyped
<1>2. StruckOff = IF heard' # None /\ tx_expected # <<>> THEN Tail(tx_expected) ELSE tx_expected
  BY DEF StruckOff
<1>3. q1 \in Seq(Byte) /\ tx_expected' \in Seq(Byte)
  BY ScoreboardTyped DEF Clock, TxInv, DecTyped
\* What the decoder reports.
<1>4. heard' # None =>
        /\ tx_expected # <<>> /\ heard' = Head(tx_expected)
        /\ Holds(1, s, e, buf, q1)
  <2> SUFFICES ASSUME heard' # None
               PROVE  /\ tx_expected # <<>> /\ heard' = Head(tx_expected)
                      /\ Holds(1, s, e, buf, q1)
    OBVIOUS
  <2>1. Holds(0, s, e, buf, tx_expected)
    BY EdgeHeard DEF FifoIsExpected
  <2>2. s # e /\ heard' = buf[s]
    BY EdgeHeard DEF TxInv, SendsTheHead, tx_empty
  <2>3. /\ tx_expected # <<>> /\ Head(tx_expected) = buf[s]
        /\ Holds(1, s, e, buf, Tail(tx_expected))
    BY <1>1, <2>1, <2>2, HoldsStrike
  <2> QED BY <1>2, <2>2, <2>3
<1>5. heard' = None =>
        /\ ~HeadIsHeard => Holds(0, s, e, buf, q1)
        /\ HeadIsHeard => Holds(1, s, e, buf, q1)
  BY <1>2 DEF FifoIsExpected
<1> HIDE DEF q1
\* What the host writes.
<1>6. \A h \in {0, 1} : Holds(h, s, e, buf, q1) => Holds(h, s, e', buf', tx_expected')
  <2> SUFFICES ASSUME NEW h \in {0, 1}, Holds(h, s, e, buf, q1)
               PROVE  Holds(h, s, e', buf', tx_expected')
    OBVIOUS
  <2>1. CASE LeavesLane
    <3>1. Inc(e) # s
      BY <2>1, BusPushes DEF Clock, Edge, TxInv, tx_full
    <3>2. latch.bytes[wdata_byte_idx] \in Byte
      BY DEF TxInv, TypeOK, Request
    <3>3. /\ e' = Inc(e) /\ buf' = [buf EXCEPT ![e] = latch.bytes[wdata_byte_idx]]
      BY <2>1, BusPushes DEF Clock, Edge, TxInv
    <3>4. tx_expected' = Append(q1, latch.bytes[wdata_byte_idx])
      BY <2>1 DEF Clock, Scoreboard, q1
    <3>5. Holds(h, s, Inc(e), [buf EXCEPT ![e] = latch.bytes[wdata_byte_idx]],
                Append(q1, latch.bytes[wdata_byte_idx]))
      <4> HIDE DEF s, e, buf
      <4> QED BY <1>1, <1>3, <3>1, <3>2, HoldsPush
    <3> QED BY <3>3, <3>4, <3>5
  <2>2. CASE ~LeavesLane
    <3>1. e' = e /\ buf' = buf
      BY <2>2, BusPushes DEF Clock, Edge, TxInv
    <3>2. tx_expected' = q1
      BY <2>2 DEF Clock, Scoreboard, q1
    <3> QED BY <3>1, <3>2
  <2> QED BY <2>1, <2>2
\* What the transmitter removes.
<1>7. /\ HeadIsHeard' => Holds(1, s', e', buf', tx_expected')
      /\ ~HeadIsHeard' => Holds(0, s', e', buf', tx_expected')
  <2>1. CASE heard' # None
    <3>1. Holds(1, s, e', buf', tx_expected') /\ s' = s /\ HeadIsHeard'
      BY <1>4, <1>6, <2>1, EdgeHeard
    <3> QED BY <3>1
  <2>2. CASE heard' = None /\ ~HeadIsHeard
    <3>1. Holds(0, s, e', buf', tx_expected') /\ s' = s /\ ~HeadIsHeard'
      BY <1>5, <1>6, <2>2, EdgeHeard
    <3> QED BY <3>1
  <2>3. CASE heard' = None /\ HeadIsHeard
    <3>1. Holds(1, s, e', buf', tx_expected')
      BY <1>5, <1>6, <2>3
    <3>2. Holds(0, Inc(s), e', buf', tx_expected')
      BY <1>1, <1>3, <3>1, HoldsRemove
    <3>3. \/ HeadIsHeard' /\ s' = s
          \/ ~HeadIsHeard' /\ s' = Inc(s)
      BY <2>3, EdgeHeard
    <3> QED BY <3>1, <3>2, <3>3
  <2> QED BY <2>1, <2>2, <2>3
<1>8. FifoIsExpected'
  BY <1>7 DEF FifoIsExpected, Holds
<1> QED BY <1>4, <1>8

\* Reset.
LEMMA InitFrameInv == TxInit => FrameInv
<1> SUFFICES ASSUME TxInit PROVE FrameInv
  OBVIOUS
<1>1. Holds(0, 0, 0, tx_buf, <<>>)
  BY SizeAssumption DEF Holds, After
<1> QED BY <1>1 DEF TxInit, Init, Silent, FrameInv, QuietUntilSet, tx_empty, FrameInStep,
                    FifoIsExpected, HeadIsHeard

\* The inductive step.
LEMMA StepFrameInv ==
    ASSUME BaudFirst
    PROVE  TxInv /\ FrameInv /\ [Next]_linkVars => FrameInv'
<1> SUFFICES ASSUME TxInv, FrameInv, [Next]_linkVars PROVE FrameInv'
  OBVIOUS
<1> USE DEF FrameInv
<1>1. CASE WriteBaud \/ \E w \in Word, be \in Enable : WriteBytes(w, be)
  <2>1. /\ UNCHANGED <<uartVars, rx_i, dec, heard, tx_expected>>
        /\ WriteBaud => req'.addr = "BAUD"
        /\ ~WriteBaud => baud_selector # Disabled
    BY <1>1, HostStep
  <2>2. QuietUntilSet'
    BY <2>1 DEF uartVars, busVars, txVars, QuietUntilSet, tx_empty
  <2>3. FrameInStep'
    BY <2>1 DEF uartVars, busVars, txVars, baudVars, FrameInStep, InStep, BitIs, BitOf
  <2>4. FifoIsExpected'
    BY <2>1 DEF uartVars, busVars, txVars, FifoIsExpected, HeadIsHeard, Holds
  <2> QED BY <2>2, <2>3, <2>4
<1>2. CASE Clock
  BY <1>2, EdgeQuiet, EdgeFrameInStep, EdgeFifoIsExpected
<1>3. CASE UNCHANGED linkVars
  <2>1. QuietUntilSet'
    BY <1>3 DEF linkVars, vars, uartVars, busVars, txVars, QuietUntilSet, tx_empty
  <2>2. FrameInStep'
    BY <1>3 DEF linkVars, vars, uartVars, busVars, txVars, baudVars, FrameInStep, InStep,
                BitIs, BitOf
  <2>3. FifoIsExpected'
    BY <1>3 DEF linkVars, vars, uartVars, busVars, txVars, FifoIsExpected, HeadIsHeard, Holds
  <2> QED BY <2>1, <2>2, <2>3
<1> QED BY <1>1, <1>2, <1>3 DEF Next

\* The invariant of transmission with its timing: the decoder is in step with
\* the frame and the scoreboard with the FIFO, when BAUD is written first.
THEOREM FrameInvariant ==
    ASSUME BaudFirst
    PROVE  Spec => []FrameInv
<1>1. TxInv /\ FrameInv /\ [Next]_linkVars => FrameInv'
  BY StepFrameInv
<1> QED BY <1>1, InitFrameInv, TxInvariant, PTL DEF Spec

\* What the peer hears is what was written, in order and once, and no frame is
\* heard when none is expected, for every FIFO depth, frame length and divisor
\* for which the decoder's drift stays within half a bit.
THEOREM HeardInOrder ==
    ASSUME BaudFirst
    PROVE  Spec => HeardAsWritten
<1>1. TxInv /\ FrameInv /\ [Next]_linkVars =>
         (Clock /\ heard' # None => tx_expected # <<>> /\ heard' = Head(tx_expected))
  BY EdgeFifoIsExpected DEF FrameInv
<1> QED BY <1>1, TxInvariant, FrameInvariant, PTL DEF Spec, HeardAsWritten
=============================================================================
