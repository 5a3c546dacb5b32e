---------------------------- MODULE UartRxProofs ----------------------------
(***************************************************************************)
(* Proofs about reception end to end, for every FIFO depth, frame length,  *)
(* divisor and set of bytes: the registers keep their widths, the polling  *)
(* loop never reads an empty FIFO, the FIFO holds what was sent and not    *)
(* read, and the firmware reads it in order.                               *)
(***************************************************************************)
EXTENDS UartRxLink, UartObiProofs

-----------------------------------------------------------------------------
(* The polling loop: types and the OBI handshake.                          *)

\* The injector's counters stop at their limits.
InjTyped ==
    /\ inj \in [state : TxState, data_ready : BOOLEAN, data : Byte,
                ticks : 0 .. Tpb, bit : 0 .. DataBits - 1]
    /\ inj.state # "IDLE" => inj.ticks < Tpb - 1
    /\ inj.data_ready => inj.state = "IDLE"
    /\ settled \in BOOLEAN
    /\ loop \in {"boot", "setup", "poll", "status", "ready", "byte"}
    /\ rx_expected \in Seq(Byte)

\* The access the loop waits for, and the state of the bus that carries it out.
IsAccess(r) ==
    /\ r.we = (loop = "setup")
    /\ r.addr = IF loop = "setup" THEN "BAUD" ELSE IF loop = "byte" THEN "RX" ELSE "STS"
    /\ r.baud = Baud

Requested == req # None /\ IsAccess(req) /\ device_state = "WAIT" /\ ~rvalid
Underway  == /\ req = None /\ IsAccess(latch) /\ ~rvalid
             /\ device_state = IF loop = "setup" THEN "WRITE" ELSE "READ"
Answered  == req = None /\ device_state = "WAIT" /\ rvalid
Quiet     == req = None /\ device_state = "WAIT" /\ ~rvalid

\* One access at a time, from the request to the response.
OneAccess ==
    /\ loop \in {"boot", "poll", "ready"} => Quiet
    /\ loop \in {"setup", "status", "byte"} => Requested \/ Underway \/ Answered
    /\ loop = "boot" => baud_selector = Disabled
    /\ loop = "setup" => /\ Requested \/ Underway => baud_selector = Disabled
                         /\ Answered => baud_selector = Baud
    /\ baud_selector \in {Disabled, Baud}
    /\ baud_selector = Disabled => loop \in {"boot", "setup"}

\* From the STATUS that says so to the read of RX the FIFO is not empty.
StatusHolds ==
    /\ loop = "status" /\ Answered => (~rdata.val.rx_empty => ~rx_empty)
    /\ loop = "ready" => ~rx_empty
    /\ loop = "byte" /\ (Requested \/ Underway) => ~rx_empty

LoopInv == TypeOK /\ InjTyped /\ OneAccess /\ StatusHolds

-----------------------------------------------------------------------------
(* The frame on the line.                                                  *)

Half == Tpb \div 2
Turn == Tpb - 1                       \* the cycles of one bit of the injector

\* The bit of the frame the injector is in: the start bit is 0, the stop bit
\* the last.
PlaceOf(k, state, bit) ==
    \/ k = 0 /\ state = "START"
    \/ state = "DATA" /\ k = bit + 1
    \/ k = DataBits + 1 /\ state = "STOP"

InjIs(k) == PlaceOf(k, inj.state, inj.bit)

\* A level reaches the receiver through rx_i and the two flops.
Levels ==
    /\ inj.state = "IDLE" => rx_i /\ (settled => rx_sync = <<TRUE, TRUE>>)
    /\ inj.state = "START" => /\ rx_i <=> inj.ticks < 1
                              /\ rx_sync[2] <=> inj.ticks < 2
                              /\ rx_sync[1] <=> inj.ticks < 3
    /\ inj.state = "DATA" => /\ inj.ticks >= 1 => rx_i = inj.data[inj.bit]
                             /\ inj.ticks >= 2 => rx_sync[2] = inj.data[inj.bit]
                             /\ inj.ticks >= 3 => rx_sync[1] = inj.data[inj.bit]
    /\ inj.state = "STOP" => /\ inj.ticks >= 1 => rx_i
                             /\ inj.ticks >= 2 => rx_sync[2]
                             /\ inj.ticks >= 3 => rx_sync[1]

\* The receiver has taken r bits and counted c since: the injector has come as
\* far, or one bit further.
Delay == 6 .. Half + 6

InStep(r, c) ==
    \/ InjIs(r) /\ inj.ticks - r - c \in Delay
    \/ InjIs(r + 1) /\ inj.ticks + Turn - r - c \in Delay

Taken(n) == \A i \in 0 .. DataBits - 1 : i < n => rx_collecting[i] = inj.data[i]

\* Where the receiver is in the frame, and what it has taken of it.
FrameInStep ==
    settled =>
        /\ baud_selector = Baud
        /\ inj.state = "IDLE" => rx_state = "IDLE"
        /\ rx_state = "IDLE" => \/ inj.state = "IDLE"
                                \/ inj.state = "START" /\ inj.ticks <= 3
                                \/ inj.state = "STOP" /\ inj.ticks >= 3
        /\ rx_state = "START" =>
                /\ inj.state = "START"
                /\ \/ rx_restart_baud /\ inj.ticks = 4
                   \/ ~rx_restart_baud /\ inj.ticks = rx_baud_counter + 5
                /\ ~rx_restart_baud => rx_baud_counter < Half
        /\ rx_state = "DATA" =>
                /\ \/ /\ rx_restart_baud /\ rx_collecting_count = 0
                      /\ inj.state = "START" /\ inj.ticks \in 5 .. Half + 5
                      /\ rx_baud_counter <= Half
                   \/ ~rx_restart_baud /\ InStep(rx_collecting_count, rx_baud_counter)
                /\ Taken(rx_collecting_count)
        /\ rx_state = "STOP" =>
                /\ ~rx_restart_baud /\ InStep(DataBits, rx_baud_counter)
                /\ Taken(DataBits)
        /\ rx_state \in {"DATA", "STOP"} => rx_baud_counter < Tpb

\* Until the receiver is set up the peer is silent; the low line the
\* synchroniser starts with makes it look for a frame, not find one.
Unsettled ==
    ~settled =>
        /\ inj.state = "IDLE" /\ ~inj.data_ready
        /\ rx_expected = <<>> /\ rx_empty
        /\ rx_state \in {"IDLE", "START"}
        /\ rx_sync[1] => rx_sync[2]
        /\ ~rx_sync[1] =>
                /\ baud_selector = Disabled
                /\ \/ rx_state = "IDLE" /\ ~rx_restart_baud /\ rx_baud_counter = 0
                      /\ device_state = "WAIT"
                   \/ rx_state = "START" /\ rx_baud_counter = 1 /\ rx_sync[2]

\* A byte has been sent and is not yet received.
InFlight ==
    \/ inj.data_ready
    \/ inj.state \in {"START", "DATA"}
    \/ inj.state = "STOP" /\ rx_state # "IDLE"

\* The FIFO holds the first n bytes of q.
Holds(n, s, e, buf, q) ==
    /\ n \in Nat /\ n < BufferLength
    /\ e = After(s, n)
    /\ \A i \in 1 .. n : q[i] = buf[After(s, i - 1)]

FifoIsExpected ==
    /\ InFlight =>
            /\ rx_expected # <<>> /\ rx_expected[Len(rx_expected)] = inj.data
            /\ Holds(Len(rx_expected) - 1, rx_buf_start, rx_buf_end, rx_buf, rx_expected)
    /\ ~InFlight => Holds(Len(rx_expected), rx_buf_start, rx_buf_end, rx_buf, rx_expected)

FrameInv == Levels /\ FrameInStep /\ Unsettled /\ FifoIsExpected

-----------------------------------------------------------------------------
(* The polling loop.                                                       *)

\* The divisor of the firmware's baud rate is not that of the disabled selector,
\* and fits the counters with room for the receiver's drift.
LEMMA BaudIsSet ==
    /\ Tpb \in Nat /\ Half \in Nat /\ Turn \in Nat /\ Turn = Tpb - 1
    /\ Tpb < CounterMax /\ 2 * Half <= Tpb /\ Tpb <= 2 * Half + 1
    /\ Half + DataBits + 8 <= Tpb
    /\ DataBits \in Nat /\ DataBits # 0
    /\ Baud # Disabled
<1>1. Tpb \in 0 .. CounterMax - 1
  BY DivisorAssumption, LinkAssumption DEF Tpb
<1>2. Tpb - Half >= DataBits + 8
  BY SampleAssumption DEF Half, Tpb
<1>3. Baud # Disabled
  <2>1. 0 - (0 \div 2) = 0
    OBVIOUS
  <2> QED BY <1>1, <1>2, <2>1, SizeAssumption, DivisorAssumption DEF Tpb, Half
<1> HIDE DEF Tpb
<1> QED BY <1>1, <1>2, <1>3, SizeAssumption DEF Half, Turn

\* What the host puts on the lines: one access, when the lines are free.
LEMMA HostStep ==
    ASSUME WriteBaud \/ PollStatus \/ ReadByte
    PROVE  /\ UNCHANGED <<uartVars, rx_i, inj, settled, rx_expected>>
           /\ req = None /\ req' \in Request /\ req' # None
           /\ \/ loop = "boot" /\ loop' = "setup"
              \/ loop = "poll" /\ loop' = "status"
              \/ loop = "ready" /\ loop' = "byte"
           /\ IsAccess(req)'
<1>1. Blank \in Request /\ Blank.we = FALSE /\ Blank.addr = "STS" /\ Blank.baud = Baud
  BY LinkAssumption, ByteUpdate DEF Blank, Request, Register
<1> DEFINE W == [Blank EXCEPT !.we = TRUE, !.addr = "BAUD"]
           R == [Blank EXCEPT !.addr = "RX"]
<1>2. /\ W \in Request /\ W.we = TRUE /\ W.addr = "BAUD" /\ W.baud = Baud
      /\ R \in Request /\ R.we = FALSE /\ R.addr = "RX" /\ R.baud = Baud
  BY <1>1 DEF Request, Register
<1> HIDE DEF W, R
<1>3. CASE WriteBaud
  <2>1. req' = W
    BY <1>3 DEF WriteBaud, Raise, W
  <2> QED BY <1>2, <1>3, <2>1, NoneAssumption DEF WriteBaud, Raise, IsAccess
<1>4. CASE PollStatus
  BY <1>1, <1>4, NoneAssumption DEF PollStatus, Raise, IsAccess
<1>5. CASE ReadByte
  <2>1. req' = R
    BY <1>5 DEF ReadByte, Raise, R
  <2> QED BY <1>2, <1>5, <2>1, NoneAssumption DEF ReadByte, Raise, IsAccess
<1> QED BY <1>3, <1>4, <1>5

\* Every cycle of the injector keeps its counters below their limits.
LEMMA InjectorTyped ==
    ASSUME InjTyped, InjectorTick
    PROVE  /\ inj' \in [state : TxState, data_ready : BOOLEAN, data : Byte,
                        ticks : 0 .. Tpb, bit : 0 .. DataBits - 1]
           /\ inj'.state # "IDLE" => inj'.ticks < Tpb - 1
           /\ inj'.data_ready => inj'.state = "IDLE"
           /\ rx_i' \in BOOLEAN
<1> DEFINE T == Tpb
           DB == 0 .. DataBits - 1
<1>1. /\ T \in Nat /\ 3 < T
      /\ 0 \in 0 .. T /\ 0 \in DB /\ 0 < T - 1 /\ DataBits \in Nat
  BY BaudIsSet
<1>2. Last <=> inj.ticks + 1 = T - 1
  BY DEF Last
<1> HIDE DEF T
<1>3. /\ inj \in [state : TxState, data_ready : BOOLEAN, data : Byte, ticks : 0 .. T, bit : DB]
      /\ inj.state # "IDLE" => inj.ticks < T - 1
      /\ inj.data_ready => inj.state = "IDLE"
  BY DEF InjTyped, T
<1>4. \A i \in DB : inj.data[i] \in BOOLEAN
  BY <1>3 DEF Byte
<1>5. inj.state # "IDLE" /\ ~Last => inj.ticks + 1 \in 0 .. T /\ inj.ticks + 1 < T - 1
  BY <1>1, <1>2, <1>3
<1>6. inj.bit + 1 # DataBits => inj.bit + 1 \in DB
  BY <1>1, <1>3
<1> HIDE DEF DB, Last
<1>7. CASE InjIdle
  <2>1. CASE inj.data_ready
    <3>1. inj' = [inj EXCEPT !.state = "START", !.data_ready = FALSE, !.ticks = 0]
      BY <1>7, <2>1 DEF InjIdle
    <3> QED BY <1>1, <1>3, <1>7, <3>1 DEF InjIdle, TxState, T, DB
  <2>2. CASE ~inj.data_ready
    BY <1>3, <1>7, <2>2 DEF InjIdle, T, DB
  <2> QED BY <2>1, <2>2
<1>8. CASE InjStart
  <2>1. CASE Last
    <3>1. inj' = [inj EXCEPT !.state = "DATA", !.bit = 0, !.ticks = 0] /\ rx_i' = FALSE
      BY <1>8, <2>1 DEF InjStart
    <3>2. ~inj.data_ready
      BY <1>3, <1>8 DEF InjStart
    <3> QED BY <1>1, <1>3, <3>1, <3>2 DEF TxState, T, DB
  <2>2. CASE ~Last
    BY <1>1, <1>3, <1>5, <1>8, <2>2 DEF InjStart, TxState, T, DB
  <2> QED BY <2>1, <2>2
<1>9. CASE InjData
  <2>1. CASE ~Last
    BY <1>1, <1>3, <1>4, <1>5, <1>9, <2>1 DEF InjData, TxState, T, DB
  <2>2. CASE Last /\ inj.bit + 1 = DataBits
    <3>1. inj' = [inj EXCEPT !.state = "STOP", !.ticks = 0, !.bit = 0] /\ rx_i' = TRUE
      BY <1>9, <2>2 DEF InjData
    <3>2. ~inj.data_ready
      BY <1>3, <1>9 DEF InjData
    <3> QED BY <1>1, <1>3, <3>1, <3>2 DEF TxState, T, DB
  <2>3. CASE Last /\ inj.bit + 1 # DataBits
    <3>1. inj' = [inj EXCEPT !.ticks = 0, !.bit = @ + 1] /\ rx_i' = inj.data[inj.bit + 1]
      BY <1>9, <2>3 DEF InjData
    <3>2. ~inj.data_ready /\ inj.state = "DATA"
      BY <1>3, <1>9 DEF InjData
    <3> QED BY <1>1, <1>3, <1>4, <1>6, <2>3, <3>1, <3>2 DEF TxState, T, DB
  <2> QED BY <2>1, <2>2, <2>3
<1>10. CASE InjStop
  <2>1. CASE Last
    BY <1>1, <1>3, <1>10, <2>1 DEF InjStop, TxState, T, DB
  <2>2. CASE ~Last
    BY <1>1, <1>3, <1>5, <1>10, <2>2 DEF InjStop, TxState, T, DB
  <2> QED BY <2>1, <2>2
<1> QED BY <1>7, <1>8, <1>9, <1>10 DEF InjectorTick

\* The scoreboard's queue holds bytes.
LEMMA ScoreboardTyped ==
    ASSUME rx_expected \in Seq(Byte), Scoreboard
    PROVE  /\ StruckOff \in Seq(Byte)
           /\ rx_expected' \in Seq(Byte)
<1>1. StruckOff \in Seq(Byte)
  BY DEF StruckOff
<1>2. StruckOff # <<>> => SubSeq(StruckOff, 1, Len(StruckOff) - 1) \in Seq(Byte)
  BY <1>1
<1> HIDE DEF StruckOff
<1> QED BY <1>1, <1>2 DEF Scoreboard

\* Reception only adds to the FIFO.
LEMMA FifoStaysNonEmpty ==
    ASSUME TypeOK, RxFsm, ~rx_empty, rx_buf_start' = rx_buf_start
    PROVE  ~rx_empty'
BY DEF RxFsm, RxIdle, RxStart, RxData, RxStop, rx_empty, rx_full

\* One clock edge of an access: the bus takes the request, carries it out and
\* answers, and only then does the loop go on.
LEMMA EdgeOneAccess ==
    ASSUME LoopInv, Clock
    PROVE  OneAccess' /\ StatusHolds'
<1> USE DEF LoopInv
<1>1. BusFsm /\ RxFsm /\ req' = (IF gnt_o THEN None ELSE req) /\ Respond
  BY DEF Clock, Edge
<1>2. Baud # Disabled
  BY BaudIsSet
<1>3. ~rx_empty /\ rx_buf_start' = rx_buf_start => ~rx_empty'
  BY <1>1, FifoStaysNonEmpty
<1>4. CASE Quiet
  <2>1. /\ device_state' = "WAIT" /\ ~rvalid' /\ req' = None /\ loop' = loop
        /\ baud_selector' = baud_selector /\ rx_buf_start' = rx_buf_start
    BY <1>1, <1>4 DEF BusFsm, Wait, Read, Write, Quiet, gnt_o, Respond
  <2>2. loop \in {"boot", "poll", "ready"}
    BY <1>4 DEF OneAccess, InjTyped, Requested, Underway, Answered, Quiet
  <2> QED BY <1>3, <2>1, <2>2 DEF OneAccess, StatusHolds, Quiet, Requested, Underway, Answered
<1>5. CASE Requested /\ ~Quiet
  <2>1. /\ device_state' = IF req.we THEN "WRITE" ELSE "READ"
        /\ latch' = req /\ ~rvalid' /\ req' = None /\ loop' = loop
        /\ baud_selector' = baud_selector /\ rx_buf_start' = rx_buf_start
    BY <1>1, <1>5 DEF BusFsm, Wait, Read, Write, Requested, gnt_o, Respond
  <2>2. Underway' /\ ~Answered'
    BY <1>5, <2>1 DEF Requested, Underway, Answered, IsAccess
  <2>3. loop \in {"setup", "status", "byte"}
    BY <1>5 DEF OneAccess, InjTyped, Quiet, Requested
  <2> QED BY <1>3, <1>5, <2>1, <2>2, <2>3 DEF OneAccess, StatusHolds
<1>6. CASE Underway
  <2>1. loop \in {"setup", "status", "byte"}
    BY <1>6 DEF OneAccess, InjTyped, Quiet, Underway
  <2>2. loop' = loop /\ req' = None
    BY <1>1, <1>6 DEF Underway, gnt_o, Respond
  <2>3. CASE loop = "setup"
    <3>1. /\ device_state' = "WAIT" /\ rvalid' /\ baud_selector' = Baud
      BY <1>1, <1>6, <2>3 DEF BusFsm, Wait, Read, Write, WriteTx, WriteOther, Underway, IsAccess
    <3> QED BY <1>2, <2>2, <2>3, <3>1 DEF OneAccess, StatusHolds, Answered, Requested, Underway
  <2>4. CASE loop \in {"status", "byte"}
    <3>1. Read
      BY <1>1, <1>6, <2>4 DEF BusFsm, Wait, Read, Write, Underway
    <3>2. device_state' = "WAIT" /\ rvalid' /\ baud_selector' = baud_selector
          /\ rdata' = ReadData
      BY <3>1 DEF Read
    <3>3. Answered' /\ ~Requested' /\ ~Underway' /\ ~Quiet'
      BY <2>2, <3>2 DEF Answered, Requested, Underway, Quiet
    <3>4. loop = "status" => (~rdata'.val.rx_empty => ~rx_empty')
      <4>1. SUFFICES ASSUME loop = "status" PROVE ~rdata'.val.rx_empty => ~rx_empty'
        OBVIOUS
      <4>2. latch.addr = "STS"
        BY <1>6, <4>1 DEF Underway, IsAccess
      <4>3. rdata'.val.rx_empty = rx_empty
        BY <3>2, <4>2, ReadDataRegister DEF Status
      <4>4. rx_buf_start' = rx_buf_start
        BY <3>1, <4>2 DEF Read
      <4> QED BY <1>3, <4>3, <4>4
    <3> QED BY <2>2, <2>4, <3>2, <3>3, <3>4 DEF OneAccess, StatusHolds
  <2> QED BY <2>1, <2>3, <2>4
<1>7. CASE Answered
  <2>1. /\ device_state' = "WAIT" /\ ~rvalid' /\ req' = None
        /\ baud_selector' = baud_selector /\ rx_buf_start' = rx_buf_start
    BY <1>1, <1>7 DEF BusFsm, Wait, Read, Write, Answered, gnt_o
  <2>2. loop \in {"setup", "status", "byte"}
    BY <1>7 DEF OneAccess, InjTyped, Quiet, Answered
  <2>3. loop' = IF loop = "status" /\ ~rdata.val.rx_empty THEN "ready" ELSE "poll"
    BY <1>1, <1>7 DEF Respond, Answered
  <2>4. Quiet' /\ ~Answered' /\ ~Requested' /\ ~Underway'
    BY <2>1, <2>3 DEF Quiet, Answered, Requested, Underway
  <2>5. loop' = "ready" => ~rx_empty'
    BY <1>3, <1>7, <2>1, <2>3 DEF StatusHolds
  <2>6. baud_selector' # Disabled
    BY <1>2, <1>7, <2>1, <2>2 DEF OneAccess
  <2> QED BY <2>1, <2>3, <2>4, <2>5, <2>6 DEF OneAccess, StatusHolds
<1> QED BY <1>4, <1>5, <1>6, <1>7 DEF OneAccess, InjTyped

\* Reset.
LEMMA InitLoopInv == RxInit => LoopInv
<1> SUFFICES ASSUME RxInit PROVE LoopInv
  OBVIOUS
<1>1. TypeOK
  BY InitTyped DEF RxInit
<1>2. InjTyped
  <2>1. ZeroByte \in Byte /\ 0 \in 0 .. Tpb /\ 0 \in 0 .. DataBits - 1
    BY ByteUpdate, BaudIsSet
  <2>2. inj = [state |-> "IDLE", data_ready |-> FALSE, data |-> ZeroByte,
               ticks |-> 0, bit |-> 0]
    BY DEF RxInit
  <2>3. inj \in [state : TxState, data_ready : BOOLEAN, data : Byte,
                 ticks : 0 .. Tpb, bit : 0 .. DataBits - 1]
    BY <2>1, <2>2 DEF TxState
  <2>4. inj.state = "IDLE" /\ ~inj.data_ready
    BY <2>2
  <2>5. settled = FALSE /\ loop = "boot" /\ rx_expected = <<>>
    BY DEF RxInit
  <2>6. rx_expected \in Seq(Byte)
    BY <2>5
  <2> QED BY <2>3, <2>4, <2>5, <2>6, Zenon DEF InjTyped
<1>3. OneAccess /\ StatusHolds
  BY DEF RxInit, Init, OneAccess, StatusHolds, Quiet
<1> QED BY <1>1, <1>2, <1>3 DEF LoopInv

\* The inductive step.
LEMMA StepLoopInv == LoopInv /\ [Next]_linkVars => LoopInv'
<1> SUFFICES ASSUME LoopInv, [Next]_linkVars PROVE LoopInv'
  OBVIOUS
<1> USE DEF LoopInv
<1>1. CASE WriteBaud \/ PollStatus \/ ReadByte
  <2>1. /\ UNCHANGED <<uartVars, rx_i, inj, settled, rx_expected>>
        /\ req' \in Request /\ req' # None
        /\ \/ loop = "boot" /\ loop' = "setup"
           \/ loop = "poll" /\ loop' = "status"
           \/ loop = "ready" /\ loop' = "byte"
        /\ IsAccess(req)'
    BY <1>1, HostStep
  <2>2. TypeOK' /\ InjTyped'
    BY <2>1 DEF uartVars, busVars, txVars, rxVars, baudVars, TypeOK, InjTyped
  <2>3. Quiet
    BY <2>1 DEF OneAccess
  <2>4. Requested' /\ ~Underway' /\ ~Answered' /\ ~Quiet'
    BY <2>1, <2>3 DEF uartVars, busVars, Quiet, Requested, Underway, Answered
  <2>5. OneAccess' /\ StatusHolds'
    BY <2>1, <2>4 DEF uartVars, busVars, rxVars, OneAccess, StatusHolds, rx_empty
  <2> QED BY <2>2, <2>5
<1>2. CASE \E b \in Sent : Inject(b)
  <2>1. PICK b \in Sent : Inject(b)
    BY <1>2
  <2>2. b \in Byte
    BY LinkAssumption
  <2>3. inj' \in [state : TxState, data_ready : BOOLEAN, data : Byte,
                  ticks : 0 .. Tpb, bit : 0 .. DataBits - 1]
        /\ inj'.state = "IDLE"
    BY <2>1, <2>2 DEF Inject, InjTyped, TxState
  <2>4. rx_expected' \in Seq(Byte)
    BY <2>1, <2>2 DEF Inject, InjTyped
  <2>5. TypeOK' /\ InjTyped'
    BY <2>1, <2>3, <2>4 DEF Inject, vars, uartVars, busVars, txVars, rxVars, baudVars, TypeOK,
                            InjTyped
  <2>6. OneAccess' /\ StatusHolds'
    BY <2>1 DEF Inject, vars, uartVars, busVars, rxVars, OneAccess, StatusHolds, Quiet,
                Requested, Underway, Answered, IsAccess, rx_empty
  <2> QED BY <2>5, <2>6
<1>3. CASE Clock
  <2>1. TypeOK'
    <3>1. LinesTyped'
      BY <1>3, InjectorTyped DEF Clock, TypeOK, LinesTyped
    <3> QED BY <1>3, <3>1, EdgeTyped DEF Clock
  <2>2. settled' \in BOOLEAN /\ loop' \in {"boot", "setup", "poll", "status", "ready", "byte"}
    BY <1>3 DEF Clock, Respond, InjTyped
  <2>3. InjTyped'
    BY <1>3, <2>2, InjectorTyped, ScoreboardTyped DEF Clock, InjTyped
  <2> QED BY <1>3, <2>1, <2>3, EdgeOneAccess
<1>4. CASE UNCHANGED linkVars
  BY <1>4 DEF linkVars, vars, uartVars, busVars, txVars, rxVars, baudVars, TypeOK, InjTyped,
              OneAccess, StatusHolds, Quiet, Requested, Underway, Answered, IsAccess, rx_empty
<1> QED BY <1>1, <1>2, <1>3, <1>4 DEF Next

\* The invariant of reception that needs nothing of the timing.
THEOREM LoopInvariant == Spec => []LoopInv
BY InitLoopInv, StepLoopInv, PTL DEF Spec

\* Every register of the UART, the injector, the loop and the scoreboard keeps
\* its type; the injector's counters never pass the values they are compared with.
THEOREM LinkTypeCorrect == Spec => []LinkTypeOK
<1>1. LoopInv => LinkTypeOK
  BY DEF LoopInv, LinkTypeOK, InjTyped
<1> QED BY <1>1, LoopInvariant, PTL

\* When the bus reads RX, it reads it for the loop, and the FIFO has a byte.
LEMMA LoopReadsStored ==
    ASSUME LoopInv, Reads
    PROVE  ~rx_empty
<1>1. Underway /\ loop \in {"setup", "status", "byte"}
  BY DEF LoopInv, OneAccess, InjTyped, Reads, Quiet, Requested, Answered
<1>2. loop = "byte"
  BY <1>1 DEF Underway, IsAccess, Reads
<1> QED BY <1>1, <1>2 DEF LoopInv, StatusHolds

\* STATUS answered "not empty" some cycles ago; the FIFO is still not empty when
\* the read of RX that followed takes effect, so no zero is taken for a byte.
THEOREM PollsStayTrue == Spec => []PollIsStillTrue
<1>1. LoopInv => PollIsStillTrue
  BY LoopReadsStored DEF PollIsStillTrue
<1> QED BY <1>1, LoopInvariant, PTL

-----------------------------------------------------------------------------
(* The two ends of the line.                                               *)

\* The first bit is the start bit, the last one the stop bit.
LEMMA StateOfPlace ==
    \A k, state : \A bit \in 0 .. DataBits - 1 :
        PlaceOf(k, state, bit) => /\ k = 0 <=> state = "START"
                                  /\ k = DataBits + 1 <=> state = "STOP"
                                  /\ k \in 1 .. DataBits <=> state = "DATA"
                                  /\ k \in 1 .. DataBits => bit = k - 1
                                  /\ k \in 0 .. DataBits + 1
BY SizeAssumption DEF PlaceOf

\* One cycle of the injector in a frame: it counts on, or turns to the next bit.
LEMMA NextPlace ==
    ASSUME InjTyped, InjectorTick, NEW k \in Nat, InjIs(k)
    PROVE  /\ k <= DataBits + 1
           /\ inj.state # "IDLE" /\ inj.ticks \in Nat /\ inj.ticks < Turn
           /\ inj'.data = inj.data /\ ~inj.data_ready /\ ~inj'.data_ready
           /\ inj.ticks + 1 # Turn =>
                    InjIs(k)' /\ inj'.ticks = inj.ticks + 1 /\ inj'.state = inj.state
           /\ inj.ticks + 1 = Turn /\ k < DataBits + 1 => InjIs(k + 1)' /\ inj'.ticks = 0
           /\ inj.ticks + 1 = Turn /\ k = DataBits + 1 => inj'.state = "IDLE"
<1> DEFINE U == Turn
<1>1. /\ U \in Nat /\ DataBits \in Nat /\ DataBits # 0
      /\ Last <=> inj.ticks + 1 = U
  BY BaudIsSet DEF Last
<1>2. /\ inj \in [state : TxState, data_ready : BOOLEAN, data : Byte,
                  ticks : 0 .. Tpb, bit : 0 .. DataBits - 1]
      /\ inj.state # "IDLE" => inj.ticks < U /\ ~inj.data_ready
  BY BaudIsSet DEF InjTyped
<1>3. inj.ticks \in Nat /\ inj.bit \in 0 .. DataBits - 1
  BY <1>2, BaudIsSet
<1>4. inj.state # "IDLE" /\ k <= DataBits + 1
  BY <1>1, <1>3 DEF InjIs, PlaceOf
<1> HIDE DEF U, Last
<1>5. CASE InjStart
  <2>1. k = 0
    BY <1>3, <1>5, StateOfPlace DEF InjStart, InjIs
  <2>2. CASE Last
    <3>1. inj' = [inj EXCEPT !.state = "DATA", !.bit = 0, !.ticks = 0]
      BY <1>5, <2>2 DEF InjStart
    <3>2. inj'.state = "DATA" /\ inj'.bit = 0 /\ inj'.ticks = 0 /\ inj'.data = inj.data
          /\ inj'.data_ready = inj.data_ready
      BY <1>2, <3>1
    <3> QED BY <1>1, <1>2, <1>3, <1>4, <2>1, <2>2, <3>2 DEF InjIs, PlaceOf, U
  <2>3. CASE ~Last
    <3>1. inj' = [inj EXCEPT !.ticks = inj.ticks + 1]
      BY <1>5, <2>3 DEF InjStart
    <3>2. inj'.state = inj.state /\ inj'.bit = inj.bit /\ inj'.ticks = inj.ticks + 1
          /\ inj'.data = inj.data /\ inj'.data_ready = inj.data_ready
      BY <1>2, <3>1
    <3> QED BY <1>1, <1>2, <1>3, <1>4, <2>1, <2>3, <3>2 DEF InjIs, PlaceOf, U
  <2> QED BY <2>2, <2>3
<1>6. CASE InjData
  <2>1. k = inj.bit + 1 /\ inj.state = "DATA"
    BY <1>6 DEF InjData, InjIs, PlaceOf
  <2>2. CASE ~Last
    <3>1. inj' = [inj EXCEPT !.ticks = inj.ticks + 1]
      BY <1>6, <2>2 DEF InjData
    <3>2. inj'.state = inj.state /\ inj'.bit = inj.bit /\ inj'.ticks = inj.ticks + 1
          /\ inj'.data = inj.data /\ inj'.data_ready = inj.data_ready
      BY <1>2, <3>1
    <3> QED BY <1>1, <1>2, <1>3, <1>4, <2>1, <2>2, <3>2 DEF InjIs, PlaceOf, U
  <2>3. CASE Last /\ inj.bit + 1 = DataBits
    <3>1. inj' = [inj EXCEPT !.state = "STOP", !.ticks = 0, !.bit = 0]
      BY <1>6, <2>3 DEF InjData
    <3>2. inj'.state = "STOP" /\ inj'.ticks = 0 /\ inj'.data = inj.data
          /\ inj'.data_ready = inj.data_ready
      BY <1>2, <3>1
    <3> QED BY <1>1, <1>2, <1>3, <1>4, <2>1, <2>3, <3>2 DEF InjIs, PlaceOf, U
  <2>4. CASE Last /\ inj.bit + 1 # DataBits
    <3>1. inj' = [inj EXCEPT !.ticks = 0, !.bit = inj.bit + 1]
      BY <1>6, <2>4 DEF InjData
    <3>2. inj'.state = inj.state /\ inj'.bit = inj.bit + 1 /\ inj'.ticks = 0
          /\ inj'.data = inj.data /\ inj'.data_ready = inj.data_ready
      BY <1>2, <3>1
    <3> QED BY <1>1, <1>2, <1>3, <1>4, <2>1, <2>4, <3>2 DEF InjIs, PlaceOf, U
  <2> QED BY <2>2, <2>3, <2>4
<1>7. CASE InjStop
  <2>1. k = DataBits + 1
    BY <1>3, <1>7, StateOfPlace DEF InjStop, InjIs
  <2>2. CASE Last
    <3>1. inj' = [inj EXCEPT !.state = "IDLE", !.ticks = 0]
      BY <1>7, <2>2 DEF InjStop
    <3>2. inj'.state = "IDLE" /\ inj'.data = inj.data /\ inj'.data_ready = inj.data_ready
      BY <1>2, <3>1
    <3> QED BY <1>1, <1>2, <1>3, <1>4, <2>1, <2>2, <3>2 DEF U
  <2>3. CASE ~Last
    <3>1. inj' = [inj EXCEPT !.ticks = inj.ticks + 1]
      BY <1>7, <2>3 DEF InjStop
    <3>2. inj'.state = inj.state /\ inj'.bit = inj.bit /\ inj'.ticks = inj.ticks + 1
          /\ inj'.data = inj.data /\ inj'.data_ready = inj.data_ready
      BY <1>2, <3>1
    <3> QED BY <1>1, <1>2, <1>3, <1>4, <2>1, <2>3, <3>2 DEF InjIs, PlaceOf, U
  <2> QED BY <2>2, <2>3
<1> QED BY <1>4, <1>5, <1>6, <1>7 DEF InjectorTick, InjIdle

\* The two flops of the synchroniser, one cycle on.
LEMMA Shifted ==
    ASSUME TypeOK, RxSynchronise
    PROVE  /\ rx_sync'[1] = rx_sync[2] /\ rx_sync'[2] = rx_i
           /\ rx_sync[2] /\ rx_i => rx_sync' = <<TRUE, TRUE>>
           /\ rx_i \in BOOLEAN /\ rx_sync[1] \in BOOLEAN /\ rx_sync[2] \in BOOLEAN
BY DEF TypeOK, RxSynchronise

\* Every level the injector puts on the line goes through the synchroniser.
LEMMA EdgeLevels ==
    ASSUME TypeOK, InjTyped, Levels, Unsettled, Clock
    PROVE  Levels'
<1> DEFINE U == Turn
<1> PICK t : t = inj.ticks
  OBVIOUS
<1>1. /\ U \in Nat /\ 3 < U /\ DataBits \in Nat
      /\ Last <=> t + 1 = U
  BY BaudIsSet DEF Last
<1>2. /\ inj \in [state : TxState, data_ready : BOOLEAN, data : Byte,
                  ticks : 0 .. Tpb, bit : 0 .. DataBits - 1]
      /\ t \in Nat
  BY BaudIsSet DEF InjTyped
<1>3. /\ rx_sync'[1] = rx_sync[2] /\ rx_sync'[2] = rx_i
      /\ rx_sync[2] /\ rx_i => rx_sync' = <<TRUE, TRUE>>
      /\ rx_i \in BOOLEAN /\ rx_sync[1] \in BOOLEAN /\ rx_sync[2] \in BOOLEAN
  BY Shifted DEF Clock, Edge, RxFsm
<1> HIDE DEF U, Last
<1>4. CASE InjIdle
  <2>1. inj.state = "IDLE" /\ rx_i = TRUE /\ rx_i' = TRUE
    BY <1>3, <1>4 DEF InjIdle, Levels
  <2>2. CASE inj.data_ready
    <3>1. settled /\ rx_sync[2] = TRUE
      <4>1. settled
        BY <2>2 DEF Unsettled
      <4>2. rx_sync = <<TRUE, TRUE>>
        BY <2>1, <4>1, Zenon DEF Levels
      <4> QED BY <4>1, <4>2
    <3>2. inj' = [inj EXCEPT !.state = "START", !.data_ready = FALSE, !.ticks = 0]
      BY <1>4, <2>2 DEF InjIdle
    <3>3. inj'.state = "START" /\ inj'.ticks = 0
      BY <1>2, <3>2
    <3> QED BY <1>3, <2>1, <3>1, <3>3 DEF Levels
  <2>3. CASE ~inj.data_ready
    <3>1. inj'.state = "IDLE"
      BY <1>4, <2>3 DEF InjIdle
    <3>2. settled' => rx_sync[2]
      <4>1. settled' => settled \/ rx_sync[1]
        BY Zenon DEF Clock, line
      <4>2. settled => rx_sync = <<TRUE, TRUE>>
        BY <2>1, Zenon DEF Levels
      <4>3. ~settled /\ rx_sync[1] => rx_sync[2]
        BY Zenon DEF Unsettled
      <4>4. ASSUME settled PROVE rx_sync[2]
        <5>1. rx_sync = <<TRUE, TRUE>>
          BY <4>2, <4>4
        <5> QED BY <5>1
      <4> QED BY <4>1, <4>3, <4>4, Zenon
    <3> QED BY <1>3, <2>1, <3>1, <3>2 DEF Levels
  <2> QED BY <2>2, <2>3
<1>5. CASE InjStart
  <2>1. /\ rx_i' = FALSE
        /\ rx_i <=> t < 1
        /\ rx_sync[2] <=> t < 2
    BY <1>5 DEF InjStart, Levels
  <2>2. CASE Last
    <3>1. inj'.state = "DATA" /\ inj'.ticks = 0
      BY <1>2, <1>5, <2>2 DEF InjStart
    <3> QED BY <3>1 DEF Levels
  <2>3. CASE ~Last
    <3>1. inj'.state = "START" /\ inj'.ticks = t + 1
      BY <1>2, <1>5, <2>3 DEF InjStart
    <3> QED BY <1>2, <1>3, <2>1, <3>1 DEF Levels
  <2> QED BY <2>2, <2>3
<1>6. CASE InjData
  <2>1. /\ t >= 1 => rx_i = inj.data[inj.bit]
        /\ t >= 2 => rx_sync[2] = inj.data[inj.bit]
    BY <1>6 DEF InjData, Levels
  <2>2. CASE ~Last
    <3>1. /\ inj'.state = "DATA" /\ inj'.ticks = t + 1 /\ inj'.bit = inj.bit
          /\ inj'.data = inj.data /\ rx_i' = inj.data[inj.bit]
      BY <1>2, <1>6, <2>2 DEF InjData
    <3> QED BY <1>2, <1>3, <2>1, <3>1 DEF Levels
  <2>3. CASE Last
    <3>1. inj'.state \in {"DATA", "STOP"} /\ inj'.ticks = 0
      BY <1>2, <1>6, <2>3 DEF InjData
    <3>2. inj'.state \notin {"IDLE", "START"} /\ ~(inj'.ticks >= 1) /\ ~(inj'.ticks >= 2)
          /\ ~(inj'.ticks >= 3)
      BY <3>1
    <3> QED BY <3>2, Zenon DEF Levels
  <2> QED BY <2>2, <2>3
<1>7. CASE InjStop
  <2>1. rx_i' = TRUE /\ (t >= 1 => rx_i) /\ (t >= 2 => rx_sync[2])
    BY <1>7 DEF InjStop, Levels
  <2>2. CASE Last
    <3>1. inj'.state = "IDLE"
      BY <1>2, <1>7, <2>2 DEF InjStop
    <3>2. t >= 1 /\ t >= 2
      BY <1>1, <1>2, <2>2
    <3> QED BY <1>3, <2>1, <3>1, <3>2 DEF Levels
  <2>3. CASE ~Last
    <3>1. inj'.state = "STOP" /\ inj'.ticks = t + 1
      BY <1>2, <1>7, <2>3 DEF InjStop
    <3> QED BY <1>2, <1>3, <2>1, <3>1 DEF Levels
  <2> QED BY <2>2, <2>3
<1> QED BY <1>4, <1>5, <1>6, <1>7 DEF Clock, InjectorTick

\* The receiver's counter once the baud rate is set.
LEMMA RxTiming ==
    ASSUME TypeOK, baud_selector = Baud, BaudCounters
    PROVE  /\ rx_baud_counter \in Nat
           /\ rx_baud <=> rx_baud_counter = Turn
           /\ rx_sample <=> rx_baud_counter = Half - 1
           /\ rx_restart_baud \/ rx_baud_counter = Turn => rx_baud_counter' = 0
           /\ ~rx_restart_baud /\ rx_baud_counter < Turn =>
                    rx_baud_counter' = rx_baud_counter + 1
<1>1. ClksPerBit = Tpb
  BY DEF ClksPerBit, Tpb
<1>2. /\ Tpb # 0 /\ Half # 0
      /\ rx_baud_counter \in Nat
      /\ rx_baud_counter < Turn => rx_baud_counter # CounterMax - 1
      /\ rx_baud_counter < Turn => rx_baud_counter # Turn
      /\ Turn = Tpb - 1
  BY BaudIsSet, SizeAssumption DEF TypeOK, Count
<1>3. rx_baud <=> rx_baud_counter = Turn
  BY <1>1, <1>2 DEF rx_baud, Before
<1>4. rx_sample <=> rx_baud_counter = Half - 1
  BY <1>1, <1>2 DEF rx_sample, Before, Half
<1>5. rx_baud_counter' = IF rx_baud \/ rx_restart_baud THEN 0 ELSE CountUp(rx_baud_counter)
  BY DEF BaudCounters
<1>6. rx_restart_baud \/ rx_baud_counter = Turn => rx_baud_counter' = 0
  BY <1>3, <1>5
<1>7. ~rx_restart_baud /\ rx_baud_counter < Turn => rx_baud_counter' = rx_baud_counter + 1
  BY <1>2, <1>3, <1>5 DEF CountUp
<1> QED BY <1>2, <1>3, <1>4, <1>6, <1>7

-----------------------------------------------------------------------------
(* The frame on the line.                                                  *)

\* BAUD is written once, so the selector stays.
LEMMA SelectorStays ==
    ASSUME LoopInv, BusFsm, baud_selector = Baud
    PROVE  baud_selector' = Baud
<1>1. device_state # "WRITE"
  BY BaudIsSet DEF LoopInv, OneAccess, InjTyped, Quiet, Requested, Underway, Answered
<1> QED BY <1>1 DEF BusFsm, Wait, Read, Write

\* Between two samples injector and receiver move on together.
LEMMA InStepAdvances ==
    ASSUME InjTyped, InjectorTick, NEW r \in 0 .. DataBits, NEW c \in Nat, c < Turn, InStep(r, c)
    PROVE  InStep(r, c + 1)'
<1> DEFINE U == Turn
<1> PICK t : t = inj.ticks
  OBVIOUS
<1>1. /\ U \in Nat /\ Half \in Nat /\ DataBits \in Nat /\ r \in Nat /\ r <= DataBits
      /\ Half + DataBits + 7 <= U
  BY BaudIsSet
<1>2. \/ InjIs(r) /\ t - r - c \in 6 .. Half + 6
      \/ InjIs(r + 1) /\ t + U - r - c \in 6 .. Half + 6
  BY DEF InStep, Delay
<1>3. \A k \in Nat : InjIs(k) =>
          /\ t \in Nat /\ t < U /\ k <= DataBits + 1
          /\ t + 1 # U => InjIs(k)' /\ inj'.ticks = t + 1
          /\ t + 1 = U /\ k < DataBits + 1 => InjIs(k + 1)' /\ inj'.ticks = 0
  BY NextPlace
<1> HIDE DEF U
<1>4. CASE InjIs(r) /\ t - r - c \in 6 .. Half + 6 /\ t + 1 # U
  <2>1. InjIs(r)' /\ inj'.ticks = t + 1
    BY <1>1, <1>3, <1>4
  <2>2. (t + 1) - r - (c + 1) \in 6 .. Half + 6
    BY <1>1, <1>3, <1>4
  <2>3. inj'.ticks - r - (c + 1) \in 6 .. Half + 6
    BY <2>1, <2>2
  <2> QED BY <2>1, <2>3, Zenon DEF InStep, Delay
<1>5. CASE InjIs(r) /\ t - r - c \in 6 .. Half + 6 /\ t + 1 = U
  <2>1. InjIs(r + 1)' /\ inj'.ticks = 0
    BY <1>1, <1>3, <1>5
  <2>2. 0 + U - r - (c + 1) \in 6 .. Half + 6
    BY <1>1, <1>3, <1>5
  <2> QED BY <2>1, <2>2 DEF InStep, Delay, U
<1>6. CASE InjIs(r + 1) /\ t + U - r - c \in 6 .. Half + 6
  <2>1. r + 1 \in Nat /\ t + 1 # U
    BY <1>1, <1>3, <1>6 DEF U
  <2>2. InjIs(r + 1)' /\ inj'.ticks = t + 1
    BY <1>3, <1>6, <2>1
  <2>3. t + 1 + U - r - (c + 1) \in 6 .. Half + 6
    BY <1>1, <1>3, <1>6, <2>1
  <2> QED BY <2>2, <2>3 DEF InStep, Delay, U
<1> QED BY <1>2, <1>4, <1>5, <1>6

\* When the receiver samples, the injector is in the bit it is meant to take, and
\* the level at the end of the synchroniser is that bit.
LEMMA SampleInBit ==
    ASSUME InjTyped, InjectorTick, Levels, NEW r \in 0 .. DataBits, InStep(r, Turn)
    PROVE  /\ InjIs(r + 1) /\ inj.ticks >= 3
           /\ r < DataBits => line = inj.data[r] /\ InStep(r + 1, 0)'
           /\ r = DataBits => line /\ inj.state = "STOP"
<1> DEFINE U == Turn
<1> PICK t : t = inj.ticks
  OBVIOUS
<1> PICK k : k = r + 1
  OBVIOUS
<1>1. /\ U \in Nat /\ Half \in Nat /\ DataBits \in Nat /\ r \in Nat /\ k \in Nat
      /\ r <= DataBits /\ Half + DataBits + 7 <= U
  BY BaudIsSet
<1>2. \/ InjIs(r) /\ t - r - U \in 6 .. Half + 6
      \/ InjIs(k) /\ t + U - r - U \in 6 .. Half + 6
  BY DEF InStep, Delay
<1>3. \A n \in Nat : InjIs(n) =>
          /\ t \in Nat /\ t < U
          /\ t + 1 # U => InjIs(n)' /\ inj'.ticks = t + 1
  BY NextPlace
<1>4. inj.bit \in 0 .. DataBits - 1
  BY DEF InjTyped
<1> HIDE DEF U
<1>5. InjIs(k) /\ t - r \in 6 .. Half + 6 /\ t \in Nat
  BY <1>1, <1>2, <1>3
<1>6. t >= 3
  BY <1>1, <1>5
<1>7. ASSUME r < DataBits PROVE line = inj.data[r] /\ InStep(r + 1, 0)'
  <2>1. k \in 1 .. DataBits /\ k - 1 = r
    BY <1>1, <1>7
  <2>2. inj.state = "DATA" /\ inj.bit = r
    BY <1>4, <1>5, <2>1, StateOfPlace DEF InjIs
  <2>3. line = inj.data[r]
    BY <1>6, <2>2 DEF Levels, line
  <2>4. t + 1 # U
    BY <1>1, <1>5, <1>7
  <2>5. InjIs(k)' /\ inj'.ticks = t + 1
    BY <1>1, <1>3, <1>5, <2>4
  <2>6. (t + 1) - k - 0 \in 6 .. Half + 6
    BY <1>1, <1>5
  <2>7. InjIs(r + 1)' /\ inj'.ticks - (r + 1) - 0 \in 6 .. Half + 6
    BY <2>5, <2>6
  <2>8. InStep(r + 1, 0)'
    BY <2>7, Zenon DEF InStep, Delay
  <2> QED BY <2>3, <2>8
<1>8. ASSUME r = DataBits PROVE line /\ inj.state = "STOP"
  <2>1. inj.state = "STOP"
    BY <1>1, <1>4, <1>5, <1>8, StateOfPlace DEF InjIs
  <2> QED BY <1>6, <2>1 DEF Levels, line
<1> QED BY <1>5, <1>6, <1>7, <1>8

\* Before the receiver is set up nothing is sent, and nothing is received.
LEMMA EdgeUnsettled ==
    ASSUME LoopInv, Levels, Unsettled, Clock
    PROVE  /\ Unsettled'
           /\ ~settled => /\ inj'.state = "IDLE" /\ ~inj'.data_ready
                          /\ rx_expected' = <<>> /\ rx_empty'
                          /\ settled' => rx_state' = "IDLE" /\ baud_selector' = Baud
<1> SUFFICES ASSUME ~settled
             PROVE  /\ Unsettled'
                    /\ inj'.state = "IDLE" /\ ~inj'.data_ready
                    /\ rx_expected' = <<>> /\ rx_empty'
                    /\ settled' => rx_state' = "IDLE" /\ baud_selector' = Baud
  BY DEF Clock, Unsettled
<1>1. /\ inj.state = "IDLE" /\ ~inj.data_ready
      /\ rx_expected = <<>> /\ rx_empty
      /\ rx_state \in {"IDLE", "START"}
      /\ rx_sync[1] => rx_sync[2]
      /\ ~rx_sync[1] =>
            /\ baud_selector = Disabled
            /\ \/ rx_state = "IDLE" /\ ~rx_restart_baud /\ rx_baud_counter = 0
                  /\ device_state = "WAIT"
               \/ rx_state = "START" /\ rx_baud_counter = 1 /\ rx_sync[2]
  BY DEF Unsettled
<1>2. inj' = inj
  BY <1>1 DEF Clock, InjectorTick, InjIdle, InjStart, InjData, InjStop
<1>3. /\ rx_sync'[1] = rx_sync[2] /\ rx_sync'[2] = rx_i /\ rx_i
  BY <1>1, Shifted DEF Clock, Edge, RxFsm, LoopInv, Levels
<1>4. baud_selector = Disabled => Before(ClksPerBit \div 2) = CounterMax - 1
                                  /\ Before(ClksPerBit) = CounterMax - 1
  BY DivisorAssumption DEF Before, ClksPerBit
<1>5. CounterMax - 1 # 0 /\ CounterMax - 1 # 1
  BY BaudIsSet, SizeAssumption
<1>6. rx_state' \in {"IDLE", "START"} /\ rx_buf_end' = rx_buf_end
  BY <1>1, <1>4, <1>5 DEF Clock, Edge, RxFsm, RxIdle, RxStart, RxData, RxStop, rx_sample, line
<1>7. rx_buf_start' = rx_buf_start
  BY <1>1 DEF Clock, Edge, BusFsm, Wait, Read, Write
<1>8. rx_expected' = <<>>
  BY <1>1 DEF Clock, Scoreboard, StruckOff, Drops, Completes
<1>9. ASSUME ~rx_sync[2]
      PROVE  /\ baud_selector' = Disabled
             /\ rx_state' = "START" /\ rx_baud_counter' = 1
  <2>1. /\ baud_selector = Disabled /\ rx_state = "IDLE" /\ ~rx_restart_baud
        /\ rx_baud_counter = 0 /\ device_state = "WAIT" /\ ~rx_sync[1]
    BY <1>1, <1>9
  <2>2. baud_selector' = Disabled
    BY <2>1 DEF Clock, Edge, BusFsm, Wait, Read, Write
  <2>3. rx_baud_counter' = 1
    BY <1>4, <1>5, <2>1 DEF Clock, Edge, BaudCounters, rx_baud, CountUp
  <2>4. rx_state' = "START"
    BY <2>1 DEF Clock, Edge, RxFsm, RxIdle, RxStart, RxData, RxStop, line
  <2> QED BY <2>2, <2>3, <2>4
<1>10. Unsettled'
  BY <1>1, <1>2, <1>3, <1>6, <1>7, <1>8, <1>9 DEF Unsettled, rx_empty
<1>11. ASSUME settled' PROVE rx_state' = "IDLE" /\ baud_selector' = Baud
  <2>1. ClksPerBit # 0 /\ rx_state = "IDLE" /\ line
    BY <1>11 DEF Clock
  <2>2. baud_selector = Baud
    BY <2>1, DivisorAssumption DEF LoopInv, OneAccess, ClksPerBit
  <2>3. baud_selector' = Baud
    BY <2>2, SelectorStays DEF Clock, Edge
  <2>4. rx_state' = "IDLE"
    BY <2>1 DEF Clock, Edge, RxFsm, RxIdle, RxStart, RxData, RxStop
  <2> QED BY <2>3, <2>4
<1>12. rx_empty'
  BY <1>1, <1>6, <1>7 DEF rx_empty
<1> QED BY <1>1, <1>2, <1>8, <1>10, <1>11, <1>12

\* One cycle of the receiver: it finds the start bit three cycles after the
\* injector has put it on the line, and takes bit r while bit r is on the line.
LEMMA EdgeFrameInStep ==
    ASSUME LoopInv, Levels, FrameInStep, settled, Clock
    PROVE  FrameInStep'
<1> DEFINE U == Turn
<1> PICK c : c = rx_baud_counter
  OBVIOUS
<1> PICK t : t = inj.ticks
  OBVIOUS
<1> PICK r : r = rx_collecting_count
  OBVIOUS
<1>1. /\ U \in Nat /\ Tpb \in Nat /\ U = Tpb - 1 /\ Half \in Nat /\ DataBits \in Nat /\ DataBits # 0
      /\ Half + DataBits + 7 <= U /\ 0 < Half
  BY BaudIsSet
<1>2. TypeOK /\ InjTyped /\ InjectorTick /\ BaudCounters /\ RxSynchronise
      /\ (RxIdle \/ RxStart \/ RxData \/ RxStop)
  BY DEF LoopInv, Clock, Edge, RxFsm
<1>3. baud_selector = Baud /\ baud_selector' = Baud
  BY SelectorStays DEF FrameInStep, Clock, Edge
<1>4. /\ c \in Nat
      /\ rx_baud <=> c = U
      /\ rx_sample <=> c = Half - 1
      /\ rx_restart_baud \/ c = U => rx_baud_counter' = 0
      /\ ~rx_restart_baud /\ c < U => rx_baud_counter' = c + 1
  BY <1>2, <1>3, RxTiming
<1>5. \A k \in Nat : InjIs(k) =>
          /\ t \in Nat /\ t < U /\ inj'.data = inj.data
          /\ t + 1 # U => InjIs(k)' /\ inj'.ticks = t + 1 /\ inj'.state = inj.state
          /\ t + 1 = U /\ k = DataBits + 1 => inj'.state = "IDLE"
  BY <1>2, NextPlace
<1>6. r \in 0 .. DataBits - 1 /\ rx_collecting \in Byte
  BY <1>2 DEF TypeOK
<1> HIDE DEF U
\* In the start bit the line is high for three cycles and then low.
<1>7. inj.state = "START" =>
          /\ t \in Nat /\ (line <=> t < 3)
          /\ InjIs(0)
          /\ t + 1 # U => inj'.state = "START" /\ inj'.ticks = t + 1 /\ InjIs(0)'
  <2> SUFFICES ASSUME inj.state = "START"
               PROVE  /\ t \in Nat /\ (line <=> t < 3)
                      /\ InjIs(0)
                      /\ t + 1 # U => inj'.state = "START" /\ inj'.ticks = t + 1 /\ InjIs(0)'
    OBVIOUS
  <2>1. InjIs(0) /\ 0 \in Nat
    BY DEF InjIs, PlaceOf
  <2> QED BY <1>5, <2>1 DEF Levels, line
<1>8. CASE rx_state = "IDLE"
  <2>1. \/ inj.state = "IDLE"
        \/ inj.state = "START" /\ t <= 3
        \/ inj.state = "STOP" /\ t >= 3
    BY <1>8 DEF FrameInStep
  <2>2. /\ line => rx_state' = "IDLE"
        /\ ~line => rx_state' = "START" /\ rx_restart_baud'
    BY <1>2, <1>8 DEF RxIdle, RxStart, RxData, RxStop
  <2>3. CASE inj.state = "IDLE"
    <3>1. line
      <4>1. rx_sync = <<TRUE, TRUE>>
        BY <2>3, Zenon DEF Levels
      <4> QED BY <4>1 DEF line
    <3>2. inj'.state = "IDLE" \/ (inj'.state = "START" /\ inj'.ticks = 0)
      BY <1>2, <2>3 DEF InjectorTick, InjIdle, InjStart, InjData, InjStop, InjTyped
    <3> QED BY <1>3, <2>2, <3>1, <3>2 DEF FrameInStep
  <2>4. CASE inj.state = "START" /\ t <= 3
    <3>1. inj'.state = "START" /\ inj'.ticks = t + 1
      BY <1>1, <1>7, <2>4
    <3>2. CASE t < 3
      BY <1>3, <1>7, <2>2, <2>4, <3>1, <3>2 DEF FrameInStep
    <3>3. CASE t = 3
      <4>1. rx_state' = "START" /\ rx_restart_baud'
        BY <1>7, <2>2, <2>4, <3>3
      <4>2. inj'.ticks = 4
        BY <3>1, <3>3
      <4> QED BY <1>3, <3>1, <4>1, <4>2 DEF FrameInStep
    <3> QED BY <1>7, <2>4, <3>2, <3>3
  <2>5. CASE inj.state = "STOP" /\ t >= 3
    <3>1. line
      BY <2>5 DEF Levels, line
    <3>2. InjIs(DataBits + 1) /\ DataBits + 1 \in Nat
      BY <1>1, <2>5 DEF InjIs, PlaceOf
    <3>3. \/ inj'.state = "IDLE"
          \/ inj'.state = "STOP" /\ inj'.ticks = t + 1 /\ t \in Nat
      BY <1>5, <2>5, <3>2
    <3> QED BY <1>3, <2>2, <2>5, <3>1, <3>3 DEF FrameInStep
  <2> QED BY <2>1, <2>3, <2>4, <2>5
<1>9. CASE rx_state = "START"
  <2>1. /\ inj.state = "START"
        /\ \/ rx_restart_baud /\ t = 4
           \/ ~rx_restart_baud /\ t = c + 5 /\ c < Half
    BY <1>9 DEF FrameInStep
  <2>2. RxStart
    BY <1>2, <1>9 DEF RxIdle, RxData, RxStop
  <2>3. ~line /\ t + 1 # U
    BY <1>1, <1>4, <1>7, <2>1
  <2>4. inj'.state = "START" /\ inj'.ticks = t + 1
    BY <1>7, <2>1, <2>3
  <2>5. /\ c = Half - 1 => rx_state' = "DATA" /\ rx_restart_baud' /\ rx_collecting_count' = 0
        /\ c # Half - 1 => rx_state' = "START" /\ ~rx_restart_baud'
    BY <1>4, <2>2, <2>3 DEF RxStart
  <2>6. PICK d : d = rx_baud_counter'
    OBVIOUS
  <2>7. \/ rx_restart_baud /\ t = 4 /\ d = 0
        \/ ~rx_restart_baud /\ t = c + 5 /\ c < Half /\ d = c + 1
    BY <1>1, <1>4, <2>1, <2>6
  <2>8. CASE c = Half - 1
    <3>1. t + 1 \in 5 .. Half + 5 /\ d <= Half /\ d < Tpb
      BY <1>1, <1>4, <2>7, <2>8
    <3>2. inj'.ticks \in 5 .. Half + 5 /\ rx_baud_counter' <= Half /\ rx_baud_counter' < Tpb
      BY <2>4, <2>6, <3>1
    <3>3. Taken(0)'
      BY DEF Taken
    <3>4. Taken(rx_collecting_count)'
      BY <2>5, <2>8, <3>3 DEF Taken
    <3> QED BY <1>3, <2>4, <2>5, <2>8, <3>2, <3>4 DEF FrameInStep
  <2>9. CASE c # Half - 1
    <3>1. t + 1 = d + 5 /\ d < Half
      BY <1>1, <1>4, <2>7, <2>9
    <3>2. inj'.ticks = rx_baud_counter' + 5 /\ rx_baud_counter' < Half
      BY <2>4, <2>6, <3>1
    <3> QED BY <1>3, <2>4, <2>5, <2>9, <3>2 DEF FrameInStep
  <2> QED BY <2>8, <2>9
<1>10. CASE rx_state = "DATA" /\ rx_restart_baud
  <2>1. r = 0 /\ inj.state = "START" /\ t \in 5 .. Half + 5 /\ c <= Half
    BY <1>10 DEF FrameInStep
  <2>2. RxData /\ ~rx_baud
    BY <1>1, <1>2, <1>4, <1>10, <2>1 DEF RxIdle, RxStart, RxStop
  <2>3. rx_state' = "DATA" /\ ~rx_restart_baud' /\ rx_collecting_count' = 0
    BY <2>1, <2>2 DEF RxData
  <2>4. rx_baud_counter' = 0
    BY <1>4, <1>10
  <2>5. InjIs(0)' /\ inj'.ticks = t + 1 /\ inj'.state = "START"
    BY <1>1, <1>7, <2>1
  <2>6. (t + 1) - 0 - 0 \in 6 .. Half + 6
    BY <1>1, <2>1
  <2>7. InStep(0, 0)'
    BY <2>5, <2>6 DEF InStep, Delay
  <2>8. InStep(rx_collecting_count, rx_baud_counter)'
    BY <2>3, <2>4, <2>7 DEF InStep, InjIs, PlaceOf
  <2>9. Taken(rx_collecting_count)'
    BY <2>3 DEF Taken
  <2> QED BY <1>1, <1>3, <2>3, <2>4, <2>5, <2>8, <2>9 DEF FrameInStep
\* Between two samples.
<1>11. CASE \/ rx_state = "DATA" /\ ~rx_restart_baud /\ c < U
            \/ rx_state = "STOP" /\ c < U
  <2>1. PICK n \in 0 .. DataBits :
            /\ InStep(n, c) /\ Taken(n) /\ ~rx_restart_baud
            /\ rx_state = "DATA" => n = r
            /\ rx_state = "STOP" => n = DataBits
    BY <1>1, <1>6, <1>11 DEF FrameInStep
  <2>2. InStep(n, c + 1)'
    BY <1>2, <1>4, <1>11, <2>1, InStepAdvances DEF U
  <2>3. rx_baud_counter' = c + 1 /\ ~rx_baud
    BY <1>1, <1>4, <1>11, <2>1
  <2>4. rx_state' = rx_state /\ ~rx_restart_baud' /\ UNCHANGED <<rx_collecting, rx_collecting_count>>
    BY <1>2, <1>11, <2>3 DEF RxIdle, RxStart, RxData, RxStop
  <2>5. inj.state # "IDLE" /\ inj'.data = inj.data /\ inj'.state # "IDLE"
    <3>1. n \in Nat /\ n + 1 \in Nat
      BY <1>1
    <3>2. InjIs(n) \/ InjIs(n + 1)
      BY <2>1 DEF InStep
    <3>3. InjIs(n)' \/ InjIs(n + 1)'
      BY <2>2 DEF InStep
    <3> QED BY <1>5, <3>1, <3>2, <3>3 DEF InjIs, PlaceOf
  <2>6. Taken(n)'
    BY <2>1, <2>4, <2>5 DEF Taken
  <2>7. c + 1 < Tpb
    BY <1>1, <1>4, <1>11
  <2>8. CASE rx_state = "DATA"
    <3>1. InStep(rx_collecting_count, rx_baud_counter)' /\ Taken(rx_collecting_count)'
      BY <2>1, <2>2, <2>3, <2>4, <2>6, <2>8 DEF InStep, InjIs, PlaceOf, Taken
    <3> QED BY <1>3, <2>3, <2>4, <2>5, <2>7, <2>8, <3>1 DEF FrameInStep
  <2>9. CASE rx_state = "STOP"
    <3>1. InStep(DataBits, rx_baud_counter)' /\ Taken(DataBits)'
      BY <2>1, <2>2, <2>3, <2>6, <2>9 DEF InStep, InjIs, PlaceOf
    <3> QED BY <1>3, <2>3, <2>4, <2>5, <2>7, <2>9, <3>1 DEF FrameInStep
  <2> QED BY <1>11, <2>8, <2>9
\* The sample of a data bit.
<1>12. CASE rx_state = "DATA" /\ ~rx_restart_baud /\ c = U
  <2>1. InStep(r, U) /\ Taken(r) /\ r \in 0 .. DataBits /\ r < DataBits
    BY <1>1, <1>6, <1>12 DEF FrameInStep
  <2>2. InjIs(r + 1) /\ line = inj.data[r] /\ InStep(r + 1, 0)'
    BY <1>2, <2>1, SampleInBit DEF U
  <2>3. RxData /\ rx_baud
    BY <1>2, <1>4, <1>12 DEF RxIdle, RxStart, RxStop
  <2>4. /\ rx_collecting' = [rx_collecting EXCEPT ![r] = inj.data[r]]
        /\ rx_collecting_count' = (r + 1) % DataBits
        /\ rx_state' = IF r = DataBits - 1 THEN "STOP" ELSE "DATA"
        /\ ~rx_restart_baud'
    BY <2>2, <2>3 DEF RxData
  <2>5. r + 1 \in Nat /\ inj'.data = inj.data /\ inj'.state # "IDLE"
    <3>1. r + 1 \in Nat /\ r + 1 + 1 \in Nat
      BY <1>6
    <3> QED BY <1>5, <2>2, <3>1 DEF InStep, InjIs, PlaceOf
  <2>6. Taken(r + 1)'
    <3>1. rx_collecting \in [0 .. DataBits - 1 -> BOOLEAN]
      BY <1>6 DEF Byte
    <3>2. \A i \in 0 .. DataBits - 1 : i < r + 1 => rx_collecting'[i] = inj.data[i]
      <4> SUFFICES ASSUME NEW i \in 0 .. DataBits - 1, i < r + 1
                   PROVE  rx_collecting'[i] = inj.data[i]
        OBVIOUS
      <4>1. i = r \/ i < r
        BY <1>6
      <4> QED BY <1>6, <2>1, <2>4, <3>1, <4>1 DEF Taken
    <3> QED BY <2>5, <3>2 DEF Taken
  <2>7. rx_baud_counter' = 0 /\ 0 < Tpb
    BY <1>1, <1>4, <1>12
  <2>8. CASE r = DataBits - 1
    <3>1. r + 1 = DataBits
      BY <1>1, <2>8
    <3>2. InStep(DataBits, 0)' /\ Taken(DataBits)'
      BY <2>2, <2>6, <3>1
    <3>3. InStep(DataBits, rx_baud_counter)'
      BY <2>7, <3>2 DEF InStep, InjIs, PlaceOf
    <3> QED BY <1>3, <2>4, <2>5, <2>7, <2>8, <3>2, <3>3 DEF FrameInStep
  <2>9. CASE r # DataBits - 1
    <3>1. (r + 1) % DataBits = r + 1
      BY <1>1, <1>6, <2>9
    <3>2. InStep(rx_collecting_count, rx_baud_counter)' /\ Taken(rx_collecting_count)'
      BY <2>2, <2>4, <2>6, <2>7, <3>1 DEF InStep, InjIs, PlaceOf, Taken
    <3> QED BY <1>3, <2>4, <2>5, <2>7, <2>9, <3>2 DEF FrameInStep
  <2> QED BY <2>8, <2>9
\* The sample of the stop bit.
<1>13. CASE rx_state = "STOP" /\ c = U
  <2>1. InStep(DataBits, U) /\ DataBits \in 0 .. DataBits
    BY <1>1, <1>13 DEF FrameInStep
  <2>2. InjIs(DataBits + 1) /\ t >= 3 /\ line /\ inj.state = "STOP"
    BY <1>2, <2>1, SampleInBit DEF U
  <2>3. rx_state' = "IDLE"
    BY <1>2, <1>4, <1>13, <2>2 DEF RxIdle, RxStart, RxData, RxStop
  <2>4. \/ inj'.state = "IDLE"
        \/ inj'.state = "STOP" /\ inj'.ticks = t + 1 /\ t \in Nat
    <3>1. DataBits + 1 \in Nat
      BY <1>1
    <3> QED BY <1>5, <2>2, <3>1
  <2> QED BY <1>3, <2>2, <2>3, <2>4 DEF FrameInStep
<1>14. rx_state \in {"DATA", "STOP"} => c < Tpb
  BY DEF FrameInStep
<1>15. rx_state \in {"DATA", "STOP"} => c < U \/ c = U
  BY <1>1, <1>4, <1>14
<1>16. rx_state \in {"IDLE", "START", "DATA", "STOP"}
  BY <1>2 DEF TypeOK, TxState
<1> QED BY <1>8, <1>9, <1>10, <1>11, <1>12, <1>13, <1>15, <1>16

-----------------------------------------------------------------------------
(* The FIFO as a queue.                                                    *)

\* Reading takes the byte at the head.
LEMMA HoldsRead ==
    ASSUME NEW n, NEW s \in Cell, NEW e \in Cell, NEW buf, NEW q \in Seq(Byte),
           Holds(n, s, e, buf, q), n <= Len(q), s # e
    PROVE  /\ n >= 1 /\ q # <<>> /\ Head(q) = buf[s]
           /\ Tail(q) \in Seq(Byte) /\ Len(Tail(q)) = Len(q) - 1
           /\ \A i \in 1 .. Len(q) - 1 : Tail(q)[i] = q[i + 1]
           /\ Holds(n - 1, Inc(s), e, buf, Tail(q))
<1>1. n \in Nat /\ n < BufferLength /\ e = After(s, n) /\ Len(q) \in Nat
  BY DEF Holds
<1>2. n >= 1
  BY <1>1, AfterIsCell
<1>3. /\ q # <<>> /\ Tail(q) \in Seq(Byte) /\ Len(Tail(q)) = Len(q) - 1
      /\ \A i \in 1 .. Len(q) - 1 : Tail(q)[i] = q[i + 1]
  BY <1>1, <1>2
<1>4. \A i \in 1 .. n : q[i] = buf[After(s, i - 1)]
  BY DEF Holds
<1>5. Head(q) = buf[s]
  <2>1. q[1] = buf[After(s, 0)]
    BY <1>1, <1>2, <1>4
  <2> QED BY <1>1, <1>3, <2>1, AfterIsCell
<1>6. n - 1 \in Nat /\ n - 1 < BufferLength /\ After(Inc(s), n - 1) = e
  BY <1>1, <1>2, SizeAssumption DEF After, Inc, Cell
<1>7. \A i \in 1 .. n - 1 : Tail(q)[i] = buf[After(Inc(s), i - 1)]
  <2> SUFFICES ASSUME NEW i \in 1 .. n - 1
               PROVE  Tail(q)[i] = buf[After(Inc(s), i - 1)]
    OBVIOUS
  <2>1. i + 1 \in 1 .. n /\ i \in 1 .. Len(q) - 1
    BY <1>1
  <2>2. After(Inc(s), i - 1) = After(s, i + 1 - 1)
    BY <1>1, SizeAssumption DEF After, Inc, Cell
  <2> QED BY <1>3, <1>4, <2>1, <2>2
<1> QED BY <1>2, <1>3, <1>5, <1>6, <1>7 DEF Holds

\* The receiver writes its byte into the free cell, whether it keeps it or not.
LEMMA HoldsOverwrite ==
    ASSUME NEW n, NEW s \in Cell, NEW e \in Cell, NEW buf \in [Cell -> Byte],
           NEW q, NEW b, Holds(n, s, e, buf, q)
    PROVE  Holds(n, s, e, [buf EXCEPT ![e] = b], q)
<1>1. n \in Nat /\ n < BufferLength /\ e = After(s, n)
  BY DEF Holds
<1>2. \A i \in 1 .. n : After(s, i - 1) # e /\ After(s, i - 1) \in Cell
  <2> TAKE i \in 1 .. n
  <2>1. i - 1 \in Nat /\ i - 1 < n /\ i - 1 < BufferLength
    BY <1>1, SizeAssumption
  <2> QED BY <1>1, <2>1, AfterIsCell
<1>3. \A i \in 1 .. n : q[i] = buf[After(s, i - 1)]
  BY DEF Holds
<1>4. \A i \in 1 .. n : q[i] = [buf EXCEPT ![e] = b][After(s, i - 1)]
  BY <1>2, <1>3
<1> QED BY <1>1, <1>4 DEF Holds

\* It keeps it when the FIFO is not full: the next byte of the queue has arrived.
LEMMA HoldsReceive ==
    ASSUME NEW n, NEW s \in Cell, NEW e \in Cell, NEW buf \in [Cell -> Byte],
           NEW q, NEW b, Holds(n, s, e, buf, q), q[n + 1] = b, Inc(e) # s
    PROVE  Holds(n + 1, s, Inc(e), [buf EXCEPT ![e] = b], q)
<1>1. n \in Nat /\ n < BufferLength /\ e = After(s, n)
  BY DEF Holds
<1>2. n + 1 \in Nat /\ n + 1 < BufferLength /\ Inc(e) = After(s, n + 1)
  BY <1>1, SizeAssumption DEF After, Inc, Cell
<1>3. Holds(n, s, e, [buf EXCEPT ![e] = b], q)
  BY HoldsOverwrite
<1>4. \A i \in 1 .. n : q[i] = [buf EXCEPT ![e] = b][After(s, i - 1)]
  BY <1>3 DEF Holds
<1>5. \A i \in 1 .. n + 1 : q[i] = [buf EXCEPT ![e] = b][After(s, i - 1)]
  <2> SUFFICES ASSUME NEW i \in 1 .. n + 1
               PROVE  q[i] = [buf EXCEPT ![e] = b][After(s, i - 1)]
    OBVIOUS
  <2>1. CASE i \in 1 .. n
    BY <1>4, <2>1
  <2>2. CASE i = n + 1
    <3>1. After(s, i - 1) = e
      BY <1>1, <2>2
    <3> QED BY <2>2, <3>1
  <2> QED BY <1>1, <2>1, <2>2
<1> QED BY <1>2, <1>5 DEF Holds

\* A byte the FIFO refuses is taken off the queue at the back.
LEMMA HoldsCut ==
    ASSUME NEW s, NEW e, NEW buf, NEW q \in Seq(Byte), q # <<>>,
           Holds(Len(q) - 1, s, e, buf, q)
    PROVE  /\ SubSeq(q, 1, Len(q) - 1) \in Seq(Byte)
           /\ Len(SubSeq(q, 1, Len(q) - 1)) = Len(q) - 1
           /\ Holds(Len(q) - 1, s, e, buf, SubSeq(q, 1, Len(q) - 1))
<1>1. Len(q) \in Nat /\ Len(q) >= 1
  OBVIOUS
<1>2. /\ SubSeq(q, 1, Len(q) - 1) \in Seq(Byte)
      /\ Len(SubSeq(q, 1, Len(q) - 1)) = Len(q) - 1
      /\ \A i \in 1 .. Len(q) - 1 : SubSeq(q, 1, Len(q) - 1)[i] = q[i]
  <2>1. PICK m \in Nat : m = Len(q) - 1 /\ m <= Len(q)
    BY <1>1
  <2>2. PICK p : p = SubSeq(q, 1, m)
    OBVIOUS
  <2>3. p \in Seq(Byte) /\ Len(p) = m /\ \A i \in 1 .. m : p[i] = q[i]
    BY <2>1, <2>2
  <2> QED BY <2>1, <2>2, <2>3
<1> QED BY <1>2 DEF Holds

\* A byte sent joins the queue and is not in the FIFO yet.
LEMMA HoldsSend ==
    ASSUME NEW s, NEW e, NEW buf, NEW q \in Seq(Byte), NEW b \in Byte,
           Holds(Len(q), s, e, buf, q)
    PROVE  /\ Append(q, b) # <<>> /\ Append(q, b)[Len(Append(q, b))] = b
           /\ Holds(Len(Append(q, b)) - 1, s, e, buf, Append(q, b))
<1>1. Len(q) \in Nat /\ Len(Append(q, b)) - 1 = Len(q)
  OBVIOUS
<1>2. \A i \in 1 .. Len(q) : Append(q, b)[i] = q[i]
  OBVIOUS
<1>3. Append(q, b) # <<>> /\ Append(q, b)[Len(Append(q, b))] = b
  OBVIOUS
<1> QED BY <1>1, <1>2, <1>3 DEF Holds

\* Every cycle of the receiver either completes the frame in flight or leaves the
\* FIFO and what is in flight as they are.
LEMMA EdgeReceives ==
    ASSUME LoopInv, Levels, FrameInStep, settled, Clock
    PROVE  /\ inj'.data = inj.data
           /\ ~Completes => /\ UNCHANGED <<rx_buf, rx_buf_end>>
                            /\ (InFlight' <=> InFlight)
           /\ Completes => /\ InFlight /\ ~InFlight'
                           /\ rx_buf' = [rx_buf EXCEPT ![rx_buf_end] = inj.data]
                           /\ rx_buf_end' = IF rx_full THEN rx_buf_end ELSE Inc(rx_buf_end)
<1>1. /\ inj \in [state : TxState, data_ready : BOOLEAN, data : Byte,
                  ticks : 0 .. Tpb, bit : 0 .. DataBits - 1]
      /\ inj.data_ready => inj.state = "IDLE"
      /\ inj'.data_ready => inj'.state = "IDLE"
      /\ rx_state \in {"IDLE", "START", "DATA", "STOP"}
      /\ rx_collecting \in Byte
  BY StepLoopInv DEF LoopInv, InjTyped, TypeOK, TxState, Next
<1>2. InjectorTick /\ RxFsm /\ BaudCounters /\ baud_selector = Baud /\ settled'
  BY DEF Clock, Edge, FrameInStep
<1>3. /\ inj'.data = inj.data
      /\ inj.state = "IDLE" => \/ inj.data_ready /\ inj'.state = "START"
                               \/ ~inj.data_ready /\ inj' = inj
      /\ inj.state = "START" => inj'.state \in {"START", "DATA"}
      /\ inj.state = "DATA" => \/ inj'.state = "DATA"
                               \/ inj'.state = "STOP" /\ inj'.ticks = 0
      /\ inj.state = "STOP" => inj'.state \in {"STOP", "IDLE"}
  BY <1>1, <1>2 DEF InjectorTick, InjIdle, InjStart, InjData, InjStop
<1>4. /\ inj.state = "IDLE" => rx_state = "IDLE"
      /\ rx_state = "START" => inj.state = "START"
      /\ inj.state = "STOP" /\ rx_state = "IDLE" => inj.ticks >= 3
  BY DEF FrameInStep
<1>5. /\ inj'.state = "IDLE" => rx_state' = "IDLE"
      /\ rx_state' = "START" => inj'.state = "START"
      /\ inj'.state = "STOP" /\ rx_state' = "IDLE" => inj'.ticks # 0
  <2>1. FrameInStep'
    BY EdgeFrameInStep
  <2>2. inj'.state = "STOP" /\ rx_state' = "IDLE" => inj'.ticks >= 3
    BY <1>2, <2>1 DEF FrameInStep
  <2> QED BY <1>2, <2>1, <2>2 DEF FrameInStep
<1>6. CASE Completes
  <2>1. rx_baud_counter = Turn
    BY <1>2, <1>6, RxTiming DEF LoopInv, Completes
  <2>2. InStep(DataBits, Turn) /\ Taken(DataBits) /\ DataBits \in 0 .. DataBits
    BY <1>6, <2>1, BaudIsSet DEF FrameInStep, Completes
  <2>3. inj.state = "STOP"
    BY <1>2, <2>2, SampleInBit DEF LoopInv
  <2>4. RxStop
    BY <1>2, <1>6 DEF RxFsm, RxIdle, RxStart, RxData, Completes
  <2>5. /\ rx_state' = "IDLE"
        /\ rx_buf' = [rx_buf EXCEPT ![rx_buf_end] = rx_collecting]
        /\ rx_buf_end' = IF rx_full THEN rx_buf_end ELSE Inc(rx_buf_end)
    BY <1>6, <2>4 DEF RxStop, Completes
  <2>6. rx_collecting = inj.data
    <3>1. \A i \in 0 .. DataBits - 1 : rx_collecting[i] = inj.data[i]
      BY <2>2, BaudIsSet DEF Taken
    <3> QED BY <1>1, <3>1, SameBits
  <2>7. InFlight
    BY <1>6, <2>3 DEF InFlight, Completes
  <2>8. ~InFlight'
    <3>1. CASE inj'.state = "STOP"
      BY <1>1, <2>5, <3>1 DEF InFlight
    <3>2. CASE inj'.state = "IDLE"
      <4>1. ~inj'.data_ready
        BY <1>1, <1>2, <2>3 DEF InjectorTick, InjIdle, InjStart, InjData, InjStop
      <4> QED BY <3>2, <4>1 DEF InFlight
    <3> QED BY <1>3, <2>3, <3>1, <3>2
  <2> QED BY <1>3, <1>6, <2>5, <2>6, <2>7, <2>8
<1>7. CASE ~Completes
  <2>1. /\ UNCHANGED <<rx_buf, rx_buf_end>>
        /\ rx_state \in {"DATA", "STOP"} => rx_state' \in {"DATA", "STOP"}
        /\ rx_state = "IDLE" => rx_state' \in {"IDLE", "START"}
    BY <1>2, <1>7 DEF RxFsm, RxIdle, RxStart, RxData, RxStop, Completes
  <2>2. CASE inj.state = "IDLE"
    <3>1. CASE inj.data_ready
      <4>1. InFlight
        BY <3>1 DEF InFlight
      <4>2. InFlight'
        BY <1>3, <2>2, <3>1 DEF InFlight
      <4> QED BY <1>3, <1>7, <2>1, <4>1, <4>2
    <3>2. CASE ~inj.data_ready
      <4>1. inj' = inj
        BY <1>3, <2>2, <3>2
      <4>2. ~InFlight
        BY <2>2, <3>2 DEF InFlight
      <4>3. ~InFlight'
        BY <2>2, <3>2, <4>1 DEF InFlight
      <4> QED BY <1>3, <1>7, <2>1, <4>2, <4>3
    <3> QED BY <3>1, <3>2
  <2>3. CASE inj.state \in {"START", "DATA"}
    <3>1. InFlight
      BY <2>3 DEF InFlight
    <3>2. \/ inj'.state \in {"START", "DATA"}
          \/ inj'.state = "STOP" /\ rx_state' # "IDLE"
      BY <1>3, <1>5, <2>3
    <3> QED BY <1>3, <1>7, <2>1, <3>1, <3>2 DEF InFlight
  <2>4. CASE inj.state = "STOP" /\ rx_state = "IDLE"
    <3>1. ~InFlight
      BY <1>1, <2>4 DEF InFlight
    <3>2. rx_state' = "IDLE"
      BY <1>3, <1>5, <2>1, <2>4
    <3>3. ~inj'.data_ready
      BY <1>1, <1>2, <2>4 DEF InjectorTick, InjIdle, InjStart, InjData, InjStop
    <3> QED BY <1>3, <1>7, <2>1, <2>4, <3>1, <3>2, <3>3 DEF InFlight
  <2>5. CASE inj.state = "STOP" /\ rx_state # "IDLE"
    <3>1. InFlight
      BY <2>5 DEF InFlight
    <3>2. rx_state' # "IDLE"
      BY <1>1, <1>4, <2>1, <2>5
    <3>3. inj'.state = "STOP"
      BY <1>3, <1>5, <2>5, <3>2
    <3> QED BY <1>3, <1>7, <2>1, <3>1, <3>2, <3>3 DEF InFlight
  <2> QED BY <1>1, <2>2, <2>3, <2>4, <2>5 DEF TxState
<1> QED BY <1>6, <1>7

\* What the bus does to the FIFO and to the scoreboard's queue in a cycle, before
\* the receiver: a read of RX takes the byte at the head of both.
LEMMA EdgeReads ==
    ASSUME LoopInv, NEW n \in Nat, NEW buf, NEW e \in Cell, Clock,
           n <= Len(rx_expected), Holds(n, rx_buf_start, e, buf, rx_expected),
           Reads => rx_buf_start # e
    PROVE  /\ StruckOff \in Seq(Byte)
           /\ ~Reads => StruckOff = rx_expected /\ Holds(n, rx_buf_start', e, buf, StruckOff)
           /\ Reads => /\ n >= 1 /\ Len(StruckOff) = Len(rx_expected) - 1
                       /\ rx_expected # <<>> /\ Head(rx_expected) = buf[rx_buf_start]
                       /\ \A i \in 1 .. Len(rx_expected) - 1 : StruckOff[i] = rx_expected[i + 1]
                       /\ Holds(n - 1, rx_buf_start', e, buf, StruckOff)
<1>1. rx_buf_start \in Cell /\ rx_expected \in Seq(Byte)
  BY DEF LoopInv, TypeOK, InjTyped
<1>2. BusFsm
  BY DEF Clock, Edge
<1>3. CASE ~Reads
  <2>1. rx_buf_start' = rx_buf_start
    BY <1>2, <1>3 DEF BusFsm, Wait, Read, Write, WriteTx, WriteOther, Reads
  <2> QED BY <1>1, <1>3, <2>1 DEF StruckOff
<1>4. CASE Reads
  <2>1. ~rx_empty
    BY <1>4, LoopReadsStored
  <2>2. rx_buf_start' = Inc(rx_buf_start)
    BY <1>2, <1>4, <2>1 DEF BusFsm, Wait, Read, Write, WriteTx, WriteOther, Reads
  <2>3. /\ n >= 1 /\ rx_expected # <<>> /\ Head(rx_expected) = buf[rx_buf_start]
        /\ Tail(rx_expected) \in Seq(Byte) /\ Len(Tail(rx_expected)) = Len(rx_expected) - 1
        /\ \A i \in 1 .. Len(rx_expected) - 1 : Tail(rx_expected)[i] = rx_expected[i + 1]
        /\ Holds(n - 1, Inc(rx_buf_start), e, buf, Tail(rx_expected))
    BY <1>1, <1>4, HoldsRead
  <2>4. StruckOff = Tail(rx_expected)
    BY <1>4, <2>3 DEF StruckOff
  <2> QED BY <1>4, <2>2, <2>3, <2>4
<1> QED BY <1>3, <1>4

\* A cycle keeps the queue, and a read of RX returns its head.
LEMMA EdgeFifoIsExpected ==
    ASSUME LoopInv, Levels, FrameInStep, FifoIsExpected, settled, Clock
    PROVE  /\ FifoIsExpected'
           /\ Reads => rx_expected # <<>> /\ rdata'.val = Head(rx_expected)
<1> PICK s : s = rx_buf_start
  OBVIOUS
<1> PICK e : e = rx_buf_end
  OBVIOUS
<1> PICK q : q = rx_expected
  OBVIOUS
<1> PICK b : b = inj.data
  OBVIOUS
<1>1. /\ s \in Cell /\ e \in Cell /\ rx_buf \in [Cell -> Byte] /\ q \in Seq(Byte)
      /\ Len(q) \in Nat /\ b \in Byte
  BY DEF LoopInv, TypeOK, InjTyped
<1>2. Reads => s # e
  BY LoopReadsStored DEF rx_empty
<1>3. Reads => rdata'.val = rx_buf[s]
  <2> SUFFICES ASSUME Reads PROVE rdata'.val = rx_buf[s]
    OBVIOUS
  <2>1. ReadData.val = rx_buf[s]
    BY <1>2, ReadDataRegister DEF Reads, rx_empty
  <2>2. rdata' = ReadData
    BY DEF Clock, Edge, BusFsm, Wait, Read, Write, WriteTx, WriteOther, Reads
  <2> QED BY <2>1, <2>2
\* Nothing is received in this cycle.
<1>4. CASE ~Completes
  <2>1. /\ rx_buf' = rx_buf /\ rx_buf_end' = e /\ inj'.data = b /\ (InFlight' <=> InFlight)
    BY <1>4, EdgeReceives
  <2>2. rx_expected' = StruckOff
    BY <1>4 DEF Clock, Scoreboard, Drops
  <2>3. CASE InFlight
    <3>1. q # <<>> /\ q[Len(q)] = b /\ Holds(Len(q) - 1, s, e, rx_buf, q)
      BY <2>3 DEF FifoIsExpected
    <3>2. Len(q) - 1 \in Nat /\ Len(q) - 1 <= Len(q)
      BY <1>1, <3>1
    <3>3. /\ StruckOff \in Seq(Byte)
          /\ ~Reads => StruckOff = q /\ Holds(Len(q) - 1, rx_buf_start', e, rx_buf, StruckOff)
          /\ Reads => /\ Len(q) - 1 >= 1 /\ Len(StruckOff) = Len(q) - 1
                      /\ q # <<>> /\ Head(q) = rx_buf[s]
                      /\ \A i \in 1 .. Len(q) - 1 : StruckOff[i] = q[i + 1]
                      /\ Holds(Len(q) - 1 - 1, rx_buf_start', e, rx_buf, StruckOff)
      BY <1>1, <1>2, <3>1, <3>2, EdgeReads
    <3>4. /\ StruckOff # <<>> /\ StruckOff[Len(StruckOff)] = b
          /\ Holds(Len(StruckOff) - 1, rx_buf_start', e, rx_buf, StruckOff)
      <4>1. CASE ~Reads
        BY <3>1, <3>3, <4>1
      <4>2. CASE Reads
        <5>1. PICK m \in Nat : m = Len(q) - 1 /\ m >= 1 /\ m = Len(StruckOff)
          BY <1>1, <3>2, <3>3, <4>2
        <5>2. StruckOff[m] = q[m + 1] /\ q[m + 1] = b
          BY <1>1, <3>1, <3>3, <4>2, <5>1
        <5>3. StruckOff # <<>>
          BY <3>3, <5>1
        <5> QED BY <3>3, <4>2, <5>1, <5>2, <5>3
      <4> QED BY <4>1, <4>2
    <3>5. FifoIsExpected'
      BY <2>1, <2>2, <2>3, <3>4 DEF FifoIsExpected
    <3> QED BY <1>3, <3>3, <3>5
  <2>4. CASE ~InFlight
    <3>1. Holds(Len(q), s, e, rx_buf, q)
      BY <2>4 DEF FifoIsExpected
    <3>2. /\ ~Reads => StruckOff = q /\ Holds(Len(q), rx_buf_start', e, rx_buf, StruckOff)
          /\ Reads => /\ Len(StruckOff) = Len(q) - 1
                      /\ q # <<>> /\ Head(q) = rx_buf[s]
                      /\ Holds(Len(q) - 1, rx_buf_start', e, rx_buf, StruckOff)
      BY <1>1, <1>2, <3>1, EdgeReads
    <3>3. Holds(Len(StruckOff), rx_buf_start', e, rx_buf, StruckOff)
      BY <3>2
    <3>4. FifoIsExpected'
      BY <2>1, <2>2, <2>4, <3>3 DEF FifoIsExpected
    <3> QED BY <1>3, <3>2, <3>4
  <2> QED BY <2>3, <2>4
\* The byte in flight arrives.
<1>5. CASE Completes
  <2>1. /\ InFlight /\ ~InFlight'
        /\ rx_buf' = [rx_buf EXCEPT ![e] = b]
        /\ rx_buf_end' = IF Inc(e) = s THEN e ELSE Inc(e)
    BY <1>5, EdgeReceives DEF rx_full
  <2>2. q # <<>> /\ q[Len(q)] = b /\ Holds(Len(q) - 1, s, e, rx_buf, q)
    BY <2>1 DEF FifoIsExpected
  <2>3. PICK m \in Nat : m = Len(q) - 1
    BY <1>1, <2>2
  <2>4. Holds(m, s, e, rx_buf, q) /\ q[m + 1] = b /\ Len(q) = m + 1
    BY <1>1, <2>2, <2>3
  <2>5. Reads => Head(q) = rx_buf[s] /\ q # <<>>
    <3>1. Reads => Head(rx_expected) = rx_buf[rx_buf_start]
      BY <1>1, <1>2, <2>3, <2>4, EdgeReads
    <3> QED BY <2>2, <3>1
  \* The FIFO takes it.
  <2>6. CASE Inc(e) # s
    <3>1. Holds(m + 1, s, Inc(e), rx_buf', q) /\ rx_buf_end' = Inc(e)
      BY <1>1, <2>1, <2>4, <2>6, HoldsReceive
    <3>2. Inc(e) \in Cell /\ rx_expected' = StruckOff
      BY <1>1, <2>6, IncInCell DEF Clock, Scoreboard, Drops, rx_full
    <3>3. /\ ~Reads => StruckOff = q
          /\ ~Reads => Holds(m + 1, rx_buf_start', Inc(e), rx_buf', StruckOff)
          /\ Reads => Len(StruckOff) = Len(q) - 1
          /\ Reads => Holds(m + 1 - 1, rx_buf_start', Inc(e), rx_buf', StruckOff)
      <4> PICK buf : buf = rx_buf'
        OBVIOUS
      <4> PICK f : f = Inc(e)
        OBVIOUS
      <4>1. m + 1 \in Nat /\ m + 1 <= Len(q)
        BY <2>4
      <4>2. Reads => s # f
        BY <2>6
      <4> QED BY <1>1, <3>1, <3>2, <4>1, <4>2, EdgeReads
    <3>4. Holds(Len(StruckOff), rx_buf_start', Inc(e), rx_buf', StruckOff)
      BY <1>1, <2>4, <3>3
    <3>5. FifoIsExpected'
      BY <2>1, <3>1, <3>2, <3>4 DEF FifoIsExpected
    <3> QED BY <1>3, <2>5, <3>5
  \* The FIFO is full: the byte is written and dropped.
  <2>7. CASE Inc(e) = s
    <3>1. Holds(m, s, e, rx_buf', q) /\ rx_buf_end' = e
      BY <1>1, <2>1, <2>4, <2>7, HoldsOverwrite
    <3>2. /\ StruckOff \in Seq(Byte)
          /\ ~Reads => StruckOff = q
          /\ ~Reads => Holds(m, rx_buf_start', e, rx_buf', StruckOff)
          /\ Reads => m >= 1 /\ Len(StruckOff) = Len(q) - 1
          /\ Reads => Holds(m - 1, rx_buf_start', e, rx_buf', StruckOff)
      <4> PICK buf : buf = rx_buf'
        OBVIOUS
      <4>1. m <= Len(q)
        BY <2>4
      <4> QED BY <1>1, <1>2, <3>1, <4>1, EdgeReads
    <3>3. StruckOff # <<>> /\ Holds(Len(StruckOff) - 1, rx_buf_start', e, rx_buf', StruckOff)
      <4>1. CASE Reads
        <5>1. Len(StruckOff) = m /\ m >= 1
          BY <2>4, <3>2, <4>1
        <5> QED BY <3>2, <4>1, <5>1
      <4>2. CASE ~Reads
        BY <1>1, <2>2, <2>3, <3>2, <4>2
      <4> QED BY <4>1, <4>2
    <3>4. rx_expected' = SubSeq(StruckOff, 1, Len(StruckOff) - 1)
      BY <1>5, <2>7, <3>3 DEF Clock, Scoreboard, Drops, rx_full
    <3>5. Holds(Len(rx_expected'), rx_buf_start', e, rx_buf', rx_expected')
      <4> PICK buf : buf = rx_buf'
        OBVIOUS
      <4> PICK p : p = StruckOff
        OBVIOUS
      <4> PICK t : t = rx_buf_start'
        OBVIOUS
      <4>1. p \in Seq(Byte) /\ p # <<>> /\ Holds(Len(p) - 1, t, e, buf, p)
        BY <3>2, <3>3
      <4> QED BY <3>4, <4>1, HoldsCut
    <3>6. FifoIsExpected'
      BY <2>1, <3>1, <3>5 DEF FifoIsExpected
    <3> QED BY <1>3, <2>5, <3>6
  <2> QED BY <2>6, <2>7
<1> QED BY <1>4, <1>5

\* An index less than twice the length wraps once.
LEMMA Wraps ==
    ASSUME NEW L \in Nat, NEW a \in 0 .. L - 1, NEW b \in 0 .. L - 1
    PROVE  (a + b) % L = IF a + b >= L THEN a + b - L ELSE a + b
OBVIOUS

\* Until the receiver is set up the queue and the FIFO are empty.
LEMMA UnsettledFifo ==
    ASSUME LoopInv, Levels, Unsettled, ~settled, Clock
    PROVE  FifoIsExpected' /\ ~Reads
<1>1. inj'.state = "IDLE" /\ ~inj'.data_ready /\ rx_expected' = <<>> /\ rx_empty'
  BY EdgeUnsettled
<1>2. rx_buf_start' \in Cell
  BY StepLoopInv DEF LoopInv, TypeOK, Next
<1>3. Len(rx_expected') = 0
  BY <1>1
<1>4. Holds(0, rx_buf_start', rx_buf_end', rx_buf', rx_expected')
  BY <1>1, <1>2, SizeAssumption, AfterIsCell DEF Holds, rx_empty
<1>5. ~InFlight'
  BY <1>1 DEF InFlight
<1>6. ~Reads
  BY LoopReadsStored DEF Unsettled
<1> QED BY <1>3, <1>4, <1>5, <1>6 DEF FifoIsExpected

\* Reset.
LEMMA InitFrameInv == RxInit => FrameInv
<1> SUFFICES ASSUME RxInit PROVE FrameInv
  OBVIOUS
<1>1. Len(rx_expected) = 0
  BY DEF RxInit
<1>2. Holds(0, rx_buf_start, rx_buf_end, rx_buf, rx_expected)
  BY SizeAssumption DEF RxInit, Init, Holds, After
<1>3. ~InFlight
  BY DEF RxInit, InFlight
<1>4. FifoIsExpected
  BY <1>1, <1>2, <1>3 DEF FifoIsExpected
<1> QED BY <1>4 DEF RxInit, Init, FrameInv, Levels, FrameInStep, Unsettled, rx_empty

\* The inductive step.
LEMMA StepFrameInv == LoopInv /\ FrameInv /\ [Next]_linkVars => FrameInv'
<1> SUFFICES ASSUME LoopInv, FrameInv, [Next]_linkVars PROVE FrameInv'
  OBVIOUS
<1> USE DEF FrameInv
<1>1. CASE WriteBaud \/ PollStatus \/ ReadByte \/ UNCHANGED linkVars
  <2>1. UNCHANGED <<uartVars, rx_i, inj, settled, rx_expected>>
    BY <1>1, HostStep DEF linkVars, vars
  <2>2. Levels' /\ Unsettled'
    BY <2>1 DEF uartVars, busVars, rxVars, baudVars, Levels, Unsettled, rx_empty
  <2>3. FrameInStep'
    BY <2>1 DEF uartVars, busVars, rxVars, baudVars, FrameInStep, InStep, InjIs, PlaceOf, Taken
  <2>4. FifoIsExpected'
    BY <2>1 DEF uartVars, busVars, rxVars, FifoIsExpected, InFlight, Holds
  <2> QED BY <2>2, <2>3, <2>4
<1>2. CASE \E b \in Sent : Inject(b)
  <2>1. PICK b \in Sent : Inject(b)
    BY <1>2
  <2>2. /\ settled /\ inj.state = "IDLE" /\ ~inj.data_ready /\ b \in Byte
        /\ inj' = [inj EXCEPT !.data_ready = TRUE, !.data = b]
        /\ rx_expected' = Append(rx_expected, b)
        /\ UNCHANGED <<vars, settled, loop>>
    BY <2>1, LinkAssumption DEF Inject
  <2>3. inj'.state = "IDLE" /\ inj'.data_ready /\ inj'.data = b
    BY <2>2 DEF LoopInv, InjTyped
  <2>4. Levels' /\ Unsettled'
    BY <2>2, <2>3 DEF vars, uartVars, busVars, rxVars, baudVars, Levels, Unsettled
  <2>5. FrameInStep'
    <3>1. rx_state = "IDLE"
      BY <2>2 DEF FrameInStep
    <3> QED BY <2>2, <2>3, <3>1 DEF vars, uartVars, busVars, rxVars, baudVars, FrameInStep
  <2>6. FifoIsExpected'
    <3>1. ~InFlight
      BY <2>2 DEF InFlight
    <3>2. Holds(Len(rx_expected), rx_buf_start, rx_buf_end, rx_buf, rx_expected)
      BY <3>1 DEF FifoIsExpected
    <3>3. rx_expected \in Seq(Byte)
      BY DEF LoopInv, InjTyped
    <3>4. /\ rx_expected' # <<>> /\ rx_expected'[Len(rx_expected')] = b
          /\ Holds(Len(rx_expected') - 1, rx_buf_start, rx_buf_end, rx_buf, rx_expected')
      BY <2>2, <3>2, <3>3, HoldsSend
    <3>5. InFlight'
      BY <2>3 DEF InFlight
    <3> QED BY <2>2, <2>3, <3>4, <3>5 DEF vars, uartVars, busVars, rxVars, FifoIsExpected
  <2> QED BY <2>4, <2>5, <2>6
<1>3. CASE Clock
  <2>1. Levels' /\ Unsettled'
    BY <1>3, EdgeLevels, EdgeUnsettled DEF LoopInv
  <2>2. FrameInStep'
    <3>1. CASE settled
      BY <1>3, <3>1, EdgeFrameInStep
    <3>2. CASE ~settled
      <4>1. settled' => rx_state' = "IDLE" /\ baud_selector' = Baud /\ inj'.state = "IDLE"
        BY <1>3, <3>2, EdgeUnsettled
      <4> QED BY <4>1 DEF FrameInStep
    <3> QED BY <3>1, <3>2
  <2>3. FifoIsExpected'
    BY <1>3, EdgeFifoIsExpected, UnsettledFifo
  <2> QED BY <2>1, <2>2, <2>3
<1> QED BY <1>1, <1>2, <1>3 DEF Next

\* The invariant of reception: the levels on their way through the synchroniser,
\* the receiver in step with the injector, and the FIFO with the queue.
THEOREM FrameInvariant == Spec => []FrameInv
BY InitFrameInv, StepFrameInv, LoopInvariant, PTL DEF Spec

\* The FIFO holds exactly the bytes sent and not yet read, in order; at most the
\* one on the line is missing.  No frame is misread or invented, and an overflow
\* costs the byte that arrives, for every FIFO depth, frame length and divisor
\* that leaves room for the receiver's drift.
THEOREM FifoIsWhatWasSent == Spec => []FifoHoldsWhatWasSent
<1>1. LoopInv /\ FrameInv => FifoHoldsWhatWasSent
  <2> SUFFICES ASSUME LoopInv, FrameInv PROVE FifoHoldsWhatWasSent
    OBVIOUS
  <2> PICK s : s = rx_buf_start
    OBVIOUS
  <2> PICK e : e = rx_buf_end
    OBVIOUS
  <2> PICK q : q = rx_expected
    OBVIOUS
  <2>1. /\ s \in Cell /\ e \in Cell /\ rx_buf \in [Cell -> Byte] /\ q \in Seq(Byte)
        /\ Len(q) \in Nat
    BY DEF LoopInv, TypeOK, InjTyped
  <2>2. PICK n \in 0 .. 1 : n <= Len(q) /\ Holds(Len(q) - n, s, e, rx_buf, q)
    <3>1. CASE InFlight
      <4>1. 1 <= Len(q) /\ Holds(Len(q) - 1, s, e, rx_buf, q)
        BY <2>1, <3>1 DEF FrameInv, FifoIsExpected
      <4> QED BY <4>1
    <3>2. CASE ~InFlight
      <4>1. Len(q) - 0 = Len(q) /\ Holds(Len(q), s, e, rx_buf, q)
        BY <2>1, <3>2 DEF FrameInv, FifoIsExpected
      <4> QED BY <2>1, <4>1
    <3> QED BY <3>1, <3>2
  <2>3. PICK m \in Nat : m = Len(q) - n
    <3>1. PICK l \in Nat : l = Len(q)
      BY <2>1
    <3>2. l - n \in Nat
      BY <2>2, <3>1
    <3> QED BY <3>1, <3>2
  <2>4. /\ m < BufferLength /\ e = After(s, m) /\ m <= Len(q)
        /\ \A i \in 1 .. m : q[i] = rx_buf[After(s, i - 1)]
    BY <2>1, <2>2, <2>3 DEF Holds
  <2>5. m = IF s <= e THEN e - s ELSE e - s + BufferLength
    BY <2>1, <2>4, SizeAssumption DEF Cell, After
  <2>6. RxFifo = [i \in 1 .. m |-> rx_buf[(s + i - 1) % BufferLength]]
    BY <2>5 DEF RxFifo
  <2>7. \A i \in 1 .. m : (s + i - 1) % BufferLength = After(s, i - 1)
    <3> TAKE i \in 1 .. m
    <3>1. PICK j \in 0 .. BufferLength - 1 : j = i - 1 /\ s + i - 1 = s + j
      BY <2>1, <2>4, SizeAssumption DEF Cell
    <3>2. BufferLength \in Nat /\ s \in 0 .. BufferLength - 1
      BY <2>1, SizeAssumption DEF Cell
    <3>3. (s + j) % BufferLength = IF s + j >= BufferLength THEN s + j - BufferLength ELSE s + j
      BY <3>1, <3>2, Wraps
    <3> QED BY <3>1, <3>3 DEF After
  <2>8. RxFifo = [i \in 1 .. m |-> q[i]]
    BY <2>4, <2>6, <2>7
  <2>9. Len(RxFifo) = m /\ RxFifo = SubSeq(q, 1, m)
    <3>1. PICK p : p = RxFifo
      OBVIOUS
    <3>2. p = [i \in 1 .. m |-> q[i]]
      BY <2>8, <3>1
    <3>3. Len(p) = m /\ p = SubSeq(q, 1, m)
      BY <2>1, <2>4, <3>2
    <3> QED BY <3>1, <3>3
  <2>10. m + n = Len(q)
    BY <2>1, <2>3
  <2> QED BY <2>9, <2>10 DEF FifoHoldsWhatWasSent
<1> QED BY <1>1, LoopInvariant, FrameInvariant, PTL

\* The polling loop reads the bytes that were sent, in order, each once, those
\* an overflow dropped excepted.
THEOREM ReadInOrder == Spec => ReadAsSent
<1>1. LoopInv /\ FrameInv /\ [Next]_linkVars =>
         (Clock /\ Reads => rx_expected # <<>> /\ rdata'.val = Head(rx_expected))
  BY EdgeFifoIsExpected, UnsettledFifo DEF FrameInv
<1> QED BY <1>1, LoopInvariant, FrameInvariant, PTL DEF Spec, ReadAsSent
=============================================================================
