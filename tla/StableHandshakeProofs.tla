------------------------- MODULE StableHandshakeProofs -------------------------
(***************************************************************************)
(* Proofs about the announcement of finished moves, for every stability    *)
(* period, bus latency, gain and set of setpoints: an axis that settles is *)
(* in STATUS, on its way there, or in the firmware's flag.                 *)
(***************************************************************************)
EXTENDS StableHandshake, TLAPS

-----------------------------------------------------------------------------
(* Types.                                                                  *)

\* A setpoint command is in hand while it is executed.
ArgInHand == pc \in {"setpoint", "unstable"} => arg.kind = "set"

\* The handler has no bus access under way when it is entered and when it
\* acknowledges; it holds what it has read until it returns.
HandlerShape == isr \in {"load", "ack"} => wait = 0

-----------------------------------------------------------------------------
(* The cycles between a new setpoint and `stable_x = 0`.                   *)

\* A run of the handler: take, load, set, acknowledge, return.
HandlerRun == 2 * BusLatency + 5

\* Bits of STATUS that the handler under way has not read or will not read, and
\* events on their way to STATUS.
Covered(a) == \/ isr = "load"
              \/ isr \in {"flag", "ack"} /\ a \in seen
Waiting == \E a \in Axis : StableEvent(a) \/ (status[a] /\ ~Covered(a))

\* An axis that rests, and has said so, says nothing more.
Resting(a) == stable_o(a) /\ stable_l[a][2] /\ Response(a) = 0
MayFire == \E a \in Axis : a # arg.axis /\ ~Resting(a)

Runs == (IF Waiting THEN 1 ELSE 0) + (IF MayFire THEN 1 ELSE 0)

\* The cycles the handler under way takes, and the bus.
TimeFor(step, w) ==
    IF step = "load" THEN 2 * BusLatency + 4
    ELSE IF step = "flag" THEN w + BusLatency + 3
    ELSE IF step = "ack" THEN BusLatency + 2
    ELSE IF step = "return" THEN w + 1
    ELSE w
Underway == TimeFor(isr, wait)

\* The cycles until `stable_x = 0` is over, at most.
Remaining == Underway + 1 + Runs * HandlerRun

\* A controller counts a whole stability period before it says that it rests,
\* 100000 cycles (pid_controller.sv:6): longer than the handler may hold up the
\* main loop between its two stores.
PeriodIsLong == MinStable >= 6 * BusLatency + 17

\* With at least unit gain every error moves the motor.
UnitGain == KpNum >= KpDen

\* Response and counter agree but for the edges after a write.
JustWritten(a) ==
    \/ pc \in {"zero_x", "clear_y", "zero_y", "receive"}
    \/ pc = "unstable" /\ a = arg.axis
RestIsQuiet == \A a \in Axis : stable_o(a) => Response(a) = 0 \/ JustWritten(a)

\* The axis that was given a new setpoint does not settle again before its
\* flag is down.
NotYet ==
    pc = "unstable" =>
        \/ Response(arg.axis) # 0
        \/ stability_counter[arg.axis] + Remaining <= MinStable - 2

\* A setpoint that the register already holds is not written (main.c:158).
SetpointIsNew == pc = "setpoint" => sp[arg.axis] # arg.value

\* What the handler acknowledges is in the flags.
AckIsFlagged == isr = "ack" => \A a \in seen : stable[a]

TypeInv == TypeOK /\ ArgInHand /\ HandlerShape
HandInv ==
    TypeInv /\ SetpointIsNew /\ AckIsFlagged /\ RestIsQuiet /\ NotYet /\ SettledIsFlagged

-----------------------------------------------------------------------------
(* One edge of the hardware.                                               *)

\* The division of the controller: an error of at least one tick is not lost
\* when the gain is at least one.
LEMMA NoDeadBand ==
    ASSUME UnitGain, NEW e \in Int
    PROVE  (KpNum * e) \div KpDen = 0 <=> e = 0
<1>1. /\ KpNum \in Nat /\ KpDen \in Nat /\ KpDen >= 1 /\ KpNum >= KpDen
  BY ControllerAssumption DEF UnitGain
<1>2. CASE e = 0
  BY <1>1, <1>2
<1>3. CASE e > 0
  <2>1. KpNum * e >= KpDen
    BY <1>1, <1>3
  <2> QED BY <1>1, <1>3, <2>1
<1>4. CASE e < 0
  <2>1. KpNum * e < 0 /\ KpNum * e \in Int
    BY <1>1, <1>4
  <2> QED BY <1>1, <1>4, <2>1
<1> QED BY <1>2, <1>3, <1>4

\* Every register of the hardware keeps its type, whatever is written.
LEMMA HardwareTyped ==
    ASSUME TypeOK, NEW setpoints \in [Axis -> Position], NEW ack, NEW clear,
           Hardware(setpoints, ack, clear)
    PROVE  /\ sp' \in [Axis -> Position] /\ pv' \in [Axis -> Int]
           /\ stability_counter' \in [Axis -> 0 .. MinStable - 1]
           /\ stable_l' \in [Axis -> BOOLEAN \X BOOLEAN]
           /\ status' \in [Axis -> BOOLEAN] /\ pend' \in BOOLEAN
<1>1. sp' \in [Axis -> Position]
  BY DEF Hardware
<1>2. pv' \in [Axis -> Int]
  <2>1. PICK moved \in SUBSET Axis :
           pv' = [a \in Axis |-> IF a \in clear THEN 0
                                 ELSE IF a \in moved THEN pv[a] + Direction(a) ELSE pv[a]]
    BY DEF Hardware, Move
  <2>2. \A a \in Axis : Direction(a) \in Int /\ pv[a] \in Int
    BY DEF Direction, TypeOK
  <2> QED BY <2>1, <2>2
<1>3. stability_counter' \in [Axis -> 0 .. MinStable - 1]
  <2>1. \A a \in Axis : CountStable(a) \in 0 .. MinStable - 1
    <3> TAKE a \in Axis
    <3>1. /\ MinStable \in Nat /\ MinStable >= 2
          /\ stability_counter[a] \in Nat /\ stability_counter[a] <= MinStable - 1
      BY ControllerAssumption DEF TypeOK
    <3>2. \/ CountStable(a) \in {0, stability_counter[a]}
          \/ /\ stability_counter[a] # MinStable - 1
             /\ CountStable(a) = stability_counter[a] + 1
      BY DEF CountStable, stable_o
    <3> QED BY <3>1, <3>2
  <2> QED BY <2>1 DEF Hardware
<1>4. stable_l' \in [Axis -> BOOLEAN \X BOOLEAN]
  BY DEF Hardware, LatchStable, stable_o, TypeOK
<1>5. status' \in [Axis -> BOOLEAN] /\ pend' \in BOOLEAN
  BY DEF Hardware, UpdateStatus, irq_o
<1> QED BY <1>1, <1>2, <1>3, <1>4, <1>5

\* What an edge does to an axis.
LEMMA HardwareStep ==
    ASSUME TypeOK, NEW setpoints \in [Axis -> Position], NEW ack, NEW clear,
           Hardware(setpoints, ack, clear), NEW a \in Axis
    PROVE  /\ stability_counter'[a] = CountStable(a)
           /\ stable_l'[a][1] = stable_l[a][2]
           /\ stable_l'[a][2] <=> stable_o(a)
           /\ status'[a] <=> (status[a] \/ StableEvent(a)) /\ a \notin ack
           /\ Response(a) = 0 /\ a \notin clear /\ setpoints[a] = sp[a] => Response(a)' = 0
           /\ Response(a) = 0 /\ a \notin clear => pv'[a] = pv[a]
<1>1. /\ stability_counter'[a] = CountStable(a)
      /\ stable_l'[a][1] = stable_l[a][2]
      /\ stable_l'[a][2] <=> stable_o(a)
      /\ status'[a] <=> (status[a] \/ StableEvent(a)) /\ a \notin ack
  BY DEF Hardware, UpdateStatus, LatchStable
<1>2. Response(a) = 0 /\ a \notin clear => pv'[a] = pv[a]
  BY DEF Hardware, Move, Direction, TypeOK
<1>3. Response(a) = 0 /\ a \notin clear /\ setpoints[a] = sp[a] => Response(a)' = 0
  BY <1>2 DEF Hardware, Response
<1> QED BY <1>1, <1>2, <1>3

\* Both flops of an edge detector are up.
LEMMA BothUp ==
    ASSUME NEW p \in BOOLEAN \X BOOLEAN, p[1], p[2]
    PROVE  p = <<TRUE, TRUE>>
<1>1. PICK x \in BOOLEAN, y \in BOOLEAN : p = <<x, y>>
  OBVIOUS
<1>2. x = TRUE /\ y = TRUE
  BY <1>1
<1> QED BY <1>1, <1>2

\* An axis that settles is in STATUS when its event has passed the edge
\* detector, unless the handler acknowledges it at that edge, with its flag up.
LEMMA HardwareFlags ==
    ASSUME TypeOK, NEW setpoints \in [Axis -> Position], NEW ack, NEW clear,
           Hardware(setpoints, ack, clear), NEW a \in Axis, NEW flag \in BOOLEAN,
           stable_o(a) /\ ~flag => stable_l[a] # <<TRUE, TRUE>> \/ status[a],
           a \in ack => flag
    PROVE  stable_o(a)' /\ ~flag => stable_l'[a] # <<TRUE, TRUE>> \/ status'[a]
<1> SUFFICES ASSUME ~flag, stable_l'[a] = <<TRUE, TRUE>> PROVE status'[a]
  OBVIOUS
<1>1. stable_l[a][2] /\ stable_o(a) /\ a \notin ack
  <2>1. stable_l'[a][1] /\ stable_l'[a][2]
    OBVIOUS
  <2>2. stable_l[a][2] /\ stable_o(a)
    BY <2>1, HardwareStep, Zenon
  <2> QED BY <2>2
<1>2. CASE stable_l[a][1]
  <2>1. stable_l[a] = <<TRUE, TRUE>>
    <3>1. stable_l[a] \in BOOLEAN \X BOOLEAN
      BY DEF TypeOK
    <3> QED BY <1>1, <1>2, <3>1, BothUp
  <2>2. status[a]
    BY <1>1, <2>1
  <2> QED BY <1>1, <2>2, HardwareStep, Zenon
<1>3. CASE ~stable_l[a][1]
  BY <1>1, <1>3, HardwareStep DEF StableEvent
<1> QED BY <1>2, <1>3

-----------------------------------------------------------------------------
(* Type correctness.                                                       *)

\* Reset.
LEMMA InitTyped == Init => TypeInv
<1> SUFFICES ASSUME Init PROVE TypeInv
  OBVIOUS
<1>1. /\ 0 \in 0 .. MinStable - 1 /\ 0 \in 0 .. BusLatency /\ MaxCommands \in 0 .. MaxCommands
      /\ 0 \in Position
  BY ControllerAssumption
<1>2. /\ sp \in [Axis -> Position] /\ pv \in [Axis -> Int]
      /\ stability_counter \in [Axis -> 0 .. MinStable - 1]
      /\ stable_l \in [Axis -> BOOLEAN \X BOOLEAN]
      /\ status \in [Axis -> BOOLEAN] /\ stable \in [Axis -> BOOLEAN]
  <2>1. <<FALSE, FALSE>> \in BOOLEAN \X BOOLEAN
    OBVIOUS
  <2> QED BY <1>1, <2>1 DEF Init
<1> QED BY <1>1, <1>2 DEF Init, TypeInv, TypeOK, ArgInHand, HandlerShape

\* Steps of the firmware and edges of the hardware keep the types.
LEMMA StepTyped == TypeInv /\ [Next]_vars => TypeInv'
<1> SUFFICES ASSUME TypeInv, [Next]_vars PROVE TypeInv'
  OBVIOUS
<1> USE DEF TypeInv
<1>1. sp \in [Axis -> Position] /\ 0 \in Position /\ BusLatency \in Nat /\ MaxCommands \in Nat
  BY ControllerAssumption DEF TypeOK
<1>2. NoWrite => /\ sp' \in [Axis -> Position] /\ pv' \in [Axis -> Int]
                 /\ stability_counter' \in [Axis -> 0 .. MinStable - 1]
                 /\ stable_l' \in [Axis -> BOOLEAN \X BOOLEAN]
                 /\ status' \in [Axis -> BOOLEAN] /\ pend' \in BOOLEAN
  BY <1>1, HardwareTyped DEF NoWrite
<1>3. CASE Receive
  BY <1>1, <1>2, <1>3 DEF Receive, TypeOK, ArgInHand, HandlerShape, Main
<1>4. CASE CheckX \/ CheckY \/ Send \/ Stall
  BY <1>1, <1>2, <1>4 DEF CheckX, CheckY, Send, Stall, TypeOK, ArgInHand, HandlerShape, Main
<1>5. CASE Execute
  <2>1. pc' \in {"receive", "clear_x", "setpoint"} /\ (pc' = "setpoint" => arg.kind = "set")
    <3>1. arg.kind \in {"none", "reset", "set"}
      BY DEF TypeOK, Command, NoCommand
    <3>2. arg.kind = "none" => pc' = "receive"
      BY <1>5, Zenon DEF Execute
    <3>3. arg.kind = "reset" => pc' = "clear_x"
      BY <1>5, Zenon DEF Execute
    <3>4. arg.kind = "set" => pc' = IF sp[arg.axis] = arg.value THEN "receive" ELSE "setpoint"
      BY <1>5, Zenon DEF Execute
    <3> QED BY <3>1, <3>2, <3>3, <3>4
  <2>2. wait' \in 0 .. BusLatency /\ isr = "none" /\ UNCHANGED <<arg, stable, message_sent, isr, seen, left, owed>>
        /\ NoWrite
    BY <1>1, <1>5 DEF Execute, Main
  <2> QED BY <1>1, <1>2, <2>1, <2>2 DEF TypeOK, ArgInHand, HandlerShape
<1>6. CASE WriteSetpoint
  <2>1. arg.axis \in Axis /\ arg.value \in Position
    BY <1>6 DEF WriteSetpoint, Main, ArgInHand, TypeOK, Command, NoCommand
  <2>2. [sp EXCEPT ![arg.axis] = arg.value] \in [Axis -> Position]
    BY <1>1, <2>1
  <2>3. /\ sp' \in [Axis -> Position] /\ pv' \in [Axis -> Int]
        /\ stability_counter' \in [Axis -> 0 .. MinStable - 1]
        /\ stable_l' \in [Axis -> BOOLEAN \X BOOLEAN]
        /\ status' \in [Axis -> BOOLEAN] /\ pend' \in BOOLEAN
    BY <1>6, <2>2, HardwareTyped DEF WriteSetpoint
  <2> QED BY <1>1, <1>6, <2>3 DEF WriteSetpoint, TypeOK, ArgInHand, HandlerShape, Main
<1>7. CASE ClearFlag
  BY <1>1, <1>2, <1>7 DEF ClearFlag, TypeOK, ArgInHand, HandlerShape, Main
<1>8. ASSUME NEW a \in Axis, ClearPosition(a) \/ ZeroSetpoint(a) PROVE TypeInv'
  <2>1. [sp EXCEPT ![a] = 0] \in [Axis -> Position]
    BY <1>1
  <2>2. /\ sp' \in [Axis -> Position] /\ pv' \in [Axis -> Int]
        /\ stability_counter' \in [Axis -> 0 .. MinStable - 1]
        /\ stable_l' \in [Axis -> BOOLEAN \X BOOLEAN]
        /\ status' \in [Axis -> BOOLEAN] /\ pend' \in BOOLEAN
    BY <1>1, <1>8, <2>1, HardwareTyped DEF ClearPosition, ZeroSetpoint
  <2> QED BY <1>1, <1>8, <2>2 DEF ClearPosition, ZeroSetpoint, TypeOK, ArgInHand, HandlerShape, Main
<1>9. CASE TakeInterrupt \/ LoadStatus \/ SetFlags \/ Return
  <2>1. /\ NoWrite /\ UNCHANGED <<pc, arg, message_sent, left, owed>>
        /\ isr' \in {"none", "load", "flag", "ack", "return"}
    BY <1>9 DEF TakeInterrupt, LoadStatus, SetFlags, Return, Handler
  <2>2. wait' \in {0, BusLatency} /\ (isr' \in {"load", "ack"} => wait' = 0)
    BY <1>9 DEF TakeInterrupt, LoadStatus, SetFlags, Return, Handler
  <2>3. seen' \subseteq Axis /\ stable' \in [Axis -> BOOLEAN]
    BY <1>9 DEF TakeInterrupt, LoadStatus, SetFlags, Return, Handler, TypeOK
  <2> QED BY <1>1, <1>2, <2>1, <2>2, <2>3 DEF TypeOK, ArgInHand, HandlerShape
<1>10. CASE Acknowledge
  <2>1. /\ sp' \in [Axis -> Position] /\ pv' \in [Axis -> Int]
        /\ stability_counter' \in [Axis -> 0 .. MinStable - 1]
        /\ stable_l' \in [Axis -> BOOLEAN \X BOOLEAN]
        /\ status' \in [Axis -> BOOLEAN] /\ pend' \in BOOLEAN
    BY <1>1, <1>10, HardwareTyped DEF Acknowledge
  <2> QED BY <1>1, <1>10, <2>1 DEF Acknowledge, Handler, TypeOK, ArgInHand, HandlerShape
<1>11. CASE UNCHANGED vars
  BY <1>11 DEF vars, hwVars, TypeOK, ArgInHand, HandlerShape
<1>12. CASE BusWait
  <2>1. wait \in 0 .. BusLatency /\ wait' = wait - 1 /\ wait > 0 /\ isr \notin {"load", "ack"}
    BY <1>12 DEF BusWait, TypeOK, HandlerShape
  <2>2. wait' \in 0 .. BusLatency
    BY <1>1, <2>1
  <2> QED BY <1>2, <1>12, <2>1, <2>2 DEF BusWait, TypeOK, ArgInHand, HandlerShape
<1> QED BY <1>3, <1>4, <1>5, <1>6, <1>7, <1>8, <1>9, <1>10, <1>11, <1>12 DEF Next, Progress

\* Registers and firmware variables keep their widths, the stability counters
\* stop at their limit, for every period, latency, gain and set of setpoints.
THEOREM TypeCorrect == Spec => []TypeOK
<1>1. Spec => []TypeInv
  BY InitTyped, StepTyped, PTL DEF Spec
<1>2. TypeInv => TypeOK
  BY DEF TypeInv
<1> QED BY <1>1, <1>2, PTL

-----------------------------------------------------------------------------
(* The main loop is held up for a bounded time.                            *)

\* What may happen between the two stores.
Hold == BusWait \/ TakeInterrupt \/ LoadStatus \/ SetFlags \/ Acknowledge \/ Return

\* These steps write no setpoint; only the handler's acknowledgement writes.
LEMMA HoldStep ==
    ASSUME TypeInv, Hold
    PROVE  /\ pc' = pc /\ arg' = arg
           /\ \E ack \in SUBSET Axis :
                /\ Hardware(sp, ack, {})
                /\ ack # {} => isr = "ack" /\ ack = seen /\ isr' = "return"
BY DEF Hold, BusWait, TakeInterrupt, LoadStatus, SetFlags, Acknowledge, Return, Handler, NoWrite,
       TypeInv, TypeOK

\* How long the main loop may be held up at most.
LEMMA TimeFits ==
    ASSUME PeriodIsLong, NEW step \in {"none", "load", "flag", "ack", "return"},
           NEW w \in 0 .. BusLatency, NEW n \in 0 .. 2
    PROVE  TimeFor(step, w) + 1 + n * HandlerRun \in 1 .. MinStable - 2
<1>1. BusLatency \in Nat /\ MinStable \in Nat /\ MinStable >= 6 * BusLatency + 17
  BY ControllerAssumption DEF PeriodIsLong
<1>2. TimeFor(step, w) \in Nat /\ TimeFor(step, w) <= 2 * BusLatency + 4
  BY <1>1 DEF TimeFor
<1>3. PICK t \in Nat : t = TimeFor(step, w)
  BY <1>2
<1>4. CASE n = 0
  BY <1>1, <1>2, <1>3, <1>4 DEF HandlerRun
<1>5. CASE n = 1
  BY <1>1, <1>2, <1>3, <1>5 DEF HandlerRun
<1>6. CASE n = 2
  BY <1>1, <1>2, <1>3, <1>6 DEF HandlerRun
<1> QED BY <1>4, <1>5, <1>6

\* The time that is left is less than a stability period, with two cycles to spare.
LEMMA RemainingFits ==
    ASSUME TypeInv, PeriodIsLong
    PROVE  Remaining \in 1 .. MinStable - 2
<1>1. isr \in {"none", "load", "flag", "ack", "return"} /\ wait \in 0 .. BusLatency
  BY DEF TypeInv, TypeOK
<1>2. Runs \in 0 .. 2
  BY DEF Runs
<1> QED BY <1>1, <1>2, TimeFits DEF Remaining, Underway

\* The same a step later.
LEMMA RemainingFitsNext ==
    ASSUME TypeInv', PeriodIsLong
    PROVE  Remaining' \in 1 .. MinStable - 2
<1>1. isr' \in {"none", "load", "flag", "ack", "return"} /\ wait' \in 0 .. BusLatency
  BY DEF TypeInv, TypeOK
<1>2. Runs' \in 0 .. 2
  BY DEF Runs
<1>3. Remaining' = TimeFor(isr', wait') + 1 + Runs' * HandlerRun
  BY DEF Remaining, Underway, TimeFor, HandlerRun
<1> QED BY <1>1, <1>2, <1>3, TimeFits

\* While the axis in hand has not settled, the handler is called at most once for
\* what waits and once for the other axis.
LEMMA RunsFall ==
    ASSUME TypeInv, RestIsQuiet, pc = "unstable", ~stable_o(arg.axis), Hold
    PROVE  /\ Runs \in 0 .. 2 /\ Runs' \in 0 .. 2 /\ Runs' <= Runs
           /\ TakeInterrupt => Runs' <= Runs - 1
<1>1. PICK ack \in SUBSET Axis :
         /\ Hardware(sp, ack, {})
         /\ ack # {} => isr = "ack" /\ ack = seen /\ isr' = "return"
  BY HoldStep
<1>2. pc' = pc /\ arg' = arg /\ arg.axis \in Axis
  BY HoldStep DEF TypeInv, ArgInHand, TypeOK, Command, NoCommand
<1>3. sp \in [Axis -> Position] /\ TypeOK
  BY DEF TypeInv, TypeOK
\* An axis at rest says nothing more.
<1>4. \A a \in Axis : Resting(a) => Resting(a)'
  <2> SUFFICES ASSUME NEW a \in Axis, Resting(a) PROVE Resting(a)'
    OBVIOUS
  <2>1. stability_counter'[a] = stability_counter[a] /\ stable_l'[a][2] /\ Response(a)' = 0
    BY <1>1, <1>3, HardwareStep DEF Resting, CountStable
  <2> QED BY <2>1 DEF Resting, stable_o
\* An event is of the other axis, which rests from then on.
<1>5. \A a \in Axis : StableEvent(a)' => a # arg.axis /\ ~Resting(a) /\ Resting(a)'
  <2> SUFFICES ASSUME NEW a \in Axis, StableEvent(a)'
               PROVE  a # arg.axis /\ ~Resting(a) /\ Resting(a)'
    OBVIOUS
  <2>1. stable_l'[a][2] /\ ~stable_l'[a][1]
    BY DEF StableEvent
  <2>2. ~stable_l[a][2] /\ stable_o(a)
    BY <1>1, <1>3, <2>1, HardwareStep, Zenon
  <2>3. a # arg.axis
    BY <2>2
  <2>4. Response(a) = 0
    BY <2>2, <2>3 DEF RestIsQuiet, JustWritten
  <2>5. stability_counter'[a] = stability_counter[a] /\ Response(a)' = 0
    BY <1>1, <1>3, <2>2, <2>4, HardwareStep DEF CountStable
  <2> QED BY <2>1, <2>2, <2>3, <2>5 DEF Resting, stable_o
<1>6. MayFire' => MayFire
  BY <1>2, <1>4 DEF MayFire
<1>7. (\E a \in Axis : StableEvent(a)') => MayFire /\ ~MayFire'
  BY <1>2, <1>5 DEF MayFire, Axis
<1>8. \A a \in Axis : status'[a] => (status[a] \/ StableEvent(a)) /\ a \notin ack
  BY <1>1, <1>3, HardwareStep
<1>9. \A a \in Axis : status'[a] /\ ~Covered(a)' => Waiting
  <2> SUFFICES ASSUME NEW a \in Axis, status'[a], ~Covered(a)', ~StableEvent(a)
               PROVE  ~Covered(a)
    BY <1>8 DEF Waiting
  <2>1. status[a] /\ a \notin ack
    BY <1>8
  <2>2. CASE BusWait
    BY <2>2 DEF BusWait, Covered
  <2>3. CASE TakeInterrupt
    BY <2>3 DEF TakeInterrupt, Handler, Covered
  <2>4. CASE LoadStatus
    BY <2>1, <2>4 DEF LoadStatus, Handler, Covered
  <2>5. CASE SetFlags
    BY <2>1, <2>5 DEF SetFlags, Handler, Covered
  <2>6. CASE Acknowledge
    <3>1. Hardware(sp, seen, {}) /\ isr = "ack"
      BY <2>6 DEF Acknowledge, Handler
    <3>2. a \notin seen
      BY <1>3, <3>1, HardwareStep
    <3> QED BY <3>1, <3>2 DEF Covered
  <2>7. CASE Return
    BY <2>7 DEF Return, Handler, Covered
  <2> QED BY <2>2, <2>3, <2>4, <2>5, <2>6, <2>7 DEF Hold
<1>10. Waiting' => Waiting \/ (MayFire /\ ~MayFire')
  BY <1>7, <1>9 DEF Waiting
<1>11. TakeInterrupt => Waiting /\ (Waiting' => MayFire /\ ~MayFire')
  <2> SUFFICES ASSUME TakeInterrupt
               PROVE  Waiting /\ (Waiting' => MayFire /\ ~MayFire')
    OBVIOUS
  <2>1. Waiting
    BY DEF TakeInterrupt, Handler, irq_o, Waiting, Covered
  <2>2. \A a \in Axis : Covered(a)'
    BY DEF TakeInterrupt, Handler, Covered
  <2> QED BY <1>7, <2>1, <2>2 DEF Waiting
<1> QED BY <1>6, <1>10, <1>11 DEF Runs

\* Fewer runs of the handler take less time.
LEMMA RunsTake ==
    ASSUME NEW h \in Nat, NEW r \in 0 .. 2, NEW n \in 0 .. 2
    PROVE  /\ r * h \in Nat /\ n * h \in Nat
           /\ n <= r => n * h <= r * h
           /\ n <= r - 1 => n * h + h <= r * h
<1>1. CASE r = 0
  BY <1>1
<1>2. CASE r = 1
  BY <1>2
<1>3. CASE r = 2
  BY <1>3
<1> QED BY <1>1, <1>2, <1>3

\* The time for what is left of the handler.
LEMMA TimeIs ==
    ASSUME NEW step, NEW w \in Nat
    PROVE  /\ TimeFor(step, w) \in Nat
           /\ step = "load" => TimeFor(step, w) = 2 * BusLatency + 4
           /\ step = "flag" => TimeFor(step, w) = w + BusLatency + 3
           /\ step = "ack" => TimeFor(step, w) = BusLatency + 2
           /\ step = "return" => TimeFor(step, w) = w + 1
           /\ step = "none" => TimeFor(step, w) = w
BY ControllerAssumption DEF TimeFor

\* Every step of the way brings `stable_x = 0` a cycle nearer.
LEMMA RemainingFalls ==
    ASSUME TypeInv, RestIsQuiet, pc = "unstable", ~stable_o(arg.axis), Hold
    PROVE  Remaining' <= Remaining - 1
<1> PICK L \in Nat : L = BusLatency
  BY ControllerAssumption
<1> PICK h \in Nat : h = HandlerRun /\ h = 2 * L + 5
  BY DEF HandlerRun
<1> PICK w \in Nat : w = wait
  BY ControllerAssumption DEF TypeInv, TypeOK
<1> PICK x \in Nat : x = wait'
  BY StepTyped, ControllerAssumption DEF TypeInv, TypeOK, Hold, Next, Progress
<1> PICK r \in 0 .. 2 : r = Runs
  BY RunsFall
<1> PICK n \in 0 .. 2 : n = Runs'
  BY RunsFall
<1>1. n <= r /\ (TakeInterrupt => n <= r - 1)
  BY RunsFall
<1>2. PICK u \in Nat : u = Underway /\ u = TimeFor(isr, w)
  BY TimeIs DEF Underway
<1>3. PICK v \in Nat : v = Underway' /\ v = TimeFor(isr', x)
  BY TimeIs DEF Underway
<1>4. IF TakeInterrupt THEN u = 0 /\ v = 2 * L + 4 ELSE v <= u - 1
  <2>1. CASE BusWait
    <3>1. w > 0 /\ x = w - 1 /\ isr' = isr
      BY <2>1 DEF BusWait
    <3>2. isr \in {"none", "flag", "return"}
      BY <3>1 DEF TypeInv, TypeOK, HandlerShape
    <3>3. ~TakeInterrupt
      BY <3>1 DEF TakeInterrupt, Handler
    <3> QED BY <1>2, <1>3, TimeIs, <3>1, <3>2, <3>3
  <2>2. CASE TakeInterrupt
    <3>1. isr = "none" /\ w = 0 /\ isr' = "load"
      BY <2>2 DEF TakeInterrupt, Handler
    <3> QED BY <1>2, <1>3, TimeIs, <2>2, <3>1
  <2>3. CASE LoadStatus
    <3>1. isr = "load" /\ isr' = "flag" /\ x = L /\ ~TakeInterrupt
      BY <2>3 DEF LoadStatus, TakeInterrupt, Handler
    <3> QED BY <1>2, <1>3, TimeIs, <3>1
  <2>4. CASE SetFlags
    <3>1. isr = "flag" /\ w = 0 /\ x = 0 /\ isr' \in {"return", "ack"} /\ ~TakeInterrupt
      BY <2>4 DEF SetFlags, TakeInterrupt, Handler
    <3> QED BY <1>2, <1>3, TimeIs, <3>1
  <2>5. CASE Acknowledge
    <3>1. isr = "ack" /\ isr' = "return" /\ x = L /\ ~TakeInterrupt
      BY <2>5 DEF Acknowledge, TakeInterrupt, Handler
    <3> QED BY <1>2, <1>3, TimeIs, <3>1
  <2>6. CASE Return
    <3>1. isr = "return" /\ isr' = "none" /\ w = 0 /\ x = 0 /\ ~TakeInterrupt
      BY <2>6 DEF Return, TakeInterrupt, Handler
    <3> QED BY <1>2, <1>3, TimeIs, <3>1
  <2> QED BY <2>1, <2>2, <2>3, <2>4, <2>5, <2>6 DEF Hold
<1>5. PICK a \in Nat, b \in Nat : a = r * h /\ b = n * h
  BY RunsTake
<1>6. a \in Nat /\ b \in Nat /\ b <= a /\ (TakeInterrupt => b + h <= a)
  BY <1>1, <1>5, RunsTake
<1>7. Remaining = u + 1 + a /\ Remaining' = v + 1 + b
  BY <1>2, <1>3, <1>5 DEF Remaining, HandlerRun
<1>8. v + 1 + b <= u + a
  <2>1. CASE TakeInterrupt
    <3>1. u = 0 /\ v = 2 * L + 4
      BY <1>4, <2>1, Zenon
    <3> QED BY <1>6, <2>1, <3>1
  <2>2. CASE ~TakeInterrupt
    <3>1. u \in Nat /\ v \in Nat /\ v <= u - 1
      BY <1>2, <1>3, <1>4, <2>2, Zenon
    <3> QED BY <1>6, <3>1
  <2> QED BY <2>1, <2>2
<1> QED BY <1>2, <1>3, <1>6, <1>7, <1>8

-----------------------------------------------------------------------------
(* The invariant.                                                          *)

\* At reset no axis rests and the handler has nothing to do.
LEMMA InitHand == Init => HandInv
<1> SUFFICES ASSUME Init PROVE HandInv
  OBVIOUS
<1>1. TypeInv
  BY InitTyped
<1>2. \A a \in Axis : ~stable_o(a)
  BY ControllerAssumption DEF Init, stable_o
<1> QED
  BY <1>1, <1>2 DEF Init, HandInv, SetpointIsNew, AckIsFlagged, RestIsQuiet, NotYet,
                    SettledIsFlagged

\* Where no register is written an axis that rests is quiet.
LEMMA QuietEdge ==
    ASSUME TypeOK, NEW setpoints \in [Axis -> Position], NEW ack,
           Hardware(setpoints, ack, {}), NEW a \in Axis, setpoints[a] = sp[a], stable_o(a)'
    PROVE  Response(a)' = 0
<1>1. Response(a) = 0
  BY HardwareStep, ControllerAssumption DEF CountStable, stable_o
<1> QED BY <1>1, HardwareStep

\* A new setpoint starts the count again, at this edge or at the next.
LEMMA SetpointResets ==
    ASSUME HandInv, PeriodIsLong, UnitGain, WriteSetpoint
    PROVE  NotYet'
<1>1. /\ TypeInv /\ TypeInv' /\ TypeOK /\ arg.axis \in Axis /\ arg.value \in Position
      /\ sp[arg.axis] # arg.value
  BY StepTyped DEF HandInv, TypeInv, TypeOK, ArgInHand, SetpointIsNew, WriteSetpoint, Main, Command,
                   NoCommand, Next, Progress
<1> PICK a \in Axis : a = arg.axis
  BY <1>1
<1>2. /\ Hardware([sp EXCEPT ![a] = arg.value], {}, {})
      /\ [sp EXCEPT ![a] = arg.value] \in [Axis -> Position]
      /\ arg' = arg
  BY <1>1 DEF WriteSetpoint, TypeOK
<1>3. sp'[a] = arg.value
  BY <1>1, <1>2 DEF Hardware, TypeOK
<1>4. CASE Response(a) = 0
  <2>1. sp[a] \in Int /\ pv[a] \in Int /\ sp'[a] \in Int
    BY <1>1, <1>3, ControllerAssumption DEF TypeOK
  <2>2. sp[a] - pv[a] = 0
    BY <1>4, <2>1, NoDeadBand DEF Response
  <2>3. pv'[a] = pv[a]
    <3>1. Direction(a) = 0
      BY <1>4 DEF Direction
    <3>2. Move({}) /\ pv \in [Axis -> Int]
      BY <1>1, <1>2 DEF Hardware, TypeOK
    <3> QED BY <2>1, <3>1, <3>2 DEF Move
  <2>4. sp'[a] - pv'[a] \in Int /\ sp'[a] - pv'[a] # 0
    BY <1>1, <1>3, <2>1, <2>2, <2>3
  <2>5. Response(a)' # 0
    BY <2>4, NoDeadBand DEF Response
  <2> QED BY <1>2, <2>5 DEF NotYet
<1>5. CASE Response(a) # 0
  <2>1. stability_counter'[a] = 0
    BY <1>1, <1>2, <1>5, HardwareStep DEF CountStable
  <2>2. PICK r \in 1 .. MinStable - 2 : r = Remaining'
    BY <1>1, RemainingFitsNext
  <2> QED BY <1>2, <2>1, <2>2 DEF NotYet
<1> QED BY <1>4, <1>5

\* While `stable_x = 0` is still to come the axis does not settle.
LEMMA HoldNotYet ==
    ASSUME HandInv, PeriodIsLong, Hold
    PROVE  NotYet'
<1> SUFFICES ASSUME pc = "unstable" PROVE NotYet'
  BY HoldStep DEF HandInv, NotYet
<1>1. /\ TypeInv /\ TypeInv' /\ TypeOK /\ arg.axis \in Axis /\ RestIsQuiet
  BY StepTyped DEF HandInv, TypeInv, TypeOK, ArgInHand, Command, NoCommand, Hold, Next, Progress
<1> PICK a \in Axis : a = arg.axis
  BY <1>1
<1>2. pc' = pc /\ arg' = arg
  BY <1>1, HoldStep
<1>3. stability_counter'[a] = CountStable(a)
  <2>1. PICK ack \in SUBSET Axis : Hardware(sp, ack, {})
    BY <1>1, HoldStep
  <2> QED BY <1>1, <2>1, HardwareStep DEF TypeOK
<1>4. PICK s \in Nat : s = Remaining' /\ s <= MinStable - 2
  BY <1>1, RemainingFitsNext, ControllerAssumption
<1>5. PICK r \in Nat : r = Remaining /\ 1 <= r
  BY <1>1, RemainingFits, ControllerAssumption
<1>6. CASE Response(a) # 0
  <2>1. stability_counter'[a] = 0
    BY <1>3, <1>6 DEF CountStable
  <2> QED BY <1>2, <1>4, <2>1 DEF NotYet
<1>7. CASE Response(a) = 0
  <2>1. PICK c \in Nat : c = stability_counter[a] /\ c + r <= MinStable - 2
    BY <1>1, <1>5, <1>7, ControllerAssumption DEF HandInv, NotYet, TypeOK
  <2>2. MinStable \in Nat
    BY ControllerAssumption
  <2>3. ~stable_o(a)
    BY <1>5, <2>1, <2>2 DEF stable_o
  <2>4. s <= r - 1
    BY <1>1, <1>4, <1>5, <2>3, RemainingFalls
  <2>5. stability_counter'[a] = c + 1
    BY <1>3, <1>7, <2>1, <2>3 DEF CountStable
  <2>6. stability_counter'[a] + s <= MinStable - 2
    BY <1>4, <1>5, <2>1, <2>2, <2>4, <2>5
  <2> QED BY <1>2, <1>4, <2>6 DEF NotYet
<1> QED BY <1>6, <1>7

\* The main loop and the handler keep the invariant.
LEMMA StepHand ==
    ASSUME PeriodIsLong, UnitGain
    PROVE  HandInv /\ [Next]_vars => HandInv'
<1> SUFFICES ASSUME HandInv, [Next]_vars PROVE HandInv'
  OBVIOUS
<1>1. TypeInv /\ TypeInv' /\ TypeOK /\ sp \in [Axis -> Position] /\ 0 \in Position
  BY StepTyped, ControllerAssumption DEF HandInv, TypeInv, TypeOK
\* Steps that write no register of an axis.
<1>2. ASSUME NEW ack \in SUBSET Axis, Hardware(sp, ack, {}), \A a \in ack : stable[a]
      PROVE  /\ sp' = sp
             /\ \A a \in Axis : stable_o(a)' => Response(a)' = 0
             /\ \A a \in Axis : stable_o(a)' /\ ~stable[a] =>
                                   stable_l'[a] # <<TRUE, TRUE>> \/ status'[a]
  <2>1. \A a \in Axis : stable_o(a)' => Response(a)' = 0
    BY <1>1, <1>2, QuietEdge
  <2>2. ASSUME NEW a \in Axis
        PROVE  stable_o(a)' /\ ~stable[a] => stable_l'[a] # <<TRUE, TRUE>> \/ status'[a]
    <3>1. stable[a] \in BOOLEAN
      BY <1>1 DEF TypeOK
    <3>2. stable_o(a) /\ ~stable[a] => stable_l[a] # <<TRUE, TRUE>> \/ status[a]
      BY DEF HandInv, SettledIsFlagged
    <3> QED BY <1>1, <1>2, <3>1, <3>2, HardwareFlags
  <2> QED BY <1>2, <2>1, <2>2 DEF Hardware
<1>3. NoWrite => /\ sp' = sp
                 /\ \A a \in Axis : stable_o(a)' => Response(a)' = 0
                 /\ \A a \in Axis : stable_o(a)' /\ ~stable[a] =>
                                       stable_l'[a] # <<TRUE, TRUE>> \/ status'[a]
  <2>1. {} \in SUBSET Axis /\ \A a \in {} : stable[a]
    OBVIOUS
  <2>2. NoWrite => Hardware(sp, {}, {})
    BY Zenon DEF NoWrite
  <2> QED BY <1>2, <2>1, <2>2
<1>4. CASE Receive \/ CheckX \/ CheckY \/ Send \/ Stall \/ Execute
  <2>1. /\ NoWrite /\ stable' = stable /\ isr' = "none" /\ pc' # "unstable"
    <3>1. CASE Execute
      <4>1. arg.kind \in {"none", "reset", "set"}
        BY <1>1 DEF TypeOK, Command, NoCommand
      <4>2. pc' # "unstable"
        <5>1. arg.kind = "none" => pc' = "receive"
          BY <3>1, Zenon DEF Execute
        <5>2. arg.kind = "reset" => pc' = "clear_x"
          BY <3>1, Zenon DEF Execute
        <5>3. arg.kind = "set" => pc' = IF sp[arg.axis] = arg.value THEN "receive" ELSE "setpoint"
          BY <3>1, Zenon DEF Execute
        <5> QED BY <4>1, <5>1, <5>2, <5>3
      <4>3. NoWrite /\ stable' = stable /\ isr' = "none"
        BY <3>1 DEF Execute, Main
      <4> QED BY <4>2, <4>3
    <3>2. CASE Receive \/ CheckX \/ CheckY \/ Send \/ Stall
      BY <3>2 DEF Receive, CheckX, CheckY, Send, Stall, Main
    <3> QED BY <1>4, <3>1, <3>2
  <2>2. SetpointIsNew'
    <3>1. CASE Execute
      <4>1. pc' = "setpoint" => arg.kind = "set"
        <5>1. arg.kind = "none" => pc' = "receive"
          BY <3>1, Zenon DEF Execute
        <5>2. arg.kind = "reset" => pc' = "clear_x"
          BY <3>1, Zenon DEF Execute
        <5>3. arg.kind \in {"none", "reset", "set"}
          BY <1>1 DEF TypeOK, Command, NoCommand
        <5> QED BY <5>1, <5>2, <5>3
      <4>2. arg.kind = "set" => pc' = IF sp[arg.axis] = arg.value THEN "receive" ELSE "setpoint"
        BY <3>1, Zenon DEF Execute
      <4>3. arg' = arg /\ sp' = sp
        BY <1>3, <3>1 DEF Execute
      <4> QED BY <4>1, <4>2, <4>3 DEF SetpointIsNew
    <3>2. CASE Receive \/ CheckX \/ CheckY \/ Send \/ Stall
      BY <3>2 DEF Receive, CheckX, CheckY, Send, Stall, Main, SetpointIsNew
    <3> QED BY <1>4, <3>1, <3>2
  <2> QED BY <1>1, <1>3, <2>1, <2>2 DEF HandInv, AckIsFlagged, RestIsQuiet, NotYet, SettledIsFlagged
<1>5. CASE Hold
  <2>1. /\ pc' = pc /\ arg' = arg
    BY <1>1, <1>5, HoldStep
  <2>2. PICK ack \in SUBSET Axis :
           /\ Hardware(sp, ack, {})
           /\ ack # {} => isr = "ack" /\ ack = seen /\ isr' = "return"
    BY <1>1, <1>5, HoldStep
  <2>3. \A a \in ack : stable[a]
    BY <2>2 DEF HandInv, AckIsFlagged
  <2>4. /\ sp' = sp
        /\ \A a \in Axis : stable_o(a)' => Response(a)' = 0
        /\ \A a \in Axis : stable_o(a)' /\ ~stable[a] =>
                              stable_l'[a] # <<TRUE, TRUE>> \/ status'[a]
    BY <1>2, <2>2, <2>3
  <2>5. AckIsFlagged' /\ \A a \in Axis : stable[a] => stable'[a]
    BY <1>1, <1>5 DEF Hold, BusWait, TakeInterrupt, LoadStatus, SetFlags, Acknowledge, Return,
                      Handler, HandInv, AckIsFlagged, TypeOK
  <2>6. NotYet'
    BY <1>5, HoldNotYet
  <2>7. SetpointIsNew'
    BY <2>1, <2>4 DEF HandInv, SetpointIsNew
  <2> QED BY <1>1, <2>4, <2>5, <2>6, <2>7 DEF HandInv, RestIsQuiet, SettledIsFlagged
\* Steps that write one: the flags and the handler stand still.
<1>6. ASSUME NEW setpoints \in [Axis -> Position], NEW clear, Hardware(setpoints, {}, clear),
             stable' = stable
      PROVE  SettledIsFlagged'
  <2> SUFFICES ASSUME NEW a \in Axis
               PROVE  stable_o(a)' /\ ~stable[a] => stable_l'[a] # <<TRUE, TRUE>> \/ status'[a]
    BY <1>6 DEF SettledIsFlagged
  <2> PICK flag \in BOOLEAN : flag = stable[a]
    BY <1>1 DEF TypeOK
  <2>1. stable_o(a) /\ ~flag => stable_l[a] # <<TRUE, TRUE>> \/ status[a]
    BY DEF HandInv, SettledIsFlagged
  <2> PICK ack : ack = {}
    OBVIOUS
  <2>2. Hardware(setpoints, ack, clear) /\ (a \in ack => flag)
    BY <1>6
  <2> QED BY <1>1, <2>1, <2>2, HardwareFlags
<1>7. CASE WriteSetpoint
  <2>1. arg.axis \in Axis /\ arg.value \in Position
    BY <1>1, <1>7 DEF WriteSetpoint, Main, TypeInv, ArgInHand, TypeOK, Command, NoCommand
  <2>2. /\ Hardware([sp EXCEPT ![arg.axis] = arg.value], {}, {})
        /\ [sp EXCEPT ![arg.axis] = arg.value] \in [Axis -> Position]
        /\ stable' = stable /\ arg' = arg /\ isr' = "none" /\ pc' = "unstable"
    BY <1>1, <1>7, <2>1 DEF WriteSetpoint, Main
  <2>3. RestIsQuiet'
    <3> SUFFICES ASSUME NEW a \in Axis, stable_o(a)', a # arg.axis PROVE Response(a)' = 0
      BY <2>2 DEF RestIsQuiet, JustWritten
    <3> QED BY <1>1, <2>1, <2>2, QuietEdge
  <2>4. NotYet'
    BY <1>7, SetpointResets
  <2> QED BY <1>1, <1>6, <2>2, <2>3, <2>4 DEF HandInv, SetpointIsNew, AckIsFlagged
<1>8. CASE ClearFlag
  <2>1. /\ NoWrite /\ stable' = [stable EXCEPT ![arg.axis] = FALSE]
        /\ pc = "unstable" /\ pc' = "receive" /\ isr' = "none" /\ isr = "none"
    BY <1>8 DEF ClearFlag, Main
  <2>2. arg.axis \in Axis
    BY <1>1, <2>1 DEF TypeInv, ArgInHand, TypeOK, Command, NoCommand
  <2>3. ~stable_o(arg.axis)'
    <3> PICK a \in Axis : a = arg.axis /\ a = arg'.axis
      BY <1>8, <2>2 DEF ClearFlag
    <3>1. stability_counter'[a] = CountStable(a)
      BY <1>1, <2>1, HardwareStep DEF NoWrite
    <3>2. MinStable \in Nat /\ MinStable >= 2
      BY ControllerAssumption
    <3>3. CASE Response(a) # 0
      <4>1. stability_counter'[a] = 0
        BY <3>1, <3>3 DEF CountStable
      <4> QED BY <3>2, <4>1 DEF stable_o
    <3>4. CASE Response(a) = 0
      <4>1. PICK r \in Nat : r = Remaining /\ 1 <= r
        BY <1>1, RemainingFits, <3>2
      <4>2. PICK c \in Nat : c = stability_counter[a] /\ c + r <= MinStable - 2
        BY <1>1, <2>1, <3>4, <4>1, ControllerAssumption DEF HandInv, NotYet, TypeOK
      <4>3. stability_counter'[a] = c + 1
        BY <3>1, <3>2, <3>4, <4>1, <4>2 DEF CountStable, stable_o
      <4> QED BY <3>2, <4>1, <4>2, <4>3 DEF stable_o
    <3> QED BY <3>3, <3>4
  <2>4. SettledIsFlagged'
    <3> SUFFICES ASSUME NEW a \in Axis, stable_o(a)', ~stable'[a]
                 PROVE  stable_l'[a] # <<TRUE, TRUE>> \/ status'[a]
      BY DEF SettledIsFlagged
    <3>1. arg' = arg
      BY <1>8 DEF ClearFlag
    <3>2. a # arg.axis
      BY <2>3, <3>1
    <3>3. ~stable[a]
      BY <1>1, <2>1, <3>2 DEF TypeOK
    <3> QED BY <1>3, <2>1, <3>3
  <2> QED BY <1>1, <1>3, <2>1, <2>4 DEF HandInv, SetpointIsNew, AckIsFlagged, RestIsQuiet, NotYet
<1>9. ASSUME NEW a \in Axis, ClearPosition(a) \/ ZeroSetpoint(a) PROVE HandInv'
  <2>1. /\ pc' \in {"zero_x", "clear_y", "zero_y", "receive"} /\ isr' = "none" /\ stable' = stable
        /\ \/ Hardware(sp, {}, {a})
           \/ Hardware([sp EXCEPT ![a] = 0], {}, {})
    BY <1>9 DEF ClearPosition, ZeroSetpoint, Main
  <2>2. [sp EXCEPT ![a] = 0] \in [Axis -> Position]
    BY <1>1
  <2>3. SettledIsFlagged'
    BY <1>1, <1>6, <2>1, <2>2
  <2> QED BY <1>1, <2>1, <2>3
          DEF HandInv, SetpointIsNew, AckIsFlagged, RestIsQuiet, JustWritten, NotYet
<1>10. CASE UNCHANGED vars
  BY <1>10, <1>1 DEF vars, hwVars, HandInv, SetpointIsNew, AckIsFlagged, RestIsQuiet, JustWritten,
         NotYet, SettledIsFlagged, stable_o, Response, Remaining, Underway, TimeFor, Runs, Waiting,
         MayFire, Resting, Covered, StableEvent, HandlerRun
<1> QED BY <1>4, <1>5, <1>7, <1>8, <1>9, <1>10 DEF Next, Progress, Hold

\* No axis that has settled is forgotten: for every stability period that is
\* longer than the handler can hold up the main loop twice (100000 cycles in
\* pid_controller.sv:6), and every gain of at least one, a settled axis is in the
\* firmware's flag, in STATUS, or on its way there.
THEOREM SettledAxesAreFlagged ==
    ASSUME PeriodIsLong, UnitGain
    PROVE  Spec => []SettledIsFlagged
<1>1. HandInv /\ [Next]_vars => HandInv'
  BY StepHand
<1>2. HandInv => SettledIsFlagged
  BY DEF HandInv
<1> QED BY <1>1, <1>2, InitHand, PTL DEF Spec
=============================================================================
