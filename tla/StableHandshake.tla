--------------------------- MODULE StableHandshake ---------------------------
(***************************************************************************)
(* How a finished move is announced: the PD controllers' stability         *)
(* counters and the status register of src/rtl/pid_peripheral, and the     *)
(* firmware of src/sw/main.c, whose main loop writes setpoints and sends   *)
(* STABLE packets while its interrupt handler collects the stable events.  *)
(*                                                                         *)
(* Every step is one clock edge.  The hardware moves at each edge; the     *)
(* processor executes one step of the firmware, waits for the bus, or (at  *)
(* the UART) stalls.  A store that has reached the decode stage finishes   *)
(* before an interrupt that shows up in the same cycle is taken.           *)
(***************************************************************************)
EXTENDS Integers, FiniteSets

CONSTANTS
    KpNum, KpDen,    \* the proportional constant, as a fraction
    Position,        \* setpoints the host sends, in encoder ticks
    MinStable,       \* MIN_PERIOD_FOR_STABILITY
    BusLatency,      \* cycles from a store's acceptance to the next instruction
    MaxCommands      \* bound: commands the host sends in a behaviour

ASSUME ControllerAssumption ==
    /\ KpNum \in Nat /\ KpDen \in Nat \ {0}
    /\ Position \subseteq Int /\ 0 \in Position
    /\ MinStable \in Nat \ {0, 1}
    /\ BusLatency \in Nat /\ MaxCommands \in Nat

Axis == {"x", "y"}
NoCommand == [kind |-> "none"]
Command == {[kind |-> "reset"]} \cup [kind : {"set"}, axis : Axis, value : Position]

VARIABLES
    sp,                  \* SET_POINT registers
    pv,                  \* external: position of each axis, as the decoder counts it
    stability_counter,
    stable_l,            \* per axis <<stable_l[0], stable_l[1]>>
    status,              \* per axis: its bit of the STATUS register
    pend,                \* the interrupt line, one cycle ago
    pc, wait, arg,       \* main: next step, bus cycles to wait, command in hand
    stable,              \* stable_x, stable_y
    message_sent,
    isr, seen,           \* the handler's next step, the STATUS it read
    left,                \* commands the host may still send
    owed                 \* history: a new setpoint was written, no STABLE since

hwVars == <<sp, pv, stability_counter, stable_l, status, pend>>
vars == <<hwVars, pc, wait, arg, stable, message_sent, isr, seen, left, owed>>

-----------------------------------------------------------------------------
\* The PD controller with KD = 0; the arithmetic shift rounds down.

Response(a) == (KpNum * (sp[a] - pv[a])) \div KpDen
Direction(a) == IF Response(a) > 0 THEN 1 ELSE IF Response(a) < 0 THEN -1 ELSE 0

stable_o(a) == stability_counter[a] = MinStable - 1
StableEvent(a) == stable_l[a][2] /\ ~stable_l[a][1]
irq_o == \E a \in Axis : status[a]

\* Fault: the counter does not stop at its limit.
CountOnStable(a) == IF Response(a) # 0 THEN 0 ELSE stability_counter[a] + 1

CountStable(a) ==
    IF Response(a) # 0 THEN 0
    ELSE IF stable_o(a) THEN stability_counter[a] ELSE stability_counter[a] + 1

\* STATUS is write-one-to-clear; at the same edge software wins.
UpdateStatus(ack) == status' = [a \in Axis |-> (status[a] \/ StableEvent(a)) /\ a \notin ack]

LatchStable == stable_l' = [a \in Axis |-> <<stable_l[a][2], stable_o(a)>>]

\* The plant: a motor may move the axis it drives by a tick.
Move(clear) ==
    \E moved \in SUBSET Axis :
        pv' = [a \in Axis |-> IF a \in clear THEN 0
                              ELSE IF a \in moved THEN pv[a] + Direction(a) ELSE pv[a]]

\* One clock edge of the hardware.  setpoints, ack and clear are what the
\* firmware writes at this edge.
Hardware(setpoints, ack, clear) ==
    /\ sp' = setpoints
    /\ stability_counter' = [a \in Axis |-> CountStable(a)]
    /\ LatchStable
    /\ UpdateStatus(ack)
    /\ pend' = irq_o
    /\ Move(clear)

NoWrite == Hardware(sp, {}, {})

-----------------------------------------------------------------------------
\* The main loop.  It runs while no handler does and no interrupt is waiting.

Main(step) == isr = "none" /\ ~pend /\ wait = 0 /\ pc = step

\* The top of the loop: a whole command may have arrived (main.c:118-127).
Receive ==
    /\ Main("receive")
    /\ \/ arg' = NoCommand /\ UNCHANGED left
       \/ left > 0 /\ left' = left - 1 /\ arg' \in Command
    /\ pc' = "check_x"
    /\ NoWrite
    /\ UNCHANGED <<wait, stable, message_sent, isr, seen, owed>>

\* `if (!message_sent && stable_x && stable_y)`: the flags are volatile, one
\* load each.
CheckX ==
    /\ Main("check_x")
    /\ pc' = IF ~message_sent /\ stable["x"] THEN "check_y" ELSE "execute"
    /\ NoWrite
    /\ UNCHANGED <<wait, arg, stable, message_sent, isr, seen, left, owed>>

CheckY ==
    /\ Main("check_y")
    /\ pc' = IF stable["y"] THEN "send" ELSE "execute"
    /\ NoWrite
    /\ UNCHANGED <<wait, arg, stable, message_sent, isr, seen, left, owed>>

\* uart_putc(3); message_sent = 1
Send ==
    /\ Main("send")
    /\ message_sent' = TRUE
    /\ owed' = FALSE
    /\ pc' = "execute"
    /\ NoWrite
    /\ UNCHANGED <<wait, arg, stable, isr, seen, left>>

\* `if (finished) switch (command[0])`; a setpoint equal to the one in the
\* register changes nothing.
Execute ==
    /\ Main("execute")
    /\ pc' = CASE arg.kind = "none"  -> "receive"
               [] arg.kind = "reset" -> "clear_x"
               [] arg.kind = "set"   -> IF sp[arg.axis] = arg.value THEN "receive"
                                        ELSE "setpoint"
    /\ wait' = IF arg.kind = "set" THEN BusLatency ELSE 0
    /\ NoWrite
    /\ UNCHANGED <<arg, stable, message_sent, isr, seen, left, owed>>

WriteSetpoint ==
    /\ Main("setpoint")
    /\ Hardware([sp EXCEPT ![arg.axis] = arg.value], {}, {})
    /\ owed' = TRUE
    /\ wait' = BusLatency
    /\ pc' = "unstable"
    /\ UNCHANGED <<arg, stable, message_sent, isr, seen, left>>

\* Fault: message_sent is not reset with the new setpoint.
ClearFlagOnly ==
    /\ Main("unstable")
    /\ stable' = [stable EXCEPT ![arg.axis] = FALSE]
    /\ pc' = "receive"
    /\ NoWrite
    /\ UNCHANGED <<wait, arg, message_sent, isr, seen, left, owed>>

\* stable_x = 0; message_sent = 0
ClearFlag ==
    /\ Main("unstable")
    /\ stable' = [stable EXCEPT ![arg.axis] = FALSE]
    /\ message_sent' = FALSE
    /\ pc' = "receive"
    /\ NoWrite
    /\ UNCHANGED <<wait, arg, isr, seen, left, owed>>

\* Command 1: per axis, clear the decoder, then write setpoint 0.
ClearPosition(a) ==
    /\ Main(IF a = "x" THEN "clear_x" ELSE "clear_y")
    /\ Hardware(sp, {}, {a})
    /\ wait' = BusLatency
    /\ pc' = IF a = "x" THEN "zero_x" ELSE "zero_y"
    /\ UNCHANGED <<arg, stable, message_sent, isr, seen, left, owed>>

ZeroSetpoint(a) ==
    /\ Main(IF a = "x" THEN "zero_x" ELSE "zero_y")
    /\ Hardware([sp EXCEPT ![a] = 0], {}, {})
    /\ wait' = BusLatency
    /\ pc' = IF a = "x" THEN "clear_y" ELSE "receive"
    /\ UNCHANGED <<arg, stable, message_sent, isr, seen, left, owed>>

\* The bus has not answered yet.
BusWait ==
    /\ wait > 0
    /\ wait' = wait - 1
    /\ NoWrite
    /\ UNCHANGED <<pc, arg, stable, message_sent, isr, seen, left, owed>>

\* Polling for bytes, streaming a report or waiting for room in the
\* transmit FIFO takes as long as it takes.
Stall ==
    /\ Main("receive") \/ Main("send")
    /\ NoWrite
    /\ UNCHANGED <<pc, wait, arg, stable, message_sent, isr, seen, left, owed>>

-----------------------------------------------------------------------------
\* pid_interrupt_handler (main.c:78-95).

Handler(step) ==
    isr = step /\ wait = 0 /\ UNCHANGED <<pc, arg, message_sent, left, owed>>

TakeInterrupt ==
    /\ irq_o
    /\ Handler("none")
    /\ isr' = "load"
    /\ NoWrite
    /\ UNCHANGED <<wait, stable, seen>>

LoadStatus ==
    /\ Handler("load")
    /\ seen' = {a \in Axis : status[a]}
    /\ isr' = "flag"
    /\ wait' = BusLatency
    /\ NoWrite
    /\ UNCHANGED stable

SetFlags ==
    /\ Handler("flag")
    /\ stable' = [a \in Axis |-> stable[a] \/ a \in seen]
    /\ isr' = IF seen = {} THEN "return" ELSE "ack"
    /\ NoWrite
    /\ UNCHANGED <<wait, seen>>

\* Fault: the handler clears the whole register, not the bits it has seen.
AcknowledgeAll ==
    /\ Handler("ack")
    /\ Hardware(sp, Axis, {})
    /\ isr' = "return"
    /\ wait' = BusLatency
    /\ UNCHANGED <<stable, seen>>

Acknowledge ==
    /\ Handler("ack")
    /\ Hardware(sp, seen, {})
    /\ isr' = "return"
    /\ wait' = BusLatency
    /\ UNCHANGED <<stable, seen>>

Return ==
    /\ Handler("return")
    /\ isr' = "none"
    /\ seen' = {}
    /\ NoWrite
    /\ UNCHANGED <<wait, stable>>

-----------------------------------------------------------------------------

\* Reset, and the firmware at the top of its loop.
Init ==
    /\ sp = [a \in Axis |-> 0] /\ pv = [a \in Axis |-> 0]
    /\ stability_counter = [a \in Axis |-> 0]
    /\ stable_l = [a \in Axis |-> <<FALSE, FALSE>>]
    /\ status = [a \in Axis |-> FALSE] /\ pend = FALSE
    /\ pc = "receive" /\ wait = 0 /\ arg = NoCommand
    /\ stable = [a \in Axis |-> TRUE] /\ message_sent = FALSE
    /\ isr = "none" /\ seen = {}
    /\ left = MaxCommands /\ owed = FALSE

Progress ==
    \/ Receive \/ CheckX \/ CheckY \/ Send \/ Execute
    \/ WriteSetpoint \/ ClearFlag
    \/ \E a \in Axis : ClearPosition(a) \/ ZeroSetpoint(a)
    \/ BusWait
    \/ TakeInterrupt \/ LoadStatus \/ SetFlags \/ Acknowledge \/ Return

Next == Progress \/ Stall

Spec == Init /\ [][Next]_vars

\* The UART makes room in the end, so the firmware is never stalled for ever;
\* a motor that is driven moves its axis in the end.
Moves(a) == Next /\ pv'[a] # pv[a]
Fairness == WF_vars(Progress) /\ \A a \in Axis : WF_vars(Moves(a))

FairSpec == Spec /\ Fairness

-----------------------------------------------------------------------------

TypeOK ==
    /\ sp \in [Axis -> Position] /\ pv \in [Axis -> Int]
    /\ stability_counter \in [Axis -> 0 .. MinStable - 1]
    /\ stable_l \in [Axis -> BOOLEAN \X BOOLEAN]
    /\ status \in [Axis -> BOOLEAN] /\ pend \in BOOLEAN
    /\ pc \in {"receive", "check_x", "check_y", "send", "execute", "setpoint",
               "unstable", "clear_x", "zero_x", "clear_y", "zero_y"}
    /\ wait \in 0 .. BusLatency
    /\ arg \in Command \cup {NoCommand}
    /\ stable \in [Axis -> BOOLEAN] /\ message_sent \in BOOLEAN
    /\ isr \in {"none", "load", "flag", "ack", "return"}
    /\ seen \subseteq Axis
    /\ left \in 0 .. MaxCommands /\ owed \in BOOLEAN

Reached == \A a \in Axis : pv[a] = sp[a]

\* An event that is in flight, or stored in STATUS, is in the flag afterwards:
\* an axis that has settled is not forgotten, whatever the handler does with
\* the other axis at the same edge (main.c:78-95, W1C in prim_subreg_arb.sv).
SettledIsFlagged ==
    \A a \in Axis :
        stable_o(a) /\ ~stable[a] =>
            \/ stable_l[a] # <<TRUE, TRUE>>
            \/ status[a]

\* "Upon reaching the SETPOINT it sends a STABLE packet" (README.md): the axes
\* never stay at new setpoints for ever with no STABLE packet.
ReachedIsAnnounced == ~<>[](owed /\ Reached)

\* A STABLE packet is sent with both axes at rest under the setpoints the host
\* gave.
AnnouncedIsReached == [][Send => Reached]_vars

\* A setpoint that is written leads to a STABLE packet.
SetpointIsAnnounced == owed ~> ~owed
=============================================================================
