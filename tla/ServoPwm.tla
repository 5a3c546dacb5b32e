------------------------------ MODULE ServoPwm ------------------------------
(***************************************************************************)
(* src/rtl/pwm_peripheral: a counter compared with two registers that      *)
(* software may write at any edge, and the servo command of src/sw/main.c  *)
(* that does.  Every step is a clock edge.                                 *)
(***************************************************************************)
EXTENDS Integers, Sequences, FiniteSets

CONSTANTS MaxPeriod  \* bound: values written to the registers are below it

VARIABLES
    period, pulse,   \* the registers PERIOD and WIDTH
    counter,
    outs             \* history: the output since the last write, MaxPeriod + 1 cycles of it
vars == <<period, pulse, counter, outs>>

Register == 0 .. MaxPeriod

-----------------------------------------------------------------------------
enabled == period # 0

\* A width beyond the period is as long as the period.
width == IF pulse > period THEN period ELSE pulse

pwm_o == enabled /\ counter < width

\* Fault: the counter runs to the period.
CountOneMore == IF enabled /\ counter < period THEN counter + 1 ELSE 0

Count == IF enabled /\ counter < period - 1 THEN counter + 1 ELSE 0

Keep(sequence) ==
    IF Len(sequence) <= MaxPeriod THEN sequence ELSE Tail(sequence)

Run ==
    /\ counter' = Count
    /\ outs' = Append(Keep(outs), pwm_o)
    /\ UNCHANGED <<period, pulse>>

\* A store to one of the registers lands at this edge.
Write ==
    /\ \/ period' \in Register /\ UNCHANGED pulse
       \/ pulse' \in Register /\ UNCHANGED period
    /\ counter' = Count
    /\ outs' = <<>>

Init == period = 0 /\ pulse = 0 /\ counter = 0 /\ outs = <<>>

Next == Run \/ Write

-----------------------------------------------------------------------------
LastOuts(n) == {i \in Len(outs) - n + 1 .. Len(outs) : outs[i]}

\* From the second cycle after a write on, wherever the counter stood when the
\* registers changed, any stretch of one period has the pulse that was asked
\* for, no longer than the period, and no other.
PulseIsAsProgrammed ==
    enabled /\ Len(outs) > period => Cardinality(LastOuts(period)) = width
=============================================================================
