----------------------------- MODULE QuadDecoder -----------------------------
(***************************************************************************)
(* src/rtl/quad_peripheral: an axis counts the steps of its encoder, four  *)
(* to a period of the two levels, while software may set the count to zero *)
(* at any edge.  Every step is a clock edge; the shaft moves by one step   *)
(* an edge at most.                                                        *)
(***************************************************************************)
EXTENDS Integers, Sequences

CONSTANTS
    Reach,           \* bound: how far the shaft turns either way, two or more
    None

VARIABLES
    shaft,           \* external: position of the shaft, in steps
    latch,           \* A_i_latch and B_i_latch: pairs of levels, the older first
    state,           \* AB_ZERO, A_LEADS_B, AB_ONE, B_LEADS_A
    tick_position,
    seen,            \* history: the positions that `state` and `latch` show
    origin           \* history: where the count is zero, None when that is lost
vars == <<shaft, latch, state, tick_position, seen, origin>>

-----------------------------------------------------------------------------
\* The levels go 00, 10, 11, 01 as the position grows.
Levels(position) == <<position % 4 \in {1, 2}, position % 4 \in {2, 3}>>

Phase == [AB_ZERO |-> 0, A_LEADS_B |-> 1, AB_ONE |-> 2, B_LEADS_A |-> 3]
State == DOMAIN Phase

Shown(levels) == CHOOSE s \in State : Levels(Phase[s]) = levels

\* Both levels changed: the decoder starts over, without a tick.
Opposite(s, t) == (Phase[s] - Phase[t]) % 4 = 2

next_state == IF Opposite(state, Shown(latch[1])) THEN "AB_ZERO" ELSE Shown(latch[1])

tick_val ==
    LET turned == (Phase[Shown(latch[1])] - Phase[state]) % 4
    IN  CASE turned \in {0, 2} -> 0
          [] turned = 1 -> 1
          [] turned = 3 -> -1

\* Fault: a tick that comes with a clear is counted.
CountAfterClear(clear) == (IF clear THEN 0 ELSE tick_position) + tick_val

Count(clear) == IF clear THEN 0 ELSE tick_position + tick_val

\* obi_quad: writing one clears, any other value does not.
Clears(written) == written = 1

\* The decoder is in step with the shaft, and no jump is on its way to it.
InStep ==
    /\ next_state = Shown(Levels(seen[2]))
    /\ seen[3] - seen[2] \in -1 .. 1 /\ shaft - seen[3] \in -1 .. 1

Edge(written) ==
    /\ latch' = <<latch[2], Levels(shaft)>>
    /\ state' = next_state
    /\ tick_position' = Count(Clears(written))
    /\ seen' = <<seen[2], seen[3], shaft>>
    /\ origin' = IF ~Clears(written) THEN origin
                 ELSE IF InStep THEN seen[2] ELSE None

Turn == shaft' \in {shaft - 1, shaft, shaft + 1} \cap -Reach .. Reach

ClockEdge == (\E written \in {None, 0, 1} : Edge(written)) /\ Turn

\* The latches and the state come up as at position 0; the shaft may rest at
\* any of four, and opposite to 0 the decoder cannot know which way it is off.
Init ==
    /\ shaft \in -1 .. 2
    /\ latch = <<Levels(0), Levels(0)>> /\ state = "AB_ZERO"
    /\ tick_position = 0
    /\ seen = <<0, 0, 0>>
    /\ origin = IF shaft = 2 THEN None ELSE 0

Next == ClockEdge

Spec == Init /\ [][Next]_vars

-----------------------------------------------------------------------------
\* Over any turning to and fro, with clears at any edge, the count is the
\* distance from where it was cleared: no step is lost or counted twice, nor is
\* one counted that had happened before the clear.  The exception is the
\* decoder that came up opposite to the shaft, until it is cleared.
PositionIsExact == origin # None => tick_position = seen[1] - origin
=============================================================================
