----------------------------- MODULE MotorDrive -----------------------------
(***************************************************************************)
(* src/rtl/pid_peripheral/pid_controller.sv: a PD controller in fixed      *)
(* point.  Its terms are cut to the width of a word, its samples are taken *)
(* by a counter that is compared for equality, its response drives the     *)
(* motor.  Every step is a clock edge; the widths are parameters.          *)
(***************************************************************************)
EXTENDS Integers, Sequences

CONSTANTS
    Width,           \* bits of a word (32 in the code)
    Fraction,        \* bits of a gain behind the point (16)
    CounterBits,     \* bits of the sample counter (26)
    DutyBits,        \* bits of the duty (8)
    BASE_PWM,        \* least duty of a motor that is driven, neither 0 nor the largest
    Gain, Rate,      \* gains and sample rates that software writes
    Setpoint, Reading  \* setpoints, and positions the decoder may show

Word == -(2 ^ (Width - 1)) .. 2 ^ (Width - 1) - 1

VARIABLES
    kp, kd, rs, sp,  \* the registers
    pv,              \* external: the position
    pv_prev,         \* the last two samples, the newer first
    sample           \* `counter`
vars == <<kp, kd, rs, sp, pv, pv_prev, sample>>

-----------------------------------------------------------------------------
\* Two's complement of Width bits, and the arithmetic shift.
Cut(x) == ((x + 2 ^ (Width - 1)) % (2 ^ Width)) - 2 ^ (Width - 1)
Shift(x, n) == x \div 2 ^ (IF n < Width THEN n ELSE Width)

error == Cut(sp - pv)
delta == Shift(Cut(pv_prev[1] - pv_prev[2]), rs)

\* Fault: the product is cut before it is shifted.
TermCutFirst(gain, x) == Shift(Cut(gain * x), Fraction)

\* The product has twice the bits and is not cut.
Term(gain, x) == Cut(Shift(gain * x, Fraction))

p_term == Term(kp, error)
d_term == Term(kd, delta)
response == Cut(p_term - d_term)

-----------------------------------------------------------------------------
\* The motor's direction and duty for a response.
Direction(r) == IF r < 0 THEN "REVERSE" ELSE IF r > 0 THEN "FORWARD" ELSE "COAST"

Magnitude(r) == IF r < 0 THEN -r ELSE r

Full == 2 ^ DutyBits - 1

\* Fault: a large response keeps its low bits only.
ContributionCut(r) == (Magnitude(r) \div 4) % (2 ^ DutyBits)

Contribution(r) == IF Magnitude(r) < 4 * 2 ^ DutyBits THEN Magnitude(r) \div 4 ELSE Full

Duty(r) ==
    IF r = 0 THEN 0
    ELSE IF BASE_PWM + Contribution(r) < Full THEN BASE_PWM + Contribution(r) ELSE Full

-----------------------------------------------------------------------------
\* (1 << RS) - 1 is wider than the counter: beyond CounterBits it is never met.
Limit == 2 ^ rs - 1

\* Fault: the counter stays where it ends.
CountToTheEnd == IF sample = 2 ^ CounterBits - 1 THEN sample ELSE sample + 1

CountOn == (sample + 1) % (2 ^ CounterBits)

Sample ==
    IF sample = Limit
    THEN sample' = 0 /\ pv_prev' = <<pv, pv_prev[1]>>
    ELSE sample' = CountOn /\ UNCHANGED pv_prev

Run == Sample /\ pv' \in Reading /\ UNCHANGED <<kp, kd, rs, sp>>

Write ==
    /\ \/ kp' \in Gain /\ UNCHANGED <<kd, rs, sp>>
       \/ kd' \in Gain /\ UNCHANGED <<kp, rs, sp>>
       \/ rs' \in Rate /\ UNCHANGED <<kp, kd, sp>>
       \/ sp' \in Setpoint /\ UNCHANGED <<kp, kd, rs>>
    /\ Sample /\ UNCHANGED pv

Init ==
    /\ kp = 0 /\ kd = 0 /\ rs = 0 /\ sp = 0
    /\ pv = 0 /\ pv_prev = <<0, 0>> /\ sample = 0

Next == Run \/ Write

-----------------------------------------------------------------------------
Exact == Shift(kp * (sp - pv), Fraction)
         - Shift(kd * Shift(pv_prev[1] - pv_prev[2], rs), Fraction)

\* The terms may be too large for a word, the difference of them is right all
\* the same: what the controller responds is the exact response whenever the
\* error, the speed and that response itself fit.
OnlyTheSumMustFit ==
    sp - pv \in Word /\ pv_prev[1] - pv_prev[2] \in Word /\ Exact \in Word => response = Exact

\* A larger response never drives the motor less, the largest ones included,
\* and a motor that is driven gets what it needs to turn at all.
DriveIsMonotone ==
    /\ \A r \in Word : Magnitude(r) <= Magnitude(response) => Duty(r) <= Duty(response)
    /\ Direction(response) # "COAST" => Duty(response) \in BASE_PWM .. Full

\* Wherever the counter stands when RS is changed, samples keep coming at the
\* new rate, provided the counter can count that far.
SamplingGoesOn ==
    \A r \in Rate : r <= CounterBits =>
        (<>[](rs = r) => []<>(rs = r /\ sample = 2 ^ r - 1))
=============================================================================
