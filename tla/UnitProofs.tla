------------------------------ MODULE UnitProofs ------------------------------
(***************************************************************************)
(* Proofs about the parts on the benches of Units, for every value of      *)
(* their constants.                                                        *)
(***************************************************************************)
EXTENDS Units, TLAPS, FiniteSetTheorems, SequenceTheorems, WellFoundedInduction

-----------------------------------------------------------------------------
(* QuadDecoder.  Once the decoder is in step, its state shows the oldest   *)
(* position in `seen`, and neighbours in `seen` are a step apart at most.  *)

\* The state that shows a position.
At(p) ==
    CASE p % 4 = 0 -> "AB_ZERO" [] p % 4 = 1 -> "A_LEADS_B"
      [] p % 4 = 2 -> "AB_ONE"  [] p % 4 = 3 -> "B_LEADS_A"

Near(p, q) == q - p \in -1 .. 1

Positions ==
    /\ shaft \in Int
    /\ seen \in Int \X Int \X Int
    /\ latch = <<Quad!Levels(seen[2]), Quad!Levels(seen[3])>>

Following ==
    origin # None =>
        /\ origin \in Int
        /\ state = At(seen[1])
        /\ Near(seen[1], seen[2]) /\ Near(seen[2], seen[3]) /\ Near(seen[3], shaft)
        /\ tick_position = seen[1] - origin

QuadInv == Positions /\ Following

-----------------------------------------------------------------------------
\* The shaft is near to where it was an edge before.
LEMMA NearAfterStep ==
    ASSUME NEW p \in Int, NEW q \in {p - 1, p, p + 1} PROVE q \in Int /\ Near(p, q)
  BY DEF Near

\* The decoder reads the two levels of a position back to the state that shows it.
LEMMA ShownLevels == ASSUME NEW p \in Int PROVE Quad!Shown(Quad!Levels(p)) = At(p)
<1>1. Quad!State = {"AB_ZERO", "A_LEADS_B", "AB_ONE", "B_LEADS_A"}
  BY DEF Quad!State, Quad!Phase
<1>2. /\ Quad!Phase["AB_ZERO"] = 0 /\ Quad!Phase["A_LEADS_B"] = 1
      /\ Quad!Phase["AB_ONE"] = 2 /\ Quad!Phase["B_LEADS_A"] = 3
  BY DEF Quad!Phase
<1>3. /\ Quad!Levels(0) = <<FALSE, FALSE>> /\ Quad!Levels(1) = <<TRUE, FALSE>>
      /\ Quad!Levels(2) = <<TRUE, TRUE>> /\ Quad!Levels(3) = <<FALSE, TRUE>>
  <2>1. Quad!Levels(0) = <<FALSE, FALSE>>
    <3>1. (0 % 4 \in {1, 2}) = FALSE /\ (0 % 4 \in {2, 3}) = FALSE
      OBVIOUS
    <3> QED BY <3>1, Zenon DEF Quad!Levels
  <2>2. Quad!Levels(1) = <<TRUE, FALSE>>
    <3>1. (1 % 4 \in {1, 2}) = TRUE /\ (1 % 4 \in {2, 3}) = FALSE
      OBVIOUS
    <3> QED BY <3>1, Zenon DEF Quad!Levels
  <2>3. Quad!Levels(2) = <<TRUE, TRUE>>
    <3>1. (2 % 4 \in {1, 2}) = TRUE /\ (2 % 4 \in {2, 3}) = TRUE
      OBVIOUS
    <3> QED BY <3>1, Zenon DEF Quad!Levels
  <2>4. Quad!Levels(3) = <<FALSE, TRUE>>
    <3>1. (3 % 4 \in {1, 2}) = FALSE /\ (3 % 4 \in {2, 3}) = TRUE
      OBVIOUS
    <3> QED BY <3>1, Zenon DEF Quad!Levels
  <2> QED BY <2>1, <2>2, <2>3, <2>4
<1>4. p % 4 \in 0 .. 3 /\ Quad!Levels(p) = Quad!Levels(p % 4)
  BY DEF Quad!Levels
<1>5. Quad!Shown(Quad!Levels(0)) = "AB_ZERO" /\ Quad!Shown(Quad!Levels(1)) = "A_LEADS_B"
  BY <1>1, <1>2, <1>3 DEF Quad!Shown
<1>6. Quad!Shown(Quad!Levels(2)) = "AB_ONE" /\ Quad!Shown(Quad!Levels(3)) = "B_LEADS_A"
  BY <1>1, <1>2, <1>3 DEF Quad!Shown
<1> QED BY <1>4, <1>5, <1>6 DEF At

\* Phases are positions modulo four.
LEMMA PhaseAt == ASSUME NEW p \in Int PROVE Quad!Phase[At(p)] = p % 4
  BY DEF Quad!Phase, At

\* A step of the shaft, or none, is counted as what it is.
LEMMA StepIsCounted ==
    ASSUME NEW p \in Int, NEW q \in Int, Near(p, q), state = At(p), latch[1] = Quad!Levels(q)
    PROVE  Quad!next_state = At(q) /\ Quad!tick_val = q - p
<1>1. Quad!Shown(latch[1]) = At(q)
  BY ShownLevels
<1>2. Quad!Phase[state] = p % 4 /\ Quad!Phase[Quad!Shown(latch[1])] = q % 4
  BY <1>1, PhaseAt
<1>3. q = p - 1 \/ q = p \/ q = p + 1
  BY DEF Near
<1>4. /\ ((p % 4) - (q % 4)) % 4 # 2
      /\ ((q % 4) - (p % 4)) % 4 = IF q = p THEN 0 ELSE IF q = p + 1 THEN 1 ELSE 3
  BY <1>3
<1>5. Quad!next_state = At(q)
  BY <1>1, <1>2, <1>4 DEF Quad!next_state, Quad!Opposite
<1>6. Quad!tick_val = q - p
  BY <1>2, <1>3, <1>4 DEF Quad!tick_val
<1> QED BY <1>5, <1>6

\* Reset: latches and state show position 0, and unless the shaft rests opposite
\* to it the decoder is in step.
LEMMA InitQuad == ASSUME Quad!Init PROVE QuadInv
<1>1. Positions
  BY DEF Quad!Init, Positions
<1>2. Following
  BY DEF Quad!Init, Following, Near, At
<1> QED BY <1>1, <1>2 DEF QuadInv

\* An edge keeps it, whatever is written and wherever the shaft turns.
LEMMA EdgeQuad == ASSUME QuadInv, Quad!ClockEdge PROVE QuadInv'
<1> USE DEF QuadInv
<1> PICK written \in {None, 0, 1} : Quad!Edge(written)
  BY DEF Quad!ClockEdge
<1>1. shaft' \in Int /\ Near(shaft, shaft')
  <2>1. shaft' \in {shaft - 1, shaft, shaft + 1}
    BY Zenon DEF Quad!ClockEdge, Quad!Turn
  <2>2. shaft \in Int
    BY DEF Positions
  <2> QED BY <2>1, <2>2, NearAfterStep
<1>2. seen' = <<seen[2], seen[3], shaft>> /\ latch' = <<latch[2], Quad!Levels(shaft)>>
  BY DEF Quad!Edge
<1>3. Positions'
  BY <1>1, <1>2 DEF Positions, Quad!Levels
<1>4. CASE ~Quad!Clears(written)
  <2> SUFFICES ASSUME origin' # None PROVE Following'
    BY <1>3 DEF Following
  <2>1. origin' = origin /\ state' = Quad!next_state /\ tick_position' = tick_position + Quad!tick_val
    BY <1>4 DEF Quad!Edge, Quad!Count
  <2>2. Quad!next_state = At(seen[2]) /\ Quad!tick_val = seen[2] - seen[1]
    BY <2>1, StepIsCounted DEF Positions, Following
  <2> QED BY <1>1, <1>2, <2>1, <2>2 DEF Following, Positions, Near, At
<1>5. CASE Quad!Clears(written)
  <2> SUFFICES ASSUME origin' # None PROVE Following'
    BY <1>3 DEF Following
  <2>1. Quad!InStep /\ origin' = seen[2] /\ state' = Quad!next_state /\ tick_position' = 0
    BY <1>5 DEF Quad!Edge, Quad!Count
  <2>2. state' = At(seen[2]) /\ Near(seen[2], seen[3]) /\ Near(seen[3], shaft)
    BY <2>1, ShownLevels DEF Quad!InStep, Positions, Near
  <2> QED BY <1>1, <1>2, <2>1, <2>2 DEF Following, Positions, Near, At
<1> QED BY <1>3, <1>4, <1>5

\* What the others do does not move the decoder.
LEMMA QuadStep == QuadInv /\ [Next]_vars => QuadInv'
<1> SUFFICES ASSUME QuadInv, [Next]_vars PROVE QuadInv'
  OBVIOUS
<1>1. CASE Quad!ClockEdge
  BY <1>1, EdgeQuad
<1>2. CASE UNCHANGED quadVars
  BY <1>2 DEF QuadInv, Positions, Following, quadVars, Quad!Levels, At, Near
<1> QED BY <1>1, <1>2 DEF Next, vars, ImageMoves, LoopMoves, QuadMoves, PwmMoves, DriveMoves,
                          TimerMoves, Quad!Next

\* tick_position of quad_decoder.sv is the distance of the position shown from
\* where obi_quad.sv last cleared it, for any turning of the shaft and clears at
\* any edge, as soon as the decoder has been in step once.
THEOREM CountIsExact == Spec => []PositionIsExact
<1>1. Init => QuadInv
  BY InitQuad DEF Init
<1>2. QuadInv => PositionIsExact
  BY DEF QuadInv, Following, PositionIsExact, Quad!PositionIsExact
<1> QED BY <1>1, <1>2, QuadStep, PTL DEF Spec

-----------------------------------------------------------------------------
(* MotorDrive.  Cutting a number to a word takes a multiple of 2 ^ Width   *)
(* off it; multiples that are taken off the terms are put back when their  *)
(* difference is cut, provided it fits.                                    *)

DriveInv ==
    /\ kp \in Int /\ kd \in Int /\ rs \in Nat /\ sp \in Int /\ pv \in Int
    /\ pv_prev \in Int \X Int

\* Division with remainder.
LEMMA DivideBack ==
    ASSUME NEW m \in Nat, m > 0, NEW x \in Int
    PROVE  x = m * (x \div m) + (x % m) /\ x % m \in 0 .. m - 1 /\ x \div m \in Int
  OBVIOUS

\* Multiples of the divisor leave the remainder alone.
LEMMA MultiplesGo ==
    ASSUME NEW m \in Nat, m > 0, NEW q \in Int, NEW r \in 0 .. m - 1
    PROVE  (m * q + r) % m = r
  OBVIOUS

\* Two's complement: a multiple of 2 ^ Width is taken off.
LEMMA CutTakesOff ==
    ASSUME NEW x \in Int
    PROVE  Drive!Cut(x) \in Int /\ \E q \in Int : Drive!Cut(x) = x - q * 2 ^ Width
<1>1. PICK half \in Nat \ {0} : half = 2 ^ (Width - 1)
  BY PowerAssumption, DriveAssumption
<1>2. PICK whole \in Nat \ {0} : whole = 2 ^ Width
  BY PowerAssumption, DriveAssumption
<1> PICK y \in Int : y = x + half
  BY <1>1
<1>3. PICK q \in Int : q = y \div whole
  BY <1>2, DivideBack
<1>4. y = whole * q + (y % whole) /\ y % whole \in Int
  BY <1>2, <1>3, DivideBack
<1>5. Drive!Cut(x) = (y % whole) - half
  BY <1>1, <1>2 DEF Drive!Cut
<1>6. PICK rest \in Int : rest = y % whole
  BY <1>4
<1>7. Drive!Cut(x) = rest - half /\ x + half = whole * q + rest
  BY <1>4, <1>5, <1>6
<1>8. Drive!Cut(x) = x - q * whole
  BY <1>1, <1>2, <1>6, <1>7
<1> QED BY <1>1, <1>2, <1>6, <1>7, <1>8

\* A number that fits is not changed, nor is one that differs from it by
\* multiples of 2 ^ Width changed to anything else.
LEMMA CutGivesBack ==
    ASSUME NEW x \in Drive!Word, NEW q \in Int
    PROVE  Drive!Cut(x - q * 2 ^ Width) = x
<1>1. PICK half \in Nat \ {0} : half = 2 ^ (Width - 1)
  BY PowerAssumption, DriveAssumption
<1>2. PICK whole \in Nat \ {0} : whole = 2 ^ Width
  BY PowerAssumption, DriveAssumption
<1>3. whole = 2 * half /\ x \in -half .. half - 1
  BY <1>1, <1>2, PowerAssumption DEF Drive!Word
<1>4. x + half \in 0 .. whole - 1
  BY <1>3
<1> PICK r \in 0 .. whole - 1, n \in Int : r = x + half /\ n = -q
  BY <1>4
<1>5. (whole * n + r) % whole = r
  <2>1. whole \in Nat /\ whole > 0 /\ r \in 0 .. whole - 1 /\ n \in Int
    BY <1>2
  <2> QED BY <2>1, MultiplesGo, Zenon
<1>6. (x - q * whole) + half = whole * n + r
  BY <1>1, <1>2, <1>3
<1>7. ((x - q * whole) + half) % whole = x + half
  BY <1>5, <1>6
<1>8. Drive!Cut(x - q * 2 ^ Width) = (((x - q * whole) + half) % whole) - half
  BY <1>1, <1>2 DEF Drive!Cut
<1> QED BY <1>1, <1>3, <1>7, <1>8

\* A number that fits stays.
LEMMA CutKeeps == ASSUME NEW x \in Drive!Word PROVE Drive!Cut(x) = x
<1>1. x \in Int /\ 2 ^ Width \in Int
  BY PowerAssumption, DriveAssumption DEF Drive!Word
<1>2. x - 0 * 2 ^ Width = x
  BY <1>1
<1>3. Drive!Cut(x - 0 * 2 ^ Width) = x
  BY CutGivesBack
<1> QED BY <1>2, <1>3

\* The arithmetic shift gives an integer.
LEMMA ShiftTyped == ASSUME NEW x \in Int, NEW n \in Nat PROVE Drive!Shift(x, n) \in Int
<1>1. PICK k \in 0 .. Width : k = IF n < Width THEN n ELSE Width
  BY DriveAssumption
<1>2. PICK m \in Nat \ {0} : m = 2 ^ k
  BY PowerAssumption
<1> QED BY <1>1, <1>2 DEF Drive!Shift

\* The terms of the controller and the response, for registers of any value.
LEMMA ResponseFits ==
    ASSUME DriveInv, sp - pv \in Drive!Word, pv_prev[1] - pv_prev[2] \in Drive!Word,
           Drive!Exact \in Drive!Word
    PROVE  Drive!response = Drive!Exact
<1>1. /\ Drive!error = sp - pv
      /\ Drive!delta = Drive!Shift(pv_prev[1] - pv_prev[2], rs)
  BY CutKeeps DEF Drive!error, Drive!delta
<1>2. sp - pv \in Int /\ pv_prev[1] - pv_prev[2] \in Int /\ rs \in Nat /\ Fraction \in Nat
  BY DriveAssumption DEF DriveInv
<1>3. PICK d \in Int : d = Drive!delta
  BY <1>1, <1>2, ShiftTyped
<1>4. kp * (sp - pv) \in Int /\ kd * d \in Int
  BY <1>2, <1>3 DEF DriveInv
<1>5. PICK p \in Int : p = Drive!Shift(kp * (sp - pv), Fraction)
  BY <1>2, <1>4, ShiftTyped
<1>6. PICK v \in Int : v = Drive!Shift(kd * d, Fraction)
  BY <1>2, <1>4, ShiftTyped
<1>7. Drive!Exact = p - v
  BY <1>1, <1>3, <1>5, <1>6 DEF Drive!Exact
<1>8. Drive!p_term = Drive!Cut(p) /\ Drive!d_term = Drive!Cut(v)
  BY <1>1, <1>3, <1>5, <1>6 DEF Drive!p_term, Drive!d_term, Drive!Term
<1>9. PICK i \in Int : Drive!Cut(p) = p - i * 2 ^ Width
  BY CutTakesOff
<1>10. PICK j \in Int : Drive!Cut(v) = v - j * 2 ^ Width
  BY CutTakesOff
<1>11. PICK whole \in Nat : whole = 2 ^ Width
  BY PowerAssumption, DriveAssumption
<1>12. Drive!Cut(p) - Drive!Cut(v) = (p - v) - (i - j) * 2 ^ Width
  BY <1>9, <1>10, <1>11
<1> QED BY <1>7, <1>8, <1>12, CutGivesBack DEF Drive!response

\* A number cut to a word is one.
LEMMA CutTyped == ASSUME NEW x \in Int PROVE Drive!Cut(x) \in Int
  BY CutTakesOff

\* Whatever the registers hold, the response is an integer.
LEMMA ResponseTyped == ASSUME DriveInv PROVE Drive!response \in Int
<1>1. sp - pv \in Int /\ pv_prev[1] - pv_prev[2] \in Int /\ rs \in Nat /\ Fraction \in Nat
      /\ kp \in Int /\ kd \in Int
  BY DriveAssumption DEF DriveInv
<1>2. PICK e \in Int : e = Drive!error
  BY <1>1, CutTyped DEF Drive!error
<1>3. Drive!Cut(pv_prev[1] - pv_prev[2]) \in Int
  BY <1>1, CutTyped
<1>4. PICK d \in Int : d = Drive!delta
  BY <1>1, <1>3, ShiftTyped DEF Drive!delta
<1>5. kp * e \in Int /\ kd * d \in Int
  BY <1>1, <1>2, <1>4
<1>6. Drive!Shift(kp * e, Fraction) \in Int /\ Drive!Shift(kd * d, Fraction) \in Int
  BY <1>1, <1>5, ShiftTyped
<1>7. Drive!p_term \in Int /\ Drive!d_term \in Int
  BY <1>2, <1>4, <1>6, CutTyped DEF Drive!p_term, Drive!d_term, Drive!Term
<1>8. Drive!p_term - Drive!d_term \in Int
  BY <1>7
<1> QED BY <1>8, CutTyped DEF Drive!response

\* The duty of a motor grows with the size of the response, from the least duty
\* that turns a motor to the full one.
LEMMA DutyGrows ==
    ASSUME NEW r \in Int, NEW s \in Int, Drive!Magnitude(r) <= Drive!Magnitude(s)
    PROVE  /\ Drive!Duty(r) <= Drive!Duty(s)
           /\ s # 0 => Drive!Duty(s) \in BASE_PWM .. Drive!Full
<1>1. PICK levels \in Nat \ {0} : levels = 2 ^ DutyBits
  BY PowerAssumption
<1>2. BASE_PWM \in 0 .. levels - 1 /\ Drive!Full = levels - 1
  BY <1>1, DriveAssumption DEF Drive!Full
<1>3. PICK full \in Nat, base \in Nat : full = Drive!Full /\ base = BASE_PWM /\ base <= full
  BY <1>1, <1>2
<1>4. PICK m \in Nat, n \in Nat : m = Drive!Magnitude(r) /\ n = Drive!Magnitude(s)
  BY DEF Drive!Magnitude
<1>5. /\ Drive!Contribution(r) = IF m < 4 * (full + 1) THEN m \div 4 ELSE full
      /\ Drive!Contribution(s) = IF n < 4 * (full + 1) THEN n \div 4 ELSE full
  BY <1>1, <1>2, <1>3, <1>4 DEF Drive!Contribution
<1>6. PICK c \in Nat, d \in Nat : /\ c = Drive!Contribution(r) /\ d = Drive!Contribution(s)
                                  /\ c <= d /\ d <= full
  BY <1>3, <1>4, <1>5
<1>7. r # 0 => s # 0
  BY DEF Drive!Magnitude
<1>8. /\ Drive!Duty(r) = IF r = 0 THEN 0 ELSE IF base + c < full THEN base + c ELSE full
      /\ Drive!Duty(s) = IF s = 0 THEN 0 ELSE IF base + d < full THEN base + d ELSE full
  BY <1>3, <1>6 DEF Drive!Duty
<1> QED BY <1>3, <1>6, <1>7, <1>8

\* Reset, and every step of the drive and of the others.
LEMMA DriveStep ==
    /\ Init => DriveInv
    /\ DriveInv /\ [Next]_vars => DriveInv'
<1>1. Init => DriveInv
  BY DEF Init, Drive!Init, DriveInv
<1>2. ASSUME DriveInv, Drive!Next PROVE DriveInv'
  <2>1. pv_prev' \in Int \X Int
    BY <1>2 DEF Drive!Next, Drive!Run, Drive!Write, Drive!Sample, DriveInv
  <2>2. kp' \in Int /\ kd' \in Int /\ rs' \in Nat /\ sp' \in Int /\ pv' \in Int
    BY <1>2, DriveAssumption DEF Drive!Next, Drive!Run, Drive!Write, DriveInv
  <2> QED BY <2>1, <2>2 DEF DriveInv
<1>3. ASSUME DriveInv, UNCHANGED driveVars PROVE DriveInv'
  BY <1>3 DEF driveVars, DriveInv
<1> QED BY <1>1, <1>2, <1>3
        DEF Next, vars, ImageMoves, LoopMoves, QuadMoves, PwmMoves, DriveMoves,
            TimerMoves

\* pid_controller.sv cuts each term to a word, and still responds exactly when
\* error, speed and the exact response fit, for every width, gain and rate.
THEOREM ResponseIsExact == Spec => []OnlyTheSumMustFit
<1>1. DriveInv => OnlyTheSumMustFit
  BY ResponseFits DEF OnlyTheSumMustFit, Drive!OnlyTheSumMustFit
<1> QED BY <1>1, DriveStep, PTL DEF Spec

\* md_controller.sv never drives the motor less for a larger response, the
\* largest one included, nor with less than it needs, for every width of the
\* response and of the duty.
THEOREM DutyIsMonotone == Spec => []DriveIsMonotone
<1>1. DriveInv => DriveIsMonotone
  <2> SUFFICES ASSUME DriveInv PROVE Drive!DriveIsMonotone
    BY DEF DriveIsMonotone
  <2> PICK s \in Int : s = Drive!response
    BY ResponseTyped
  <2>1. Drive!Word \subseteq Int
    BY DEF Drive!Word
  <2>2. \A r \in Drive!Word :
           Drive!Magnitude(r) <= Drive!Magnitude(s) => Drive!Duty(r) <= Drive!Duty(s)
    BY <2>1, DutyGrows
  <2>3. s # 0 => Drive!Duty(s) \in BASE_PWM .. Drive!Full
    <3>1. Drive!Magnitude(s) <= Drive!Magnitude(s)
      BY DEF Drive!Magnitude
    <3> QED BY <3>1, DutyGrows
  <2> QED BY <2>2, <2>3 DEF Drive!DriveIsMonotone, Drive!Direction
<1> QED BY <1>1, DriveStep, PTL DEF Spec

-----------------------------------------------------------------------------
(* ServoPwm.  The output of the last cycles is what the counter was below: *)
(* from where the counter stands, backwards round the period.              *)

\* Where the counter was n + 1 cycles ago.
Back(c, n) == IF n < c THEN c - 1 - n ELSE c - 1 - n + period

Lasts(sequence, n) == sequence[Len(sequence) - n]

\* The newest output, and all but the oldest one.
PwmInv ==
    /\ period \in Nat /\ pulse \in Nat /\ counter \in Nat /\ outs \in Seq(BOOLEAN)
    /\ outs # <<>> /\ period > 0 => counter < period
    /\ \A n \in 0 .. Len(outs) - 2 :
          n < period => (Lasts(outs, n) <=> Back(counter, n) < Pwm!width)

\* The window keeps its newest outputs.
LEMMA KeepsLast ==
    ASSUME NEW s \in Seq(BOOLEAN)
    PROVE  /\ Pwm!Keep(s) \in Seq(BOOLEAN) /\ Len(Pwm!Keep(s)) <= Len(s)
           /\ \A n \in 0 .. Len(Pwm!Keep(s)) - 1 : Lasts(Pwm!Keep(s), n) = Lasts(s, n)
<1>1. CASE Len(s) <= MaxPeriod
  BY <1>1 DEF Pwm!Keep
<1>2. CASE ~(Len(s) <= MaxPeriod)
  <2>1. s # <<>> /\ Pwm!Keep(s) = Tail(s)
    BY <1>2, PwmAssumption DEF Pwm!Keep
  <2>2. Tail(s) \in Seq(BOOLEAN) /\ Len(Tail(s)) = Len(s) - 1
    BY <2>1
  <2>3. \A i \in 1 .. Len(s) - 1 : Tail(s)[i] = s[i + 1]
    BY <2>1
  <2> QED BY <2>1, <2>2, <2>3 DEF Lasts
<1> QED BY <1>1, <1>2

\* A cycle of the counter is a step back seen from where it goes.
LEMMA BackOneMore ==
    ASSUME PwmInv, period > 0, Pwm!Run, outs # <<>>, NEW n \in Nat, n < period
    PROVE  /\ n = 0 => Back(counter', n) = counter
           /\ n > 0 => Back(counter', n) = Back(counter, n - 1)
<1>1. PICK c \in Nat, p \in Nat : c = counter /\ p = period /\ p > 0 /\ c < p
  BY DEF PwmInv
<1>2. PICK d \in Nat : d = counter' /\ d = IF c < p - 1 THEN c + 1 ELSE 0
  BY <1>1 DEF Pwm!Run, Pwm!Count, Pwm!enabled
<1> QED BY <1>1, <1>2 DEF Back

\* A cycle of the clock, wherever the counter stands.
LEMMA RunPwm == ASSUME PwmInv, Pwm!Run PROVE PwmInv'
<1>1. /\ period \in Nat /\ pulse \in Nat /\ counter \in Nat /\ outs \in Seq(BOOLEAN)
      /\ period' = period /\ pulse' = pulse /\ Pwm!width' = Pwm!width
  BY DEF PwmInv, Pwm!Run, Pwm!width
<1>2. /\ counter' \in Nat
      /\ period > 0 => counter' < period
  BY <1>1 DEF Pwm!Run, Pwm!Count, Pwm!enabled
<1>3. PICK kept \in Seq(BOOLEAN) :
         /\ kept = Pwm!Keep(outs) /\ Len(kept) <= Len(outs)
         /\ \A n \in 0 .. Len(kept) - 1 : Lasts(kept, n) = Lasts(outs, n)
  BY <1>1, KeepsLast
<1>4. Pwm!pwm_o \in BOOLEAN /\ outs' = Append(kept, Pwm!pwm_o)
  BY <1>3 DEF Pwm!Run, Pwm!pwm_o, Pwm!enabled
<1>5. /\ outs' \in Seq(BOOLEAN) /\ Len(outs') = Len(kept) + 1
      /\ outs'[Len(kept) + 1] = Pwm!pwm_o
      /\ \A i \in 1 .. Len(kept) : outs'[i] = kept[i]
  BY <1>4
<1>6. ASSUME NEW n \in 0 .. Len(outs') - 2, n < period
      PROVE  Lasts(outs', n) <=> Back(counter', n) < Pwm!width
  <2>1. Len(kept) \in Nat /\ Len(kept) >= 1 /\ outs # <<>> /\ period > 0 /\ n \in Nat
    BY <1>1, <1>3, <1>5, <1>6
  <2>2. CASE n = 0
    <3>1. Lasts(outs', n) = Pwm!pwm_o
      BY <1>5, <2>1, <2>2 DEF Lasts
    <3>2. Back(counter', n) = counter
      BY <2>1, <2>2, <1>6, BackOneMore
    <3>3. Pwm!pwm_o <=> counter < Pwm!width
      BY <1>1, <2>1 DEF Pwm!pwm_o, Pwm!enabled
    <3> QED BY <3>1, <3>2, <3>3, Zenon
  <2>3. CASE n > 0
    <3>1. PICK m \in Nat : m = n - 1
      BY <2>1, <2>3
    <3>2. Lasts(outs', n) = Lasts(kept, m)
      BY <1>5, <2>1, <2>3, <3>1, <1>6 DEF Lasts
    <3>3. m \in 0 .. Len(kept) - 1 /\ m \in 0 .. Len(outs) - 2 /\ m < period
      BY <1>1, <1>3, <1>5, <1>6, <2>1, <3>1
    <3>4. Lasts(outs, m) <=> Back(counter, m) < Pwm!width
      BY <3>3 DEF PwmInv
    <3>5. Back(counter', n) = Back(counter, m)
      BY <2>1, <2>3, <1>6, <3>1, BackOneMore
    <3> QED BY <1>3, <3>2, <3>3, <3>4, <3>5
  <2> QED BY <2>1, <2>2, <2>3
<1> QED BY <1>1, <1>2, <1>5, <1>6 DEF PwmInv, Back

\* Writing a register starts the outputs again, whatever the counter is at.
LEMMA WritePwm == ASSUME PwmInv, Pwm!Write PROVE PwmInv'
<1>1. period' \in Nat /\ pulse' \in Nat /\ counter' \in Nat
  BY PwmAssumption DEF PwmInv, Pwm!Write, Pwm!Register, Pwm!Count
<1>2. outs' = <<>> /\ Len(outs') = 0 /\ outs' \in Seq(BOOLEAN)
  BY DEF Pwm!Write
<1> QED BY <1>1, <1>2 DEF PwmInv

\* One period holds each value of the counter once, so the outputs in it are as
\* many as the values below the width.
LEMMA PeriodHoldsPulse ==
    ASSUME PwmInv, Pwm!enabled, Len(outs) > period
    PROVE  Cardinality(Pwm!LastOuts(period)) = Pwm!width
<1>1. PICK p \in Nat, c \in Nat, n \in Nat, w \in Nat :
         /\ p = period /\ c = counter /\ n = Len(outs) /\ w = Pwm!width
         /\ p > 0 /\ c < p /\ n > p /\ w <= p
  <2>1. period \in Nat /\ period > 0 /\ pulse \in Nat /\ counter \in Nat /\ Len(outs) \in Nat
    BY DEF PwmInv, Pwm!enabled
  <2>2. outs # <<>> /\ counter < period
    BY <2>1 DEF PwmInv
  <2>3. Pwm!width \in Nat /\ Pwm!width <= period
    BY <2>1 DEF Pwm!width
  <2> QED BY <2>1, <2>2, <2>3
<1>2. \A j \in 0 .. p - 1 : outs[n - j] <=> Back(c, j) < w
  BY <1>1 DEF PwmInv, Lasts
<1>3. \A j \in 0 .. p - 1 : Back(c, j) = IF j < c THEN c - 1 - j ELSE c - 1 - j + p
  BY <1>1 DEF Back
<1> DEFINE S == Pwm!LastOuts(period)
           f == [v \in 1 .. w |-> IF v <= c THEN n - (c - v) ELSE n - (c + p - v)]
<1> HIDE DEF S, f
<1>4. S = {i \in n - p + 1 .. n : outs[i]}
  BY <1>1 DEF Pwm!LastOuts, S
<1>5. f \in [1 .. w -> S]
  <2> SUFFICES ASSUME NEW v \in 1 .. w PROVE f[v] \in S
    BY DEF f
  <2>1. PICK j \in 0 .. p - 1 : j = IF v <= c THEN c - v ELSE c + p - v
    <3>1. (IF v <= c THEN c - v ELSE c + p - v) \in 0 .. p - 1
      BY <1>1
    <3> QED BY <3>1
  <2>2. f[v] = n - j
    BY <1>1, <2>1 DEF f
  <2>3. Back(c, j) = v - 1 /\ v - 1 < w
    BY <1>1, <1>3, <2>1
  <2>4. outs[n - j]
    BY <1>2, <2>3
  <2>5. n - j \in n - p + 1 .. n
    BY <1>1, <2>1
  <2> QED BY <1>4, <2>2, <2>4, <2>5
<1>6. \A u \in 1 .. w, v \in 1 .. w : f[u] = f[v] => u = v
  BY <1>1 DEF f
<1>7. ASSUME NEW i \in S PROVE \E v \in 1 .. w : f[v] = i
  <2>1. i \in n - p + 1 .. n /\ outs[i]
    BY <1>4
  <2>2. PICK j \in 0 .. p - 1 : j = n - i /\ i = n - j
    BY <1>1, <2>1
  <2>3. PICK v \in Int : v = Back(c, j) + 1 /\ v = IF j < c THEN c - j ELSE c - j + p
    <3>1. Back(c, j) = IF j < c THEN c - 1 - j ELSE c - 1 - j + p
      BY <1>3
    <3>2. Back(c, j) \in Int /\ Back(c, j) + 1 = IF j < c THEN c - j ELSE c - j + p
      BY <1>1, <3>1
    <3> QED BY <3>2
  <2>4. v \in 1 .. w
    <3>1. Back(c, j) < w
      BY <1>2, <2>1, <2>2
    <3>2. v - 1 < w
      BY <1>1, <1>3, <2>2, <2>3, <3>1
    <3> QED BY <1>1, <2>2, <2>3, <3>2
  <2>5. f[v] = i
    BY <1>1, <2>2, <2>3, <2>4 DEF f
  <2> QED BY <2>4, <2>5
<1>8. ExistsBijection(1 .. w, S)
  <2>1. f \in Bijection(1 .. w, S)
    BY <1>5, <1>6, <1>7, Zenon DEF Bijection, Injection, Surjection, IsInjective
  <2> QED BY <2>1, Zenon DEF ExistsBijection
<1>9. Cardinality(S) = w
  BY <1>8, FS_CountingElements
<1> QED BY <1>1, <1>9 DEF S

\* Reset, and every step of the PWM and of the others.
LEMMA PwmStep ==
    /\ Init => PwmInv
    /\ PwmInv /\ [Next]_vars => PwmInv'
<1>1. Init => PwmInv
  <2> SUFFICES ASSUME Init PROVE PwmInv
    OBVIOUS
  <2>1. period = 0 /\ pulse = 0 /\ counter = 0 /\ outs = <<>>
    BY DEF Init, Pwm!Init
  <2>2. Len(outs) = 0 /\ outs \in Seq(BOOLEAN)
    BY <2>1
  <2> QED BY <2>1, <2>2 DEF PwmInv
<1>2. PwmInv /\ UNCHANGED pwmVars => PwmInv'
  BY DEF pwmVars, PwmInv, Lasts, Back, Pwm!width
<1> QED BY <1>1, <1>2, RunPwm, WritePwm
        DEF Next, vars, ImageMoves, LoopMoves, QuadMoves, PwmMoves, DriveMoves,
            TimerMoves, Pwm!Next

\* prgm_pwm.sv gives every period the pulse that was programmed, for every period
\* and width, from the second cycle on after a write at any edge.
THEOREM PulseIsProgrammed == Spec => []PulseIsAsProgrammed
<1>1. PwmInv => PulseIsAsProgrammed
  <2> SUFFICES ASSUME PwmInv PROVE Pwm!PulseIsAsProgrammed
    BY DEF PulseIsAsProgrammed
  <2>1. Pwm!enabled /\ Len(outs) > period => Cardinality(Pwm!LastOuts(period)) = Pwm!width
    BY PeriodHoldsPulse
  <2>2. \A S : Pwm!Cardinality(S) = Cardinality(S)
    BY DEF Pwm!Cardinality, Cardinality
  <2> QED BY <2>1, <2>2, Zenon DEF Pwm!PulseIsAsProgrammed
<1> QED BY <1>1, PwmStep, PTL DEF Spec

-----------------------------------------------------------------------------
(* CommandLoop.  As long as nothing was lost, the bytes that the loop has  *)
(* collected, those in the FIFO and those on the line are the commands     *)
(* sent and not yet executed, one after the other.  `places` are the ends  *)
(* of these commands in that stream.                                       *)

Framed(commands, stream) ==
    \E places \in [0 .. Len(commands) -> Nat] :
        /\ places[0] = 0 /\ places[Len(commands)] = Len(stream)
        /\ \A i \in 0 .. Len(commands), j \in 0 .. Len(commands) : i <= j => places[i] <= places[j]
        /\ \A i \in 1 .. Len(commands) :
              /\ places[i] = places[i - 1] + Len(commands[i])
              /\ \A j \in 1 .. Len(commands[i]) : stream[places[i - 1] + j] = commands[i][j]

Stream == command \o (rx \o wire)

\* The loop knows by its bytes when the command at hand is whole.
WholeWhenFinished ==
    IF unread = <<>> THEN command = <<>> /\ ~finished
    ELSE /\ Len(command) <= Len(unread[1])
         /\ finished <=> Len(command) = Len(unread[1])

LoopInv ==
    /\ wire \in Seq(Nat) /\ rx \in Seq(Nat) /\ command \in Seq(Nat)
    /\ unread \in Seq(Command) /\ lost \in BOOLEAN /\ finished \in BOOLEAN
    /\ pc \in {"receive", "answer"} => ~finished
    /\ ~lost => Framed(unread, Stream) /\ WholeWhenFinished

\* Commands are sequences of bytes, none of them empty.
LEMMA CommandBytes ==
    ASSUME NEW c \in Command
    PROVE  c \in Seq(Nat) /\ Len(c) \in Nat /\ Len(c) >= 1
<1>1. CASE \E b \in {0, 1, 4} : c = <<b>>
  <2>1. PICK b \in {0, 1, 4} : c = <<b>>
    BY <1>1
  <2>2. b \in Nat
    OBVIOUS
  <2> QED BY <2>1, <2>2
<1>2. CASE c \in Seq(Nat) /\ Len(c) = CommandLength
  BY <1>2, CommandAssumption
<1> QED BY <1>1, <1>2, CommandAssumption

\* Streams of bytes, put together from either end.
LEMMA StreamAssociative ==
    ASSUME NEW s \in Seq(Nat), NEW t \in Seq(Nat), NEW u \in Seq(Nat)
    PROVE  (s \o t) \o u = s \o (t \o u)
  BY ConcatAssociative, SMTT(30)

\* A byte that goes from the front of one queue to the end of the one before
\* keeps its place in the stream.
LEMMA MoveOne ==
    ASSUME NEW s \in Seq(Nat), NEW t \in Seq(Nat), t # <<>>
    PROVE  /\ Append(s, Head(t)) \in Seq(Nat) /\ Tail(t) \in Seq(Nat)
           /\ Append(s, Head(t)) \o Tail(t) = s \o t
<1>1. /\ Head(t) \in Nat /\ Tail(t) \in Seq(Nat) /\ Len(Tail(t)) = Len(t) - 1
      /\ Head(t) = t[1] /\ \A i \in 1 .. Len(t) - 1 : Tail(t)[i] = t[i + 1]
  OBVIOUS
<1>2. PICK h \in Nat, r \in Seq(Nat) : h = Head(t) /\ r = Tail(t)
  BY <1>1
<1>3. /\ Append(s, h) \in Seq(Nat) /\ Len(Append(s, h)) = Len(s) + 1
      /\ Append(s, h)[Len(s) + 1] = h /\ \A i \in 1 .. Len(s) : Append(s, h)[i] = s[i]
  OBVIOUS
<1>4. PICK a \in Seq(Nat) : a = Append(s, h)
  BY <1>3
<1>5. a \o r \in Seq(Nat) /\ s \o t \in Seq(Nat) /\ Len(a \o r) = Len(s \o t)
  BY <1>1, <1>2, <1>3, <1>4
<1>6. ASSUME NEW i \in 1 .. Len(s \o t) PROVE (a \o r)[i] = (s \o t)[i]
  BY <1>1, <1>2, <1>3, <1>4, <1>5, <1>6
<1>7. a \o r = s \o t
  BY <1>5, <1>6, SeqEqual
<1> QED BY <1>1, <1>2, <1>3, <1>4, <1>7

\* A command sent comes after the others.
LEMMA SendFramed ==
    ASSUME NEW q, q \in Seq(Command), NEW s \in Seq(Nat), NEW c \in Command, Framed(q, s)
    PROVE  Framed(Append(q, c), s \o c)
<1>1. PICK n \in Nat, m \in Nat, l \in Nat : n = Len(q) /\ m = Len(s) /\ l = Len(c)
  BY CommandBytes
<1>2. c \in Seq(Nat)
  BY CommandBytes
<1>3. PICK f \in [0 .. n -> Nat] :
         /\ f[0] = 0 /\ f[n] = m
         /\ \A i \in 0 .. n, j \in 0 .. n : i <= j => f[i] <= f[j]
         /\ \A i \in 1 .. n :
               /\ f[i] = f[i - 1] + Len(q[i])
               /\ \A j \in 1 .. Len(q[i]) : s[f[i - 1] + j] = q[i][j]
  BY <1>1 DEF Framed
<1>4. PICK r \in Seq(Command) :
         r = Append(q, c) /\ Len(r) = n + 1 /\ r[n + 1] = c /\ \A i \in 1 .. n : r[i] = q[i]
  <2>1. /\ Append(q, c) \in Seq(Command) /\ Len(Append(q, c)) = Len(q) + 1
        /\ \A i \in 1 .. Len(q) : Append(q, c)[i] = q[i]
        /\ Append(q, c)[Len(q) + 1] = c
    BY AppendProperties
  <2> QED BY <1>1, <2>1, Zenon
<1>5. PICK t \in Seq(Nat) : /\ t = s \o c /\ Len(t) = m + l
                            /\ \A i \in 1 .. m : t[i] = s[i]
                            /\ \A i \in 1 .. l : t[m + i] = c[i]
  <2>1. /\ s \o c \in Seq(Nat) /\ Len(s \o c) = Len(s) + Len(c)
        /\ \A i \in 1 .. Len(s) + Len(c) :
              (s \o c)[i] = IF i <= Len(s) THEN s[i] ELSE c[i - Len(s)]
    BY <1>2, ConcatProperties
  <2> PICK t \in Seq(Nat) : t = s \o c
    BY <2>1
  <2>2. Len(t) = m + l /\ \A i \in 1 .. m + l : t[i] = IF i <= m THEN s[i] ELSE c[i - m]
    BY <1>1, <2>1
  <2>3. \A i \in 1 .. m : t[i] = s[i]
    BY <2>2
  <2>4. \A i \in 1 .. l : t[m + i] = c[i]
    BY <2>2
  <2> QED BY <2>2, <2>3, <2>4
<1>6. PICK g \in [0 .. n + 1 -> Nat] :
         g[n + 1] = m + l /\ \A i \in 0 .. n : g[i] = f[i]
  <2> DEFINE h == [i \in 0 .. n + 1 |-> IF i = n + 1 THEN m + l ELSE f[i]]
  <2>1. h \in [0 .. n + 1 -> Nat]
    BY <1>1, <1>3
  <2>2. h[n + 1] = m + l /\ \A i \in 0 .. n : h[i] = f[i]
    BY <1>1
  <2> QED BY <2>1, <2>2
<1>7. g[0] = 0 /\ g[n + 1] = Len(t)
  BY <1>1, <1>3, <1>5, <1>6
<1>8. \A i \in 0 .. n + 1, j \in 0 .. n + 1 : i <= j => g[i] <= g[j]
  <2> SUFFICES ASSUME NEW i \in 0 .. n + 1, NEW j \in 0 .. n + 1, i <= j PROVE g[i] <= g[j]
    OBVIOUS
  <2>1. \A k \in 0 .. n : f[k] <= m /\ f[k] \in Nat
    <3> TAKE k \in 0 .. n
    <3>1. n \in 0 .. n /\ k <= n
      BY <1>1
    <3> QED BY <1>3, <3>1
  <2>2. CASE j = n + 1
    <3>1. i \in 0 .. n => g[i] <= m
      BY <1>6, <2>1
    <3>2. i \in 0 .. n \/ i = n + 1
      OBVIOUS
    <3> QED BY <1>6, <2>2, <3>1, <3>2
  <2>3. CASE j # n + 1
    <3>1. i \in 0 .. n /\ j \in 0 .. n
      BY <2>3
    <3> QED BY <1>3, <1>6, <3>1
  <2> QED BY <2>2, <2>3
<1>9. ASSUME NEW i \in 1 .. n + 1
      PROVE  /\ g[i] = g[i - 1] + Len(r[i])
             /\ \A j \in 1 .. Len(r[i]) : t[g[i - 1] + j] = r[i][j]
  <2>1. CASE i = n + 1
    <3>1. i - 1 = n /\ n \in 0 .. n
      BY <1>1, <2>1
    <3>2. g[i - 1] = m /\ r[i] = c /\ g[i] = m + l
      BY <1>3, <1>4, <1>6, <2>1, <3>1
    <3> QED BY <1>1, <1>5, <3>2
  <2>2. CASE i # n + 1
    <3>1. i \in 1 .. n /\ i - 1 \in 0 .. n /\ r[i] = q[i]
      BY <1>1, <1>4, <1>9, <2>2
    <3>2. g[i] = f[i] /\ g[i - 1] = f[i - 1] /\ f[i] = f[i - 1] + Len(q[i])
      BY <1>3, <1>6, <3>1
    <3>3. f[i] <= m /\ f[i] \in Nat /\ f[i - 1] \in Nat
      BY <1>1, <1>3, <3>1
    <3>4. q[i] \in Command /\ Len(q[i]) \in Nat
      BY <1>1, <3>1, CommandBytes
    <3>5. ASSUME NEW j \in 1 .. Len(q[i]) PROVE t[f[i - 1] + j] = q[i][j]
      <4>1. f[i - 1] + j \in 1 .. m
        <5>1. PICK a \in Nat, b \in Nat, k \in Nat : a = f[i - 1] /\ b = f[i] /\ k = Len(q[i])
          BY <3>3, <3>4
        <5>2. b = a + k /\ b <= m /\ j \in 1 .. k
          BY <3>2, <3>3, <5>1
        <5>3. a + j \in 1 .. m
          BY <5>2
        <5> QED BY <5>1, <5>3
      <4> QED BY <1>3, <1>5, <3>1, <4>1
    <3> QED BY <3>1, <3>2, <3>5
  <2> QED BY <2>1, <2>2
<1>10. Framed(r, t)
  <2>1. Len(r) = n + 1
    BY <1>4
  <2>2. /\ g \in [0 .. Len(r) -> Nat] /\ g[0] = 0 /\ g[Len(r)] = Len(t)
        /\ \A i \in 0 .. Len(r), j \in 0 .. Len(r) : i <= j => g[i] <= g[j]
        /\ \A i \in 1 .. Len(r) :
              /\ g[i] = g[i - 1] + Len(r[i])
              /\ \A j \in 1 .. Len(r[i]) : t[g[i - 1] + j] = r[i][j]
    BY <1>7, <1>8, <1>9, <2>1, Zenon
  <2> QED BY <2>2, Zenon DEF Framed
<1> QED BY <1>4, <1>5, <1>10

\* Where no command is left no byte is.
LEMMA NoneFramed ==
    ASSUME NEW s \in Seq(Nat)
    PROVE  Framed(<<>>, s) <=> s = <<>>
<1>1. Len(<<>>) = 0 /\ Len(s) \in Nat /\ (Len(s) = 0 <=> s = <<>>)
  OBVIOUS
<1>2. CASE s = <<>>
  <2> DEFINE f == [i \in 0 .. 0 |-> 0]
  <2>1. f \in [0 .. 0 -> Nat] /\ f[0] = 0
    OBVIOUS
  <2>2. /\ f \in [0 .. Len(<<>>) -> Nat] /\ f[Len(<<>>)] = Len(<<>>)
        /\ \A i \in 0 .. Len(<<>>), j \in 0 .. Len(<<>>) : i <= j => f[i] <= f[j]
        /\ \A i \in 1 .. Len(<<>>) : FALSE
    <3>1. 0 .. 0 = {0} /\ 1 .. 0 = {}
      OBVIOUS
    <3> QED BY <1>1, <2>1, <3>1
  <2> HIDE DEF f
  <2>3. Framed(<<>>, <<>>)
    BY <2>1, <2>2, Zenon DEF Framed
  <2> QED BY <1>2, <2>3
<1>3. Framed(<<>>, s) => Len(s) = 0
  BY <1>1 DEF Framed
<1> QED BY <1>1, <1>2, <1>3

\* The stream begins with the first command.
LEMMA FirstFramed ==
    ASSUME NEW q, q \in Seq(Command), q # <<>>, NEW s \in Seq(Nat), Framed(q, s)
    PROVE  /\ q[1] \in Command /\ Len(q[1]) <= Len(s)
           /\ \A j \in 1 .. Len(q[1]) : s[j] = q[1][j]
<1>1. Len(q) \in Nat /\ Len(q) >= 1 /\ q[1] \in Command
  OBVIOUS
<1>2. Len(q[1]) \in Nat
  BY <1>1, CommandBytes
<1>3. PICK f \in [0 .. Len(q) -> Nat] :
         /\ f[0] = 0 /\ f[Len(q)] = Len(s)
         /\ \A i \in 0 .. Len(q), j \in 0 .. Len(q) : i <= j => f[i] <= f[j]
         /\ \A i \in 1 .. Len(q) :
               /\ f[i] = f[i - 1] + Len(q[i])
               /\ \A j \in 1 .. Len(q[i]) : s[f[i - 1] + j] = q[i][j]
  BY DEF Framed
<1>4. 1 \in 0 .. Len(q) /\ Len(q) \in 0 .. Len(q) /\ 1 \in 1 .. Len(q) /\ 1 - 1 = 0
  BY <1>1
<1>5. /\ f[1] = 0 + Len(q[1]) /\ f[1] <= Len(s)
      /\ \A j \in 1 .. Len(q[1]) : s[0 + j] = q[1][j]
  <2>1. f[1] <= f[Len(q)]
    BY <1>1, <1>3, <1>4, Zenon
  <2>2. f[1] = f[1 - 1] + Len(q[1]) /\ \A j \in 1 .. Len(q[1]) : s[f[1 - 1] + j] = q[1][j]
    BY <1>3, <1>4
  <2> QED BY <1>3, <1>4, <2>1, <2>2, Zenon
<1> QED BY <1>1, <1>2, <1>5

\* The rest of a number.
LEMMA RestOf ==
    ASSUME NEW x \in Nat, NEW y \in Nat, y <= x
    PROVE  \E z \in Nat : z = x - y /\ x = y + z
  OBVIOUS

\* What comes after the first command begins with the next one.
LEMMA TailFramed ==
    ASSUME NEW q, q \in Seq(Command), q # <<>>, NEW t \in Seq(Nat), Framed(q, q[1] \o t)
    PROVE  Framed(Tail(q), t)
<1>1. q[1] \in Command /\ Len(q) \in Nat /\ Len(q) >= 1
  OBVIOUS
<1>2. q[1] \in Seq(Nat) /\ Len(q[1]) \in Nat
  BY <1>1, CommandBytes
<1>3. PICK n \in Nat, m \in Nat, l \in Nat :
         n = Len(q) - 1 /\ Len(q) = n + 1 /\ m = Len(t) /\ l = Len(q[1])
  BY <1>1, <1>2
<1>4. PICK s \in Seq(Nat) : /\ s = q[1] \o t /\ Len(s) = l + m
                            /\ \A i \in 1 .. m : s[l + i] = t[i]
  <2>1. /\ q[1] \o t \in Seq(Nat) /\ Len(q[1] \o t) = Len(q[1]) + Len(t)
        /\ \A i \in 1 .. Len(q[1]) + Len(t) :
              (q[1] \o t)[i] = IF i <= Len(q[1]) THEN q[1][i] ELSE t[i - Len(q[1])]
    BY <1>2, ConcatProperties
  <2> PICK s \in Seq(Nat) : s = q[1] \o t
    BY <2>1
  <2>2. Len(s) = l + m
        /\ \A i \in 1 .. l + m : s[i] = IF i <= l THEN q[1][i] ELSE t[i - l]
    BY <1>3, <2>1
  <2>3. \A i \in 1 .. m : s[l + i] = t[i]
    <3> TAKE i \in 1 .. m
    <3>1. l + i \in 1 .. l + m /\ ~(l + i <= l) /\ (l + i) - l = i
      OBVIOUS
    <3> QED BY <2>2, <3>1
  <2> QED BY <2>2, <2>3
<1>5. PICK f \in [0 .. n + 1 -> Nat] :
         /\ f[0] = 0 /\ f[n + 1] = l + m
         /\ \A i \in 0 .. n + 1, j \in 0 .. n + 1 : i <= j => f[i] <= f[j]
         /\ \A i \in 1 .. n + 1 :
               /\ f[i] = f[i - 1] + Len(q[i])
               /\ \A j \in 1 .. Len(q[i]) : s[f[i - 1] + j] = q[i][j]
  <2>1. Framed(q, s)
    BY <1>4
  <2>2. Len(q) = n + 1 /\ Len(s) = l + m
    BY <1>3, <1>4
  <2>3. \E f \in [0 .. Len(q) -> Nat] :
         /\ f[0] = 0 /\ f[Len(q)] = Len(s)
         /\ \A i \in 0 .. Len(q), j \in 0 .. Len(q) : i <= j => f[i] <= f[j]
         /\ \A i \in 1 .. Len(q) :
               /\ f[i] = f[i - 1] + Len(q[i])
               /\ \A j \in 1 .. Len(q[i]) : s[f[i - 1] + j] = q[i][j]
    BY <2>1, Zenon DEF Framed
  <2>4. PICK f \in [0 .. Len(q) -> Nat] :
         /\ f[0] = 0 /\ f[Len(q)] = Len(s)
         /\ \A i \in 0 .. Len(q), j \in 0 .. Len(q) : i <= j => f[i] <= f[j]
         /\ \A i \in 1 .. Len(q) :
               /\ f[i] = f[i - 1] + Len(q[i])
               /\ \A j \in 1 .. Len(q[i]) : s[f[i - 1] + j] = q[i][j]
    BY <2>3
  <2>5. f \in [0 .. n + 1 -> Nat] /\ f[0] = 0 /\ f[n + 1] = l + m
    BY <2>2, <2>4
  <2>6. \A i \in 0 .. n + 1, j \in 0 .. n + 1 : i <= j => f[i] <= f[j]
    BY <2>2, <2>4
  <2>7. \A i \in 1 .. n + 1 :
           /\ f[i] = f[i - 1] + Len(q[i])
           /\ \A j \in 1 .. Len(q[i]) : s[f[i - 1] + j] = q[i][j]
    BY <2>2, <2>4, Zenon
  <2> QED BY <2>5, <2>6, <2>7, Zenon
<1>6. PICK r : r = Tail(q) /\ Len(r) = n /\ \A i \in 1 .. n : r[i] = q[i + 1]
  <2>1. Len(Tail(q)) = Len(q) - 1 /\ \A i \in 1 .. Len(Tail(q)) : Tail(q)[i] = q[i + 1]
    BY HeadTailProperties
  <2> QED BY <1>3, <2>1
<1>7. f[1] = l
  <2>1. 1 \in 1 .. n + 1 /\ 1 - 1 = 0
    OBVIOUS
  <2>2. f[1] = f[0] + Len(q[1])
    BY <1>5, <2>1
  <2> QED BY <1>3, <1>5, <2>2
<1>8. \A i \in 0 .. n : f[i + 1] \in Nat /\ f[i + 1] >= l
  <2> TAKE i \in 0 .. n
  <2>1. 1 \in 0 .. n + 1 /\ i + 1 \in 0 .. n + 1 /\ 1 <= i + 1
    OBVIOUS
  <2> QED BY <1>5, <1>7, <2>1
<1>9. PICK g \in [0 .. n -> Nat] : \A i \in 0 .. n : g[i] = f[i + 1] - l
  <2> DEFINE h == [i \in 0 .. n |-> f[i + 1] - l]
  <2>1. h \in [0 .. n -> Nat]
    BY <1>8
  <2>2. \A i \in 0 .. n : h[i] = f[i + 1] - l
    OBVIOUS
  <2> QED BY <2>1, <2>2
<1>10. g[0] = 0 /\ g[n] = m
  <2>1. 0 \in 0 .. n /\ n \in 0 .. n /\ 0 + 1 = 1 /\ (l + m) - l = m
    OBVIOUS
  <2> QED BY <1>5, <1>7, <1>9, <2>1
<1>11. ASSUME NEW i \in 0 .. n, NEW j \in 0 .. n, i <= j PROVE g[i] <= g[j]
  <2>1. i + 1 \in 0 .. n + 1 /\ j + 1 \in 0 .. n + 1 /\ i + 1 <= j + 1
    BY <1>11
  <2>2. f[i + 1] <= f[j + 1]
    BY <1>5, <2>1
  <2>3. PICK a \in Nat, b \in Nat : a = f[i + 1] /\ b = f[j + 1]
    BY <1>8
  <2>4. g[i] = a - l /\ g[j] = b - l /\ a <= b
    BY <1>9, <2>2, <2>3
  <2> QED BY <2>4
<1>12. ASSUME NEW i \in 1 .. n
       PROVE  /\ g[i] = g[i - 1] + Len(r[i])
              /\ \A j \in 1 .. Len(r[i]) : t[g[i - 1] + j] = r[i][j]
  <2>1. /\ i + 1 \in 1 .. n + 1 /\ i \in 0 .. n /\ i - 1 \in 0 .. n
        /\ (i + 1) - 1 = i /\ (i - 1) + 1 = i
    OBVIOUS
  <2>2. r[i] = q[i + 1] /\ g[i] = f[i + 1] - l /\ g[i - 1] = f[i] - l
    BY <1>6, <1>9, <2>1
  <2>3. q[i + 1] \in Command
    BY <1>3, <2>1
  <2>4. Len(r[i]) \in Nat
    BY <2>2, <2>3, CommandBytes
  <2>5. /\ f[i + 1] = f[i] + Len(r[i])
        /\ \A j \in 1 .. Len(r[i]) : s[f[i] + j] = r[i][j]
    BY <1>5, <2>1, <2>2
  <2>6. PICK a \in Nat, b \in Nat, k \in Nat :
           a = f[i] - l /\ f[i] = l + a /\ b = f[i + 1] - l /\ k = Len(r[i])
    <3>1. f[i] \in Nat /\ f[i] >= l
      BY <1>8, <2>1
    <3>2. f[i + 1] \in Nat /\ f[i + 1] >= l
      BY <1>8, <2>1
    <3>3. PICK a \in Nat : a = f[i] - l /\ f[i] = l + a
      BY <3>1, RestOf
    <3>4. PICK b \in Nat : b = f[i + 1] - l
      BY <3>2, RestOf
    <3> QED BY <2>4, <3>3, <3>4
  <2>7. b = a + k /\ b <= m
    <3>1. n + 1 \in 0 .. n + 1 /\ i + 1 \in 0 .. n + 1 /\ i + 1 <= n + 1
      OBVIOUS
    <3>2. f[i + 1] <= l + m /\ f[i + 1] \in Nat
      BY <1>5, <3>1
    <3>3. PICK d \in Nat : d = f[i + 1]
      BY <3>2
    <3>4. d = (l + a) + k /\ d <= l + m /\ b = d - l
      BY <2>5, <2>6, <3>2, <3>3, Zenon
    <3> QED BY <3>4
  <2>8. ASSUME NEW j \in 1 .. k PROVE t[a + j] = r[i][j]
    <3>1. a + j \in 1 .. m /\ l + (a + j) = (l + a) + j
      BY <2>7
    <3>2. s[f[i] + j] = r[i][j]
      BY <2>5, <2>6
    <3> QED BY <1>4, <2>6, <3>1, <3>2
  <2> QED BY <2>2, <2>6, <2>7, <2>8
<1>13. /\ g \in [0 .. Len(r) -> Nat] /\ g[0] = 0 /\ g[Len(r)] = Len(t)
       /\ \A i \in 0 .. Len(r), j \in 0 .. Len(r) : i <= j => g[i] <= g[j]
       /\ \A i \in 1 .. Len(r) :
             /\ g[i] = g[i - 1] + Len(r[i])
             /\ \A j \in 1 .. Len(r[i]) : t[g[i - 1] + j] = r[i][j]
  <2>1. Len(r) = n /\ Len(t) = m
    BY <1>3, <1>6
  <2> QED BY <1>10, <1>11, <1>12, <2>1, Zenon
<1>14. Framed(r, t)
  BY <1>13, Zenon DEF Framed
<1> QED BY <1>6, <1>14

\* The bytes collected are the first ones of the command at hand.
LEMMA BeginningsAgree ==
    ASSUME NEW q, q \in Seq(Command), q # <<>>, NEW c \in Seq(Nat), NEW r \in Seq(Nat),
           Framed(q, c \o r), Len(c) <= Len(q[1])
    PROVE  \A j \in 1 .. Len(c) : c[j] = q[1][j]
<1>1. c \o r \in Seq(Nat) /\ \A j \in 1 .. Len(c) : (c \o r)[j] = c[j]
  <2>1. /\ c \o r \in Seq(Nat)
        /\ \A i \in 1 .. Len(c) + Len(r) :
              (c \o r)[i] = IF i <= Len(c) THEN c[i] ELSE r[i - Len(c)]
    BY ConcatProperties
  <2>2. \A j \in 1 .. Len(c) : j \in 1 .. Len(c) + Len(r) /\ j <= Len(c)
    OBVIOUS
  <2> QED BY <2>1, <2>2
<1>2. q[1] \in Command /\ \A j \in 1 .. Len(q[1]) : (c \o r)[j] = q[1][j]
  BY <1>1, FirstFramed
<1>3. \A j \in 1 .. Len(c) : j \in 1 .. Len(q[1])
  BY <1>2, CommandBytes
<1> QED BY <1>1, <1>2, <1>3

\* `Ends` takes the beginning of a command for a command when it is whole, and
\* not before.
LEMMA EndsWhenWhole ==
    ASSUME NEW h \in Command, NEW c \in Seq(Nat), Len(c) >= 1, Len(c) <= Len(h),
           \A j \in 1 .. Len(c) : c[j] = h[j]
    PROVE  Loop!Ends(c) <=> Len(c) = Len(h)
<1>1. c[1] = h[1]
  OBVIOUS
<1>2. CASE \E b \in {0, 1, 4} : h = <<b>>
  <2>1. PICK b \in {0, 1, 4} : h = <<b>>
    BY <1>2
  <2>2. Len(h) = 1 /\ h[1] = b
    BY <2>1
  <2>3. Len(c) = 1 /\ c[1] \in {0, 1, 4}
    <3>1. PICK n \in Nat : n = Len(c)
      OBVIOUS
    <3>2. n <= 1 /\ n >= 1
      BY <2>2, <3>1, Zenon
    <3> QED BY <1>1, <2>2, <3>1, <3>2
  <2> QED BY <2>2, <2>3, Zenon DEF Loop!Ends
<1>3. CASE h \in Seq(Nat) /\ Len(h) = CommandLength /\ h[1] \notin {0, 1, 4}
  BY <1>1, <1>3, CommandAssumption DEF Loop!Ends
<1> QED BY <1>2, <1>3, CommandAssumption

\* A finished command is the one sent next.
LEMMA FinishedIsNext ==
    ASSUME LoopInv, ~lost, finished
    PROVE  unread # <<>> /\ command = unread[1]
<1>1. /\ command \in Seq(Nat) /\ rx \o wire \in Seq(Nat) /\ unread \in Seq(Command)
      /\ Framed(unread, command \o (rx \o wire)) /\ WholeWhenFinished
  BY ConcatProperties DEF LoopInv, Stream
<1>2. unread # <<>> /\ Len(command) = Len(unread[1])
  BY <1>1 DEF WholeWhenFinished
<1>3. unread[1] \in Command
  BY <1>1, <1>2
<1>4. unread[1] \in Seq(Nat) /\ Len(unread[1]) \in Nat
  BY <1>3, CommandBytes
<1>5. \A j \in 1 .. Len(command) : command[j] = unread[1][j]
  <2>1. Len(command) <= Len(unread[1])
    BY <1>2, <1>4
  <2> QED BY <1>1, <1>2, <2>1, BeginningsAgree, Zenon
<1> QED BY <1>1, <1>2, <1>4, <1>5, SeqEqual

\* The host sends.
LEMMA SendLoop == ASSUME LoopInv, Loop!Send PROVE LoopInv'
<1>1. /\ rx \in Seq(Nat) /\ command \in Seq(Nat) /\ unread \in Seq(Command)
      /\ wire = <<>> /\ UNCHANGED <<rx, command, finished, pc, lost>>
  BY DEF LoopInv, Loop!Send, Loop!flags
<1>2. PICK c \in Command : wire' = c /\ unread' = Append(unread, c)
  BY DEF Loop!Send
<1>3. c \in Seq(Nat) /\ Len(c) \in Nat /\ Len(c) >= 1
  BY CommandBytes
<1>4. unread' \in Seq(Command)
  BY <1>1, <1>2, AppendProperties
<1>5. ASSUME ~lost PROVE Framed(unread, Stream)' /\ WholeWhenFinished'
  <2>1. Stream = command \o rx /\ command \o rx \in Seq(Nat)
    BY <1>1, ConcatEmptySeq, ConcatProperties DEF Stream
  <2>2. (command \o rx) \o c = command \o (rx \o c)
    BY <1>1, <1>3, StreamAssociative, Zenon
  <2>3. Framed(unread, command \o rx)
    BY <1>5, <2>1 DEF LoopInv
  <2>4. Framed(Append(unread, c), (command \o rx) \o c)
    BY <1>1, <2>1, <2>3, SendFramed
  <2>5. Stream' = (command \o rx) \o c
    BY <1>1, <1>2, <2>2 DEF Stream
  <2>6. WholeWhenFinished'
    <3>1. unread' # <<>> /\ unread'[1] = IF unread = <<>> THEN c ELSE unread[1]
      BY <1>1, <1>2
    <3>2. command = <<>> => Len(command) = 0
      OBVIOUS
    <3> QED BY <1>1, <1>3, <1>5, <3>1, <3>2 DEF LoopInv, WholeWhenFinished
  <2> QED BY <1>2, <2>4, <2>5, <2>6
<1> QED BY <1>1, <1>2, <1>3, <1>4, <1>5 DEF LoopInv

\* A byte arrives, or is lost.
LEMMA ArriveLoop == ASSUME LoopInv, Loop!Arrive PROVE LoopInv'
<1>1. /\ rx \in Seq(Nat) /\ wire \in Seq(Nat) /\ wire # <<>> /\ wire' = Tail(wire)
      /\ UNCHANGED <<unread, command, finished, pc>>
  BY DEF LoopInv, Loop!Arrive, Loop!flags
<1>2. \/ rx' = Append(rx, Head(wire)) /\ lost' = lost
      \/ rx' = rx /\ lost' = TRUE
  BY DEF Loop!Arrive
<1>3. /\ Append(rx, Head(wire)) \in Seq(Nat) /\ Tail(wire) \in Seq(Nat)
      /\ Append(rx, Head(wire)) \o Tail(wire) = rx \o wire
  BY <1>1, MoveOne
<1>4. rx' \in Seq(Nat) /\ wire' \in Seq(Nat) /\ lost' \in BOOLEAN
  BY <1>1, <1>2, <1>3 DEF LoopInv
<1>5. ~lost' => Stream' = Stream /\ ~lost
  BY <1>1, <1>2, <1>3 DEF Stream
<1>6. WholeWhenFinished' <=> WholeWhenFinished
  BY <1>1 DEF WholeWhenFinished
<1> QED BY <1>1, <1>4, <1>5, <1>6 DEF LoopInv

\* The loop takes a byte from the FIFO.
LEMMA ReceiveLoop == ASSUME LoopInv, Loop!Receive PROVE LoopInv'
<1>1. /\ rx \in Seq(Nat) /\ wire \in Seq(Nat) /\ command \in Seq(Nat) /\ unread \in Seq(Command)
      /\ UNCHANGED <<unread, wire, lost>> /\ pc' \notin {"receive", "answer"} /\ ~finished
  BY DEF LoopInv, Loop!Receive, Loop!hostVars
<1>2. CASE rx = <<>>
  <2>1. UNCHANGED <<rx, command, finished>>
    BY <1>2 DEF Loop!Receive
  <2> QED BY <1>1, <2>1 DEF LoopInv, Stream, WholeWhenFinished
<1>3. CASE rx # <<>>
  <2>1. /\ rx' = Tail(rx) /\ command' = Append(command, Head(rx))
        /\ finished' = Loop!Ends(command')
    BY <1>3 DEF Loop!Receive
  <2>2. /\ Append(command, Head(rx)) \in Seq(Nat) /\ Tail(rx) \in Seq(Nat)
        /\ Append(command, Head(rx)) \o Tail(rx) = command \o rx
    BY <1>1, <1>3, MoveOne
  <2>3. rx' \in Seq(Nat) /\ command' \in Seq(Nat) /\ finished' \in BOOLEAN
    BY <2>1, <2>2 DEF Loop!Ends
  <2>4. PICK c \in Seq(Nat), r \in Seq(Nat) : c = command' /\ r = rx'
    BY <2>3
  <2>5. c \o r = command \o rx
    BY <2>1, <2>2, <2>4
  <2>6. c \o (r \o wire) = command \o (rx \o wire) /\ r \o wire \in Seq(Nat)
    <3>1. c \o (r \o wire) = (c \o r) \o wire
      BY <1>1, StreamAssociative, Zenon
    <3>2. command \o (rx \o wire) = (command \o rx) \o wire
      BY <1>1, StreamAssociative, Zenon
    <3> QED BY <1>1, <2>5, <3>1, <3>2, ConcatProperties, Zenon
  <2>7. Stream' = Stream /\ Stream = c \o (r \o wire)
    BY <1>1, <2>4, <2>6 DEF Stream
  <2>8. ASSUME ~lost PROVE WholeWhenFinished'
    <3>1. Len(c) = Len(command) + 1 /\ Len(command) \in Nat
      BY <1>1, <1>3, <2>1, <2>4
    <3>2. unread # <<>>
      <4>1. Stream \in Seq(Nat) /\ Stream # <<>>
        <5>1. Len(Stream) = Len(c) + Len(r \o wire) /\ Stream \in Seq(Nat)
          BY <2>6, <2>7, ConcatProperties
        <5> QED BY <2>6, <3>1, <5>1
      <4>2. Framed(unread, Stream)
        BY <2>8 DEF LoopInv
      <4> QED BY <4>1, <4>2, NoneFramed
    <3>3. unread[1] \in Command
      BY <1>1, <3>2
    <3>4. Len(unread[1]) \in Nat
      BY <3>3, CommandBytes
    <3>5. Len(c) <= Len(unread[1])
      BY <1>1, <2>8, <3>1, <3>2, <3>4 DEF LoopInv, WholeWhenFinished
    <3>6. \A j \in 1 .. Len(c) : c[j] = unread[1][j]
      <4>1. Framed(unread, c \o (r \o wire))
        BY <2>7, <2>8 DEF LoopInv
      <4> QED BY <1>1, <2>6, <3>2, <3>5, <4>1, BeginningsAgree
    <3>7. Loop!Ends(c) <=> Len(c) = Len(unread[1])
      <4>1. Len(c) >= 1
        BY <3>1
      <4> QED BY <3>3, <3>5, <3>6, <4>1, EndsWhenWhole, Zenon
    <3>8. finished' <=> Loop!Ends(c)
      BY <2>1, <2>4
    <3> QED BY <1>1, <2>4, <3>2, <3>5, <3>7, <3>8, Zenon DEF WholeWhenFinished
  <2> QED BY <1>1, <2>3, <2>7, <2>8 DEF LoopInv
<1> QED BY <1>2, <1>3

\* The loop executes the command at hand.
LEMMA ExecuteLoop == ASSUME LoopInv, Loop!Execute PROVE LoopInv'
<1>1. /\ rx \in Seq(Nat) /\ wire \in Seq(Nat) /\ unread \in Seq(Command)
      /\ UNCHANGED <<rx, wire, lost>> /\ finished /\ lost \in BOOLEAN
      /\ command' = <<>> /\ finished' = FALSE
      /\ unread' = IF unread = <<>> THEN unread ELSE Tail(unread)
  BY DEF LoopInv, Loop!Execute
<1>2. unread' \in Seq(Command) /\ command' \in Seq(Nat)
  BY <1>1, HeadTailProperties
<1>3. rx \o wire \in Seq(Nat)
  BY <1>1, ConcatProperties
<1>4. ASSUME ~lost PROVE Framed(unread, Stream)' /\ WholeWhenFinished'
  <2>1. unread # <<>> /\ command = unread[1]
    BY <1>1, <1>4, FinishedIsNext
  <2>2. Framed(unread, unread[1] \o (rx \o wire))
    BY <1>4, <2>1 DEF LoopInv, Stream
  <2>3. Framed(Tail(unread), rx \o wire)
    BY <1>1, <1>3, <2>1, <2>2, TailFramed
  <2>4. Stream' = rx \o wire
    BY <1>1, <1>3, ConcatEmptySeq DEF Stream
  <2>5. unread' = Tail(unread)
    BY <1>1, <2>1
  <2>6. WholeWhenFinished'
    <3>1. unread' # <<>> => unread'[1] \in Command
      BY <1>2
    <3>2. Len(<<>>) = 0
      OBVIOUS
    <3>3. unread' # <<>> => Len(unread'[1]) \in Nat /\ Len(unread'[1]) >= 1
      BY <3>1, CommandBytes
    <3> QED BY <1>1, <3>2, <3>3 DEF WholeWhenFinished
  <2> QED BY <2>3, <2>4, <2>5, <2>6
<1> QED BY <1>1, <1>2, <1>4 DEF LoopInv

\* The rest of the loop and of the world leaves the bytes alone.
LEMMA LoopStep ==
    /\ Init => LoopInv
    /\ LoopInv /\ [Next]_vars => LoopInv'
<1>1. ASSUME Init PROVE LoopInv
  <2>1. /\ wire = <<>> /\ unread = <<>> /\ rx = <<>> /\ command = <<>>
        /\ lost = FALSE /\ finished = FALSE
    BY <1>1 DEF Init, Loop!Init
  <2>2. <<>> \in Seq(Nat) /\ <<>> \in Seq(Command)
    BY EmptySeq
  <2>3. Stream = <<>>
    BY <2>1, <2>2, ConcatEmptySeq DEF Stream
  <2>4. Framed(unread, Stream)
    BY <2>1, <2>2, <2>3, NoneFramed
  <2> QED BY <2>1, <2>2, <2>4 DEF LoopInv, WholeWhenFinished
<1>2. ASSUME LoopInv, UNCHANGED <<wire, rx, command, unread, finished, lost>>,
             pc' = pc \/ pc' \notin {"receive", "answer"} \/ ~finished
      PROVE  LoopInv'
  BY <1>2 DEF LoopInv, Stream, WholeWhenFinished
<1>3. ASSUME LoopInv, Loop!Next PROVE LoopInv'
  <2>1. CASE Loop!Drain \/ Loop!Tick \/ Loop!Settle
    BY <1>2, <1>3, <2>1 DEF Loop!Drain, Loop!Tick, Loop!Settle, Loop!hostVars, Loop!flags
  <2>2. CASE Loop!Write \/ Loop!Reported \/ Loop!SendStable
    BY <1>2, <1>3, <2>2 DEF Loop!Write, Loop!Reported, Loop!SendStable, Loop!hostVars, Loop!flags
  <2>3. CASE Loop!Idle \/ Loop!Answered
    BY <1>2, <1>3, <2>3 DEF Loop!Idle, Loop!Answered, Loop!hostVars, Loop!flags, LoopInv
  <2> QED BY <1>3, <2>1, <2>2, <2>3, SendLoop, ArriveLoop, ReceiveLoop, ExecuteLoop
          DEF Loop!Next, Loop!Main
<1>4. LoopInv /\ UNCHANGED loopVars => LoopInv'
  BY <1>2 DEF loopVars
<1> QED BY <1>1, <1>3, <1>4
        DEF Next, vars, ImageMoves, LoopMoves, QuadMoves, PwmMoves, DriveMoves,
            TimerMoves

\* main.c takes the bytes apart where the host put them together: without a lost
\* byte a finished command is the one sent next, for every set of commands told
\* apart by their first byte, every length of the long ones and every FIFO.
THEOREM CommandsAreFramed == Spec => []FramesAreCommands
<1>1. LoopInv => FramesAreCommands
  <2> SUFFICES ASSUME LoopInv, finished, ~lost PROVE unread # <<>> /\ command = Head(unread)
    BY Zenon DEF FramesAreCommands, Loop!FramesAreCommands
  <2>1. unread # <<>> /\ command = unread[1] /\ unread \in Seq(Command)
    BY FinishedIsNext DEF LoopInv
  <2> QED BY <2>1
<1> QED BY <1>1, LoopStep, PTL DEF Spec

-----------------------------------------------------------------------------
(* FirmwareImage.  ParseVmem is a fold: its function is there for every    *)
(* file, and gives what is known of the memory after every lexeme.         *)
(* Place counts addresses and words: it moves with every lexeme as what is *)
(* known does, and so the two agree at the end of the file.                *)

\* Counting up from zero one meets every number.
LEMMA CountUp ==
    ASSUME NEW T \in SUBSET Nat, 0 \in T, \A k \in T : k + 1 \in T
    PROVE  \A n \in Nat : n \in T
<1> DEFINE R == OpToRel(<, Nat)
           U == Nat \ T
<1>1. IsWellFoundedOn(R, Nat)
  BY NatLessThanWellFounded
<1>2. ASSUME U # {} PROVE FALSE
  <2>1. PICK x \in U : \A y \in U : <<y, x>> \notin R
    <3> HIDE DEF R
    <3>1. U \subseteq Nat
      OBVIOUS
    <3> QED BY <1>1, <1>2, <3>1, WFMin, Zenon
  <2>2. x # 0 /\ x \in Nat
    OBVIOUS
  <2>3. x - 1 \in Nat /\ x - 1 < x /\ (x - 1) + 1 = x
    BY <2>2
  <2>4. x - 1 \in T
    BY <2>1, <2>3 DEF OpToRel
  <2> QED BY <2>3, <2>4
<1> QED BY <1>2

\* Before the first lexeme.
Nothing == [content |-> <<>>, address |-> 0]

\* The function of the fold over the lexemes of a file.
Folds(file, D, h) ==
    h = [s \in SUBSET D |->
            IF s = {} THEN Nothing ELSE Image!Read(h[s \ {Image!Max(s)}], file[Image!Max(s)])]

\* The largest of some numbers up to the one that is among them.
LEMMA LargestIsLast ==
    ASSUME NEW k \in Nat, NEW s \in SUBSET (1 .. k), k \in s
    PROVE  Image!Max(s) = k
<1>1. \A y \in s : k >= y /\ y \in Int
  OBVIOUS
<1>2. Image!Max(s) \in s /\ \A y \in s : Image!Max(s) >= y
  BY <1>1 DEF Image!Max
<1>3. Image!Max(s) \in Int /\ k >= Image!Max(s) /\ Image!Max(s) >= k
  BY <1>1, <1>2, Zenon
<1> QED BY <1>3

\* The function of the fold is there for every beginning of the file.
LEMMA FoldThere ==
    ASSUME NEW file
    PROVE  \A k \in Nat : \E h : Folds(file, 1 .. k, h)
<1> DEFINE T == {k \in Nat : \E h : Folds(file, 1 .. k, h)}
<1>1. 0 \in T
  <2> DEFINE h == [s \in SUBSET (1 .. 0) |-> Nothing]
  <2>1. SUBSET (1 .. 0) = {{}} /\ 0 \in Nat
    OBVIOUS
  <2>2. Folds(file, 1 .. 0, h)
    BY <2>1 DEF Folds
  <2> QED BY <2>1, <2>2, Zenon
<1>2. ASSUME NEW k \in T PROVE k + 1 \in T
  <2>1. k \in Nat /\ k + 1 \in Nat
    OBVIOUS
  <2>2. PICK g : Folds(file, 1 .. k, g)
    BY <1>2
  <2> DEFINE h == [s \in SUBSET (1 .. k + 1) |->
                      IF k + 1 \in s THEN Image!Read(g[s \ {k + 1}], file[k + 1]) ELSE g[s]]
  <2>3. ASSUME NEW s \in SUBSET (1 .. k + 1)
        PROVE  h[s] = IF s = {} THEN Nothing
                      ELSE Image!Read(h[s \ {Image!Max(s)}], file[Image!Max(s)])
    <3>1. CASE k + 1 \in s
      <4>1. Image!Max(s) = k + 1
        BY <2>1, <3>1, LargestIsLast
      <4>2. s \ {k + 1} \in SUBSET (1 .. k + 1) /\ k + 1 \notin s \ {k + 1}
        BY <2>1
      <4>3. h[s] = Image!Read(g[s \ {k + 1}], file[k + 1]) /\ h[s \ {k + 1}] = g[s \ {k + 1}]
        BY <3>1, <4>2
      <4> QED BY <3>1, <4>1, <4>3
    <3>2. CASE k + 1 \notin s
      <4>1. s \in SUBSET (1 .. k) /\ s \ {Image!Max(s)} \in SUBSET (1 .. k + 1)
            /\ k + 1 \notin s \ {Image!Max(s)}
        <5>1. \A x \in s : x \in 1 .. k
          BY <2>1, <3>2
        <5> QED BY <3>2, <5>1, Zenon
      <4>2. h[s] = g[s] /\ h[s \ {Image!Max(s)}] = g[s \ {Image!Max(s)}]
        BY <3>2, <4>1
      <4>3. g[s] = IF s = {} THEN Nothing
                   ELSE Image!Read(g[s \ {Image!Max(s)}], file[Image!Max(s)])
        <5>1. g = [r \in SUBSET (1 .. k) |->
                      IF r = {} THEN Nothing
                      ELSE Image!Read(g[r \ {Image!Max(r)}], file[Image!Max(r)])]
          BY <2>2 DEF Folds
        <5> QED BY <4>1, <5>1
      <4> QED BY <4>1, <4>2, <4>3
    <3> QED BY <3>1, <3>2
  <2>4. h = [s \in SUBSET (1 .. k + 1) |-> h[s]]
    OBVIOUS
  <2> HIDE DEF h
  <2>5. Folds(file, 1 .. k + 1, h)
    BY <2>3, <2>4 DEF Folds
  <2> QED BY <2>1, <2>5
<1> HIDE DEF T
<1>3. T \in SUBSET Nat
  BY DEF T
<1>4. \A n \in Nat : n \in T
  BY <1>1, <1>2, <1>3, CountUp
<1> QED BY <1>4 DEF T

\* g[k] is what is known of the memory after k lexemes.
Reads(file, g) ==
    /\ g[0] = Nothing
    /\ \A k \in 1 .. Len(file) : g[k] = Image!Read(g[k - 1], file[k])

\* ParseVmem reads the lexemes one after the other.
LEMMA ParseSteps ==
    ASSUME NEW file \in Seq(Image!Lexeme)
    PROVE  \E g : Reads(file, g) /\ Image!ParseVmem(file) = g[Len(file)].content
<1> PICK n \in Nat : n = Len(file)
  OBVIOUS
<1> DEFINE h == CHOOSE iter : Folds(file, DOMAIN file, iter)
<1>1. DOMAIN file = 1 .. n
  OBVIOUS
<1>2. Folds(file, 1 .. n, h)
  <2>1. \E f : Folds(file, 1 .. n, f)
    BY FoldThere
  <2> QED BY <1>1, <2>1, Zenon
<1>3. Image!ParseVmem(file) = h[1 .. n].content
  BY <1>1 DEF Image!ParseVmem, Image!FoldLeft, Image!MapThenFoldSet, Folds, Nothing
<1> HIDE DEF h
<1>4. \A s \in SUBSET (1 .. n) :
         h[s] = IF s = {} THEN Nothing
                ELSE Image!Read(h[s \ {Image!Max(s)}], file[Image!Max(s)])
  <2>1. h = [s \in SUBSET (1 .. n) |->
                IF s = {} THEN Nothing
                ELSE Image!Read(h[s \ {Image!Max(s)}], file[Image!Max(s)])]
    BY <1>2, Zenon DEF Folds
  <2> QED BY <2>1
<1>5. h[1 .. 0] = Nothing
  <2>1. 1 .. 0 = {} /\ {} \in SUBSET (1 .. n)
    OBVIOUS
  <2> QED BY <1>4, <2>1
<1>6. \A k \in 1 .. n : h[1 .. k] = Image!Read(h[1 .. k - 1], file[k])
  <2> TAKE k \in 1 .. n
  <2>1. 1 .. k \in SUBSET (1 .. n) /\ k \in 1 .. k /\ (1 .. k) \ {k} = 1 .. k - 1 /\ 1 .. k # {}
    <3>1. k \in Nat /\ 1 <= k /\ k <= n
      OBVIOUS
    <3>2. \A x : x \in (1 .. k) \ {k} <=> x \in 1 .. k - 1
      BY <3>1
    <3>3. k \in 1 .. k /\ 1 .. k \in SUBSET (1 .. n)
      BY <3>1
    <3> QED BY <3>2, <3>3
  <2>2. Image!Max(1 .. k) = k
    BY <2>1, LargestIsLast
  <2> QED BY <1>4, <2>1, <2>2
<1> DEFINE g == [k \in 0 .. n |-> h[1 .. k]]
<1>7. g[0] = Nothing /\ Image!ParseVmem(file) = g[n].content
  BY <1>3, <1>5
<1>8. \A k \in 1 .. n : g[k] = Image!Read(g[k - 1], file[k])
  BY <1>6
<1> HIDE DEF g
<1> QED BY <1>7, <1>8 DEF Reads

\* Digits that fit into a word are one.
LEMMA OneChunk ==
    ASSUME NEW d \in Seq(0 .. 15), Len(d) \in 1 .. MaxDigits
    PROVE  Image!Chunks(d) = <<d>>
<1> PICK n \in Nat : n = Len(d)
  OBVIOUS
<1>1. MaxDigits \in Nat \ {0} /\ n \in 1 .. MaxDigits
  BY ImageAssumption
<1>2. (n + MaxDigits - 1) \div MaxDigits = 1
  BY <1>1
<1>3. SubSeq(d, MaxDigits * (1 - 1) + 1, IF MaxDigits * 1 < n THEN MaxDigits * 1 ELSE n) = d
  <2>1. MaxDigits * (1 - 1) + 1 = 1 /\ (IF MaxDigits * 1 < n THEN MaxDigits * 1 ELSE n) = n
    BY <1>1
  <2>2. SubSeq(d, 1, n) = d
    OBVIOUS
  <2> QED BY <2>1, <2>2
<1>4. Image!Chunks(d) = [k \in 1 .. 1 |-> d]
  <2>1. Image!Chunks(d) =
           [k \in 1 .. 1 |-> SubSeq(d, MaxDigits * (k - 1) + 1,
                                    IF MaxDigits * k < n THEN MaxDigits * k ELSE n)]
    BY <1>2 DEF Image!Chunks
  <2>2. \A k \in 1 .. 1 : k = 1
    OBVIOUS
  <2> QED BY <1>3, <2>1, <2>2
<1> QED BY <1>4

\* A word of one chunk is put in place once.
LEMMA OnePut ==
    ASSUME NEW words, NEW d
    PROVE  Image!FoldLeft(Image!Put, words, <<d>>) = Image!Put(words, d)
<1> DEFINE Is(h) == h = [s \in SUBSET {1} |->
                          IF s = {} THEN words
                          ELSE Image!Put(h[s \ {Image!Max(s)}], <<d>>[Image!Max(s)])]
           f == [s \in SUBSET {1} |-> IF s = {} THEN words ELSE Image!Put(words, d)]
           h == CHOOSE iter : Is(iter)
<1>1. Image!Max({1}) = 1
  BY LargestIsLast
<1>2. SUBSET {1} = {{}, {1}} /\ {1} \ {1} = {} /\ {1} # {}
  OBVIOUS
<1>3. Is(f)
  <2>1. f[{}] = words /\ f[{1}] = Image!Put(words, d) /\ <<d>>[1] = d
    BY <1>2
  <2>2. \A s \in SUBSET {1} : s = {} \/ s = {1}
    BY <1>2
  <2>3. ASSUME NEW s \in SUBSET {1}
        PROVE  f[s] = IF s = {} THEN words
                      ELSE Image!Put(f[s \ {Image!Max(s)}], <<d>>[Image!Max(s)])
    <3> HIDE DEF f
    <3>1. CASE s = {}
      BY <2>1, <3>1
    <3>2. CASE s = {1}
      BY <1>1, <1>2, <2>1, <3>2
    <3> QED BY <2>2, <3>1, <3>2
  <2>4. f = [s \in SUBSET {1} |-> f[s]]
    OBVIOUS
  <2> HIDE DEF f
  <2> QED BY <2>3, <2>4
<1>4. Is(h)
  BY <1>3, Zenon
<1>5. Image!FoldLeft(Image!Put, words, <<d>>) = h[{1}]
  <2>1. DOMAIN <<d>> = {1}
    OBVIOUS
  <2> QED BY <2>1 DEF Image!FoldLeft, Image!MapThenFoldSet
<1> HIDE DEF h
<1>6. \A s \in SUBSET {1} :
         h[s] = IF s = {} THEN words ELSE Image!Put(h[s \ {Image!Max(s)}], <<d>>[Image!Max(s)])
  BY <1>4
<1>7. h[{}] = words
  BY <1>2, <1>6
<1>8. h[{1}] = Image!Put(h[{1} \ {1}], <<d>>[1])
  BY <1>1, <1>2, <1>6
<1> QED BY <1>2, <1>5, <1>7, <1>8

\* What a lexeme of a regular file does.
LEMMA RegularRead ==
    ASSUME NEW file \in Seq(Image!Lexeme), Image!Regular(file), NEW i \in 1 .. Len(file),
           NEW words
    PROVE  /\ file[i].kind = "at" =>
                 Image!Read(words, file[i]) = [words EXCEPT !.address = file[i].address]
           /\ file[i].kind = "block" => Image!Read(words, file[i]) = words
           /\ Image!IsWord(file, i) =>
                 Image!Read(words, file[i]) = Image!Put(words, file[i].digits)
           /\ file[i].kind \in {"at", "block", "word"}
           /\ file[i].kind = "at" => file[i].address \in Nat
<1>1. file[i] \in Image!Lexeme /\ i \in DOMAIN file
  OBVIOUS
<1>2. file[i].kind # "line" /\ (file[i].kind = "word" => Len(file[i].digits) <= MaxDigits)
  BY <1>1 DEF Image!Regular, Image!IsWord
<1> PICK l \in Image!Lexeme : l = file[i]
  BY <1>1
<1>3. /\ l.kind \in {"at", "word", "block", "line"}
      /\ l.kind = "at" => l.address \in Nat
      /\ l.kind = "word" => l.digits \in Seq(0 .. 15) /\ l.digits # <<>>
  BY DEF Image!Lexeme, Image!Plain
<1>4. l.kind = "at" => Image!Read(words, l) = [words EXCEPT !.address = l.address]
  BY DEF Image!Read, Image!Token
<1>5. l.kind = "block" => Image!Read(words, l) = words
  BY DEF Image!Read
<1>6. ASSUME l.kind = "word" PROVE Image!Read(words, l) = Image!Put(words, l.digits)
  <2>1. Image!Read(words, l) = Image!FoldLeft(Image!Put, words, Image!Chunks(l.digits))
    BY <1>6 DEF Image!Read, Image!Token
  <2>2. Len(l.digits) \in 1 .. MaxDigits
    BY <1>2, <1>3, <1>6, ImageAssumption, EmptySeq
  <2>3. Image!Chunks(l.digits) = <<l.digits>>
    BY <1>3, <1>6, <2>2, OneChunk
  <2> QED BY <2>1, <2>3, OnePut
<1> QED BY <1>2, <1>3, <1>4, <1>5, <1>6 DEF Image!IsWord

-----------------------------------------------------------------------------
\* The words since the last address, and the place after k lexemes.
Since(file, k) == {j \in Image!From(file, k) + 1 .. k : Image!IsWord(file, j)}

Reached(file, k) ==
    (IF Image!From(file, k) = 0 THEN 0 ELSE file[Image!From(file, k)].address)
        + Cardinality(Since(file, k))

\* Cardinality means the same in both modules.
LEMMA SameCardinality == ASSUME NEW S PROVE Image!Cardinality(S) = Cardinality(S)
  BY DEF Cardinality, Image!Cardinality

\* One lexeme more is an address more, or none.
LEMMA AtsGrow ==
    ASSUME NEW file, NEW k \in Nat
    PROVE  Image!Ats(file, k + 1) =
              IF file[k + 1].kind = "at" THEN Image!Ats(file, k) \cup {k + 1}
              ELSE Image!Ats(file, k)
<1>1. \A j : j \in 1 .. k + 1 <=> j \in 1 .. k \/ j = k + 1
  OBVIOUS
<1> QED BY <1>1 DEF Image!Ats

\* Of some numbers up to a number one is the last.
LEMMA LastThere ==
    ASSUME NEW k \in Nat, NEW S \in SUBSET (0 .. k), S # {}
    PROVE  \E m \in S : \A j \in S : j <= m
<1> DEFINE P(n) == \A R \in SUBSET (0 .. n) : R # {} => \E m \in R : \A j \in R : j <= m
           T == {n \in Nat : P(n)}
<1>1. 0 \in T
  <2>1. ASSUME NEW R \in SUBSET (0 .. 0), R # {} PROVE \E m \in R : \A j \in R : j <= m
    <3>1. \A j \in R : j = 0
      BY <2>1
    <3>2. PICK m \in R : TRUE
      BY <2>1
    <3> QED BY <3>1, <3>2
  <2>2. P(0)
    BY <2>1
  <2> QED BY <2>2
<1>2. ASSUME NEW n \in T PROVE n + 1 \in T
  <2>1. n \in Nat /\ n + 1 \in Nat /\ P(n)
    OBVIOUS
  <2>2. ASSUME NEW R \in SUBSET (0 .. n + 1), R # {} PROVE \E m \in R : \A j \in R : j <= m
    <3>1. CASE n + 1 \in R
      BY <2>1, <3>1
    <3>2. CASE n + 1 \notin R
      <4>1. \A j \in R : j \in 0 .. n
        BY <2>1, <3>2
      <4>2. R \in SUBSET (0 .. n)
        BY <4>1
      <4> QED BY <2>1, <2>2, <4>2
    <3> QED BY <3>1, <3>2
  <2> HIDE DEF P
  <2>3. P(n + 1)
    BY <2>2 DEF P
  <2> QED BY <2>1, <2>3
<1> HIDE DEF T
<1>3. T \in SUBSET Nat
  BY DEF T
<1>4. \A n \in Nat : n \in T
  BY <1>1, <1>2, <1>3, CountUp
<1>5. k \in T
  BY <1>4
<1> QED BY <1>5 DEF T

\* There is a last address, or none.
LEMMA FromThere ==
    ASSUME NEW file
    PROVE  \A k \in Nat : /\ Image!From(file, k) \in Image!Ats(file, k) \cup {0}
                          /\ \A i \in Image!Ats(file, k) : i <= Image!From(file, k)
<1> TAKE k \in Nat
<1>1. Image!Ats(file, k) \cup {0} \in SUBSET (0 .. k) /\ Image!Ats(file, k) \cup {0} # {}
  BY DEF Image!Ats
<1>2. \E j \in Image!Ats(file, k) \cup {0} : \A i \in Image!Ats(file, k) \cup {0} : i <= j
  BY <1>1, LastThere
<1>3. \E j \in Image!Ats(file, k) \cup {0} : \A i \in Image!Ats(file, k) : i <= j
  BY <1>2
<1> QED BY <1>3 DEF Image!From

\* A lexeme moves the place as $readmemh moves it.
LEMMA PlaceSteps ==
    ASSUME NEW file, NEW k \in Nat, \A i \in Image!Ats(file, k) : file[i].address \in Nat
    PROVE  /\ Reached(file, 0) = 0
           /\ file[k + 1].kind = "at" /\ file[k + 1].address \in Nat =>
                 Reached(file, k + 1) = file[k + 1].address
           /\ file[k + 1].kind = "block" => Reached(file, k + 1) = Reached(file, k)
           /\ Image!IsWord(file, k + 1) =>
                 Image!Place(file, k + 1) = Reached(file, k)
           /\ Image!IsWord(file, k + 1) /\ Reached(file, k) \in Nat =>
                 Reached(file, k + 1) = Reached(file, k) + 1
<1>1. Reached(file, 0) = 0
  <2>1. Image!Ats(file, 0) = {}
    BY DEF Image!Ats
  <2>2. Image!From(file, 0) = 0
    BY <2>1, FromThere
  <2>3. Since(file, 0) = {}
    BY <2>2 DEF Since
  <2> QED BY <2>2, <2>3, FS_EmptySet DEF Reached
<1>2. /\ Image!From(file, k) \in 0 .. k /\ Image!From(file, k) \in Nat /\ k + 1 \in Nat
      /\ Image!From(file, k + 1) \in Image!Ats(file, k + 1) \cup {0}
      /\ \A i \in Image!Ats(file, k + 1) : i <= Image!From(file, k + 1)
  BY FromThere DEF Image!Ats
<1>3. ASSUME file[k + 1].kind = "at", file[k + 1].address \in Nat
      PROVE  Reached(file, k + 1) = file[k + 1].address
  <2>1. /\ k + 1 \in Image!Ats(file, k + 1)
        /\ \A i \in Image!Ats(file, k + 1) : i \in Nat /\ i <= k + 1
    BY <1>3 DEF Image!Ats
  <2>2. Image!From(file, k + 1) = k + 1
    BY <1>2, <2>1
  <2>3. Since(file, k + 1) = {}
    BY <2>2 DEF Since
  <2> QED BY <1>3, <2>2, <2>3, FS_EmptySet DEF Reached
<1>4. ASSUME file[k + 1].kind # "at"
      PROVE  /\ Image!From(file, k + 1) = Image!From(file, k)
             /\ Since(file, k + 1) =
                   IF Image!IsWord(file, k + 1) THEN Since(file, k) \cup {k + 1}
                   ELSE Since(file, k)
  <2>1. Image!Ats(file, k + 1) = Image!Ats(file, k)
    BY <1>4, AtsGrow
  <2>2. Image!From(file, k + 1) = Image!From(file, k)
    BY <2>1 DEF Image!From
  <2>3. \A j : j \in Image!From(file, k) + 1 .. k + 1 <=>
                  j \in Image!From(file, k) + 1 .. k \/ j = k + 1
    BY <1>2
  <2> QED BY <2>2, <2>3 DEF Since
<1>5. ASSUME file[k + 1].kind = "block" PROVE Reached(file, k + 1) = Reached(file, k)
  BY <1>4, <1>5 DEF Reached, Image!IsWord
<1>6. IsFiniteSet(Since(file, k)) /\ k + 1 \notin Since(file, k)
  <2>1. IsFiniteSet(Image!From(file, k) + 1 .. k)
    BY <1>2, FS_Interval
  <2>2. Since(file, k) \subseteq Image!From(file, k) + 1 .. k
    BY DEF Since
  <2>3. k + 1 \notin Image!From(file, k) + 1 .. k
    BY <1>2
  <2> QED BY <2>1, <2>2, <2>3, FS_Subset
<1>7. ASSUME Image!IsWord(file, k + 1), Reached(file, k) \in Nat
      PROVE  Reached(file, k + 1) = Reached(file, k) + 1
  <2>1. file[k + 1].kind # "at"
    BY <1>7 DEF Image!IsWord
  <2>2. Cardinality(Since(file, k + 1)) = Cardinality(Since(file, k)) + 1
    BY <1>4, <1>6, <1>7, <2>1, FS_AddElement
  <2>3. Image!From(file, k) # 0 => file[Image!From(file, k)].address \in Nat
    BY FromThere
  <2>4. Cardinality(Since(file, k)) \in Nat
    BY <1>6, FS_CardinalityType
  <2> QED BY <1>4, <2>1, <2>2, <2>3, <2>4 DEF Reached
<1>8. ASSUME Image!IsWord(file, k + 1) PROVE Image!Place(file, k + 1) = Reached(file, k)
  <2>1. file[k + 1].kind # "at" /\ (k + 1) - 1 = k
    BY <1>8 DEF Image!IsWord
  <2> QED BY <1>4, <2>1, SameCardinality DEF Image!Place, Reached, Since
<1> QED BY <1>1, <1>3, <1>5, <1>7, <1>8

-----------------------------------------------------------------------------
\* No word up to the k-th lexeme stands where the i-th does, after it.
Stays(file, i, k) ==
    \A j \in i + 1 .. k : Image!IsWord(file, j) => Image!Place(file, j) # Image!Place(file, i)

\* What is known of the memory after k lexemes is what is in it.
Known(file, k, words) ==
    /\ words = [content |-> words.content, address |-> words.address]
    /\ words.address = Reached(file, k) /\ words.address \in Nat
    /\ DOMAIN words.content \subseteq Nat
    /\ \A a : a \in DOMAIN words.content <=>
              \E i \in 1 .. k : Image!IsWord(file, i) /\ Image!Place(file, i) = a
    /\ \A i \in 1 .. k : Image!IsWord(file, i) /\ Stays(file, i, k) =>
          words.content[Image!Place(file, i)] = Image!Number(file[i].digits)

\* Another word is known where it stands.
LEMMA WordKnown ==
    ASSUME NEW file, NEW k \in Nat, NEW words, Known(file, k, words),
           Image!IsWord(file, k + 1), Image!Place(file, k + 1) = Reached(file, k),
           Reached(file, k + 1) = Reached(file, k) + 1
    PROVE  Known(file, k + 1, Image!Put(words, file[k + 1].digits))
<1> PICK w : w = Image!Put(words, file[k + 1].digits)
  OBVIOUS
<1> PICK a \in Nat : a = words.address
  BY DEF Known
<1>1. /\ w = [content |-> w.content, address |-> w.address]
      /\ w.address = a + 1 /\ a = Reached(file, k)
      /\ w.content = Image!Assign(words.content, a, Image!Number(file[k + 1].digits))
  BY DEF Image!Put, Known
<1>2. /\ \A b : b \in DOMAIN w.content <=> b \in DOMAIN words.content \/ b = a
      /\ w.content[a] = Image!Number(file[k + 1].digits)
      /\ \A b \in DOMAIN words.content : b # a => w.content[b] = words.content[b]
  BY <1>1 DEF Image!Assign
<1>3. \A i : i \in 1 .. k + 1 <=> i \in 1 .. k \/ i = k + 1
  OBVIOUS
<1>4. \A b : b \in DOMAIN w.content <=>
             \E i \in 1 .. k + 1 : Image!IsWord(file, i) /\ Image!Place(file, i) = b
  BY <1>1, <1>2, <1>3 DEF Known
<1>5. ASSUME NEW i \in 1 .. k, Image!IsWord(file, i), Stays(file, i, k + 1)
      PROVE  w.content[Image!Place(file, i)] = Image!Number(file[i].digits)
  <2>1. k + 1 \in i + 1 .. k + 1 /\ \A j \in i + 1 .. k : j \in i + 1 .. k + 1
    OBVIOUS
  <2>2. Image!Place(file, i) # a /\ Stays(file, i, k)
    BY <1>1, <1>5, <2>1 DEF Stays
  <2>3. /\ Image!Place(file, i) \in DOMAIN words.content
        /\ words.content[Image!Place(file, i)] = Image!Number(file[i].digits)
    BY <1>5, <2>2 DEF Known
  <2> QED BY <1>2, <2>2, <2>3
<1>6. \A i \in 1 .. k + 1 : Image!IsWord(file, i) /\ Stays(file, i, k + 1) =>
         w.content[Image!Place(file, i)] = Image!Number(file[i].digits)
  BY <1>1, <1>2, <1>3, <1>5
<1>7. w.address = Reached(file, k + 1) /\ w.address \in Nat
  BY <1>1
<1>8. DOMAIN w.content \subseteq Nat
  BY <1>2 DEF Known
<1>9. Known(file, k + 1, w)
  BY <1>1, <1>4, <1>6, <1>7, <1>8 DEF Known
<1> QED BY <1>9

\* What is not a word moves the place at most.
LEMMA NoWordKnown ==
    ASSUME NEW file, NEW k \in Nat, NEW words, Known(file, k, words),
           ~ Image!IsWord(file, k + 1), NEW w,
           w = [content |-> words.content, address |-> w.address],
           w.address = Reached(file, k + 1), w.address \in Nat
    PROVE  Known(file, k + 1, w)
<1>1. \A i : i \in 1 .. k + 1 <=> i \in 1 .. k \/ i = k + 1
  OBVIOUS
<1>2. w.content = words.content
  OBVIOUS
<1>3. \A i \in 1 .. k : Stays(file, i, k + 1) => Stays(file, i, k)
  <2>1. \A i \in 1 .. k : \A j \in i + 1 .. k : j \in i + 1 .. k + 1
    OBVIOUS
  <2> QED BY <2>1 DEF Stays
<1>4. \A a : a \in DOMAIN w.content <=>
             \E i \in 1 .. k + 1 : Image!IsWord(file, i) /\ Image!Place(file, i) = a
  BY <1>1, <1>2 DEF Known
<1>5. \A i \in 1 .. k + 1 : Image!IsWord(file, i) /\ Stays(file, i, k + 1) =>
         w.content[Image!Place(file, i)] = Image!Number(file[i].digits)
  BY <1>1, <1>2, <1>3 DEF Known
<1> QED BY <1>2, <1>4, <1>5 DEF Known

\* Reading keeps it so: what ParseVmem returns is what is in the memory.
LEMMA ParseIsKnown ==
    ASSUME NEW file \in Seq(Image!Lexeme), Image!Regular(file)
    PROVE  \E words : Image!ParseVmem(file) = words.content /\ Known(file, Len(file), words)
<1> PICK n \in Nat : n = Len(file)
  OBVIOUS
<1>1. PICK g : Reads(file, g) /\ Image!ParseVmem(file) = g[n].content
  BY ParseSteps
<1> DEFINE T == {k \in Nat : k <= n => Known(file, k, g[k])}
<1>2. \A i \in 1 .. n : file[i].kind = "at" => file[i].address \in Nat
  BY RegularRead
<1>3. 0 \in T
  <2>1. Reached(file, 0) = 0
    <3>1. \A i \in Image!Ats(file, 0) : file[i].address \in Nat
      BY DEF Image!Ats
    <3> QED BY <3>1, PlaceSteps
  <2>2. g[0] = Nothing /\ DOMAIN <<>> = {}
    BY <1>1 DEF Reads
  <2>3. Known(file, 0, g[0])
    BY <2>1, <2>2 DEF Known, Nothing
  <2> QED BY <2>3
<1>4. ASSUME NEW k \in T PROVE k + 1 \in T
  <2> SUFFICES ASSUME k + 1 <= n PROVE Known(file, k + 1, g[k + 1])
    OBVIOUS
  <2>1. k \in Nat /\ k + 1 \in 1 .. n /\ (k + 1) - 1 = k
    OBVIOUS
  <2> PICK words : words = g[k]
    OBVIOUS
  <2>2. Known(file, k, words)
    BY <1>4, <2>1
  <2>3. g[k + 1] = Image!Read(words, file[k + 1])
    BY <1>1, <2>1 DEF Reads
  <2>4. \A i \in Image!Ats(file, k) : file[i].address \in Nat
    BY <1>2, <2>1 DEF Image!Ats
  <2>5. words = [content |-> words.content, address |-> words.address]
        /\ words.address = Reached(file, k) /\ words.address \in Nat
    BY <2>2 DEF Known
  <2>6. CASE Image!IsWord(file, k + 1)
    <3>1. g[k + 1] = Image!Put(words, file[k + 1].digits)
      BY <2>1, <2>3, <2>6, RegularRead
    <3>2. /\ Image!Place(file, k + 1) = Reached(file, k)
          /\ Reached(file, k + 1) = Reached(file, k) + 1
      BY <2>1, <2>4, <2>5, <2>6, PlaceSteps
    <3> QED BY <2>1, <2>2, <2>6, <3>1, <3>2, WordKnown
  <2>7. CASE file[k + 1].kind = "at"
    <3>1. /\ g[k + 1] = [words EXCEPT !.address = file[k + 1].address]
          /\ file[k + 1].address \in Nat
      BY <2>1, <2>3, <2>7, RegularRead
    <3>2. g[k + 1] = [content |-> words.content, address |-> file[k + 1].address]
      BY <2>5, <3>1
    <3>3. Reached(file, k + 1) = file[k + 1].address
      BY <2>1, <2>4, <2>7, <3>1, PlaceSteps
    <3>4. ~ Image!IsWord(file, k + 1)
      BY <2>7 DEF Image!IsWord
    <3> QED BY <2>1, <2>2, <3>1, <3>2, <3>3, <3>4, NoWordKnown
  <2>8. CASE file[k + 1].kind = "block"
    <3>1. g[k + 1] = words
      BY <2>1, <2>3, <2>8, RegularRead
    <3>2. Reached(file, k + 1) = Reached(file, k)
      BY <2>1, <2>4, <2>8, PlaceSteps
    <3>3. ~ Image!IsWord(file, k + 1)
      BY <2>8 DEF Image!IsWord
    <3> QED BY <2>1, <2>2, <2>5, <3>1, <3>2, <3>3, NoWordKnown
  <2>9. file[k + 1].kind \in {"at", "block", "word"}
    BY <2>1, RegularRead
  <2> QED BY <2>6, <2>7, <2>8, <2>9 DEF Image!IsWord
<1> HIDE DEF T
<1>5. T \in SUBSET Nat
  BY DEF T
<1>6. \A k \in Nat : k \in T
  BY <1>3, <1>4, <1>5, CountUp
<1>7. Known(file, n, g[n])
  BY <1>6 DEF T
<1> QED BY <1>1, <1>7

\* Reading a regular file and loading it are the same.
LEMMA ParseIsLoad ==
    ASSUME NEW file \in Seq(Image!Lexeme), Image!Regular(file),
           NEW words, words = Image!ParseVmem(file)
    PROVE  /\ DOMAIN words \subseteq Nat
           /\ \A a : Image!Loaded(file, a) = IF a \in DOMAIN words THEN words[a] ELSE 0
           /\ \A i \in DOMAIN file : Image!IsWord(file, i) => Image!Place(file, i) \in DOMAIN words
<1> PICK n \in Nat : n = Len(file) /\ DOMAIN file = 1 .. n
  OBVIOUS
<1>1. PICK w : words = w.content /\ Known(file, n, w)
  BY ParseIsKnown
<1>2. ASSUME NEW a
      PROVE  Image!Loaded(file, a) = IF a \in DOMAIN words THEN words[a] ELSE 0
  <2> DEFINE here == {i \in DOMAIN file : Image!IsWord(file, i) /\ Image!Place(file, i) = a}
             last == CHOOSE i \in here : \A j \in here : j <= i
  <2>1. Image!Loaded(file, a) = IF here = {} THEN 0 ELSE Image!Number(file[last].digits)
    BY DEF Image!Loaded
  <2>2. a \in DOMAIN words <=> here # {}
    BY <1>1 DEF Known
  <2>3. ASSUME here # {} PROVE words[a] = Image!Number(file[last].digits)
    <3>1. here \in SUBSET (0 .. n)
      OBVIOUS
    <3>2. \E i \in here : \A j \in here : j <= i
      <4> HIDE DEF here
      <4> QED BY <2>3, <3>1, LastThere
    <3>3. last \in here /\ \A j \in here : j <= last
      <4> HIDE DEF here
      <4> QED BY <3>2
    <3> HIDE DEF last
    <3>4. Stays(file, last, n)
      <4>1. \A j \in last + 1 .. n : j \in DOMAIN file /\ ~ (j <= last)
        BY <3>3
      <4> QED BY <3>3, <4>1 DEF Stays
    <3> QED BY <1>1, <3>3, <3>4 DEF Known
  <2> HIDE DEF here, last
  <2> QED BY <2>1, <2>2, <2>3
<1> QED BY <1>1, <1>2 DEF Known

-----------------------------------------------------------------------------
(* The .mif file has the lines that were written, and they are right.      *)

\* What a line says.
Value(a) == IF a \in DOMAIN Image!Words THEN Image!Words[a] ELSE 0

ImageInv ==
    /\ IF unit = "image" THEN vmem \in Files ELSE step = "start"
    /\ step \in {"start", "refused", "write", "done"}
    /\ step \in {"start", "refused"} => mif = None
    /\ step = "start" => line = 0
    /\ step \in {"write", "done"} =>
          /\ line \in 0 .. Depth /\ \A a \in DOMAIN Image!Words : ~ (a >= Depth)
          /\ DOMAIN mif = 0 .. line - 1 /\ \A a \in 0 .. line - 1 : mif[a] = Value(a)
    /\ step = "done" => line = Depth

\* A line written is one more, and right.
LEMMA ImageStep == ImageInv /\ [Next]_vars => ImageInv'
<1> SUFFICES ASSUME ImageInv, [Next]_vars PROVE ImageInv'
  OBVIOUS
<1>1. CASE UNCHANGED <<unit, imageVars>>
  BY <1>1 DEF ImageInv, imageVars, Value, Image!Words
<1>2. CASE unit = "image" /\ unit' = unit /\ vmem' = vmem /\ Image!Next
  <2>1. vmem \in Files /\ Image!Words' = Image!Words /\ \A a : Value(a)' = Value(a)
    BY <1>2 DEF ImageInv, Value, Image!Words
  <2>2. CASE Image!Convert
    <3>1. Depth \in Nat /\ DOMAIN <<>> = 0 .. 0 - 1 /\ 0 .. 0 - 1 = {}
      BY ImageAssumption
    <3>2. CASE \E a \in DOMAIN Image!Words : a >= Depth
      BY <1>2, <2>1, <2>2, <3>2 DEF ImageInv, Image!Convert
    <3>3. CASE ~ \E a \in DOMAIN Image!Words : a >= Depth
      <4>1. step' = "write" /\ line' = 0 /\ mif' = <<>>
        BY <2>2, <3>3 DEF Image!Convert, ImageInv
      <4>2. 0 \in 0 .. Depth
        BY <3>1
      <4> QED BY <1>2, <2>1, <3>1, <3>3, <4>1, <4>2 DEF ImageInv
    <3> QED BY <3>2, <3>3
  <2>3. CASE Image!WriteLine
    <3>1. /\ Depth \in Nat /\ line \in Nat /\ line < Depth /\ line' = line + 1 /\ step = "write"
          /\ step' = "write" /\ mif' = Image!Assign(mif, line, Value(line))
          /\ DOMAIN mif = 0 .. line - 1 /\ \A a \in 0 .. line - 1 : mif[a] = Value(a)
      BY <2>3, ImageAssumption DEF Image!WriteLine, ImageInv, Value
    <3>2. line + 1 \in 0 .. Depth /\ (line + 1) - 1 = line
          /\ \A a : a \in 0 .. line <=> a \in 0 .. line - 1 \/ a = line
      BY <3>1
    <3>3. DOMAIN mif' = 0 .. line /\ \A a \in 0 .. line : mif'[a] = Value(a)
      BY <3>1, <3>2 DEF Image!Assign
    <3> QED BY <1>2, <2>1, <3>1, <3>2, <3>3 DEF ImageInv
  <2>4. CASE Image!Close
    BY <1>2, <2>1, <2>4 DEF ImageInv, Image!Close
  <2> QED BY <1>2, <2>2, <2>3, <2>4 DEF Image!Next
<1>3. Image!Next => vmem' = vmem
  BY DEF Image!Next, Image!Convert, Image!WriteLine, Image!Close
<1> QED BY <1>1, <1>2, <1>3 DEF Next, vars, ImageMoves, LoopMoves, QuadMoves, PwmMoves, DriveMoves,
                                TimerMoves

\* A memory initialised from the .mif file holds what $readmemh would have put
\* there; a file with words that do not fit is refused before anything of an
\* older output is lost.
THEOREM ImageIsLoaded == Spec => []MifIsTheImage
<1>1. Init => ImageInv
  BY DEF Init, Image!Init, ImageInv
<1>2. ASSUME ImageInv PROVE MifIsTheImage
  <2>1. CASE step \in {"write", "done"} /\ Image!Regular(vmem)
    <3>1. vmem \in Seq(Image!Lexeme) /\ Depth \in Nat
      BY <1>2, <2>1, ImageAssumption DEF ImageInv
    <3> PICK words : words = Image!Words /\ words = Image!ParseVmem(vmem)
      BY DEF Image!Words
    <3>2. /\ DOMAIN words \subseteq Nat
          /\ \A a : Image!Loaded(vmem, a) = Value(a)
          /\ \A i \in DOMAIN vmem : Image!IsWord(vmem, i) => Image!Place(vmem, i) \in DOMAIN words
      BY <2>1, <3>1, ParseIsLoad DEF Value
    <3>3. \A a \in DOMAIN words : a < Depth
      BY <1>2, <2>1, <3>1, <3>2 DEF ImageInv
    <3> QED BY <1>2, <2>1, <3>2, <3>3 DEF ImageInv, MifIsTheImage, Image!MifIsTheImage
  <2>2. CASE ~ (step \in {"write", "done"} /\ Image!Regular(vmem))
    BY <1>2, <2>2 DEF ImageInv, MifIsTheImage, Image!MifIsTheImage
  <2> QED BY <2>1, <2>2
<1> QED BY <1>1, <1>2, ImageStep, PTL DEF Spec

-----------------------------------------------------------------------------
(* SysTimer. *)

\* What SysTimerProofs shows of the timer and its driver holds on the bench: it
\* moves as SysTimer says or rests.
THEOREM BenchIsTheTimer == Spec => TimerSpec
<1>1. Init => TimerInit
  BY DEF Init
<1>2. [Next]_vars => [TimerNext]_sysVars
  BY DEF Next, vars, ImageMoves, LoopMoves, QuadMoves, PwmMoves, DriveMoves, TimerMoves
<1> QED BY <1>1, <1>2, PTL DEF Spec, TimerSpec

=============================================================================
