---------------------------- MODULE SysTimerProofs ----------------------------
(***************************************************************************)
(* Proofs about the system timer: what holds for every word size, period   *)
(* and bound of the clock, and wherever the carry falls between the        *)
(* firmware's accesses.                                                    *)
(***************************************************************************)
EXTENDS SysTimer, TLAPS

\* The value of two registers, as mtime and mtime_cmp put them together.
At(h, l) == h * Base + l

-----------------------------------------------------------------------------
(* What has to be known of the registers besides the properties. *)

\* The clock has not run past the bound, so the high word does not wrap.
ClockInv == mtime <= MaxTime

\* A read that is under way: the high word it loaded first is the one of the
\* moment it began, and the low word it loaded next was there together with a
\* high word that the carry may have left behind.
ReadInv ==
    /\ access = "lo" => /\ \E l \in Word : started = At(hi0, l)
                    /\ started <= mtime
    /\ access = "hi1" => \E h \in Word : /\ hi0 <= h
                                     /\ started <= At(h, lo0)
                                     /\ At(h, lo0) <= mtime

\* The compare registers hold the deadline, or are on the way to a new one
\* with the low word raised.
CompareInv ==
    /\ access \notin {"cmp_hi", "cmp_lo"} => mtime_cmp = deadline
    /\ access = "cmp_hi" => mtime_cmp >= deadline
    /\ access \in {"cmp_hi", "cmp_lo"} => cmp_lo = Base - 1
    /\ access = "cmp_lo" => cmp_hi = Target \div Base
    /\ access \in {"control", "run"} => deadline >= started + Period

IInv == TimerTypeOK /\ ClockInv /\ ReadInv /\ ReadIsCurrent /\ CompareInv

-----------------------------------------------------------------------------
(* Two words as one number. *)

\* A product of words is a number; SMT needs to be told before it compares.
LEMMA AtType ==
    ASSUME NEW h \in Word, NEW l \in Word
    PROVE  h * Base \in Nat /\ At(h, l) \in Nat
BY TimerAssumption DEF Word, At

\* The high word decides, whatever the low words are: what makes it safe to
\* raise MTIMECMP_LO before MTIMECMP_HI is written (main.c:43-47).
LEMMA HighWordDecides ==
    ASSUME NEW a \in Word, NEW b \in Word, NEW l \in Word, NEW m \in Word, a < b
    PROVE  At(a, l) < At(b, m)
<1>1. (a + 1) * Base <= b * Base
  <2>1. PICK d \in Nat : b = (a + 1) + d
    <3>1. b - (a + 1) \in Nat /\ b = (a + 1) + (b - (a + 1))
      BY DEF Word
    <3>2. QED BY <3>1
  <2>2. b * Base = (a + 1) * Base + d * Base
    BY <2>1, TimerAssumption DEF Word
  <2>3. d * Base \in Nat /\ (a + 1) * Base \in Nat
    BY <2>1, TimerAssumption DEF Word
  <2>4. QED BY <2>2, <2>3
<1>2. (a + 1) * Base = a * Base + Base
  BY TimerAssumption DEF Word
<1>3. a * Base \in Nat /\ b * Base \in Nat
  BY AtType
<1>4. QED
  BY <1>1, <1>2, <1>3, TimerAssumption DEF Word, At

\* The contrapositive: the order of two times is the order of their high words.
LEMMA HighWordsInOrder ==
    ASSUME NEW a \in Word, NEW b \in Word, NEW l \in Word, NEW m \in Word,
           At(a, l) <= At(b, m)
    PROVE  a <= b
<1>1. ASSUME b < a PROVE FALSE
  BY <1>1, HighWordDecides, AtType
<1>2. QED BY <1>1 DEF Word

\* A time that fits in two words is put back together from the quotient and
\* the remainder that timer_write_mtimecmp stores.
LEMMA SplitTime ==
    ASSUME NEW t \in Nat, t < Base * Base
    PROVE  /\ t \div Base \in Word
           /\ t % Base \in Word
           /\ At(t \div Base, t % Base) = t
<1> DEFINE q == t \div Base
           r == t % Base
<1>1. /\ q \in Nat /\ r \in Nat /\ r < Base
      /\ t = Base * q + r
  BY TimerAssumption
<1>2. q < Base
  <2>1. ASSUME q >= Base PROVE FALSE
    <3>1. PICK d \in Nat : q = Base + d
      <4>1. q - Base \in Nat /\ q = Base + (q - Base)
        BY <1>1, <2>1, TimerAssumption
      <4>2. QED BY <4>1
    <3>2. Base * q = Base * Base + Base * d /\ Base * d \in Nat
      BY <3>1, TimerAssumption
    <3>3. Base * Base \in Nat
      BY TimerAssumption
    <3>4. QED BY <1>1, <3>2, <3>3
  <2>2. QED BY <1>1, <2>1, TimerAssumption
<1>3. Base * q = q * Base
  BY <1>1, TimerAssumption
<1>4. QED
  BY <1>1, <1>2, <1>3, TimerAssumption DEF Word, At

\* One edge of the clock: the time stands or goes on by one, carry included,
\* and both registers keep their width (obi_sys_timer.sv).
LEMMA CountStep ==
    ASSUME TimerTypeOK, ClockInv, Count
    PROVE  /\ hi' \in Word /\ lo' \in Word
           /\ mtime' \in {mtime, mtime + 1}
           /\ ClockInv'
<1>1. CASE enable /\ mtime < MaxTime /\ lo = Base - 1
  <2>1. lo' = 0 /\ hi' = hi + 1
    BY <1>1 DEF Count
  <2>2. (hi + 1) * Base = hi * Base + Base
    BY TimerAssumption DEF TimerTypeOK, Word
  <2>3. mtime \in Nat /\ hi * Base \in Nat /\ mtime' = mtime + 1
    BY <1>1, <2>1, <2>2, AtType, TimerAssumption DEF TimerTypeOK, Word, mtime
  <2>4. hi + 1 < Base
    <3>1. ASSUME hi + 1 = Base PROVE FALSE
      <4>1. mtime + 1 = Base * Base
        BY <1>1, <2>2, <2>3, <3>1, TimerAssumption DEF TimerTypeOK, Word, mtime
      <4>2. QED
        BY <1>1, <2>3, <4>1, TimerAssumption DEF ClockInv
    <3>2. QED
      BY <3>1, TimerAssumption DEF TimerTypeOK, Word
  <2>5. QED
    BY <1>1, <2>1, <2>3, <2>4, TimerAssumption DEF TimerTypeOK, Word, ClockInv
<1>2. CASE enable /\ mtime < MaxTime /\ lo # Base - 1
  <2>1. lo' = lo + 1 /\ hi' = hi
    BY <1>2 DEF Count
  <2>2. hi * Base \in Nat
    BY AtType DEF TimerTypeOK
  <2>3. mtime \in Nat /\ mtime' = mtime + 1
    BY <2>1, <2>2, TimerAssumption DEF TimerTypeOK, Word, mtime
  <2>4. QED
    BY <1>2, <2>1, <2>3, TimerAssumption DEF TimerTypeOK, Word, ClockInv
<1>3. CASE ~(enable /\ mtime < MaxTime)
  BY <1>3 DEF Count, TimerTypeOK, ClockInv, mtime
<1>4. QED
  BY <1>1, <1>2, <1>3

\* The time and its deadline, as far as the arithmetic of a step needs them.
LEMMA Times ==
    ASSUME TimerTypeOK
    PROVE  mtime \in Nat /\ mtime_cmp \in Nat /\ ReadTime \in Nat /\ Target \in Nat
BY AtType, TimerAssumption DEF TimerTypeOK, At, mtime, mtime_cmp, ReadTime, Target

\* The deadline the firmware makes of the time it has read fits two words.
LEMMA TargetFits ==
    ASSUME TimerTypeOK, ClockInv, ReadIsCurrent, access \in {"cmp_max", "cmp_hi", "cmp_lo"}
    PROVE  /\ Target \in Nat /\ Target < Base * Base
           /\ Target >= started + Period
<1>1. ReadTime <= mtime /\ started <= ReadTime /\ Target = ReadTime + Period
  BY DEF ReadIsCurrent, Target
<1>2. Base * Base \in Nat
  BY TimerAssumption
<1>3. QED
  BY <1>1, <1>2, Times, TimerAssumption DEF ClockInv, TimerTypeOK

-----------------------------------------------------------------------------
(* The invariant and its steps. *)

\* Reset.
LEMMA InitInv == TimerInit => IInv
<1> SUFFICES ASSUME TimerInit PROVE IInv
  OBVIOUS
<1>1. (Base - 1) * Base + (Base - 1) = Base * Base - 1 /\ Base * Base - 1 \in Nat
  BY TimerAssumption
<1>2. TimerTypeOK
  <2>1. 0 \in Word /\ Base - 1 \in Word
    BY TimerAssumption DEF Word
  <2>2. QED
    BY <1>1, <2>1 DEF TimerInit, TimerTypeOK
<1>3. mtime = 0
  BY TimerAssumption DEF TimerInit, mtime
<1>4. QED
  BY <1>1, <1>2, <1>3, TimerAssumption
     DEF TimerInit, IInv, ClockInv, ReadInv, ReadIsCurrent, CompareInv, mtime_cmp

\* A step that only lets the clock go on keeps what is known of a read: the
\* time it has put together lies further back, no more.
LEMMA WaitStep ==
    ASSUME IInv, Wait PROVE IInv'
<1> USE DEF Wait
<1>1. hi' \in Word /\ lo' \in Word /\ mtime' >= mtime /\ ClockInv' /\ mtime' \in Nat
  BY CountStep, Times DEF IInv
<1>2. TimerTypeOK'
  BY <1>1 DEF IInv, TimerTypeOK
<1>3. ReadTime' = ReadTime /\ Target' = Target /\ mtime_cmp' = mtime_cmp
  BY DEF ReadTime, Target, mtime_cmp
<1>4. ReadInv'
  <2>1. ASSUME access' = "lo"
        PROVE  (\E l \in Word : started' = At(hi0', l)) /\ started' <= mtime'
    BY <1>1, <2>1, Times DEF IInv, ReadInv, TimerTypeOK
  <2>2. ASSUME access' = "hi1"
        PROVE  \E h \in Word : hi0' <= h /\ started' <= At(h, lo0') /\ At(h, lo0') <= mtime'
    <3>1. PICK h \in Word : hi0 <= h /\ started <= At(h, lo0) /\ At(h, lo0) <= mtime
      BY <2>2 DEF IInv, ReadInv
    <3>2. At(h, lo0) <= mtime'
      BY <1>1, <3>1, AtType, Times DEF IInv, TimerTypeOK
    <3>3. QED BY <3>1, <3>2
  <2>3. QED BY <2>1, <2>2 DEF ReadInv
<1>5. ReadIsCurrent'
  BY <1>1, <1>3, Times DEF IInv, ReadIsCurrent
<1>6. CompareInv'
  BY <1>3 DEF IInv, CompareInv
<1>7. QED
  BY <1>1, <1>2, <1>4, <1>5, <1>6 DEF IInv

\* One access of the firmware: each is an edge of the clock too, at which the
\* high word may have moved under the access.
LEMMA FirmwareStep ==
    ASSUME IInv, Firmware PROVE IInv'
<1>1. Count
  BY DEF Firmware, ReadHi0, ReadLo, ReadHi1, WriteMax, WriteHi, WriteLo, WriteControl,
         TakeInterrupt
<1>2. /\ hi' \in Word /\ lo' \in Word /\ mtime' \in Nat
      /\ mtime' >= mtime /\ ClockInv'
  BY <1>1, CountStep, Times DEF IInv
<1>3. mtime \in Nat /\ mtime_cmp \in Nat /\ ReadTime \in Nat /\ Target \in Nat
  BY Times DEF IInv
<1>4. hi \in Word /\ lo \in Word /\ hi0 \in Word /\ lo0 \in Word /\ hi1 \in Word
      /\ cmp_hi \in Word /\ cmp_lo \in Word
  BY DEF IInv, TimerTypeOK
<1>5. CASE ReadHi0
  <2>1. /\ access' = "lo" /\ hi0' = hi /\ started' = mtime /\ access = "hi0"
        /\ UNCHANGED <<cmp_hi, cmp_lo, enable, irq_enable, booting, lo0, hi1, deadline>>
    BY <1>5 DEF ReadHi0
  <2>2. TimerTypeOK'
    BY <1>2, <1>3, <2>1 DEF IInv, TimerTypeOK
  <2>3. ReadInv'
    <3>1. started' = At(hi0', lo)
      BY <2>1 DEF At, mtime
    <3>2. QED
      BY <1>2, <1>4, <2>1, <3>1 DEF ReadInv
  <2>4. mtime_cmp' = mtime_cmp
    BY <2>1 DEF mtime_cmp
  <2>5. QED
    BY <1>2, <2>1, <2>2, <2>3, <2>4 DEF IInv, ReadIsCurrent, CompareInv
<1>6. CASE ReadLo
  <2>1. /\ access' = "hi1" /\ lo0' = lo /\ access = "lo"
        /\ UNCHANGED <<cmp_hi, cmp_lo, enable, irq_enable, booting, hi0, hi1, deadline,
                       started>>
    BY <1>6 DEF ReadLo, Keep
  <2>2. TimerTypeOK'
    BY <1>2, <2>1 DEF IInv, TimerTypeOK
  <2>3. ReadInv'
    <3>1. PICK l \in Word : started = At(hi0, l)
      BY <2>1 DEF IInv, ReadInv
    <3>2. started <= mtime /\ At(hi, lo) = mtime
      BY <2>1 DEF IInv, ReadInv, At, mtime
    <3>3. hi0 <= hi
      BY <1>4, <3>1, <3>2, HighWordsInOrder
    <3>4. started' <= At(hi, lo0') /\ At(hi, lo0') <= mtime'
      BY <1>2, <1>3, <2>1, <3>2
    <3>5. QED
      BY <1>4, <2>1, <3>3, <3>4 DEF ReadInv
  <2>4. mtime_cmp' = mtime_cmp
    BY <2>1 DEF mtime_cmp
  <2>5. QED
    BY <1>2, <2>1, <2>2, <2>3, <2>4 DEF IInv, ReadIsCurrent, CompareInv
<1>7. CASE ReadHi1
  <2>1. /\ access' = IF hi = hi0 THEN "cmp_max" ELSE "hi0"
        /\ hi1' = hi /\ access = "hi1"
        /\ UNCHANGED <<cmp_hi, cmp_lo, enable, irq_enable, booting, hi0, lo0, deadline,
                       started>>
    BY <1>7 DEF ReadHi1, Keep
  <2>2. TimerTypeOK'
    BY <1>2, <1>4, <2>1 DEF IInv, TimerTypeOK
  <2>3. ReadIsCurrent'
    <3>1. SUFFICES ASSUME hi = hi0 PROVE started' <= ReadTime' /\ ReadTime' <= mtime'
      BY <2>1 DEF ReadIsCurrent
    <3>2. PICK h \in Word : hi0 <= h /\ started <= At(h, lo0) /\ At(h, lo0) <= mtime
      BY <2>1 DEF IInv, ReadInv
    <3>3. h <= hi
      BY <1>4, <3>2, HighWordsInOrder DEF At, mtime
    <3>4. h = hi
      BY <1>4, <3>1, <3>2, <3>3 DEF Word
    <3>5. ReadTime' = At(h, lo0)
      BY <2>1, <3>4 DEF ReadTime, At
    <3>6. QED
      BY <1>2, <1>3, <1>4, <2>1, <3>2, <3>5, AtType
  <2>4. mtime_cmp' = mtime_cmp
    BY <2>1 DEF mtime_cmp
  <2>5. ReadInv' /\ CompareInv'
    BY <2>1, <2>4 DEF IInv, ReadInv, CompareInv
  <2>6. QED
    BY <1>2, <2>2, <2>3, <2>5 DEF IInv
<1>8. CASE WriteMax
  <2>1. /\ access' = "cmp_hi" /\ cmp_lo' = Base - 1 /\ access = "cmp_max"
        /\ UNCHANGED <<cmp_hi, enable, irq_enable, booting, hi0, lo0, hi1, deadline, started>>
    BY <1>8 DEF WriteMax, Keep
  <2>2. TimerTypeOK'
    <3>1. Base - 1 \in Word
      BY TimerAssumption DEF Word
    <3>2. QED
      BY <1>2, <2>1, <3>1 DEF IInv, TimerTypeOK
  <2>3. ReadInv' /\ ReadIsCurrent'
    <3>1. ReadTime' = ReadTime
      BY <2>1 DEF ReadTime
    <3>2. QED
      BY <1>2, <1>3, <2>1, <3>1 DEF IInv, ReadInv, ReadIsCurrent, TimerTypeOK
  <2>4. CompareInv'
    <3>1. mtime_cmp = deadline
      BY <2>1 DEF IInv, CompareInv
    <3>2. mtime_cmp' >= mtime_cmp
      <4>1. cmp_hi * Base \in Nat
        BY <1>4, AtType
      <4>2. QED
        BY <1>4, <2>1, <4>1, TimerAssumption DEF mtime_cmp, Word
    <3>3. QED
      BY <2>1, <3>1, <3>2 DEF CompareInv
  <2>5. QED
    BY <1>2, <2>2, <2>3, <2>4 DEF IInv
<1>9. CASE WriteHi
  <2>1. /\ access' = "cmp_lo" /\ cmp_hi' = Target \div Base /\ access = "cmp_hi"
        /\ UNCHANGED <<cmp_lo, enable, irq_enable, booting, hi0, lo0, hi1, deadline, started>>
    BY <1>9 DEF WriteHi, Keep
  <2>2. TimerTypeOK'
    <3>1. Target \div Base \in Word
      BY <2>1, TargetFits, SplitTime DEF IInv
    <3>2. QED
      BY <1>2, <2>1, <3>1 DEF IInv, TimerTypeOK
  <2>3. ReadTime' = ReadTime /\ Target' = Target
    BY <2>1 DEF ReadTime, Target
  <2>4. ReadInv' /\ ReadIsCurrent'
    BY <1>2, <1>3, <2>1, <2>3 DEF IInv, ReadInv, ReadIsCurrent, TimerTypeOK
  <2>5. CompareInv'
    BY <2>1, <2>3 DEF IInv, CompareInv
  <2>6. QED
    BY <1>2, <2>2, <2>4, <2>5 DEF IInv
<1>10. CASE WriteLo
  <2>1. /\ access' \in {"control", "run"} /\ cmp_lo' = Target % Base /\ deadline' = Target
        /\ access = "cmp_lo"
        /\ UNCHANGED <<cmp_hi, enable, irq_enable, booting, hi0, lo0, hi1, started>>
    BY <1>10 DEF WriteLo
  <2>2. /\ Target \in Nat /\ Target % Base \in Word
        /\ At(Target \div Base, Target % Base) = Target
        /\ Target >= started + Period
    BY <2>1, TargetFits, SplitTime DEF IInv
  <2>3. TimerTypeOK'
    BY <1>2, <2>1, <2>2 DEF IInv, TimerTypeOK
  <2>4. mtime_cmp' = Target
    BY <2>1, <2>2 DEF IInv, CompareInv, mtime_cmp, At
  <2>5. CompareInv' /\ ReadInv' /\ ReadIsCurrent'
    BY <2>1, <2>2, <2>4 DEF CompareInv, ReadInv, ReadIsCurrent
  <2>6. QED
    BY <1>2, <2>3, <2>5 DEF IInv
<1>11. CASE WriteControl
  <2>1. /\ access' = "run" /\ access = "control"
        /\ enable' = TRUE /\ irq_enable' = TRUE /\ booting' = FALSE
        /\ UNCHANGED <<cmp_hi, cmp_lo, hi0, lo0, hi1, started, deadline>>
    BY <1>11 DEF WriteControl
  <2>2. TimerTypeOK'
    BY <1>2, <2>1 DEF IInv, TimerTypeOK
  <2>3. mtime_cmp' = mtime_cmp
    BY <2>1 DEF mtime_cmp
  <2>4. QED
    BY <1>2, <2>1, <2>2, <2>3 DEF IInv, ReadInv, ReadIsCurrent, CompareInv
<1>12. CASE TakeInterrupt
  <2>1. /\ access' = "hi0" /\ access = "run"
        /\ UNCHANGED <<cmp_hi, cmp_lo, enable, irq_enable, booting, hi0, lo0, hi1, deadline,
                       started>>
    BY <1>12 DEF TakeInterrupt, Keep
  <2>2. TimerTypeOK'
    BY <1>2, <2>1 DEF IInv, TimerTypeOK
  <2>3. mtime_cmp' = mtime_cmp
    BY <2>1 DEF mtime_cmp
  <2>4. QED
    BY <1>2, <2>1, <2>2, <2>3 DEF IInv, ReadInv, ReadIsCurrent, CompareInv
<1>13. QED
  BY <1>5, <1>6, <1>7, <1>8, <1>9, <1>10, <1>11, <1>12 DEF Firmware

\* The firmware's steps, the timer's ticks and the handler keep the invariant.
LEMMA StepInv == IInv /\ [TimerNext]_sysVars => IInv'
<1> SUFFICES ASSUME IInv, [TimerNext]_sysVars PROVE IInv'
  OBVIOUS
<1>1. CASE Firmware
  BY <1>1, FirmwareStep
<1>2. CASE Wait
  BY <1>2, WaitStep
<1>3. CASE UNCHANGED sysVars
  BY <1>3 DEF sysVars, timerVars, IInv, TimerTypeOK, ClockInv, ReadInv, ReadIsCurrent,
              CompareInv, mtime, mtime_cmp, ReadTime, Target, At
<1>4. QED
  BY <1>1, <1>2, <1>3 DEF TimerNext

\* What the two words read so far, the two words written so far and the mode of the
\* firmware say of the deadline holds in every behaviour.
THEOREM TimerInvariant == TimerSpec => []IInv
BY InitInv, StepInv, PTL DEF TimerSpec

-----------------------------------------------------------------------------
(* What follows from the invariant. *)

\* The registers keep their width: neither the clock nor a compare value that
\* the firmware computes runs out of its two words.
THEOREM TypeCorrect == TimerSpec => []TimerTypeOK
BY TimerInvariant, PTL DEF IInv

\* timer_read_mtime (main.c:29-41) returns a time that was the time at some
\* moment of the read, wherever the low word's carry falls between its loads.
THEOREM ReadsAreCurrent == TimerSpec => []ReadIsCurrent
BY TimerInvariant, PTL DEF IInv

\* While timer_write_mtimecmp (main.c:43-47) is under way the compare value
\* stands neither before the old deadline nor, later, before the new one.
LEMMA NeverEarly == IInv => CompareNeverEarly
<1> SUFFICES ASSUME IInv PROVE CompareNeverEarly
  OBVIOUS
<1>1. access = "cmp_hi" => mtime_cmp >= deadline
  BY DEF IInv, CompareInv
<1>2. ASSUME access = "cmp_lo" PROVE mtime_cmp >= Target
  <2>1. /\ Target \in Nat
        /\ Target \div Base \in Word /\ Target % Base \in Word
        /\ At(Target \div Base, Target % Base) = Target
    BY <1>2, TargetFits, SplitTime DEF IInv
  <2>2. mtime_cmp = At(Target \div Base, Base - 1)
    BY <1>2 DEF IInv, CompareInv, mtime_cmp, At
  <2>3. (Target \div Base) * Base \in Nat
    BY <2>1, AtType
  <2>4. QED
    BY <2>1, <2>2, <2>3, TimerAssumption DEF At, Word
<1>3. QED
  BY <1>1, <1>2 DEF CompareNeverEarly

\* While the compare value is moved it stands neither before the old deadline nor,
\* once its high word is the new one, before the new one (main.c:43-47).
THEOREM ComparesAreNeverEarly == TimerSpec => []CompareNeverEarly
BY TimerInvariant, NeverEarly, PTL

\* machine_timer_handler is entered at or after the deadline programmed last,
\* and that deadline is a full period after the read it was computed from: the
\* control loop never runs twice within TIMER_PERIOD_TICKS.
THEOREM HandlersAreNotEarly == TimerSpec => HandlerIsNotEarly
<1>1. IInv /\ [TimerNext]_sysVars =>
         [TakeInterrupt => mtime >= deadline /\ deadline >= started + Period]_sysVars
  BY DEF TakeInterrupt, Keep, irq_o, IInv, CompareInv
<1>2. QED
  BY <1>1, TimerInvariant, PTL DEF TimerSpec, HandlerIsNotEarly
=============================================================================
