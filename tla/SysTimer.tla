------------------------------ MODULE SysTimer ------------------------------
(***************************************************************************)
(* The system timer, src/rtl/obi_sys_timer.sv, and the firmware that       *)
(* drives it: reading a time that is two registers wide while it runs, and *)
(* moving the compare value, also two registers wide, while it is          *)
(* compared (src/sw/main.c).                                               *)
(*                                                                         *)
(* Every step is a clock edge.  The timer counts; the firmware makes at    *)
(* most one register access, and may be any number of edges late.          *)
(***************************************************************************)
EXTENDS Integers

CONSTANTS
    Base,            \* values of one register word (2^32 in the code)
    Period,          \* TIMER_PERIOD_TICKS
    MaxTime          \* bound: the clock stands still from here on

ASSUME TimerAssumption ==
    /\ Base \in Nat \ {0, 1}
    /\ Period \in Nat \ {0}
    /\ MaxTime \in Nat
    /\ MaxTime + Period < Base * Base

Word == 0 .. Base - 1

VARIABLES
    hi, lo,              \* MTIME_HI, MTIME_LO
    cmp_hi, cmp_lo,      \* MTIMECMP_HI, MTIMECMP_LO
    enable, irq_enable,  \* the bits of CONTROL
    access,              \* the firmware's next access
    booting,             \* timer_init is running, not the handler
    hi0, lo0, hi1,       \* locals of timer_read_mtime
    started,             \* history: the time when the read began
    deadline             \* history: the compare value programmed last

timerVars == <<hi, lo, cmp_hi, cmp_lo, enable, irq_enable>>
sysVars == <<timerVars, access, booting, hi0, lo0, hi1, started, deadline>>

mtime == hi * Base + lo
mtime_cmp == cmp_hi * Base + cmp_lo

\* Faults: only the low words are compared, or they are compared for equality.
IrqLowWord == irq_enable /\ enable /\ lo >= cmp_lo
IrqWhenEqual == irq_enable /\ enable /\ mtime = mtime_cmp

irq_o == irq_enable /\ enable /\ mtime >= mtime_cmp

\* The time the firmware has read, and the deadline it makes of it.
ReadTime == hi1 * Base + lo0
Target == ReadTime + Period

-----------------------------------------------------------------------------
\* One clock edge of the timer: a carry goes from the low to the high word.

\* Fault: the low word does not carry.
CountNoCarry ==
    IF enable /\ mtime < MaxTime
    THEN lo' = lo + 1 /\ UNCHANGED hi
    ELSE UNCHANGED <<hi, lo>>

Count ==
    IF enable /\ mtime < MaxTime
    THEN /\ lo' = IF lo = Base - 1 THEN 0 ELSE lo + 1
         /\ hi' = IF lo = Base - 1 THEN hi + 1 ELSE hi
    ELSE UNCHANGED <<hi, lo>>

Keep(stage) == UNCHANGED <<enable, irq_enable, booting, deadline, started>> /\ access = stage

-----------------------------------------------------------------------------
\* timer_read_mtime (main.c:29-41).  A load sees the register as it stands
\* before the edge that accepts it.

ReadHi0 ==
    /\ access = "hi0" /\ access' = "lo"
    /\ hi0' = hi /\ started' = mtime
    /\ Count
    /\ UNCHANGED <<cmp_hi, cmp_lo, enable, irq_enable, booting, lo0, hi1, deadline>>

ReadLo ==
    /\ Keep("lo") /\ access' = "hi1"
    /\ lo0' = lo
    /\ Count
    /\ UNCHANGED <<cmp_hi, cmp_lo, hi0, hi1>>

\* Fault: the high word is not read again and compared.
ReadHi1Unchecked ==
    /\ Keep("hi1")
    /\ hi1' = hi
    /\ access' = "cmp_max"
    /\ Count
    /\ UNCHANGED <<cmp_hi, cmp_lo, hi0, lo0>>

ReadHi1 ==
    /\ Keep("hi1")
    /\ hi1' = hi
    /\ access' = IF hi = hi0 THEN "cmp_max" ELSE "hi0"
    /\ Count
    /\ UNCHANGED <<cmp_hi, cmp_lo, hi0, lo0>>

\* Fault: the low word is not raised before the high word is written.
WriteNoMax ==
    /\ Keep("cmp_max") /\ access' = "cmp_hi"
    /\ Count
    /\ UNCHANGED <<cmp_hi, cmp_lo, hi0, lo0, hi1>>

\* timer_write_mtimecmp (main.c:43-47).
WriteMax ==
    /\ Keep("cmp_max") /\ access' = "cmp_hi"
    /\ cmp_lo' = Base - 1
    /\ Count
    /\ UNCHANGED <<cmp_hi, hi0, lo0, hi1>>

WriteHi ==
    /\ Keep("cmp_hi") /\ access' = "cmp_lo"
    /\ cmp_hi' = Target \div Base
    /\ Count
    /\ UNCHANGED <<cmp_lo, hi0, lo0, hi1>>

WriteLo ==
    /\ access = "cmp_lo" /\ access' = IF booting THEN "control" ELSE "run"
    /\ cmp_lo' = Target % Base
    /\ deadline' = Target
    /\ Count
    /\ UNCHANGED <<cmp_hi, enable, irq_enable, booting, hi0, lo0, hi1, started>>

\* TIMER->CONTROL = ENABLE | IRQ_ENABLE (main.c:63).
WriteControl ==
    /\ access = "control" /\ access' = "run"
    /\ enable' = TRUE /\ irq_enable' = TRUE /\ booting' = FALSE
    /\ Count
    /\ UNCHANGED <<cmp_hi, cmp_lo, hi0, lo0, hi1, started, deadline>>

\* machine_timer_handler is entered; it reads the time and moves the deadline.
TakeInterrupt ==
    /\ Keep("run") /\ access' = "hi0"
    /\ irq_o
    /\ Count
    /\ UNCHANGED <<cmp_hi, cmp_lo, hi0, lo0, hi1>>

\* The firmware is elsewhere, or the bus keeps it waiting.
Wait == Count /\ UNCHANGED <<cmp_hi, cmp_lo, enable, irq_enable, access, booting, hi0, lo0,
                             hi1, started, deadline>>

Firmware ==
    ReadHi0 \/ ReadLo \/ ReadHi1 \/ WriteMax \/ WriteHi \/ WriteLo \/ WriteControl
    \/ TakeInterrupt

TimerNext == Firmware \/ Wait

\* Reset; timer_init begins (main.c:61-65).
TimerInit ==
    /\ hi = 0 /\ lo = 0
    /\ cmp_hi = Base - 1 /\ cmp_lo = Base - 1
    /\ enable = FALSE /\ irq_enable = FALSE
    /\ access = "hi0" /\ booting = TRUE
    /\ hi0 = 0 /\ lo0 = 0 /\ hi1 = 0
    /\ started = 0
    /\ deadline = Base * Base - 1

TimerSpec == TimerInit /\ [][TimerNext]_sysVars

\* The clock runs and the firmware makes its accesses; once enabled an
\* interrupt is taken.
TimerFairness == WF_sysVars(TimerNext) /\ WF_sysVars(Firmware)

-----------------------------------------------------------------------------

TimerTypeOK ==
    /\ hi \in Word /\ lo \in Word /\ cmp_hi \in Word /\ cmp_lo \in Word
    /\ enable \in BOOLEAN /\ irq_enable \in BOOLEAN /\ booting \in BOOLEAN
    /\ access \in {"hi0", "lo", "hi1", "cmp_max", "cmp_hi", "cmp_lo", "control", "run"}
    /\ hi0 \in Word /\ lo0 \in Word /\ hi1 \in Word
    /\ started \in Nat /\ deadline \in Nat

\* Although the low word carries into the high one between the loads, the time
\* that is put together was the time at some moment during the read.
ReadIsCurrent ==
    access \in {"cmp_max", "cmp_hi", "cmp_lo"} => started <= ReadTime /\ ReadTime <= mtime

\* While the compare value is moved, word by word, it does not stand before the
\* old deadline, and once its high word is the new one not before the new one:
\* the interrupt line shows no deadline that nobody asked for.
CompareNeverEarly ==
    /\ access = "cmp_hi" => mtime_cmp >= deadline
    /\ access = "cmp_lo" => mtime_cmp >= Target

\* The handler runs at or after the deadline that was programmed last, and a
\* full period after the moment its time was read.
HandlerIsNotEarly ==
    [][TakeInterrupt => mtime >= deadline /\ deadline >= started + Period]_sysVars

\* The timer keeps interrupting: a deadline within the bound is met.
DeadlineIsMet == access = "run" /\ deadline < MaxTime ~> access # "run"
=============================================================================
