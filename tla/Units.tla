-------------------------------- MODULE Units --------------------------------
(***************************************************************************)
(* The parts that work for themselves, each on a bench of its own: a       *)
(* behaviour is one of one part, `unit` says which, and nothing else       *)
(* moves.  Their properties say nothing of the parts that rest.  The       *)
(* system timer is SysTimer, which this module extends.                    *)
(***************************************************************************)
EXTENDS SysTimer, Sequences, FiniteSets, SequencesExt

CONSTANTS
    None,
    Files, Depth, MaxDigits,                                \* FirmwareImage
    Command, CommandLength, ReportBytes, AnswerBytes, RxSize, TxSize,
    MaxCommands,                                            \* CommandLoop
    Reach,                                                  \* QuadDecoder
    MaxPeriod,                                              \* ServoPwm
    Width, Fraction, CounterBits, DutyBits, BASE_PWM,
    Gain, Rate, Setpoint, Reading                           \* MotorDrive

\* Where a command ends its first byte tells: shape.c and ppcsender.c send
\* single bytes 0, 1 and 4, and CommandLength bytes that begin with another.
ASSUME CommandAssumption ==
    /\ CommandLength \in Nat \ {0, 1}
    /\ \A c \in Command :
          \/ \E b \in {0, 1, 4} : c = <<b>>
          \/ c \in Seq(Nat) /\ Len(c) = CommandLength /\ c[1] \notin {0, 1, 4}

ASSUME PwmAssumption == MaxPeriod \in Nat

ASSUME DriveAssumption ==
    /\ Width \in Nat \ {0} /\ Fraction \in Nat /\ CounterBits \in Nat /\ DutyBits \in Nat
    /\ Gain \subseteq Int /\ Rate \subseteq Nat /\ Setpoint \subseteq Int /\ Reading \subseteq Int
    /\ BASE_PWM \in 0 .. 2 ^ DutyBits - 1

\* Not an assumption about the code: true for any number of bits, and stated
\* because the provers have no theory of powers.
ASSUME PowerAssumption ==
    /\ \A n \in 0 .. Width : 2 ^ n \in Nat \ {0}
    /\ 2 ^ Width = 2 * 2 ^ (Width - 1)
    /\ 2 ^ DutyBits \in Nat \ {0}

VARIABLES
    unit,
    vmem, mif, step, line,                                  \* FirmwareImage
    left, wire, unread, rx, tx, command, finished, streaming, print,
    message_sent, stable, pc, puts, lost,                   \* CommandLoop
    shaft, latch, state, tick_position, seen, origin,       \* QuadDecoder
    period, pulse, counter, outs,                           \* ServoPwm
    kp, kd, rs, sp, pv, pv_prev, sample                     \* MotorDrive

imageVars == <<vmem, mif, step, line>>
loopVars == <<left, wire, unread, rx, tx, command, finished, streaming, print,
              message_sent, stable, pc, puts, lost>>
quadVars == <<shaft, latch, state, tick_position, seen, origin>>
pwmVars == <<period, pulse, counter, outs>>
driveVars == <<kp, kd, rs, sp, pv, pv_prev, sample>>
vars == <<unit, imageVars, loopVars, quadVars, pwmVars, driveVars, sysVars>>

-----------------------------------------------------------------------------
Image == INSTANCE FirmwareImage
Loop == INSTANCE CommandLoop WITH line <- wire
Quad == INSTANCE QuadDecoder
Pwm == INSTANCE ServoPwm
Drive == INSTANCE MotorDrive

ASSUME ImageAssumption ==
    /\ Files \subseteq Seq(Image!Lexeme)
    /\ Depth \in Nat \ {0} /\ MaxDigits \in Nat \ {0}

-----------------------------------------------------------------------------
Init ==
    /\ unit \in {"image", "loop", "quad", "pwm", "drive", "timer"}
    /\ IF unit = "image" THEN Image!Init
       ELSE vmem = <<>> /\ mif = None /\ step = "start" /\ line = 0
    /\ Loop!Init
    /\ IF unit = "quad" THEN Quad!Init
       ELSE Quad!Init /\ shaft = 0
    /\ Pwm!Init
    /\ Drive!Init
    /\ TimerInit

ImageMoves ==
    /\ unit = "image" /\ Image!Next
    /\ UNCHANGED <<unit, loopVars, quadVars, pwmVars, driveVars, sysVars>>

LoopMoves ==
    /\ unit = "loop" /\ Loop!Next
    /\ UNCHANGED <<unit, imageVars, quadVars, pwmVars, driveVars, sysVars>>

QuadMoves ==
    /\ unit = "quad" /\ Quad!Next
    /\ UNCHANGED <<unit, imageVars, loopVars, pwmVars, driveVars, sysVars>>

PwmMoves ==
    /\ unit = "pwm" /\ Pwm!Next
    /\ UNCHANGED <<unit, imageVars, loopVars, quadVars, driveVars, sysVars>>

DriveMoves ==
    /\ unit = "drive" /\ Drive!Next
    /\ UNCHANGED <<unit, imageVars, loopVars, quadVars, pwmVars, sysVars>>

TimerMoves ==
    /\ unit = "timer" /\ TimerNext
    /\ UNCHANGED <<unit, imageVars, loopVars, quadVars, pwmVars, driveVars>>

Next == ImageMoves \/ LoopMoves \/ QuadMoves \/ PwmMoves \/ DriveMoves \/ TimerMoves

\* The clock of the drive goes on; the loop and the timer have the fairness they
\* ask for.
Spec ==
    /\ Init /\ [][Next]_vars
    /\ WF_vars(DriveMoves)
    /\ unit = "loop" => Loop!Fairness
    /\ unit = "timer" => TimerFairness

-----------------------------------------------------------------------------
\* FirmwareImage: the .mif file holds what $readmemh would have loaded.
MifIsTheImage == Image!MifIsTheImage

\* CommandLoop: without a lost byte, commands are executed as they were sent...
FramesAreCommands == Loop!FramesAreCommands

\* ...and every one of them is.
SentIsExecuted == Loop!SentIsExecuted

\* QuadDecoder: the count is the distance from where it was cleared.
PositionIsExact == Quad!PositionIsExact

\* ServoPwm: whatever was written when, a period has the pulse asked for.
PulseIsAsProgrammed == Pwm!PulseIsAsProgrammed

\* MotorDrive: the response is exact if the error, the speed and it itself fit.
OnlyTheSumMustFit == Drive!OnlyTheSumMustFit

\* MotorDrive: a larger response never drives the motor less.
DriveIsMonotone == Drive!DriveIsMonotone

\* MotorDrive: samples keep coming after a change of RS.
SamplingGoesOn == unit = "drive" => Drive!SamplingGoesOn
=============================================================================
