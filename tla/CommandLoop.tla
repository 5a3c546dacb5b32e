----------------------------- MODULE CommandLoop -----------------------------
(***************************************************************************)
(* The main loop of src/sw/main.c as the host sees it: commands of one or  *)
(* of six bytes come through the receive FIFO one byte per round, reports  *)
(* go out when the timer's tick asks for one, and whoever writes to a full *)
(* transmit FIFO waits, with the loop and all it should be doing.          *)
(*                                                                         *)
(* The PD controllers are one flag here; StableHandshake has them.         *)
(***************************************************************************)
EXTENDS Integers, Sequences, SequencesExt

CONSTANTS
    Command,         \* what the host sends, sequences of one byte (0, 1 or 4) or
                     \* of CommandLength bytes that begin with another one
    CommandLength,   \* bytes of a long command (6 in the code)
    ReportBytes,     \* bytes of a report (10 in the code)
    AnswerBytes,     \* bytes of the answer to command 0 (2 in the code)
    RxSize, TxSize,  \* bytes the FIFOs hold
    MaxCommands      \* bound: commands in a behaviour

VARIABLES
    left,            \* commands the host may still send
    line,            \* bytes of a command that are on their way
    rx, tx,          \* the receive FIFO; how many bytes are in the transmit FIFO
    command, finished, streaming, print, message_sent, stable,
    pc, puts,        \* the loop's next step; bytes it has to write first
    unread,          \* history: commands sent and not yet executed
    lost             \* history: the receive FIFO dropped a byte

hostVars == <<left, line, unread>>
flags == <<streaming, print, message_sent, stable>>
vars == <<hostVars, rx, tx, command, finished, flags, pc, puts, lost>>

-----------------------------------------------------------------------------
\* The host, the wire and the interrupt handlers.

Send ==
    /\ left > 0 /\ line = <<>>
    /\ left' = left - 1
    /\ \E c \in Command : line' = c /\ unread' = Append(unread, c)
    /\ UNCHANGED <<rx, tx, command, finished, flags, pc, puts, lost>>

Arrive ==
    /\ line # <<>>
    /\ line' = Tail(line)
    /\ IF Len(rx) < RxSize THEN rx' = Append(rx, Head(line)) /\ UNCHANGED lost
       ELSE lost' = TRUE /\ UNCHANGED rx
    /\ UNCHANGED <<left, unread, tx, command, finished, flags, pc, puts>>

Drain ==
    /\ tx > 0 /\ tx' = tx - 1
    /\ UNCHANGED <<hostVars, rx, command, finished, flags, pc, puts, lost>>

Tick ==
    /\ ~print /\ print' = TRUE
    /\ UNCHANGED <<hostVars, rx, tx, command, finished, streaming, message_sent, stable, pc, puts, lost>>

Settle ==
    /\ ~stable /\ stable' = TRUE
    /\ UNCHANGED <<hostVars, rx, tx, command, finished, streaming, message_sent, print, pc, puts, lost>>

-----------------------------------------------------------------------------
\* Fault: a byte that could be a short command ends the one at hand.
EndsAnywhere(c) == Last(c) \in {0, 1, 4} \/ Len(c) = CommandLength

\* Fault: streaming is no short command.
EndsWithoutFour(c) == (Len(c) = 1 /\ c[1] \in {0, 1}) \/ Len(c) = CommandLength

Ends(c) == (Len(c) = 1 /\ c[1] \in {0, 1, 4}) \/ Len(c) = CommandLength

\* STATUS, then RX; then `if (streaming && print)`.
Receive ==
    /\ pc = "receive"
    /\ IF rx = <<>> THEN UNCHANGED <<rx, command, finished>>
       ELSE /\ rx' = Tail(rx)
            /\ command' = Append(command, Head(rx))
            /\ finished' = Ends(command')
    /\ IF streaming /\ print THEN pc' = "report" /\ puts' = ReportBytes
       ELSE pc' = "stable" /\ UNCHANGED puts
    /\ UNCHANGED <<hostVars, tx, flags, lost>>

\* uart_putc, uart_putw: wait while the FIFO is full.  The last bytes of a word
\* wait for room in the UART, and the store with them.
Write ==
    /\ puts > 0 /\ puts' = puts - 1
    /\ tx < TxSize /\ tx' = tx + 1
    /\ UNCHANGED <<hostVars, rx, command, finished, flags, pc, lost>>

\* The end of a report clears `print`, whatever came meanwhile.
Reported ==
    /\ pc = "report" /\ puts = 0
    /\ print' = FALSE
    /\ pc' = "stable"
    /\ UNCHANGED <<hostVars, rx, tx, command, finished, streaming, message_sent, stable, puts, lost>>

\* `if (!message_sent && stable_x && stable_y)`
SendStable ==
    /\ pc = "stable" /\ puts = 0
    /\ IF ~message_sent /\ stable THEN message_sent' = TRUE /\ puts' = 1
       ELSE UNCHANGED <<message_sent, puts>>
    /\ pc' = "execute"
    /\ UNCHANGED <<hostVars, rx, tx, command, finished, streaming, print, stable, lost>>

Idle ==
    /\ pc = "execute" /\ puts = 0
    /\ ~finished
    /\ pc' = "receive"
    /\ UNCHANGED <<hostVars, rx, tx, command, finished, flags, puts, lost>>

\* A setpoint that differs from the register's starts a move; gains, the sample
\* rate and the servo only go to their registers; other bytes mean nothing.
Execute ==
    /\ pc = "execute" /\ puts = 0
    /\ finished
    /\ streaming' = (IF command[1] = 4 THEN ~streaming ELSE streaming)
    /\ \/ /\ command[1] = 2 /\ command[2] \in {0, 1}
          /\ stable' = FALSE /\ message_sent' = FALSE
       \/ UNCHANGED <<stable, message_sent>>
    /\ puts' = IF command[1] = 0 THEN AnswerBytes ELSE 0
    /\ command' = <<>> /\ finished' = FALSE
    /\ unread' = IF unread = <<>> THEN unread ELSE Tail(unread)
    /\ pc' = "answer"
    /\ UNCHANGED <<left, line, rx, tx, print, lost>>

Answered ==
    /\ pc = "answer" /\ puts = 0
    /\ pc' = "receive"
    /\ UNCHANGED <<hostVars, rx, tx, command, finished, flags, puts, lost>>

Main == Receive \/ Write \/ Reported \/ SendStable \/ Idle \/ Execute \/ Answered

Init ==
    /\ left = MaxCommands /\ line = <<>> /\ unread = <<>> /\ lost = FALSE
    /\ rx = <<>> /\ tx = 0
    /\ command = <<>> /\ finished = FALSE
    /\ streaming = FALSE /\ print = FALSE /\ message_sent = FALSE /\ stable = TRUE
    /\ pc = "receive" /\ puts = 0

Next == Send \/ Arrive \/ Drain \/ Tick \/ Settle \/ Main

\* The processor runs, bytes on the wire arrive and the host takes what it is sent.
Fairness == WF_vars(Main) /\ WF_vars(Arrive) /\ WF_vars(Drain)

-----------------------------------------------------------------------------
\* As long as no byte was dropped the firmware takes the byte stream apart where
\* the host put it together: what it executes is the command sent next, though
\* the bytes in a long command may look like short ones.
FramesAreCommands ==
    finished /\ ~lost => unread # <<>> /\ command = Head(unread)

\* And it gets to every one of them, however many reports and answers wait for
\* room to be sent; only a dropped byte keeps a command from being executed.
SentIsExecuted == unread # <<>> ~> unread = <<>> \/ lost
=============================================================================
