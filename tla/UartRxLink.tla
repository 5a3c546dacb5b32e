----------------------------- MODULE UartRxLink -----------------------------
(***************************************************************************)
(* Reception end to end: the injector of the simulation                    *)
(* (dv/verilator/peripherals/sim_uart.hpp) drives rx_i, the firmware's     *)
(* polling loop (src/sw/main.c) reads STATUS and then RX, and the UVM      *)
(* scoreboard's queue rx_expected says what it should read.                *)
(***************************************************************************)
EXTENDS UartObi

CONSTANTS
    Baud,            \* the selector the firmware programs
    BootCycles,      \* BAUD is written at the latest this long after reset
    Sent             \* bytes the peer sends

ASSUME LinkAssumption ==
    /\ Baud \in Selector
    /\ BootCycles \in Nat
    /\ Sent \subseteq Byte

\* The injector counts a cycle less per bit than the receiver, whose sample moves
\* from the middle of the start bit towards the end of the stop bit.  The
\* synchroniser and the restart of the counter take six cycles more.  At the
\* highest rate, 50 MHz / 230400, half a bit has 109 cycles.
ASSUME SampleAssumption == Divisor[Baud] - Divisor[Baud] \div 2 >= DataBits + 8

VARIABLES
    inj,             \* the injector: state, data_ready, data, ticks, bit
    settled,         \* the receiver has seen an idle line with the baud rate set
    loop,            \* where the polling loop stands
    rx_expected      \* bytes sent, not yet read and not dropped, oldest first

linkVars == <<vars, inj, settled, loop, rx_expected>>

-----------------------------------------------------------------------------
\* UARTInjector::tick with ticks_per_baud equal to the divisor: the next state
\* and the level it puts on the line.

Tpb == Divisor[Baud]
Last == inj.ticks + 1 = Tpb - 1

InjIdle ==
    /\ inj.state = "IDLE"
    /\ inj' = IF inj.data_ready
              THEN [inj EXCEPT !.state = "START", !.data_ready = FALSE, !.ticks = 0]
              ELSE inj
    /\ rx_i' = TRUE

InjStart ==
    /\ inj.state = "START"
    /\ inj' = IF Last THEN [inj EXCEPT !.state = "DATA", !.bit = 0, !.ticks = 0]
              ELSE [inj EXCEPT !.ticks = @ + 1]
    /\ rx_i' = FALSE

\* The bit index moves before the level is chosen.
InjData ==
    /\ inj.state = "DATA"
    /\ IF ~Last
       THEN inj' = [inj EXCEPT !.ticks = @ + 1] /\ rx_i' = inj.data[inj.bit]
       ELSE IF inj.bit + 1 = DataBits
       THEN inj' = [inj EXCEPT !.state = "STOP", !.ticks = 0, !.bit = 0] /\ rx_i' = TRUE
       ELSE inj' = [inj EXCEPT !.ticks = 0, !.bit = @ + 1] /\ rx_i' = inj.data[inj.bit + 1]

InjStop ==
    /\ inj.state = "STOP"
    /\ inj' = IF Last THEN [inj EXCEPT !.state = "IDLE", !.ticks = 0]
              ELSE [inj EXCEPT !.ticks = @ + 1]
    /\ rx_i' = TRUE

InjectorTick == InjIdle \/ InjStart \/ InjData \/ InjStop

-----------------------------------------------------------------------------
\* The scoreboard.  A byte read is struck off at the front, a byte the full
\* FIFO refuses at the back.

Reads == device_state = "READ" /\ latch.addr = "RX"
Completes == rx_state = "STOP" /\ rx_baud /\ line
Drops == Completes /\ rx_full

StruckOff == IF Reads /\ rx_expected # <<>> THEN Tail(rx_expected) ELSE rx_expected

Scoreboard ==
    rx_expected' = IF Drops /\ StruckOff # <<>>
                   THEN SubSeq(StruckOff, 1, Len(StruckOff) - 1)
                   ELSE StruckOff

-----------------------------------------------------------------------------
\* The host: BAUD first (main.c:98), then `if !RX_EMPTY: command[len++] = RX`.

Blank == [we |-> FALSE, addr |-> "STS", be |-> Lane,
          bytes |-> [l \in Lane |-> ZeroByte], baud |-> Baud]

Raise(r) == req = None /\ req' = r /\ UNCHANGED <<uartVars, rx_i, inj, settled, rx_expected>>

WriteBaud ==
    /\ loop = "boot"
    /\ tx_baud_counter <= BootCycles
    /\ Raise([Blank EXCEPT !.we = TRUE, !.addr = "BAUD"])
    /\ loop' = "setup"

PollStatus == loop = "poll" /\ Raise(Blank) /\ loop' = "status"

ReadByte == loop = "ready" /\ Raise([Blank EXCEPT !.addr = "RX"]) /\ loop' = "byte"

\* The host takes a response at the clock edge that shows it.
Respond ==
    loop' = IF ~rvalid THEN loop
            ELSE IF loop = "status" /\ ~rdata.val.rx_empty THEN "ready"
            ELSE "poll"

\* UARTInjector::inject.  The peer is quiet until the receiver is set up.
Inject(b) ==
    /\ settled
    /\ inj.state = "IDLE" /\ ~inj.data_ready
    /\ inj' = [inj EXCEPT !.data_ready = TRUE, !.data = b]
    /\ rx_expected' = Append(rx_expected, b)
    /\ UNCHANGED <<vars, settled, loop>>

Clock ==
    /\ Edge
    /\ req' = IF gnt_o THEN None ELSE req
    /\ InjectorTick
    /\ Respond
    /\ Scoreboard
    /\ settled' = (settled \/ (ClksPerBit # 0 /\ rx_state = "IDLE" /\ line))

RxInit ==
    /\ Init
    /\ inj = [state |-> "IDLE", data_ready |-> FALSE, data |-> ZeroByte,
              ticks |-> 0, bit |-> 0]
    /\ settled = FALSE
    /\ loop = "boot"
    /\ rx_expected = <<>>

Next ==
    \/ WriteBaud \/ PollStatus \/ ReadByte
    \/ \E b \in Sent : Inject(b)
    \/ Clock

Spec == RxInit /\ [][Next]_linkVars

\* The clock runs, the firmware boots and its loop goes round.
FairSpec == Spec /\ WF_linkVars(Clock) /\ WF_linkVars(PollStatus) /\ WF_linkVars(ReadByte)

-----------------------------------------------------------------------------

LinkTypeOK ==
    /\ TypeOK
    /\ inj.state \in TxState /\ inj.data_ready \in BOOLEAN /\ inj.data \in Byte
    /\ inj.ticks \in 0 .. Tpb /\ inj.bit \in 0 .. DataBits - 1
    /\ settled \in BOOLEAN
    /\ loop \in {"boot", "setup", "poll", "status", "ready", "byte"}
    /\ rx_expected \in Seq(Byte)

\* The contents of the receive FIFO, oldest first.
RxFifo ==
    LET n == IF rx_buf_start <= rx_buf_end THEN rx_buf_end - rx_buf_start
             ELSE rx_buf_end - rx_buf_start + BufferLength
    IN  [i \in 1 .. n |-> rx_buf[(rx_buf_start + i - 1) % BufferLength]]

\* The FIFO holds exactly the bytes sent and not read, in order and without a
\* frame misread or invented; at most the one on the line is missing.  An
\* overflow costs the byte that arrives and never one that is stored, although
\* its data is written into the buffer (uart_obi.sv:322-326).
FifoHoldsWhatWasSent ==
    \E n \in 0 .. 1 :
        /\ Len(RxFifo) + n = Len(rx_expected)
        /\ RxFifo = SubSeq(rx_expected, 1, Len(RxFifo))

\* The loop reads RX after a STATUS that said "not empty", and the FIFO is
\* still not empty when the read takes effect: the zero that an empty FIFO
\* reads as (uart_obi.sv:184) is never taken for a byte.
PollIsStillTrue == Reads => ~rx_empty

\* The bytes the loop reads are those sent, in order (obi_uart_scoreboard.svh,
\* write_obi).
ReadAsSent ==
    [][Clock /\ Reads => rx_expected # <<>> /\ rdata'.val = Head(rx_expected)]_linkVars

\* A byte that is sent is read, or dropped, in the end.
SentIsReadOrDropped == rx_expected # <<>> ~> Reads \/ Drops
=============================================================================
