---------------------------- MODULE MCUartTxLink ----------------------------
(***************************************************************************)
(* Instances of UartTxLink for TLC: frames of two data bits, a FIFO of     *)
(* four cells, a bit of eight cycles.                                      *)
(***************************************************************************)
EXTENDS UartTxLink

B(b0, b1) == [i \in 0 .. 1 |-> IF i = 0 THEN b0 ELSE b1]

MCDivisor == [s \in {"off", "on"} |-> IF s = "on" THEN 8 ELSE 0]

\* Four bytes that differ.
MCWord == {[l \in Lane |-> B(l \in {0, 2}, l \in {1, 2})]}
MCEnable == {{0}, Lane}
=============================================================================
