---------------------------- MODULE MCUartRxLink ----------------------------
(***************************************************************************)
(* Instances of UartRxLink for TLC: frames of two data bits, a bit of      *)
(* twenty cycles.                                                         *)
(***************************************************************************)
EXTENDS UartRxLink

B(b0, b1) == [i \in 0 .. 1 |-> IF i = 0 THEN b0 ELSE b1]

MCDivisor == [s \in {"off", "on"} |-> IF s = "on" THEN 20 ELSE 0]
MCSent == {B(TRUE, FALSE), B(FALSE, TRUE)}
MCOneByte == {B(TRUE, FALSE)}

\* The transmitter never gets a byte here, so once the firmware has booted
\* nothing depends on where the transmit counter stands.
WithoutTxPhase ==
    <<busVars, txVars, rxVars, rx_baud_counter, req, rx_i, inj, settled, loop, rx_expected,
      IF loop = "boot" THEN tx_baud_counter ELSE 0>>
=============================================================================
