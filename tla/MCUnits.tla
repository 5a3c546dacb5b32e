------------------------------- MODULE MCUnits -------------------------------
(***************************************************************************)
(* Values for the benches of Units.                                        *)
(***************************************************************************)
EXTENDS Units

\* Two addresses, one of them in the middle, one beyond the depth of three;
\* words of one, two and, too long for a word, three digits; a comment of each
\* kind.  All files of up to four lexemes.
At(a) == [kind |-> "at", address |-> a]
W(digits) == [kind |-> "word", digits |-> digits]
Comment(kind) == [kind |-> kind, text |-> <<W(<<12>>)>>]

Lexeme == {At(0), At(1), At(3), W(<<5>>), W(<<1, 0>>), W(<<1, 2, 3>>),
           Comment("block"), Comment("line")}

MCFiles == UNION {[1 .. n -> Lexeme] : n \in 0 .. 4}

\* A long command has three bytes, and bytes that are commands of their own.
MCCommand == {<<0>>, <<1>>, <<4>>, <<2, 0, 4>>, <<2, 4, 0>>, <<9, 1, 1>>}

\* Words of five bits: gains from -4 to 3.75, errors and responses that wrap.
MCGain == {0, 3, 15, -16}
MCSetpoint == {0, 7, -16}
MCReading == {0, 5, -8}
=============================================================================
