----------------------------- MODULE MCConsole -----------------------------
(* A small instance of Console for TLC. *)
EXTENDS Console

MCPieces == {[n \in 1 .. 16 |-> Bits(64 + n)]}

\* Nothing more, or three characters.
MCTails == {Zero, [n \in 1 .. 16 |-> IF n <= 3 THEN Bits(96 + n) ELSE {}]}

\* A zero byte at once, or another character before it.
MCBehind == {<<>>, <<Bits(120)>>}
=============================================================================
