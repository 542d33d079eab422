-------------------------------- MODULE MCUi --------------------------------
(* A small instance of Ui for TLC. *)
EXTENDS Ui

\* Every text of at most five characters, of two letters and the new line.
MCTexts == UNION {[1 .. n -> {"a", "b", NewLine}] : n \in 0 .. 5}

\* The rows above, of and below the buttons.
MCRows == 0 .. 10
=============================================================================
