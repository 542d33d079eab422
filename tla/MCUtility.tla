----------------------------- MODULE MCUtility -----------------------------
(* A small instance of Utility for TLC. *)
EXTENDS Utility

CONSTANTS ann, bob

MCSenders == {ann, bob}
MCKillable == {ann}
MCLead == [s \in Senders |-> 0]

MCNames == {"d", "f.txt"}
MCShort == {"d"}
MCExtension == [n \in Names |-> IF n = "f.txt" THEN "txt" ELSE "none"]

\* Both send files of one name, of one block.
MCFileName == [s \in Senders |-> "f.txt"]

MCLine(n) == <<[inode |-> 1000 + n, name |-> "junk"]>>
MCTexts == {MCLine(1), MCLine(2)}
MCFileText == [s \in Senders |-> <<IF s = ann THEN MCLine(1) ELSE MCLine(2)>>]
=============================================================================
