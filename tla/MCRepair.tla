------------------------------ MODULE MCRepair ------------------------------
(* A small instance of Repair for TLC. *)
EXTENDS Repair

MCNames == {"d", "f.txt"}
MCShort == {"d"}
MCExtension == [n \in Names |-> IF n = "f.txt" THEN "txt" ELSE "none"]

MCLong  == [inode |-> 1000, name |-> "junk"]
MCShortText == [inode |-> 2, name |-> "junk"]

\* A line, a text whose last entry names an inode.
MCLongTexts == {<<MCLong>>, <<MCLong, MCShortText>>}
=============================================================================
