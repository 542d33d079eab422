------------------------------- MODULE MCSfs -------------------------------
(* Small instances of Sfs and its claims for TLC. *)
EXTENDS SfsClaims

MCNames == {"d", "f.txt"}
MCOneName == {"f.txt"}
MCShort == {"d"}
MCExtension == [n \in Names |-> IF n = "f.txt" THEN "txt" ELSE "none"]

\* What text is read as where a directory is expected: 36 characters name an
\* inode that no table has; one character may be the number of an inode, as a
\* whole text or at the end of a text of 37.
MCLong  == [inode |-> 1000, name |-> "junk"]
MCShortText == [inode |-> 2, name |-> "junk"]

MCLine  == <<MCLong>>
MC37    == <<MCLong, MCShortText>>
MCBlock == [k \in 1 .. DirCapacity |-> MCLong]

\* A line, a whole block.
MCTexts == {MCLine, MCBlock}

\* One character, a whole block.
MCAnyTexts == {<<MCShortText>>, MCBlock}

\* A line, a text whose last entry names an inode.
MCLongTexts == {MCLine, MC37}
=============================================================================
