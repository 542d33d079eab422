----------------------------- MODULE MCTransfer -----------------------------
(* A small instance of Transfer and its claims for TLC. *)
EXTENDS TransferClaims

CONSTANTS a, b, c
MCSenders == {a, b, c}
MCTwoSenders == {a, b}
MCKillable == {a}

\* c's clock is a second behind.
MCLeadBehind == [s \in Senders |-> IF s = c THEN -1 ELSE 0]

\* b's clock is a second ahead, c's a second behind.
MCLead == [s \in Senders |-> IF s = b THEN 1 ELSE IF s = c THEN -1 ELSE 0]

\* a's file fills an inode, the others are empty.
MCFileBlocks == [s \in Senders |-> IF s = a THEN MAX_BLOCK_COUNT ELSE 0]

\* a and b send files of one name, c one that create_file refuses.
MCFileName == [s \in Senders |-> IF s = c THEN "d" ELSE "f.txt"]
MCShort == {"d"}
MCRoot == <<"g.txt">>
MCRootOfOne == <<"f.txt">>
=============================================================================
