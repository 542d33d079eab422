------------------------------ MODULE SfsClaims ------------------------------
(***************************************************************************)
(* What the messages of the program and its documents say of the file      *)
(* system and the code does not keep, checked by a run that finds the      *)
(* behaviour contradicting it.                                             *)
(***************************************************************************)
EXTENDS Sfs

\* A file that the named directory has not got cannot be deleted: the entry
\* removed is one of that directory.
DeletedFileWasThere ==
    [][\A d \in Parents, n \in Names :
          DeleteFile(d, n) => ~Absent(EntriesOf(d), n)]_vars
=============================================================================
