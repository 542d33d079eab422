------------------------------- MODULE Repair -------------------------------
(***************************************************************************)
(* The functions of Code/sfs.c that repair or clear an image and that no   *)
(* dialog calls: check_inodes, check_dirs, delete_all, clear_files_data.   *)
(* Each is taken here as the menu would call it, as it calls check_blocks, *)
(* among the operations of Sfs.                                            *)
(*                                                                         *)
(* What there is to repair is harm done to the image from outside, a few   *)
(* times: a mark of the inode bitmap is lost, or the inode number of an    *)
(* entry is spoiled.  On a harmed image only the two checks are followed,  *)
(* until a start makes a new one.                                          *)
(***************************************************************************)
EXTENDS Sfs

CONSTANTS
    Beyond,         \* a number far outside the table
    MaxHarms        \* how often the image is harmed

ASSUME HarmAssumption == Beyond \in Nat \ Inodes /\ MaxHarms \in Nat

VARIABLE harms      \* how often it was, since the start

rvars == <<vars, harms>>

RepairInit ==
    /\ Init
    /\ harms = 0

-----------------------------------------------------------------------------
(* Harm *)

Harmed ==
    /\ mode = "menu"
    /\ harms < MaxHarms
    /\ harms' = harms + 1

LoseMark(i) ==
    /\ Harmed
    /\ bitmap_inode' = bitmap_inode \ {i}
    /\ UNCHANGED <<bitmap_blocks, free_blocks, inode, block, mode, local>>

SpoilEntry(b, k) ==
    /\ Harmed
    /\ \E d \in bitmap_inode : inode[d].type = DIR /\ inode[d].blocks[1] = b
    /\ block' = [block EXCEPT ![b] = [@ EXCEPT ![k].inode = Beyond]]
    /\ UNCHANGED <<bitmap_inode, bitmap_blocks, free_blocks, inode, mode, local>>

-----------------------------------------------------------------------------
(* Going through the directories *)

\* A seeded fault: files are gone through too.
EnteredAny == [p \in Inodes |-> Children(p) \cap Inodes]

\* The recursion enters what is named by p and is a directory.  One without a
\* block has the entries of the root.
Entered == [p \in Inodes |-> {i \in Children(p) \cap Inodes : inode[i].type = DIR}]

\* check_dirs takes the next entry in place of a spoiled one.  Behind the last
\* one is inode number 0, and the root is entered.
EnteredSkipping == [p \in Inodes |-> Entered[p] \cup
    (IF /\ Len(Entries(p)) \in 1 .. DirCapacity - 1
        /\ Last(Entries(p)).inode \notin Inodes
     THEN {Root} ELSE {})]

\* What is gone through from the root, by what each one enters.
Walk(enters) ==
    {i \in Inodes : \A S \in SUBSET Inodes :
        Root \in S /\ (\A p \in S : enters[p] \subseteq S) => i \in S}

EndlessWalk(enters) ==
    \E S \in (SUBSET Walk(enters)) \ {{}} : \A p \in S : enters[p] \cap S # {}

\* The inodes that are named on the way.
Met == UNION {Children(p) : p \in Walk(Entered)}

-----------------------------------------------------------------------------
(* The functions *)

\* A seeded fault: only the root's own entries are marked.
CheckInodesOfRoot ==
    /\ mode = "menu"
    /\ ~EndlessWalk(Entered) /\ Met \subseteq Inodes
    /\ bitmap_inode' = bitmap_inode \cup Children(Root)
    /\ UNCHANGED <<bitmap_blocks, free_blocks, inode, block, mode, local>>

\* What is met is marked in the copy of the superblock that the recursion
\* shares; but each call counts for itself, and the copy is stored only if the
\* root's own entries needed a mark.
CheckInodes ==
    /\ mode = "menu"
    /\ \/ /\ EndlessWalk(Entered) \/ ~(Met \subseteq Inodes)
          /\ Crash
       \/ /\ ~EndlessWalk(Entered) /\ Met \subseteq Inodes
          /\ bitmap_inode' = IF Children(Root) \subseteq bitmap_inode THEN bitmap_inode
                             ELSE bitmap_inode \cup Met
          /\ UNCHANGED <<bitmap_blocks, free_blocks, inode, block, mode, local>>

\* Where the next entry is spoiled too, or a full directory has none, an inode
\* that is not there is read into a variable without a value.
Unread == \E p \in Walk(EnteredSkipping) : \E k \in DOMAIN Entries(p) :
    /\ Entries(p)[k].inode \notin Inodes
    /\ k < Len(Entries(p)) => Entries(p)[k + 1].inode \notin Inodes
    /\ k = Len(Entries(p)) => k = DirCapacity

\* The entries are corrected in a copy of the block that is never stored.
CheckDirs ==
    /\ mode = "menu"
    /\ \/ (EndlessWalk(EnteredSkipping) \/ Unread) /\ Crash
       \/ ~EndlessWalk(EnteredSkipping) /\ UNCHANGED vars

Zeroed(B) == [b \in Blocks |-> IF b \in B THEN <<>> ELSE block[b]]

\* A seeded fault: the bitmap of blocks is cleared and the inodes are not.
DeleteAllMarks ==
    /\ mode = "menu"
    /\ block' = Zeroed(bitmap_blocks)
    /\ bitmap_blocks' = {0}
    /\ UNCHANGED <<bitmap_inode, free_blocks, inode, mode, local>>

\* The bitmaps are left as they are: what was in use is not used again.
DeleteAll ==
    /\ mode = "menu"
    /\ block' = Zeroed(bitmap_blocks)
    /\ inode' = [i \in Inodes |-> IF i \in bitmap_inode \ {Root} THEN ClearNode ELSE inode[i]]
    /\ UNCHANGED <<bitmap_inode, bitmap_blocks, free_blocks, mode, local>>

\* All but the root's block, those of other directories too.
ClearFilesData ==
    /\ mode = "menu"
    /\ block' = Zeroed(bitmap_blocks \ {0})
    /\ UNCHANGED <<bitmap_inode, bitmap_blocks, free_blocks, inode, mode, local>>

-----------------------------------------------------------------------------

RepairNext ==
    \/ \E i \in bitmap_inode \ {Root} : LoseMark(i)
    \/ \E b \in bitmap_blocks : \E k \in DOMAIN block[b] : SpoilEntry(b, k)
    \/ /\ CheckInodes \/ CheckDirs
       /\ UNCHANGED harms
    \/ /\ harms = 0
       /\ Next \/ DeleteAll \/ ClearFilesData
       /\ UNCHANGED harms
    \/ harms > 0 /\ Stop /\ UNCHANGED harms
    \/ harms > 0 /\ Start /\ harms' = 0

RepairSpec == RepairInit /\ [][RepairNext]_rvars

-----------------------------------------------------------------------------
(* Properties *)

\* On an image without harm the recursions of check_inodes and check_dirs end,
\* unless there is a directory without a block: it is read as if it were the
\* root, and named by itself or by what is above it.
WalksEnd ==
    [][(CheckInodes \/ CheckDirs) /\ harms = 0 /\ mode' = "crashed" =>
          \E p \in Inodes \ {Root} : p \in bitmap_inode /\ inode[p].type = DIR
                                        /\ inode[p].blocks[1] = NoBlock]_rvars

\* check_inodes restores every mark that a path can lead to the need of, or
\* none: whatever a directory that find_parent_dir reaches names is marked
\* afterwards, if anything was.
RepairedOrUntouched ==
    [][CheckInodes /\ Running' =>
          \/ bitmap_inode' = bitmap_inode
          \/ \A d \in Parents : inode[d].type = DIR => Children(d) \subseteq bitmap_inode']_rvars

\* Clearing everything, or the data of all files, leaves an image on which the
\* other operations go on as before: no block is shared, none in use is free,
\* and what is free is clean.
SoundUnlessHarmed ==
    harms = 0 => NoSharedBlock /\ UsedBlocksMarked /\ FreeSpaceClean
=============================================================================
