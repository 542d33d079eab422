---------------------------- MODULE RepairProofs ----------------------------
(***************************************************************************)
(* Proofs about the unused repairs and clearings of Repair: where no harm  *)
(* was done to it, the image stays sound, and the recursions that check it *)
(* end; and a check of the inodes marks all that paths lead to, or nothing.*)
(*                                                                         *)
(* What the other proofs show of Sfs (DInv) holds as long as there is no   *)
(* harm; the inode table, the blocks and their bitmap stay as they must be *)
(* (IInv, Layout) with harm done too, so that a new start is sound again.  *)
(***************************************************************************)
EXTENDS Repair, SfsDataProofs

\* With harm done the table, the blocks and their bitmap stay as they must be;
\* without it the whole image is sound.
RInv ==
    /\ harms \in Nat
    /\ IInv /\ Layout
    /\ harms = 0 => DInv

-----------------------------------------------------------------------------
(* Steps that DInv knows *)

\* The operations of the menu keep a sound image sound.
LEMMA NextDInv == LongTexts /\ DInv /\ [Next]_vars => DInv'
  BY NextIInv, NextLayout, NextTree, NextKinds DEF DInv, TInv

\* A start makes the image sound, whatever it was.
LEMMA StartDInv ==
    ASSUME IInv, Layout, Start
    PROVE  DInv'
<1>1. Next
  BY DEF Next
<1>2. IInv' /\ Layout'
  BY <1>1, NextIInv, NextLayout
<1>3. Tree' /\ Kinds' /\ TailKept'
  BY StartTree, BareKinds
<1>4. QED
  BY <1>2, <1>3 DEF DInv, TInv

\* An end of the program leaves nothing to be sound.
LEMMA HaltRInv ==
    ASSUME RInv, Crash \/ Stop, UNCHANGED harms
    PROVE  RInv'
<1>1. mode' \in {"down", "crashed"} /\ DropLocal /\ UNCHANGED disk
  BY DEF Crash, Stop
<1>2. IInv' /\ Layout' /\ Tree'
  BY <1>1, HaltStep, LayoutInMenu, TreeDown DEF RInv
<1>3. Kinds' /\ TailKept'
  BY <1>1 DEF Kinds, TailKept, Running
<1>4. QED
  BY <1>2, <1>3 DEF RInv, DInv, TInv

\* A step in the menu that touches no inode and no bitmap of blocks.
LEMMA InodesUntouched ==
    ASSUME IInv, Layout, mode = "menu",
           UNCHANGED <<bitmap_blocks, free_blocks, inode, mode, local>>,
           Root \in bitmap_inode', bitmap_inode' \subseteq Inodes,
           block' \in [Blocks -> Seq(Dirent)]
    PROVE  IInv' /\ Layout'
<1>1. TypeOK' /\ Reserved' /\ Session'
  BY DEF IInv, TypeOK, Reserved, Session, local
<1>2. /\ Running /\ mode' = "menu" /\ Marked = Marked'
      /\ \A j \in Inodes : View(j)' = View(j)
  BY DEF Running, Marked, View, Held
<1>3. NoSharedBlock' /\ UsedBlocksMarked'
  BY <1>2 DEF IInv, NoSharedBlock, UsedBlocksMarked
<1>4. Layout'
  BY <1>2, MenuLayout, LayoutInMenu
<1>5. QED
  BY <1>1, <1>3, <1>4 DEF IInv

-----------------------------------------------------------------------------
(* Harm *)

\* A lost mark is harm, and leaves blocks and inodes as they were.
LEMMA LoseMarkStep ==
    ASSUME RInv, NEW i \in bitmap_inode \ {Root}, LoseMark(i)
    PROVE  RInv'
<1>1. harms' \in Nat /\ harms' # 0
  BY DEF RInv, LoseMark, Harmed
<1>2. Root \in bitmap_inode' /\ bitmap_inode' \subseteq Inodes
  BY DEF RInv, IInv, TypeOK, Reserved, LoseMark
<1>3. IInv' /\ Layout'
  BY <1>2, InodesUntouched DEF RInv, LoseMark, Harmed, IInv, TypeOK
<1>4. QED
  BY <1>1, <1>3 DEF RInv

\* So is a spoiled entry, which is still an entry.
LEMMA SpoilEntryStep ==
    ASSUME RInv, NEW b \in bitmap_blocks, NEW k \in DOMAIN block[b], SpoilEntry(b, k)
    PROVE  RInv'
<1>1. harms' \in Nat /\ harms' # 0
  BY DEF RInv, SpoilEntry, Harmed
<1>2. b \in Blocks /\ block[b] \in Seq(Dirent)
  BY DEF RInv, IInv, TypeOK
<1>3. PICK e \in Dirent : e = block[b][k]
  BY <1>2
<1>4. Beyond \in Nat \ {0}
  BY HarmAssumption, Sizes DEF Root
<1>5. [e EXCEPT !.inode = Beyond] \in Dirent
  BY <1>4 DEF Dirent
<1>6. [block[b] EXCEPT ![k].inode = Beyond] \in Seq(Dirent)
  BY <1>2, <1>3, <1>5
<1>7. block' \in [Blocks -> Seq(Dirent)]
  BY <1>2, <1>6 DEF RInv, IInv, TypeOK, SpoilEntry
<1>8. IInv' /\ Layout'
  BY <1>7, InodesUntouched DEF RInv, SpoilEntry, Harmed, IInv, TypeOK, Reserved
<1>9. QED
  BY <1>1, <1>8 DEF RInv

-----------------------------------------------------------------------------
(* Going through the directories *)

\* The root is gone through, and what is entered from what is; nothing else.
LEMMA WalkClosed ==
    ASSUME NEW enters, \A p \in Inodes : enters[p] \subseteq Inodes
    PROVE  /\ Walk(enters) \subseteq Inodes /\ Root \in Walk(enters)
           /\ \A p \in Walk(enters) : enters[p] \subseteq Walk(enters)
  BY Sizes DEF Walk

\* What has the root and all that is entered from it is all that is gone through.
LEMMA WalkLeast ==
    ASSUME NEW enters, NEW S \in SUBSET Inodes, Root \in S,
           \A p \in S : enters[p] \subseteq S
    PROVE  Walk(enters) \subseteq S
  BY DEF Walk

\* What check_inodes enters from p; check_dirs does the same unless p's last
\* entry names nothing.
LEMMA EnteredIs ==
    ASSUME NEW p \in Inodes
    PROVE  /\ Entered[p] = {i \in Children(p) \cap Inodes : inode[i].type = DIR}
           /\ Entered[p] \subseteq Inodes /\ Entered[p] \subseteq Children(p)
           /\ EnteredSkipping[p] = Entered[p] \/ Last(Entries(p)).inode \notin Inodes
           /\ Entries(p) = <<>> => EnteredSkipping[p] = Entered[p]
<1>1. /\ Entered[p] = {i \in Children(p) \cap Inodes : inode[i].type = DIR}
      /\ Entered[p] \subseteq Inodes /\ Entered[p] \subseteq Children(p)
  BY DEF Entered
<1>2. EnteredSkipping[p] = Entered[p] \cup
        (IF /\ Len(Entries(p)) \in 1 .. DirCapacity - 1
            /\ Last(Entries(p)).inode \notin Inodes
         THEN {Root} ELSE {})
  BY DEF EnteredSkipping
<1>3. Entries(p) = <<>> => Len(Entries(p)) \notin 1 .. DirCapacity - 1
  OBVIOUS
<1>4. QED
  BY <1>1, <1>2, <1>3

\* The root, and the directories in use, where each has a block of its own.
Sound == {p \in bitmap_inode : p = Root \/ inode[p].type = DIR}

\* One of the directories has no block.
BlocklessDirectory ==
    \E p \in Inodes \ {Root} : /\ p \in bitmap_inode /\ inode[p].type = DIR
                               /\ inode[p].blocks[1] = NoBlock

\* There is no text in a directory.
LEMMA DirLinks ==
    ASSUME DInv, Running, NEW p \in Inodes, View(p).type = DIR
    PROVE  /\ Links(p) = DOMAIN EntriesOf(p)
           /\ \A k \in DOMAIN EntriesOf(p) : EntriesOf(p)[k].inode \in Inodes
<1>1. EntriesOf(p) \in Seq(Dirent)
  BY EntriesOfType DEF DInv, TInv
<1>2. \A k \in DOMAIN EntriesOf(p) : EntriesOf(p)[k].inode \in Inodes
  BY DEF DInv, Kinds
<1>3. DOMAIN EntriesOf(p) # {} => 1 \in DOMAIN EntriesOf(p)
  <2>1. ASSUME NEW q \in Seq(Dirent) PROVE DOMAIN q # {} => 1 \in DOMAIN q
    BY <2>1
  <2>2. QED
    BY <1>1, <2>1
<1>4. \A k \in DOMAIN EntriesOf(p) : EntriesOf(p)[k].name # Junk
  BY <1>2, <1>3 DEF DInv, TInv, Tree, Forest, TextsFirst
<1>5. QED
  BY <1>2, <1>4 DEF Links

\* What they name is in use.
LEMMA SoundNames ==
    ASSUME DInv, mode = "menu", ~BlocklessDirectory, NEW p \in Sound
    PROVE  /\ p \in Inodes /\ Entries(p) = EntriesOf(p)
           /\ Children(p) \subseteq bitmap_inode
           /\ \A k \in DOMAIN Entries(p) : Entries(p)[k].inode \in Inodes
           /\ Links(p) = DOMAIN Entries(p)
<1>1. IInv /\ Layout /\ Kinds /\ EntriesAreLive /\ Running
  BY DEF DInv, TInv, Tree, Forest, Running
<1>2. p \in Inodes /\ View(p) = inode[p]
  BY <1>1, MenuLayout DEF Sound, IInv, TypeOK
<1>3. Entries(p) = EntriesOf(p)
  BY <1>2 DEF Sound, BlocklessDirectory, Entries, EntriesOf, DirBlock
<1>4. View(p).type = DIR
  BY <1>1, <1>2 DEF Sound, Kinds
<1>5. /\ \A k \in DOMAIN Entries(p) : Entries(p)[k].inode \in Inodes
      /\ Links(p) = DOMAIN Entries(p)
  BY <1>1, <1>2, <1>3, <1>4, DirLinks
<1>6. \A k \in DOMAIN Entries(p) : Entries(p)[k].inode \in bitmap_inode
  BY <1>1, <1>2, <1>3, <1>5 DEF EntriesAreLive
<1>7. QED
  BY <1>2, <1>3, <1>5, <1>6 DEF Children

\* No other inode is gone through, whether spoiled entries are skipped or not:
\* there are none.
LEMMA SoundWalk ==
    ASSUME DInv, mode = "menu", ~BlocklessDirectory
    PROVE  /\ Walk(Entered) \subseteq Sound /\ Walk(EnteredSkipping) \subseteq Sound
           /\ \A p \in Sound : EnteredSkipping[p] = Entered[p]
<1>1. Root \in Sound /\ Sound \in SUBSET Inodes
  BY DEF DInv, TInv, IInv, TypeOK, Reserved, Sound
<1>2. \A p \in Sound : Entered[p] \subseteq Sound
  <2> SUFFICES ASSUME NEW p \in Sound PROVE Entered[p] \subseteq Sound
    OBVIOUS
  <2>1. p \in Inodes /\ Children(p) \subseteq bitmap_inode
    BY SoundNames
  <2>2. QED
    BY <2>1, EnteredIs DEF Sound
<1>3. \A p \in Sound : EnteredSkipping[p] = Entered[p]
  <2> SUFFICES ASSUME NEW p \in Sound PROVE EnteredSkipping[p] = Entered[p]
    OBVIOUS
  <2>1. /\ p \in Inodes
        /\ \A k \in DOMAIN Entries(p) : Entries(p)[k].inode \in Inodes
    BY SoundNames
  <2>2. Entries(p) \in Seq(Dirent)
    BY <2>1, EntriesType DEF DInv, TInv, IInv
  <2>3. CASE Entries(p) = <<>>
    BY <2>1, <2>3, EnteredIs
  <2>4. CASE Entries(p) # <<>>
    <3>1. PICK k \in DOMAIN Entries(p) : k = Len(Entries(p))
      BY <2>2, <2>4
    <3>2. Last(Entries(p)) = Entries(p)[k]
      BY <2>2, <2>4, <3>1 DEF Last
    <3>3. QED
      BY <2>1, <3>2, EnteredIs
  <2>5. QED
    BY <2>3, <2>4
<1>4. QED
  BY <1>1, <1>2, <1>3, WalkLeast

\* So both recursions end: no directory is below itself.
LEMMA SoundWalksEnd ==
    ASSUME DInv, mode = "menu", ~BlocklessDirectory
    PROVE  /\ Met \subseteq bitmap_inode /\ Met \subseteq Inodes
           /\ ~EndlessWalk(Entered) /\ ~EndlessWalk(EnteredSkipping) /\ ~Unread
<1>1. /\ NoCycle /\ Running /\ bitmap_inode \subseteq Inodes
  BY DEF DInv, TInv, IInv, TypeOK, Tree, Forest, Running
<1>2. Met \subseteq bitmap_inode
  BY SoundWalk, SoundNames DEF Met
<1>3. ASSUME NEW S \in (SUBSET Sound) \ {{}}
      PROVE  \E p \in S : Entered[p] \cap S = {}
  <2>1. S \in (SUBSET Inodes) \ {{}}
    BY <1>1 DEF Sound
  <2>2. PICK p \in S : \A k \in Links(p) : EntriesOf(p)[k].inode \notin S
    BY <1>1, <2>1 DEF NoCycle
  <2>3. p \in Inodes /\ Entries(p) = EntriesOf(p) /\ Links(p) = DOMAIN Entries(p)
    BY SoundNames
  <2>4. Children(p) \cap S = {}
    BY <2>2, <2>3 DEF Children
  <2>5. QED
    BY <2>3, <2>4, EnteredIs
<1>4. ~EndlessWalk(Entered)
  <2> SUFFICES ASSUME NEW S \in (SUBSET Walk(Entered)) \ {{}}
               PROVE  \E p \in S : Entered[p] \cap S = {}
    BY DEF EndlessWalk
  <2>1. S \in (SUBSET Sound) \ {{}}
    BY SoundWalk
  <2>2. QED
    BY <1>3, <2>1
<1>5. ~EndlessWalk(EnteredSkipping)
  <2> SUFFICES ASSUME NEW S \in (SUBSET Walk(EnteredSkipping)) \ {{}}
               PROVE  \E p \in S : EnteredSkipping[p] \cap S = {}
    BY DEF EndlessWalk
  <2>1. S \in (SUBSET Sound) \ {{}}
    BY SoundWalk
  <2>2. PICK p \in S : Entered[p] \cap S = {}
    BY <1>3, <2>1
  <2>3. EnteredSkipping[p] = Entered[p]
    BY <2>1, SoundWalk
  <2>4. QED
    BY <2>2, <2>3
<1>6. ~Unread
  BY SoundWalk, SoundNames DEF Unread
<1>7. QED
  BY <1>1, <1>2, <1>4, <1>5, <1>6

-----------------------------------------------------------------------------
(* The functions *)

\* What the root names is marked, so check_inodes has nothing to do where
\* there was no harm.
LEMMA RootNamesLive ==
    ASSUME DInv, mode = "menu"
    PROVE  Children(Root) \subseteq bitmap_inode
<1>1. IInv /\ Layout /\ Kinds /\ EntriesAreLive /\ Running
  BY DEF DInv, TInv, Tree, Forest, Running
<1>2. Entries(Root) = EntriesOf(Root) /\ View(Root).type = DIR
  BY <1>1, MenuLayout, Sizes DEF Kinds, Entries, EntriesOf, DirBlock
<1>3. \A k \in DOMAIN Entries(Root) : Entries(Root)[k].inode \in bitmap_inode
  BY <1>1, <1>2, Sizes, DirLinks DEF EntriesAreLive
<1>4. QED
  BY <1>3 DEF Children

\* On a sound image check_inodes finds nothing to mark.
LEMMA CheckInodesStep ==
    ASSUME LongTexts, RInv, CheckInodes, UNCHANGED harms
    PROVE  RInv'
<1>1. CASE Crash
  BY <1>1, HaltRInv
<1>2. CASE ~Crash
  <2>1. /\ mode = "menu" /\ Met \subseteq Inodes
        /\ \/ bitmap_inode' = bitmap_inode
           \/ ~(Children(Root) \subseteq bitmap_inode) /\ bitmap_inode' = bitmap_inode \cup Met
        /\ UNCHANGED <<bitmap_blocks, free_blocks, inode, block, mode, local>>
    BY <1>2 DEF CheckInodes
  <2>2. IInv' /\ Layout'
    BY <2>1, InodesUntouched DEF RInv, IInv, TypeOK, Reserved
  <2>3. ASSUME harms = 0 PROVE DInv'
    <3>1. DInv /\ bitmap_inode' = bitmap_inode
      BY <2>1, <2>3, RootNamesLive DEF RInv
    <3>2. UNCHANGED vars
      BY <2>1, <3>1 DEF vars, disk
    <3>3. QED
      BY <3>1, <3>2, NextDInv
  <2>4. QED
    BY <2>2, <2>3 DEF RInv
<1>3. QED
  BY <1>1, <1>2

\* So does a step that changes nothing.
LEMMA SameRInv ==
    ASSUME LongTexts, RInv, UNCHANGED rvars
    PROVE  RInv'
<1>1. UNCHANGED vars /\ UNCHANGED harms
  BY DEF rvars
<1>2. IInv' /\ Layout'
  BY <1>1, NextIInv, NextLayout DEF RInv
<1>3. harms' = 0 => DInv'
  BY <1>1, NextDInv DEF RInv
<1>4. QED
  BY <1>1, <1>2, <1>3 DEF RInv

\* Clearing the blocks in B, which hold no entry of the root unless it is
\* cleared too.
LEMMA ZeroedBlocks ==
    ASSUME IInv, NEW B
    PROVE  /\ Zeroed(B) \in [Blocks -> Seq(Dirent)]
           /\ \A b \in Blocks : Zeroed(B)[b] = IF b \in B THEN <<>> ELSE block[b]
<1>1. <<>> \in Seq(Dirent)
  OBVIOUS
<1>2. QED
  BY <1>1 DEF IInv, TypeOK, Zeroed

\* Everything is gone but the marks.
LEMMA DeleteAllStep ==
    ASSUME DInv, DeleteAll
    PROVE  DInv'
<1>1. /\ IInv /\ Layout /\ FreeSpaceClean /\ Running /\ Kinds
      /\ mode = "menu" /\ mode' = "menu"
      /\ block' = Zeroed(bitmap_blocks)
      /\ UNCHANGED <<bitmap_inode, bitmap_blocks, free_blocks, local>>
  BY DEF DInv, TInv, Tree, DeleteAll, Running
<1>2. \A j \in Inodes : View(j) = inode[j] /\ View(j)' = inode'[j]
  BY <1>1, MenuLayout DEF View, Held
<1>3. \A j \in Inodes \ {Root} : inode'[j] = ClearNode
  BY <1>1, <1>2 DEF DeleteAll, FreeSpaceClean
<1>4. inode'[Root] = inode[Root]
  BY <1>1, Sizes DEF DeleteAll
<1>5. \A j \in Inodes : inode'[j].type = DIR /\ \A s \in Slots : inode'[j].blocks[s] = NoBlock
  BY <1>1, <1>2, <1>3, <1>4, MenuLayout, EmptyNodeType, Sizes
     DEF Kinds, ClearNode, EmptyNode
<1>6. inode' \in [Inodes -> Node]
  BY EmptyNodeType DEF DeleteAll, DInv, TInv, IInv, TypeOK
<1>7. \A b \in Blocks : block'[b] = IF b \in bitmap_blocks THEN <<>> ELSE block[b]
  BY <1>1, ZeroedBlocks
<1>8. \A b \in Blocks : block'[b] = <<>>
  BY <1>1, <1>7 DEF FreeSpaceClean, Marked
<1>9. \A j \in Inodes : EntriesOf(j)' = <<>>
  <2>1. \A j \in Inodes : View(j)'.blocks[1] = NoBlock
    BY <1>2, <1>5, Sizes
  <2>2. block'[NoBlock] = <<>>
    BY <1>8, Sizes DEF NoBlock
  <2>3. QED
    BY <2>1, <2>2 DEF EntriesOf
<1>10. IInv'
  <2>1. TypeOK' /\ Reserved' /\ Session'
    BY <1>1, <1>6, ZeroedBlocks DEF IInv, TypeOK, Reserved, Session, local
  <2>2. NoSharedBlock' /\ UsedBlocksMarked'
    BY <1>2, <1>5 DEF NoSharedBlock, UsedBlocksMarked
  <2>3. QED
    BY <2>1, <2>2 DEF IInv
<1>11. Layout'
  BY <1>1, <1>5, Sizes, LayoutInMenu DEF Packed
<1>12. FreeSpaceClean'
  <2>1. Root \in bitmap_inode'
    BY <1>1 DEF IInv, Reserved
  <2>2. QED
    BY <1>2, <1>3, <1>8, <2>1 DEF FreeSpaceClean
<1>13. Tree'
  BY <1>1, <1>9, <1>12, BareForest DEF Tree, SessionLive
<1>14. Kinds' /\ TailKept'
  BY <1>1, <1>2, <1>5, <1>9, Sizes DEF Kinds, TailKept
<1>15. QED
  BY <1>10, <1>11, <1>13, <1>14 DEF DInv, TInv

\* The entries of all directories but the root are gone, and what they named
\* is not: it has no name, and its own entries are gone too.
LEMMA ClearFilesDataStep ==
    ASSUME LongTexts, DInv, ClearFilesData
    PROVE  DInv'
<1>1. /\ IInv /\ Layout /\ FreeSpaceClean /\ Forest /\ Running /\ Kinds
      /\ mode = "menu" /\ mode' = "menu" /\ Running'
      /\ block' = Zeroed(bitmap_blocks \ {0})
      /\ UNCHANGED <<bitmap_inode, bitmap_blocks, free_blocks, inode, mode, local>>
  BY DEF DInv, TInv, Tree, ClearFilesData, Running
<1>2. IInv' /\ Layout'
  BY <1>1, ZeroedBlocks, InodesUntouched DEF IInv, TypeOK, Reserved
<1>3. \A j \in Inodes : View(j)' = View(j) /\ View(j).blocks[1] \in Blocks
  BY <1>1, Sizes DEF View, Held, IInv, TypeOK, Node
<1>4. \A b \in Blocks : block'[b] = block[b] \/ block'[b] = <<>>
  BY <1>1, ZeroedBlocks
<1>5. \A j \in Inodes : EntriesOf(j)' = EntriesOf(j) \/ EntriesOf(j)' = <<>>
  BY <1>3, <1>4 DEF EntriesOf
<1>6. Forest'
  BY <1>1, <1>5, ForeignTexts, SameOrForeign
<1>7. FreeSpaceClean'
  <2>1. Marked' = Marked
    BY <1>1 DEF Marked
  <2>2. QED
    BY <1>1, <1>3, <1>4, <2>1 DEF FreeSpaceClean
<1>8. Tree'
  BY <1>1, <1>6, <1>7 DEF Tree, SessionLive
<1>9. Kinds'
  <2>1. \A j \in Inodes : SameKind(j)
    BY <1>3, <1>5 DEF SameKind
  <2>2. View(Root)'.type = DIR
    BY <1>1, <1>3, Sizes DEF Kinds
  <2>3. QED
    BY <1>1, <2>1, <2>2, KindsKept
<1>10. TailKept'
  BY <1>1 DEF TailKept
<1>11. QED
  BY <1>2, <1>8, <1>9, <1>10 DEF DInv, TInv

-----------------------------------------------------------------------------
(* The theorems *)

\* Every step keeps the invariant.
LEMMA NextRInv == LongTexts /\ RInv /\ [RepairNext]_rvars => RInv'
<1> SUFFICES ASSUME LongTexts, RInv, [RepairNext]_rvars PROVE RInv'
  OBVIOUS
<1>1. CASE UNCHANGED rvars
  BY <1>1, SameRInv
<1>2. ASSUME NEW i \in bitmap_inode \ {Root}, LoseMark(i) PROVE RInv'
  BY <1>2, LoseMarkStep
<1>3. ASSUME NEW b \in bitmap_blocks, NEW k \in DOMAIN block[b], SpoilEntry(b, k) PROVE RInv'
  BY <1>3, SpoilEntryStep
<1>4. CASE CheckInodes /\ UNCHANGED harms
  BY <1>4, CheckInodesStep
<1>5. CASE CheckDirs /\ UNCHANGED harms
  BY <1>5, HaltRInv, SameRInv DEF CheckDirs, rvars
<1>6. CASE harms = 0 /\ (Next \/ DeleteAll \/ ClearFilesData) /\ UNCHANGED harms
  <2>1. DInv /\ harms' \in Nat
    BY <1>6 DEF RInv
  <2>2. DInv'
    BY <1>6, <2>1, NextDInv, DeleteAllStep, ClearFilesDataStep
  <2>3. QED
    BY <2>1, <2>2 DEF RInv, DInv, TInv
<1>7. CASE harms > 0 /\ Stop /\ UNCHANGED harms
  BY <1>7, HaltRInv
<1>8. CASE harms > 0 /\ Start /\ harms' = 0
  <2>1. DInv'
    BY <1>8, StartDInv DEF RInv
  <2>2. QED
    BY <1>8, <2>1 DEF RInv, DInv, TInv
<1>9. QED
  BY <1>1, <1>2, <1>3, <1>4, <1>5, <1>6, <1>7, <1>8 DEF RepairNext

\* An image that was not harmed is as the file system needs it, and one that
\* was still has its inodes and blocks in order.
THEOREM RepairInvariance ==
    ASSUME LongTexts
    PROVE  RepairSpec => []RInv
<1>1. RepairInit => RInv
  <2> SUFFICES ASSUME RepairInit PROVE RInv
    OBVIOUS
  <2>1. DInv
    BY InitIInv, InitLayout, InitTree, BareKinds DEF RepairInit, TInv, DInv
  <2>2. QED
    BY <2>1 DEF RepairInit, RInv, DInv, TInv
<1>2. QED
  BY <1>1, NextRInv, PTL DEF RepairSpec

\* Clearing everything, or the data of all files, leaves an image on which the
\* other operations go on as before.
THEOREM ClearingIsSound ==
    ASSUME LongTexts
    PROVE  RepairSpec => []SoundUnlessHarmed
<1>1. RInv => SoundUnlessHarmed
  BY DEF RInv, DInv, TInv, IInv, Tree, SoundUnlessHarmed
<1>2. QED
  BY <1>1, RepairInvariance, PTL

\* Without harm the recursions of the two checks end, but for a directory
\* without a block of its own.
THEOREM RecursionsEnd ==
    ASSUME LongTexts
    PROVE  RepairSpec => WalksEnd
<1>1. RInv /\ [RepairNext]_rvars =>
        [(CheckInodes \/ CheckDirs) /\ harms = 0 /\ mode' = "crashed" =>
           \E p \in Inodes \ {Root} : p \in bitmap_inode /\ inode[p].type = DIR
                                         /\ inode[p].blocks[1] = NoBlock]_rvars
  <2> SUFFICES ASSUME RInv, CheckInodes \/ CheckDirs, harms = 0, mode' = "crashed"
               PROVE  BlocklessDirectory
    BY DEF BlocklessDirectory
  <2> SUFFICES ASSUME ~BlocklessDirectory PROVE FALSE
    OBVIOUS
  <2>1. DInv /\ mode = "menu"
    BY DEF RInv, CheckInodes, CheckDirs
  <2>2. /\ Met \subseteq Inodes
        /\ ~EndlessWalk(Entered) /\ ~EndlessWalk(EnteredSkipping) /\ ~Unread
    BY <2>1, SoundWalksEnd
  <2>3. UNCHANGED mode
    BY <2>2 DEF CheckInodes, CheckDirs, vars
  <2>4. QED
    BY <2>1, <2>3
<1>2. QED
  BY <1>1, RepairInvariance, PTL DEF RepairSpec, WalksEnd

\* check_inodes marks all that a path leads to, or nothing: what find_parent_dir
\* reaches is gone through.
THEOREM MarksAllOrNothing == RepairSpec => RepairedOrUntouched
<1>1. ASSUME CheckInodes, Running', bitmap_inode' # bitmap_inode,
             NEW d \in Parents, inode[d].type = DIR
      PROVE  Children(d) \subseteq bitmap_inode'
  <2>1. Met \subseteq Inodes /\ bitmap_inode' = bitmap_inode \cup Met
    BY <1>1 DEF CheckInodes, Crash, Running
  <2>2. /\ Walk(Entered) \subseteq Inodes /\ Root \in Walk(Entered)
        /\ \A p \in Walk(Entered) : Entered[p] \subseteq Walk(Entered)
    BY WalkClosed, EnteredIs
  <2>3. \A p \in Walk(Entered) : Children(p) \subseteq Met
    BY DEF Met
  <2>4. PICK S \in SUBSET Inodes : S = {i \in Inodes : i \in Walk(Entered) \/ inode[i].type # DIR}
    OBVIOUS
  <2>5. ClosedUnderLookup(S)
    <3> SUFFICES ASSUME NEW p \in S, inode[p].type = DIR, NEW k \in DOMAIN Entries(p)
                 PROVE  Entries(p)[k].inode \in S
      BY DEF ClosedUnderLookup
    <3>1. p \in Walk(Entered) /\ p \in Inodes
      BY <2>4
    <3>2. Entries(p)[k].inode \in Children(p) \cap Inodes
      BY <2>1, <2>3, <3>1 DEF Children
    <3>3. CASE inode[Entries(p)[k].inode].type = DIR
      BY <2>2, <2>4, <3>1, <3>2, <3>3, EnteredIs
    <3>4. CASE inode[Entries(p)[k].inode].type # DIR
      BY <2>4, <3>2, <3>4
    <3>5. QED
      BY <3>3, <3>4
  <2>6. d \in S
    BY <2>2, <2>4, <2>5, Sizes DEF Parents
  <2>7. d \in Walk(Entered)
    BY <1>1, <2>4, <2>6
  <2>8. QED
    BY <2>1, <2>3, <2>7
<1>2. [RepairNext]_rvars =>
        [CheckInodes /\ Running' =>
          \/ bitmap_inode' = bitmap_inode
          \/ \A d \in Parents : inode[d].type = DIR => Children(d) \subseteq bitmap_inode']_rvars
  BY <1>1
<1>3. QED
  BY <1>2, PTL DEF RepairSpec, RepairedOrUntouched
=============================================================================
