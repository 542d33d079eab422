----------------------------- MODULE SfsProofs -----------------------------
(***************************************************************************)
(* Proofs about Sfs, for every size of the table and of the disk, every    *)
(* set of names and every set of texts: the ownership of blocks, then the  *)
(* layout of the slots, then the tree of the names.                        *)
(*                                                                         *)
(* NoSharedBlock is not inductive: that a block given out is in no slot    *)
(* follows from UsedBlocksMarked, that what a deletion frees is in no      *)
(* other inode follows from NoSharedBlock, and both need that inode 0 and  *)
(* block 0 are marked and that no entry names inode 0, so that neither is  *)
(* ever given out or freed.                                                *)
(***************************************************************************)
EXTENDS Sfs, TLAPS, FiniteSetTheorems, SequenceTheorems

\* Number 0 is never given out.
Reserved ==
    /\ Root \in bitmap_inode
    /\ 0 \in bitmap_blocks
    /\ mode = "defrag" => 0 \in bitmap

\* The dialog writes into a slot that there is.
Session == mode = "writing" => block_index \in Slots

\* The inductive invariant of the ownership of blocks.
IInv == TypeOK /\ Reserved /\ Session /\ NoSharedBlock /\ UsedBlocksMarked

-----------------------------------------------------------------------------
(* The operators of the model *)

\* What the sizes give.
LEMMA Sizes ==
    /\ Root \in Inodes /\ 1 \in Inodes /\ Inodes \subseteq Nat
    /\ 0 \in Blocks /\ Blocks \subseteq Nat
    /\ 1 \in Slots /\ Slots \subseteq Nat
  BY SizesAssumption DEF Root, Inodes, Blocks, Slots

\* An inode without blocks is an inode.
LEMMA EmptyNodeType ==
    ASSUME NEW t \in {DIR, FIL}
    PROVE  /\ EmptyNode(t) \in Node
           /\ \A s \in Slots : EmptyNode(t).blocks[s] = NoBlock
           /\ ClearNode \in Node
           /\ \A s \in Slots : ClearNode.blocks[s] = NoBlock
  BY Sizes DEF EmptyNode, ClearNode, Node, NoBlock

\* Giving a slot a block changes that slot only.
LEMMA WithBlockType ==
    ASSUME NEW node \in Node, NEW s \in Slots, NEW b \in Blocks
    PROVE  /\ WithBlock(node, s, b) \in Node
           /\ WithBlock(node, s, b).blocks[s] = b
           /\ \A r \in Slots \ {s} : WithBlock(node, s, b).blocks[r] = node.blocks[r]
  BY DEF WithBlock, Node

\* NodeBlocks yields blocks of the node, and never block 0.
LEMMA NodeBlocksSound ==
    ASSUME NEW node \in Node, NEW b \in NodeBlocks(node)
    PROVE  b # NoBlock /\ b \in Blocks /\ \E s \in Slots : node.blocks[s] = b
<1>1. PICK s \in Slots : /\ b = node.blocks[s]
                         /\ \A q \in 1 .. s : node.blocks[q] # NoBlock
  BY DEF NodeBlocks
<1>2. s \in 1 .. s
  BY Sizes, <1>1 DEF Slots
<1>3. QED
  BY <1>1, <1>2 DEF Node

\* Taking an element out of a directory leaves a directory.
LEMMA RemoveAtType ==
    ASSUME NEW S, NEW s \in Seq(S), NEW k \in DOMAIN s
    PROVE  RemoveAt(s, k) \in Seq(S)
  BY DEF RemoveAt

\* What is typed is read as entries.
LEMMA TextsType ==
    ASSUME NEW text \in Texts
    PROVE  text \in Seq(Dirent)
<1>1. ASSUME NEW S, NEW T, S \subseteq T, NEW s \in Seq(S) PROVE s \in Seq(T)
  BY <1>1
<1>2. [inode : Nat \ {0}, name : {Junk}] \subseteq Dirent
  BY DEF Dirent
<1>3. text \in Seq([inode : Nat \ {0}, name : {Junk}])
  BY TextsAssumption
<1>4. QED
  BY <1>1, <1>2, <1>3

\* So a block that is given what was typed is a block.
LEMMA TypedType ==
    ASSUME TypeOK, NEW text \in Texts, NEW b
    PROVE  [block EXCEPT ![b] = text] \in [Blocks -> Seq(Dirent)]
  BY TextsType DEF TypeOK

\* The entries of a directory are entries.
LEMMA EntriesType ==
    ASSUME TypeOK, NEW d \in Inodes
    PROVE  /\ DirBlock(d) \in Blocks
           /\ Entries(d) \in Seq(Dirent)
           /\ \A k \in DOMAIN Entries(d) : Entries(d)[k].inode # Root
<1>1. DirBlock(d) \in Blocks
  BY Sizes DEF TypeOK, Node, DirBlock
<1>2. Entries(d) \in Seq(Dirent)
  BY <1>1 DEF Entries, TypeOK
<1>3. \A k \in DOMAIN Entries(d) : Entries(d)[k] \in Dirent
  BY <1>2
<1>4. QED
  BY <1>1, <1>2, <1>3 DEF Dirent, Root

\* A recursive deletion never reaches the root, and frees only blocks of the
\* inodes it clears.
LEMMA DoomedSound ==
    ASSUME TypeOK, NEW t \in Inodes, t # Root
    PROVE  /\ Doomed(t) \subseteq Inodes \ {Root}
           /\ \A b \in DoomedBlocks(t) :
                 /\ b # NoBlock
                 /\ b \in Blocks
                 /\ \E i \in Doomed(t), s \in Slots : inode[i].blocks[s] = b
<1>1. Doomed(t) \subseteq Inodes
  BY DEF Doomed
<1>2. ASSUME Root \in Doomed(t) PROVE FALSE
  <2> DEFINE S == Inodes \ {Root}
  <2>1. \A p \in S : Children(p) \cap Inodes \subseteq S
    <3>1. \A p \in S : Root \notin Children(p)
      BY EntriesType DEF Children
    <3>2. QED
      BY <3>1
  <2>2. S \in SUBSET Inodes /\ t \in S
    OBVIOUS
  <2>3. Root \in S
    BY <1>2, <2>1, <2>2 DEF Doomed
  <2>4. QED
    BY <2>3
<1>3. ASSUME NEW b \in DoomedBlocks(t)
      PROVE  /\ b # NoBlock
             /\ b \in Blocks
             /\ \E i \in Doomed(t), s \in Slots : inode[i].blocks[s] = b
  <2>1. PICK i \in Doomed(t) :
           b \in (IF inode[i].type = FIL /\ i \in Listed(t)
                    THEN NodeBlocks(inode[i])
                    ELSE {inode[i].blocks[1]} \ {NoBlock})
    BY <1>3 DEF DoomedBlocks
  <2>2. inode[i] \in Node
    BY <1>1 DEF TypeOK
  <2>3. CASE b \in NodeBlocks(inode[i])
    BY <2>2, <2>3, NodeBlocksSound
  <2>4. CASE b \in {inode[i].blocks[1]} \ {NoBlock}
    BY <2>2, <2>4, Sizes DEF Node
  <2>5. QED
    BY <2>1, <2>3, <2>4
<1>4. QED
  BY <1>1, <1>2, <1>3

-----------------------------------------------------------------------------
(* The steps *)

\* A block of which a directory without one takes possession is in no slot.
LEMMA FreshBlock ==
    ASSUME IInv, mode # "defrag", Running, NEW b \in Blocks, FirstFree(b, bitmap_blocks)
    PROVE  b # NoBlock /\ \A i \in Inodes : \A s \in Slots : View(i).blocks[s] # b
<1>1. b \notin bitmap_blocks
  BY DEF FirstFree
<1>2. b # NoBlock
  BY <1>1 DEF IInv, Reserved, NoBlock
<1>3. QED
  BY <1>1, <1>2 DEF IInv, UsedBlocksMarked, Marked

\* Ending the program, however it ends, keeps the invariant.
LEMMA HaltStep ==
    ASSUME IInv, mode' \in {"down", "crashed"}, DropLocal, UNCHANGED disk
    PROVE  IInv'
<1>1. UNCHANGED <<bitmap_inode, bitmap_blocks, free_blocks, inode, block>>
  BY DEF disk
<1>2. ~Running' /\ mode' # "defrag" /\ mode' # "writing"
  BY DEF Running
<1>3. ClearNode \in Node
  BY EmptyNodeType
<1>4. 1 \in 1 .. MAX_BLOCK_COUNT + 1
  BY SizesAssumption
<1>5. TypeOK'
  BY <1>1, <1>3, <1>4, Sizes DEF DropLocal, IInv, TypeOK
<1>6. QED
  BY <1>1, <1>2, <1>5 DEF IInv, Reserved, Session, NoSharedBlock, UsedBlocksMarked

\* A new inode with its entry keeps the invariant, whether or not a file is
\* then received into it.
LEMMA AddInodeStep ==
    ASSUME IInv, mode = "menu", mode' \in {"menu", "receiving"},
           NEW d \in Inodes, NEW n \in Names, NEW t \in {DIR, FIL}, NEW i \in Inodes,
           AddInode(i, d, n, t),
           \A j \in Inodes : View(j)' = inode'[j],
           cur' \in Inodes, object' \in Node, block_index' \in 1 .. MAX_BLOCK_COUNT + 1,
           UNCHANGED <<free_blocks, bitmap>>
    PROVE  IInv'
<1> DEFINE entry == [inode |-> i, name |-> n]
           tbl   == WithInode(i, t)
<1>1. TakeInode(i) /\ AddDirent(d, entry, tbl)
  BY DEF AddInode
<1>2. PICK b \in Blocks :
        /\ IF LacksBlock(d, tbl) THEN TakeBlock(b)
           ELSE b = tbl[d].blocks[1] /\ UNCHANGED bitmap_blocks
        /\ IF Len(block[b]) = DirCapacity
             THEN inode' = tbl /\ UNCHANGED block
             ELSE /\ inode' = [tbl EXCEPT ![d] = WithBlock(tbl[d], 1, b)]
                  /\ block' = [block EXCEPT ![b] = Append(@, entry)]
  BY <1>1 DEF AddDirent
<1>3. /\ i # Root /\ entry \in Dirent
      /\ bitmap_inode' = bitmap_inode \cup {i}
  BY <1>1, Sizes DEF TakeInode, FirstFree, IInv, Reserved, Dirent, Root
<1>4. /\ EmptyNode(t) \in Node
      /\ \A s \in Slots : EmptyNode(t).blocks[s] = NoBlock
  BY EmptyNodeType
<1>5. /\ tbl \in [Inodes -> Node]
      /\ \A j \in Inodes : tbl[j] = IF j = i THEN EmptyNode(t) ELSE inode[j]
  BY <1>4 DEF IInv, TypeOK, WithInode
<1> HIDE DEF entry, tbl
<1>6. /\ WithBlock(tbl[d], 1, b) \in Node
      /\ WithBlock(tbl[d], 1, b).blocks[1] = b
      /\ \A r \in Slots \ {1} : WithBlock(tbl[d], 1, b).blocks[r] = tbl[d].blocks[r]
  BY <1>5, WithBlockType, Sizes
<1>7. inode' \in [Inodes -> Node]
  BY <1>2, <1>5, <1>6
<1>8. /\ bitmap_blocks' \subseteq Blocks
      /\ bitmap_blocks \subseteq bitmap_blocks'
  BY <1>2 DEF TakeBlock, IInv, TypeOK
<1>9. block' \in [Blocks -> Seq(Dirent)]
  <2>1. block \in [Blocks -> Seq(Dirent)]
    BY DEF IInv, TypeOK
  <2>2. Append(block[b], entry) \in Seq(Dirent)
    BY <1>3, <2>1
  <2>3. QED
    BY <1>2, <2>1, <2>2
<1>10. TypeOK'
  BY <1>3, <1>7, <1>8, <1>9 DEF IInv, TypeOK
<1>11. Reserved' /\ Session'
  BY <1>3, <1>8 DEF IInv, Reserved, Session
<1>12. \A j \in Inodes : View(j) = inode[j]
  BY DEF View, Held
<1>13. Marked = bitmap_blocks /\ Marked' = bitmap_blocks' /\ Running
  BY DEF Marked, Running
\* A slot of the new table holds what it held, nothing, or d's block.
<1>14. \A j \in Inodes : \A s \in Slots :
          tbl[j].blocks[s] = NoBlock \/ tbl[j].blocks[s] = inode[j].blocks[s]
  BY <1>4, <1>5
<1>15. \A j \in Inodes : \A s \in Slots :
          \/ inode'[j].blocks[s] = NoBlock
          \/ inode'[j].blocks[s] = inode[j].blocks[s]
          \/ j = d /\ s = 1 /\ inode'[j].blocks[s] = b
  <2> SUFFICES ASSUME NEW j \in Inodes, NEW s \in Slots
               PROVE  \/ inode'[j].blocks[s] = NoBlock
                      \/ inode'[j].blocks[s] = inode[j].blocks[s]
                      \/ j = d /\ s = 1 /\ inode'[j].blocks[s] = b
    OBVIOUS
  <2>1. CASE inode' = tbl
    BY <1>14, <2>1
  <2>2. CASE inode' = [tbl EXCEPT ![d] = WithBlock(tbl[d], 1, b)] /\ j = d
    BY <1>14, <2>2, <1>5, <1>6
  <2>3. CASE inode' = [tbl EXCEPT ![d] = WithBlock(tbl[d], 1, b)] /\ j # d
    BY <1>14, <2>3, <1>5
  <2>4. QED
    BY <1>2, <2>1, <2>2, <2>3
<1>16. \/ b = NoBlock
       \/ b = inode[d].blocks[1] /\ b \in bitmap_blocks'
       \/ /\ \A j \in Inodes : \A s \in Slots : inode[j].blocks[s] # b
          /\ b \in bitmap_blocks'
  <2>1. CASE LacksBlock(d, tbl)
    BY <2>1, <1>2, <1>12, <1>13, FreshBlock DEF TakeBlock
  <2>2. CASE ~LacksBlock(d, tbl)
    BY <2>2, <1>2, <1>8, <1>12, <1>13, <1>14, Sizes DEF IInv, UsedBlocksMarked
  <2>3. QED
    BY <2>1, <2>2
<1>17. NoSharedBlock'
  <2> SUFFICES ASSUME NEW j \in Inodes, NEW l \in Inodes, NEW r \in Slots, NEW s \in Slots,
                      inode'[j].blocks[r] # NoBlock,
                      inode'[j].blocks[r] = inode'[l].blocks[s]
               PROVE  j = l /\ r = s
    BY DEF NoSharedBlock
  <2>1. inode[j].blocks[r] = inode[l].blocks[s] /\ inode[j].blocks[r] # NoBlock
           => j = l /\ r = s
    BY <1>12, <1>13 DEF IInv, NoSharedBlock
  <2>2. CASE b = NoBlock
    BY <1>15, <2>1, <2>2
  <2>3. CASE b = inode[d].blocks[1]
    BY <1>15, <2>1, <2>3
  <2>4. CASE \A m \in Inodes : \A q \in Slots : inode[m].blocks[q] # b
    BY <1>15, <2>1, <2>4
  <2>5. QED
    BY <1>16, <2>2, <2>3, <2>4
<1>18. UsedBlocksMarked'
  BY <1>8, <1>12, <1>13, <1>15, <1>16 DEF IInv, UsedBlocksMarked
<1>19. QED
  BY <1>10, <1>11, <1>17, <1>18 DEF IInv

\* create_file and create_dir keep the invariant.
LEMMA AddObjectStep ==
    ASSUME IInv, mode = "menu", NEW d \in Inodes, NEW n \in Names, NEW t \in {DIR, FIL},
           AddObject(d, n, t)
    PROVE  IInv'
<1>1. CASE Crash
  BY <1>1, HaltStep DEF Crash
<1>2. ASSUME NEW i \in Inodes, AddInode(i, d, n, t), UNCHANGED <<free_blocks, mode, local>>
      PROVE  IInv'
  <2>1. UNCHANGED <<cur, object, block_index, bitmap>>
    BY <1>2 DEF local
  <2>2. \A j \in Inodes : View(j)' = inode'[j]
    BY <1>2 DEF View, Held
  <2>3. QED
    BY <1>2, <2>1, <2>2, AddInodeStep DEF IInv, TypeOK
<1>3. QED
  BY <1>1, <1>2 DEF AddObject

\* Accepting a file keeps the invariant: the copy is what was just stored.
LEMMA AcceptFileStep ==
    ASSUME IInv, NEW n \in Names, AcceptFile(n)
    PROVE  IInv'
<1>1. CASE Crash
  BY <1>1, HaltStep DEF Crash
<1>2. ASSUME NEW i \in Inodes, AddInode(i, Root, n, FIL), cur' = i, object' = EmptyNode(FIL),
             mode' = "receiving", block_index' = 1, UNCHANGED <<free_blocks, bitmap>>
      PROVE  IInv'
  <2>1. mode = "menu" /\ 1 \in 1 .. MAX_BLOCK_COUNT + 1
    BY SizesAssumption DEF AcceptFile
  <2>2. object' \in Node /\ inode \in [Inodes -> Node]
    BY <1>2, EmptyNodeType DEF IInv, TypeOK
  <2>3. i # Root
    BY <1>2 DEF AddInode, TakeInode, FirstFree, IInv, Reserved
  <2>4. inode'[i] = EmptyNode(FIL)
    BY <1>2, <2>2, <2>3 DEF AddInode, AddDirent, WithInode
  <2>5. \A j \in Inodes : View(j)' = inode'[j]
    BY <1>2, <2>4 DEF View, Held
  <2>6. QED
    BY <1>2, <2>1, <2>2, <2>5, Sizes, AddInodeStep
<1>3. QED
  BY <1>1, <1>2 DEF AcceptFile

\* delete_file and delete_dir keep the invariant: what they free is in slots
\* of the inodes they clear, and therefore in no other slot.
LEMMA RemoveEntryStep ==
    ASSUME IInv, mode = "menu", NEW d \in Inodes, NEW k \in DOMAIN Entries(d),
           NEW S \in SUBSET (Inodes \ {Root}), NEW B,
           \A b \in B : /\ b # NoBlock /\ b \in Blocks
                       /\ \E i \in S, s \in Slots : inode[i].blocks[s] = b,
           RemoveEntry(d, k, S, B)
    PROVE  IInv'
<1>1. /\ bitmap_inode' = bitmap_inode \ S
      /\ inode' = [i \in Inodes |-> IF i \in S THEN ClearNode ELSE inode[i]]
      /\ bitmap_blocks' = bitmap_blocks \ B
      /\ block' = [b \in Blocks |-> IF b = DirBlock(d) THEN RemoveAt(Entries(d), k)
                                    ELSE IF b \in B THEN <<>> ELSE block[b]]
      /\ UNCHANGED <<free_blocks, mode, cur, object, block_index, bitmap>>
  BY DEF RemoveEntry, local
<1>2. ClearNode \in Node /\ \A s \in Slots : ClearNode.blocks[s] = NoBlock
  BY EmptyNodeType
<1>3. RemoveAt(Entries(d), k) \in Seq(Dirent)
  BY EntriesType, RemoveAtType DEF IInv
<1>4. TypeOK'
  <2>1. inode' \in [Inodes -> Node]
    BY <1>1, <1>2 DEF IInv, TypeOK
  <2>2. block' \in [Blocks -> Seq(Dirent)]
    BY <1>1, <1>3 DEF IInv, TypeOK
  <2>3. QED
    BY <1>1, <2>1, <2>2 DEF IInv, TypeOK
<1>5. Reserved' /\ Session'
  BY <1>1 DEF IInv, Reserved, Session, NoBlock
<1>6. \A j \in Inodes : View(j) = inode[j] /\ View(j)' = inode'[j]
  BY <1>1 DEF View, Held
<1>7. Marked = bitmap_blocks /\ Marked' = bitmap_blocks' /\ Running
  BY <1>1 DEF Marked, Running
<1>8. \A j \in Inodes : \A s \in Slots :
         inode'[j].blocks[s] # NoBlock =>
            inode'[j].blocks[s] = inode[j].blocks[s] /\ j \notin S
  BY <1>1, <1>2
<1>9. NoSharedBlock'
  BY <1>6, <1>7, <1>8 DEF IInv, NoSharedBlock
<1>10. UsedBlocksMarked'
  <2> SUFFICES ASSUME NEW j \in Inodes, NEW s \in Slots, inode'[j].blocks[s] # NoBlock
               PROVE  inode'[j].blocks[s] \in bitmap_blocks'
    BY <1>6, <1>7 DEF UsedBlocksMarked
  <2>1. inode'[j].blocks[s] = inode[j].blocks[s] /\ j \notin S
    BY <1>8
  <2>2. inode[j].blocks[s] \in bitmap_blocks
    BY <2>1, <1>6, <1>7 DEF IInv, UsedBlocksMarked
  <2>3. inode[j].blocks[s] \notin B
    BY <2>1, <1>6, <1>7 DEF IInv, NoSharedBlock
  <2>4. QED
    BY <1>1, <2>1, <2>2, <2>3
<1>11. QED
  BY <1>4, <1>5, <1>9, <1>10 DEF IInv

\* delete_file keeps the invariant.
LEMMA DeleteFileStep ==
    ASSUME IInv, NEW d \in Inodes, NEW n \in Names, DeleteFile(d, n)
    PROVE  IInv'
<1>1. PICK k \in DOMAIN Entries(d) :
        /\ Entries(d)[k].inode \in Inodes
        /\ RemoveEntry(d, k, {Entries(d)[k].inode}, NodeBlocks(inode[Entries(d)[k].inode]))
  BY DEF DeleteFile
<1> DEFINE t == Entries(d)[k].inode
<1>2. t \in Inodes \ {Root}
  BY <1>1, EntriesType DEF IInv
<1>3. inode[t] \in Node
  BY <1>2 DEF IInv, TypeOK
<1>4. \A b \in NodeBlocks(inode[t]) :
         /\ b # NoBlock /\ b \in Blocks
         /\ \E i \in {t}, s \in Slots : inode[i].blocks[s] = b
  BY <1>3, NodeBlocksSound
<1>5. mode = "menu"
  BY DEF DeleteFile
<1> DEFINE S == {t}
           B == NodeBlocks(inode[t])
<1>6. S \in SUBSET (Inodes \ {Root})
  BY <1>2
<1>7. RemoveEntry(d, k, S, B)
  BY <1>1
<1>8. \A b \in B : /\ b # NoBlock /\ b \in Blocks
                  /\ \E i \in S, s \in Slots : inode[i].blocks[s] = b
  BY <1>4
<1> HIDE DEF S, B
<1>9. QED
  BY <1>5, <1>6, <1>7, <1>8, RemoveEntryStep

\* delete_dir keeps the invariant.
LEMMA DeleteDirStep ==
    ASSUME IInv, NEW d \in Inodes, NEW n \in Names, DeleteDir(d, n)
    PROVE  IInv'
<1>1. PICK k \in DOMAIN Entries(d) :
        /\ Entries(d)[k].inode \in Inodes
        /\ \/ Crash
           \/ RemoveEntry(d, k, Doomed(Entries(d)[k].inode), DoomedBlocks(Entries(d)[k].inode))
  BY DEF DeleteDir
<1>2. Entries(d)[k].inode \in Inodes \ {Root}
  BY <1>1, EntriesType DEF IInv
<1>3. mode = "menu"
  BY DEF DeleteDir
<1>4. CASE Crash
  BY <1>4, HaltStep DEF Crash
<1>5. CASE RemoveEntry(d, k, Doomed(Entries(d)[k].inode), DoomedBlocks(Entries(d)[k].inode))
  <2> DEFINE S == Doomed(Entries(d)[k].inode)
             B == DoomedBlocks(Entries(d)[k].inode)
  <2>1. /\ S \in SUBSET (Inodes \ {Root})
        /\ \A b \in B : /\ b # NoBlock /\ b \in Blocks
                        /\ \E i \in S, s \in Slots : inode[i].blocks[s] = b
    BY <1>2, DoomedSound DEF IInv
  <2>2. RemoveEntry(d, k, S, B)
    BY <1>5
  <2> HIDE DEF S, B
  <2>3. QED
    BY <1>3, <2>1, <2>2, RemoveEntryStep
<1>6. QED
  BY <1>1, <1>4, <1>5

\* Giving a slot of the held copy a block that no inode uses, and marking it.
LEMMA HoldBlockStep ==
    ASSUME IInv, mode # "defrag", Running,
           NEW i \in Inodes, NEW node \in Node, NEW s \in Slots, NEW b \in Blocks,
           \A q \in Slots : node.blocks[q] = View(i).blocks[q],
           \A j \in Inodes \ {i} : View(j) = inode[j],
           TakeBlock(b),
           mode' \in {"writing", "receiving"}, cur' = i, object' = WithBlock(node, s, b),
           inode' = inode
    PROVE  NoSharedBlock' /\ UsedBlocksMarked' /\ object' \in Node
<1>1. /\ \A j \in Inodes \ {i} : View(j)' = View(j)
      /\ View(i)' = WithBlock(node, s, b)
  BY DEF View, Held
<1>2. /\ WithBlock(node, s, b) \in Node
      /\ WithBlock(node, s, b).blocks[s] = b
      /\ \A r \in Slots \ {s} : WithBlock(node, s, b).blocks[r] = View(i).blocks[r]
  BY WithBlockType
<1>3. b # NoBlock /\ \A j \in Inodes : \A q \in Slots : View(j).blocks[q] # b
  BY FreshBlock DEF TakeBlock
<1>4. Marked' = Marked \cup {b} /\ Running'
  BY DEF Marked, TakeBlock, Running
<1>5. \A j \in Inodes : \A q \in Slots :
         \/ View(j)'.blocks[q] = View(j).blocks[q] /\ ~(j = i /\ q = s)
         \/ j = i /\ q = s /\ View(j)'.blocks[q] = b
  BY <1>1, <1>2
<1>6. NoSharedBlock'
  BY <1>3, <1>4, <1>5 DEF IInv, NoSharedBlock
<1>7. UsedBlocksMarked'
  BY <1>4, <1>5 DEF IInv, UsedBlocksMarked
<1>8. QED
  BY <1>2, <1>6, <1>7

\* Opening a file for writing keeps the invariant.
LEMMA OpenForWriteStep ==
    ASSUME IInv, NEW d \in Inodes, NEW n \in Names, OpenForWrite(d, n)
    PROVE  IInv'
<1>1. PICK k \in DOMAIN Entries(d), b \in Blocks :
        /\ Entries(d)[k].inode \in Inodes
        /\ TakeBlock(b)
        /\ object' = WithBlock(inode[Entries(d)[k].inode], 1, b)
        /\ cur' = Entries(d)[k].inode
  BY DEF OpenForWrite
<1>2. /\ mode = "menu" /\ mode' = "writing" /\ block_index' = 1
      /\ UNCHANGED <<bitmap_inode, free_blocks, inode, block, bitmap>>
  BY DEF OpenForWrite
<1>3. \A j \in Inodes : View(j) = inode[j]
  BY <1>2 DEF View, Held
<1>4. inode[cur'] \in Node /\ cur' \in Inodes
  BY <1>1 DEF IInv, TypeOK
<1>5. mode # "defrag" /\ Running /\ 1 \in Slots /\ 1 \in 1 .. MAX_BLOCK_COUNT + 1
  BY <1>2, Sizes, SizesAssumption DEF Running
<1>6. NoSharedBlock' /\ UsedBlocksMarked' /\ object' \in Node
  BY <1>1, <1>2, <1>3, <1>4, <1>5, HoldBlockStep
<1>7. TypeOK'
  BY <1>1, <1>2, <1>4, <1>5, <1>6 DEF IInv, TypeOK, TakeBlock
<1>8. Reserved' /\ Session'
  BY <1>1, <1>2, <1>5 DEF IInv, Reserved, Session, TakeBlock
<1>9. QED
  BY <1>6, <1>7, <1>8 DEF IInv

\* Storing the held inode at the end of a write, or of a receiving, keeps the
\* invariant.
LEMMA CloseFileStep ==
    ASSUME IInv, mode \in {"writing", "receiving"}, CloseFile,
           block' \in [Blocks -> Seq(Dirent)],
           UNCHANGED <<bitmap_inode, bitmap_blocks, free_blocks>>
    PROVE  IInv'
<1>1. /\ inode' = [inode EXCEPT ![cur] = object] /\ mode' = "menu"
      /\ cur' = Root /\ object' = ClearNode /\ block_index' = 1 /\ bitmap' = {}
  BY DEF CloseFile, DropLocal
<1>3. ClearNode \in Node /\ 1 \in 1 .. MAX_BLOCK_COUNT + 1
  BY EmptyNodeType, SizesAssumption
<1>4. TypeOK'
  BY <1>1, <1>3, Sizes DEF IInv, TypeOK
<1>5. \A j \in Inodes : View(j)' = View(j)
  BY <1>1 DEF View, Held, IInv, TypeOK
<1>6. Marked' = Marked /\ Running
  BY <1>1 DEF Marked, Running
<1>7. NoSharedBlock' /\ UsedBlocksMarked'
  BY <1>5, <1>6 DEF IInv, NoSharedBlock, UsedBlocksMarked
<1>8. Reserved' /\ Session'
  BY <1>1 DEF IInv, Reserved, Session
<1>9. QED
  BY <1>4, <1>7, <1>8 DEF IInv

\* A whole block typed keeps the invariant.
LEMMA FillBlockStep ==
    ASSUME IInv, NEW text \in Texts, FillBlock(text)
    PROVE  IInv'
<1>1. mode = "writing" /\ UNCHANGED <<bitmap_inode, free_blocks>>
  BY DEF FillBlock
<1>2. CASE /\ block' = [block EXCEPT ![object.blocks[block_index]] = text]
           /\ UNCHANGED bitmap_blocks
           /\ CloseFile
  <2>1. block' \in [Blocks -> Seq(Dirent)]
    BY <1>2, TypedType DEF IInv
  <2>2. QED
    BY <1>1, <1>2, <2>1, CloseFileStep
<1>3. CASE Crash
  BY <1>3, HaltStep DEF Crash
<1>4. ASSUME NEW b \in Blocks, TakeBlock(b), block_index < MAX_BLOCK_COUNT,
             object' = WithBlock(object, block_index + 1, b),
             block' = [block EXCEPT ![object.blocks[block_index]] = text],
             block_index' = block_index + 1,
             UNCHANGED <<inode, mode, cur, bitmap>>
      PROVE  IInv'
  <2>1. block_index + 1 \in Slots /\ block_index + 1 \in 1 .. MAX_BLOCK_COUNT + 1
    BY <1>1, <1>4, SizesAssumption DEF IInv, Session, Slots
  <2>2. object \in Node /\ cur \in Inodes
    BY DEF IInv, TypeOK
  <2>3. View(cur) = object /\ \A j \in Inodes \ {cur} : View(j) = inode[j]
    BY <1>1 DEF View, Held
  <2>4. mode # "defrag" /\ Running /\ mode' = "writing" /\ cur' = cur /\ inode' = inode
    BY <1>1, <1>4 DEF Running
  <2>5. NoSharedBlock' /\ UsedBlocksMarked' /\ object' \in Node
    BY <1>4, <2>1, <2>2, <2>3, <2>4, HoldBlockStep
  <2>6. text \in Seq(Dirent)
    BY TextsType
  <2>7. TypeOK'
    BY <1>1, <1>4, <2>1, <2>5, <2>6 DEF IInv, TypeOK, TakeBlock
  <2>8. Reserved' /\ Session'
    BY <1>1, <1>4, <2>1 DEF IInv, Reserved, Session, TakeBlock
  <2>9. QED
    BY <2>5, <2>7, <2>8 DEF IInv
<1>5. QED
  BY <1>2, <1>3, <1>4 DEF FillBlock

\* The end of a write keeps the invariant.
LEMMA FinishWriteStep ==
    ASSUME IInv, NEW text \in Texts, FinishWrite(text)
    PROVE  IInv'
<1>1. block' \in [Blocks -> Seq(Dirent)]
  BY TypedType DEF FinishWrite, IInv
<1>2. QED
  BY <1>1, CloseFileStep DEF FinishWrite

\* A block received keeps the invariant.
LEMMA ReceiveBlockStep ==
    ASSUME IInv, NEW text \in Texts, ReceiveBlock(text)
    PROVE  IInv'
<1>1. mode = "receiving" /\ block_index <= MAX_BLOCK_COUNT
  BY DEF ReceiveBlock
<1>2. CASE Crash
  BY <1>2, HaltStep DEF Crash
<1>3. ASSUME NEW b \in Blocks, TakeBlock(b),
             block' = [block EXCEPT ![b] = text],
             object' = WithBlock(object, block_index, b),
             block_index' = block_index + 1,
             UNCHANGED <<bitmap_inode, free_blocks, inode, mode, cur, bitmap>>
      PROVE  IInv'
  <2>1. block_index \in Slots /\ block_index + 1 \in 1 .. MAX_BLOCK_COUNT + 1
    BY <1>1, SizesAssumption DEF IInv, TypeOK, Slots
  <2>2. object \in Node /\ cur \in Inodes
    BY DEF IInv, TypeOK
  <2>3. View(cur) = object /\ \A j \in Inodes \ {cur} : View(j) = inode[j]
    BY <1>1 DEF View, Held
  <2>4. mode # "defrag" /\ Running /\ mode' = "receiving" /\ cur' = cur /\ inode' = inode
    BY <1>1, <1>3 DEF Running
  <2>5. NoSharedBlock' /\ UsedBlocksMarked' /\ object' \in Node
    BY <1>3, <2>1, <2>2, <2>3, <2>4, HoldBlockStep
  <2>6. block' \in [Blocks -> Seq(Dirent)]
    BY <1>3, TypedType DEF IInv
  <2>7. TypeOK'
    BY <1>1, <1>3, <2>1, <2>5, <2>6 DEF IInv, TypeOK, TakeBlock
  <2>8. Reserved' /\ Session'
    BY <1>3, <2>4 DEF IInv, Reserved, Session, TakeBlock
  <2>9. QED
    BY <2>5, <2>7, <2>8 DEF IInv
<1>4. QED
  BY <1>1, <1>2, <1>3 DEF ReceiveBlock

\* Storing a received file keeps the invariant.
LEMMA StoreReceivedStep ==
    ASSUME IInv, StoreReceived
    PROVE  IInv'
  BY CloseFileStep DEF StoreReceived, IInv, TypeOK

\* check_filesystem_dialog keeps the invariant.
LEMMA CheckFilesystemStep ==
    ASSUME IInv, CheckFilesystem
    PROVE  IInv'
<1>1. /\ bitmap_blocks' = bitmap_blocks \cup NodeBlocks(inode[Root])
      /\ free_blocks' = Cardinality((Blocks \ {0}) \ bitmap_blocks')
      /\ mode = "menu"
      /\ UNCHANGED <<bitmap_inode, inode, block, mode, cur, object, block_index, bitmap>>
  BY DEF CheckFilesystem, local
<1>2. NodeBlocks(inode[Root]) \subseteq Blocks
  BY NodeBlocksSound, Sizes DEF IInv, TypeOK
<1>3. free_blocks' \in Nat
  <2>1. IsFiniteSet(Blocks)
    BY FS_Interval, SizesAssumption DEF Blocks
  <2>2. IsFiniteSet((Blocks \ {0}) \ bitmap_blocks')
    BY <2>1, FS_Subset
  <2>3. QED
    BY <1>1, <2>2, FS_CardinalityType
<1>4. TypeOK'
  BY <1>1, <1>2, <1>3 DEF IInv, TypeOK
<1>5. \A j \in Inodes : View(j)' = View(j)
  BY <1>1 DEF View, Held
<1>6. Marked \subseteq Marked' /\ Running
  BY <1>1 DEF Marked, Running
<1>7. NoSharedBlock' /\ UsedBlocksMarked'
  BY <1>5, <1>6 DEF IInv, NoSharedBlock, UsedBlocksMarked
<1>8. Reserved' /\ Session'
  BY <1>1 DEF IInv, Reserved, Session
<1>9. QED
  BY <1>4, <1>7, <1>8 DEF IInv

\* Beginning a defragmentation keeps the invariant.
LEMMA DefragStartStep ==
    ASSUME IInv, DefragStart
    PROVE  IInv'
<1>1. /\ mode = "menu" /\ mode' = "defrag" /\ cur' = 1 /\ object' = inode[1]
      /\ block_index' = 1 /\ bitmap' = bitmap_blocks
      /\ UNCHANGED <<bitmap_inode, bitmap_blocks, free_blocks, inode, block>>
  BY DEF DefragStart, disk
<1>2. 1 \in Inodes /\ 1 \in 1 .. MAX_BLOCK_COUNT + 1
  BY Sizes, SizesAssumption
<1>3. TypeOK'
  BY <1>1, <1>2 DEF IInv, TypeOK
<1>4. \A j \in Inodes : View(j)' = View(j)
  BY <1>1 DEF View, Held
<1>5. Marked' = Marked /\ Running
  BY <1>1 DEF Marked, Running
<1>6. NoSharedBlock' /\ UsedBlocksMarked'
  BY <1>4, <1>5 DEF IInv, NoSharedBlock, UsedBlocksMarked
<1>7. Reserved' /\ Session'
  BY <1>1 DEF IInv, Reserved, Session
<1>8. QED
  BY <1>3, <1>6, <1>7 DEF IInv

\* One slot of a defragmentation keeps the invariant: the block it moves to is
\* free in the copy of the bitmap, so no other slot has it.
LEMMA DefragSlotStep ==
    ASSUME IInv, DefragSlot
    PROVE  IInv'
<1> DEFINE b == object.blocks[block_index]
<1>1. /\ mode = "defrag" /\ mode' = mode /\ cur' = cur
      /\ block_index' = block_index + 1
      /\ block_index <= MAX_BLOCK_COUNT /\ b # NoBlock
      /\ UNCHANGED <<bitmap_inode, bitmap_blocks, free_blocks, inode>>
  BY DEF DefragSlot, DefragHere
<1>2. block_index \in Slots /\ block_index' \in 1 .. MAX_BLOCK_COUNT + 1
  BY <1>1, SizesAssumption DEF IInv, TypeOK, Slots
<1>3. object \in Node /\ cur \in Inodes /\ b \in Blocks
  BY <1>2 DEF IInv, TypeOK, Node
<1>4. /\ View(cur) = object /\ View(cur)' = object' /\ Marked = bitmap /\ Marked' = bitmap'
      /\ Running
      /\ \A j \in Inodes \ {cur} : View(j)' = View(j)
  BY <1>1 DEF View, Held, Marked, Running
<1>5. CASE UNCHANGED <<block, bitmap, object>>
  <2>1. TypeOK'
    BY <1>1, <1>2, <1>5 DEF IInv, TypeOK
  <2>2. \A j \in Inodes : View(j)' = View(j)
    BY <1>1, <1>4, <1>5
  <2>3. NoSharedBlock' /\ UsedBlocksMarked'
    BY <1>4, <1>5, <2>2 DEF IInv, NoSharedBlock, UsedBlocksMarked
  <2>4. Reserved' /\ Session'
    BY <1>1, <1>5 DEF IInv, Reserved, Session
  <2>5. QED
    BY <2>1, <2>3, <2>4 DEF IInv
<1>6. ASSUME NEW k \in 1 .. b - 1, k \notin bitmap, MoveBlock(b, k)
      PROVE  IInv'
  <2>1. /\ block' = [block EXCEPT ![k] = block[b], ![b] = <<>>]
        /\ bitmap' = (bitmap \cup {k}) \ {b}
        /\ object' = WithBlock(object, block_index, k)
    BY <1>6 DEF MoveBlock
  <2>2. k \in Blocks /\ k # b /\ k # NoBlock
    BY <1>3, <1>6, SizesAssumption DEF Blocks, NoBlock
  <2>3. /\ object' \in Node
        /\ object'.blocks[block_index] = k
        /\ \A r \in Slots \ {block_index} : object'.blocks[r] = object.blocks[r]
    BY <1>2, <1>3, <2>1, <2>2, WithBlockType
  <2>4. block' \in [Blocks -> Seq(Dirent)]
    <3>1. block \in [Blocks -> Seq(Dirent)]
      BY DEF IInv, TypeOK
    <3>2. block[b] \in Seq(Dirent) /\ <<>> \in Seq(Dirent)
      BY <1>3, <3>1
    <3>3. QED
      BY <1>3, <2>1, <2>2, <3>1, <3>2
  <2>5. TypeOK'
    BY <1>1, <1>2, <2>1, <2>2, <2>3, <2>4 DEF IInv, TypeOK
  <2>6. \A i \in Inodes : \A s \in Slots : View(i).blocks[s] # k
    BY <1>4, <1>6, <2>2 DEF IInv, UsedBlocksMarked
  <2>7. \A i \in Inodes : \A s \in Slots :
           \/ View(i)'.blocks[s] = View(i).blocks[s] /\ ~(i = cur /\ s = block_index)
           \/ i = cur /\ s = block_index /\ View(i)'.blocks[s] = k
    BY <1>1, <1>4, <2>3
  <2>8. \A i \in Inodes : \A s \in Slots :
           View(i).blocks[s] = b => i = cur /\ s = block_index
    BY <1>1, <1>2, <1>3, <1>4 DEF IInv, NoSharedBlock
  <2>9. NoSharedBlock'
    BY <1>4, <2>6, <2>7 DEF IInv, NoSharedBlock
  <2>10. UsedBlocksMarked'
    BY <1>4, <2>1, <2>2, <2>7, <2>8 DEF IInv, UsedBlocksMarked
  <2>11. Reserved' /\ Session'
    BY <1>1, <2>1 DEF IInv, Reserved, Session, NoBlock
  <2>12. QED
    BY <2>5, <2>9, <2>10, <2>11 DEF IInv
<1>7. QED
  BY <1>5, <1>6 DEF DefragSlot

\* Storing an inode during a defragmentation keeps the invariant.
LEMMA DefragStoreStep ==
    ASSUME IInv, DefragStore
    PROVE  IInv'
<1>1. /\ mode = "defrag" /\ inode' = [inode EXCEPT ![cur] = object]
      /\ UNCHANGED <<bitmap_inode, free_blocks, block>>
  BY DEF DefragStore
<1>2. /\ View(cur) = object /\ Marked = bitmap /\ Running
      /\ \A j \in Inodes \ {cur} : View(j) = inode[j]
  BY <1>1 DEF View, Held, Marked, Running
<1>3. /\ inode' \in [Inodes -> Node]
      /\ \A j \in Inodes : inode'[j] = View(j)
  BY <1>1, <1>2 DEF IInv, TypeOK
<1>4. 1 \in 1 .. MAX_BLOCK_COUNT + 1 /\ ClearNode \in Node
  BY SizesAssumption, EmptyNodeType
<1>5. CASE /\ cur < TOTAL_INODE - 1 /\ cur' = cur + 1 /\ object' = inode[cur + 1]
           /\ block_index' = 1
           /\ UNCHANGED <<bitmap_blocks, bitmap, mode>>
  <2>1. cur + 1 \in Inodes /\ cur + 1 # cur
    BY <1>5, SizesAssumption DEF Inodes, IInv, TypeOK
  <2>2. TypeOK'
    BY <1>1, <1>3, <1>4, <1>5, <2>1 DEF IInv, TypeOK
  <2>3. \A j \in Inodes : View(j)' = View(j)
    BY <1>1, <1>2, <1>3, <1>5, <2>1 DEF View, Held
  <2>4. Marked' = Marked
    BY <1>1, <1>5 DEF Marked
  <2>5. NoSharedBlock' /\ UsedBlocksMarked'
    BY <1>2, <2>3, <2>4 DEF IInv, NoSharedBlock, UsedBlocksMarked
  <2>6. Reserved' /\ Session'
    BY <1>1, <1>5 DEF IInv, Reserved, Session
  <2>7. QED
    BY <2>2, <2>5, <2>6 DEF IInv
<1>6. CASE bitmap_blocks' = bitmap /\ mode' = "menu" /\ DropLocal
  <2>1. TypeOK'
    BY <1>1, <1>3, <1>4, <1>6, Sizes DEF IInv, TypeOK, DropLocal
  <2>2. \A j \in Inodes : View(j)' = View(j)
    BY <1>3, <1>6 DEF View, Held
  <2>3. Marked' = Marked
    BY <1>1, <1>6 DEF Marked
  <2>4. NoSharedBlock' /\ UsedBlocksMarked'
    BY <1>2, <2>2, <2>3 DEF IInv, NoSharedBlock, UsedBlocksMarked
  <2>5. Reserved' /\ Session'
    BY <1>1, <1>6 DEF IInv, Reserved, Session
  <2>6. QED
    BY <2>1, <2>4, <2>5 DEF IInv
<1>7. QED
  BY <1>5, <1>6 DEF DefragStore

-----------------------------------------------------------------------------
(* The invariant *)

\* What a formatted disk holds.
LEMMA Formatted ==
    ASSUME InitDisk
    PROVE  /\ bitmap_inode \subseteq Inodes /\ Root \in bitmap_inode
           /\ bitmap_blocks \subseteq Blocks /\ 0 \in bitmap_blocks
           /\ free_blocks \in Nat
           /\ inode \in [Inodes -> Node]
           /\ \A i \in Inodes : \A s \in Slots : inode[i].blocks[s] = NoBlock
           /\ block \in [Blocks -> Seq(Dirent)]
<1>1. EmptyNode(DIR) \in Node /\ \A s \in Slots : EmptyNode(DIR).blocks[s] = NoBlock
  BY EmptyNodeType
<1>2. inode \in [Inodes -> Node] /\ block \in [Blocks -> Seq(Dirent)]
  BY <1>1 DEF InitDisk
<1>3. \A i \in Inodes : \A s \in Slots : inode[i].blocks[s] = NoBlock
  BY <1>1 DEF InitDisk
<1>4. QED
  BY <1>2, <1>3, Sizes, SizesAssumption DEF InitDisk

\* It holds of the freshly formatted disk.
LEMMA InitIInv == Init => IInv
<1> SUFFICES ASSUME Init PROVE IInv
  OBVIOUS
<1>1. InitDisk /\ InitLocal /\ mode = "menu"
  BY DEF Init
<1>2. TypeOK
  BY <1>1, Formatted, EmptyNodeType, Sizes, SizesAssumption DEF InitLocal, TypeOK
<1>3. \A i \in Inodes : View(i) = inode[i]
  BY <1>1 DEF View, Held
<1>4. NoSharedBlock /\ UsedBlocksMarked
  BY <1>1, <1>3, Formatted DEF NoSharedBlock, UsedBlocksMarked
<1>5. Reserved /\ Session
  BY <1>1, Formatted DEF Reserved, Session
<1>6. QED
  BY <1>2, <1>4, <1>5 DEF IInv

\* Starting again, which formats, keeps the invariant.
LEMMA StartStep ==
    ASSUME IInv, Start
    PROVE  IInv'
<1>1. /\ bitmap_inode' = {Root} /\ bitmap_blocks' = {0} /\ free_blocks' = TOTAL_BLOCKS
      /\ inode' = [i \in Inodes |-> EmptyNode(DIR)]
      /\ block' = [b \in Blocks |-> <<>>]
      /\ mode' = "menu"
      /\ UNCHANGED <<cur, object, block_index, bitmap>>
  BY DEF Start, local
<1>2. /\ EmptyNode(DIR) \in Node
      /\ \A s \in Slots : EmptyNode(DIR).blocks[s] = NoBlock
  BY EmptyNodeType
<1>3. inode' \in [Inodes -> Node] /\ block' \in [Blocks -> Seq(Dirent)]
  BY <1>1, <1>2
<1>4. TypeOK'
  BY <1>1, <1>3, Sizes, SizesAssumption DEF IInv, TypeOK
<1>5. \A i \in Inodes : View(i)' = inode'[i]
  BY <1>1 DEF View, Held
<1>6. NoSharedBlock' /\ UsedBlocksMarked'
  BY <1>1, <1>2, <1>5 DEF NoSharedBlock, UsedBlocksMarked
<1>7. Reserved' /\ Session'
  BY <1>1 DEF Reserved, Session
<1>8. QED
  BY <1>4, <1>6, <1>7 DEF IInv

\* Every step keeps it.
LEMMA NextIInv == IInv /\ [Next]_vars => IInv'
<1> SUFFICES ASSUME IInv, [Next]_vars PROVE IInv'
  OBVIOUS
<1>1. ASSUME NEW d \in Parents, NEW n \in Names,
             \/ CreateFile(d, n) \/ CreateDir(d, n) \/ DeleteFile(d, n)
             \/ DeleteDir(d, n) \/ OpenForWrite(d, n)
      PROVE  IInv'
  <2>1. d \in Inodes
    BY DEF Parents
  <2>2. CASE CreateFile(d, n)
    BY <2>1, <2>2, AddObjectStep DEF CreateFile
  <2>3. CASE CreateDir(d, n)
    BY <2>1, <2>3, AddObjectStep DEF CreateDir
  <2>4. CASE DeleteFile(d, n)
    BY <2>1, <2>4, DeleteFileStep
  <2>5. CASE DeleteDir(d, n)
    BY <2>1, <2>5, DeleteDirStep
  <2>6. CASE OpenForWrite(d, n)
    BY <2>1, <2>6, OpenForWriteStep
  <2>7. QED
    BY <1>1, <2>2, <2>3, <2>4, <2>5, <2>6
<1>2. CASE EmptyPath
  BY <1>2, HaltStep DEF EmptyPath, Crash
<1>3. ASSUME NEW text \in Texts, FillBlock(text) \/ FinishWrite(text) \/ ReceiveBlock(text)
      PROVE  IInv'
  BY <1>3, FillBlockStep, FinishWriteStep, ReceiveBlockStep
<1>4. CASE CheckFilesystem
  BY <1>4, CheckFilesystemStep
<1>5. CASE DefragStart
  BY <1>5, DefragStartStep
<1>6. CASE DefragSlot
  BY <1>6, DefragSlotStep
<1>7. CASE DefragStore
  BY <1>7, DefragStoreStep
<1>8. CASE Stop
  BY <1>8, HaltStep DEF Stop
<1>9. CASE Start
  BY <1>9, StartStep
<1>10. CASE UNCHANGED vars
  <2>1. UNCHANGED <<bitmap_inode, bitmap_blocks, free_blocks, inode, block,
                    mode, cur, object, block_index, bitmap>>
    BY <1>10 DEF vars, disk, local
  <2>2. TypeOK'
    BY <2>1 DEF IInv, TypeOK
  <2>3. Reserved' /\ Session'
    BY <2>1 DEF IInv, Reserved, Session
  <2>4. /\ \A j \in Inodes : View(j)' = View(j)
        /\ Marked' = Marked /\ Running' = Running
    BY <2>1 DEF View, Held, Marked, Running
  <2>5. NoSharedBlock' /\ UsedBlocksMarked'
    BY <2>4 DEF IInv, NoSharedBlock, UsedBlocksMarked
  <2>6. QED
    BY <2>2, <2>3, <2>5 DEF IInv
<1>11. CASE StoreReceived
  BY <1>11, StoreReceivedStep
<1>12. ASSUME NEW n \in Names, AcceptFile(n)
       PROVE  IInv'
  BY <1>12, AcceptFileStep
<1>13. QED
  BY <1>1, <1>2, <1>3, <1>4, <1>5, <1>6, <1>7, <1>8, <1>9, <1>10, <1>11, <1>12 DEF Next

\* The strengthened invariant holds of every behaviour.
THEOREM Invariance == Spec => []IInv
  BY InitIInv, NextIInv, PTL DEF Spec

\* Every variable keeps its type: no entry names inode 0, no slot and no bitmap
\* a block that is not on the disk, whatever is created, deleted, typed or moved.
THEOREM TypeCorrect == Spec => []TypeOK
<1>1. IInv => TypeOK
  BY DEF IInv
<1>2. QED
  BY <1>1, Invariance, PTL

\* The allocator never gives a block to two slots, and neither a deletion nor
\* any step of a defragmentation makes two slots share one.
THEOREM BlocksNotShared == Spec => []NoSharedBlock
<1>1. IInv => NoSharedBlock
  BY DEF IInv
<1>2. QED
  BY <1>1, Invariance, PTL

\* Every block in use is marked, in the stored bitmap or, while a
\* defragmentation runs, in its copy.
THEOREM BlocksMarked == Spec => []UsedBlocksMarked
<1>1. IInv => UsedBlocksMarked
  BY DEF IInv
<1>2. QED
  BY <1>1, Invariance, PTL

-----------------------------------------------------------------------------
(***************************************************************************)
(* Proofs about the layout of the disk: used slots come first (NoGap), and *)
(* a defragmentation compacts the disk (DefragCompacts).                   *)
(*                                                                         *)
(* That a block once placed stays so rests on the order of the work: a     *)
(* block moves to the lowest free number k only, so that every block       *)
(* placed before is below k, and the number it frees is above k.  That the *)
(* slots behind the first empty one need not be looked at is NoGap; that   *)
(* inode 0, which the loop leaves out, has no block is RootBare.           *)
(***************************************************************************)

\* Used slots come first.
Packed(node) ==
    \A s, r \in Slots : node.blocks[s] = NoBlock /\ s < r => node.blocks[r] = NoBlock

\* The slot in turn of a session, or those before it, have blocks.
Filled ==
    /\ mode = "writing" => object.blocks[block_index] # NoBlock
    /\ mode = "receiving" =>
          \A q \in Slots : q < block_index => object.blocks[q] # NoBlock

\* The root's entries are in block 0, and no inode has it for good.
RootBare ==
    Running => /\ Held => cur # Root
               /\ \A s \in Slots : View(Root).blocks[s] = NoBlock

\* The slots that a defragmentation has gone past.
Past(j, s) == j < cur \/ (j = cur /\ s < block_index)

\* Below the blocks of those slots there is no free one.
Placed ==
    mode = "defrag" =>
        \A j \in Inodes : \A s \in Slots :
            Past(j, s) => 1 .. View(j).blocks[s] - 1 \subseteq bitmap

\* What is invariant of the layout.
Layout == NoGap /\ Filled /\ RootBare /\ Placed

\* NoGap says it of every inode.
LEMMA NoGapPacked ==
    /\ NoGap <=> (Running => \A i \in Inodes : Packed(View(i)))
    /\ NoGap' <=> (Running' => \A i \in Inodes : Packed(View(i)'))
  BY DEF NoGap, Packed

\* An inode without blocks has no gap.
LEMMA EmptyPacked ==
    ASSUME NEW t \in {DIR, FIL}
    PROVE  Packed(EmptyNode(t)) /\ Packed(ClearNode)
  BY EmptyNodeType DEF Packed

\* The first empty slot may be given a block.
LEMMA WithBlockPacked ==
    ASSUME NEW node \in Node, Packed(node), NEW s \in Slots, NEW b \in Blocks,
           \A q \in Slots : q < s => node.blocks[q] # NoBlock,
           b # NoBlock \/ b = node.blocks[s]
    PROVE  Packed(WithBlock(node, s, b))
<1>1. /\ WithBlock(node, s, b).blocks[s] = b
      /\ \A r \in Slots \ {s} : WithBlock(node, s, b).blocks[r] = node.blocks[r]
  BY WithBlockType
<1>2. \A q, r \in Slots : q < r \/ q = r \/ r < q
  BY Sizes
<1>3. QED
  BY <1>1, <1>2 DEF Packed

\* Below a used slot all are used.
LEMMA UsedBelow ==
    ASSUME NEW node, Packed(node), NEW s \in Slots, node.blocks[s] # NoBlock
    PROVE  \A q \in Slots : q < s => node.blocks[q] # NoBlock
  BY DEF Packed

-----------------------------------------------------------------------------
(* The steps *)

\* A step to the menu, or one after which the program does not run, needs the
\* inodes only.
LEMMA LayoutInMenu ==
    ASSUME mode' \in {"menu", "down", "crashed"},
           mode' = "menu" => \A j \in Inodes : Packed(inode'[j]),
           mode' = "menu" => \A s \in Slots : inode'[Root].blocks[s] = NoBlock
    PROVE  Layout'
<1>1. mode' # "defrag" /\ mode' # "writing" /\ mode' # "receiving" /\ ~Held'
  BY DEF Held
<1>2. \A j \in Inodes : View(j)' = inode'[j]
  BY <1>1 DEF View
<1>3. Running' => mode' = "menu"
  BY DEF Running
<1>4. NoGap' /\ RootBare'
  BY <1>1, <1>2, <1>3, NoGapPacked, Sizes DEF RootBare
<1>5. Filled' /\ Placed'
  BY <1>1 DEF Filled, Placed
<1>6. QED
  BY <1>4, <1>5 DEF Layout

\* What the layout is where no inode is held.
LEMMA MenuLayout ==
    ASSUME Layout, mode = "menu"
    PROVE  /\ \A j \in Inodes : View(j) = inode[j] /\ Packed(inode[j])
           /\ \A s \in Slots : inode[Root].blocks[s] = NoBlock
<1>1. \A j \in Inodes : View(j) = inode[j]
  BY DEF View, Held
<1>2. QED
  BY <1>1, NoGapPacked, Sizes DEF Layout, RootBare, Running

\* A new inode with its entry: the table after it has no gap, and the root's
\* inode is as it was.
LEMMA AddInodeLayout ==
    ASSUME IInv, Layout, mode = "menu",
           NEW d \in Inodes, NEW n \in Names, NEW t \in {DIR, FIL}, NEW i \in Inodes,
           AddInode(i, d, n, t)
    PROVE  /\ \A j \in Inodes : Packed(inode'[j])
           /\ \A s \in Slots : inode'[Root].blocks[s] = NoBlock
           /\ i # Root
<1> DEFINE entry == [inode |-> i, name |-> n]
           tbl   == WithInode(i, t)
<1>1. TakeInode(i) /\ AddDirent(d, entry, tbl)
  BY DEF AddInode
<1>2. PICK b \in Blocks :
        /\ IF LacksBlock(d, tbl) THEN TakeBlock(b) ELSE b = tbl[d].blocks[1]
        /\ \/ inode' = tbl
           \/ inode' = [tbl EXCEPT ![d] = WithBlock(tbl[d], 1, b)]
  BY <1>1 DEF AddDirent
<1>3. i # Root
  BY <1>1 DEF TakeInode, FirstFree, IInv, Reserved
<1>4. EmptyNode(t) \in Node /\ Packed(EmptyNode(t))
  BY EmptyNodeType, EmptyPacked
<1>5. /\ tbl \in [Inodes -> Node]
      /\ \A j \in Inodes : tbl[j] = IF j = i THEN EmptyNode(t) ELSE inode[j]
  BY <1>4 DEF IInv, TypeOK, WithInode
<1>6. \A j \in Inodes : Packed(tbl[j])
  BY <1>4, <1>5, MenuLayout
<1>7. \A s \in Slots : tbl[Root].blocks[s] = NoBlock
  BY <1>3, <1>5, MenuLayout, Sizes
<1> HIDE DEF entry, tbl
\* A block of its own is never block 0.
<1>8. b # NoBlock \/ b = tbl[d].blocks[1]
  BY <1>2, FreshBlock DEF TakeBlock, Running
<1>9. \A q \in Slots : q < 1 => tbl[d].blocks[q] # NoBlock
  BY DEF Slots
<1>10. Packed(WithBlock(tbl[d], 1, b))
  BY <1>5, <1>6, <1>8, <1>9, Sizes, WithBlockPacked
<1>11. d = Root => \A s \in Slots : WithBlock(tbl[d], 1, b).blocks[s] = NoBlock
  BY <1>2, <1>5, <1>7, Sizes, WithBlockType DEF LacksBlock
<1>12. QED
  BY <1>2, <1>3, <1>5, <1>6, <1>7, <1>10, <1>11, Sizes

\* create_file and create_dir keep the layout.
LEMMA AddObjectLayout ==
    ASSUME IInv, Layout, mode = "menu", NEW d \in Inodes, NEW n \in Names, NEW t \in {DIR, FIL},
           AddObject(d, n, t)
    PROVE  Layout'
<1>1. CASE Crash
  BY <1>1, LayoutInMenu DEF Crash
<1>2. ASSUME NEW i \in Inodes, AddInode(i, d, n, t), UNCHANGED <<free_blocks, mode, local>>
      PROVE  Layout'
  BY <1>2, AddInodeLayout, LayoutInMenu
<1>3. QED
  BY <1>1, <1>2 DEF AddObject

\* delete_file and delete_dir only clear inodes.
LEMMA RemoveEntryLayout ==
    ASSUME IInv, Layout, mode = "menu", NEW d, NEW k, NEW S, NEW B,
           RemoveEntry(d, k, S, B)
    PROVE  Layout'
<1>1. /\ inode' = [i \in Inodes |-> IF i \in S THEN ClearNode ELSE inode[i]]
      /\ mode' = "menu"
  BY DEF RemoveEntry
<1>2. Packed(ClearNode) /\ \A s \in Slots : ClearNode.blocks[s] = NoBlock
  BY EmptyPacked, EmptyNodeType
<1>3. QED
  BY <1>1, <1>2, MenuLayout, Sizes, LayoutInMenu

\* Deleting keeps the layout.
LEMMA DeleteLayout ==
    ASSUME IInv, Layout, NEW d \in Inodes, NEW n \in Names,
           DeleteFile(d, n) \/ DeleteDir(d, n)
    PROVE  Layout'
<1>1. mode = "menu"
  BY DEF DeleteFile, DeleteDir
<1>2. \/ Crash
      \/ \E k, S, B : RemoveEntry(d, k, S, B)
  BY DEF DeleteFile, DeleteDir
<1>3. CASE Crash
  BY <1>3, LayoutInMenu DEF Crash
<1>4. QED
  BY <1>1, <1>2, <1>3, RemoveEntryLayout

\* A session whose copy has no gap keeps the layout.
LEMMA SessionLayout ==
    ASSUME IInv, Layout, Running, mode' \in {"writing", "receiving"},
           NEW i \in Inodes, i # Root, cur' = i, Packed(object'), Filled',
           \A j \in Inodes \ {i} : inode'[j] = View(j)
    PROVE  Layout'
<1>1. /\ Held' /\ Running' /\ mode' # "defrag"
      /\ View(i)' = object' /\ \A j \in Inodes \ {i} : View(j)' = View(j)
  BY DEF Held, Running, View
<1>2. \A j \in Inodes : Packed(View(j)')
  BY <1>1, NoGapPacked DEF Layout
<1>3. NoGap'
  BY <1>2, NoGapPacked
<1>4. RootBare'
  BY <1>1, Sizes DEF Layout, RootBare
<1>5. QED
  BY <1>1, <1>3, <1>4 DEF Layout, Placed

\* Taking a file in hand, to write it again, keeps the layout: the first slot
\* gets a block.
LEMMA OpenForWriteLayout ==
    ASSUME IInv, Layout, NEW d \in Inodes, NEW n \in Names, OpenForWrite(d, n)
    PROVE  Layout'
<1>1. PICK k \in DOMAIN Entries(d), b \in Blocks :
        /\ Entries(d)[k].inode \in Inodes
        /\ TakeBlock(b)
        /\ object' = WithBlock(inode[Entries(d)[k].inode], 1, b)
        /\ cur' = Entries(d)[k].inode
  BY DEF OpenForWrite
<1> DEFINE t == Entries(d)[k].inode
<1>2. /\ mode = "menu" /\ mode' = "writing" /\ block_index' = 1 /\ UNCHANGED inode
      /\ t \in Inodes /\ t # Root
  BY <1>1, EntriesType DEF OpenForWrite, IInv
<1> HIDE DEF t
<1>3. inode[t] \in Node /\ Packed(inode[t])
  BY <1>2, MenuLayout DEF IInv, TypeOK
<1>4. b # NoBlock /\ Running
  BY <1>1, <1>2, FreshBlock DEF TakeBlock, Running
<1>5. \A q \in Slots : q < 1 => inode[t].blocks[q] # NoBlock
  BY DEF Slots
<1>6. object' = WithBlock(inode[t], 1, b)
  BY <1>1 DEF t
<1>7. Packed(object') /\ object'.blocks[1] = b
  <2>1. 1 \in Slots
    BY Sizes
  <2>2. Packed(WithBlock(inode[t], 1, b))
    BY <1>3, <1>4, <1>5, <2>1, WithBlockPacked
  <2>3. WithBlock(inode[t], 1, b).blocks[1] = b
    BY <1>3, <2>1, WithBlockType
  <2>4. QED
    BY <1>6, <2>2, <2>3
<1>8. Filled'
  BY <1>2, <1>4, <1>7 DEF Filled
<1>9. cur' = t /\ \A j \in Inodes \ {t} : inode'[j] = View(j)
  BY <1>1, <1>2, MenuLayout DEF t
<1>10. QED
  BY <1>2, <1>4, <1>7, <1>8, <1>9, SessionLayout

\* Storing the copy in hand keeps the layout.
LEMMA CloseFileLayout ==
    ASSUME IInv, Layout, mode \in {"writing", "receiving"}, CloseFile
    PROVE  Layout'
<1>1. inode' = [inode EXCEPT ![cur] = object] /\ mode' = "menu"
  BY DEF CloseFile
<1>2. Held /\ Running
  BY DEF Held, Running
<1>3. \A j \in Inodes : inode'[j] = View(j)
  BY <1>1, <1>2 DEF View, IInv, TypeOK
<1>4. (\A j \in Inodes : Packed(View(j))) /\ \A s \in Slots : View(Root).blocks[s] = NoBlock
  BY <1>2, NoGapPacked DEF Layout, RootBare
<1>5. QED
  BY <1>1, <1>3, <1>4, Sizes, LayoutInMenu

\* The next block of a session goes into the first empty slot, or, where a
\* file is written again, in place of the block there.
LEMMA NextBlockLayout ==
    ASSUME IInv, Layout, mode \in {"writing", "receiving"}, mode' = mode, cur' = cur,
           NEW s \in Slots, NEW b \in Blocks, TakeBlock(b),
           \A q \in Slots : q < s => object.blocks[q] # NoBlock,
           object' = WithBlock(object, s, b),
           block_index' = IF mode = "writing" THEN s ELSE s + 1,
           UNCHANGED inode
    PROVE  Layout'
<1>1. object \in Node /\ cur \in Inodes /\ Held /\ Running /\ mode # "defrag"
  BY DEF IInv, TypeOK, Held, Running
<1>2. View(cur) = object /\ \A j \in Inodes \ {cur} : View(j) = inode[j]
  BY <1>1 DEF View
<1>3. Packed(object) /\ cur # Root
  BY <1>1, <1>2, NoGapPacked DEF Layout, RootBare
<1>4. b # NoBlock
  BY <1>1, FreshBlock DEF TakeBlock
<1>5. /\ object'.blocks[s] = b
      /\ \A r \in Slots \ {s} : object'.blocks[r] = object.blocks[r]
  BY <1>1, WithBlockType
<1>6. Packed(object')
  BY <1>1, <1>3, <1>4, WithBlockPacked
<1>7. Filled'
  BY <1>4, <1>5, Sizes DEF Filled
<1>8. \A j \in Inodes \ {cur} : inode'[j] = View(j)
  BY <1>2
<1>9. QED
  BY <1>1, <1>3, <1>6, <1>7, <1>8, SessionLayout

\* Typing a whole block keeps the layout.
LEMMA FillBlockLayout ==
    ASSUME IInv, Layout, NEW text \in Texts, FillBlock(text)
    PROVE  Layout'
<1>1. mode = "writing"
  BY DEF FillBlock
<1>2. CASE CloseFile
  BY <1>1, <1>2, CloseFileLayout
<1>3. CASE Crash
  BY <1>3, LayoutInMenu DEF Crash
<1>4. ASSUME NEW b \in Blocks, TakeBlock(b), block_index < MAX_BLOCK_COUNT,
             object' = WithBlock(object, block_index + 1, b),
             block_index' = block_index + 1,
             UNCHANGED <<inode, mode, cur, bitmap>>
      PROVE  Layout'
  <2>1. block_index \in Slots /\ block_index + 1 \in Slots
    BY <1>1, <1>4, SizesAssumption DEF IInv, Session, Slots
  <2>2. Packed(object) /\ object.blocks[block_index] # NoBlock
    BY <1>1, NoGapPacked DEF Layout, Filled, Running, View, Held, IInv, TypeOK
  <2>3. \A q \in Slots : q < block_index + 1 => object.blocks[q] # NoBlock
    <3>1. \A q \in Slots : q < block_index + 1 => q < block_index \/ q = block_index
      BY <2>1, Sizes
    <3>2. QED
      BY <2>1, <2>2, <3>1, UsedBelow
  <2>4. QED
    BY <1>1, <1>4, <2>1, <2>3, NextBlockLayout
<1>5. QED
  BY <1>2, <1>3, <1>4 DEF FillBlock

\* Receiving keeps the layout, from the name given to the copy stored.
LEMMA ReceiveLayout ==
    ASSUME IInv, Layout,
           \/ \E n \in Names : AcceptFile(n)
           \/ \E text \in Texts : ReceiveBlock(text)
           \/ StoreReceived
    PROVE  Layout'
<1>1. CASE Crash
  BY <1>1, LayoutInMenu DEF Crash
<1>2. ASSUME NEW n \in Names, AcceptFile(n), NEW i \in Inodes, AddInode(i, Root, n, FIL),
             cur' = i, object' = EmptyNode(FIL), mode' = "receiving", block_index' = 1
      PROVE  Layout'
  <2>1. mode = "menu" /\ Running
    BY <1>2 DEF AcceptFile, Running
  <2>2. /\ \A j \in Inodes : Packed(inode'[j])
        /\ \A s \in Slots : inode'[Root].blocks[s] = NoBlock
        /\ i # Root
    BY <1>2, <2>1, Sizes, AddInodeLayout
  <2>3. Packed(object')
    BY <1>2, EmptyPacked
  <2>4. Filled'
    BY <1>2 DEF Filled, Slots
  <2>5. /\ Held' /\ Running' /\ mode' # "defrag"
        /\ View(i)' = object' /\ \A j \in Inodes \ {i} : View(j)' = inode'[j]
    BY <1>2 DEF Held, Running, View
  <2>6. NoGap'
    <3>1. \A j \in Inodes : Packed(View(j)')
      BY <2>2, <2>3, <2>5
    <3>2. QED
      BY <3>1, NoGapPacked
  <2>7. RootBare'
    BY <1>2, <2>2, <2>5, Sizes DEF RootBare
  <2>8. QED
    BY <2>4, <2>5, <2>6, <2>7 DEF Layout, Placed
<1>3. ASSUME NEW text \in Texts, ReceiveBlock(text), NEW b \in Blocks, TakeBlock(b),
             object' = WithBlock(object, block_index, b),
             block_index' = block_index + 1,
             UNCHANGED <<bitmap_inode, free_blocks, inode, mode, cur, bitmap>>
      PROVE  Layout'
  <2>1. mode = "receiving" /\ block_index \in Slots
    BY <1>3, SizesAssumption DEF ReceiveBlock, IInv, TypeOK, Slots
  <2>2. \A q \in Slots : q < block_index => object.blocks[q] # NoBlock
    BY <2>1 DEF Layout, Filled
  <2>3. QED
    BY <1>3, <2>1, <2>2, NextBlockLayout
<1>4. CASE StoreReceived
  BY <1>4, CloseFileLayout DEF StoreReceived
<1>5. QED
  BY <1>1, <1>2, <1>3, <1>4 DEF AcceptFile, ReceiveBlock

\* check_filesystem_dialog and the start of a defragmentation change no inode.
LEMMA ToolsLayout ==
    ASSUME IInv, Layout, CheckFilesystem \/ DefragStart
    PROVE  Layout'
<1>1. mode = "menu" /\ UNCHANGED inode
  BY DEF CheckFilesystem, DefragStart, disk
<1>2. CASE CheckFilesystem
  BY <1>1, <1>2, MenuLayout, LayoutInMenu DEF CheckFilesystem
<1>3. CASE DefragStart
  <2>1. mode' = "defrag" /\ cur' = 1 /\ object' = inode[1] /\ block_index' = 1
    BY <1>3 DEF DefragStart
  <2>2. /\ Held' /\ Running' /\ Filled'
        /\ \A j \in Inodes : View(j)' = inode[j]
    BY <1>1, <2>1 DEF Held, Running, View, Filled
  <2>3. NoGap'
    BY <1>1, <2>2, MenuLayout, NoGapPacked
  <2>4. RootBare'
    BY <1>1, <2>1, <2>2, MenuLayout, Sizes DEF RootBare, Root
  <2>5. ASSUME NEW j \in Inodes, NEW s \in Slots, Past(j, s)'
        PROVE  j = Root
    BY <2>1, <2>5, Sizes DEF Past, Inodes, Slots, Root
  <2>6. Placed'
    <3>1. \A s \in Slots : 1 .. View(Root)'.blocks[s] - 1 = {}
      BY <1>1, <2>2, MenuLayout, Sizes DEF NoBlock
    <3>2. QED
      BY <2>5, <3>1 DEF Placed
  <2>7. QED
    BY <2>2, <2>3, <2>4, <2>6 DEF Layout
<1>4. QED
  BY <1>2, <1>3

\* A block moves to the lowest free number: the blocks placed before it are
\* below that, and what it frees is above.
LEMMA DefragSlotLayout ==
    ASSUME IInv, Layout, DefragSlot
    PROVE  Layout'
<1> DEFINE b == object.blocks[block_index]
<1>1. /\ mode = "defrag" /\ mode' = mode /\ cur' = cur
      /\ block_index' = block_index + 1
      /\ block_index <= MAX_BLOCK_COUNT /\ b # NoBlock
      /\ UNCHANGED inode
  BY DEF DefragSlot, DefragHere
<1>2. block_index \in Slots
  BY <1>1, SizesAssumption DEF IInv, TypeOK, Slots
<1>3. object \in Node /\ cur \in Inodes /\ b \in Blocks
  BY <1>2 DEF IInv, TypeOK, Node
<1>4. /\ Held /\ Held' /\ Running /\ Running'
      /\ View(cur) = object /\ View(cur)' = object'
      /\ \A j \in Inodes \ {cur} : View(j)' = View(j)
  BY <1>1 DEF View, Held, Running
<1>5. Packed(object) /\ cur # Root
  BY <1>3, <1>4, NoGapPacked DEF Layout, RootBare
<1>6. Filled'
  BY <1>1 DEF Filled
<1>7. \A j \in Inodes : \A s \in Slots :
         Past(j, s)' => Past(j, s) \/ (j = cur /\ s = block_index)
  BY <1>1, <1>2, Sizes DEF Past
<1>8. \A j \in Inodes : \A s \in Slots : View(j).blocks[s] \in Blocks
  BY DEF IInv, TypeOK, Node, View
<1>9. CASE 1 .. b - 1 \subseteq bitmap /\ UNCHANGED <<block, bitmap, object>>
  <2>1. \A j \in Inodes : View(j)' = View(j)
    BY <1>1, <1>4, <1>9
  <2>2. NoGap' /\ RootBare'
    BY <1>1, <1>4, <2>1, NoGapPacked, Sizes DEF Layout, RootBare
  <2>3. Placed'
    BY <1>1, <1>4, <1>7, <1>9, <2>1 DEF Layout, Placed
  <2>4. QED
    BY <1>6, <2>2, <2>3 DEF Layout
<1>10. ASSUME NEW k \in 1 .. b - 1, k \notin bitmap, 1 .. k - 1 \subseteq bitmap,
              bitmap' = (bitmap \cup {k}) \ {b},
              object' = WithBlock(object, block_index, k)
       PROVE  Layout'
  <2>1. k \in Blocks /\ k # NoBlock /\ k \in Nat /\ b \in Nat /\ k < b
    BY <1>3, <1>10, SizesAssumption DEF Blocks, NoBlock
  <2>2. /\ object'.blocks[block_index] = k
        /\ \A r \in Slots \ {block_index} : object'.blocks[r] = object.blocks[r]
    BY <1>2, <1>3, <1>10, <2>1, WithBlockType
  <2>3. Packed(object')
    BY <1>1, <1>2, <1>3, <1>5, <1>10, <2>1, UsedBelow, WithBlockPacked
  <2>4. NoGap'
    <3>1. \A j \in Inodes : Packed(View(j)')
      BY <1>1, <1>4, <2>3, NoGapPacked DEF Layout
    <3>2. QED
      BY <3>1, NoGapPacked
  <2>5. RootBare'
    BY <1>1, <1>4, <1>5, Sizes DEF Layout, RootBare
  <2>6. \A j \in Inodes : \A s \in Slots :
           Past(j, s)' => \/ Past(j, s) /\ View(j)'.blocks[s] = View(j).blocks[s]
                          \/ View(j)'.blocks[s] = k
    BY <1>1, <1>4, <1>7, <2>2
  <2>7. ASSUME NEW c \in Blocks, 1 .. c - 1 \subseteq bitmap
        PROVE  c <= k
    <3>1. c \in Nat /\ 1 <= k /\ k \notin 1 .. c - 1
      BY <1>10, <2>1, <2>7, Sizes
    <3>2. QED
      BY <2>1, <3>1
  <2>8. \A c \in Blocks : 1 .. c - 1 \subseteq bitmap => 1 .. c - 1 \subseteq bitmap'
    BY <1>10, <2>1, <2>7, Sizes
  <2>9. Placed'
    BY <1>1, <1>8, <1>10, <2>1, <2>6, <2>8 DEF Layout, Placed
  <2>10. QED
    BY <1>6, <2>4, <2>5, <2>9 DEF Layout
<1>11. QED
  BY <1>9, <1>10 DEF DefragSlot, MoveBlock

\* When an inode is stored all its slots are past: the ones not reached are
\* behind an empty one, and empty.
LEMMA DefragStorePlaced ==
    ASSUME IInv, Layout, DefragStore
    PROVE  /\ \A j \in Inodes : inode'[j] = View(j)
           /\ \A j \in Inodes : \A s \in Slots :
                 j <= cur => 1 .. View(j).blocks[s] - 1 \subseteq bitmap
<1>1. mode = "defrag" /\ ~DefragHere /\ inode' = [inode EXCEPT ![cur] = object]
  BY DEF DefragStore
<1>2. /\ View(cur) = object /\ Held /\ Running /\ cur \in Inodes
      /\ \A j \in Inodes \ {cur} : View(j) = inode[j]
  BY <1>1 DEF View, Held, Running, IInv, TypeOK
<1>3. \A j \in Inodes : inode'[j] = View(j)
  BY <1>1, <1>2 DEF IInv, TypeOK
<1>4. ASSUME NEW j \in Inodes, NEW s \in Slots, j <= cur
      PROVE  1 .. View(j).blocks[s] - 1 \subseteq bitmap
  <2>1. CASE Past(j, s)
    BY <1>1, <2>1 DEF Layout, Placed
  <2>2. CASE ~Past(j, s)
    <3>1. j = cur /\ ~(s < block_index)
      BY <1>2, <1>4, <2>2, Sizes DEF Past
    <3>2. block_index \in Slots /\ object.blocks[block_index] = NoBlock
      BY <1>1, <3>1, SizesAssumption DEF DefragHere, Slots, IInv, TypeOK
    <3>3. Packed(object)
      BY <1>2, NoGapPacked DEF Layout
    <3>4. s = block_index \/ block_index < s
      BY <3>1, <3>2, Sizes
    <3>5. View(j).blocks[s] = NoBlock
      BY <1>2, <3>1, <3>2, <3>3, <3>4 DEF Packed
    <3>6. QED
      BY <3>5 DEF NoBlock
  <2>3. QED
    BY <2>1, <2>2
<1>5. QED
  BY <1>3, <1>4

\* Storing an inode during a defragmentation keeps the layout.
LEMMA DefragStoreLayout ==
    ASSUME IInv, Layout, DefragStore
    PROVE  Layout'
<1>1. /\ mode = "defrag" /\ Held /\ Running /\ cur # Root /\ cur \in Inodes
      /\ \A j \in Inodes : Packed(View(j))
      /\ \A s \in Slots : View(Root).blocks[s] = NoBlock
  BY NoGapPacked DEF DefragStore, Held, Running, Layout, RootBare, IInv, TypeOK
<1>2. /\ \A j \in Inodes : inode'[j] = View(j)
      /\ \A j \in Inodes : \A s \in Slots :
            j <= cur => 1 .. View(j).blocks[s] - 1 \subseteq bitmap
  BY DefragStorePlaced
<1>3. CASE mode' = "menu"
  BY <1>1, <1>2, <1>3, Sizes, LayoutInMenu
<1>4. CASE /\ cur < TOTAL_INODE - 1 /\ cur' = cur + 1 /\ object' = inode[cur + 1]
           /\ block_index' = 1
           /\ UNCHANGED <<bitmap_blocks, bitmap, mode>>
  <2>1. cur \in Nat /\ cur + 1 \in Inodes /\ cur + 1 # cur /\ cur + 1 # Root
    BY <1>1, <1>4, SizesAssumption DEF Inodes, Root
  <2>2. inode'[cur + 1] = object'
    BY <1>4, <2>1 DEF DefragStore
  <2>3. \A j \in Inodes : View(j)' = View(j)
    BY <1>1, <1>2, <1>4, <2>1, <2>2 DEF View, Held
  <2>4. /\ Held' /\ Running' /\ mode' = "defrag"
    BY <1>1, <1>4 DEF Held, Running
  <2>5. NoGap' /\ RootBare' /\ Filled'
    BY <1>1, <1>4, <2>1, <2>3, <2>4, NoGapPacked, Sizes DEF RootBare, Filled
  <2>6. \A j \in Inodes : \A s \in Slots : Past(j, s)' => j <= cur
    BY <1>4, <2>1, Sizes DEF Past, Slots
  <2>7. Placed'
    BY <1>2, <1>4, <2>3, <2>6 DEF Placed
  <2>8. QED
    BY <2>5, <2>7 DEF Layout
<1>5. QED
  BY <1>3, <1>4 DEF DefragStore

-----------------------------------------------------------------------------
(* The theorems *)

\* A formatted disk has no blocks in its inodes.
LEMMA InitLayout == Init => Layout
<1> SUFFICES ASSUME Init PROVE Layout
  OBVIOUS
<1>1. InitDisk /\ mode = "menu"
  BY DEF Init
<1>2. \A i \in Inodes : View(i) = inode[i] /\ \A s \in Slots : inode[i].blocks[s] = NoBlock
  BY <1>1, Formatted DEF View, Held
<1>3. NoGap /\ RootBare
  BY <1>1, <1>2, Sizes DEF NoGap, RootBare, Held
<1>4. Filled /\ Placed
  BY <1>1 DEF Filled, Placed
<1>5. QED
  BY <1>3, <1>4 DEF Layout

\* Every step keeps the layout.
LEMMA NextLayout == IInv /\ Layout /\ [Next]_vars => Layout'
<1> SUFFICES ASSUME IInv, Layout, [Next]_vars PROVE Layout'
  OBVIOUS
<1>1. ASSUME NEW d \in Parents, NEW n \in Names,
             \/ CreateFile(d, n) \/ CreateDir(d, n) \/ DeleteFile(d, n)
             \/ DeleteDir(d, n) \/ OpenForWrite(d, n)
      PROVE  Layout'
  <2>1. d \in Inodes
    BY DEF Parents
  <2>2. CASE CreateFile(d, n) \/ CreateDir(d, n)
    BY <2>1, <2>2, AddObjectLayout DEF CreateFile, CreateDir
  <2>3. CASE DeleteFile(d, n) \/ DeleteDir(d, n)
    BY <2>1, <2>3, DeleteLayout
  <2>4. CASE OpenForWrite(d, n)
    BY <2>1, <2>4, OpenForWriteLayout
  <2>5. QED
    BY <1>1, <2>2, <2>3, <2>4
<1>2. CASE EmptyPath \/ Stop
  BY <1>2, LayoutInMenu DEF EmptyPath, Crash, Stop
<1>3. ASSUME NEW text \in Texts, FillBlock(text) \/ FinishWrite(text) \/ ReceiveBlock(text)
      PROVE  Layout'
  BY <1>3, FillBlockLayout, ReceiveLayout, CloseFileLayout DEF FinishWrite
<1>4. CASE CheckFilesystem \/ DefragStart
  BY <1>4, ToolsLayout
<1>5. CASE DefragSlot \/ DefragStore
  BY <1>5, DefragSlotLayout, DefragStoreLayout
<1>6. CASE Start
  <2>1. mode' = "menu" /\ inode' = [i \in Inodes |-> EmptyNode(DIR)]
    BY <1>6 DEF Start
  <2>2. Packed(EmptyNode(DIR)) /\ \A s \in Slots : EmptyNode(DIR).blocks[s] = NoBlock
    BY EmptyPacked, EmptyNodeType
  <2>3. QED
    BY <2>1, <2>2, Sizes, LayoutInMenu
<1>7. CASE UNCHANGED vars
  <2>1. /\ UNCHANGED <<inode, mode, cur, object, block_index, bitmap>>
    BY <1>7 DEF vars, disk, local
  <2>2. NoGap' /\ RootBare'
    BY <2>1 DEF Layout, NoGap, RootBare, View, Held, Running
  <2>3. Filled' /\ Placed'
    BY <2>1 DEF Layout, Filled, Placed, Past, View, Held
  <2>4. QED
    BY <2>2, <2>3 DEF Layout
<1>8. CASE StoreReceived \/ \E n \in Names : AcceptFile(n)
  BY <1>8, ReceiveLayout
<1>9. QED
  BY <1>1, <1>2, <1>3, <1>4, <1>5, <1>6, <1>7, <1>8 DEF Next

\* The layout holds of every behaviour.
THEOREM LayoutInvariance == Spec => [](IInv /\ Layout)
  BY InitIInv, NextIInv, InitLayout, NextLayout, PTL DEF Spec

\* No inode ever has a used slot behind an empty one, where the loops of
\* deleting, reading, sending and defragmenting would not see it.
THEOREM UsedSlotsFirst == Spec => []NoGap
<1>1. Layout => NoGap
  BY DEF Layout
<1>2. QED
  BY <1>1, LayoutInvariance, PTL

\* A defragmentation that ends has left no free block below a used one.
THEOREM DefragCompactsDisk == Spec => DefragCompacts
<1>1. IInv /\ Layout /\ [Next]_vars =>
        [mode = "defrag" /\ mode' = "menu" =>
           \A i \in Inodes : \A s \in Slots :
              1 .. inode'[i].blocks[s] - 1 \subseteq bitmap_blocks']_vars
  <2> SUFFICES ASSUME IInv, Layout, Next, mode = "defrag", mode' = "menu",
                      NEW i \in Inodes, NEW s \in Slots
               PROVE  1 .. inode'[i].blocks[s] - 1 \subseteq bitmap_blocks'
    OBVIOUS
  <2>1. DefragStore
    BY DEF Next, CreateFile, CreateDir, DeleteFile, DeleteDir, OpenForWrite, EmptyPath,
           AcceptFile, FillBlock, FinishWrite, ReceiveBlock, StoreReceived,
           CheckFilesystem, DefragStart, DefragSlot, Stop, Start, Running
  <2>2. cur = TOTAL_INODE - 1 /\ bitmap_blocks' = bitmap
    BY <2>1 DEF DefragStore
  <2>3. i <= cur
    BY <2>2, SizesAssumption DEF Inodes
  <2>4. QED
    BY <2>1, <2>2, <2>3, DefragStorePlaced
<1>2. QED
  BY <1>1, LayoutInvariance, PTL DEF Spec, DefragCompacts

-----------------------------------------------------------------------------
(***************************************************************************)
(* Proofs about the tree of directories: free space is clean, no entry     *)
(* outlives its inode, no inode has two names, and no directory is below   *)
(* itself.  They hold where no text begins with the number of an inode     *)
(* (LongTexts), and hold only together:                                    *)
(*                                                                         *)
(* a new inode is in no entry because entries are live, and has none of    *)
(* its own because free space is clean; what a deletion clears is in no    *)
(* entry that stays because names are unique; free space stays clean       *)
(* because delete_dir does not free the block of the directory it deletes  *)
(* from, and that is because no directory is below itself; operations      *)
(* reach only inodes in use because entries are live; and what delete_dir  *)
(* goes through to the end has no text among it, so that all it meets is   *)
(* named.                                                                  *)
(***************************************************************************)

\* Where there is text it comes first, and its first entry is none of the table.
TextsFirst ==
    Running =>
        \A i \in Inodes :
            \/ \A k \in DOMAIN EntriesOf(i) : EntriesOf(i)[k].name # Junk
            \/ EntriesOf(i)[1].inode \notin Inodes

\* A session works on an inode in use.
SessionLive == mode \in {"writing", "receiving"} => cur \in bitmap_inode

\* What says of the entries that they make a tree.
Forest == EntriesAreLive /\ OneNamePerInode /\ NoCycle /\ TextsFirst

\* What is invariant of the names, with free space.
Tree == FreeSpaceClean /\ Forest /\ SessionLive

\* All of it: the inductive invariant of the file system.
TInv == IInv /\ Layout /\ Tree

\* A step that leaves inode i a directory of all that it names.
KeepsNames(i) ==
    \A k \in DOMAIN EntriesOf(i) :
        \E m \in DOMAIN EntriesOf(i)' : EntriesOf(i)'[m] = EntriesOf(i)[k]

\* A step after which the entries of all inodes but the one in hand are as
\* they were.
OthersKept == Running' => \A i \in Inodes : i # cur => EntriesOf(i)' = EntriesOf(i)

\* A step that adds at most that entry, and to directory d.
OneEntryMore(d, entry) ==
    \A j \in Inodes :
        \/ EntriesOf(j)' = EntriesOf(j)
        \/ j = d /\ EntriesOf(j)' = Append(EntriesOf(j), entry)

\* What is typed has no name, and does not begin with the number of an inode.
Foreign(entries) ==
    /\ \A k \in DOMAIN entries : entries[k].name = Junk
    /\ entries # <<>> => entries[1].inode \notin Inodes

-----------------------------------------------------------------------------
(* Entries *)

\* The entries of an inode are entries, and none names inode 0.
LEMMA EntriesOfType ==
    ASSUME IInv, NEW i \in Inodes
    PROVE  /\ View(i) \in Node
           /\ EntriesOf(i) \in Seq(Dirent)
           /\ \A k \in DOMAIN EntriesOf(i) :
                 EntriesOf(i)[k] \in Dirent /\ EntriesOf(i)[k].inode # Root
<1>1. View(i) \in Node
  BY DEF IInv, TypeOK, View
<1>2. View(i).blocks[1] \in Blocks
  BY <1>1, Sizes DEF Node
<1>3. EntriesOf(i) \in Seq(Dirent)
  BY <1>2 DEF EntriesOf, IInv, TypeOK
<1>4. \A k \in DOMAIN EntriesOf(i) : EntriesOf(i)[k] \in Dirent
  BY <1>3
<1>5. QED
  BY <1>1, <1>3, <1>4 DEF Dirent, Root

\* What is typed, and an empty block, are foreign.
LEMMA ForeignTexts ==
    ASSUME LongTexts
    PROVE  Foreign(<<>>) /\ \A text \in Texts : Foreign(text)
<1>1. Foreign(<<>>)
  BY DEF Foreign
<1>2. ASSUME NEW text \in Texts, NEW k \in DOMAIN text
      PROVE  text[k].name = Junk
  <2>1. text \in Seq([inode : Nat \ {0}, name : {Junk}])
    BY TextsAssumption
  <2>2. ASSUME NEW T, text \in Seq(T) PROVE text[k] \in T
    BY <2>2
  <2>3. text[k] \in [inode : Nat \ {0}, name : {Junk}]
    BY <2>1, <2>2
  <2>4. QED
    BY <2>3
<1>3. QED
  BY <1>1, <1>2 DEF Foreign, LongTexts

\* Whose entries the code reads as those of d.
Owner(d) == IF DirBlock(d) = NoBlock THEN Root ELSE d

\* Outside of any dialog the code's entries of d are those of its owner.
LEMMA OwnerEntries ==
    ASSUME IInv, Layout, mode = "menu", NEW d \in Inodes
    PROVE  /\ Owner(d) \in Inodes
           /\ Entries(d) = EntriesOf(Owner(d))
           /\ DirBlock(d) = inode[Owner(d)].blocks[1]
           /\ Owner(d) # Root => DirBlock(d) # NoBlock
<1>1. \A j \in Inodes : View(j) = inode[j]
  BY MenuLayout
<1>2. inode[Root].blocks[1] = NoBlock
  BY MenuLayout, Sizes
<1>3. QED
  BY <1>1, <1>2, Sizes DEF Owner, DirBlock, Entries, EntriesOf

\* Every directory that a path can lead to is in use: find_parent_dir starts
\* at the root and follows names.
LEMMA ParentsLive ==
    ASSUME TInv, mode = "menu", NEW d \in Parents
    PROVE  d \in bitmap_inode /\ d \in Inodes
<1>1. Running
  BY DEF Running
<1>2. bitmap_inode \in SUBSET Inodes /\ Root \in bitmap_inode
  BY DEF TInv, IInv, TypeOK, Reserved
<1>3. ClosedUnderLookup(bitmap_inode)
  <2> SUFFICES ASSUME NEW e \in bitmap_inode, NEW n \in Names, NEW k \in DOMAIN Entries(e),
                      Entries(e)[k].name = n
               PROVE  Entries(e)[k].inode \in bitmap_inode
    BY DEF ClosedUnderLookup, FirstMatch
  <2>1. Owner(e) \in Inodes /\ Entries(e) = EntriesOf(Owner(e))
    BY <1>2, OwnerEntries DEF TInv
  <2>2. n # Junk
    BY NamesAssumption
  <2>3. QED
    BY <1>1, <2>1, <2>2 DEF TInv, Tree, Forest, EntriesAreLive, Links
<1>4. QED
  BY <1>2, <1>3 DEF Parents

-----------------------------------------------------------------------------
(* What the steps do to the entries *)

\* A step after which the program does not run keeps everything.
LEMMA TreeDown ==
    ASSUME mode' \in {"down", "crashed"}
    PROVE  Tree'
<1>1. ~Running'
  BY DEF Running
<1>2. QED
  BY <1>1 DEF Tree, FreeSpaceClean, Forest, EntriesAreLive, OneNamePerInode, NoCycle,
              TextsFirst, SessionLive

\* A step keeps the tree if every inode keeps its entries, or has typed ones.
LEMMA SameOrForeign ==
    ASSUME Running, Forest, bitmap_inode \subseteq bitmap_inode',
           \A i \in Inodes : EntriesOf(i)' = EntriesOf(i) \/ Foreign(EntriesOf(i)')
    PROVE  Forest'
<1>1. \A i \in Inodes : /\ Links(i)' \subseteq Links(i)
                        /\ \A k \in Links(i)' : EntriesOf(i)'[k] = EntriesOf(i)[k]
  BY DEF Links, Foreign
<1>2. EntriesAreLive'
  BY <1>1 DEF Forest, EntriesAreLive
<1>3. OneNamePerInode'
  BY <1>1 DEF Forest, OneNamePerInode
<1>4. NoCycle'
  <2> SUFFICES ASSUME NEW S \in (SUBSET Inodes) \ {{}}
               PROVE  \E i \in S : \A k \in Links(i)' : EntriesOf(i)'[k].inode \notin S
    BY DEF NoCycle
  <2>1. PICK i \in S : \A k \in Links(i) : EntriesOf(i)[k].inode \notin S
    BY DEF Forest, NoCycle
  <2>2. QED
    BY <1>1, <2>1
<1>5. TextsFirst'
  <2>1. ASSUME NEW i \in Inodes, EntriesOf(i)' = EntriesOf(i)
        PROVE  \/ \A k \in DOMAIN EntriesOf(i)' : EntriesOf(i)'[k].name # Junk
               \/ EntriesOf(i)'[1].inode \notin Inodes
    BY <2>1 DEF Forest, TextsFirst
  <2>2. ASSUME NEW i \in Inodes, Foreign(EntriesOf(i)')
        PROVE  \/ \A k \in DOMAIN EntriesOf(i)' : EntriesOf(i)'[k].name # Junk
               \/ EntriesOf(i)'[1].inode \notin Inodes
    BY <2>2 DEF Foreign
  <2>3. QED
    BY <2>1, <2>2 DEF TextsFirst
<1>6. QED
  BY <1>2, <1>3, <1>4, <1>5 DEF Forest

\* A step keeps the tree if it adds one entry, for an inode that has no name
\* and no entries.
LEMMA OneMore ==
    ASSUME Running, Forest, IInv,
           NEW i \in Inodes, i \notin bitmap_inode, bitmap_inode' = bitmap_inode \cup {i},
           NEW d \in Inodes, d # i, NEW n \in Names,
           EntriesOf(i) = <<>>,
           EntriesOf(d)' = Append(EntriesOf(d), [inode |-> i, name |-> n]),
           \A j \in Inodes \ {d} : EntriesOf(j)' = EntriesOf(j)
    PROVE  Forest'
<1> DEFINE entry == [inode |-> i, name |-> n]
           last  == Len(EntriesOf(d)) + 1
<1>1. EntriesOf(d) \in Seq(Dirent) /\ Len(EntriesOf(d)) \in Nat
  BY EntriesOfType
<1>2. /\ DOMAIN EntriesOf(d)' = DOMAIN EntriesOf(d) \cup {last}
      /\ last \notin DOMAIN EntriesOf(d)
      /\ \A k \in DOMAIN EntriesOf(d) : EntriesOf(d)'[k] = EntriesOf(d)[k]
      /\ EntriesOf(d)'[last] = entry
  <2>1. ASSUME NEW s \in Seq(Dirent), NEW t, t = Append(s, entry)
        PROVE  /\ DOMAIN t = DOMAIN s \cup {Len(s) + 1}
               /\ Len(s) + 1 \notin DOMAIN s
               /\ \A k \in DOMAIN s : t[k] = s[k]
               /\ t[Len(s) + 1] = entry
    BY <2>1
  <2>2. QED
    BY <1>1, <2>1
<1>3. entry.inode = i /\ entry.name # Junk
  BY NamesAssumption
<1> HIDE DEF entry, last
\* No entry names i before.
<1>4. \A j \in Inodes : \A k \in Links(j) : EntriesOf(j)[k].inode # i
  BY DEF Forest, EntriesAreLive
<1>5. \A j \in Inodes : \A k \in Links(j)' :
         \/ j = d /\ k = last /\ EntriesOf(j)'[k] = entry
         \/ k \in Links(j) /\ EntriesOf(j)'[k] = EntriesOf(j)[k]
  BY <1>2 DEF Links
<1>6. EntriesAreLive'
  BY <1>3, <1>5 DEF Forest, EntriesAreLive
<1>7. OneNamePerInode'
  BY <1>3, <1>4, <1>5 DEF Forest, OneNamePerInode
<1>8. NoCycle'
  <2> SUFFICES ASSUME NEW S \in (SUBSET Inodes) \ {{}}
               PROVE  \E j \in S : \A k \in Links(j)' : EntriesOf(j)'[k].inode \notin S
    BY DEF NoCycle
  <2>1. CASE i \in S
    <3>1. EntriesOf(i)' = <<>>
      OBVIOUS
    <3>2. QED
      BY <2>1, <3>1 DEF Links
  <2>2. CASE i \notin S
    <3>1. PICK j \in S : \A k \in Links(j) : EntriesOf(j)[k].inode \notin S
      BY DEF Forest, NoCycle
    <3>2. QED
      BY <1>3, <1>5, <2>2, <3>1
  <2>3. QED
    BY <2>1, <2>2
<1>9. TextsFirst'
  <2> SUFFICES ASSUME NEW j \in Inodes
               PROVE  \/ \A k \in DOMAIN EntriesOf(j)' : EntriesOf(j)'[k].name # Junk
                      \/ EntriesOf(j)'[1].inode \notin Inodes
    BY DEF TextsFirst
  <2>1. \/ \A k \in DOMAIN EntriesOf(j) : EntriesOf(j)[k].name # Junk
        \/ EntriesOf(j) # <<>> /\ EntriesOf(j)[1].inode \notin Inodes
    BY DEF Forest, TextsFirst
  <2>2. CASE j # d
    BY <2>1, <2>2
  <2>3. CASE j = d
    <3>1. CASE \A k \in DOMAIN EntriesOf(d) : EntriesOf(d)[k].name # Junk
      BY <1>2, <1>3, <2>3, <3>1
    <3>2. CASE EntriesOf(d) # <<>> /\ EntriesOf(d)[1].inode \notin Inodes
      <4>1. 1 \in DOMAIN EntriesOf(d)
        <5>1. ASSUME NEW q \in Seq(Dirent), q # <<>> PROVE 1 \in DOMAIN q
          BY <5>1
        <5>2. QED
          BY <1>1, <3>2, <5>1
      <4>2. QED
        BY <1>2, <2>3, <3>2, <4>1
    <3>3. QED
      BY <2>1, <2>3, <3>1, <3>2
  <2>4. QED
    BY <2>2, <2>3
<1>10. QED
  BY <1>6, <1>7, <1>8, <1>9 DEF Forest

\* A step keeps the tree if of every inode that stays it leaves some of the
\* entries, in their order or not, and clears only inodes whose every name
\* is gone.
LEMMA SomeFewer ==
    ASSUME IInv, Running, Forest, NEW S, bitmap_inode' = bitmap_inode \ S,
           NEW from,
           \A i \in Inodes : \A k \in DOMAIN EntriesOf(i)' :
              /\ from[i][k] \in DOMAIN EntriesOf(i)
              /\ EntriesOf(i)'[k] = EntriesOf(i)[from[i][k]]
              /\ EntriesOf(i)'[k].name # Junk => EntriesOf(i)'[k].inode \notin S
              /\ \A l \in DOMAIN EntriesOf(i)' : from[i][k] = from[i][l] => k = l,
           \A i \in Inodes : EntriesOf(i)' # <<>> =>
              /\ 1 \in DOMAIN EntriesOf(i) /\ 1 \in DOMAIN EntriesOf(i)'
              /\ EntriesOf(i)'[1] = EntriesOf(i)[1] \/ EntriesOf(i)[1].name # Junk
    PROVE  Forest'
<1>1. \A i \in Inodes : \A k \in Links(i)' :
         /\ from[i][k] \in Links(i)
         /\ EntriesOf(i)'[k] = EntriesOf(i)[from[i][k]]
         /\ EntriesOf(i)'[k].inode \notin S
         /\ \A l \in Links(i)' : from[i][k] = from[i][l] => k = l
  BY DEF Links
<1>2. EntriesAreLive'
  BY <1>1 DEF Forest, EntriesAreLive
<1>3. OneNamePerInode'
  BY <1>1 DEF Forest, OneNamePerInode
<1>4. NoCycle'
  <2> SUFFICES ASSUME NEW T \in (SUBSET Inodes) \ {{}}
               PROVE  \E i \in T : \A k \in Links(i)' : EntriesOf(i)'[k].inode \notin T
    BY DEF NoCycle
  <2>1. PICK i \in T : \A k \in Links(i) : EntriesOf(i)[k].inode \notin T
    BY DEF Forest, NoCycle
  <2>2. QED
    BY <1>1, <2>1
<1>5. TextsFirst'
  <2> SUFFICES ASSUME NEW i \in Inodes, EntriesOf(i)' # <<>>
               PROVE  \/ \A k \in DOMAIN EntriesOf(i)' : EntriesOf(i)'[k].name # Junk
                      \/ EntriesOf(i)'[1].inode \notin Inodes
    BY DEF TextsFirst
  <2>1. CASE \A k \in DOMAIN EntriesOf(i) : EntriesOf(i)[k].name # Junk
    BY <2>1
  <2>2. CASE EntriesOf(i)[1].inode \notin Inodes
    <3>1. 1 \in DOMAIN EntriesOf(i) /\ 1 \notin Links(i)
      BY <2>2 DEF Forest, EntriesAreLive, IInv, TypeOK
    <3>2. EntriesOf(i)'[1] = EntriesOf(i)[1]
      BY <3>1 DEF Links
    <3>3. QED
      BY <2>2, <3>2
  <2>3. QED
    BY <2>1, <2>2 DEF Forest, TextsFirst
<1>6. QED
  BY <1>2, <1>3, <1>4, <1>5 DEF Forest

-----------------------------------------------------------------------------
(* The steps *)

\* A new inode and its entry keep the tree, and free space clean: the inode
\* had no name and no entries, a new block no entries either.
LEMMA AddInodeTree ==
    ASSUME TInv, mode = "menu", mode' \in {"menu", "receiving"},
           NEW d \in Inodes, d \in bitmap_inode, NEW n \in Names, NEW t \in {DIR, FIL},
           NEW i \in Inodes, AddInode(i, d, n, t),
           \A j \in Inodes : View(j)' = inode'[j]
    PROVE  /\ Forest' /\ FreeSpaceClean' /\ i \in bitmap_inode'
           /\ OneEntryMore(d, [inode |-> i, name |-> n])
<1> DEFINE entry == [inode |-> i, name |-> n]
           tbl   == WithInode(i, t)
<1>1. /\ i \notin bitmap_inode /\ i # Root /\ d # i
      /\ bitmap_inode' = bitmap_inode \cup {i}
  BY DEF AddInode, TakeInode, FirstFree, TInv, IInv, Reserved
<1>2. PICK b \in Blocks :
        /\ IF LacksBlock(d, tbl) THEN TakeBlock(b)
           ELSE b = tbl[d].blocks[1] /\ UNCHANGED bitmap_blocks
        /\ \/ inode' = tbl /\ UNCHANGED block
           \/ /\ inode' = [tbl EXCEPT ![d] = WithBlock(tbl[d], 1, b)]
              /\ block' = [block EXCEPT ![b] = Append(@, entry)]
  BY DEF AddInode, AddDirent
<1>3. IInv /\ Layout /\ FreeSpaceClean /\ Forest /\ Running
  BY DEF TInv, Tree, Running
<1>4. \A j \in Inodes : View(j) = inode[j] /\ inode[j] \in Node
  BY <1>3, MenuLayout DEF IInv, TypeOK
<1>5. Marked = bitmap_blocks /\ Marked' = bitmap_blocks'
  BY DEF Marked
<1>6. EmptyNode(t) \in Node /\ EmptyNode(t).blocks[1] = NoBlock
  BY EmptyNodeType, Sizes
<1>7. /\ tbl \in [Inodes -> Node] /\ tbl[d] = inode[d]
      /\ \A j \in Inodes : tbl[j] = IF j = i THEN EmptyNode(t) ELSE inode[j]
  BY <1>1, <1>3, <1>6 DEF IInv, TypeOK, WithInode
<1> HIDE DEF entry, tbl
<1>8. inode[i] = ClearNode /\ inode[i].blocks[1] = NoBlock
  BY <1>1, <1>3, <1>4, EmptyNodeType, Sizes DEF FreeSpaceClean
<1>9. EntriesOf(i) = <<>>
  BY <1>1, <1>4, <1>8 DEF EntriesOf
<1>10. WithBlock(tbl[d], 1, b).blocks[1] = b
  BY <1>7, WithBlockType, Sizes
\* The block written is marked, and d's own.
<1>11. /\ b \in bitmap_blocks' /\ bitmap_blocks \subseteq bitmap_blocks'
       /\ \A j \in Inodes \ {d} : inode[j].blocks[1] = b => j # Root /\ b = NoBlock
       /\ b = NoBlock => d = Root
       /\ b = inode[d].blocks[1] \/ (block[b] = <<>> /\ LacksBlock(d, tbl))
  <2>1. CASE LacksBlock(d, tbl)
    <3>1. FirstFree(b, bitmap_blocks) /\ b \notin bitmap_blocks
          /\ bitmap_blocks' = bitmap_blocks \cup {b}
      BY <1>2, <2>1 DEF TakeBlock, FirstFree
    <3>2. b # NoBlock /\ \A j \in Inodes : inode[j].blocks[1] # b
      BY <1>3, <1>4, <3>1, FreshBlock, Sizes
    <3>3. block[b] = <<>>
      BY <1>3, <1>5, <3>1 DEF FreeSpaceClean
    <3>4. QED
      BY <2>1, <3>1, <3>2, <3>3
  <2>2. CASE ~LacksBlock(d, tbl)
    <3>1. b = inode[d].blocks[1] /\ bitmap_blocks' = bitmap_blocks
      BY <1>2, <1>7, <2>2
    <3>2. b = NoBlock => d = Root
      BY <1>7, <2>2, <3>1 DEF LacksBlock
    <3>3. b \in bitmap_blocks
      BY <1>3, <1>4, <1>5, <3>1, Sizes DEF IInv, UsedBlocksMarked, Reserved, NoBlock
    <3>4. inode[Root].blocks[1] = NoBlock
      BY <1>3, MenuLayout, Sizes
    <3>5. \A j \in Inodes \ {d} : inode[j].blocks[1] = b => j # Root /\ b = NoBlock
      BY <1>3, <1>4, <3>1, <3>2, <3>4, Sizes DEF IInv, NoSharedBlock
    <3>6. QED
      BY <3>1, <3>2, <3>3, <3>5
  <2>3. QED
    BY <2>1, <2>2
<1>12. FreeSpaceClean'
  <2>1. ASSUME NEW x \in Blocks \ bitmap_blocks' PROVE block'[x] = <<>>
    BY <1>2, <1>3, <1>5, <1>11 DEF FreeSpaceClean, IInv, TypeOK
  <2>2. ASSUME NEW j \in Inodes \ bitmap_inode' PROVE inode'[j] = ClearNode
    <3>1. j # i /\ j # d /\ j \notin bitmap_inode
      BY <1>1
    <3>2. inode'[j] = inode[j]
      BY <1>2, <1>7, <3>1
    <3>3. QED
      BY <1>3, <1>4, <3>1, <3>2 DEF FreeSpaceClean
  <2>3. QED
    BY <1>5, <2>1, <2>2 DEF FreeSpaceClean
<1>13. CASE inode' = tbl /\ UNCHANGED block
  <2>1. \A j \in Inodes : View(j)'.blocks[1] = View(j).blocks[1]
    BY <1>4, <1>6, <1>7, <1>8, <1>13
  <2>2. \A j \in Inodes : EntriesOf(j)' = EntriesOf(j)
    BY <1>13, <2>1 DEF EntriesOf
  <2>3. QED
    BY <1>1, <1>3, <1>12, <2>2, SameOrForeign DEF OneEntryMore
<1>14. CASE /\ inode' = [tbl EXCEPT ![d] = WithBlock(tbl[d], 1, b)]
            /\ block' = [block EXCEPT ![b] = Append(@, entry)]
  <2>1. /\ \A j \in Inodes \ {d} : View(j)'.blocks[1] = inode[j].blocks[1]
        /\ View(d)'.blocks[1] = b
    BY <1>6, <1>7, <1>8, <1>10, <1>14
  <2>2. /\ block'[b] = Append(block[b], entry)
        /\ \A x \in Blocks \ {b} : block'[x] = block[x]
    BY <1>3, <1>14 DEF IInv, TypeOK
  <2>3. \A j \in Inodes \ {d} : EntriesOf(j)' = EntriesOf(j)
    <3> SUFFICES ASSUME NEW j \in Inodes \ {d} PROVE EntriesOf(j)' = EntriesOf(j)
      OBVIOUS
    <3>1. inode[j].blocks[1] \in Blocks
      BY <1>4, Sizes DEF Node
    <3>2. CASE inode[j].blocks[1] = b
      BY <1>4, <1>11, <2>1, <3>2 DEF EntriesOf
    <3>3. CASE inode[j].blocks[1] # b
      BY <1>4, <2>1, <2>2, <3>1, <3>3 DEF EntriesOf
    <3>4. QED
      BY <3>2, <3>3
  <2>4. EntriesOf(d)' = Append(EntriesOf(d), entry)
    <3>1. EntriesOf(d)' = block'[b]
      BY <1>11, <2>1 DEF EntriesOf
    <3>2. EntriesOf(d) = block[b]
      <4>1. CASE b = inode[d].blocks[1]
        BY <1>4, <1>11, <4>1 DEF EntriesOf
      <4>2. CASE block[b] = <<>> /\ LacksBlock(d, tbl)
        BY <1>4, <1>7, <4>2 DEF EntriesOf, LacksBlock
      <4>3. QED
        BY <1>11, <4>1, <4>2
    <3>3. QED
      BY <2>2, <3>1, <3>2
  <2>5. EntriesOf(d)' = Append(EntriesOf(d), [inode |-> i, name |-> n])
    BY <2>4 DEF entry
  <2>6. Forest'
    BY <1>1, <1>3, <1>9, <2>3, <2>5, OneMore
  <2>7. QED
    BY <1>1, <1>12, <2>3, <2>5, <2>6 DEF OneEntryMore
<1>15. QED
  BY <1>2, <1>13, <1>14

\* create_file and create_dir keep the tree.
LEMMA AddObjectTree ==
    ASSUME TInv, mode = "menu", NEW d \in Parents, NEW n \in Names, NEW t \in {DIR, FIL},
           AddObject(d, n, t)
    PROVE  Tree'
<1>1. CASE Crash
  BY <1>1, TreeDown DEF Crash
<1>2. ASSUME NEW i \in Inodes, AddInode(i, d, n, t), UNCHANGED <<free_blocks, mode, local>>
      PROVE  Tree'
  <2>1. mode' = "menu" /\ \A j \in Inodes : View(j)' = inode'[j]
    BY <1>2 DEF View, Held
  <2>2. Forest' /\ FreeSpaceClean'
    BY <1>2, <2>1, ParentsLive, AddInodeTree
  <2>3. QED
    BY <2>1, <2>2 DEF Tree, SessionLive
<1>3. QED
  BY <1>1, <1>2 DEF AddObject

\* Accepting a file keeps the tree.
LEMMA AcceptFileTree ==
    ASSUME TInv, NEW n \in Names, AcceptFile(n)
    PROVE  Tree'
<1>1. CASE Crash
  BY <1>1, TreeDown DEF Crash
<1>2. ASSUME NEW i \in Inodes, AddInode(i, Root, n, FIL), cur' = i, object' = EmptyNode(FIL),
             mode' = "receiving"
      PROVE  Tree'
  <2>1. mode = "menu" /\ Root \in bitmap_inode
    BY DEF AcceptFile, TInv, IInv, Reserved
  <2>2. i # Root
    BY <1>2, <2>1 DEF AddInode, TakeInode, FirstFree
  <2>3. inode'[i] = EmptyNode(FIL)
    <3>1. EmptyNode(FIL) \in Node
      BY EmptyNodeType
    <3>2. QED
      BY <1>2, <2>2, <3>1 DEF AddInode, AddDirent, WithInode, TInv, IInv, TypeOK
  <2>4. \A j \in Inodes : View(j)' = inode'[j]
    BY <1>2, <2>3 DEF View, Held
  <2>5. Forest' /\ FreeSpaceClean' /\ i \in bitmap_inode'
    BY <1>2, <2>1, <2>4, Sizes, AddInodeTree
  <2>6. QED
    BY <1>2, <2>5 DEF Tree, SessionLive
<1>3. QED
  BY <1>1, <1>2 DEF AcceptFile

-----------------------------------------------------------------------------
(* Deleting *)

\* Taking element k out of a sequence moves the ones behind it up.
LEMMA RemoveAtShape ==
    ASSUME NEW R, NEW s \in Seq(R), NEW k \in DOMAIN s
    PROVE  \A m \in DOMAIN RemoveAt(s, k) :
              /\ m \in Nat /\ k \in Nat
              /\ IF m < k THEN m \in DOMAIN s /\ RemoveAt(s, k)[m] = s[m]
                 ELSE m + 1 \in DOMAIN s /\ RemoveAt(s, k)[m] = s[m + 1]
<1> DEFINE a == SubSeq(s, 1, k - 1)
           b == SubSeq(s, k + 1, Len(s))
<1>1. k \in 1 .. Len(s) /\ Len(s) \in Nat
  OBVIOUS
<1>2. a \in Seq(R) /\ Len(a) = k - 1 /\ \A m \in 1 .. k - 1 : a[m] = s[m]
  BY <1>1
<1>3. b \in Seq(R) /\ Len(b) = Len(s) - k /\ \A m \in 1 .. Len(s) - k : b[m] = s[m + k]
  BY <1>1
<1>4. RemoveAt(s, k) = a \o b
  BY DEF RemoveAt
<1> HIDE DEF a, b
<1>5. /\ DOMAIN (a \o b) = 1 .. Len(s) - 1
      /\ \A m \in 1 .. Len(s) - 1 : (a \o b)[m] = IF m < k THEN a[m] ELSE b[m - (k - 1)]
  BY <1>1, <1>2, <1>3
<1> SUFFICES ASSUME NEW m \in DOMAIN RemoveAt(s, k)
             PROVE  /\ m \in Nat /\ k \in Nat
                    /\ IF m < k THEN m \in DOMAIN s /\ RemoveAt(s, k)[m] = s[m]
                       ELSE m + 1 \in DOMAIN s /\ RemoveAt(s, k)[m] = s[m + 1]
  OBVIOUS
<1> m \in 1 .. Len(s) - 1
  BY <1>4, <1>5
<1>6. CASE m < k
  BY <1>1, <1>2, <1>4, <1>5, <1>6
<1>7. CASE ~(m < k)
  <2>1. m - (k - 1) \in 1 .. Len(s) - k /\ m - (k - 1) + k = m + 1
    BY <1>1, <1>7
  <2>2. b[m - (k - 1)] = s[m + 1]
    BY <1>3, <2>1
  <2>3. RemoveAt(s, k)[m] = s[m + 1]
    <3>1. (a \o b)[m] = b[m - (k - 1)]
      BY <1>5, <1>7
    <3>2. QED
      BY <1>4, <2>2, <3>1
  <2>4. m \in Nat /\ k \in Nat /\ m + 1 \in DOMAIN s
    BY <1>1
  <2>5. QED
    BY <1>7, <2>3, <2>4
<1>8. QED
  BY <1>6, <1>7

\* It keeps the others.
LEMMA RemoveAtKeeps ==
    ASSUME NEW R, NEW s \in Seq(R), NEW k \in DOMAIN s, NEW l \in DOMAIN s, l # k
    PROVE  \E m \in DOMAIN RemoveAt(s, k) : RemoveAt(s, k)[m] = s[l]
<1>1. k \in 1 .. Len(s) /\ l \in 1 .. Len(s) /\ Len(s) \in Nat
  OBVIOUS
<1>2. PICK m \in 1 .. Len(s) - 1 : IF m < k THEN l = m ELSE l = m + 1
  <2>1. CASE l < k
    BY <1>1, <2>1
  <2>2. CASE ~(l < k)
    <3>1. l - 1 \in 1 .. Len(s) - 1 /\ ~(l - 1 < k) /\ l = (l - 1) + 1
      BY <1>1, <2>2
    <3>2. QED
      BY <3>1
  <2>3. QED
    BY <2>1, <2>2
<1>3. DOMAIN RemoveAt(s, k) = 1 .. Len(s) - 1
  <2>1. SubSeq(s, 1, k - 1) \in Seq(R) /\ Len(SubSeq(s, 1, k - 1)) = k - 1
    BY <1>1
  <2>2. SubSeq(s, k + 1, Len(s)) \in Seq(R) /\ Len(SubSeq(s, k + 1, Len(s))) = Len(s) - k
    BY <1>1
  <2>3. QED
    BY <1>1, <2>1, <2>2 DEF RemoveAt
<1>4. QED
  BY <1>2, <1>3, RemoveAtShape

\* How an entry is removed: the inodes in S are cleared, with the blocks in B,
\* and entry k, which names one of them, is taken out of d; no other entry with
\* a name that stays is for one of S, and d's entries are not in a block of B.
Removes(d, k, S, B) ==
    /\ mode = "menu"
    /\ k \in DOMAIN Entries(d) /\ Entries(d)[k].inode \in S /\ Entries(d)[k].name # Junk
    /\ S \in SUBSET (Inodes \ {Root})
    /\ \A b \in B : b # NoBlock /\ \E i \in S, s \in Slots : inode[i].blocks[s] = b
    /\ Owner(d) \notin S
    /\ \A i \in Inodes \ S : \A l \in Links(i) :
          EntriesOf(i)[l].inode \in S => i = Owner(d) /\ l = k
    /\ RemoveEntry(d, k, S, B)

\* It keeps the tree, and free space clean, and all other entries.
LEMMA RemoveEntryTree ==
    ASSUME TInv, NEW d \in Inodes, NEW k, NEW S, NEW B, Removes(d, k, S, B)
    PROVE  /\ Tree'
           /\ \A j \in S : EntriesOf(j)' = <<>>
           /\ \A j \in Inodes : \A m \in DOMAIN EntriesOf(j)' :
                 \E l \in DOMAIN EntriesOf(j) : EntriesOf(j)'[m] = EntriesOf(j)[l]
           /\ \A j \in Inodes \ S : \A l \in DOMAIN EntriesOf(j) :
                 \/ EntriesOf(j)[l].inode \in S
                 \/ \E m \in DOMAIN EntriesOf(j)' : EntriesOf(j)'[m] = EntriesOf(j)[l]
<1> USE DEF Removes
<1>1. /\ bitmap_inode' = bitmap_inode \ S
      /\ inode' = [i \in Inodes |-> IF i \in S THEN ClearNode ELSE inode[i]]
      /\ bitmap_blocks' = bitmap_blocks \ B
      /\ block' = [b \in Blocks |-> IF b = DirBlock(d) THEN RemoveAt(Entries(d), k)
                                    ELSE IF b \in B THEN <<>> ELSE block[b]]
      /\ mode' = "menu"
  BY DEF RemoveEntry
<1>2. IInv /\ Layout /\ FreeSpaceClean /\ Forest /\ Running
  BY DEF TInv, Tree, Running
<1>3. \A j \in Inodes : View(j) = inode[j] /\ inode[j] \in Node /\ View(j)' = inode'[j]
  BY <1>1, <1>2, MenuLayout DEF IInv, TypeOK, View, Held
<1>4. PICK o \in Inodes : o = Owner(d)
  BY <1>2, OwnerEntries
<1>5. /\ o \in Inodes \ S /\ Entries(d) = EntriesOf(o) /\ DirBlock(d) = inode[o].blocks[1]
      /\ o # Root => DirBlock(d) # NoBlock
      /\ \A i \in Inodes \ S : \A l \in Links(i) :
            EntriesOf(i)[l].inode \in S => i = o /\ l = k
  BY <1>2, <1>4, OwnerEntries
<1>6. Marked = bitmap_blocks /\ Marked' = bitmap_blocks'
  BY <1>1 DEF Marked
<1>7. inode[Root].blocks[1] = NoBlock
  BY <1>2, MenuLayout, Sizes
<1>8. DirBlock(d) \in Blocks /\ DirBlock(d) \in bitmap_blocks
  BY <1>2, <1>3, <1>5, <1>6, Sizes DEF IInv, UsedBlocksMarked, Reserved, NoBlock, Node
\* A block that the inodes outside S use is not freed.
<1>9. \A j \in Inodes \ S : inode[j].blocks[1] \notin B
  <2> SUFFICES ASSUME NEW j \in Inodes \ S, inode[j].blocks[1] \in B PROVE FALSE
    OBVIOUS
  <2>1. PICK i \in Inodes, s \in Slots : i \in S /\ inode[i].blocks[s] = inode[j].blocks[1]
    OBVIOUS
  <2>2. inode[j].blocks[1] # NoBlock
    OBVIOUS
  <2>3. View(i) = inode[i] /\ View(j) = inode[j] /\ j \in Inodes /\ 1 \in Slots /\ NoSharedBlock
    BY <1>2, <1>3, Sizes DEF IInv
  <2>4. i = j
    BY ONLY <1>2, <2>1, <2>2, <2>3 DEF NoSharedBlock
  <2>5. QED
    BY <2>1, <2>4
<1>10. \A j \in Inodes : inode[j].blocks[1] = DirBlock(d) => j = o \/ (j # Root /\ DirBlock(d) = NoBlock)
  BY <1>2, <1>3, <1>5, <1>7, Sizes DEF IInv, NoSharedBlock
<1>11. FreeSpaceClean'
  <2>1. DirBlock(d) \notin B
    BY <1>5, <1>9
  <2>2. ASSUME NEW x \in Blocks \ bitmap_blocks' PROVE block'[x] = <<>>
    BY <1>1, <1>2, <1>6, <1>8, <2>1 DEF FreeSpaceClean
  <2>3. ASSUME NEW j \in Inodes \ bitmap_inode' PROVE inode'[j] = ClearNode
    BY <1>1, <1>2, <1>3 DEF FreeSpaceClean
  <2>4. QED
    BY <1>3, <1>6, <2>2, <2>3 DEF FreeSpaceClean
<1>12. \A j \in S : EntriesOf(j)' = <<>>
  BY <1>1, <1>3, EmptyNodeType, Sizes DEF EntriesOf
<1>13. EntriesOf(o)' = RemoveAt(EntriesOf(o), k)
  <2>1. View(o)'.blocks[1] = DirBlock(d)
    BY <1>1, <1>3, <1>5
  <2>2. QED
    BY <1>1, <1>5, <1>8, <2>1 DEF EntriesOf
<1>14. \A j \in Inodes \ S : j # o => EntriesOf(j)' = EntriesOf(j)
  <2> SUFFICES ASSUME NEW j \in Inodes \ S, j # o PROVE EntriesOf(j)' = EntriesOf(j)
    OBVIOUS
  <2>1. View(j)' = inode[j] /\ View(j) = inode[j] /\ inode[j].blocks[1] \in Blocks
    BY <1>1, <1>3, Sizes DEF Node
  <2>2. CASE inode[j].blocks[1] = DirBlock(d)
    BY <1>10, <2>1, <2>2 DEF EntriesOf
  <2>3. CASE inode[j].blocks[1] # DirBlock(d)
    BY <1>1, <1>9, <2>1, <2>3 DEF EntriesOf
  <2>4. QED
    BY <2>2, <2>3
<1> DEFINE from == [j \in Inodes |-> [m \in Nat |-> IF j = o /\ ~(m < k) THEN m + 1 ELSE m]]
<1>15. \A j \in Inodes : \A m \in Nat :
          from[j][m] = IF j = o /\ ~(m < k) THEN m + 1 ELSE m
  OBVIOUS
<1> HIDE DEF from
<1>16. ASSUME NEW j \in Inodes, NEW m \in DOMAIN EntriesOf(j)'
       PROVE  /\ m \in Nat
              /\ from[j][m] \in DOMAIN EntriesOf(j)
              /\ EntriesOf(j)'[m] = EntriesOf(j)[from[j][m]]
              /\ EntriesOf(j)'[m].name # Junk => EntriesOf(j)'[m].inode \notin S
              /\ \A l \in DOMAIN EntriesOf(j)' : from[j][m] = from[j][l] => m = l
  <2>1. j \notin S
    BY <1>12, <1>16
  <2>2. EntriesOf(j) \in Seq(Dirent)
    BY <1>2, EntriesOfType
  <2>3. CASE j = o
    <3>1. \A q \in DOMAIN EntriesOf(o)' :
              /\ q \in Nat /\ k \in Nat
              /\ IF q < k THEN q \in DOMAIN EntriesOf(o) /\ EntriesOf(o)'[q] = EntriesOf(o)[q]
                 ELSE q + 1 \in DOMAIN EntriesOf(o) /\ EntriesOf(o)'[q] = EntriesOf(o)[q + 1]
      BY <1>5, <1>13, <2>2, <2>3, RemoveAtShape
    <3>2. \A q \in DOMAIN EntriesOf(o)' :
              /\ q \in Nat /\ from[o][q] \in DOMAIN EntriesOf(o) /\ from[o][q] # k
              /\ EntriesOf(o)'[q] = EntriesOf(o)[from[o][q]]
              /\ from[o][q] = IF q < k THEN q ELSE q + 1
      BY <1>5, <1>15, <3>1
    <3>3. \A q \in DOMAIN EntriesOf(o)' :
             EntriesOf(o)'[q].name # Junk => EntriesOf(o)'[q].inode \notin S
      BY <1>5, <2>1, <2>3, <3>2 DEF Links
    <3>4. k \in Nat /\ \A q, l \in DOMAIN EntriesOf(o)' : from[o][q] = from[o][l] => q = l
      BY <1>16, <2>3, <3>1, <3>2
    <3>5. QED
      BY <1>16, <2>3, <3>2, <3>3, <3>4
  <2>4. CASE j # o
    <3>1. EntriesOf(j)' = EntriesOf(j) /\ \A q \in DOMAIN EntriesOf(j) : q \in Nat
      BY <1>14, <2>1, <2>2, <2>4
    <3>2. \A q \in DOMAIN EntriesOf(j) : from[j][q] = q
      BY <1>15, <2>4, <3>1
    <3>3. QED
      BY <1>5, <1>16, <2>1, <2>4, <3>1, <3>2 DEF Links
  <2>5. QED
    BY <2>3, <2>4
<1>17. \E f : \A j \in Inodes : \A m \in DOMAIN EntriesOf(j)' :
              /\ f[j][m] \in DOMAIN EntriesOf(j)
              /\ EntriesOf(j)'[m] = EntriesOf(j)[f[j][m]]
              /\ EntriesOf(j)'[m].name # Junk => EntriesOf(j)'[m].inode \notin S
              /\ \A l \in DOMAIN EntriesOf(j)' : f[j][m] = f[j][l] => m = l
  <2> WITNESS from
  <2>1. QED
    BY <1>16
<1>18. Forest'
  <2>1. ASSUME NEW j \in Inodes, EntriesOf(j)' # <<>>
        PROVE  /\ 1 \in DOMAIN EntriesOf(j) /\ 1 \in DOMAIN EntriesOf(j)'
               /\ EntriesOf(j)'[1] = EntriesOf(j)[1] \/ EntriesOf(j)[1].name # Junk
    <3>1. ASSUME NEW q \in Seq(Dirent) PROVE q # <<>> <=> 1 \in DOMAIN q
      BY <3>1
    <3>2. EntriesOf(j) \in Seq(Dirent) /\ j \notin S
      BY <1>2, <1>12, <2>1, EntriesOfType
    <3>3. CASE j # o
      BY <1>14, <2>1, <3>1, <3>2, <3>3
    <3>4. CASE j = o
      <4>1. /\ \A q \in DOMAIN EntriesOf(o)' :
                  /\ k \in Nat
                  /\ q < k => q \in DOMAIN EntriesOf(o) /\ EntriesOf(o)'[q] = EntriesOf(o)[q]
            /\ k \in DOMAIN EntriesOf(o) /\ EntriesOf(o)[k].name # Junk
        BY <1>5, <1>13, <3>2, <3>4, RemoveAtShape
      <4>2. EntriesOf(o)' \in Seq(Dirent)
        BY <1>5, <1>13, <3>2, <3>4, RemoveAtType
      <4>3. 1 \in DOMAIN EntriesOf(o) /\ 1 \in DOMAIN EntriesOf(o)'
        <5>1. EntriesOf(o) # <<>>
          BY <4>1
        <5>2. QED
          BY <2>1, <3>1, <3>2, <3>4, <4>2, <5>1
      <4>4. k = 1 \/ 1 < k
        <5>1. ASSUME NEW q \in Seq(Dirent), k \in DOMAIN q PROVE k = 1 \/ 1 < k
          BY <5>1
        <5>2. QED
          BY <3>2, <3>4, <4>1, <5>1
      <4>5. QED
        BY <3>4, <4>1, <4>3, <4>4
    <3>5. QED
      BY <3>3, <3>4
  <2>2. PICK f : \A j \in Inodes : \A m \in DOMAIN EntriesOf(j)' :
              /\ f[j][m] \in DOMAIN EntriesOf(j)
              /\ EntriesOf(j)'[m] = EntriesOf(j)[f[j][m]]
              /\ EntriesOf(j)'[m].name # Junk => EntriesOf(j)'[m].inode \notin S
              /\ \A l \in DOMAIN EntriesOf(j)' : f[j][m] = f[j][l] => m = l
    BY <1>17
  <2>3. IInv /\ Running /\ Forest /\ bitmap_inode' = bitmap_inode \ S
    BY <1>1, <1>2
  <2>4. QED
    BY ONLY <2>1, <2>2, <2>3, SomeFewer
<1>19. ASSUME NEW j \in Inodes \ S, NEW l \in DOMAIN EntriesOf(j), EntriesOf(j)[l].inode \notin S
       PROVE  \E m \in DOMAIN EntriesOf(j)' : EntriesOf(j)'[m] = EntriesOf(j)[l]
  <2>1. CASE j = o
    <3>1. EntriesOf(o) \in Seq(Dirent) /\ k \in DOMAIN EntriesOf(o) /\ l # k
      BY <1>2, <1>5, <1>19, <2>1, EntriesOfType
    <3>2. QED
      BY <1>13, <1>19, <2>1, <3>1, RemoveAtKeeps
  <2>2. QED
    BY <1>14, <1>19, <2>1
<1>20. QED
  BY <1>1, <1>11, <1>12, <1>16, <1>18, <1>19 DEF Tree, SessionLive

\* delete_file removes so: no directory names itself, and only one entry names
\* the inode.
LEMMA DeleteFileRemoves ==
    ASSUME TInv, NEW d \in Inodes, NEW n \in Names, DeleteFile(d, n)
    PROVE  \E k \in DOMAIN Entries(d) : \E t \in Inodes :
              t = Entries(d)[k].inode /\ Removes(d, k, {t}, NodeBlocks(inode[t]))
<1>1. PICK k \in DOMAIN Entries(d) :
        /\ Entries(d)[k].inode \in Inodes /\ Entries(d)[k].name # Junk
        /\ RemoveEntry(d, k, {Entries(d)[k].inode}, NodeBlocks(inode[Entries(d)[k].inode]))
  BY NamesAssumption DEF DeleteFile, FirstMatch
<1>2. PICK t \in Inodes : t = Entries(d)[k].inode
  BY <1>1
<1>3. IInv /\ Layout /\ Forest /\ Running /\ mode = "menu"
  BY DEF TInv, Tree, DeleteFile, Running
<1>4. PICK o \in Inodes : o = Owner(d) /\ Entries(d) = EntriesOf(o)
  BY <1>3, OwnerEntries
<1>5. t # Root
  BY <1>2, <1>3, EntriesType DEF IInv
<1>6. o # t
  <2>1. {t} \in (SUBSET Inodes) \ {{}}
    OBVIOUS
  <2>2. PICK i \in {t} : \A l \in Links(i) : EntriesOf(i)[l].inode \notin {t}
    BY <1>3, <2>1 DEF Forest, NoCycle
  <2>3. QED
    BY <1>1, <1>2, <1>4, <2>2 DEF Links
<1>7. \A i \in Inodes \ {t} : \A l \in Links(i) :
         EntriesOf(i)[l].inode \in {t} => i = o /\ l = k
  <2>1. k \in Links(o)
    BY <1>1, <1>4 DEF Links
  <2>2. QED
    BY <1>2, <1>3, <1>4, <2>1 DEF Forest, OneNamePerInode
<1>8. \A b \in NodeBlocks(inode[t]) :
         b # NoBlock /\ \E i \in {t}, s \in Slots : inode[i].blocks[s] = b
  <2>1. inode[t] \in Node
    BY <1>3 DEF IInv, TypeOK
  <2>2. QED
    BY <2>1, NodeBlocksSound
<1>9. PICK S : S = {t}
  OBVIOUS
<1>10. /\ S \in SUBSET (Inodes \ {Root}) /\ Owner(d) \notin S
       /\ RemoveEntry(d, k, S, NodeBlocks(inode[t]))
  BY <1>1, <1>2, <1>4, <1>5, <1>6, <1>9
<1>11. /\ \A i \in Inodes \ S : \A l \in Links(i) :
             EntriesOf(i)[l].inode \in S => i = Owner(d) /\ l = k
       /\ \A b \in NodeBlocks(inode[t]) :
             b # NoBlock /\ \E i \in S, s \in Slots : inode[i].blocks[s] = b
  BY <1>4, <1>7, <1>8, <1>9
<1>12. Removes(d, k, S, NodeBlocks(inode[t])) /\ t = Entries(d)[k].inode
  BY <1>1, <1>2, <1>3, <1>9, <1>10, <1>11 DEF Removes
<1>13. QED
  BY <1>9, <1>12

\* The recursive deletion goes through t and all that it finds below.
LEMMA DoomedClosed ==
    ASSUME NEW t \in Inodes
    PROVE  /\ t \in Doomed(t)
           /\ \A p \in Doomed(t) : ReadAsDir(p, t) => Children(p) \cap Inodes \subseteq Doomed(t)
  BY DEF Doomed

\* It goes through nothing else: all but t is named by an inode it reads.
LEMMA DoomedNamed ==
    ASSUME NEW t \in Inodes, NEW x \in Doomed(t), x # t
    PROVE  \E p \in Doomed(t) : ReadAsDir(p, t) /\ x \in Children(p)
<1> SUFFICES ASSUME \A p \in Doomed(t) : ReadAsDir(p, t) => x \notin Children(p)
             PROVE  FALSE
  OBVIOUS
<1> DEFINE S == Doomed(t) \ {x}
<1>1. S \in SUBSET Inodes /\ x \in Inodes
  BY DEF Doomed
<1>2. t \in S /\ \A p \in S : ReadAsDir(p, t) => Children(p) \cap Inodes \subseteq S
  BY DoomedClosed
<1>3. x \notin S
  OBVIOUS
<1> HIDE DEF S
<1>4. QED
  BY <1>1, <1>2, <1>3 DEF Doomed

\* What is read as a directory has a block, so its entries are its own.
LEMMA ReadEntries ==
    ASSUME mode = "menu", NEW p, NEW t, ReadAsDir(p, t)
    PROVE  Children(p) = {EntriesOf(p)[l].inode : l \in DOMAIN EntriesOf(p)}
  BY DEF Children, ReadAsDir, EntriesOf, Entries, DirBlock, View, Held

\* What is gone through to the end has no text in it: all its entries are named.
LEMMA ReadLinks ==
    ASSUME TInv, mode = "menu", NEW t \in Inodes, Listed(t) \subseteq Inodes,
           NEW p \in Doomed(t), ReadAsDir(p, t)
    PROVE  Children(p) = {EntriesOf(p)[l].inode : l \in Links(p)}
<1>1. p \in Inodes
  BY DEF Doomed
<1>2. Children(p) = {EntriesOf(p)[l].inode : l \in DOMAIN EntriesOf(p)}
  BY ReadEntries
<1>3. Children(p) \subseteq Inodes
  BY DEF Listed
<1>4. EntriesOf(p) \in Seq(Dirent)
  BY <1>1, EntriesOfType DEF TInv
<1>5. CASE EntriesOf(p) = <<>>
  BY <1>2, <1>5 DEF Links
<1>6. CASE EntriesOf(p) # <<>>
  <2>1. 1 \in DOMAIN EntriesOf(p)
    <3>1. ASSUME NEW q \in Seq(Dirent), q # <<>> PROVE 1 \in DOMAIN q
      BY <3>1
    <3>2. QED
      BY <1>4, <1>6, <3>1
  <2>2. EntriesOf(p)[1].inode \in Inodes
    BY <1>2, <1>3, <2>1
  <2>3. \A l \in DOMAIN EntriesOf(p) : EntriesOf(p)[l].name # Junk
    BY <1>1, <2>2 DEF TInv, Tree, Forest, TextsFirst, Running
  <2>4. QED
    BY <1>2, <2>3 DEF Links
<1>7. QED
  BY <1>5, <1>6

\* The directory deleted from is not below its entry: going up from it within
\* what is deleted would come back to it.
LEMMA OwnerStays ==
    ASSUME TInv, mode = "menu", NEW o \in Inodes, NEW l \in Links(o),
           NEW t \in Inodes, EntriesOf(o)[l].inode = t, Listed(t) \subseteq Inodes
    PROVE  o \notin Doomed(t)
<1> SUFFICES ASSUME o \in Doomed(t) PROVE FALSE
  OBVIOUS
<1> DEFINE Names1(p, U) == \E q \in Links(p) : EntriesOf(p)[q].inode \in U
           Upward(U) == o \in U /\ \A p \in Doomed(t) : Names1(p, U) => p \in U
           Up == {x \in Doomed(t) : \A U \in SUBSET Doomed(t) : Upward(U) => x \in U}
<1>1. Upward(Up)
  OBVIOUS
<1>2. Up \in SUBSET Doomed(t) /\ Doomed(t) \in SUBSET Inodes
  BY DEF Doomed
<1>3. \A U \in SUBSET Doomed(t) : Upward(U) => Up \subseteq U
  OBVIOUS
<1> HIDE DEF Up
<1>4. t \in Up
  <2> SUFFICES ASSUME t \notin Up PROVE FALSE
    OBVIOUS
  <2> DEFINE S == Doomed(t) \ Up
  <2>1. t \in S /\ S \in SUBSET Inodes
    BY <1>2, DoomedClosed
  <2>2. ASSUME NEW p \in S, ReadAsDir(p, t) PROVE Children(p) \cap Inodes \subseteq S
    <3>1. Children(p) \cap Inodes \subseteq Doomed(t)
      BY <2>2, DoomedClosed
    <3>2. Children(p) = {EntriesOf(p)[q].inode : q \in Links(p)}
      BY <2>2, ReadLinks
    <3>3. Children(p) \cap Up = {}
      BY <1>1, <2>2, <3>2
    <3>4. QED
      BY <3>1, <3>3
  <2>3. o \notin S
    BY <1>1
  <2> HIDE DEF S
  <2>4. QED
    BY <2>1, <2>2, <2>3 DEF Doomed
<1>5. ASSUME NEW x \in Up PROVE Names1(x, Up)
  <2>1. CASE x = o
    BY <1>4, <2>1
  <2>2. CASE x # o /\ ~Names1(x, Up)
    <3>1. Upward(Up \ {x})
      BY <1>1, <2>2
    <3>2. Up \ {x} \in SUBSET Doomed(t)
      BY <1>2
    <3>3. QED
      BY <1>3, <1>5, <3>1, <3>2
  <2>3. QED
    BY <2>1, <2>2
<1>6. Up \in (SUBSET Inodes) \ {{}}
  BY <1>1, <1>2
<1>7. QED
  BY <1>5, <1>6 DEF TInv, Tree, Forest, NoCycle, Running

\* So does delete_dir: what it goes through has no name outside it, but for the
\* entry it takes out.
LEMMA DeleteDirRemoves ==
    ASSUME TInv, NEW d \in Inodes, NEW n \in Names, DeleteDir(d, n)
    PROVE  \/ Crash
           \/ \E k \in DOMAIN Entries(d) : \E t \in Inodes :
                 /\ FirstMatch(Entries(d), n, k) /\ t = Entries(d)[k].inode
                 /\ Removes(d, k, Doomed(t), DoomedBlocks(t))
<1>1. PICK k \in DOMAIN Entries(d) :
        /\ FirstMatch(Entries(d), n, k)
        /\ Entries(d)[k].inode \in Inodes
        /\ \/ Crash
           \/ /\ Listed(Entries(d)[k].inode) \subseteq Inodes
              /\ RemoveEntry(d, k, Doomed(Entries(d)[k].inode), DoomedBlocks(Entries(d)[k].inode))
  BY DEF DeleteDir, Endless
<1>3. PICK t \in Inodes : t = Entries(d)[k].inode
  BY <1>1
<1>4. IInv /\ Layout /\ Forest /\ Running /\ mode = "menu"
  BY DEF TInv, Tree, DeleteDir, Running
<1>5. PICK o \in Inodes : o = Owner(d) /\ Entries(d) = EntriesOf(o)
  BY <1>4, OwnerEntries
<1>6. t # Root
  BY <1>3, <1>4, EntriesType DEF IInv
<1>7. Doomed(t) \in SUBSET (Inodes \ {Root})
  BY <1>4, <1>6, DoomedSound DEF IInv
<1> SUFFICES ASSUME ~Crash
             PROVE  \E h \in DOMAIN Entries(d) : \E u \in Inodes :
                       /\ FirstMatch(Entries(d), n, h) /\ u = Entries(d)[h].inode
                       /\ Removes(d, h, Doomed(u), DoomedBlocks(u))
  OBVIOUS
<1>a. /\ Listed(t) \subseteq Inodes /\ RemoveEntry(d, k, Doomed(t), DoomedBlocks(t))
      /\ k \in Links(o) /\ Entries(d)[k].name # Junk
  BY <1>1, <1>3, <1>5, NamesAssumption DEF FirstMatch, Links
<1>8. o \notin Doomed(t)
  BY <1>a, <1>3, <1>4, <1>5, OwnerStays
<1>9. ASSUME NEW i \in Inodes \ Doomed(t), NEW l \in Links(i),
             EntriesOf(i)[l].inode \in Doomed(t)
      PROVE  i = o /\ l = k
  <2>1. PICK x \in Inodes : x = EntriesOf(i)[l].inode /\ x \in Doomed(t)
    BY <1>7, <1>9
  <2>2. CASE x = t
    <3>1. k \in Links(o) /\ EntriesOf(o)[k].inode = t
      BY <1>a, <1>3, <1>5
    <3>2. OneNamePerInode /\ i \in Inodes /\ l \in Links(i) /\ EntriesOf(i)[l].inode = t
      BY <1>4, <2>1, <2>2 DEF Forest
    <3>3. QED
      BY ONLY <1>4, <1>5, <3>1, <3>2 DEF OneNamePerInode
  <2>3. CASE x # t
    <3>1. PICK p \in Doomed(t) : ReadAsDir(p, t) /\ x \in Children(p)
      BY <2>1, <2>3, DoomedNamed
    <3>2. PICK q \in Links(p) : EntriesOf(p)[q].inode = x
      BY <1>a, <1>4, <3>1, ReadLinks
    <3>3. i = p
      <4>1. OneNamePerInode /\ i \in Inodes /\ l \in Links(i) /\ p \in Inodes
        BY <1>4, <1>7 DEF Forest
      <4>2. QED
        BY ONLY <1>4, <2>1, <3>2, <4>1 DEF OneNamePerInode
    <3>4. QED
      BY <1>9, <3>3
  <2>4. QED
    BY <2>2, <2>3
<1>10. \A b \in DoomedBlocks(t) :
          b # NoBlock /\ \E i \in Doomed(t), s \in Slots : inode[i].blocks[s] = b
  BY <1>4, <1>6, DoomedSound DEF IInv
<1>11. t \in Doomed(t)
  BY DoomedClosed
<1>12. Removes(d, k, Doomed(t), DoomedBlocks(t))
  BY <1>a, <1>3, <1>4, <1>5, <1>7, <1>8, <1>9, <1>10, <1>11 DEF Removes
<1>13. QED
  BY <1>1, <1>3, <1>12

\* Deleting keeps the tree.
LEMMA DeleteTree ==
    ASSUME TInv, NEW d \in Inodes, NEW n \in Names, DeleteFile(d, n) \/ DeleteDir(d, n)
    PROVE  Tree'
<1>1. CASE Crash
  BY <1>1, TreeDown DEF Crash
<1>2. ASSUME NEW k, NEW S, NEW B, Removes(d, k, S, B)
      PROVE  Tree'
  BY <1>2, RemoveEntryTree
<1>3. QED
  BY <1>1, <1>2, DeleteFileRemoves, DeleteDirRemoves

-----------------------------------------------------------------------------
(* Writing and receiving *)

\* Taking a file in hand keeps the tree: a name led to it, so it is in use;
\* and its new first block is empty.
LEMMA OpenForWriteTree ==
    ASSUME TInv, LongTexts, NEW d \in Inodes, NEW n \in Names, OpenForWrite(d, n)
    PROVE  /\ Tree'
           /\ \E t \in bitmap_inode :
                 /\ t \in Inodes /\ t = cur' /\ inode[t].type = FIL
                 /\ EntriesOf(t)' = <<>>
                 /\ \A j \in Inodes \ {t} : EntriesOf(j)' = EntriesOf(j)
<1>1. PICK k \in DOMAIN Entries(d), b \in Blocks :
        /\ Entries(d)[k].inode \in Inodes /\ Entries(d)[k].name = n
        /\ TakeBlock(b)
        /\ inode[Entries(d)[k].inode].type = FIL
        /\ object' = WithBlock(inode[Entries(d)[k].inode], 1, b)
        /\ cur' = Entries(d)[k].inode
  BY DEF OpenForWrite, FirstMatch
<1>2. PICK t \in Inodes : t = Entries(d)[k].inode /\ inode[t].type = FIL
  BY <1>1
<1>3. /\ IInv /\ Layout /\ FreeSpaceClean /\ Forest /\ Running /\ mode = "menu"
      /\ mode' = "writing" /\ UNCHANGED <<bitmap_inode, inode, block>>
  BY DEF TInv, Tree, OpenForWrite, Running
<1>4. t \in bitmap_inode
  BY <1>1, <1>2, <1>3, OwnerEntries, NamesAssumption DEF Forest, EntriesAreLive, Links
<1>5. /\ FirstFree(b, bitmap_blocks) /\ bitmap_blocks' = bitmap_blocks \cup {b}
      /\ b \in Blocks \ bitmap_blocks
  BY <1>1 DEF TakeBlock, FirstFree
<1>6. b # NoBlock
  BY <1>3, <1>5, FreshBlock
<1>7. Marked = bitmap_blocks /\ Marked' = bitmap_blocks'
  BY <1>3 DEF Marked
<1>8. block[b] = <<>>
  BY <1>3, <1>5, <1>7 DEF FreeSpaceClean
<1>9. /\ \A j \in Inodes : View(j) = inode[j] /\ inode[j] \in Node
      /\ \A j \in Inodes \ {t} : View(j)' = inode[j]
      /\ View(t)'.blocks[1] = b
  <2>1. \A j \in Inodes : View(j) = inode[j] /\ inode[j] \in Node
    BY <1>3, MenuLayout DEF IInv, TypeOK
  <2>2. /\ View(t)' = WithBlock(inode[t], 1, b)
        /\ \A j \in Inodes \ {t} : View(j)' = inode[j]
    BY <1>1, <1>2, <1>3 DEF View, Held
  <2>3. QED
    BY <2>1, <2>2, Sizes, WithBlockType
<1>10. /\ EntriesOf(t)' = <<>> /\ Foreign(EntriesOf(t)')
       /\ \A j \in Inodes \ {t} : EntriesOf(j)' = EntriesOf(j)
  BY <1>3, <1>6, <1>8, <1>9, ForeignTexts DEF EntriesOf
<1>11. Forest'
  <2>1. \A j \in Inodes : EntriesOf(j)' = EntriesOf(j) \/ Foreign(EntriesOf(j)')
    BY <1>10
  <2>2. QED
    BY <1>3, <2>1, SameOrForeign
<1>12. FreeSpaceClean'
  <2>1. \A x \in Blocks \ Marked' : block'[x] = <<>>
    BY <1>3, <1>5, <1>7 DEF FreeSpaceClean
  <2>2. \A j \in Inodes \ bitmap_inode' : View(j)' = ClearNode
    BY <1>3, <1>4, <1>9 DEF FreeSpaceClean
  <2>3. QED
    BY <2>1, <2>2 DEF FreeSpaceClean
<1>13. SessionLive'
  BY <1>1, <1>2, <1>3, <1>4 DEF SessionLive
<1>14. QED
  BY <1>1, <1>2, <1>4, <1>10, <1>11, <1>12, <1>13 DEF Tree

\* A step of a session keeps the tree if what it writes is typed, and into
\* blocks that no other inode begins with.
LEMMA SessionTree ==
    ASSUME TInv, mode \in {"writing", "receiving"}, mode' \in {"menu", "writing", "receiving"},
           bitmap_inode' = bitmap_inode, bitmap_blocks \subseteq bitmap_blocks',
           NEW W \in SUBSET bitmap_blocks', NoBlock \notin W,
           \A x \in Blocks \ W : block'[x] = block[x],
           \A x \in W : Foreign(block'[x]),
           NEW c \in Inodes, c = cur,
           \A j \in Inodes \ {c} : View(j)' = View(j) /\ View(j).blocks[1] \notin W,
           View(c)'.blocks[1] = View(c).blocks[1] \/ View(c)'.blocks[1] \in W
    PROVE  /\ Forest' /\ FreeSpaceClean'
           /\ OthersKept
<1>1. IInv /\ FreeSpaceClean /\ Forest /\ SessionLive /\ Running
  BY DEF TInv, Tree, Running
<1>2. Marked = bitmap_blocks /\ Marked' = bitmap_blocks'
  BY DEF Marked
<1>3. \A j \in Inodes : View(j).blocks[1] \in Blocks
  BY <1>1, Sizes DEF IInv, TypeOK, View, Node
<1>4. \A j \in Inodes : EntriesOf(j)' = EntriesOf(j) \/ (j = c /\ Foreign(EntriesOf(j)'))
  <2> SUFFICES ASSUME NEW j \in Inodes
               PROVE  EntriesOf(j)' = EntriesOf(j) \/ (j = c /\ Foreign(EntriesOf(j)'))
    OBVIOUS
  <2>1. PICK v : v = View(j)'.blocks[1]
    OBVIOUS
  <2>2. CASE v \in W
    <3>1. EntriesOf(j)' = block'[v]
      BY <2>1, <2>2 DEF EntriesOf
    <3>2. j = c
      BY <2>1, <2>2
    <3>3. QED
      BY <2>2, <3>1, <3>2
  <2>3. CASE v \notin W
    <3>1. v = View(j).blocks[1] /\ v \in Blocks
      <4>1. CASE j = c
        BY <1>3, <2>1, <2>3, <4>1
      <4>2. CASE j # c
        BY <1>3, <2>1, <2>3, <4>2
      <4>3. QED
        BY <4>1, <4>2
    <3>2. block'[v] = block[v]
      BY <2>3, <3>1
    <3>3. QED
      BY <2>1, <3>1, <3>2 DEF EntriesOf
  <2>4. QED
    BY <2>2, <2>3
<1>5. Forest'
  BY <1>1, <1>4, SameOrForeign
<1>6. \A x \in Blocks \ Marked' : block'[x] = <<>>
  BY <1>1, <1>2 DEF FreeSpaceClean
<1>7. \A j \in Inodes \ bitmap_inode' : View(j)' = ClearNode
  BY <1>1 DEF FreeSpaceClean, SessionLive
<1>8. FreeSpaceClean'
  BY <1>6, <1>7 DEF FreeSpaceClean
<1>9. QED
  BY <1>4, <1>5, <1>8 DEF OthersKept

\* What a session holds is its file's, and no other inode's.
LEMMA SessionBlock ==
    ASSUME IInv, mode \in {"writing", "receiving"}, NEW s \in Slots,
           object.blocks[s] # NoBlock
    PROVE  /\ View(cur) = object /\ cur \in Inodes
           /\ object.blocks[s] \in bitmap_blocks /\ object.blocks[s] \in Blocks
           /\ \A j \in Inodes \ {cur} : \A r \in Slots : View(j).blocks[r] # object.blocks[s]
<1>1. View(cur) = object /\ cur \in Inodes /\ Running /\ Marked = bitmap_blocks
  BY DEF View, Held, Running, Marked, IInv, TypeOK
<1>2. object.blocks[s] \in Blocks
  BY DEF IInv, TypeOK, Node
<1>3. QED
  BY <1>1, <1>2, Sizes DEF IInv, UsedBlocksMarked, NoSharedBlock

\* Storing the copy keeps the tree, with the block in hand or without.
LEMMA CloseFileTree ==
    ASSUME TInv, LongTexts, mode \in {"writing", "receiving"}, CloseFile,
           UNCHANGED <<bitmap_inode, bitmap_blocks>>,
           \/ UNCHANGED block
           \/ /\ mode = "writing"
              /\ \E text \in Texts :
                    block' = [block EXCEPT ![object.blocks[block_index]] = text]
    PROVE  Tree' /\ OthersKept
<1>1. inode' = [inode EXCEPT ![cur] = object] /\ mode' = "menu"
  BY DEF CloseFile
<1>2. IInv /\ Layout /\ Held
  BY DEF TInv, Held
<1>3. \A j \in Inodes : View(j)' = View(j)
  BY <1>1, <1>2 DEF View, Held, IInv, TypeOK
<1>4. PICK c \in Inodes : c = cur
  BY <1>2 DEF IInv, TypeOK
<1>5. CASE UNCHANGED block
  <2>1. PICK W \in SUBSET bitmap_blocks' : W = {}
    OBVIOUS
  <2>2. Forest' /\ FreeSpaceClean' /\ OthersKept
    BY <1>1, <1>3, <1>4, <1>5, <2>1, SessionTree
  <2>3. QED
    BY <1>1, <2>2 DEF Tree, SessionLive
<1>6. ASSUME mode = "writing", NEW text \in Texts,
             block' = [block EXCEPT ![object.blocks[block_index]] = text]
      PROVE  Tree' /\ OthersKept
  <2>1. block_index \in Slots /\ object.blocks[block_index] # NoBlock
    BY <1>2, <1>6 DEF IInv, Session, Layout, Filled
  <2>2. PICK w \in bitmap_blocks :
           /\ w = object.blocks[block_index] /\ w # NoBlock /\ w \in Blocks
           /\ \A j \in Inodes \ {cur} : View(j).blocks[1] # w
    BY <1>2, <2>1, Sizes, SessionBlock
  <2>3. block'[w] = text /\ \A x \in Blocks \ {w} : block'[x] = block[x]
    BY <1>2, <1>6, <2>2 DEF IInv, TypeOK
  <2>4. Foreign(block'[w])
    BY <2>3, ForeignTexts
  <2>5. PICK W : W = {w}
    OBVIOUS
  <2>6. Forest' /\ FreeSpaceClean' /\ OthersKept
    BY <1>1, <1>3, <1>4, <2>2, <2>3, <2>4, <2>5, SessionTree
  <2>7. QED
    BY <1>1, <2>6 DEF Tree, SessionLive
<1>7. QED
  BY <1>5, <1>6

\* Typing a whole block keeps the tree.
LEMMA FillBlockTree ==
    ASSUME TInv, LongTexts, NEW text \in Texts, FillBlock(text)
    PROVE  Tree' /\ OthersKept
<1>1. mode = "writing" /\ UNCHANGED bitmap_inode
  BY DEF FillBlock
<1>2. CASE /\ block' = [block EXCEPT ![object.blocks[block_index]] = text]
           /\ UNCHANGED bitmap_blocks
           /\ CloseFile
  BY <1>1, <1>2, CloseFileTree
<1>3. CASE Crash
  BY <1>3, TreeDown DEF Crash, OthersKept, Running
<1>4. ASSUME NEW b \in Blocks, TakeBlock(b), block_index < MAX_BLOCK_COUNT,
             block' = [block EXCEPT ![object.blocks[block_index]] = text],
             object' = WithBlock(object, block_index + 1, b),
             UNCHANGED <<inode, mode, cur>>
      PROVE  Tree' /\ OthersKept
  <2>1. IInv /\ Layout /\ SessionLive
    BY DEF TInv, Tree
  <2>2. /\ block_index \in Slots /\ object.blocks[block_index] # NoBlock
        /\ block_index + 1 \in Slots /\ block_index + 1 # 1
    BY <1>1, <1>4, <2>1, SizesAssumption DEF IInv, Session, Layout, Filled, Slots
  <2>3. PICK w \in bitmap_blocks :
           /\ w = object.blocks[block_index] /\ w # NoBlock /\ w \in Blocks
           /\ \A j \in Inodes \ {cur} : View(j).blocks[1] # w
    <3>1. /\ object.blocks[block_index] \in bitmap_blocks
          /\ object.blocks[block_index] \in Blocks
          /\ \A j \in Inodes \ {cur} : \A r \in Slots : View(j).blocks[r] # object.blocks[block_index]
      BY <1>1, <2>1, <2>2, SessionBlock
    <3>2. QED
      BY <2>2, <3>1, Sizes
  <2>4. block'[w] = text /\ \A x \in Blocks \ {w} : block'[x] = block[x]
    BY <1>4, <2>1, <2>3 DEF IInv, TypeOK
  <2>5. Foreign(block'[w])
    BY <2>4, ForeignTexts
  <2>6. bitmap_blocks \subseteq bitmap_blocks'
    BY <1>4 DEF TakeBlock
  <2>7. PICK c \in Inodes :
           /\ c = cur /\ View(c) = object /\ View(c)' = object'
           /\ \A j \in Inodes \ {c} : View(j)' = View(j)
    BY <1>1, <1>4, <2>1 DEF View, Held, IInv, TypeOK
  <2>8. object'.blocks[1] = object.blocks[1]
    <3>1. object \in Node /\ 1 \in Slots \ {block_index + 1}
      BY <2>1, <2>2, Sizes DEF IInv, TypeOK
    <3>2. QED
      BY <1>4, <2>2, <3>1, WithBlockType
  <2>9. PICK W : W = {w}
    OBVIOUS
  <2>10. Forest' /\ FreeSpaceClean' /\ OthersKept
    BY <1>1, <1>4, <2>3, <2>4, <2>5, <2>6, <2>7, <2>8, <2>9, SessionTree
  <2>11. QED
    BY <1>1, <1>4, <2>1, <2>10 DEF Tree, SessionLive
<1>5. QED
  BY <1>2, <1>3, <1>4 DEF FillBlock

\* A block received keeps the tree.
LEMMA ReceiveBlockTree ==
    ASSUME TInv, LongTexts, NEW text \in Texts, ReceiveBlock(text)
    PROVE  Tree' /\ OthersKept
<1>1. CASE Crash
  BY <1>1, TreeDown DEF Crash, OthersKept, Running
<1>2. ASSUME NEW b \in Blocks, TakeBlock(b),
             block' = [block EXCEPT ![b] = text],
             object' = WithBlock(object, block_index, b),
             UNCHANGED <<bitmap_inode, inode, mode, cur>>
      PROVE  Tree' /\ OthersKept
  <2>1. /\ IInv /\ SessionLive /\ Running /\ mode = "receiving"
        /\ block_index \in Slots /\ cur \in Inodes
    BY SizesAssumption DEF TInv, Tree, Running, ReceiveBlock, IInv, TypeOK, Slots
  <2>2. /\ b # NoBlock /\ b \in bitmap_blocks' /\ bitmap_blocks \subseteq bitmap_blocks'
        /\ \A j \in Inodes : View(j).blocks[1] # b
    BY <1>2, <2>1, FreshBlock, Sizes DEF TakeBlock
  <2>3. block'[b] = text /\ \A x \in Blocks \ {b} : block'[x] = block[x]
    BY <1>2, <2>1 DEF IInv, TypeOK
  <2>4. Foreign(block'[b])
    BY <2>3, ForeignTexts
  <2>5. PICK c \in Inodes :
           /\ c = cur /\ View(c) = object /\ View(c)' = object'
           /\ \A j \in Inodes \ {c} : View(j)' = View(j)
    BY <1>2, <2>1 DEF View, Held
  <2>6. object'.blocks[1] = b \/ object'.blocks[1] = object.blocks[1]
    <3>1. object \in Node /\ 1 \in Slots
      BY <2>1, Sizes DEF IInv, TypeOK
    <3>2. /\ object' = WithBlock(object, block_index, b)
          /\ WithBlock(object, block_index, b).blocks[block_index] = b
          /\ \A s \in Slots \ {block_index} :
                WithBlock(object, block_index, b).blocks[s] = object.blocks[s]
      BY <1>2, <2>1, <3>1, WithBlockType
    <3>3. QED
      BY <3>1, <3>2
  <2>7. PICK W : W = {b}
    OBVIOUS
  <2>8. Forest' /\ FreeSpaceClean' /\ OthersKept
    BY <1>2, <2>1, <2>2, <2>3, <2>4, <2>5, <2>6, <2>7, SessionTree
  <2>9. QED
    BY <1>2, <2>1, <2>8 DEF Tree, SessionLive
<1>3. QED
  BY <1>1, <1>2 DEF ReceiveBlock

-----------------------------------------------------------------------------
(* The tools *)

\* A step that keeps every inode's entries, and cleans what it frees, keeps
\* the tree.
LEMMA SameTree ==
    ASSUME TInv, Running, bitmap_inode' = bitmap_inode, mode' \in {"menu", "defrag"},
           \A i \in Inodes : EntriesOf(i)' = EntriesOf(i),
           \A b \in Blocks \ Marked' : block'[b] = <<>>,
           \A i \in Inodes \ bitmap_inode : View(i)' = View(i)
    PROVE  Tree'
<1>1. Forest /\ FreeSpaceClean
  BY DEF TInv, Tree
<1>2. Forest'
  BY <1>1, SameOrForeign
<1>3. FreeSpaceClean'
  BY <1>1 DEF FreeSpaceClean
<1>4. QED
  BY <1>2, <1>3 DEF Tree, SessionLive

\* The integrity check and the start of a defragmentation keep the tree.
LEMMA ToolsTree ==
    ASSUME TInv, CheckFilesystem \/ DefragStart
    PROVE  Tree' /\ \A i \in Inodes : EntriesOf(i)' = EntriesOf(i)
<1>1. /\ mode = "menu" /\ UNCHANGED <<inode, block, bitmap_inode>>
      /\ mode' \in {"menu", "defrag"} /\ Marked \subseteq Marked'
  BY DEF CheckFilesystem, DefragStart, disk, Marked
<1>2. \A i \in Inodes : View(i)' = View(i)
  BY <1>1 DEF CheckFilesystem, DefragStart, local, View, Held
<1>3. \A i \in Inodes : EntriesOf(i)' = EntriesOf(i)
  BY <1>1, <1>2 DEF EntriesOf
<1>4. Running /\ FreeSpaceClean
  BY <1>1 DEF Running, TInv, Tree
<1>5. \A b \in Blocks \ Marked' : block'[b] = <<>>
  BY <1>1, <1>4 DEF FreeSpaceClean
<1>6. QED
  BY <1>1, <1>2, <1>3, <1>4, <1>5, SameTree

\* Moving a block moves what it holds, and cleans where it was.
LEMMA DefragSlotTree ==
    ASSUME TInv, DefragSlot
    PROVE  Tree' /\ \A i \in Inodes : EntriesOf(i)' = EntriesOf(i)
<1>1. PICK b : b = object.blocks[block_index]
  OBVIOUS
<1>2. /\ mode = "defrag" /\ mode' = mode /\ cur' = cur
      /\ block_index <= MAX_BLOCK_COUNT /\ b # NoBlock
      /\ UNCHANGED <<inode, bitmap_inode>>
  BY <1>1 DEF DefragSlot, DefragHere
<1>3. IInv /\ FreeSpaceClean /\ Running
  BY <1>2 DEF TInv, Tree, Running
<1>4. block_index \in Slots
  BY <1>2, <1>3, SizesAssumption DEF IInv, TypeOK, Slots
<1>5. object \in Node /\ b \in Blocks
  BY <1>1, <1>3, <1>4 DEF IInv, TypeOK, Node
<1>6. PICK c \in Inodes :
         /\ c = cur /\ View(c) = object /\ View(c)' = object'
         /\ \A j \in Inodes \ {c} : View(j)' = View(j)
  BY <1>2, <1>3 DEF View, Held, IInv, TypeOK
<1>7. Marked = bitmap /\ Marked' = bitmap'
  BY <1>2 DEF Marked
<1>8. \A j \in Inodes : View(j).blocks[1] \in Blocks
  BY <1>3, Sizes DEF IInv, TypeOK, View, Node
<1>9. CASE UNCHANGED <<block, bitmap, object>>
  <2>1. \A j \in Inodes : View(j)' = View(j)
    BY <1>6, <1>9
  <2>2. \A j \in Inodes : EntriesOf(j)' = EntriesOf(j)
    BY <1>9, <2>1 DEF EntriesOf
  <2>3. \A x \in Blocks \ Marked' : block'[x] = <<>>
    BY <1>3, <1>7, <1>9 DEF FreeSpaceClean
  <2>4. QED
    BY <1>2, <1>3, <2>1, <2>2, <2>3, SameTree
<1>10. ASSUME NEW k \in 1 .. b - 1, k \notin bitmap,
              block' = [block EXCEPT ![k] = block[b], ![b] = <<>>],
              bitmap' = (bitmap \cup {k}) \ {b},
              object' = WithBlock(object, block_index, k)
       PROVE  Tree' /\ \A j \in Inodes : EntriesOf(j)' = EntriesOf(j)
  <2>1. k \in Blocks /\ k # NoBlock /\ k # b
    BY <1>5, <1>10, SizesAssumption DEF Blocks, NoBlock
  <2>2. /\ block'[k] = block[b] /\ block'[b] = <<>>
        /\ \A x \in Blocks \ {k, b} : block'[x] = block[x]
    BY <1>3, <1>5, <1>10, <2>1 DEF IInv, TypeOK
  <2>3. /\ object'.blocks[block_index] = k
        /\ \A r \in Slots \ {block_index} : object'.blocks[r] = object.blocks[r]
    BY <1>4, <1>5, <1>10, <2>1, WithBlockType
  \* No inode begins with k, and only cur may begin with b.
  <2>4. \A j \in Inodes : View(j).blocks[1] # k
    BY <1>3, <1>7, <1>10, <2>1, Sizes DEF IInv, UsedBlocksMarked
  <2>5. \A j \in Inodes : View(j).blocks[1] = b => j = c /\ block_index = 1
    BY <1>1, <1>2, <1>3, <1>4, <1>6, Sizes DEF IInv, NoSharedBlock
  <2>6. \A j \in Inodes : EntriesOf(j)' = EntriesOf(j)
    <3> SUFFICES ASSUME NEW j \in Inodes PROVE EntriesOf(j)' = EntriesOf(j)
      OBVIOUS
    <3>1. CASE j = c /\ block_index = 1
      <4>1. View(j)'.blocks[1] = k /\ View(j).blocks[1] = b
        BY <1>1, <1>6, <2>3, <3>1
      <4>2. QED
        BY <1>2, <2>1, <2>2, <4>1 DEF EntriesOf
    <3>2. CASE ~(j = c /\ block_index = 1)
      <4>1. View(j)'.blocks[1] = View(j).blocks[1]
        BY <1>6, <2>3, <3>2, Sizes
      <4>2. View(j).blocks[1] \in Blocks \ {k, b}
        BY <1>8, <2>4, <2>5, <3>2
      <4>3. QED
        BY <2>2, <4>1, <4>2 DEF EntriesOf
    <3>3. QED
      BY <3>1, <3>2
  <2>7. \A x \in Blocks \ Marked' : block'[x] = <<>>
    BY <1>3, <1>7, <1>10, <2>2 DEF FreeSpaceClean
  \* A free inode has no block to move.
  <2>8. c \in bitmap_inode
    BY <1>1, <1>2, <1>3, <1>4, <1>6, EmptyNodeType DEF FreeSpaceClean
  <2>9. \A j \in Inodes \ bitmap_inode : View(j)' = View(j)
    BY <1>6, <2>8
  <2>10. QED
    BY <1>2, <1>3, <2>6, <2>7, <2>9, SameTree
<1>11. QED
  BY <1>1, <1>9, <1>10 DEF DefragSlot, MoveBlock

\* Storing an inode, and the bitmap after the last, changes nothing to see.
LEMMA DefragStoreSame ==
    ASSUME IInv, Layout, DefragStore
    PROVE  /\ UNCHANGED <<bitmap_inode, block>> /\ mode = "defrag" /\ mode' \in {"menu", "defrag"}
           /\ \A j \in Inodes : View(j)' = View(j)
           /\ Marked = bitmap /\ Marked' = bitmap
<1>1. /\ mode = "defrag" /\ UNCHANGED <<bitmap_inode, block>>
      /\ inode' = [inode EXCEPT ![cur] = object]
  BY DEF DefragStore
<1>2. \A j \in Inodes : inode'[j] = View(j)
  BY DefragStorePlaced
<1>3. Marked = bitmap
  BY <1>1 DEF Marked
<1>4. CASE /\ cur < TOTAL_INODE - 1 /\ cur' = cur + 1 /\ object' = inode[cur + 1]
           /\ UNCHANGED <<bitmap, mode>>
  <2>1. cur + 1 \in Inodes /\ cur + 1 # cur
    BY <1>4, SizesAssumption DEF IInv, TypeOK, Inodes
  <2>2. inode'[cur + 1] = object'
    BY <1>1, <1>4, <2>1 DEF IInv, TypeOK
  <2>3. \A j \in Inodes : View(j)' = View(j)
    BY <1>2, <1>4, <2>2 DEF View
  <2>4. QED
    BY <1>1, <1>3, <1>4, <2>3 DEF Marked
<1>5. CASE bitmap_blocks' = bitmap /\ mode' = "menu"
  BY <1>1, <1>2, <1>3, <1>5 DEF View, Held, Marked
<1>6. QED
  BY <1>4, <1>5 DEF DefragStore

\* So it keeps the tree.
LEMMA DefragStoreTree ==
    ASSUME TInv, DefragStore
    PROVE  Tree' /\ \A i \in Inodes : EntriesOf(i)' = EntriesOf(i)
<1>1. IInv /\ Layout /\ FreeSpaceClean /\ Running
  BY DEF TInv, Tree, Running, DefragStore
<1>2. /\ UNCHANGED <<bitmap_inode, block>> /\ mode' \in {"menu", "defrag"}
      /\ \A j \in Inodes : View(j)' = View(j)
      /\ Marked = bitmap /\ Marked' = bitmap
  BY <1>1, DefragStoreSame
<1>3. \A j \in Inodes : EntriesOf(j)' = EntriesOf(j)
  BY <1>2 DEF EntriesOf
<1>4. \A b \in Blocks \ Marked' : block'[b] = <<>>
  BY <1>1, <1>2 DEF FreeSpaceClean
<1>5. QED
  BY <1>1, <1>2, <1>3, <1>4, SameTree

-----------------------------------------------------------------------------
(* The theorems *)

\* Where there are no entries there is a tree.
LEMMA BareForest ==
    /\ (\A i \in Inodes : EntriesOf(i) = <<>>) => Forest
    /\ (\A i \in Inodes : EntriesOf(i)' = <<>>) => Forest'
<1>1. \A S \in (SUBSET Inodes) \ {{}} : \E i \in S : i \in Inodes
  OBVIOUS
<1>2. QED
  BY <1>1 DEF Forest, EntriesAreLive, OneNamePerInode, NoCycle, TextsFirst, Links

\* A formatted disk is clean, and has no entries.
LEMMA InitTree == Init => Tree
<1> SUFFICES ASSUME Init PROVE Tree
  OBVIOUS
<1>1. InitDisk /\ mode = "menu"
  BY DEF Init
<1>2. \A i \in Inodes : View(i) = ClearNode /\ View(i).blocks[1] = NoBlock
  BY <1>1, EmptyNodeType, Sizes DEF View, Held, InitDisk, ClearNode
<1>3. \A b \in Blocks : block[b] = <<>>
  BY <1>1 DEF InitDisk
<1>4. \A i \in Inodes : EntriesOf(i) = <<>>
  BY <1>2, <1>3, Sizes DEF EntriesOf, NoBlock
<1>5. FreeSpaceClean
  BY <1>2, <1>3 DEF FreeSpaceClean
<1>6. QED
  BY <1>1, <1>4, <1>5, BareForest DEF Tree, SessionLive

\* So is one that is formatted again.
LEMMA StartTree == Start => Tree'
<1> SUFFICES ASSUME Start PROVE Tree'
  OBVIOUS
<1>1. /\ mode' = "menu" /\ bitmap_inode' = {Root}
      /\ inode' = [i \in Inodes |-> EmptyNode(DIR)]
      /\ block' = [b \in Blocks |-> <<>>]
  BY DEF Start
<1>2. \A i \in Inodes : View(i)' = ClearNode /\ View(i)'.blocks[1] = NoBlock
  BY <1>1, EmptyNodeType, Sizes DEF View, Held, ClearNode
<1>3. \A b \in Blocks : block'[b] = <<>>
  BY <1>1
<1>4. \A i \in Inodes : EntriesOf(i)' = <<>>
  BY <1>2, <1>3, Sizes DEF EntriesOf, NoBlock
<1>5. FreeSpaceClean'
  BY <1>2, <1>3 DEF FreeSpaceClean
<1>6. QED
  BY <1>1, <1>4, <1>5, BareForest DEF Tree, SessionLive

\* Every step keeps the tree.
LEMMA NextTree == LongTexts /\ TInv /\ [Next]_vars => Tree'
<1> SUFFICES ASSUME LongTexts, TInv, [Next]_vars PROVE Tree'
  OBVIOUS
<1>1. ASSUME NEW d \in Parents, NEW n \in Names,
             \/ CreateFile(d, n) \/ CreateDir(d, n) \/ DeleteFile(d, n)
             \/ DeleteDir(d, n) \/ OpenForWrite(d, n)
      PROVE  Tree'
  <2>1. d \in Inodes
    BY DEF Parents
  <2>2. CASE CreateFile(d, n) \/ CreateDir(d, n)
    BY <2>2, AddObjectTree DEF CreateFile, CreateDir
  <2>3. CASE DeleteFile(d, n) \/ DeleteDir(d, n)
    BY <2>1, <2>3, DeleteTree
  <2>4. CASE OpenForWrite(d, n)
    BY <2>1, <2>4, OpenForWriteTree
  <2>5. QED
    BY <1>1, <2>2, <2>3, <2>4
<1>2. CASE EmptyPath \/ Stop
  BY <1>2, TreeDown DEF EmptyPath, Crash, Stop
<1>3. ASSUME NEW n \in Names, AcceptFile(n) PROVE Tree'
  BY <1>3, AcceptFileTree
<1>4. ASSUME NEW text \in Texts, FillBlock(text) \/ FinishWrite(text) \/ ReceiveBlock(text)
      PROVE  Tree'
  BY <1>4, FillBlockTree, ReceiveBlockTree, CloseFileTree DEF FinishWrite
<1>5. CASE StoreReceived
  BY <1>5, CloseFileTree DEF StoreReceived
<1>6. CASE CheckFilesystem \/ DefragStart
  BY <1>6, ToolsTree
<1>7. CASE DefragSlot \/ DefragStore
  BY <1>7, DefragSlotTree, DefragStoreTree
<1>8. CASE Start
  BY <1>8, StartTree
<1>9. CASE UNCHANGED vars
  <2>1. /\ UNCHANGED <<bitmap_inode, bitmap_blocks, inode, block, mode, cur, object, bitmap>>
    BY <1>9 DEF vars, disk, local
  <2>2. (\A i \in Inodes : View(i)' = View(i)) /\ Marked' = Marked /\ (Running' <=> Running)
    BY <2>1 DEF View, Held, Marked, Running
  <2>3. \A i \in Inodes : EntriesOf(i)' = EntriesOf(i)
    BY <2>1, <2>2 DEF EntriesOf
  <2>4. FreeSpaceClean' /\ SessionLive'
    BY <2>1, <2>2 DEF TInv, Tree, FreeSpaceClean, SessionLive
  <2>5. CASE Running
    BY <2>1, <2>3, <2>4, <2>5, SameOrForeign DEF TInv, Tree
  <2>6. CASE ~Running
    BY <2>2, <2>6 DEF Tree, FreeSpaceClean, Forest, EntriesAreLive, OneNamePerInode,
                      NoCycle, TextsFirst, SessionLive, Running
  <2>7. QED
    BY <2>5, <2>6
<1>10. QED
  BY <1>1, <1>2, <1>3, <1>4, <1>5, <1>6, <1>7, <1>8, <1>9 DEF Next

\* Where no text is read as an inode of the table, the tree holds of every
\* behaviour, with the invariants it rests on.
THEOREM TreeInvariance ==
    ASSUME LongTexts
    PROVE  Spec => []TInv
<1>1. Init => TInv
  BY InitIInv, InitLayout, InitTree DEF TInv
<1>2. TInv /\ [Next]_vars => TInv'
  BY NextIInv, NextLayout, NextTree DEF TInv
<1>3. QED
  BY <1>1, <1>2, PTL DEF Spec

\* What is free is empty: a directory's new block holds no entry of a file
\* that is gone, and a new inode no block.
THEOREM FreeIsClean ==
    ASSUME LongTexts
    PROVE  Spec => []FreeSpaceClean
<1>1. TInv => FreeSpaceClean
  BY DEF TInv, Tree
<1>2. QED
  BY <1>1, TreeInvariance, PTL

\* No entry outlives its inode: no path leads to an inode that was given to
\* another file since.
THEOREM NoDanglingEntry ==
    ASSUME LongTexts
    PROVE  Spec => []EntriesAreLive
<1>1. TInv => EntriesAreLive
  BY DEF TInv, Tree, Forest
<1>2. QED
  BY <1>1, TreeInvariance, PTL

\* No deletion frees what another directory still names: an inode has at most
\* one name.
THEOREM NamesAreUnique ==
    ASSUME LongTexts
    PROVE  Spec => []OneNamePerInode
<1>1. TInv => OneNamePerInode
  BY DEF TInv, Tree, Forest
<1>2. QED
  BY <1>1, TreeInvariance, PTL

\* No sequence of operations puts a directory below itself, where the
\* recursion of delete_dir_inode would not end.
THEOREM DirectoriesEnd ==
    ASSUME LongTexts
    PROVE  Spec => []NoCycle
<1>1. TInv => NoCycle
  BY DEF TInv, Tree, Forest
<1>2. QED
  BY <1>1, TreeInvariance, PTL
=============================================================================
