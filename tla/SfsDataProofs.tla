---------------------------- MODULE SfsDataProofs ----------------------------
(***************************************************************************)
(* Proofs about what a step may do to what is there already: to what files *)
(* hold, to blocks in use, and to the names of inodes in use.              *)
(*                                                                         *)
(* What a file holds is in the blocks of its slots.  A step writes to a    *)
(* block that is fresh, or of the file in hand, or of a deleted inode, or  *)
(* the first of the directory it is about, and no two slots share one.     *)
(* That a directory has no other block than its first, and is never        *)
(* written, is the invariant Kinds.                                        *)
(***************************************************************************)
EXTENDS SfsProofs

\* A step that keeps what inode i holds.
Keeps(i) == FileData(i)' = FileData(i) /\ View(i)'.type = View(i).type

\* The slots that a loop over a node meets.
UsedSlots(node) == {r \in Slots : \A q \in 1 .. r : node.blocks[q] # NoBlock}

\* Where there is no gap they are those with a block.
LEMMA PackedUsed ==
    ASSUME NEW node, Packed(node)
    PROVE  UsedSlots(node) = {r \in Slots : node.blocks[r] # NoBlock}
<1>1. \A r \in Slots : r \in 1 .. r /\ \A q \in 1 .. r : q \in Slots /\ (q < r \/ q = r)
  BY SizesAssumption DEF Slots
<1>2. QED
  BY <1>1 DEF UsedSlots, Packed

\* What an inode holds, before a step and after it.
LEMMA DataIs ==
    ASSUME NEW i
    PROVE  /\ FileData(i) = [s \in UsedSlots(View(i)) |-> block[View(i).blocks[s]]]
           /\ FileData(i)' = [s \in UsedSlots(View(i)') |-> block'[View(i)'.blocks[s]]]
  BY DEF FileData, UsedSlots

\* It is kept if the same slots have blocks, with the same in them.
LEMMA KeptData ==
    ASSUME NEW i,
           \A s \in Slots : View(i)'.blocks[s] = NoBlock <=> View(i).blocks[s] = NoBlock,
           \A s \in Slots : View(i).blocks[s] # NoBlock =>
                               block'[View(i)'.blocks[s]] = block[View(i).blocks[s]]
    PROVE  FileData(i)' = FileData(i)
<1>1. \A r \in Slots : r \in 1 .. r /\ \A q \in 1 .. r : q \in Slots
  BY SizesAssumption DEF Slots
<1>2. UsedSlots(View(i)') = UsedSlots(View(i))
  BY <1>1 DEF UsedSlots
<1>3. \A s \in UsedSlots(View(i)) : s \in Slots /\ View(i).blocks[s] # NoBlock
  BY <1>1 DEF UsedSlots
<1>4. QED
  BY <1>2, <1>3, DataIs

\* So it is if the inode is not touched and none of its blocks is.
LEMMA UntouchedKept ==
    ASSUME NEW i, View(i)' = View(i),
           \A s \in Slots : View(i).blocks[s] # NoBlock =>
                               block'[View(i).blocks[s]] = block[View(i).blocks[s]]
    PROVE  Keeps(i)
<1>1. FileData(i)' = FileData(i)
  BY KeptData
<1>2. QED
  BY <1>1 DEF Keeps

-----------------------------------------------------------------------------
(* Creating and deleting *)

\* A step that makes inode i with an entry in d changes the first slot of the
\* directory, and the block there, and no other slot or block of an inode.
FirstSlotOnly(i, d) ==
    /\ \A j \in Inodes \ {i} : inode'[j].type = inode[j].type
    /\ \A j \in Inodes \ {i, d} : inode'[j] = inode[j]
    /\ \A j \in Inodes \ {i} : \A s \in Slots : j # d \/ s # 1 =>
          /\ inode'[j].blocks[s] = inode[j].blocks[s]
          /\ inode[j].blocks[s] # NoBlock =>
                block'[inode[j].blocks[s]] = block[inode[j].blocks[s]]

\* So does a new inode.
LEMMA AddInodeShape ==
    ASSUME IInv, Layout, mode = "menu",
           NEW d \in Inodes, NEW n, NEW t \in {DIR, FIL}, NEW i \in Inodes,
           AddInode(i, d, n, t)
    PROVE  /\ i \notin bitmap_inode /\ bitmap_inode' = bitmap_inode \cup {i}
           /\ FirstSlotOnly(i, d)
           /\ d # i => inode'[i] = EmptyNode(t)
           /\ d # i /\ inode[d].blocks[1] # NoBlock =>
                 inode'[d].blocks[1] = inode[d].blocks[1]
<1> DEFINE tbl   == WithInode(i, t)
           entry == [inode |-> i, name |-> n]
<1>1. /\ i \notin bitmap_inode /\ bitmap_inode' = bitmap_inode \cup {i} /\ i # Root
  BY DEF AddInode, TakeInode, FirstFree, IInv, Reserved
<1>2. PICK b \in Blocks :
        /\ IF LacksBlock(d, tbl) THEN TakeBlock(b)
           ELSE b = tbl[d].blocks[1] /\ UNCHANGED bitmap_blocks
        /\ \/ inode' = tbl /\ UNCHANGED block
           \/ /\ inode' = [tbl EXCEPT ![d] = WithBlock(tbl[d], 1, b)]
              /\ block' = [block EXCEPT ![b] = Append(@, entry)]
  BY DEF AddInode, AddDirent
<1>3. \A j \in Inodes : View(j) = inode[j] /\ inode[j] \in Node
  BY MenuLayout DEF IInv, TypeOK
<1>4. EmptyNode(t) \in Node /\ EmptyNode(t).blocks[1] = NoBlock
  BY EmptyNodeType, Sizes
<1>5. /\ tbl \in [Inodes -> Node]
      /\ \A j \in Inodes : tbl[j] = IF j = i THEN EmptyNode(t) ELSE inode[j]
  BY <1>4 DEF IInv, TypeOK, WithInode
<1> HIDE DEF tbl, entry
<1>6. /\ WithBlock(tbl[d], 1, b).type = tbl[d].type
      /\ WithBlock(tbl[d], 1, b).blocks[1] = b
      /\ \A s \in Slots \ {1} : WithBlock(tbl[d], 1, b).blocks[s] = tbl[d].blocks[s]
  <2>1. tbl[d] \in Node
    BY <1>5
  <2>2. WithBlock(tbl[d], 1, b).type = tbl[d].type
    BY <2>1 DEF WithBlock, Node
  <2>3. QED
    BY <2>1, <2>2, Sizes, WithBlockType
\* The block written is in no other slot.
<1>7. /\ \A j \in Inodes \ {i} : \A s \in Slots :
            inode[j].blocks[s] = b /\ b # NoBlock => j = d /\ s = 1
      /\ tbl[d].blocks[1] # NoBlock => b = tbl[d].blocks[1]
  <2>1. CASE LacksBlock(d, tbl)
    <3>1. FirstFree(b, bitmap_blocks)
      BY <1>2, <2>1 DEF TakeBlock
    <3>2. \A j \in Inodes : \A s \in Slots : inode[j].blocks[s] # b
      BY <1>3, <3>1, FreshBlock DEF Running
    <3>3. QED
      BY <2>1, <3>2 DEF LacksBlock
  <2>2. CASE ~LacksBlock(d, tbl)
    <3>1. b = tbl[d].blocks[1]
      BY <1>2, <2>2
    <3>2. d # i
      BY <1>1, <1>4, <1>5, <2>2 DEF LacksBlock
    <3>3. b = inode[d].blocks[1]
      BY <1>5, <3>1, <3>2
    <3>4. QED
      BY <1>3, <3>1, <3>3, Sizes DEF IInv, NoSharedBlock, Running
  <2>3. QED
    BY <2>1, <2>2
<1>8. CASE inode' = tbl /\ UNCHANGED block
  BY <1>1, <1>5, <1>8 DEF FirstSlotOnly
<1>9. CASE /\ inode' = [tbl EXCEPT ![d] = WithBlock(tbl[d], 1, b)]
           /\ block' = [block EXCEPT ![b] = Append(@, entry)]
  <2>1. \A j \in Inodes : inode'[j] = IF j = d THEN WithBlock(tbl[d], 1, b) ELSE tbl[j]
    BY <1>5, <1>9
  <2>2. \A x \in Blocks \ {b} : block'[x] = block[x]
    BY <1>9 DEF IInv, TypeOK
  <2>3. \A j \in Inodes : \A s \in Slots : inode[j].blocks[s] \in Blocks
    BY <1>3 DEF Node
  <2>4. \A j \in Inodes \ {i} : \A s \in Slots : j # d \/ s # 1 =>
           /\ inode'[j].blocks[s] = inode[j].blocks[s]
           /\ inode[j].blocks[s] # NoBlock =>
                 block'[inode[j].blocks[s]] = block[inode[j].blocks[s]]
    <3>1. \A j \in Inodes \ {i} : \A s \in Slots : j # d \/ s # 1 =>
             inode'[j].blocks[s] = inode[j].blocks[s]
      BY <1>5, <1>6, <2>1
    <3>2. \A j \in Inodes \ {i} : \A s \in Slots :
             (j # d \/ s # 1) /\ inode[j].blocks[s] # NoBlock =>
                block'[inode[j].blocks[s]] = block[inode[j].blocks[s]]
      BY <1>7, <2>2, <2>3
    <3>3. QED
      BY <3>1, <3>2
  <2>5. \A j \in Inodes \ {i} : inode'[j].type = inode[j].type
    BY <1>5, <1>6, <2>1
  <2>6. d # i /\ inode[d].blocks[1] # NoBlock => inode'[d].blocks[1] = inode[d].blocks[1]
    BY <1>5, <1>6, <1>7, <2>1
  <2>7. QED
    BY <1>1, <1>5, <2>1, <2>4, <2>5, <2>6 DEF FirstSlotOnly
<1>10. QED
  BY <1>2, <1>8, <1>9

\* So it keeps all but the directory, and the root, which has nothing.
LEMMA AddInodeKeeps ==
    ASSUME IInv, Layout, mode = "menu", mode' \in {"menu", "receiving"},
           NEW d \in Inodes, NEW n \in Names, NEW t \in {DIR, FIL}, NEW i \in Inodes,
           AddInode(i, d, n, t),
           \A j \in Inodes : View(j)' = inode'[j]
    PROVE  \A j \in Inodes \ {i} : j # d \/ d = Root => Keeps(j)
<1> SUFFICES ASSUME NEW j \in Inodes \ {i}, j # d \/ d = Root PROVE Keeps(j)
  OBVIOUS
<1>1. View(j) = inode[j] /\ View(j)' = inode'[j]
  BY MenuLayout
<1>2. /\ inode'[j].type = inode[j].type
      /\ j # d => inode'[j] = inode[j]
      /\ j # d => \A s \in Slots : inode[j].blocks[s] # NoBlock =>
                      block'[inode[j].blocks[s]] = block[inode[j].blocks[s]]
  <2>1. FirstSlotOnly(i, d)
    BY AddInodeShape
  <2>2. QED
    BY <2>1 DEF FirstSlotOnly
<1>3. CASE j # d
  BY <1>1, <1>3, <1>2, UntouchedKept
<1>4. CASE j = Root
  <2>1. \A s \in Slots : inode[j].blocks[s] = NoBlock /\ inode'[j].blocks[s] = NoBlock
    BY <1>4, MenuLayout, AddInodeLayout
  <2>2. FileData(j)' = FileData(j)
    BY <1>1, <2>1, KeptData
  <2>3. View(j)'.type = View(j).type
    BY <1>1, <1>2
  <2>4. QED
    BY <2>2, <2>3 DEF Keeps
<1>5. QED
  BY <1>3, <1>4

\* A step that clears the inodes in S changes the first block of directory d,
\* and no other block of an inode that stays.
OnlyCleared(d, S) ==
    /\ \A j \in Inodes : View(j)' = IF j \in S THEN ClearNode ELSE View(j)
    /\ \A j \in Inodes \ S : \A s \in Slots :
          (j # d \/ s # 1) /\ View(j).blocks[s] # NoBlock =>
             block'[View(j).blocks[s]] = block[View(j).blocks[s]]

\* So does removing an entry.
LEMMA RemoveEntryShape ==
    ASSUME IInv, Layout, mode = "menu", NEW d \in Inodes, NEW k, NEW S \in SUBSET Inodes, NEW B,
           \A b \in B : b # NoBlock /\ \E i \in S, s \in Slots : inode[i].blocks[s] = b,
           RemoveEntry(d, k, S, B)
    PROVE  OnlyCleared(d, S)
<1>1. /\ inode' = [i \in Inodes |-> IF i \in S THEN ClearNode ELSE inode[i]]
      /\ block' = [b \in Blocks |-> IF b = DirBlock(d) THEN RemoveAt(Entries(d), k)
                                    ELSE IF b \in B THEN <<>> ELSE block[b]]
      /\ mode' = "menu"
  BY DEF RemoveEntry
<1>2. \A j \in Inodes : View(j) = inode[j] /\ inode[j] \in Node /\ View(j)' = inode'[j]
  BY <1>1, MenuLayout DEF IInv, TypeOK, View, Held
<1>3. ASSUME NEW j \in Inodes \ S, NEW s \in Slots, j # d \/ s # 1, inode[j].blocks[s] # NoBlock
      PROVE  block'[inode[j].blocks[s]] = block[inode[j].blocks[s]]
  <2>1. inode[j].blocks[s] \in Blocks
    BY <1>2 DEF Node
  <2>2. inode[j].blocks[s] # inode[d].blocks[1]
    BY <1>2, <1>3, Sizes DEF IInv, NoSharedBlock, Running
  <2>3. inode[j].blocks[s] \notin B
    BY <1>2, <1>3 DEF IInv, NoSharedBlock, Running
  <2>4. QED
    BY <1>1, <2>1, <2>2, <2>3 DEF DirBlock
<1>4. QED
  BY <1>1, <1>2, <1>3 DEF OnlyCleared

\* So it keeps all that stays but the directory.
LEMMA RemoveEntryKeeps ==
    ASSUME IInv, Layout, mode = "menu", NEW d \in Inodes, NEW k, NEW S \in SUBSET Inodes, NEW B,
           \A b \in B : b # NoBlock /\ \E i \in S, s \in Slots : inode[i].blocks[s] = b,
           RemoveEntry(d, k, S, B)
    PROVE  \A j \in Inodes \ S : j # d => Keeps(j)
<1> SUFFICES ASSUME NEW j \in Inodes \ S, j # d PROVE Keeps(j)
  OBVIOUS
<1>1. OnlyCleared(d, S)
  BY RemoveEntryShape
<1>2. View(j)' = View(j)
  BY <1>1 DEF OnlyCleared
<1>3. \A s \in Slots : View(j).blocks[s] # NoBlock =>
          block'[View(j).blocks[s]] = block[View(j).blocks[s]]
  BY <1>1 DEF OnlyCleared
<1>4. QED
  BY <1>2, <1>3, UntouchedKept

\* The blocks freed are those of the inodes cleared, by name and by directory.
LEMMA DeleteBlocks ==
    ASSUME IInv, NEW d \in Inodes, NEW k \in DOMAIN Entries(d),
           NEW t \in Inodes, t = Entries(d)[k].inode
    PROVE  /\ t # Root
           /\ \A b \in NodeBlocks(inode[t]) :
                 b # NoBlock /\ \E i \in {t}, s \in Slots : inode[i].blocks[s] = b
           /\ Doomed(t) \in SUBSET (Inodes \ {Root})
           /\ \A b \in DoomedBlocks(t) :
                 b # NoBlock /\ \E i \in Doomed(t), s \in Slots : inode[i].blocks[s] = b
<1>1. t # Root /\ TypeOK
  BY EntriesType DEF IInv
<1>2. inode[t] \in Node
  BY <1>1 DEF TypeOK
<1>3. QED
  BY <1>1, <1>2, NodeBlocksSound, DoomedSound

\* Deleting keeps all that stays but the directory.
LEMMA DeleteKeeps ==
    ASSUME IInv, Layout, Running', NEW d \in Inodes, NEW n \in Names,
           DeleteFile(d, n) \/ DeleteDir(d, n),
           NEW i \in Inodes, i \in bitmap_inode', i # d
    PROVE  Keeps(i)
<1>1. ASSUME NEW k, NEW S \in SUBSET Inodes, NEW B, mode = "menu",
             \A b \in B : b # NoBlock /\ \E j \in S, s \in Slots : inode[j].blocks[s] = b,
             RemoveEntry(d, k, S, B)
      PROVE  Keeps(i)
  <2>1. i \notin S
    BY <1>1 DEF RemoveEntry
  <2>2. QED
    BY <1>1, <2>1, RemoveEntryKeeps
<1>2. CASE DeleteFile(d, n)
  <2>1. PICK k \in DOMAIN Entries(d) :
          /\ Entries(d)[k].inode \in Inodes
          /\ RemoveEntry(d, k, {Entries(d)[k].inode}, NodeBlocks(inode[Entries(d)[k].inode]))
    BY <1>2 DEF DeleteFile
  <2>2. PICK t \in Inodes : t = Entries(d)[k].inode
    BY <2>1
  <2>3. PICK S \in SUBSET Inodes : S = {t}
    BY <2>2
  <2>4. /\ RemoveEntry(d, k, S, NodeBlocks(inode[t])) /\ mode = "menu"
        /\ \A b \in NodeBlocks(inode[t]) :
              b # NoBlock /\ \E j \in S, s \in Slots : inode[j].blocks[s] = b
    BY <1>2, <2>1, <2>2, <2>3, DeleteBlocks DEF DeleteFile
  <2>5. QED
    BY <1>1, <2>4
<1>3. CASE DeleteDir(d, n)
  <2>1. PICK k \in DOMAIN Entries(d) :
          /\ Entries(d)[k].inode \in Inodes
          /\ RemoveEntry(d, k, Doomed(Entries(d)[k].inode), DoomedBlocks(Entries(d)[k].inode))
    BY <1>3 DEF DeleteDir, Crash, Running
  <2>2. PICK t \in Inodes : t = Entries(d)[k].inode
    BY <2>1
  <2>3. /\ RemoveEntry(d, k, Doomed(t), DoomedBlocks(t)) /\ mode = "menu"
        /\ Doomed(t) \in SUBSET Inodes
        /\ \A b \in DoomedBlocks(t) :
              b # NoBlock /\ \E j \in Doomed(t), s \in Slots : inode[j].blocks[s] = b
    BY <1>3, <2>1, <2>2, DeleteBlocks DEF DeleteDir
  <2>4. QED
    BY <1>1, <2>3
<1>4. QED
  BY <1>2, <1>3

-----------------------------------------------------------------------------
(* Writing, receiving and the tools *)

\* Taking a file in hand keeps the others.
LEMMA OpenForWriteKeeps ==
    ASSUME IInv, Layout, NEW d \in Inodes, NEW n \in Names, OpenForWrite(d, n)
    PROVE  \A i \in Inodes : i # cur' => Keeps(i)
<1>1. mode = "menu" /\ UNCHANGED <<inode, block>>
  BY DEF OpenForWrite
<1>2. \A i \in Inodes : i # cur' => View(i) = inode[i] /\ View(i)' = inode[i]
  BY <1>1, MenuLayout DEF View
<1>3. QED
  BY <1>1, <1>2, UntouchedKept

\* Writing a block that no other inode uses keeps the others.
LEMMA SessionKeeps ==
    ASSUME IInv, NEW w, \A i \in Inodes : i # cur => View(i)' = View(i),
           \A i \in Inodes : \A s \in Slots : i # cur => View(i).blocks[s] # w,
           NEW text, block' = [block EXCEPT ![w] = text]
    PROVE  \A i \in Inodes : i # cur => Keeps(i)
<1> SUFFICES ASSUME NEW i \in Inodes, i # cur PROVE Keeps(i)
  OBVIOUS
<1>1. \A s \in Slots : View(i).blocks[s] \in Blocks \ {w}
  BY DEF View, IInv, TypeOK, Node
<1>2. \A s \in Slots : block'[View(i).blocks[s]] = block[View(i).blocks[s]]
  BY <1>1 DEF IInv, TypeOK
<1>3. QED
  BY <1>2, UntouchedKept

\* The steps of a session change the inode in hand, which stays in hand or is
\* stored.
LEMMA SessionViews ==
    ASSUME IInv, Running',
           \/ \E text \in Texts : FillBlock(text) \/ FinishWrite(text) \/ ReceiveBlock(text)
           \/ StoreReceived
    PROVE  /\ mode \in {"writing", "receiving"}
           /\ UNCHANGED bitmap_inode
           /\ \/ mode' = mode /\ UNCHANGED <<inode, cur>> /\ object'.type = object.type
              \/ mode' = "menu" /\ inode' = [inode EXCEPT ![cur] = object]
           /\ \A i \in Inodes : i # cur => View(i)' = View(i)
           /\ \E c \in Inodes : c = cur /\ View(c) = object /\ View(c)'.type = object.type
<1>1. mode \in {"writing", "receiving"} /\ UNCHANGED bitmap_inode /\ ~Crash
  BY DEF FillBlock, FinishWrite, ReceiveBlock, StoreReceived, CloseFile, Crash, Running
<1>2. PICK c \in Inodes : c = cur /\ View(c) = object
  BY <1>1 DEF View, Held, IInv, TypeOK
<1>3. ASSUME NEW s, NEW b \in Blocks
      PROVE  WithBlock(object, s, b).type = object.type
  BY DEF WithBlock, IInv, TypeOK, Node
<1>4. CASE CloseFile
  BY <1>1, <1>2, <1>4 DEF CloseFile, View, Held, IInv, TypeOK
<1>5. CASE mode' = mode /\ UNCHANGED <<inode, cur>> /\ object'.type = object.type
  BY <1>1, <1>2, <1>5 DEF View, Held
<1>6. \/ CloseFile
      \/ mode' = mode /\ UNCHANGED <<inode, cur>> /\ object'.type = object.type
  BY <1>1, <1>3 DEF FillBlock, FinishWrite, ReceiveBlock, StoreReceived
<1>7. QED
  BY <1>4, <1>5, <1>6

\* So they change what the file in hand holds, at most.
LEMMA SessionsKeep ==
    ASSUME IInv, Layout, Running',
           \/ \E text \in Texts : FillBlock(text) \/ FinishWrite(text) \/ ReceiveBlock(text)
           \/ StoreReceived
    PROVE  mode \in {"writing", "receiving"} /\ \A i \in Inodes : i # cur => Keeps(i)
<1>1. mode \in {"writing", "receiving"} /\ Held /\ Running /\ mode # "defrag"
  BY DEF FillBlock, FinishWrite, ReceiveBlock, StoreReceived, Held, Running
<1>2. \A i \in Inodes : i # cur => View(i)' = View(i)
  BY SessionViews
<1>3. ASSUME mode = "writing", NEW text \in Texts,
             block' = [block EXCEPT ![object.blocks[block_index]] = text]
      PROVE  \A i \in Inodes : i # cur => Keeps(i)
  <2>1. block_index \in Slots /\ object.blocks[block_index] # NoBlock
    BY <1>3 DEF IInv, Session, Layout, Filled
  <2>2. \A i \in Inodes : \A s \in Slots : i # cur => View(i).blocks[s] # object.blocks[block_index]
    BY <1>1, <2>1, SessionBlock
  <2>3. QED
    BY <1>2, <1>3, <2>2, SessionKeeps
<1>4. ASSUME NEW text \in Texts, NEW b \in Blocks, TakeBlock(b), block' = [block EXCEPT ![b] = text]
      PROVE  \A i \in Inodes : i # cur => Keeps(i)
  <2>1. \A i \in Inodes : \A s \in Slots : View(i).blocks[s] # b
    BY <1>1, <1>4, FreshBlock DEF TakeBlock
  <2>2. QED
    BY <1>2, <1>4, <2>1, SessionKeeps
<1>5. CASE UNCHANGED block
  BY <1>1, <1>2, <1>5, UntouchedKept
<1>6. ~Crash
  BY DEF Crash, Running
<1>7. CASE StoreReceived
  BY <1>1, <1>5, <1>7 DEF StoreReceived
<1>8. ASSUME NEW text \in Texts, FillBlock(text) \/ FinishWrite(text)
      PROVE  \A i \in Inodes : i # cur => Keeps(i)
  <2>1. /\ mode = "writing"
        /\ block' = [block EXCEPT ![object.blocks[block_index]] = text]
    BY <1>6, <1>8 DEF FillBlock, FinishWrite
  <2>2. QED
    BY <1>3, <2>1
<1>9. ASSUME NEW text \in Texts, ReceiveBlock(text)
      PROVE  \A i \in Inodes : i # cur => Keeps(i)
  BY <1>4, <1>6, <1>9 DEF ReceiveBlock
<1>10. QED
  BY <1>1, <1>7, <1>8, <1>9

\* The tools change nothing that an inode holds: a block moved is copied
\* before it is cleared, and no other slot has it.
LEMMA ToolsKeep ==
    ASSUME IInv, Layout, CheckFilesystem \/ DefragStart \/ DefragSlot \/ DefragStore
    PROVE  /\ \A i \in Inodes : Keeps(i)
           /\ \A i \in Inodes : \A s \in Slots :
                 View(i)'.blocks[s] = NoBlock <=> View(i).blocks[s] = NoBlock
<1>1. CASE CheckFilesystem \/ DefragStart
  <2>1. UNCHANGED <<inode, block>> /\ \A i \in Inodes : View(i)' = View(i)
    BY <1>1 DEF CheckFilesystem, DefragStart, disk, local, View, Held
  <2>2. QED
    BY <2>1, UntouchedKept
<1>2. CASE DefragStore
  BY <1>2, DefragStoreSame, UntouchedKept
<1>3. CASE DefragSlot
  <2>1. PICK b : b = object.blocks[block_index]
    OBVIOUS
  <2>2. /\ mode = "defrag" /\ mode' = mode /\ cur' = cur /\ UNCHANGED inode
        /\ block_index <= MAX_BLOCK_COUNT /\ b # NoBlock /\ Running
    BY <1>3, <2>1 DEF DefragSlot, DefragHere, Running
  <2>3. block_index \in Slots
    BY <2>2, SizesAssumption DEF IInv, TypeOK, Slots
  <2>4. object \in Node /\ b \in Blocks
    BY <2>1, <2>3 DEF IInv, TypeOK, Node
  <2>5. PICK c \in Inodes :
           /\ c = cur /\ View(c) = object /\ View(c)' = object'
           /\ \A j \in Inodes \ {c} : View(j)' = View(j)
    BY <2>2 DEF View, Held, IInv, TypeOK
  <2>6. \A j \in Inodes : \A s \in Slots : View(j).blocks[s] \in Blocks
    BY DEF View, IInv, TypeOK, Node
  <2>7. CASE UNCHANGED <<block, object>>
    <3>1. \A i \in Inodes : View(i)' = View(i)
      BY <2>5, <2>7
    <3>2. QED
      BY <2>7, <3>1, UntouchedKept
  <2>8. ASSUME NEW k \in 1 .. b - 1, k \notin bitmap,
               block' = [block EXCEPT ![k] = block[b], ![b] = <<>>],
               object' = WithBlock(object, block_index, k)
        PROVE  /\ \A i \in Inodes : Keeps(i)
               /\ \A i \in Inodes : \A s \in Slots :
                     View(i)'.blocks[s] = NoBlock <=> View(i).blocks[s] = NoBlock
    <3>1. k \in Blocks /\ k # NoBlock /\ k # b
      BY <2>4, <2>8, SizesAssumption DEF Blocks, NoBlock
    <3>2. block'[k] = block[b] /\ \A x \in Blocks \ {k, b} : block'[x] = block[x]
      BY <2>4, <2>8, <3>1 DEF IInv, TypeOK
    <3>3. \A j \in Inodes : \A s \in Slots : View(j).blocks[s] # k
      BY <2>2, <2>8, <3>1 DEF IInv, UsedBlocksMarked, Marked
    <3>4. \A j \in Inodes : \A s \in Slots : View(j).blocks[s] = b => j = c /\ s = block_index
      BY <2>1, <2>2, <2>3, <2>5 DEF IInv, NoSharedBlock
    <3>5. \A j \in Inodes \ {c} : Keeps(j)
      <4> SUFFICES ASSUME NEW j \in Inodes \ {c} PROVE Keeps(j)
        OBVIOUS
      <4>1. \A s \in Slots : View(j).blocks[s] \in Blocks \ {k, b}
        BY <2>6, <3>3, <3>4
      <4>2. View(j)' = View(j)
        BY <2>5
      <4>3. QED
        BY <3>2, <4>1, <4>2, UntouchedKept
    <3>6. /\ object'.blocks[block_index] = k
          /\ \A r \in Slots \ {block_index} : object'.blocks[r] = object.blocks[r]
      BY <2>3, <2>4, <2>8, <3>1, WithBlockType
    <3>7. /\ \A s \in Slots : View(c)'.blocks[s] = NoBlock <=> View(c).blocks[s] = NoBlock
          /\ \A s \in Slots : View(c).blocks[s] # NoBlock =>
                                 block'[View(c)'.blocks[s]] = block[View(c).blocks[s]]
      <4>1. \A s \in Slots : s # block_index =>
               View(c).blocks[s] \in Blocks \ {k, b} /\ View(c)'.blocks[s] = View(c).blocks[s]
        BY <2>5, <2>6, <3>3, <3>4, <3>6
      <4>2. View(c)'.blocks[block_index] = k /\ View(c).blocks[block_index] = b
        BY <2>1, <2>5, <3>6
      <4>3. QED
        BY <2>2, <3>1, <3>2, <4>1, <4>2
    <3>8. Keeps(c)
      <4>1. View(c)'.type = View(c).type
        BY <2>4, <2>5, <2>8 DEF WithBlock, Node
      <4>2. FileData(c)' = FileData(c)
        BY <3>7, KeptData
      <4>3. QED
        BY <4>1, <4>2 DEF Keeps
    <3>9. QED
      BY <2>5, <3>5, <3>7, <3>8
  <2>9. QED
    BY <1>3, <2>1, <2>7, <2>8 DEF DefragSlot, MoveBlock
<1>4. QED
  BY <1>1, <1>2, <1>3

-----------------------------------------------------------------------------
(* What files hold *)

\* No operation changes what a regular file holds, but writing that file, and
\* creating or deleting in it as if it were a directory.
THEOREM DataIsItsOwn == Spec => DataChangesOnlyByItsOwn
<1>1. IInv /\ Layout /\ [Next]_vars =>
        [Running /\ Running' =>
           \A i \in bitmap_inode \cap bitmap_inode' :
              inode[i].type = FIL /\ FileData(i)' # FileData(i) =>
                  \/ mode \in {"writing", "receiving"} /\ cur = i
                  \/ mode' = "writing" /\ cur' = i
                  \/ \E n \in Names : \/ CreateFile(i, n) \/ CreateDir(i, n)
                                      \/ DeleteFile(i, n) \/ DeleteDir(i, n)]_vars
  <2> SUFFICES ASSUME IInv, Layout, Next, Running, Running',
                      NEW i \in bitmap_inode \cap bitmap_inode', FileData(i)' # FileData(i)
               PROVE  \/ mode \in {"writing", "receiving"} /\ cur = i
                      \/ mode' = "writing" /\ cur' = i
                      \/ \E n \in Names : \/ CreateFile(i, n) \/ CreateDir(i, n)
                                          \/ DeleteFile(i, n) \/ DeleteDir(i, n)
    OBVIOUS
  <2>1. i \in Inodes /\ ~Keeps(i) /\ ~Crash
    BY DEF IInv, TypeOK, Keeps, Crash, Running
  <2>2. ASSUME NEW d \in Parents, NEW n \in Names, CreateFile(d, n) \/ CreateDir(d, n)
        PROVE  d = i
    <3>1. d \in Inodes /\ mode = "menu"
      BY <2>2 DEF Parents, CreateFile, CreateDir
    <3>2. PICK t \in {DIR, FIL} : AddObject(d, n, t)
      BY <2>2 DEF CreateFile, CreateDir
    <3>3. PICK j \in Inodes : AddInode(j, d, n, t) /\ UNCHANGED <<mode, local>>
      BY <2>1, <3>2 DEF AddObject
    <3>4. mode' = "menu" /\ \A x \in Inodes : View(x)' = inode'[x]
      BY <3>1, <3>3 DEF View, Held
    <3>5. j # i
      BY <3>3 DEF AddInode, TakeInode, FirstFree
    <3>6. QED
      BY <2>1, <3>1, <3>3, <3>4, <3>5, AddInodeKeeps
  <2>3. ASSUME NEW d \in Parents, NEW n \in Names, DeleteFile(d, n) \/ DeleteDir(d, n)
        PROVE  d = i
    BY <2>1, <2>3, DeleteKeeps DEF Parents
  <2>4. ASSUME NEW d \in Parents, NEW n \in Names, OpenForWrite(d, n)
        PROVE  mode' = "writing" /\ cur' = i
    BY <2>1, <2>4, OpenForWriteKeeps DEF Parents, OpenForWrite
  <2>5. ASSUME NEW n \in Names, AcceptFile(n) PROVE FALSE
    <3>1. PICK j \in Inodes : /\ AddInode(j, Root, n, FIL) /\ mode' = "receiving"
                              /\ cur' = j /\ object' = EmptyNode(FIL)
      BY <2>1, <2>5 DEF AcceptFile
    <3>2. mode = "menu" /\ j # Root /\ j # i
      BY <2>5, <3>1 DEF AcceptFile, AddInode, TakeInode, FirstFree, IInv, Reserved
    <3>3. inode'[j] = EmptyNode(FIL)
      BY <3>1, <3>2, Sizes, AddInodeShape
    <3>4. \A x \in Inodes : View(x)' = inode'[x]
      BY <3>1, <3>3 DEF View, Held
    <3>5. QED
      BY <2>1, <3>1, <3>2, <3>4, Sizes, AddInodeKeeps
  <2>6. CASE \/ \E text \in Texts : FillBlock(text) \/ FinishWrite(text) \/ ReceiveBlock(text)
             \/ StoreReceived
    BY <2>1, <2>6, SessionsKeep
  <2>7. ASSUME CheckFilesystem \/ DefragStart \/ DefragSlot \/ DefragStore
        PROVE  FALSE
    BY <2>1, <2>7, ToolsKeep
  <2>8. ~EmptyPath /\ ~Stop /\ ~Start
    BY <2>1 DEF EmptyPath, Stop, Start, Running
  <2>9. QED
    BY <2>2, <2>3, <2>4, <2>5, <2>6, <2>7, <2>8 DEF Next
<1>2. QED
  BY <1>1, LayoutInvariance, PTL DEF Spec, DataChangesOnlyByItsOwn

-----------------------------------------------------------------------------
(* Files and directories *)

\* A directory has its first slot only, and names inodes; the root is one.
\* What is written or received is a file.
Kinds ==
    Running =>
        /\ View(Root).type = DIR
        /\ mode \in {"writing", "receiving"} => object.type = FIL /\ inode[cur].type = FIL
        /\ \A i \in Inodes : View(i).type = DIR =>
              /\ \A s \in Slots \ {1} : View(i).blocks[s] = NoBlock
              /\ \A k \in DOMAIN EntriesOf(i) : EntriesOf(i)[k].inode \in Inodes

\* The copy of a file that is written again has the slots behind the one in
\* turn as the file had them; that of a file received has nothing there.
TailKept ==
    /\ mode = "writing" =>
          \A s \in Slots : s > block_index => object.blocks[s] = inode[cur].blocks[s]
    /\ mode = "receiving" =>
          \A s \in Slots : s >= block_index => object.blocks[s] = NoBlock

\* The inductive invariant of this module.
DInv == TInv /\ Kinds /\ TailKept

\* A step after which inode i, if a directory, was one, with no more slots,
\* and names no more than it did, but for inodes.
SameKind(i) ==
    View(i)'.type = DIR =>
        /\ View(i).type = DIR
        /\ \A s \in Slots \ {1} : View(i).blocks[s] = NoBlock => View(i)'.blocks[s] = NoBlock
        /\ \A m \in DOMAIN EntriesOf(i)' :
              \/ EntriesOf(i)'[m].inode \in Inodes
              \/ \E l \in DOMAIN EntriesOf(i) : EntriesOf(i)'[m] = EntriesOf(i)[l]

\* Or it has just been cleared.
Cleared(i) == EntriesOf(i)' = <<>> /\ \A s \in Slots : View(i)'.blocks[s] = NoBlock

\* If every inode is of its kind still, or cleared, Kinds holds again.
LEMMA KindsKept ==
    ASSUME Running, Kinds, View(Root)'.type = DIR,
           mode' \in {"writing", "receiving"} => object'.type = FIL /\ inode'[cur'].type = FIL,
           \A i \in Inodes : SameKind(i) \/ Cleared(i)
    PROVE  Kinds'
<1>1. ASSUME NEW i \in Inodes, View(i)'.type = DIR
      PROVE  /\ \A s \in Slots \ {1} : View(i)'.blocks[s] = NoBlock
             /\ \A k \in DOMAIN EntriesOf(i)' : EntriesOf(i)'[k].inode \in Inodes
  <2>1. CASE SameKind(i)
    <3>1. /\ \A s \in Slots \ {1} : View(i).blocks[s] = NoBlock
          /\ \A k \in DOMAIN EntriesOf(i) : EntriesOf(i)[k].inode \in Inodes
      BY <1>1, <2>1 DEF Kinds, SameKind
    <3>2. QED
      BY <1>1, <2>1, <3>1 DEF SameKind
  <2>2. CASE Cleared(i)
    BY <2>2 DEF Cleared
  <2>3. QED
    BY <1>1, <2>1, <2>2
<1>2. QED
  BY <1>1 DEF Kinds

\* Making an inode and its entry keeps the kinds.
LEMMA AddInodeKinds ==
    ASSUME TInv, Kinds, mode = "menu", mode' \in {"menu", "receiving"},
           NEW d \in Inodes, d \in bitmap_inode, NEW n \in Names, NEW t \in {DIR, FIL},
           NEW i \in Inodes, AddInode(i, d, n, t),
           \A j \in Inodes : View(j)' = inode'[j],
           mode' = "receiving" => object'.type = FIL /\ inode'[cur'].type = FIL
    PROVE  Kinds'
<1>1. IInv /\ Layout /\ FreeSpaceClean /\ Running
  BY DEF TInv, Tree, Running
<1>2. \A j \in Inodes : View(j) = inode[j]
  BY <1>1, MenuLayout
<1>3. /\ FirstSlotOnly(i, d) /\ i \notin bitmap_inode /\ d # i
      /\ inode'[i] = EmptyNode(t)
  BY <1>1, AddInodeShape
<1>4. OneEntryMore(d, [inode |-> i, name |-> n])
  BY AddInodeTree
<1>5. ASSUME NEW j \in Inodes, NEW m \in DOMAIN EntriesOf(j)'
      PROVE  \/ EntriesOf(j)'[m].inode \in Inodes
             \/ \E l \in DOMAIN EntriesOf(j) : EntriesOf(j)'[m] = EntriesOf(j)[l]
  <2>1. CASE EntriesOf(j)' = EntriesOf(j)
    BY <1>5, <2>1
  <2>2. CASE EntriesOf(j)' = Append(EntriesOf(j), [inode |-> i, name |-> n])
    <3>1. EntriesOf(j) \in Seq(Dirent)
      BY <1>1, EntriesOfType
    <3>2. m \in DOMAIN EntriesOf(j) \/ m = Len(EntriesOf(j)) + 1
      BY <1>5, <2>2, <3>1
    <3>3. QED
      BY <2>2, <3>1, <3>2
  <2>3. QED
    BY <1>4, <2>1, <2>2 DEF OneEntryMore
<1>6. View(i).type = DIR
  BY <1>1, <1>3 DEF FreeSpaceClean, ClearNode, EmptyNode
<1>7. \A j \in Inodes : SameKind(j)
  <2> SUFFICES ASSUME NEW j \in Inodes PROVE SameKind(j)
    OBVIOUS
  <2>1. CASE j = i
    <3>1. \A s \in Slots : View(j)'.blocks[s] = NoBlock
      BY <1>3, <2>1, EmptyNodeType
    <3>2. QED
      BY <1>5, <1>6, <2>1, <3>1 DEF SameKind
  <2>2. CASE j # i
    <3>1. /\ View(j)'.type = View(j).type
          /\ \A s \in Slots \ {1} : View(j)'.blocks[s] = View(j).blocks[s]
      BY <1>2, <1>3, <2>2 DEF FirstSlotOnly
    <3>2. QED
      BY <1>5, <3>1 DEF SameKind
  <2>3. QED
    BY <2>1, <2>2
<1>8. View(Root)'.type = DIR
  <2>1. Root # i
    BY <1>1, <1>3 DEF IInv, Reserved
  <2>2. View(Root)'.type = View(Root).type
    BY <1>2, <1>3, <2>1, Sizes DEF FirstSlotOnly
  <2>3. QED
    BY <1>1, <2>2 DEF Kinds
<1>9. QED
  BY <1>1, <1>7, <1>8, KindsKept

\* Deleting keeps the kinds.
LEMMA RemoveEntryKinds ==
    ASSUME TInv, Kinds, NEW d \in Inodes, NEW k, NEW S, NEW B, Removes(d, k, S, B)
    PROVE  Kinds'
<1>1. IInv /\ Layout /\ Running /\ mode = "menu" /\ mode' = "menu"
  BY DEF TInv, Tree, Removes, RemoveEntry, Running
<1>2. S \in SUBSET Inodes /\ Root \notin S
  BY DEF Removes
<1>3. \A j \in Inodes : View(j)' = IF j \in S THEN ClearNode ELSE View(j)
  <2>1. OnlyCleared(d, S)
    BY <1>1, <1>2, RemoveEntryShape DEF Removes
  <2>2. QED
    BY <2>1 DEF OnlyCleared
<1>4. /\ \A j \in S : EntriesOf(j)' = <<>>
      /\ \A j \in Inodes : \A m \in DOMAIN EntriesOf(j)' :
            \E l \in DOMAIN EntriesOf(j) : EntriesOf(j)'[m] = EntriesOf(j)[l]
  BY RemoveEntryTree
<1>5. \A j \in Inodes : SameKind(j) \/ Cleared(j)
  <2> SUFFICES ASSUME NEW j \in Inodes PROVE SameKind(j) \/ Cleared(j)
    OBVIOUS
  <2>1. CASE j \in S
    BY <1>3, <1>4, <2>1, EmptyNodeType DEF Cleared
  <2>2. CASE j \notin S
    BY <1>3, <1>4, <2>2 DEF SameKind
  <2>3. QED
    BY <2>1, <2>2
<1>6. View(Root)'.type = DIR
  BY <1>1, <1>2, <1>3, Sizes DEF Kinds
<1>7. QED
  BY <1>1, <1>5, <1>6, KindsKept

\* So does taking a file in hand; and its copy is the file's but for the slot
\* in turn.
LEMMA OpenForWriteKinds ==
    ASSUME TInv, LongTexts, Kinds, NEW d \in Inodes, NEW n \in Names, OpenForWrite(d, n)
    PROVE  Kinds' /\ TailKept'
<1>1. /\ IInv /\ Layout /\ Running /\ mode = "menu" /\ mode' = "writing"
      /\ block_index' = 1 /\ UNCHANGED <<inode, block>>
  BY DEF TInv, OpenForWrite, Running
<1>2. PICK t \in Inodes :
         /\ t = cur' /\ inode[t].type = FIL /\ EntriesOf(t)' = <<>>
         /\ \A j \in Inodes \ {t} : EntriesOf(j)' = EntriesOf(j)
  BY OpenForWriteTree
<1>3. PICK b \in Blocks : object' = WithBlock(inode[t], 1, b)
  BY <1>2 DEF OpenForWrite
<1>4. /\ \A j \in Inodes \ {t} : View(j)' = View(j)
      /\ \A j \in Inodes : View(j) = inode[j]
      /\ View(t)' = object' /\ inode[t] \in Node
  BY <1>1, <1>2, MenuLayout DEF View, Held, IInv, TypeOK
<1>5. object'.type = FIL /\ \A s \in Slots \ {1} : object'.blocks[s] = inode[t].blocks[s]
  <2>1. object'.type = FIL
    BY <1>2, <1>3, <1>4 DEF WithBlock, Node
  <2>2. QED
    BY <1>3, <1>4, <2>1, WithBlockType, Sizes
<1>6. t # Root /\ View(Root)'.type = DIR
  BY <1>1, <1>2, <1>4, Sizes DEF Kinds, DIR, FIL
<1>7. inode'[t].type = FIL
  BY <1>1, <1>2
<1>8. \A j \in Inodes : SameKind(j)
  BY <1>2, <1>4, <1>5 DEF SameKind, DIR, FIL
<1>9. Kinds'
  BY <1>1, <1>2, <1>5, <1>6, <1>7, <1>8, KindsKept
<1>10. TailKept'
  BY <1>1, <1>2, <1>5, Sizes DEF TailKept
<1>11. QED
  BY <1>9, <1>10

\* And the steps of a session.
LEMMA SessionKinds ==
    ASSUME DInv, LongTexts, Running',
           \/ \E text \in Texts : FillBlock(text) \/ FinishWrite(text) \/ ReceiveBlock(text)
           \/ StoreReceived
    PROVE  Kinds' /\ TailKept' /\ OthersKept
<1>1. IInv /\ Layout /\ TInv /\ Kinds /\ TailKept
  BY DEF DInv, TInv
<1>2. /\ mode \in {"writing", "receiving"}
      /\ \/ mode' = mode /\ UNCHANGED <<inode, cur>> /\ object'.type = object.type
         \/ mode' = "menu" /\ inode' = [inode EXCEPT ![cur] = object]
      /\ \A i \in Inodes : i # cur => View(i)' = View(i)
  BY <1>1, SessionViews
<1>3. PICK c \in Inodes : c = cur /\ View(c) = object /\ View(c)'.type = object.type
  BY <1>1, SessionViews
<1>4. OthersKept
  BY <1>1, <1>2, FillBlockTree, ReceiveBlockTree, CloseFileTree
     DEF FinishWrite, StoreReceived
<1>5. Running /\ object.type = FIL /\ inode[c].type = FIL /\ c # Root
  BY <1>1, <1>2, <1>3 DEF Running, Kinds, Layout, RootBare, Held
<1>6. \A i \in Inodes : SameKind(i)
  BY <1>2, <1>3, <1>4, <1>5 DEF SameKind, OthersKept, DIR, FIL
<1>7. View(Root)'.type = DIR
  BY <1>1, <1>2, <1>3, <1>5, Sizes DEF Kinds
<1>8. mode' \in {"writing", "receiving"} => object'.type = FIL /\ inode'[cur'].type = FIL
  BY <1>2, <1>3, <1>5
<1>9. Kinds'
  BY <1>1, <1>5, <1>6, <1>7, <1>8, KindsKept
<1>10. ASSUME mode' = "writing", NEW s \in Slots, s > block_index'
       PROVE  object'.blocks[s] = inode'[cur'].blocks[s]
  <2>1. mode = "writing" /\ UNCHANGED <<inode, cur>>
    BY <1>2, <1>10
  <2>2. PICK b \in Blocks : /\ block_index < MAX_BLOCK_COUNT
                            /\ object' = WithBlock(object, block_index + 1, b)
                            /\ block_index' = block_index + 1
    BY <1>10, <2>1 DEF FillBlock, FinishWrite, ReceiveBlock, StoreReceived, CloseFile, Crash
  <2>3. block_index \in Slots /\ block_index + 1 \in Slots /\ s # block_index + 1 /\ s > block_index
    BY <1>1, <1>10, <2>1, <2>2, Sizes, SizesAssumption DEF IInv, Session, Slots
  <2>4. object'.blocks[s] = object.blocks[s]
    BY <1>1, <2>2, <2>3, WithBlockType DEF IInv, TypeOK
  <2>5. QED
    BY <1>1, <2>1, <2>3, <2>4 DEF TailKept
<1>11. ASSUME mode' = "receiving", NEW s \in Slots, s >= block_index'
       PROVE  object'.blocks[s] = NoBlock
  <2>1. mode = "receiving"
    BY <1>2, <1>11
  <2>2. PICK b \in Blocks : /\ block_index <= MAX_BLOCK_COUNT
                            /\ object' = WithBlock(object, block_index, b)
                            /\ block_index' = block_index + 1
    BY <1>11, <2>1 DEF FillBlock, FinishWrite, ReceiveBlock, StoreReceived, CloseFile, Crash
  <2>3. block_index \in Slots /\ s # block_index /\ s >= block_index
    BY <1>1, <1>11, <2>1, <2>2, Sizes, SizesAssumption DEF IInv, TypeOK, Slots
  <2>4. object'.blocks[s] = object.blocks[s]
    BY <1>1, <2>2, <2>3, WithBlockType DEF IInv, TypeOK
  <2>5. QED
    BY <1>1, <2>1, <2>3, <2>4 DEF TailKept
<1>12. TailKept'
  BY <1>10, <1>11 DEF TailKept
<1>13. QED
  BY <1>4, <1>9, <1>12

\* And the tools.
LEMMA ToolsKinds ==
    ASSUME DInv, CheckFilesystem \/ DefragStart \/ DefragSlot \/ DefragStore
    PROVE  Kinds' /\ TailKept'
<1>1. IInv /\ Layout /\ TInv /\ Kinds
  BY DEF DInv, TInv
<1>2. Running /\ mode' \notin {"writing", "receiving"}
  BY DEF Running, CheckFilesystem, DefragStart, DefragSlot, DefragStore
<1>3. \A i \in Inodes : /\ Keeps(i) /\ EntriesOf(i)' = EntriesOf(i)
                        /\ \A s \in Slots : View(i)'.blocks[s] = NoBlock <=> View(i).blocks[s] = NoBlock
  BY <1>1, ToolsKeep, ToolsTree, DefragSlotTree, DefragStoreTree
<1>4. \A i \in Inodes : SameKind(i)
  BY <1>3 DEF SameKind, Keeps
<1>5. View(Root)'.type = DIR
  BY <1>1, <1>2, <1>3, Sizes DEF Kinds, Keeps
<1>6. QED
  BY <1>1, <1>2, <1>4, <1>5, KindsKept DEF TailKept

\* And accepting a file.
LEMMA AcceptFileKinds ==
    ASSUME DInv, NEW n \in Names, AcceptFile(n), Running'
    PROVE  /\ Kinds' /\ TailKept'
           /\ mode = "menu" /\ mode' = "receiving"
           /\ \E i \in Inodes : /\ AddInode(i, Root, n, FIL) /\ cur' = i /\ i # Root
                                /\ \A j \in Inodes : View(j)' = inode'[j]
<1>1. PICK i \in Inodes : /\ AddInode(i, Root, n, FIL) /\ mode' = "receiving"
                          /\ cur' = i /\ object' = EmptyNode(FIL)
  BY DEF AcceptFile, Crash, Running
<1>2. TInv /\ IInv /\ Layout /\ mode = "menu" /\ Kinds /\ Root \in bitmap_inode
  BY DEF DInv, TInv, AcceptFile, IInv, Reserved
<1>3. i # Root
  BY <1>1, <1>2 DEF AddInode, TakeInode, FirstFree
<1>4. inode'[i] = EmptyNode(FIL)
  BY <1>1, <1>2, <1>3, Sizes, AddInodeShape
<1>5. \A j \in Inodes : View(j)' = inode'[j]
  BY <1>1, <1>4 DEF View, Held
<1>6. object'.type = FIL /\ inode'[cur'].type = FIL
  BY <1>1, <1>4 DEF EmptyNode
<1>7. Kinds'
  BY <1>1, <1>2, <1>5, <1>6, Sizes, AddInodeKinds
<1>8. TailKept'
  BY <1>1, EmptyNodeType DEF TailKept
<1>9. QED
  BY <1>1, <1>2, <1>3, <1>5, <1>7, <1>8

\* A formatted disk has one kind of inode.
LEMMA BareKinds ==
    /\ Init => Kinds /\ TailKept
    /\ Start => Kinds' /\ TailKept'
<1>1. ClearNode.type = DIR /\ \A s \in Slots : ClearNode.blocks[s] = NoBlock
  BY EmptyNodeType DEF ClearNode, EmptyNode
<1>2. ASSUME Init PROVE Kinds /\ TailKept
  <2>1. InitDisk /\ mode = "menu"
    BY <1>2 DEF Init
  <2>2. \A i \in Inodes : View(i) = ClearNode
    BY <2>1 DEF View, Held, InitDisk, ClearNode
  <2>3. \A i \in Inodes : EntriesOf(i) = <<>>
    BY <1>1, <2>1, <2>2, Sizes DEF EntriesOf, InitDisk, NoBlock
  <2>4. QED
    BY <1>1, <2>1, <2>2, <2>3, Sizes DEF Kinds, TailKept
<1>3. ASSUME Start PROVE Kinds' /\ TailKept'
  <2>1. /\ mode' = "menu" /\ inode' = [i \in Inodes |-> EmptyNode(DIR)]
        /\ block' = [b \in Blocks |-> <<>>]
    BY <1>3 DEF Start
  <2>2. \A i \in Inodes : View(i)' = ClearNode
    BY <2>1 DEF View, Held, ClearNode
  <2>3. \A i \in Inodes : EntriesOf(i)' = <<>>
    BY <1>1, <2>1, <2>2, Sizes DEF EntriesOf, NoBlock
  <2>4. QED
    BY <1>1, <2>1, <2>2, <2>3, Sizes DEF Kinds, TailKept
<1>4. QED
  BY <1>2, <1>3

\* Every step keeps the kinds.
LEMMA NextKinds == LongTexts /\ DInv /\ [Next]_vars => Kinds' /\ TailKept'
<1> SUFFICES ASSUME LongTexts, DInv, [Next]_vars PROVE Kinds' /\ TailKept'
  OBVIOUS
<1>1. TInv /\ IInv /\ Layout /\ Kinds /\ TailKept
  BY DEF DInv, TInv
<1>2. CASE ~Running'
  BY <1>2 DEF Kinds, TailKept, Running
<1>3. CASE Running'
  <2>1. ~Crash
    BY <1>3 DEF Crash, Running
  <2>2. ASSUME NEW d \in Parents, NEW n \in Names, CreateFile(d, n) \/ CreateDir(d, n)
        PROVE  Kinds' /\ TailKept'
    <3>1. mode = "menu" /\ d \in Inodes /\ d \in bitmap_inode
      BY <1>1, <2>2, ParentsLive DEF CreateFile, CreateDir
    <3>2. PICK t \in {DIR, FIL} : AddObject(d, n, t)
      BY <2>2 DEF CreateFile, CreateDir
    <3>3. PICK i \in Inodes : AddInode(i, d, n, t) /\ mode' = "menu"
      BY <2>1, <3>1, <3>2 DEF AddObject
    <3>4. \A j \in Inodes : View(j)' = inode'[j]
      BY <3>3 DEF View, Held
    <3>5. Kinds'
      BY <1>1, <3>1, <3>3, <3>4, AddInodeKinds
    <3>6. QED
      BY <3>3, <3>5 DEF TailKept
  <2>3. ASSUME NEW d \in Parents, NEW n \in Names, DeleteFile(d, n) \/ DeleteDir(d, n)
        PROVE  Kinds' /\ TailKept'
    <3>1. d \in Inodes
      BY DEF Parents
    <3>2. PICK k, S, B : Removes(d, k, S, B)
      BY <1>1, <2>1, <2>3, <3>1, DeleteFileRemoves, DeleteDirRemoves
    <3>3. mode' = "menu"
      BY <3>2 DEF Removes, RemoveEntry
    <3>4. QED
      BY <1>1, <3>1, <3>2, <3>3, RemoveEntryKinds DEF TailKept
  <2>4. ASSUME NEW d \in Parents, NEW n \in Names, OpenForWrite(d, n)
        PROVE  Kinds' /\ TailKept'
    BY <1>1, <2>4, OpenForWriteKinds DEF Parents
  <2>5. ASSUME NEW n \in Names, AcceptFile(n) PROVE Kinds' /\ TailKept'
    BY <1>3, <2>5, AcceptFileKinds
  <2>6. CASE \/ \E text \in Texts : FillBlock(text) \/ FinishWrite(text) \/ ReceiveBlock(text)
             \/ StoreReceived
    BY <1>3, <2>6, SessionKinds
  <2>7. CASE CheckFilesystem \/ DefragStart \/ DefragSlot \/ DefragStore
    BY <2>7, ToolsKinds
  <2>8. CASE Start
    BY <2>8, BareKinds
  <2>9. CASE UNCHANGED vars
    <3>1. UNCHANGED <<inode, block, mode, cur, object, block_index>>
      BY <2>9 DEF vars, disk, local
    <3>2. /\ Running' <=> Running
          /\ \A i \in Inodes : View(i)' = View(i) /\ EntriesOf(i)' = EntriesOf(i)
      BY <3>1 DEF Running, View, Held, EntriesOf
    <3>3. QED
      BY <1>1, <3>1, <3>2, Sizes DEF Kinds, TailKept
  <2>10. ~EmptyPath /\ ~Stop
    BY <1>3 DEF EmptyPath, Crash, Stop, Running
  <2>11. QED
    BY <2>2, <2>3, <2>4, <2>5, <2>6, <2>7, <2>8, <2>9, <2>10 DEF Next
<1>4. QED
  BY <1>2, <1>3

\* Where no text is read as an inode of the table, files stay files and
\* directories directories.
THEOREM KindsInvariance ==
    ASSUME LongTexts
    PROVE  Spec => []DInv
<1>1. Init => DInv
  BY InitIInv, InitLayout, InitTree, BareKinds DEF TInv, DInv
<1>2. DInv /\ [Next]_vars => DInv'
  BY NextIInv, NextLayout, NextTree, NextKinds DEF TInv, DInv
<1>3. QED
  BY <1>1, <1>2, PTL DEF Spec

-----------------------------------------------------------------------------
(* Names and blocks that are lost *)

\* Adding an entry takes none away.
LEMMA OneMoreKeeps ==
    ASSUME IInv, NEW d, NEW entry, OneEntryMore(d, entry)
    PROVE  \A j \in Inodes : KeepsNames(j)
<1> SUFFICES ASSUME NEW j \in Inodes, NEW k \in DOMAIN EntriesOf(j)
             PROVE  \E m \in DOMAIN EntriesOf(j)' : EntriesOf(j)'[m] = EntriesOf(j)[k]
  BY DEF KeepsNames
<1>1. CASE EntriesOf(j)' = EntriesOf(j)
  BY <1>1
<1>2. CASE EntriesOf(j)' = Append(EntriesOf(j), entry)
  <2>1. ASSUME NEW s \in Seq(Dirent), NEW t, t = Append(s, entry), NEW l \in DOMAIN s
        PROVE  l \in DOMAIN t /\ t[l] = s[l]
    BY <2>1
  <2>2. EntriesOf(j) \in Seq(Dirent)
    BY EntriesOfType
  <2>3. k \in DOMAIN EntriesOf(j)' /\ EntriesOf(j)'[k] = EntriesOf(j)[k]
    BY <1>2, <2>1, <2>2
  <2>4. QED
    BY <2>3
<1>3. QED
  BY <1>1, <1>2 DEF OneEntryMore

\* Deleting as a directory takes away no entry of an inode that stays, but for
\* those of a file.
LEMMA DoomedNames ==
    ASSUME DInv, mode = "menu", NEW t \in Inodes, NEW d \in Doomed(t), d # Root,
           NEW k \in DOMAIN EntriesOf(d), EntriesOf(d)[k].inode \in Inodes \ Doomed(t)
    PROVE  inode[d].type = FIL
<1>1. View(d) = inode[d] /\ d \in Inodes /\ inode[d] \in Node
  BY MenuLayout DEF DInv, TInv, Doomed, IInv, TypeOK
<1>2. inode[d].blocks[1] # NoBlock
  BY <1>1 DEF EntriesOf
<1>3. ~ReadAsDir(d, t)
  <2> SUFFICES ASSUME ReadAsDir(d, t) PROVE FALSE
    OBVIOUS
  <2>1. Children(d) \cap Inodes \subseteq Doomed(t)
    BY DoomedClosed
  <2>2. EntriesOf(d)[k].inode \in Children(d)
    BY ReadEntries
  <2>3. QED
    BY <2>1, <2>2
<1>4. QED
  BY <1>1, <1>2, <1>3 DEF ReadAsDir, Node

\* An inode in use loses its name only with a directory that is deleted as a
\* file, or with a file that was used as a directory.
THEOREM OrphansKnown ==
    ASSUME LongTexts
    PROVE  Spec => OrphansOnlyByDeleteFile
<1>1. DInv /\ [Next]_vars =>
        [Running /\ Running' =>
          \A i \in (bitmap_inode \cap bitmap_inode') \ {Root}, d \in Inodes :
             ~Named(i)' /\ i \in {EntriesOf(d)[k].inode : k \in Links(d)} =>
                \/ inode[d].type = FIL
                \/ /\ d \notin bitmap_inode'
                   /\ \E p \in Parents, n \in Names : DeleteFile(p, n)]_vars
  <2> SUFFICES ASSUME DInv, Next, Running, Running',
                      NEW i \in bitmap_inode \cap bitmap_inode', NEW d \in Inodes, ~Named(i)',
                      NEW k \in Links(d), i = EntriesOf(d)[k].inode,
                      inode[d].type # FIL
               PROVE  /\ d \notin bitmap_inode'
                      /\ \E p \in Parents, n \in Names : DeleteFile(p, n)
    OBVIOUS
  <2>1. TInv /\ IInv /\ Layout /\ Kinds /\ i \in Inodes /\ ~Crash
    BY DEF DInv, TInv, IInv, TypeOK, Crash, Running
  <2>2. \A m \in DOMAIN EntriesOf(d)' : EntriesOf(d)'[m] # EntriesOf(d)[k]
    BY DEF Named, Links
  <2>3. ~KeepsNames(d) /\ EntriesOf(d)' # EntriesOf(d) /\ k \in DOMAIN EntriesOf(d)
    BY <2>2 DEF KeepsNames, Links
  <2>4. ASSUME NEW p \in Parents, NEW n \in Names, CreateFile(p, n) \/ CreateDir(p, n)
        PROVE  FALSE
    <3>1. mode = "menu" /\ p \in Inodes /\ p \in bitmap_inode
      BY <2>1, <2>4, ParentsLive DEF CreateFile, CreateDir
    <3>2. PICK t \in {DIR, FIL} : AddObject(p, n, t)
      BY <2>4 DEF CreateFile, CreateDir
    <3>3. PICK j \in Inodes : AddInode(j, p, n, t) /\ mode' = "menu"
      BY <2>1, <3>1, <3>2 DEF AddObject
    <3>4. \A x \in Inodes : View(x)' = inode'[x]
      BY <3>3 DEF View, Held
    <3>5. OneEntryMore(p, [inode |-> j, name |-> n])
      BY <2>1, <3>1, <3>3, <3>4, AddInodeTree
    <3>6. QED
      BY <2>1, <2>3, <3>5, OneMoreKeeps
  <2>5. ASSUME NEW n \in Names, AcceptFile(n) PROVE FALSE
    <3>1. /\ mode = "menu" /\ mode' = "receiving"
          /\ \E j \in Inodes : /\ AddInode(j, Root, n, FIL)
                               /\ \A x \in Inodes : View(x)' = inode'[x]
      BY <2>5, AcceptFileKinds
    <3>2. PICK j \in Inodes : /\ AddInode(j, Root, n, FIL)
                              /\ \A x \in Inodes : View(x)' = inode'[x]
      BY <3>1
    <3>3. OneEntryMore(Root, [inode |-> j, name |-> n])
      BY <2>1, <3>1, <3>2, Sizes, AddInodeTree DEF IInv, Reserved
    <3>4. QED
      BY <2>1, <2>3, <3>3, OneMoreKeeps
  <2>6. ASSUME NEW p \in Inodes, NEW l, NEW S, NEW B, Removes(p, l, S, B)
        PROVE  d \in S /\ i \notin S /\ S \cap bitmap_inode' = {}
    <3>1. S \cap bitmap_inode' = {} /\ i \notin S
      BY <2>6 DEF Removes, RemoveEntry
    <3>2. CASE d \notin S
      <4>1. \A j \in Inodes \ S : \A m \in DOMAIN EntriesOf(j) :
               \/ EntriesOf(j)[m].inode \in S
               \/ \E q \in DOMAIN EntriesOf(j)' : EntriesOf(j)'[q] = EntriesOf(j)[m]
        BY <2>1, <2>6, RemoveEntryTree
      <4>2. QED
        BY <2>2, <2>3, <3>1, <3>2, <4>1
    <3>3. QED
      BY <3>1, <3>2
  <2>7. ASSUME NEW p \in Parents, NEW n \in Names, DeleteFile(p, n)
        PROVE  d \notin bitmap_inode'
    <3>1. p \in Inodes
      BY DEF Parents
    <3>2. PICK l, S, B : Removes(p, l, S, B)
      BY <2>1, <2>7, <3>1, DeleteFileRemoves
    <3>3. QED
      BY <2>6, <3>1, <3>2
  <2>8. ASSUME NEW p \in Parents, NEW n \in Names, DeleteDir(p, n)
        PROVE  FALSE
    <3>1. p \in Inodes /\ mode = "menu"
      BY <2>8 DEF Parents, DeleteDir
    <3>2. PICK l \in DOMAIN Entries(p), t \in Inodes : Removes(p, l, Doomed(t), DoomedBlocks(t))
      BY <2>1, <2>8, <3>1, DeleteDirRemoves
    <3>3. d \in Doomed(t) /\ i \notin Doomed(t)
      BY <2>6, <3>1, <3>2
    <3>4. d # Root
      BY <3>2, <3>3 DEF Removes
    <3>5. QED
      BY <2>1, <2>3, <3>1, <3>3, <3>4, DoomedNames
  <2>9. ASSUME NEW p \in Parents, NEW n \in Names, OpenForWrite(p, n) PROVE FALSE
    <3>1. p \in Inodes
      BY DEF Parents
    <3>2. \E t \in bitmap_inode : /\ inode[t].type = FIL
                                  /\ \A j \in Inodes \ {t} : EntriesOf(j)' = EntriesOf(j)
      BY <2>1, <2>9, <3>1, OpenForWriteTree
    <3>3. QED
      BY <2>3, <3>2
  <2>10. ASSUME \/ \E text \in Texts : FillBlock(text) \/ FinishWrite(text) \/ ReceiveBlock(text)
                \/ StoreReceived
         PROVE  FALSE
    <3>1. mode \in {"writing", "receiving"} /\ OthersKept
      BY <2>1, <2>10, SessionKinds, SessionViews
    <3>2. d = cur
      BY <2>3, <3>1 DEF OthersKept
    <3>3. QED
      BY <2>1, <3>1, <3>2 DEF Kinds
  <2>11. ASSUME CheckFilesystem \/ DefragStart \/ DefragSlot \/ DefragStore PROVE FALSE
    BY <2>1, <2>3, <2>11, ToolsTree, DefragSlotTree, DefragStoreTree
  <2>12. ~EmptyPath /\ ~Stop /\ ~Start
    BY <2>1 DEF EmptyPath, Stop, Start, Running
  <2>13. QED
    BY <2>4, <2>5, <2>7, <2>8, <2>9, <2>10, <2>11, <2>12 DEF Next
<1>2. QED
  BY <1>1, KindsInvariance, PTL DEF Spec, OrphansOnlyByDeleteFile

\* No block is lost where used slots keep their blocks.
LEMMA OwnedKept ==
    ASSUME \A i \in Inodes : \A s \in Slots :
              View(i).blocks[s] # NoBlock => View(i)'.blocks[s] = View(i).blocks[s]
    PROVE  Owned \ Owned' = {}
  BY DEF Owned

\* Making an inode and its entry loses none: the inode had none.
LEMMA AddInodeOwned ==
    ASSUME IInv, Layout, FreeSpaceClean, mode = "menu", mode' \in {"menu", "receiving"},
           NEW d \in Inodes, NEW n, NEW t \in {DIR, FIL}, NEW i \in Inodes,
           AddInode(i, d, n, t),
           \A j \in Inodes : View(j)' = inode'[j]
    PROVE  Owned \ Owned' = {}
<1> SUFFICES ASSUME NEW j \in Inodes, NEW s \in Slots, View(j).blocks[s] # NoBlock
             PROVE  View(j)'.blocks[s] = View(j).blocks[s]
  BY OwnedKept
<1>1. View(j) = inode[j] /\ View(j)' = inode'[j]
  BY MenuLayout
<1>2. /\ i \notin bitmap_inode /\ FirstSlotOnly(i, d)
      /\ d # i /\ inode[d].blocks[1] # NoBlock => inode'[d].blocks[1] = inode[d].blocks[1]
  BY AddInodeShape
<1>3. i # j
  BY <1>2, EmptyNodeType DEF FreeSpaceClean, Running
<1>4. QED
  BY <1>1, <1>2, <1>3 DEF FirstSlotOnly

\* What a deletion takes away and does not free would be behind a gap, or in a
\* directory behind the first slot, or in a file deleted as a directory.
LEMMA DeletedOwned ==
    ASSUME DInv, mode = "menu", NEW t \in Inodes, NEW i \in Inodes, NEW s \in Slots,
           inode[i].blocks[s] # NoBlock
    PROVE  /\ inode[i].blocks[s] \in NodeBlocks(inode[i])
           /\ i \in Doomed(t) /\ inode[t].type # FIL =>
                 inode[i].blocks[s] \in DoomedBlocks(t)
<1>1. /\ View(i) = inode[i] /\ Packed(inode[i]) /\ inode[i] \in Node
      /\ Kinds /\ Running
  BY MenuLayout DEF DInv, TInv, IInv, TypeOK, Running
<1>2. inode[i].blocks[s] \in NodeBlocks(inode[i])
  <2>1. s \in UsedSlots(inode[i])
    BY <1>1, PackedUsed
  <2>2. QED
    BY <2>1 DEF UsedSlots, NodeBlocks
<1>3. ASSUME i \in Doomed(t), inode[t].type # FIL
      PROVE  inode[i].blocks[s] \in DoomedBlocks(t)
  <2>1. CASE inode[i].type = FIL
    <3>1. PICK p \in Doomed(t) : ReadAsDir(p, t) /\ i \in Children(p)
      BY <1>3, <2>1, DoomedNamed
    <3>2. i \in Listed(t)
      BY <3>1 DEF Listed
    <3>3. QED
      BY <1>2, <1>3, <2>1, <3>2 DEF DoomedBlocks
  <2>2. CASE inode[i].type # FIL
    <3>1. s = 1
      BY <1>1, <2>2 DEF Kinds, Node
    <3>2. QED
      BY <1>3, <2>2, <3>1 DEF DoomedBlocks
  <2>3. QED
    BY <2>1, <2>2
<1>4. QED
  BY <1>2, <1>3

\* Removing an entry with its inodes takes away blocks of theirs.
LEMMA RemoveEntryOwned ==
    ASSUME DInv, NEW d \in Inodes, NEW k, NEW S, NEW B, Removes(d, k, S, B),
           \A i \in S : \A s \in Slots :
              inode[i].blocks[s] # NoBlock => inode[i].blocks[s] \in B
    PROVE  (Owned \ Owned') \cap Marked' = {}
<1>1. IInv /\ Layout /\ mode = "menu" /\ S \in SUBSET Inodes
  BY DEF DInv, TInv, Removes
<1>2. /\ \A j \in Inodes : View(j)' = IF j \in S THEN ClearNode ELSE View(j)
      /\ \A j \in Inodes : View(j) = inode[j]
  <2>1. OnlyCleared(d, S)
    BY <1>1, RemoveEntryShape DEF Removes
  <2>2. QED
    BY <1>1, <2>1, MenuLayout DEF OnlyCleared
<1>3. Marked' \cap B = {}
  BY DEF Marked, Removes, RemoveEntry
<1>4. Owned \ Owned' \subseteq B
  BY <1>2 DEF Owned
<1>5. QED
  BY <1>3, <1>4

\* A new block in a slot takes the place of the one that was there.
LEMMA ReplacedOwned ==
    ASSUME IInv, Running, NEW c \in Inodes, NEW s \in Slots,
           \A j \in Inodes : \A r \in Slots : j # c \/ r # s =>
              View(j)'.blocks[r] = View(j).blocks[r],
           \A j \in Inodes : \A r \in Slots : View(j).blocks[r] # View(c)'.blocks[s]
    PROVE  Owned \ Owned' = {View(c).blocks[s]} \ {NoBlock}
<1>1. \A x \in Owned \ Owned' : x \in {View(c).blocks[s]} \ {NoBlock}
  BY DEF Owned
<1>2. ASSUME View(c).blocks[s] # NoBlock PROVE View(c).blocks[s] \in Owned \ Owned'
  <2>1. \A j \in Inodes : \A r \in Slots : View(j)'.blocks[r] # View(c).blocks[s]
    BY <1>2 DEF IInv, NoSharedBlock
  <2>2. QED
    BY <1>2, <2>1 DEF Owned
<1>3. QED
  BY <1>1, <1>2

\* A block is lost only where a file is written again, which forgets the block
\* of the slot in turn, or where a file is deleted as a directory.
THEOREM BlocksLostKnown ==
    ASSUME LongTexts
    PROVE  Spec => BlocksLostOnlyByRewriting
<1>1. DInv /\ [Next]_vars =>
        [Running /\ Running' /\ (Owned \ Owned') \cap Marked' # {} =>
          \/ mode' = "writing" /\ Owned \ Owned' = {inode[cur'].blocks[block_index']}
          \/ \E d \in Parents, n \in Names :
                /\ DeleteDir(d, n)
                /\ \E k \in DOMAIN Entries(d) :
                      /\ FirstMatch(Entries(d), n, k)
                      /\ inode[Entries(d)[k].inode].type = FIL]_vars
  <2> SUFFICES ASSUME DInv, Next, Running, Running', (Owned \ Owned') \cap Marked' # {}
               PROVE  \/ mode' = "writing" /\ Owned \ Owned' = {inode[cur'].blocks[block_index']}
                      \/ \E d \in Parents, n \in Names :
                            /\ DeleteDir(d, n)
                            /\ \E k \in DOMAIN Entries(d) :
                                  /\ FirstMatch(Entries(d), n, k)
                                  /\ inode[Entries(d)[k].inode].type = FIL
    OBVIOUS
  <2>1. TInv /\ IInv /\ Layout /\ FreeSpaceClean /\ Kinds /\ TailKept /\ ~Crash
    BY DEF DInv, TInv, Tree, Crash, Running
  <2>2. ASSUME NEW d \in Parents, NEW n \in Names, CreateFile(d, n) \/ CreateDir(d, n)
        PROVE  FALSE
    <3>1. mode = "menu" /\ d \in Inodes
      BY <2>2 DEF CreateFile, CreateDir, Parents
    <3>2. PICK t \in {DIR, FIL} : AddObject(d, n, t)
      BY <2>2 DEF CreateFile, CreateDir
    <3>3. PICK i \in Inodes : AddInode(i, d, n, t) /\ mode' = "menu"
      BY <2>1, <3>1, <3>2 DEF AddObject
    <3>4. \A x \in Inodes : View(x)' = inode'[x]
      BY <3>3 DEF View, Held
    <3>5. QED
      BY <2>1, <3>1, <3>3, <3>4, AddInodeOwned
  <2>3. ASSUME NEW n \in Names, AcceptFile(n) PROVE FALSE
    <3>1. /\ mode = "menu" /\ mode' = "receiving"
          /\ \E i \in Inodes : /\ AddInode(i, Root, n, FIL)
                               /\ \A x \in Inodes : View(x)' = inode'[x]
      BY <2>3, AcceptFileKinds
    <3>2. PICK i \in Inodes : /\ AddInode(i, Root, n, FIL)
                              /\ \A x \in Inodes : View(x)' = inode'[x]
      BY <3>1
    <3>3. QED
      BY <2>1, <3>1, <3>2, Sizes, AddInodeOwned
  <2>4. ASSUME NEW d \in Parents, NEW n \in Names, DeleteFile(d, n) PROVE FALSE
    <3>1. d \in Inodes /\ mode = "menu"
      BY <2>4 DEF Parents, DeleteFile
    <3>2. PICK k \in DOMAIN Entries(d), t \in Inodes : Removes(d, k, {t}, NodeBlocks(inode[t]))
      BY <2>1, <2>4, <3>1, DeleteFileRemoves
    <3>3. \A s \in Slots : inode[t].blocks[s] # NoBlock =>
             inode[t].blocks[s] \in NodeBlocks(inode[t])
      BY <3>1, DeletedOwned
    <3>4. PICK S : S = {t}
      OBVIOUS
    <3>5. QED
      BY <3>1, <3>2, <3>3, <3>4, RemoveEntryOwned
  <2>5. ASSUME NEW d \in Parents, NEW n \in Names, DeleteDir(d, n)
        PROVE  \E k \in DOMAIN Entries(d) :
                  /\ FirstMatch(Entries(d), n, k)
                  /\ inode[Entries(d)[k].inode].type = FIL
    <3>1. d \in Inodes /\ mode = "menu"
      BY <2>5 DEF Parents, DeleteDir
    <3>2. PICK k \in DOMAIN Entries(d), t \in Inodes :
             /\ FirstMatch(Entries(d), n, k) /\ t = Entries(d)[k].inode
             /\ Removes(d, k, Doomed(t), DoomedBlocks(t))
      BY <2>1, <2>5, <3>1, DeleteDirRemoves
    <3>3. inode[t].type = FIL
      <4> SUFFICES ASSUME inode[t].type # FIL PROVE FALSE
        OBVIOUS
      <4>1. Doomed(t) \in SUBSET Inodes
        BY DEF Doomed
      <4>2. \A i \in Doomed(t) : \A s \in Slots :
               inode[i].blocks[s] # NoBlock => inode[i].blocks[s] \in DoomedBlocks(t)
        BY <3>1, <4>1, DeletedOwned
      <4>3. QED
        BY <3>1, <3>2, <4>2, RemoveEntryOwned
    <3>4. QED
      BY <3>2, <3>3
  <2>6. ASSUME NEW d \in Parents, NEW n \in Names, OpenForWrite(d, n)
        PROVE  mode' = "writing" /\ Owned \ Owned' = {inode[cur'].blocks[block_index']}
    <3>1. /\ d \in Inodes /\ mode = "menu" /\ mode' = "writing" /\ block_index' = 1
          /\ UNCHANGED inode
      BY <2>6 DEF Parents, OpenForWrite
    <3>2. PICK t \in Inodes, b \in Blocks :
             t = cur' /\ TakeBlock(b) /\ object' = WithBlock(inode[t], 1, b)
      BY <2>6 DEF OpenForWrite
    <3>3. /\ \A j \in Inodes : View(j) = inode[j]
          /\ \A j \in Inodes \ {t} : View(j)' = inode[j]
          /\ View(t)' = object' /\ inode[t] \in Node
      BY <2>1, <3>1, <3>2, MenuLayout DEF View, Held, IInv, TypeOK
    <3>4. /\ View(t)'.blocks[1] = b
          /\ \A r \in Slots \ {1} : View(t)'.blocks[r] = inode[t].blocks[r]
      BY <3>2, <3>3, Sizes, WithBlockType
    <3>5. \A j \in Inodes : \A r \in Slots : View(j).blocks[r] # b
      BY <2>1, <3>1, <3>2, FreshBlock DEF TakeBlock
    <3>6. Owned \ Owned' = {View(t).blocks[1]} \ {NoBlock}
      <4>1. \A j \in Inodes : \A r \in Slots : j # t \/ r # 1 =>
               View(j)'.blocks[r] = View(j).blocks[r]
        BY <3>3, <3>4
      <4>2. \A j \in Inodes : \A r \in Slots : View(j).blocks[r] # View(t)'.blocks[1]
        BY <3>4, <3>5
      <4>3. QED
        BY <2>1, <4>1, <4>2, Sizes, ReplacedOwned
    <3>7. Owned \ Owned' = {inode[t].blocks[1]}
      BY <3>3, <3>6
    <3>8. QED
      BY <3>1, <3>2, <3>7
  <2>7. ASSUME NEW text \in Texts, FillBlock(text), ~CloseFile
        PROVE  mode' = "writing" /\ Owned \ Owned' = {inode[cur'].blocks[block_index']}
    <3>1. PICK b \in Blocks : /\ block_index < MAX_BLOCK_COUNT /\ TakeBlock(b)
                              /\ object' = WithBlock(object, block_index + 1, b)
                              /\ block_index' = block_index + 1
                              /\ UNCHANGED <<inode, mode, cur>>
      BY <2>1, <2>7 DEF FillBlock
    <3>2. PICK s \in Slots : s = block_index + 1 /\ s > block_index /\ s = block_index'
      <4>1. block_index \in Slots
        BY <2>1, <2>7 DEF FillBlock, IInv, Session
      <4>2. QED
        BY <3>1, <4>1, SizesAssumption DEF Slots
    <3>3. PICK c \in Inodes : c = cur /\ c = cur'
      BY <2>1, <3>1 DEF IInv, TypeOK
    <3>4. /\ mode = "writing" /\ View(c) = object /\ View(c)' = object' /\ object \in Node
          /\ \A j \in Inodes \ {c} : View(j)' = View(j)
      BY <2>1, <2>7, <3>1, <3>3 DEF FillBlock, View, Held, IInv, TypeOK
    <3>5. /\ View(c)'.blocks[s] = b
          /\ \A r \in Slots \ {s} : View(c)'.blocks[r] = View(c).blocks[r]
      BY <3>1, <3>2, <3>4, WithBlockType
    <3>6. \A j \in Inodes : \A r \in Slots : View(j).blocks[r] # b
      BY <2>1, <3>1, <3>4, FreshBlock DEF TakeBlock
    <3>7. Owned \ Owned' = {View(c).blocks[s]} \ {NoBlock}
      <4>1. \A j \in Inodes : \A r \in Slots : j # c \/ r # s =>
               View(j)'.blocks[r] = View(j).blocks[r]
        BY <3>4, <3>5
      <4>2. \A j \in Inodes : \A r \in Slots : View(j).blocks[r] # View(c)'.blocks[s]
        BY <3>5, <3>6
      <4>3. QED
        BY <2>1, <4>1, <4>2, ReplacedOwned
    <3>8. View(c).blocks[s] = inode[c].blocks[s]
      BY <2>1, <3>2, <3>3, <3>4 DEF TailKept
    <3>9. Owned \ Owned' = {inode[c].blocks[s]}
      BY <3>7, <3>8
    <3>10. QED
      BY <3>1, <3>2, <3>3, <3>4, <3>9
  <2>8. ASSUME CloseFile, mode \in {"writing", "receiving"} PROVE FALSE
    <3>1. \A j \in Inodes : View(j)' = View(j)
      BY <2>1, <2>8 DEF CloseFile, View, Held, IInv, TypeOK
    <3>2. QED
      BY <3>1, OwnedKept
  <2>9. ASSUME NEW text \in Texts, ReceiveBlock(text) PROVE FALSE
    <3>1. PICK b \in Blocks : /\ block_index <= MAX_BLOCK_COUNT
                              /\ object' = WithBlock(object, block_index, b)
                              /\ UNCHANGED <<inode, mode, cur>>
      BY <2>1, <2>9 DEF ReceiveBlock
    <3>2. block_index \in Slots /\ mode = "receiving"
      BY <2>1, <2>9, <3>1, SizesAssumption DEF ReceiveBlock, IInv, TypeOK, Slots
    <3>3. object.blocks[block_index] = NoBlock
      BY <2>1, <3>2, Sizes DEF TailKept
    <3>4. \A r \in Slots \ {block_index} : object'.blocks[r] = object.blocks[r]
      BY <2>1, <3>1, <3>2, WithBlockType DEF IInv, TypeOK
    <3>5. \A j \in Inodes : View(j)' = IF j = cur THEN object' ELSE View(j)
      BY <3>1, <3>2 DEF View, Held
    <3>6. \A j \in Inodes : j = cur => View(j) = object
      BY <3>2 DEF View, Held
    <3>7. QED
      BY <3>3, <3>4, <3>5, <3>6, OwnedKept
  <2>10. ASSUME CheckFilesystem \/ DefragStart \/ DefragStore PROVE FALSE
    <3>1. \A j \in Inodes : View(j)' = View(j)
      <4>1. CASE CheckFilesystem \/ DefragStart
        BY <4>1 DEF CheckFilesystem, DefragStart, disk, local, View, Held
      <4>2. QED
        BY <2>1, <2>10, <4>1, DefragStoreSame
    <3>2. QED
      BY <3>1, OwnedKept
  <2>11. ASSUME DefragSlot PROVE FALSE
    <3>1. PICK b : b = object.blocks[block_index]
      OBVIOUS
    <3>2. /\ mode = "defrag" /\ mode' = mode /\ cur' = cur /\ UNCHANGED inode
          /\ block_index <= MAX_BLOCK_COUNT
      BY <2>11 DEF DefragSlot, DefragHere
    <3>3. block_index \in Slots
      BY <2>1, <3>2, SizesAssumption DEF IInv, TypeOK, Slots
    <3>4. \A j \in Inodes : /\ View(j)' = IF j = cur THEN object' ELSE View(j)
                            /\ j = cur => View(j) = object
      BY <3>2 DEF View, Held
    <3>5. CASE UNCHANGED object
      BY <3>4, <3>5, OwnedKept
    <3>6. ASSUME NEW k \in 1 .. b - 1, bitmap' = (bitmap \cup {k}) \ {b},
                 object' = WithBlock(object, block_index, k)
          PROVE  FALSE
      <4>1. object \in Node /\ b \in Blocks /\ k \in Blocks
        BY <2>1, <3>1, <3>3, <3>6, SizesAssumption DEF IInv, TypeOK, Node, Blocks
      <4>2. \A r \in Slots \ {block_index} : object'.blocks[r] = object.blocks[r]
        BY <3>3, <3>6, <4>1, WithBlockType
      <4>3. Owned \ Owned' \subseteq {b}
        BY <3>1, <3>4, <4>2 DEF Owned
      <4>4. b \notin Marked'
        BY <3>2, <3>6 DEF Marked
      <4>5. QED
        BY <4>3, <4>4
    <3>7. QED
      BY <2>11, <3>1, <3>5, <3>6 DEF DefragSlot, MoveBlock
  <2>12. ~EmptyPath /\ ~Stop /\ ~Start
    BY <2>1 DEF EmptyPath, Stop, Start, Running
  <2>13. ASSUME NEW text \in Texts, FinishWrite(text) \/ (FillBlock(text) /\ CloseFile)
         PROVE  FALSE
    BY <2>8, <2>13 DEF FinishWrite, FillBlock
  <2>14. ~StoreReceived
    BY <2>8 DEF StoreReceived
  <2>15. QED
    BY <2>2, <2>3, <2>4, <2>5, <2>6, <2>7, <2>9, <2>10, <2>11, <2>12, <2>13, <2>14 DEF Next
<1>2. QED
  BY <1>1, KindsInvariance, PTL DEF Spec, BlocksLostOnlyByRewriting

-----------------------------------------------------------------------------
(***************************************************************************)
(* The proof that the contents of files are those of FileStore: every step *)
(* of Sfs is a step of it, or changes nothing of it.  Each operation of    *)
(* the store is one of the file system, seen through FileContents; a crash *)
(* is a Halt, and checking and defragmenting are not seen at all.          *)
(***************************************************************************)

\* The state of the store.
Stored == {i \in Inodes : View(i).type = FIL}

\* What the refinement mapping makes of the image.
LEMMA StoreState ==
    /\ Running => /\ Running = TRUE
                  /\ DOMAIN FileContents = Stored
                  /\ \A i \in Stored : FileContents[i] = FileData(i)
    /\ ~Running => Running = FALSE /\ FileContents = Store!Nothing /\ DOMAIN FileContents = {}
<1>1. (Running => Running = TRUE) /\ (~Running => Running = FALSE)
  BY DEF Running
<1>2. {j \in Inodes : FileType(j)} = Stored
  BY DEF FileType, Stored
<1>3. QED
  BY <1>1, <1>2 DEF FileContents, Store!Nothing

\* And after a step.
LEMMA StoreNext ==
    /\ Running' => /\ Running' = TRUE
                   /\ DOMAIN FileContents' = Stored'
                   /\ \A i \in Stored' : FileContents'[i] = FileData(i)'
    /\ ~Running' => /\ Running' = FALSE
                    /\ FileContents' = Store!Nothing /\ DOMAIN FileContents' = {}
<1>1. (Running' => Running' = TRUE) /\ (~Running' => Running' = FALSE)
  BY DEF Running
<1>2. {j \in Inodes : FileType(j)'} = Stored'
  BY DEF FileType, Stored
<1>3. QED
  BY <1>1, <1>2 DEF FileContents, Store!Nothing

\* The session of the store.
LEMMA StoreSession ==
    /\ mode = "writing" => FileSession = Store!Session("write", cur, block_index)
    /\ mode = "receiving" => FileSession = Store!Session("receive", cur, block_index)
    /\ mode \notin {"writing", "receiving"} => FileSession = Store!NoSession
    /\ mode' = "writing" => FileSession' = Store!Session("write", cur', block_index')
    /\ mode' = "receiving" => FileSession' = Store!Session("receive", cur', block_index')
    /\ mode' \notin {"writing", "receiving"} => FileSession' = Store!NoSession
  BY DEF FileSession, Store!Session, Store!NoSession

\* A step that keeps what every inode holds is no step of the store.
LEMMA NothingStored ==
    ASSUME Running, Running', \A i \in Inodes : Keeps(i)
    PROVE  UNCHANGED FileContents
<1>1. \A i \in Inodes : FileData(i)' = FileData(i) /\ (FileType(i)' <=> FileType(i))
  BY DEF Keeps, FileType
<1>2. {j \in Inodes : FileType(j)'} = {j \in Inodes : FileType(j)}
  BY <1>1
<1>3. QED
  BY <1>1, <1>2 DEF FileContents

-----------------------------------------------------------------------------
(* What a step gives a file *)

\* A step that gives the slots in S of a file something, and no other.
Given(c, S) ==
    /\ DOMAIN FileData(c)' = DOMAIN FileData(c) \cup S
    /\ \A s \in DOMAIN FileData(c) \ S : FileData(c)'[s] = FileData(c)[s]
    /\ \A s \in S : FileData(c)'[s] = block'[View(c)'.blocks[s]]

\* So does one that gives them blocks, and touches no other slot or block of
\* the file.
LEMMA SlotsGiven ==
    ASSUME NEW c, NEW S \in SUBSET Slots, Packed(View(c)), Packed(View(c)'),
           \A s \in S : View(c)'.blocks[s] # NoBlock,
           \A s \in Slots \ S :
              /\ View(c)'.blocks[s] = View(c).blocks[s]
              /\ View(c).blocks[s] # NoBlock =>
                    block'[View(c).blocks[s]] = block[View(c).blocks[s]]
    PROVE  Given(c, S)
<1>1. UsedSlots(View(c)) = {r \in Slots : View(c).blocks[r] # NoBlock}
  BY PackedUsed
<1>2. UsedSlots(View(c)') = {r \in Slots : View(c)'.blocks[r] # NoBlock}
  BY PackedUsed
<1>3. UsedSlots(View(c)') = UsedSlots(View(c)) \cup S
  BY <1>1, <1>2
<1>4. QED
  BY <1>1, <1>3, DataIs DEF Given

\* A file that is used as a directory may have been given its first slot.
MaybeFirst(c) ==
    \/ FileData(c)' = FileData(c)
    \/ /\ DOMAIN FileData(c)' = DOMAIN FileData(c) \cup {1}
       /\ \A s \in DOMAIN FileData(c) \ {1} : FileData(c)'[s] = FileData(c)[s]

\* Of such a file the slots behind the first stay as they were.
LEMMA FirstGiven ==
    ASSUME NEW c, Packed(View(c)), Packed(View(c)'),
           View(c).blocks[1] # NoBlock => View(c)'.blocks[1] # NoBlock,
           \A s \in Slots \ {1} :
              /\ View(c)'.blocks[s] = View(c).blocks[s]
              /\ View(c).blocks[s] # NoBlock =>
                    block'[View(c).blocks[s]] = block[View(c).blocks[s]]
    PROVE  MaybeFirst(c)
<1>1. CASE View(c)'.blocks[1] # NoBlock
  <2>1. PICK S \in SUBSET Slots : S = {1}
    BY Sizes
  <2>2. /\ \A s \in S : View(c)'.blocks[s] # NoBlock
        /\ \A s \in Slots \ S :
              /\ View(c)'.blocks[s] = View(c).blocks[s]
              /\ View(c).blocks[s] # NoBlock =>
                    block'[View(c).blocks[s]] = block[View(c).blocks[s]]
    BY <1>1, <2>1
  <2>3. Given(c, S)
    BY <2>2, SlotsGiven
  <2>4. QED
    BY <2>1, <2>3 DEF Given, MaybeFirst
<1>2. CASE View(c)'.blocks[1] = NoBlock
  <2>1. View(c).blocks[1] = NoBlock
    BY <1>2
  <2>2. \A s \in Slots : s = 1 \/ 1 < s
    BY DEF Slots
  <2>3. \A s \in Slots : View(c).blocks[s] = NoBlock
    BY <2>1, <2>2, Sizes DEF Packed
  <2>4. \A s \in Slots : View(c)'.blocks[s] = NoBlock
    BY <1>2, <2>2, Sizes DEF Packed
  <2>5. FileData(c)' = FileData(c)
    BY <2>3, <2>4, KeptData
  <2>6. QED
    BY <2>5 DEF MaybeFirst
<1>3. QED
  BY <1>1, <1>2

\* A file without blocks has nothing.
LEMMA NothingGiven ==
    ASSUME NEW c, \A s \in Slots : View(c)'.blocks[s] = NoBlock
    PROVE  FileData(c)' = Store!Nothing
<1>1. \A s \in Slots : s \in 1 .. s
  BY DEF Slots
<1>2. UsedSlots(View(c)') = {}
  BY <1>1 DEF UsedSlots
<1>3. QED
  BY <1>2, DataIs DEF Store!Nothing

-----------------------------------------------------------------------------
(* The steps *)

\* A crash and a stop end the store.
LEMMA HaltStored ==
    ASSUME Running, Crash \/ Stop
    PROVE  Store!Halt
<1>1. mode' \notin {"writing", "receiving"} /\ ~Running'
  BY DEF Crash, Stop, Running
<1>2. FileSession' = Store!NoSession
  BY <1>1, StoreSession
<1>3. QED
  BY <1>1, <1>2, StoreState, StoreNext DEF Store!Halt

\* A restart starts it, with no file.
LEMMA StartStored ==
    ASSUME Start
    PROVE  Store!Restart
<1>1. ~Running /\ mode \notin {"writing", "receiving"} /\ mode' = "menu" /\ Running'
  BY DEF Start, Running
<1>2. \A i \in Inodes : View(i)' = EmptyNode(DIR)
  BY <1>1 DEF Start, View, Held
<1>3. \A i \in Inodes : ~FileType(i)'
  BY <1>2 DEF FileType, EmptyNode, DIR, FIL
<1>4. FileContents' = Store!Nothing
  <2>1. {j \in Inodes : FileType(j)'} = {}
    BY <1>3
  <2>2. QED
    BY <1>1, <2>1 DEF FileContents, Store!Nothing
<1>5. FileSession = Store!NoSession /\ FileSession' = Store!NoSession
  BY <1>1, StoreSession
<1>6. QED
  BY <1>1, <1>4, <1>5, StoreState, StoreNext DEF Store!Restart

\* A step that makes inode i, of type t, with an entry in d.
Made(i, d, t) ==
    /\ i \notin Stored /\ i # d
    /\ Stored' = IF t = FIL THEN Stored \cup {i} ELSE Stored
    /\ FileData(i)' = Store!Nothing
    /\ \A j \in Stored : j # d \/ d = Root => FileData(j)' = FileData(j)
    /\ MaybeFirst(d)

\* So does making an inode and its entry.
LEMMA AddInodeStored ==
    ASSUME DInv, mode = "menu", mode' \in {"menu", "receiving"},
           NEW d \in Inodes, d \in bitmap_inode, NEW n \in Names, NEW t \in {DIR, FIL},
           NEW i \in Inodes, AddInode(i, d, n, t),
           \A j \in Inodes : View(j)' = inode'[j]
    PROVE  Made(i, d, t)
<1>1. IInv /\ Layout /\ FreeSpaceClean /\ Running /\ Kinds
  BY DEF DInv, TInv, Tree, Running
<1>2. \A j \in Inodes : View(j) = inode[j] /\ Packed(inode[j]) /\ inode[j] \in Node
  BY <1>1, MenuLayout DEF IInv, TypeOK
<1>3. /\ i \notin bitmap_inode /\ FirstSlotOnly(i, d) /\ d # i
      /\ inode'[i] = EmptyNode(t)
      /\ inode[d].blocks[1] # NoBlock => inode'[d].blocks[1] = inode[d].blocks[1]
  BY <1>1, AddInodeShape
<1>4. View(i).type = DIR
  BY <1>1, <1>3 DEF FreeSpaceClean, ClearNode, EmptyNode
<1>5. \A j \in Inodes : View(j)'.type = IF j = i THEN t ELSE View(j).type
  BY <1>2, <1>3 DEF FirstSlotOnly, EmptyNode
<1>6. i \notin Stored /\ Stored' = IF t = FIL THEN Stored \cup {i} ELSE Stored
  BY <1>4, <1>5 DEF Stored, DIR, FIL
<1>7. FileData(i)' = Store!Nothing
  <2>1. \A s \in Slots : View(i)'.blocks[s] = NoBlock
    BY <1>3, EmptyNodeType
  <2>2. QED
    BY <2>1, NothingGiven
<1>8. \A j \in Inodes \ {i} : j # d \/ d = Root => Keeps(j)
  <2>1. \A j \in Inodes \ {i} : j # d \/ j = Root => Keeps(j)
    BY <1>1, AddInodeKeeps
  <2>2. QED
    BY <2>1
<1>9. \A j \in Stored : j # d \/ d = Root => FileData(j)' = FileData(j)
  BY <1>6, <1>8 DEF Stored, Keeps
<1>10. Packed(View(d)) /\ Packed(View(d)')
  BY <1>1, <1>2, AddInodeLayout
<1>11. \A s \in Slots \ {1} :
         /\ View(d)'.blocks[s] = View(d).blocks[s]
         /\ View(d).blocks[s] # NoBlock => block'[View(d).blocks[s]] = block[View(d).blocks[s]]
  BY <1>2, <1>3 DEF FirstSlotOnly
<1>12. View(d).blocks[1] # NoBlock => View(d)'.blocks[1] # NoBlock
  BY <1>2, <1>3
<1>13. MaybeFirst(d)
  BY <1>10, <1>11, <1>12, FirstGiven
<1>14. QED
  BY <1>3, <1>6, <1>7, <1>9, <1>13 DEF Made

\* In the menu there is no session.
LEMMA MenuState ==
    /\ mode = "menu" => Running /\ FileSession = Store!NoSession
    /\ mode' = "menu" => Running' /\ FileSession' = Store!NoSession
  BY StoreSession DEF Running

\* create_file makes a file; create_dir at most uses one as a directory.
LEMMA AddObjectStored ==
    ASSUME DInv, mode = "menu", NEW d \in Parents, NEW n \in Names, NEW t \in {DIR, FIL},
           AddObject(d, n, t), ~Crash
    PROVE  Store!Next
<1>1. d \in Inodes /\ d \in bitmap_inode
  BY ParentsLive DEF DInv
<1>2. PICK i \in Inodes : AddInode(i, d, n, t) /\ mode' = "menu"
  BY DEF AddObject
<1>3. \A j \in Inodes : View(j)' = inode'[j]
  BY <1>2 DEF View, Held
<1>4. /\ i \notin Stored /\ i # d
      /\ Stored' = IF t = FIL THEN Stored \cup {i} ELSE Stored
      /\ FileData(i)' = Store!Nothing
      /\ \A j \in Stored : j # d \/ d = Root => FileData(j)' = FileData(j)
      /\ MaybeFirst(d)
  <2>1. Made(i, d, t)
    BY <1>1, <1>2, <1>3, AddInodeStored
  <2>2. QED
    BY <2>1 DEF Made
<1>5. /\ Running /\ Running' /\ FileSession = Store!NoSession /\ FileSession' = Store!NoSession
  BY <1>2, MenuState
<1>6. /\ Running = TRUE /\ Running' = TRUE
      /\ DOMAIN FileContents = Stored /\ DOMAIN FileContents' = Stored'
      /\ \A j \in Stored : FileContents[j] = FileData(j)
      /\ \A j \in Stored' : FileContents'[j] = FileData(j)'
  BY <1>5, StoreState, StoreNext
<1>7. \A j \in Stored \ {d} : FileContents'[j] = FileContents[j]
  BY <1>4, <1>6
<1>8. d \in Stored => Store!AtMostFirst(d)
  BY <1>4, <1>6 DEF MaybeFirst, Store!AtMostFirst, Store!OnlySlots
<1>9. CASE t = FIL
  <2>1. FileContents'[i] = Store!Nothing
    BY <1>4, <1>6, <1>9
  <2>2. Store!MakeFile(i, d)
    BY <1>4, <1>5, <1>6, <1>7, <1>8, <1>9, <2>1
       DEF Store!MakeFile, Store!Create, Store!Exists, Store!Same
  <2>3. QED
    BY <1>1, <2>2 DEF Store!Next
<1>10. CASE t # FIL
  <2>1. Store!Delete({}, d)
    BY <1>4, <1>5, <1>6, <1>7, <1>8, <1>10 DEF Store!Delete, Store!Exists, Store!Same
  <2>2. {} \in SUBSET Inodes
    OBVIOUS
  <2>3. QED
    BY <1>1, <2>1, <2>2 DEF Store!Next
<1>11. QED
  BY <1>9, <1>10

\* Accepting a file makes one, with nothing in it yet.
LEMMA AcceptFileStored ==
    ASSUME DInv, NEW n \in Names, AcceptFile(n), Running'
    PROVE  Store!Next
<1>1. mode = "menu" /\ mode' = "receiving" /\ Root \in bitmap_inode
  BY AcceptFileKinds DEF DInv, TInv, IInv, Reserved
<1>2. PICK i \in Inodes : /\ AddInode(i, Root, n, FIL) /\ cur' = i
                          /\ \A j \in Inodes : View(j)' = inode'[j]
  BY AcceptFileKinds
<1>3. block_index' = 1
  BY DEF AcceptFile, Crash, Running
<1>4. /\ i \notin Stored
      /\ Stored' = Stored \cup {i}
      /\ FileData(i)' = Store!Nothing
      /\ \A j \in Stored : FileData(j)' = FileData(j)
  <2>1. Made(i, Root, FIL)
    BY <1>1, <1>2, Sizes, AddInodeStored
  <2>2. QED
    BY <2>1 DEF Made
<1>5. /\ Running /\ FileSession = Store!NoSession
      /\ FileSession' = Store!Session("receive", i, 1)
  BY <1>1, <1>2, <1>3, MenuState, StoreSession
<1>6. /\ Running = TRUE /\ Running' = TRUE
      /\ DOMAIN FileContents = Stored /\ DOMAIN FileContents' = Stored'
      /\ \A j \in Stored : FileContents[j] = FileData(j)
      /\ \A j \in Stored' : FileContents'[j] = FileData(j)'
  BY <1>5, StoreState, StoreNext
<1>7. FileContents'[i] = Store!Nothing /\ \A j \in Stored : FileContents'[j] = FileContents[j]
  BY <1>4, <1>6
<1>8. Store!AcceptFile(i)
  BY <1>4, <1>5, <1>6, <1>7 DEF Store!AcceptFile, Store!Create, Store!Exists, Store!Same
<1>9. QED
  BY <1>8 DEF Store!Next

\* Deleting deletes files, and may have used one as a directory.
LEMMA RemovesStored ==
    ASSUME DInv, NEW d \in Inodes, NEW k, NEW S, NEW B, Removes(d, k, S, B)
    PROVE  Store!Next
<1>1. /\ IInv /\ Layout /\ mode = "menu" /\ mode' = "menu"
      /\ S \in SUBSET Inodes
  BY DEF DInv, TInv, Removes, RemoveEntry
<1>2. /\ \A j \in Inodes : View(j)' = IF j \in S THEN ClearNode ELSE View(j)
      /\ \A j \in Inodes \ S : \A s \in Slots :
            (j # d \/ s # 1) /\ View(j).blocks[s] # NoBlock =>
               block'[View(j).blocks[s]] = block[View(j).blocks[s]]
  <2>1. OnlyCleared(d, S)
    BY <1>1, RemoveEntryShape DEF Removes
  <2>2. QED
    BY <2>1 DEF OnlyCleared
<1>3. \A j \in Inodes \ S : j # d => Keeps(j)
  BY <1>1, RemoveEntryKeeps DEF Removes
<1>4. Stored' = Stored \ S
  BY <1>2 DEF Stored, ClearNode, EmptyNode, DIR, FIL
<1>5. \A j \in Stored' \ {d} : FileData(j)' = FileData(j)
  BY <1>3, <1>4 DEF Stored, Keeps
<1>6. ASSUME d \notin S
      PROVE  MaybeFirst(d)
  <2>1. View(d)' = View(d) /\ Packed(View(d)) /\ Packed(View(d)')
    BY <1>1, <1>2, <1>6, MenuLayout
  <2>2. \A s \in Slots \ {1} :
           /\ View(d)'.blocks[s] = View(d).blocks[s]
           /\ View(d).blocks[s] # NoBlock => block'[View(d).blocks[s]] = block[View(d).blocks[s]]
    BY <1>2, <1>6, <2>1
  <2>3. View(d).blocks[1] # NoBlock => View(d)'.blocks[1] # NoBlock
    BY <2>1
  <2>4. QED
    BY <2>1, <2>2, <2>3, FirstGiven
<1>7. /\ Running /\ Running' /\ FileSession = Store!NoSession /\ FileSession' = Store!NoSession
  BY <1>1, MenuState
<1>8. /\ Running = TRUE /\ Running' = TRUE
      /\ DOMAIN FileContents = Stored /\ DOMAIN FileContents' = Stored'
      /\ \A j \in Stored : FileContents[j] = FileData(j)
      /\ \A j \in Stored' : FileContents'[j] = FileData(j)'
  BY <1>7, StoreState, StoreNext
<1>9. \A j \in (Stored \ S) \ {d} : FileContents'[j] = FileContents[j]
  BY <1>4, <1>5, <1>8
<1>10. d \in Stored \ S => Store!AtMostFirst(d)
  BY <1>4, <1>6, <1>8 DEF MaybeFirst, Store!AtMostFirst, Store!OnlySlots
<1>11. Store!Delete(S, d)
  BY <1>4, <1>7, <1>8, <1>9, <1>10 DEF Store!Delete, Store!Exists, Store!Same
<1>12. QED
  BY <1>1, <1>11 DEF Store!Next

\* Taking a file in hand gives it a first slot.
LEMMA OpenForWriteStored ==
    ASSUME DInv, LongTexts, NEW d \in Inodes, NEW n \in Names, OpenForWrite(d, n)
    PROVE  Store!Next
<1>1. /\ IInv /\ Layout /\ Layout' /\ TInv /\ mode = "menu" /\ mode' = "writing"
      /\ block_index' = 1 /\ UNCHANGED <<inode, block>>
  BY OpenForWriteLayout DEF DInv, TInv, OpenForWrite
<1>2. PICK t \in Inodes, b \in Blocks :
         t = cur' /\ inode[t].type = FIL /\ TakeBlock(b) /\ object' = WithBlock(inode[t], 1, b)
  BY DEF OpenForWrite
<1>3. /\ \A j \in Inodes : View(j) = inode[j]
      /\ \A j \in Inodes \ {t} : View(j)' = inode[j]
      /\ View(t)' = object' /\ inode[t] \in Node
  BY <1>1, <1>2, MenuLayout DEF View, Held, IInv, TypeOK
<1>4. /\ View(t)'.blocks[1] = b /\ View(t)'.type = FIL
      /\ \A r \in Slots \ {1} : View(t)'.blocks[r] = inode[t].blocks[r]
  <2>1. object'.type = FIL
    BY <1>2, <1>3 DEF WithBlock, Node
  <2>2. QED
    BY <1>2, <1>3, <2>1, Sizes, WithBlockType
<1>5. b # NoBlock /\ Running /\ Running'
  BY <1>1, <1>2, FreshBlock DEF TakeBlock, Running
<1>6. Packed(View(t)) /\ Packed(View(t)')
  BY <1>1, <1>5, NoGapPacked DEF Layout
<1>7. PICK S \in SUBSET Slots : S = {1}
  BY Sizes
<1>8. Given(t, S)
  <2>1. \A s \in S : View(t)'.blocks[s] # NoBlock
    BY <1>4, <1>5, <1>7
  <2>2. \A s \in Slots \ S :
           /\ View(t)'.blocks[s] = View(t).blocks[s]
           /\ View(t).blocks[s] # NoBlock => block'[View(t).blocks[s]] = block[View(t).blocks[s]]
    BY <1>1, <1>3, <1>4, <1>7
  <2>3. QED
    BY <1>6, <2>1, <2>2, SlotsGiven
<1>9. t \in Stored /\ Stored' = Stored
  BY <1>2, <1>3, <1>4 DEF Stored
<1>10. \A j \in Stored \ {t} : FileData(j)' = FileData(j)
  BY <1>1, <1>2, OpenForWriteKeeps DEF Stored, Keeps
<1>11. FileSession = Store!NoSession /\ FileSession' = Store!Session("write", t, 1)
  BY <1>1, <1>2, StoreSession
<1>12. /\ Running = TRUE /\ Running' = TRUE
       /\ DOMAIN FileContents = Stored /\ DOMAIN FileContents' = Stored'
       /\ \A j \in Stored : FileContents[j] = FileData(j)
       /\ \A j \in Stored' : FileContents'[j] = FileData(j)'
  BY <1>5, StoreState, StoreNext
<1>13. Store!OnlySlots(t, {1})
  BY <1>7, <1>8, <1>9, <1>12 DEF Given, Store!OnlySlots
<1>14. \A j \in Stored \ {t} : FileContents'[j] = FileContents[j]
  BY <1>9, <1>10, <1>12
<1>15. Store!OpenForWrite(t)
  BY <1>9, <1>11, <1>12, <1>13, <1>14 DEF Store!OpenForWrite, Store!Exists, Store!Same
<1>16. QED
  BY <1>15 DEF Store!Next

\* A step that puts a text in a slot of the file in hand, and may give the
\* slots in More something.
LEMMA PutStored ==
    ASSUME DInv, Layout', Running', NEW c \in Inodes, c = cur,
           \A i \in Inodes : i # cur => Keeps(i),
           View(c).type = FIL, View(c)'.type = FIL,
           NEW at \in Slots, NEW More \in SUBSET Slots,
           NEW text, NEW w \in Blocks, block' = [block EXCEPT ![w] = text],
           View(c)'.blocks[at] = w, w # NoBlock,
           \A s \in More : View(c)'.blocks[s] # NoBlock,
           \A s \in Slots : s # at /\ s \notin More =>
              View(c)'.blocks[s] = View(c).blocks[s] /\ View(c).blocks[s] # w,
           NEW kind, FileSession = Store!Session(kind, c, at),
           Running
    PROVE  Store!Put(kind, c, at, text, More)
<1>1. IInv /\ Layout
  BY DEF DInv, TInv
<1>2. Packed(View(c)) /\ Packed(View(c)')
  BY <1>1, NoGapPacked DEF Layout
<1>3. PICK S \in SUBSET Slots : S = {at} \cup More
  OBVIOUS
<1>4. /\ block'[w] = text
      /\ \A x \in Blocks \ {w} : block'[x] = block[x]
      /\ \A s \in Slots : View(c).blocks[s] \in Blocks
  BY <1>1 DEF IInv, TypeOK, View, Node
<1>5. Given(c, S)
  <2>1. \A s \in S : View(c)'.blocks[s] # NoBlock
    BY <1>3
  <2>2. \A s \in Slots \ S :
           /\ View(c)'.blocks[s] = View(c).blocks[s]
           /\ View(c).blocks[s] # NoBlock => block'[View(c).blocks[s]] = block[View(c).blocks[s]]
    BY <1>3, <1>4
  <2>3. QED
    BY <1>2, <2>1, <2>2, SlotsGiven
<1>6. c \in Stored /\ Stored' = Stored
  BY DEF Stored, Keeps
<1>7. \A j \in Stored \ {c} : FileData(j)' = FileData(j)
  BY DEF Stored, Keeps
<1>8. /\ Running = TRUE /\ Running' = TRUE
      /\ DOMAIN FileContents = Stored /\ DOMAIN FileContents' = Stored'
      /\ \A j \in Stored : FileContents[j] = FileData(j)
      /\ \A j \in Stored' : FileContents'[j] = FileData(j)'
  BY StoreState, StoreNext
<1>9. Store!OnlySlots(c, {at} \cup More)
  BY <1>3, <1>5, <1>6, <1>8 DEF Given, Store!OnlySlots
<1>10. FileContents'[c][at] = text
  BY <1>3, <1>4, <1>5, <1>6, <1>8 DEF Given
<1>11. \A j \in Stored \ {c} : FileContents'[j] = FileContents[j]
  BY <1>6, <1>7, <1>8
<1>12. QED
  BY <1>6, <1>8, <1>9, <1>10, <1>11 DEF Store!Put, Store!Exists, Store!Same

\* The file in hand, before a step of its session and after it.
LEMMA InHand ==
    ASSUME DInv, LongTexts, Running', Running,
           \/ \E text \in Texts : FillBlock(text) \/ FinishWrite(text) \/ ReceiveBlock(text)
           \/ StoreReceived
    PROVE  /\ \A i \in Inodes : i # cur => Keeps(i)
           /\ \E c \in Inodes : /\ c = cur /\ View(c) = object
                                /\ View(c).type = FIL /\ View(c)'.type = FIL
<1>1. IInv /\ Layout /\ Kinds
  BY DEF DInv, TInv
<1>2. (\A i \in Inodes : i # cur => Keeps(i)) /\ mode \in {"writing", "receiving"}
  BY <1>1, SessionsKeep
<1>3. \E c \in Inodes : c = cur /\ View(c) = object /\ View(c)'.type = object.type
  BY <1>1, SessionViews
<1>4. object.type = FIL
  BY <1>1, <1>2 DEF Kinds
<1>5. QED
  BY <1>2, <1>3, <1>4

\* The text fills the slot in turn, which was the last.
LEMMA CloseWriteStored ==
    ASSUME DInv, Layout', LongTexts, mode = "writing", CloseFile,
           NEW text \in Texts, FillBlock(text) \/ FinishWrite(text),
           block' = [block EXCEPT ![object.blocks[block_index]] = text]
    PROVE  Store!Next
<1>1. /\ IInv /\ Layout /\ Running /\ mode' = "menu" /\ Running'
      /\ inode' = [inode EXCEPT ![cur] = object]
  BY DEF DInv, TInv, CloseFile, Running
<1>2. PICK c \in Inodes : c = cur /\ View(c) = object
                          /\ View(c).type = FIL /\ View(c)'.type = FIL
  BY <1>1, InHand
<1>3. View(c)' = object
  BY <1>1, <1>2 DEF View, Held, IInv, TypeOK
<1>4. PICK at \in Slots : at = block_index /\ object.blocks[at] # NoBlock
  BY <1>1 DEF IInv, Session, Layout, Filled
<1>5. PICK w \in Blocks : w = object.blocks[at]
  BY <1>1, <1>4 DEF IInv, TypeOK, Node
<1>6. \A s \in Slots : s # at => View(c).blocks[s] # w
  BY <1>1, <1>2, <1>4, <1>5 DEF IInv, NoSharedBlock
<1>7. FileSession = Store!Session("write", c, at) /\ FileSession' = Store!NoSession
  BY <1>1, <1>2, <1>4, StoreSession
<1>8. \A i \in Inodes : i # cur => Keeps(i)
  BY <1>1, InHand
<1>9. Store!Put("write", c, at, text, {})
  BY <1>1, <1>2, <1>3, <1>4, <1>5, <1>6, <1>7, <1>8, PutStored
<1>10. Store!Finish(c, at, text) /\ at \in 1 .. MAX_BLOCK_COUNT + 1
  BY <1>7, <1>9, SizesAssumption DEF Store!Finish, Slots
<1>11. QED
  BY <1>10 DEF Store!Next

\* A typed block goes to the slot in turn, and the next slot is given one.
LEMMA FillBlockStored ==
    ASSUME DInv, Layout', LongTexts, NEW text \in Texts, FillBlock(text), Running'
    PROVE  Store!Next
<1>1. IInv /\ Layout /\ mode = "writing" /\ Running /\ ~Crash
  BY DEF DInv, TInv, FillBlock, Crash, Running
<1>2. CASE CloseFile /\ block' = [block EXCEPT ![object.blocks[block_index]] = text]
  BY <1>1, <1>2, CloseWriteStored
<1>3. ASSUME NEW b \in Blocks, TakeBlock(b), object' = WithBlock(object, block_index + 1, b),
             block' = [block EXCEPT ![object.blocks[block_index]] = text],
             block_index < MAX_BLOCK_COUNT, block_index' = block_index + 1,
             UNCHANGED <<inode, mode, cur>>
      PROVE  Store!Next
  <2>1. PICK c \in Inodes : c = cur /\ View(c) = object
                            /\ View(c).type = FIL /\ View(c)'.type = FIL
    BY <1>1, InHand
  <2>2. View(c)' = object' /\ object \in Node
    BY <1>1, <1>3, <2>1 DEF View, Held, IInv, TypeOK
  <2>3. PICK at \in Slots : at = block_index /\ object.blocks[at] # NoBlock
    BY <1>1 DEF IInv, Session, Layout, Filled
  <2>4. PICK s2 \in Slots : s2 = block_index + 1 /\ s2 # at
    BY <1>3, <2>3, SizesAssumption DEF Slots
  <2>5. PICK w \in Blocks : w = object.blocks[at]
    BY <2>2, <2>3 DEF Node
  <2>6. \A s \in Slots : s # at => View(c).blocks[s] # w
    BY <1>1, <2>1, <2>3, <2>5 DEF IInv, NoSharedBlock
  <2>7. b # NoBlock
    BY <1>1, <1>3, FreshBlock DEF TakeBlock
  <2>8. /\ View(c)'.blocks[s2] = b
        /\ \A r \in Slots \ {s2} : View(c)'.blocks[r] = View(c).blocks[r]
    <3>1. View(c)' = WithBlock(object, s2, b)
      BY <1>3, <2>2, <2>4
    <3>2. QED
      BY <2>1, <2>2, <3>1, WithBlockType
  <2>9. /\ FileSession = Store!Session("write", c, at)
        /\ FileSession' = Store!Session("write", c, at + 1)
    BY <1>1, <1>3, <2>1, <2>3, StoreSession
  <2>10. \A i \in Inodes : i # cur => Keeps(i)
    BY <1>1, InHand
  <2>11. PICK More \in SUBSET Slots : More = {s2}
    OBVIOUS
  <2>12. Store!Put("write", c, at, text, More)
    <3>1. View(c)'.blocks[at] = w /\ w # NoBlock
      BY <2>1, <2>3, <2>4, <2>5, <2>8
    <3>2. \A s \in More : View(c)'.blocks[s] # NoBlock
      BY <2>7, <2>8, <2>11
    <3>3. \A s \in Slots : s # at /\ s \notin More =>
              View(c)'.blocks[s] = View(c).blocks[s] /\ View(c).blocks[s] # w
      BY <2>6, <2>8, <2>11
    <3>4. block' = [block EXCEPT ![w] = text]
      BY <1>3, <2>3, <2>5
    <3>5. QED
      BY <1>1, <2>1, <2>9, <2>10, <3>1, <3>2, <3>3, <3>4, PutStored
  <2>13. More = {at + 1}
    BY <2>3, <2>4, <2>11
  <2>14. Store!Fill(c, at, text) /\ at \in 1 .. MAX_BLOCK_COUNT + 1
    BY <1>3, <2>3, <2>9, <2>12, <2>13, SizesAssumption DEF Store!Fill, Slots
  <2>15. QED
    BY <2>14 DEF Store!Next
<1>4. QED
  BY <1>1, <1>2, <1>3 DEF FillBlock

\* What one recv returned goes to the slot in turn.
LEMMA ReceiveBlockStored ==
    ASSUME DInv, Layout', LongTexts, NEW text \in Texts, ReceiveBlock(text), Running'
    PROVE  Store!Next
<1>1. IInv /\ Layout /\ TailKept /\ mode = "receiving" /\ Running /\ ~Crash
  BY DEF DInv, TInv, ReceiveBlock, Crash, Running
<1>2. PICK b \in Blocks :
        /\ TakeBlock(b) /\ object' = WithBlock(object, block_index, b)
        /\ block' = [block EXCEPT ![b] = text]
        /\ block_index <= MAX_BLOCK_COUNT /\ block_index' = block_index + 1
        /\ UNCHANGED <<inode, mode, cur>>
  BY <1>1 DEF ReceiveBlock
<1>3. PICK c \in Inodes : c = cur /\ View(c) = object
                          /\ View(c).type = FIL /\ View(c)'.type = FIL
  BY <1>1, InHand
<1>4. View(c)' = object' /\ object \in Node
  BY <1>1, <1>2, <1>3 DEF View, Held, IInv, TypeOK
<1>5. PICK at \in Slots : at = block_index
  BY <1>1, <1>2, SizesAssumption DEF IInv, TypeOK, Slots
<1>6. b # NoBlock /\ \A s \in Slots : View(c).blocks[s] # b
  BY <1>1, <1>2, FreshBlock DEF TakeBlock
<1>7. /\ View(c)'.blocks[at] = b
      /\ \A r \in Slots \ {at} : View(c)'.blocks[r] = View(c).blocks[r]
  BY <1>2, <1>3, <1>4, <1>5, WithBlockType
<1>8. /\ FileSession = Store!Session("receive", c, at)
      /\ FileSession' = Store!Session("receive", c, at + 1)
  BY <1>1, <1>2, <1>3, <1>5, StoreSession
<1>9. \A i \in Inodes : i # cur => Keeps(i)
  BY <1>1, InHand
<1>10. Store!Put("receive", c, at, text, {})
  BY <1>1, <1>2, <1>3, <1>6, <1>7, <1>8, <1>9, PutStored
<1>11. Store!Receive(c, at, text) /\ at \in 1 .. MAX_BLOCK_COUNT + 1
  BY <1>8, <1>10, SizesAssumption DEF Store!Receive, Slots
<1>12. QED
  BY <1>11 DEF Store!Next

\* Storing the inode ends the session and changes nothing.
LEMMA StoreReceivedStored ==
    ASSUME DInv, LongTexts, StoreReceived
    PROVE  Store!Next
<1>1. /\ IInv /\ Layout /\ mode = "receiving" /\ Running
      /\ mode' = "menu" /\ Running'
      /\ inode' = [inode EXCEPT ![cur] = object] /\ UNCHANGED block
  BY DEF DInv, TInv, StoreReceived, CloseFile, Running
<1>2. PICK c \in Inodes : c = cur /\ View(c) = object
  BY <1>1, InHand
<1>3. \A i \in Inodes : View(i)' = View(i)
  BY <1>1, <1>2 DEF View, Held, IInv, TypeOK
<1>4. UNCHANGED FileContents
  BY <1>1, <1>3, UntouchedKept, NothingStored
<1>5. PICK at \in 1 .. MAX_BLOCK_COUNT + 1 : at = block_index
  BY <1>1 DEF IInv, TypeOK
<1>6. FileSession = Store!Session("receive", c, at) /\ FileSession' = Store!NoSession
  BY <1>1, <1>2, <1>5, StoreSession
<1>7. Running = TRUE /\ Running' = TRUE
  BY <1>1, StoreState, StoreNext
<1>8. Store!Received(c, at)
  BY <1>4, <1>6, <1>7 DEF Store!Received
<1>9. QED
  BY <1>8 DEF Store!Next

\* The tools are not seen.
LEMMA ToolsStored ==
    ASSUME DInv, CheckFilesystem \/ DefragStart \/ DefragSlot \/ DefragStore
    PROVE  UNCHANGED <<Running, FileContents, FileSession>>
<1>1. IInv /\ Layout
  BY DEF DInv, TInv
<1>2. mode \in {"menu", "defrag"} /\ mode' \in {"menu", "defrag"}
  BY DEF CheckFilesystem, DefragStart, DefragSlot, DefragStore
<1>3. Running /\ Running' /\ Running = Running'
  BY <1>2 DEF Running
<1>4. \A i \in Inodes : Keeps(i)
  BY <1>1, ToolsKeep
<1>5. UNCHANGED FileContents
  BY <1>3, <1>4, NothingStored
<1>6. UNCHANGED FileSession
  BY <1>2, StoreSession
<1>7. QED
  BY <1>3, <1>5, <1>6

\* Neither is a step that changes nothing.
LEMMA StutterStored ==
    ASSUME UNCHANGED vars
    PROVE  UNCHANGED <<Running, FileContents, FileSession>>
<1>1. UNCHANGED <<block, inode, mode, cur, object, block_index>>
  BY DEF vars, disk, local
<1>2. Running = Running' /\ \A i \in Inodes : View(i)' = View(i)
  BY <1>1 DEF Running, View, Held
<1>3. UNCHANGED FileSession
  BY <1>1 DEF FileSession
<1>4. UNCHANGED FileContents
  <2>1. CASE Running
    <3>1. \A i \in Inodes : Keeps(i)
      BY <1>1, <1>2, UntouchedKept
    <3>2. QED
      BY <1>2, <2>1, <3>1, NothingStored
  <2>2. CASE ~Running
    BY <1>2, <2>2, StoreState, StoreNext
  <2>3. QED
    BY <2>1, <2>2
<1>5. QED
  BY <1>2, <1>3, <1>4

\* A new image holds no file.
LEMMA InitStored == Init => Store!Init
<1> SUFFICES ASSUME Init PROVE Store!Init
  OBVIOUS
<1>1. mode = "menu" /\ \A i \in Inodes : View(i) = EmptyNode(DIR)
  BY DEF Init, InitDisk, View, Held
<1>2. {j \in Inodes : FileType(j)} = {}
  BY <1>1 DEF FileType, EmptyNode, DIR, FIL
<1>3. Running /\ FileSession = Store!NoSession
  BY <1>1, MenuState
<1>4. FileContents = Store!Nothing
  BY <1>2, <1>3 DEF FileContents, Store!Nothing
<1>5. QED
  BY <1>3, <1>4, StoreState DEF Store!Init

\* Every step of the file system is a step of the store, or none.
LEMMA NextStored ==
    LongTexts /\ DInv /\ Layout' /\ [Next]_vars
        => [Store!Next]_<<Running, FileContents, FileSession>>
<1> SUFFICES ASSUME LongTexts, DInv, Layout', [Next]_vars,
                    ~UNCHANGED <<Running, FileContents, FileSession>>
             PROVE  Store!Next
  OBVIOUS
<1>1. Next
  BY StutterStored
<1>2. CASE Crash \/ Stop
  <2>1. CASE Running
    BY <1>2, <2>1, HaltStored DEF Store!Next
  <2>2. CASE ~Running
    <3>1. Crash /\ ~Running'
      BY <1>2, <2>2 DEF Crash, Stop, Running
    <3>2. mode \notin {"writing", "receiving"} /\ mode' \notin {"writing", "receiving"}
      BY <2>2, <3>1 DEF Running
    <3>3. UNCHANGED FileSession
      BY <3>2, StoreSession
    <3>4. QED
      BY <2>2, <3>1, <3>3, StoreState, StoreNext
  <2>3. QED
    BY <2>1, <2>2
<1>3. ASSUME ~Crash, ~Stop PROVE Store!Next
  <2>1. ASSUME NEW d \in Parents, NEW n \in Names, CreateFile(d, n) \/ CreateDir(d, n)
        PROVE  Store!Next
    <3>1. mode = "menu"
      BY <2>1 DEF CreateFile, CreateDir
    <3>2. PICK t \in {DIR, FIL} : AddObject(d, n, t)
      BY <2>1 DEF CreateFile, CreateDir
    <3>3. QED
      BY <1>3, <3>1, <3>2, AddObjectStored
  <2>2. ASSUME NEW d \in Parents, NEW n \in Names, DeleteFile(d, n)
        PROVE  Store!Next
    <3>1. d \in Inodes /\ TInv
      BY DEF Parents, DInv
    <3>2. PICK k \in DOMAIN Entries(d), t \in Inodes : Removes(d, k, {t}, NodeBlocks(inode[t]))
      BY <2>2, <3>1, DeleteFileRemoves
    <3>3. QED
      BY <3>1, <3>2, RemovesStored
  <2>3. ASSUME NEW d \in Parents, NEW n \in Names, DeleteDir(d, n)
        PROVE  Store!Next
    <3>1. d \in Inodes /\ TInv
      BY DEF Parents, DInv
    <3>2. PICK k \in DOMAIN Entries(d), t \in Inodes : Removes(d, k, Doomed(t), DoomedBlocks(t))
      BY <1>3, <2>3, <3>1, DeleteDirRemoves
    <3>3. QED
      BY <3>1, <3>2, RemovesStored
  <2>4. ASSUME NEW d \in Parents, NEW n \in Names, OpenForWrite(d, n)
        PROVE  Store!Next
    BY <2>4, OpenForWriteStored DEF Parents
  <2>5. ASSUME NEW n \in Names, AcceptFile(n)
        PROVE  Store!Next
    <3>1. Running'
      BY <1>3, <2>5 DEF AcceptFile, Running
    <3>2. QED
      BY <2>5, <3>1, AcceptFileStored
  <2>6. ASSUME NEW text \in Texts, FillBlock(text)
        PROVE  Store!Next
    <3>1. Running'
      BY <1>3, <2>6 DEF FillBlock, CloseFile, Running
    <3>2. QED
      BY <2>6, <3>1, FillBlockStored
  <2>7. ASSUME NEW text \in Texts, FinishWrite(text)
        PROVE  Store!Next
    BY <2>7, CloseWriteStored DEF FinishWrite
  <2>8. ASSUME NEW text \in Texts, ReceiveBlock(text)
        PROVE  Store!Next
    <3>1. Running'
      BY <1>3, <2>8 DEF ReceiveBlock, Running
    <3>2. QED
      BY <2>8, <3>1, ReceiveBlockStored
  <2>9. CASE StoreReceived
    BY <2>9, StoreReceivedStored
  <2>10. CASE Start
    BY <2>10, StartStored DEF Store!Next
  <2>11. ~(CheckFilesystem \/ DefragStart \/ DefragSlot \/ DefragStore)
    BY ToolsStored
  <2>12. ~EmptyPath
    BY <1>3 DEF EmptyPath
  <2>13. QED
    BY <1>1, <1>3, <2>1, <2>2, <2>3, <2>4, <2>5, <2>6, <2>7, <2>8, <2>9, <2>10,
       <2>11, <2>12 DEF Next
<1>4. QED
  BY <1>2, <1>3

\* The file system implements the store: what a file holds outlives the
\* creation, deletion and writing of others, defragmentation and the check.
THEOREM ImplementsFileStore ==
    ASSUME LongTexts
    PROVE  Spec => ImplementsStore
<1>1. DInv => Layout
  BY DEF DInv, TInv
<1>2. DInv /\ DInv' /\ [Next]_vars => [Store!Next]_<<Running, FileContents, FileSession>>
  <2>1. DInv' => Layout'
    BY <1>1 DEF DInv, TInv
  <2>2. QED
    BY <2>1, NextStored
<1>3. QED
  BY <1>2, InitStored, KindsInvariance, PTL DEF Spec, ImplementsStore, Store!Spec, Store!vars
=============================================================================
