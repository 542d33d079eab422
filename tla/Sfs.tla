-------------------------------- MODULE Sfs --------------------------------
(***************************************************************************)
(* The file system of the utility: superblock, inode table, data blocks,   *)
(* and every operation the user interface performs on them (Code/sfs.c,    *)
(* the write dialog of Code/ui.c, and the storing of a received file in    *)
(* Code/network.c).                                                        *)
(*                                                                         *)
(* One thread works on the image.  An operation that waits for nobody is   *)
(* one action.  Writing a file (which waits for the user at every          *)
(* character), receiving one (which waits for the sender) and              *)
(* defragmenting (one step per inode slot) are sequences of actions that   *)
(* work on private copies of an inode and of the bitmap and store them at  *)
(* the end.                                                                *)
(*                                                                         *)
(* A block is the sequence of directory entries the code decodes from it,  *)
(* up to the first entry whose inode number is 0: a cleared block is <<>>. *)
(* What a user types is a member of Texts, decoded in the same way,        *)
(* because the code reads a regular file as a directory where it does not  *)
(* look at the type.  Each 36 characters of a text are then an entry, and  *)
(* the first four of them its inode number, which is so large that the     *)
(* byte of the bitmap it indexes is not in memory.  Only the last entry of *)
(* a text may have fewer than four characters.  A last entry of one, as    *)
(* in a text of 1 or 37 or 73 characters, has the character's code for its *)
(* inode number, which may be in the table.  Texts of just two or three    *)
(* characters are left out: their byte may be another variable's.          *)
(***************************************************************************)
EXTENDS Integers, Sequences, FiniteSets, SequencesExt

CONSTANTS
    TOTAL_INODE,        \* inodes in the table
    TOTAL_BLOCKS,       \* data blocks
    MAX_BLOCK_COUNT,    \* block slots of an inode
    DirCapacity,        \* entries in a block: BLOCK_SIZE / sizeof(struct dirent)
    Names,              \* path components
    ShortNames,         \* those of fewer than four characters
    Extension,          \* the ending of each: "txt", "bin", "enc" or "none"
    Junk,               \* the name field of bytes that were never an entry
    Texts               \* what can be typed into one block

Inodes == 0 .. TOTAL_INODE - 1
Blocks == 0 .. TOTAL_BLOCKS - 1
Slots  == 1 .. MAX_BLOCK_COUNT

Root == 0       \* ROOT_INODE; no entry has this number, it ends a directory
NoBlock == 0    \* an unused slot; also the number of the root's own block

DIR == "DIR"
FIL == "FIL"

Node   == [type : {DIR, FIL}, blocks : [Slots -> Blocks]]
Dirent == [inode : Nat \ {0}, name : Names \cup {Junk}]

ASSUME SizesAssumption ==
    /\ TOTAL_INODE \in Nat /\ TOTAL_INODE >= 2
    /\ TOTAL_BLOCKS \in Nat /\ TOTAL_BLOCKS >= 1
    /\ MAX_BLOCK_COUNT \in Nat /\ MAX_BLOCK_COUNT >= 1
    /\ DirCapacity \in Nat /\ DirCapacity >= 1

ASSUME NamesAssumption ==
    /\ Junk \notin Names
    /\ ShortNames \subseteq Names

ASSUME TextsAssumption ==
    \A t \in Texts : /\ t \in Seq([inode : Nat \ {0}, name : {Junk}])
                     /\ Len(t) <= DirCapacity

\* Every typed text is empty or has four characters or more: then its first
\* entry has an inode number outside the table, whatever the last one has.
LongTexts ==
    \A t \in Texts : t # <<>> => t[1].inode \notin Inodes

VARIABLES
    (* the image on disk; a bitmap is the set of the numbers it marks *)
    bitmap_inode, bitmap_blocks, free_blocks, inode, block,
    (* what the program is doing, and the private data of a long operation *)
    mode,           \* "menu", "writing", "receiving", "defrag";
                    \* not running: "down", "crashed"
    cur,            \* the inode whose copy is held
    object,         \* the copy (file_inode, or object in defragment)
    block_index,    \* the slot in turn
    bitmap          \* defragment's copy of the block bitmap

disk  == <<bitmap_inode, bitmap_blocks, free_blocks, inode, block>>
local == <<cur, object, block_index, bitmap>>
vars  == <<disk, mode, local>>

-----------------------------------------------------------------------------
(* Inodes, blocks and bitmaps *)

EmptyNode(t) == [type |-> t, blocks |-> [s \in Slots |-> NoBlock]]

\* A cleared inode is all zeros, and type 0 is DIR.
ClearNode == EmptyNode(DIR)

WithBlock(node, s, b) == [node EXCEPT !.blocks = [@ EXCEPT ![s] = b]]

\* A seeded fault: only the first block.
NodeBlocksFirst(node) == {node.blocks[1]} \ {NoBlock}

\* The blocks a loop over the slots of a node meets before the first empty one.
NodeBlocks(node) ==
    {node.blocks[s] : s \in {r \in Slots : \A q \in 1 .. r : node.blocks[q] # NoBlock}}

\* find_free_block and find_free_inode: i is the lowest number not marked.
FirstFree(i, marked) ==
    /\ i \notin marked
    /\ \A j \in 0 .. i - 1 : j \in marked

\* A seeded fault: a block is taken and not marked.
TakeBlockUnmarked(b) == FirstFree(b, bitmap_blocks) /\ UNCHANGED bitmap_blocks

\* find_free_block and set_block.
TakeBlock(b) ==
    /\ FirstFree(b, bitmap_blocks)
    /\ bitmap_blocks' = bitmap_blocks \cup {b}

\* A seeded fault: an inode is taken and not marked.
TakeInodeUnmarked(i) == FirstFree(i, bitmap_inode) /\ UNCHANGED bitmap_inode

\* find_free_inode and set_inode.
TakeInode(i) ==
    /\ FirstFree(i, bitmap_inode)
    /\ bitmap_inode' = bitmap_inode \cup {i}

\* A directory without a block has 0 in its first slot, and 0 is the number
\* of the root's block: the code reads, and writes, the entries of the root.
DirBlock(d) == inode[d].blocks[1]
Entries(d)  == block[DirBlock(d)]

FirstMatch(entries, n, k) ==
    /\ entries[k].name = n
    /\ \A j \in 1 .. k - 1 : entries[j].name # n

\* A seeded fault: the loop begins at the second entry.
AbsentLate(entries, n) == \A k \in DOMAIN entries \ {1} : entries[k].name # n

Absent(entries, n) == \A k \in DOMAIN entries : entries[k].name # n

\* What find_parent_dir can return over all paths: the root, and whatever a
\* directory it can return names.  The type of the last one is not looked at.
ClosedUnderLookup(S) ==
    \A d \in S : inode[d].type = DIR =>
        \A n \in Names : \A k \in DOMAIN Entries(d) :
            FirstMatch(Entries(d), n, k) => Entries(d)[k].inode \in S

Parents ==
    {d \in Inodes : \A S \in SUBSET Inodes :
                        Root \in S /\ ClosedUnderLookup(S) => d \in S}

\* The condition of create_file, as written: longer than three characters
\* and not ending in all three extensions at once.
FileNameAccepted(n) ==
    /\ n \notin ShortNames
    /\ \/ Extension[n] # "txt"
       \/ Extension[n] # "bin"
       \/ Extension[n] # "enc"

-----------------------------------------------------------------------------
(* Starting and ending the program *)

\* A seeded fault: the root inode is not marked.
InitDiskRootFree ==
    /\ bitmap_inode = {}
    /\ bitmap_blocks = {0}
    /\ free_blocks = TOTAL_BLOCKS
    /\ inode = [i \in Inodes |-> EmptyNode(DIR)]
    /\ block = [b \in Blocks |-> <<>>]

InitDisk ==
    /\ bitmap_inode = {Root}
    /\ bitmap_blocks = {0}
    /\ free_blocks = TOTAL_BLOCKS
    /\ inode = [i \in Inodes |-> EmptyNode(DIR)]
    /\ block = [b \in Blocks |-> <<>>]

InitLocal ==
    /\ cur = Root
    /\ object = ClearNode
    /\ block_index = 1
    /\ bitmap = {}

Init == InitDisk /\ InitLocal /\ mode = "menu"

Running == mode \in {"menu", "writing", "receiving", "defrag"}

\* The private copies are dropped when an operation ends.
DropLocal ==
    /\ cur' = Root
    /\ object' = ClearNode
    /\ block_index' = 1
    /\ bitmap' = {}

\* A read below an array, or a bitmap byte written at index -1 or far outside
\* the table, ends the process.  Nothing reads the image it leaves: the next
\* start truncates it.
Crash ==
    /\ mode' = "crashed"
    /\ DropLocal
    /\ UNCHANGED disk

\* 'q' in the menu, or a signal at any time.
Stop ==
    /\ Running
    /\ mode' = "down"
    /\ DropLocal
    /\ UNCHANGED disk

\* main: sfs_init opens with O_TRUNC and formats, whatever the file held.
Start ==
    /\ ~Running
    /\ mode' = "menu"
    /\ bitmap_inode' = {Root}
    /\ bitmap_blocks' = {0}
    /\ free_blocks' = TOTAL_BLOCKS
    /\ inode' = [i \in Inodes |-> EmptyNode(DIR)]
    /\ block' = [b \in Blocks |-> <<>>]
    /\ UNCHANGED local

-----------------------------------------------------------------------------
(* Creating *)

LacksBlock(d, tbl) == tbl[d].blocks[1] = NoBlock /\ d # Root

\* add_dirent_to_dir, over the inode table tbl that the caller has written.
\* A full block keeps its entries, and the caller is not told.
AddDirent(d, entry, tbl) ==
    \E b \in Blocks :
        /\ IF LacksBlock(d, tbl)
             THEN TakeBlock(b)
             ELSE /\ b = tbl[d].blocks[1]
                  /\ UNCHANGED bitmap_blocks
        /\ IF Len(block[b]) = DirCapacity
             THEN /\ inode' = tbl
                  /\ UNCHANGED block
             ELSE /\ inode' = [tbl EXCEPT ![d] = WithBlock(tbl[d], 1, b)]
                  /\ block' = [block EXCEPT ![b] = Append(@, entry)]

WithInode(i, t) == [inode EXCEPT ![i] = EmptyNode(t)]

\* The inode is written and marked before its entry is added.
AddInode(i, d, n, t) ==
    /\ TakeInode(i)
    /\ AddDirent(d, [inode |-> i, name |-> n], WithInode(i, t))

\* The common tail of create_file and create_dir.  Neither checks the result
\* of find_free_inode, nor add_dirent_to_dir that of find_free_block.
AddObject(d, n, t) ==
    \/ Inodes \subseteq bitmap_inode /\ Crash
    \/ \E i \in Inodes :
          \/ /\ FirstFree(i, bitmap_inode)
             /\ LacksBlock(d, WithInode(i, t))
             /\ Blocks \subseteq bitmap_blocks
             /\ Crash
          \/ /\ AddInode(i, d, n, t)
             /\ UNCHANGED <<free_blocks, mode, local>>

CreateFile(d, n) ==
    /\ mode = "menu"
    /\ FileNameAccepted(n)
    /\ Absent(Entries(d), n)
    /\ AddObject(d, n, FIL)

\* create_dir does not look for an entry of the same name.
CreateDir(d, n) ==
    /\ mode = "menu"
    /\ AddObject(d, n, DIR)

-----------------------------------------------------------------------------
(* Deleting *)

\* A seeded fault: the freed blocks are not zeroed.
RemoveEntryDirty(d, k, S, B) ==
    /\ bitmap_inode' = bitmap_inode \ S
    /\ inode' = [i \in Inodes |-> IF i \in S THEN ClearNode ELSE inode[i]]
    /\ bitmap_blocks' = bitmap_blocks \ B
    /\ block' = [block EXCEPT ![DirBlock(d)] = RemoveAt(@, k)]
    /\ UNCHANGED <<free_blocks, mode, local>>

\* A seeded fault: the entry stays in the directory.
RemoveEntryKept(d, k, S, B) ==
    /\ bitmap_inode' = bitmap_inode \ S
    /\ inode' = [i \in Inodes |-> IF i \in S THEN ClearNode ELSE inode[i]]
    /\ bitmap_blocks' = bitmap_blocks \ B
    /\ block' = [b \in Blocks |-> IF b \in B THEN <<>> ELSE block[b]]
    /\ UNCHANGED <<free_blocks, mode, local>>

\* The inodes in S are cleared, the blocks in B are freed and zeroed, and the
\* directory's block is written back without entry k.
RemoveEntry(d, k, S, B) ==
    /\ bitmap_inode' = bitmap_inode \ S
    /\ inode' = [i \in Inodes |-> IF i \in S THEN ClearNode ELSE inode[i]]
    /\ bitmap_blocks' = bitmap_blocks \ B
    /\ block' = [b \in Blocks |-> IF b = DirBlock(d) THEN RemoveAt(Entries(d), k)
                                  ELSE IF b \in B THEN <<>> ELSE block[b]]
    /\ UNCHANGED <<free_blocks, mode, local>>

\* delete_file takes whatever has the name, a directory too.
DeleteFile(d, n) ==
    /\ mode = "menu"
    /\ \E k \in DOMAIN Entries(d) :
          /\ FirstMatch(Entries(d), n, k)
          /\ LET t == Entries(d)[k].inode IN
                /\ t \in Inodes
                /\ RemoveEntry(d, k, {t}, NodeBlocks(inode[t]))

\* delete_dir reads the block of its target t as a directory whatever the
\* type of t; below it the type decides.
ReadAsDir(p, t) == inode[p].blocks[1] # NoBlock /\ (p = t \/ inode[p].type = DIR)

Children(p) == {Entries(p)[k].inode : k \in DOMAIN Entries(p)}

\* A seeded fault: what is below the entries of t is not gone through.
DoomedShallow(t) == {t} \cup (IF ReadAsDir(t, t) THEN Children(t) \cap Inodes ELSE {})

\* What delete_dir and delete_dir_inode go through, from t downwards.
Doomed(t) ==
    {i \in Inodes : \A S \in SUBSET Inodes :
        (/\ t \in S
         /\ \A p \in S : ReadAsDir(p, t) => Children(p) \cap Inodes \subseteq S)
        => i \in S}

\* The inodes that the directories gone through name.
Listed(t) == UNION {Children(p) : p \in {q \in Doomed(t) : ReadAsDir(q, t)}}

\* Of a file named below t every block is freed, of the others the first.
DoomedBlocks(t) ==
    UNION {IF inode[i].type = FIL /\ i \in Listed(t)
             THEN NodeBlocks(inode[i])
             ELSE {inode[i].blocks[1]} \ {NoBlock} : i \in Doomed(t)}

\* Text read as entries has inode numbers outside the table, and a directory
\* below itself is gone through without end.
Endless(t) ==
    \/ ~(Listed(t) \subseteq Inodes)
    \/ \E S \in (SUBSET {p \in Doomed(t) : inode[p].type = DIR}) \ {{}} :
          \A p \in S : ReadAsDir(p, t) /\ Children(p) \cap S # {}

DeleteDir(d, n) ==
    /\ mode = "menu"
    /\ \E k \in DOMAIN Entries(d) :
          /\ FirstMatch(Entries(d), n, k)
          /\ LET t == Entries(d)[k].inode IN
                /\ t \in Inodes
                /\ \/ Endless(t) /\ Crash
                   \/ ~Endless(t) /\ RemoveEntry(d, k, Doomed(t), DoomedBlocks(t))

\* delete_dir prints the last component before it checks that there is one;
\* the write and read dialogs compare with it if the root has an entry.
EmptyPath ==
    /\ mode = "menu"
    /\ Crash

-----------------------------------------------------------------------------
(* Writing a file: write_to_file_dialog *)

\* The first block of the session is always a new one.
OpenForWrite(d, n) ==
    /\ mode = "menu"
    /\ \E k \in DOMAIN Entries(d) :
          /\ FirstMatch(Entries(d), n, k)
          /\ LET t == Entries(d)[k].inode IN
                /\ t \in Inodes
                /\ inode[t].type = FIL
                /\ \E b \in Blocks :
                      /\ TakeBlock(b)
                      /\ object' = WithBlock(inode[t], 1, b)
                /\ cur' = t
    /\ mode' = "writing"
    /\ block_index' = 1
    /\ UNCHANGED <<bitmap_inode, free_blocks, inode, block, bitmap>>

\* The copy of the inode, with its new blocks, is stored.
CloseFile ==
    /\ inode' = [inode EXCEPT ![cur] = object]
    /\ mode' = "menu"
    /\ DropLocal

\* A text that fills its block has no byte 0, so every entry in it, the last
\* too, has an inode number of four characters.
FillsBlock(text) ==
    /\ Len(text) = DirCapacity
    /\ \A k \in DOMAIN text : text[k].inode \notin Inodes

\* The user has typed a whole block.  If it was the last the file may have the
\* dialog ends, else the next block is taken, again without looking whether
\* there is one.
FillBlock(text) ==
    /\ mode = "writing"
    /\ FillsBlock(text)
    /\ UNCHANGED <<bitmap_inode, free_blocks>>
    /\ \/ /\ block_index = MAX_BLOCK_COUNT
          /\ block' = [block EXCEPT ![object.blocks[block_index]] = text]
          /\ UNCHANGED bitmap_blocks
          /\ CloseFile
       \/ /\ block_index < MAX_BLOCK_COUNT
          /\ Blocks \subseteq bitmap_blocks
          /\ Crash
       \/ /\ block_index < MAX_BLOCK_COUNT
          /\ block' = [block EXCEPT ![object.blocks[block_index]] = text]
          /\ \E b \in Blocks :
                /\ TakeBlock(b)
                /\ object' = WithBlock(object, block_index + 1, b)
          /\ block_index' = block_index + 1
          /\ UNCHANGED <<inode, mode, cur, bitmap>>

\* Esc: the block in hand is written as far as it was typed.
FinishWrite(text) ==
    /\ mode = "writing"
    /\ block' = [block EXCEPT ![object.blocks[block_index]] = text]
    /\ CloseFile
    /\ UNCHANGED <<bitmap_inode, bitmap_blocks, free_blocks>>

-----------------------------------------------------------------------------
(* Receiving a file: the accepted request in check_incoming_requests *)

\* create_file in the root has made the inode; its copy collects the blocks.
\* A name that create_file refuses is not followed here.
AcceptFile(n) ==
    /\ mode = "menu"
    /\ FileNameAccepted(n)
    /\ Absent(Entries(Root), n)
    /\ \/ Inodes \subseteq bitmap_inode /\ Crash
       \/ \E i \in Inodes :
             /\ AddInode(i, Root, n, FIL)
             /\ cur' = i
             /\ object' = EmptyNode(FIL)
             /\ mode' = "receiving"
             /\ block_index' = 1
             /\ UNCHANGED <<free_blocks, bitmap>>

\* A seeded fault: the slot after the one in turn is used.
ReceiveBlockLate(text) ==
    /\ mode = "receiving"
    /\ block_index < MAX_BLOCK_COUNT
    /\ \E b \in Blocks :
          /\ TakeBlock(b)
          /\ block' = [block EXCEPT ![b] = text]
          /\ object' = WithBlock(object, block_index + 1, b)
    /\ block_index' = block_index + 1
    /\ UNCHANGED <<bitmap_inode, free_blocks, inode, mode, cur, bitmap>>

\* What one recv returned goes to a block of its own.
ReceiveBlock(text) ==
    /\ mode = "receiving"
    /\ block_index <= MAX_BLOCK_COUNT
    /\ \/ Blocks \subseteq bitmap_blocks /\ Crash
       \/ \E b \in Blocks :
             /\ TakeBlock(b)
             /\ block' = [block EXCEPT ![b] = text]
             /\ object' = WithBlock(object, block_index, b)
             /\ block_index' = block_index + 1
             /\ UNCHANGED <<bitmap_inode, free_blocks, inode, mode, cur, bitmap>>

\* A seeded fault: the inode is not stored.
StoreReceivedNot ==
    /\ mode = "receiving"
    /\ mode' = "menu"
    /\ DropLocal
    /\ UNCHANGED disk

\* The sender has closed the connection, or every slot is used.
StoreReceived ==
    /\ mode = "receiving"
    /\ CloseFile
    /\ UNCHANGED <<bitmap_inode, bitmap_blocks, free_blocks, block>>

-----------------------------------------------------------------------------
(* The tools *)

\* check_filesystem_dialog.  check_blocks visits inode 0 each time round its
\* loop; check_metadata recounts; check_duplicates only reports.
CheckFilesystem ==
    /\ mode = "menu"
    /\ bitmap_blocks' = bitmap_blocks \cup NodeBlocks(inode[Root])
    /\ free_blocks' = Cardinality((Blocks \ {0}) \ bitmap_blocks')
    /\ UNCHANGED <<bitmap_inode, inode, block, mode, local>>

\* A seeded fault: the loop begins at inode 2.
DefragStartLate ==
    /\ mode = "menu"
    /\ mode' = "defrag"
    /\ cur' = 2
    /\ object' = inode[2]
    /\ block_index' = 1
    /\ bitmap' = bitmap_blocks
    /\ UNCHANGED disk

DefragStart ==
    /\ mode = "menu"
    /\ mode' = "defrag"
    /\ cur' = 1
    /\ object' = inode[1]
    /\ block_index' = 1
    /\ bitmap' = bitmap_blocks
    /\ UNCHANGED disk

\* There is a block in the slot in turn.
DefragHere == block_index <= MAX_BLOCK_COUNT /\ object.blocks[block_index] # NoBlock

\* A seeded fault: block k is not marked.
MoveBlockUnmarked(b, k) ==
    /\ block' = [block EXCEPT ![k] = block[b], ![b] = <<>>]
    /\ bitmap' = bitmap \ {b}
    /\ object' = WithBlock(object, block_index, k)

\* A seeded fault: the old block is cleared before it is copied.
MoveBlockCleared(b, k) ==
    /\ block' = [block EXCEPT ![k] = <<>>, ![b] = <<>>]
    /\ bitmap' = (bitmap \cup {k}) \ {b}
    /\ object' = WithBlock(object, block_index, k)

MoveBlock(b, k) ==
    /\ block' = [block EXCEPT ![k] = block[b], ![b] = <<>>]
    /\ bitmap' = (bitmap \cup {k}) \ {b}
    /\ object' = WithBlock(object, block_index, k)

\* The block is moved to the lowest free one, if that is below it.
DefragSlot ==
    /\ mode = "defrag"
    /\ DefragHere
    /\ block_index' = block_index + 1
    /\ LET b == object.blocks[block_index] IN
          \/ /\ 1 .. b - 1 \subseteq bitmap
             /\ UNCHANGED <<block, bitmap, object>>
          \/ \E k \in 1 .. b - 1 :
                /\ k \notin bitmap
                /\ 1 .. k - 1 \subseteq bitmap
                /\ MoveBlock(b, k)
    /\ UNCHANGED <<bitmap_inode, bitmap_blocks, free_blocks, inode, mode, cur>>

\* The inode is stored; after the last one the bitmap is stored too.
DefragStore ==
    /\ mode = "defrag"
    /\ ~DefragHere
    /\ inode' = [inode EXCEPT ![cur] = object]
    /\ \/ /\ cur < TOTAL_INODE - 1
          /\ cur' = cur + 1
          /\ object' = inode[cur + 1]
          /\ block_index' = 1
          /\ UNCHANGED <<bitmap_blocks, bitmap, mode>>
       \/ /\ cur = TOTAL_INODE - 1
          /\ bitmap_blocks' = bitmap
          /\ mode' = "menu"
          /\ DropLocal
    /\ UNCHANGED <<bitmap_inode, free_blocks, block>>

-----------------------------------------------------------------------------

Next ==
    \/ \E d \in Parents, n \in Names :
          \/ CreateFile(d, n)
          \/ CreateDir(d, n)
          \/ DeleteFile(d, n)
          \/ DeleteDir(d, n)
          \/ OpenForWrite(d, n)
    \/ EmptyPath
    \/ \E n \in Names : AcceptFile(n)
    \/ \E text \in Texts : FillBlock(text) \/ FinishWrite(text) \/ ReceiveBlock(text)
    \/ StoreReceived
    \/ CheckFilesystem
    \/ DefragStart
    \/ DefragSlot
    \/ DefragStore
    \/ Stop
    \/ Start

Spec == Init /\ [][Next]_vars

-----------------------------------------------------------------------------
(* Properties *)

\* While an inode is held in a private copy, the copy is what counts.
Held == mode \in {"writing", "receiving", "defrag"}
View(i) == IF Held /\ i = cur THEN object ELSE inode[i]
Marked  == IF mode = "defrag" THEN bitmap ELSE bitmap_blocks

\* Every variable keeps its type.
TypeOK ==
    /\ bitmap_inode \subseteq Inodes
    /\ bitmap_blocks \subseteq Blocks
    /\ free_blocks \in Nat
    /\ inode \in [Inodes -> Node]
    /\ block \in [Blocks -> Seq(Dirent)]
    /\ mode \in {"menu", "writing", "receiving", "defrag", "down", "crashed"}
    /\ cur \in Inodes
    /\ object \in Node
    /\ block_index \in 1 .. MAX_BLOCK_COUNT + 1
    /\ bitmap \subseteq Blocks

\* No block is in two slots, of one inode or of two, in the middle of a write
\* or of a defragmentation too.  Allocation (find_free_block then set_block)
\* and defragment keep it; check_duplicates looks for its failure.
NoSharedBlock ==
    Running =>
        \A i, j \in Inodes : \A r, s \in Slots :
            View(i).blocks[r] # NoBlock /\ View(i).blocks[r] = View(j).blocks[s]
                => i = j /\ r = s

\* A block that some inode uses is marked in the bitmap, so that it is not
\* given out again; check_blocks is there to restore this.
UsedBlocksMarked ==
    Running =>
        \A i \in Inodes : \A s \in Slots :
            View(i).blocks[s] # NoBlock => View(i).blocks[s] \in Marked

\* When a defragmentation ends no block that an inode uses has a free block
\* below it.  A block of an early inode must have found its place before the
\* blocks of the later ones move and free theirs.
DefragCompacts ==
    [][mode = "defrag" /\ mode' = "menu" =>
          \A i \in Inodes : \A s \in Slots :
              1 .. inode'[i].blocks[s] - 1 \subseteq bitmap_blocks']_vars

\* A free block is empty and a free inode is clear: a directory's new block
\* must hold no entry, because add_dirent_to_dir does not clear it.
FreeSpaceClean ==
    Running =>
        /\ \A b \in Blocks \ Marked : block[b] = <<>>
        /\ \A i \in Inodes \ bitmap_inode : View(i) = ClearNode

\* An inode's used slots come before its empty ones: deleting, reading and
\* sending a file, defragmentation and the check all stop at the first empty
\* slot, and would lose the blocks behind it.
NoGap ==
    Running =>
        \A i \in Inodes : \A s, r \in Slots :
            View(i).blocks[s] = NoBlock /\ s < r => View(i).blocks[r] = NoBlock

\* The blocks some inode uses.
Owned == {View(i).blocks[s] : i \in Inodes, s \in Slots} \ {NoBlock}

\* A block stays marked with no inode to use it only where a file is written
\* again, which forgets the block of the slot in turn, or where a regular file
\* is deleted as a directory, of which only the first block is freed.
BlocksLostOnlyByRewriting ==
    [][Running /\ Running' /\ (Owned \ Owned') \cap Marked' # {} =>
          \/ mode' = "writing" /\ Owned \ Owned' = {inode[cur'].blocks[block_index']}
          \/ \E d \in Parents, n \in Names :
                /\ DeleteDir(d, n)
                /\ \E k \in DOMAIN Entries(d) :
                      /\ FirstMatch(Entries(d), n, k)
                      /\ inode[Entries(d)[k].inode].type = FIL
      ]_vars

\* What the code reads as the entries of inode i, a regular file's text too:
\* delete_dir and a path through a file look at no type.
EntriesOf(i) == IF i # Root /\ View(i).blocks[1] = NoBlock
                  THEN <<>> ELSE block[View(i).blocks[1]]

\* Those that add_dirent_to_dir put there, in a directory or behind the text of
\* a file used as one.  What a text spells is an entry of no name, and may have
\* any number.
Links(i) == {k \in DOMAIN EntriesOf(i) : EntriesOf(i)[k].name # Junk}

\* No entry outlives the inode it names.
EntriesAreLive ==
    Running =>
        \A i \in Inodes : \A k \in Links(i) : EntriesOf(i)[k].inode \in bitmap_inode

\* An inode has at most one name.
OneNamePerInode ==
    Running =>
        \A i, j \in Inodes : \A k \in Links(i), l \in Links(j) :
            EntriesOf(i)[k].inode = EntriesOf(j)[l].inode => i = j /\ k = l

\* No directory is below itself, and no file used as one: every set of inodes
\* has a member with no entry for another member.  The recursion of
\* delete_dir_inode ends because of it; a text ends the program before that
\* (Endless).
NoCycle ==
    Running =>
        \A S \in (SUBSET Inodes) \ {{}} :
            \E i \in S : \A k \in Links(i) : EntriesOf(i)[k].inode \notin S

\* An inode in use loses its name only with the directory that named it, and
\* that only if delete_file took it for a file, or if it is a file that was
\* used as a directory: delete_dir leaves nothing of what is below behind.
Named(i) == \E d \in Inodes : \E k \in Links(d) : EntriesOf(d)[k].inode = i

OrphansOnlyByDeleteFile ==
    [][Running /\ Running' =>
          \A i \in (bitmap_inode \cap bitmap_inode') \ {Root}, d \in Inodes :
             ~Named(i)' /\ i \in {EntriesOf(d)[k].inode : k \in Links(d)} =>
                \/ inode[d].type = FIL
                \/ /\ d \notin bitmap_inode'
                   /\ \E p \in Parents, n \in Names : DeleteFile(p, n)
      ]_vars

\* What read_file_dialog shows of inode i.
FileData(i) ==
    LET node == View(i)
        used == {r \in Slots : \A q \in 1 .. r : node.blocks[q] # NoBlock}
    IN [s \in used |-> block[node.blocks[s]]]

\* What a regular file holds changes only when that file is written, or used
\* as a directory; no operation on another file or directory, and no
\* defragmentation, changes it.
DataChangesOnlyByItsOwn ==
    [][Running /\ Running' =>
       \A i \in bitmap_inode \cap bitmap_inode' :
          inode[i].type = FIL /\ FileData(i)' # FileData(i) =>
              \/ mode \in {"writing", "receiving"} /\ cur = i
              \/ mode' = "writing" /\ cur' = i
              \/ \E n \in Names : \/ CreateFile(i, n) \/ CreateDir(i, n)
                                  \/ DeleteFile(i, n) \/ DeleteDir(i, n)
      ]_vars

\* The contents of files are those of FileStore: what a file holds outlives
\* the creation, deletion and writing of others, defragmentation, and the
\* check; a session writes the slots in turn and keeps the rest.
FileType(i) == View(i).type = FIL

FileContents == IF Running THEN [i \in {j \in Inodes : FileType(j)} |-> FileData(i)]
                ELSE [i \in {} |-> i]

FileSession ==
    CASE mode = "writing" -> [kind |-> "write", file |-> cur, slot |-> block_index]
      [] mode = "receiving" -> [kind |-> "receive", file |-> cur, slot |-> block_index]
      [] OTHER -> [kind |-> "none"]

Store == INSTANCE FileStore WITH
    Files <- Inodes,
    Length <- MAX_BLOCK_COUNT,
    Texts <- Texts,
    running <- Running,
    content <- FileContents,
    session <- FileSession

ImplementsStore == Store!Spec
=============================================================================
