------------------------------ MODULE Utility ------------------------------
(***************************************************************************)
(* The whole program on the receiving side: the file system of Sfs and the *)
(* threads of Transfer, which meet in check_incoming_requests.  The user   *)
(* interface thread does one thing at a time: an operation on the image,   *)
(* or going through the queue.  The root that Transfer looks through is    *)
(* the one in the image; a received block is taken from it.                *)
(*                                                                         *)
(* A file whose name create_file refuses is received all the same, and its *)
(* inode stored under the negative code.  The table of inodes follows the  *)
(* superblock, so that this is the end of the block bitmap.                *)
(***************************************************************************)
EXTENDS Sfs

CONSTANTS
    Senders, Killable, Nobody, MAX_PENDING_REQUESTS, Timeout, Lead, MaxAge,
    FileName,           \* of each sender's file
    FileText,           \* what its blocks hold
    INODE_SIZE,         \* bytes of an inode
    HEADER_SIZE,        \* and those before its block numbers, of two bytes each
    MaxOperations       \* operations on the image the user begins

ASSUME LayoutAssumption ==
    /\ HEADER_SIZE \in Nat /\ INODE_SIZE \in Nat
    /\ HEADER_SIZE + 2 * MAX_BLOCK_COUNT <= INODE_SIZE
    /\ 4 * INODE_SIZE < TOTAL_BLOCKS        \* create_file returns -4 at the least
    /\ TOTAL_BLOCKS <= 256                  \* the high byte of a block's number is 0

ASSUME SentAssumption ==
    /\ IsFiniteSet(Senders) /\ Nobody \notin Senders
    /\ FileName \in [Senders -> Names]
    /\ \A s \in Senders : FileText[s] \in Seq(Texts) /\ Len(FileText[s]) <= MAX_BLOCK_COUNT

ASSUME TransferAssumption ==
    /\ MAX_PENDING_REQUESTS \in Nat \ {0}
    /\ Timeout \in Nat \ {0}
    /\ MaxAge \in Nat /\ MaxAge >= Timeout
    /\ Lead \in [Senders -> Int] /\ \A s \in Senders : Timeout + Lead[s] <= MaxAge

VARIABLES
    pc, result, age, sent, backlog, fd, closed, answer, got, server, client, fm,
    mutex, pending_requests, request_count, ui, turn, calls, torn, created, stored,
    code,           \* what create_file returned if it refused, else 0
    before,         \* the bitmap when file_inode was read from inside it
    damaged,        \* storing it has damaged the image
    operations      \* begun so far

RootNames == [k \in DOMAIN Entries(Root) |-> Entries(Root)[k].name]

T == INSTANCE Transfer WITH
    i <- turn,
    root <- RootNames,
    Pieces <- 1,
    FileBlocks <- [s \in Senders |-> Len(FileText[s])],
    RootNames <- <<>>,
    RootCapacity <- DirCapacity

image   == vars
network == <<pc, result, age, sent, backlog, fd, closed, answer, got, server, client, fm,
             mutex, pending_requests, request_count, ui, turn, calls, torn, created, stored>>
refused == <<code, before, damaged>>
uvars   == <<image, network, refused, operations>>

UtilityInit ==
    /\ Init
    /\ T!Init
    /\ code = 0
    /\ before = {}
    /\ damaged = FALSE
    /\ operations = 0

-----------------------------------------------------------------------------
(* The user at work on the image *)

Begin ==
    \/ \E d \in Parents, n \in Names :
          CreateFile(d, n) \/ CreateDir(d, n) \/ DeleteFile(d, n) \/ DeleteDir(d, n)
            \/ OpenForWrite(d, n)
    \/ EmptyPath \/ CheckFilesystem \/ DefragStart

Continue ==
    \/ \E text \in Texts : FillBlock(text) \/ FinishWrite(text)
    \/ DefragSlot
    \/ DefragStore

\* The server thread ends with the process.
WithProcess(step) == IF mode' = "crashed" THEN T!Exit ELSE step

Local ==
    /\ ui = "menu"
    /\ \/ /\ operations < MaxOperations
          /\ operations' = operations + 1
          /\ Begin
       \/ Continue /\ UNCHANGED operations
    /\ WithProcess(UNCHANGED network)
    /\ UNCHANGED refused

Quit ==
    /\ Stop
    /\ T!Exit
    /\ UNCHANGED <<refused, operations>>

-----------------------------------------------------------------------------
(* Others, and the user interface where it does not touch the image *)

Network ==
    /\ UNCHANGED <<image, refused, operations>>
    /\ \/ \E s \in Senders : T!Connect(s) \/ T!SenderStep(s) \/ T!Kill(s)
       \/ T!Accept \/ T!ReceiveMetadata \/ T!Enqueue
       \/ mode = "menu" /\ T!CheckStart
       \/ T!UserAccepts \/ T!UserRefuses \/ T!PromptExpires
       \/ T!AcceptExisting \/ T!LoopEnd \/ T!CheckEnd
       \/ T!Tick

-----------------------------------------------------------------------------
(* An accepted file *)

NameSent == T!NameOf(T!Current.fm)

\* What create_file returns for a name without an inode.
CreateCode(n) ==
    IF ~FileNameAccepted(n) THEN -2 ELSE IF ~Absent(Entries(Root), n) THEN -4 ELSE 0

Accept ==
    /\ ui = "accepted"
    /\ AcceptFile(NameSent)
    /\ WithProcess(T!AcceptNew)
    /\ UNCHANGED <<refused, operations>>

AcceptRefused ==
    /\ ui = "accepted"
    /\ CreateCode(NameSent) # 0
    /\ UNCHANGED <<image, damaged, operations>>
    /\ T!AcceptNew
    /\ code' = CreateCode(NameSent)
    /\ before' = bitmap_blocks

\* A block for what was sent under a refused name.
ReceiveLost(text) ==
    \/ Blocks \subseteq bitmap_blocks /\ Crash
    \/ \E b \in Blocks :
          /\ TakeBlock(b)
          /\ block' = [block EXCEPT ![b] = text]
          /\ UNCHANGED <<bitmap_inode, free_blocks, inode, mode, local>>

\* One block is written, for the inode of the file or for a refused name.
WriteReceived(text) ==
    \/ code = 0 /\ ReceiveBlock(text)
    \/ code # 0 /\ ReceiveLost(text)

Receive ==
    /\ ui = "receiving"
    /\ calls < MAX_BLOCK_COUNT
    /\ \E s \in T!Peers :
          /\ T!Unread(s) > 0
          /\ WriteReceived(FileText[s][got[s] + 1])
    /\ WithProcess(T!ReceivePart)
    /\ UNCHANGED <<refused, operations>>

\* What is on the stack is taken to be a text.
ReceiveFailed ==
    /\ ui = "receiving"
    /\ calls = 0
    /\ \E s \in T!Peers : pc[s] = "reset"
    /\ \E text \in Texts : WriteReceived(text)
    /\ WithProcess(T!ReceiveError)
    /\ UNCHANGED <<refused, operations>>

StoreNamed ==
    /\ code = 0
    /\ StoreReceived
    /\ T!StoreFile
    /\ UNCHANGED <<refused, operations>>

\* The bytes of the bitmap that the inode of number code lies on, and the
\* lower one of its j-th block number.
First    == TOTAL_BLOCKS + code * INODE_SIZE
Overlaid == First .. First + INODE_SIZE - 1
LowByte(j) == First + HEADER_SIZE + 2 * (j - 1)

\* A block in use that is not marked is given out again, and what a free one
\* holds would be a new directory's.
Intact == UsedBlocksMarked /\ FreeSpaceClean

\* These bytes are written back as they were read, but for the numbers of the
\* blocks received: a lower byte is not 0 and marks, a higher one is 0.
StoreRefused ==
    /\ code # 0
    /\ bitmap_blocks' =
          ((bitmap_blocks \ Overlaid) \cup (before \cap Overlaid) \cup {LowByte(j) : j \in 1 .. calls})
             \ {LowByte(j) + 1 : j \in 1 .. calls}
    /\ code' = 0
    /\ before' = {}
    /\ UNCHANGED <<bitmap_inode, free_blocks, inode, block, mode, local, operations>>
    /\ damaged' = (damaged \/ ~Intact')
    /\ T!StoreFile

-----------------------------------------------------------------------------

UtilityNext ==
    \/ Local
    \/ Quit
    \/ Network
    \/ Accept \/ AcceptRefused \/ Receive \/ ReceiveFailed \/ StoreNamed \/ StoreRefused

UtilitySpec == UtilityInit /\ [][UtilityNext]_uvars

-----------------------------------------------------------------------------
(* Properties *)

\* The root has what s sent under its name.
HasFileOf(s) ==
    \E k \in DOMAIN Entries(Root) :
       LET entry == Entries(Root)[k] IN
          /\ entry.name = FileName[s]
          /\ entry.inode \in bitmap_inode
          /\ FileData(entry.inode) = FileText[s]

\* A file counted as stored is in the root under its name, with what was sent:
\* taking blocks, naming the inode and storing it at the end (AcceptFile,
\* ReceiveBlock, StoreReceived) fit with what the threads do to the request.
StoredAsSent ==
    [][\A s \in stored' \ stored : HasFileOf(s)']_uvars

\* No other step of the program than storing a file under a refused name takes
\* the mark from a block in use or leaves anything in a free one: not receiving,
\* whatever the user did to the image before, nor what the user does after it.
\* From a damaged image anything may follow.
OnlyRefusedDamages ==
    [][~damaged /\ ~Intact' => StoreRefused]_uvars

\* A directory names at most one regular file by a name, whether the user or
\* a sender made it.
FilesNamedOnce ==
    Running /\ ~damaged =>
        \A d \in Inodes : \A k, l \in Links(d) :
            /\ FileType(EntriesOf(d)[k].inode) /\ FileType(EntriesOf(d)[l].inode)
            /\ EntriesOf(d)[k].name = EntriesOf(d)[l].name
            => k = l
=============================================================================
