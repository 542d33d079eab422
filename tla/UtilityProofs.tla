--------------------------- MODULE UtilityProofs ---------------------------
(***************************************************************************)
(* Proofs about Utility: what holds of the file system and of the transfer *)
(* apart holds of them together, and what they only promise together.      *)
(*                                                                         *)
(* Every step is one of Transfer or leaves its state alone (NetworkKeeps), *)
(* so that the invariant of TransferProofs holds here.  On the image it is *)
(* an operation of Sfs or has to do with a refused name (ImageStep), so    *)
(* that the invariants of SfsDataProofs hold until storing under a refused *)
(* name damages the image.  Linked ties the halves to each other: the      *)
(* image is in a reception just when the user interface is.                *)
(*                                                                         *)
(* That a stored file is as it was sent is shown apart, from an invariant  *)
(* (SentInv) that a damaged image keeps too: a block that is received goes *)
(* into one that is not marked, and those that have already arrived are.   *)
(***************************************************************************)
EXTENDS Utility, SfsDataProofs

\* What is proved of Transfer, for this root, these files and this thread.
TP == INSTANCE TransferProofs WITH
    i <- turn,
    root <- RootNames,
    Pieces <- 1,
    FileBlocks <- [s \in Senders |-> Len(FileText[s])],
    RootNames <- <<>>,
    RootCapacity <- DirCapacity

\* What the proofs of Transfer assume holds of the files that are sent.
LEMMA Assumed ==
    TP!SendersAssumption /\ TP!LimitsAssumption /\ TP!ClocksAssumption /\ TP!FilesAssumption
<1>1. \A s \in Senders : Len(FileText[s]) \in 0 .. MAX_BLOCK_COUNT
  BY SentAssumption
<1>2. TP!SendersAssumption
  BY SentAssumption DEF TP!SendersAssumption, TP!IsFiniteSet, IsFiniteSet
<1>3. TP!LimitsAssumption
  BY SizesAssumption, TransferAssumption DEF TP!LimitsAssumption
<1>4. TP!ClocksAssumption
  BY TransferAssumption DEF TP!ClocksAssumption
<1>5. TP!FilesAssumption
  BY <1>1, SentAssumption DEF TP!FilesAssumption
<1>6. QED
  BY <1>2, <1>3, <1>4, <1>5

\* The definitions reached through T and through TP are the same: the senders,
LEMMA SameSenders ==
    ASSUME NEW s
    PROVE  (T!Connect(s) => TP!Connect(s)) /\ (T!SenderStep(s) => TP!SenderStep(s))
           /\ (T!Kill(s) => TP!Kill(s))
<1> USE DEF T!sender, TP!sender, T!thread, TP!thread, T!queue, TP!queue, T!file, TP!file,
     T!check, TP!check, T!connection, TP!connection, T!receiver, TP!receiver
<1>1. T!Connect(s) => TP!Connect(s)
  BY DEF T!Connect, TP!Connect
<1>2. T!SenderStep(s) => TP!SenderStep(s)
  BY DEF T!SenderStep, TP!SenderStep, T!ConnectFails, TP!ConnectFails, T!FindFails, TP!FindFails,
     T!SendMetadata, TP!SendMetadata, T!PollTimeout, TP!PollTimeout, T!LeaveLate, TP!LeaveLate,
     T!Gone, TP!Gone, T!ReadAnswer, TP!ReadAnswer,
     T!SendBlock, TP!SendBlock, T!BrokenPipe, TP!BrokenPipe, T!SendDone, TP!SendDone,
     T!Return, TP!Return, T!Readable, TP!Readable
<1>4. T!Kill(s) => TP!Kill(s)
  BY DEF T!Kill, TP!Kill, T!Gone, TP!Gone
<1>3. QED
  BY <1>1, <1>2, <1>4

\* and the two threads of the program.
LEMMA SameReceiver ==
    /\ T!Accept => TP!Accept
    /\ T!ReceiveMetadata => TP!ReceiveMetadata
    /\ T!Enqueue => TP!Enqueue
    /\ T!CheckStart => TP!CheckStart
    /\ T!UserAccepts => TP!UserAccepts
    /\ T!UserRefuses => TP!UserRefuses
    /\ T!PromptExpires => TP!PromptExpires
    /\ T!AcceptExisting => TP!AcceptExisting
    /\ T!AcceptNew => TP!AcceptNew
    /\ T!ReceivePart => TP!ReceivePart
    /\ T!ReceiveError => TP!ReceiveError
    /\ T!StoreFile => TP!StoreFile
    /\ T!LoopEnd => TP!LoopEnd
    /\ T!CheckEnd => TP!CheckEnd
    /\ T!Exit => TP!Exit
    /\ T!Tick => TP!Tick
<1> USE DEF T!sender, TP!sender, T!thread, TP!thread, T!queue, TP!queue, T!file, TP!file,
     T!check, TP!check, T!connection, TP!connection, T!receiver, TP!receiver,
     T!Current, TP!Current, T!Prompting, TP!Prompting, T!Expired, TP!Expired, T!Peers, TP!Peers,
     T!CloseDescriptors, TP!CloseDescriptors, T!SendAnswer, TP!SendAnswer, T!AnswerYes, TP!AnswerYes,
     T!NameOf, TP!NameOf, T!SameName, TP!SameName, T!EndReceiving, TP!EndReceiving, T!Unread, TP!Unread,
     T!Requests, TP!Requests, T!NoRequest, TP!NoRequest, T!SenderClosed, TP!SenderClosed,
     T!MetadataSent, TP!MetadataSent
<1>1. T!Accept => TP!Accept
  BY DEF T!Accept, TP!Accept, T!Cardinality, TP!Cardinality
<1>2. T!ReceiveMetadata => TP!ReceiveMetadata
  BY DEF T!ReceiveMetadata, TP!ReceiveMetadata
<1>3. T!Enqueue => TP!Enqueue
  BY DEF T!Enqueue, TP!Enqueue, T!EnqueueRequest, TP!EnqueueRequest
<1>4. T!CheckStart => TP!CheckStart
  BY DEF T!CheckStart, TP!CheckStart, T!DropExpired, TP!DropExpired
<1>5. T!UserAccepts => TP!UserAccepts
  BY DEF T!UserAccepts, TP!UserAccepts
<1>6. T!UserRefuses => TP!UserRefuses
  BY DEF T!UserRefuses, TP!UserRefuses, T!Refuse, TP!Refuse
<1>7. T!PromptExpires => TP!PromptExpires
  BY DEF T!PromptExpires, TP!PromptExpires, T!Refuse, TP!Refuse
<1>8. T!AcceptExisting => TP!AcceptExisting
  BY DEF T!AcceptExisting, TP!AcceptExisting
<1>9. T!AcceptNew => TP!AcceptNew
  BY DEF T!AcceptNew, TP!AcceptNew
<1>10. T!ReceivePart => TP!ReceivePart
  BY DEF T!ReceivePart, TP!ReceivePart
<1>11. T!StoreFile => TP!StoreFile
  BY DEF T!StoreFile, TP!StoreFile
<1>12. T!LoopEnd => TP!LoopEnd
  BY DEF T!LoopEnd, TP!LoopEnd
<1>13. T!CheckEnd => TP!CheckEnd
  BY DEF T!CheckEnd, TP!CheckEnd
<1>14. T!Exit => TP!Exit
  BY DEF T!Exit, TP!Exit, T!EmptyMemory, TP!EmptyMemory
<1>15. T!Tick => TP!Tick
  BY DEF T!Tick, TP!Tick
<1>17. T!ReceiveError => TP!ReceiveError
  BY DEF T!ReceiveError, TP!ReceiveError
<1>16. QED
  BY <1>1, <1>2, <1>3, <1>4, <1>5, <1>6, <1>7, <1>8, <1>9, <1>10, <1>11, <1>12, <1>13, <1>14, <1>15, <1>17

-----------------------------------------------------------------------------
(* The threads and the queue *)

\* What the threads keep of the queue does not mention the image.
LEMMA NetworkIdle ==
    ASSUME TP!IInv, UNCHANGED network
    PROVE  TP!IInv'
<1>1. /\ UNCHANGED <<pc, result, age, sent, backlog, fd, closed, answer, got, server, client, fm>>
      /\ UNCHANGED <<mutex, pending_requests, request_count, ui, turn>>
      /\ UNCHANGED <<calls, torn, created, stored>>
  BY DEF network
<1> USE <1>1 DEF TP!IInv, TP!Served, TP!MutexLost, TP!Reviewing, TP!Open, TP!Fits
<1>2. TP!TypeOK'
  BY DEF TP!TypeOK
<1>3. TP!OneOwner' /\ TP!Backlog' /\ TP!Clocks' /\ TP!Sizes' /\ TP!Hand' /\ TP!Turn' /\ TP!Fitting'
  BY DEF TP!OneOwner, TP!Backlog, TP!Clocks, TP!Sizes, TP!Hand, TP!Turn, TP!Fitting
<1>4. TP!OwnDescriptor' /\ TP!NobodyForgotten'
  BY DEF TP!OwnDescriptor, TP!NobodyForgotten
<1>5. QED
  BY <1>2, <1>3, <1>4

\* Every step of the program is one of Transfer's, or leaves the network alone.
LEMMA NetworkKeeps ==
    ASSUME TP!IInv, UtilityNext
    PROVE  TP!IInv'
<1> USE Assumed
<1>1. T!Exit => TP!IInv'
  BY SameReceiver, TP!ExitKeeps
<1>2. T!AcceptNew \/ T!ReceivePart \/ T!ReceiveError \/ T!StoreFile => TP!IInv'
  BY SameReceiver, TP!ReviewKeeps
<1>3. CASE Local
  BY <1>1, <1>3, NetworkIdle DEF Local, WithProcess
<1>4. CASE Quit
  BY <1>1, <1>4 DEF Quit
<1>5. CASE Network
  <2>1. ASSUME NEW s \in Senders, T!Connect(s) \/ T!SenderStep(s) \/ T!Kill(s)
        PROVE  TP!IInv'
    BY <2>1, SameSenders, TP!ConnectKeeps, TP!SenderStepKeeps, TP!KillKeeps
  <2>2. T!Accept \/ T!ReceiveMetadata \/ T!Enqueue => TP!IInv'
    BY SameReceiver, TP!AcceptKeeps, TP!ReceiveMetadataKeeps, TP!EnqueueKeeps
  <2>3. T!CheckStart \/ T!AcceptExisting \/ T!CheckEnd \/ T!Tick => TP!IInv'
    BY SameReceiver, TP!CheckStartKeeps, TP!AcceptExistingKeeps, TP!CheckEndKeeps, TP!TickKeeps
  <2>4. T!UserAccepts \/ T!UserRefuses \/ T!PromptExpires \/ T!LoopEnd => TP!IInv'
    BY SameReceiver, TP!ReviewKeeps
  <2>5. QED
    BY <1>5, <2>1, <2>2, <2>3, <2>4 DEF Network
<1>6. CASE Accept \/ AcceptRefused \/ Receive \/ ReceiveFailed \/ StoreNamed \/ StoreRefused
  BY <1>1, <1>2, <1>6 DEF Accept, AcceptRefused, Receive, ReceiveFailed, StoreNamed, StoreRefused, WithProcess
<1>7. QED
  BY <1>3, <1>4, <1>5, <1>6 DEF UtilityNext

-----------------------------------------------------------------------------
(* The threads and the image *)

\* How far the user interface has come says what the image is being used for.
Linked ==
    /\ code \in {0, -2, -4}
    /\ code # 0 => ui \in {"receiving", "down"}
    /\ ui \in {"prompt", "accepted", "ending"} => mode = "menu"
    /\ ui = "receiving" => mode = IF code = 0 THEN "receiving" ELSE "menu"
    /\ ui \in {"accepted", "receiving"} => T!Current.fm \in Senders

\* The name of an accepted file is one that the sender can have given it.
LEMMA NameSentType ==
    ASSUME Linked, ui \in {"accepted", "receiving"}
    PROVE  NameSent \in Names /\ NameSent = FileName[T!Current.fm]
  BY SentAssumption DEF Linked, NameSent, T!NameOf

\* The threads that do not touch the image leave the link as it is.
LEMMA NetworkLinked ==
    ASSUME TP!IInv, Linked, Network
    PROVE  Linked'
<1>1. /\ UNCHANGED <<mode, code>>
      /\ ui \in {"menu", "prompt", "accepted", "receiving", "ending", "down"}
  BY DEF Network, image, vars, refused, TP!IInv, TP!TypeOK
<1>2. ASSUME UNCHANGED <<ui, turn, pending_requests>>
      PROVE  Linked'
  BY <1>1, <1>2 DEF Linked, T!Current
<1>3. ASSUME NEW s \in Senders, T!Connect(s) \/ T!SenderStep(s) \/ T!Kill(s)
      PROVE  UNCHANGED <<ui, turn, pending_requests>>
  BY <1>3 DEF T!Connect, T!SenderStep, T!ConnectFails, T!FindFails, T!SendMetadata, T!PollTimeout,
       T!LeaveLate, T!Kill, T!ReadAnswer, T!SendBlock, T!BrokenPipe, T!SendDone, T!receiver, T!check, T!queue
<1>4. T!Accept \/ T!ReceiveMetadata \/ T!Tick => UNCHANGED <<ui, turn, pending_requests>>
  BY DEF T!Accept, T!ReceiveMetadata, T!Tick, T!receiver, T!check, T!queue
<1>5. CASE T!Enqueue
  <2>1. UNCHANGED ui /\ mutex = "free"
    BY <1>5 DEF T!Enqueue, T!EnqueueRequest, T!check
  <2>2. ui \in {"menu", "down"}
    BY <1>1, <2>1 DEF TP!IInv, TP!Turn, TP!Reviewing
  <2>3. QED
    BY <1>1, <2>1, <2>2 DEF Linked
<1>6. CASE T!CheckStart /\ mode = "menu"
  <2>1. ui = "menu" /\ ui' = "prompt"
    BY <1>6 DEF T!CheckStart
  <2>2. QED
    BY <1>1, <1>6, <2>1 DEF Linked
<1>7. CASE T!UserAccepts
  <2>1. /\ ui = "prompt" /\ ui' = "accepted" /\ UNCHANGED <<turn, pending_requests>>
        /\ T!Current.fm \in Senders
    BY <1>7 DEF T!UserAccepts, T!Prompting, T!Expired, T!queue
  <2>2. QED
    BY <1>1, <2>1 DEF Linked, T!Current
<1>8. CASE T!UserRefuses \/ T!PromptExpires
  <2>1. ui = "prompt" /\ ui' = "prompt"
    BY <1>8 DEF T!UserRefuses, T!PromptExpires, T!Prompting, T!Refuse
  <2>2. QED
    BY <1>1, <2>1 DEF Linked
<1>9. CASE T!AcceptExisting
  <2>1. ui = "accepted" /\ ui' = "menu"
    BY <1>9 DEF T!AcceptExisting, T!AnswerYes
  <2>2. QED
    BY <1>1, <2>1 DEF Linked
<1>10. CASE T!LoopEnd \/ T!CheckEnd
  <2>1. \/ ui = "prompt" /\ ui' = "ending"
        \/ ui = "ending" /\ ui' = "menu"
    BY <1>10 DEF T!LoopEnd, T!CheckEnd
  <2>2. QED
    BY <1>1, <2>1 DEF Linked
<1>11. QED
  BY <1>2, <1>3, <1>4, <1>5, <1>6, <1>7, <1>8, <1>9, <1>10 DEF Network

\* So do the steps of the program that touch it.
LEMMA LinkedKeeps ==
    ASSUME TP!IInv, Linked, UtilityNext
    PROVE  Linked'
<1>1. ASSUME T!Exit, UNCHANGED code
      PROVE  Linked'
  <2>1. ui' = "down"
    BY <1>1 DEF T!Exit
  <2>2. QED
    BY <1>1, <2>1 DEF Linked
<1>2. CASE Local
  <2>1. ui = "menu" /\ UNCHANGED code
    BY <1>2 DEF Local, refused
  <2>2. CASE T!Exit
    BY <1>1, <2>1, <2>2
  <2>3. CASE UNCHANGED network
    BY <2>1, <2>3 DEF network, Linked
  <2>4. QED
    BY <1>2, <2>2, <2>3 DEF Local, WithProcess
<1>3. CASE Quit
  BY <1>1, <1>3 DEF Quit, refused
<1>4. CASE Network
  BY <1>4, NetworkLinked
<1>5. CASE Accept
  <2>1. ui = "accepted" /\ UNCHANGED code /\ mode' \in {"receiving", "crashed"}
    BY <1>5 DEF Accept, AcceptFile, Crash, refused
  <2>2. CASE mode' = "crashed"
    BY <1>1, <1>5, <2>1, <2>2 DEF Accept, WithProcess
  <2>3. CASE mode' = "receiving"
    <3>1. ui' = "receiving" /\ UNCHANGED <<turn, pending_requests>>
      BY <1>5, <2>3 DEF Accept, WithProcess, T!AcceptNew, T!queue
    <3>2. QED
      BY <2>1, <2>3, <3>1 DEF Linked, T!Current
  <2>4. QED
    BY <2>1, <2>2, <2>3
<1>6. CASE AcceptRefused
  <2>1. /\ ui = "accepted" /\ ui' = "receiving" /\ UNCHANGED <<mode, turn, pending_requests>>
        /\ code' \in {-2, -4}
    BY <1>6 DEF AcceptRefused, CreateCode, image, vars, T!AcceptNew, T!queue
  <2>2. QED
    BY <2>1 DEF Linked, T!Current
<1>7. CASE Receive \/ ReceiveFailed
  <2>1. /\ ui = "receiving" /\ UNCHANGED code
        /\ mode' = "crashed" \/ mode' = mode
    BY <1>7 DEF Receive, ReceiveFailed, WriteReceived, ReceiveBlock, ReceiveLost, Crash, refused
  <2>2. CASE mode' = "crashed"
    BY <1>1, <1>7, <2>1, <2>2 DEF Receive, ReceiveFailed, WithProcess
  <2>3. CASE mode' = mode /\ mode' # "crashed"
    <3>1. ui' = "receiving" /\ UNCHANGED <<turn, pending_requests>>
      BY <1>7, <2>1, <2>3 DEF Receive, ReceiveFailed, WithProcess, T!ReceivePart, T!ReceiveError, T!queue
    <3>2. QED
      BY <2>1, <2>3, <3>1 DEF Linked, T!Current
  <2>4. QED
    BY <2>1, <2>2, <2>3
<1>8. CASE StoreNamed
  <2>1. code = 0 /\ code' = 0 /\ mode' = "menu" /\ ui' = "prompt"
    BY <1>8 DEF StoreNamed, StoreReceived, CloseFile, T!StoreFile, refused
  <2>2. QED
    BY <2>1 DEF Linked
<1>9. CASE StoreRefused
  <2>1. code # 0 /\ code' = 0 /\ UNCHANGED mode /\ ui = "receiving" /\ ui' = "prompt"
    BY <1>9 DEF StoreRefused, T!StoreFile
  <2>2. QED
    BY <2>1 DEF Linked
<1>10. QED
  BY <1>2, <1>3, <1>4, <1>5, <1>6, <1>7, <1>8, <1>9 DEF UtilityNext

-----------------------------------------------------------------------------
(* The image *)

\* What a step of the program does to the image: something the file system
\* can do by itself, or something to do with a refused name.
LEMMA ImageStep ==
    ASSUME TP!IInv, Linked, UtilityNext
    PROVE  \/ [Next]_vars /\ damaged' = damaged
           \/ mode = "menu" /\ damaged' = damaged /\ \E text \in Texts : ReceiveLost(text)
           \/ mode = "menu" /\ StoreRefused
<1>1. CASE Local
  <2>1. Begin => Next
    BY DEF Begin, Next
  <2>2. Continue => Next
    BY DEF Continue, Next
  <2>3. QED
    BY <1>1, <2>1, <2>2 DEF Local, refused
<1>2. CASE Quit
  BY <1>2 DEF Quit, Next, refused
<1>3. CASE Network \/ AcceptRefused
  BY <1>3 DEF Network, AcceptRefused, image, refused
<1>4. CASE Accept
  <2>1. NameSent \in Names
    BY <1>4, NameSentType DEF Accept
  <2>2. QED
    BY <1>4, <2>1 DEF Accept, Next, refused
<1>5. CASE Receive
  <2>1. PICK s \in Senders : T!Unread(s) > 0 /\ WriteReceived(FileText[s][got[s] + 1])
    BY <1>5 DEF Receive, T!Peers
  <2>2. FileText[s][got[s] + 1] \in Texts
    <3>1. got[s] \in Nat /\ sent[s] \in Nat /\ sent[s] <= Len(FileText[s])
      BY SizesAssumption DEF TP!IInv, TP!Sizes, TP!TypeOK
    <3>2. got[s] + 1 \in 1 .. Len(FileText[s])
      BY <2>1, <3>1, SentAssumption DEF T!Unread
    <3>3. QED
      BY <3>2, SentAssumption
  <2>3. damaged' = damaged /\ (code # 0 => mode = "menu")
    BY <1>5 DEF Receive, refused, Linked
  <2>4. QED
    BY <2>1, <2>2, <2>3 DEF Next, WriteReceived
<1>9. CASE ReceiveFailed
  <2>1. PICK text \in Texts : WriteReceived(text)
    BY <1>9 DEF ReceiveFailed
  <2>2. damaged' = damaged /\ (code # 0 => mode = "menu")
    BY <1>9 DEF ReceiveFailed, refused, Linked
  <2>3. QED
    BY <2>1, <2>2 DEF Next, WriteReceived
<1>6. CASE StoreNamed
  BY <1>6 DEF StoreNamed, Next, refused
<1>7. CASE StoreRefused
  BY <1>7 DEF StoreRefused, T!StoreFile, Linked
<1>8. QED
  BY <1>1, <1>2, <1>3, <1>4, <1>5, <1>6, <1>7, <1>9 DEF UtilityNext

\* A step that neither changes an inode nor what one of its blocks holds.
LEMMA SameInodes ==
    ASSUME DInv, mode = "menu", UNCHANGED <<bitmap_inode, inode, mode, local>>,
           free_blocks' \in Nat, block' \in [Blocks -> Seq(Dirent)],
           bitmap_blocks' \subseteq Blocks, 0 \in bitmap_blocks',
           block'[0] = block[0],
           \A i \in Inodes : \A s \in Slots :
              inode[i].blocks[s] # NoBlock =>
                 /\ inode[i].blocks[s] \in bitmap_blocks'
                 /\ block'[inode[i].blocks[s]] = block[inode[i].blocks[s]],
           \A b \in Blocks \ bitmap_blocks' : block'[b] = <<>>
    PROVE  /\ DInv'
           /\ \A i \in Inodes : View(i)' = View(i) /\ EntriesOf(i)' = EntriesOf(i)
<1>1. UNCHANGED <<bitmap_inode, inode, mode, cur, object, block_index, bitmap>>
  BY DEF local
<1>2. IInv /\ Layout /\ Tree /\ Kinds
  BY DEF DInv, TInv
<1>3. \A i \in Inodes : View(i) = inode[i] /\ View(i)' = inode[i]
  BY <1>1 DEF View, Held
<1>4. IInv'
  <2>1. TypeOK'
    BY <1>1, <1>2 DEF IInv, TypeOK
  <2>2. Reserved' /\ Session'
    BY <1>1, <1>2 DEF IInv, Reserved, Session
  <2>3. NoSharedBlock'
    BY <1>1, <1>2, <1>3 DEF IInv, NoSharedBlock, Running
  <2>4. UsedBlocksMarked'
    BY <1>1, <1>3 DEF UsedBlocksMarked, Marked
  <2>5. QED
    BY <2>1, <2>2, <2>3, <2>4 DEF IInv
<1>5. Layout'
  <2>1. /\ \A j \in Inodes : Packed(inode'[j])
        /\ \A s \in Slots : inode'[Root].blocks[s] = NoBlock
    BY <1>1, <1>2, MenuLayout
  <2>2. QED
    BY <1>1, <2>1, LayoutInMenu
<1>6. \A i \in Inodes : EntriesOf(i)' = EntriesOf(i)
  BY <1>3, Sizes DEF EntriesOf, NoBlock
<1>7. Tree'
  <2>1. \A b \in Blocks \ Marked' : block'[b] = <<>>
    BY <1>1 DEF Marked
  <2>2. QED
    BY <1>1, <1>3, <1>6, <2>1, SameTree DEF DInv, Running
<1>8. Kinds' /\ TailKept'
  <2>1. Kinds'
    BY <1>1, <1>2, <1>3, <1>6, Sizes DEF Kinds, Running
  <2>2. TailKept'
    BY <1>1 DEF TailKept
  <2>3. QED
    BY <2>1, <2>2
<1>9. QED
  BY <1>3, <1>4, <1>5, <1>6, <1>7, <1>8 DEF DInv, TInv

\* A block received under a refused name is nobody's: the image is as it was,
\* but for the mark.
LEMMA ReceiveLostKeeps ==
    ASSUME DInv, mode = "menu", NEW text \in Texts, ReceiveLost(text), Running'
    PROVE  /\ DInv'
           /\ \A i \in Inodes : View(i)' = View(i) /\ EntriesOf(i)' = EntriesOf(i)
<1>1. PICK b \in Blocks :
        /\ TakeBlock(b) /\ block' = [block EXCEPT ![b] = text]
        /\ UNCHANGED <<bitmap_inode, free_blocks, inode, mode, local>>
  BY DEF ReceiveLost, Crash, Running
<1>2. IInv /\ Tree
  BY DEF DInv, TInv
<1>3. /\ b # NoBlock /\ \A i \in Inodes : \A s \in Slots : inode[i].blocks[s] # b
  BY <1>1, <1>2, FreshBlock DEF TakeBlock, Running, View, Held
<1>4. /\ bitmap_blocks' \subseteq Blocks /\ 0 \in bitmap_blocks' /\ free_blocks' \in Nat
      /\ bitmap_blocks \subseteq bitmap_blocks' /\ b \in bitmap_blocks'
  BY <1>1, <1>2 DEF IInv, TypeOK, Reserved, TakeBlock
<1>5. /\ block' \in [Blocks -> Seq(Dirent)] /\ block \in [Blocks -> Seq(Dirent)]
  BY <1>1, <1>2, TypedType DEF IInv, TypeOK
<1>6. \A x \in Blocks : x # b => block'[x] = block[x]
  BY <1>1, <1>5
<1>7. \A i \in Inodes : \A s \in Slots :
         inode[i].blocks[s] # NoBlock =>
            inode[i].blocks[s] \in bitmap_blocks /\ inode[i].blocks[s] \in Blocks
  BY <1>2 DEF IInv, TypeOK, Node, UsedBlocksMarked, Running, Marked, View, Held
<1>8. \A x \in Blocks \ bitmap_blocks : block[x] = <<>>
  BY <1>2 DEF Tree, FreeSpaceClean, Running, Marked
<1>9. /\ block'[0] = block[0]
      /\ \A i \in Inodes : \A s \in Slots :
           inode[i].blocks[s] # NoBlock =>
              /\ inode[i].blocks[s] \in bitmap_blocks'
              /\ block'[inode[i].blocks[s]] = block[inode[i].blocks[s]]
      /\ \A x \in Blocks \ bitmap_blocks' : block'[x] = <<>>
  BY <1>3, <1>4, <1>6, <1>7, <1>8, Sizes DEF NoBlock
<1>10. QED
  BY <1>1, <1>4, <1>5, <1>9, SameInodes

\* The bytes an inode stored under a negative code lies on are inside the
\* bitmap, and the root's own block is not among them.
LEMMA OverlaidInside ==
    ASSUME code \in {-2, -4}
    PROVE  /\ Overlaid \subseteq Blocks /\ 0 \notin Overlaid
           /\ \A j \in 1 .. MAX_BLOCK_COUNT :
                 LowByte(j) \in Blocks /\ LowByte(j) \in Nat \ {0}
<1>1. First \in Nat \ {0} /\ First + INODE_SIZE - 1 <= TOTAL_BLOCKS - 1
  BY LayoutAssumption, SizesAssumption DEF First
<1>2. Overlaid \subseteq Blocks /\ 0 \notin Overlaid
  BY <1>1, LayoutAssumption, SizesAssumption DEF Overlaid, Blocks
<1>3. ASSUME NEW j \in 1 .. MAX_BLOCK_COUNT
      PROVE  LowByte(j) \in Blocks /\ LowByte(j) \in Nat \ {0}
  BY <1>1, LayoutAssumption, SizesAssumption DEF LowByte, Blocks
<1>4. QED
  BY <1>2, <1>3

\* Storing under a refused name changes the marks only; if they are then right
\* nothing else is wrong.
LEMMA StoreRefusedKeeps ==
    ASSUME TP!IInv, Linked, DInv, mode = "menu", StoreRefused, Intact', before \subseteq Blocks
    PROVE  /\ DInv'
           /\ \A i \in Inodes : View(i)' = View(i) /\ EntriesOf(i)' = EntriesOf(i)
<1>1. /\ code \in {-2, -4}
      /\ UNCHANGED <<bitmap_inode, free_blocks, inode, block, mode, local>>
  BY DEF StoreRefused, Linked
<1>2. calls \in 0 .. MAX_BLOCK_COUNT
  BY DEF TP!IInv, TP!TypeOK
<1>3. IInv
  BY DEF DInv, TInv
<1>4. /\ \A j \in 1 .. calls : LowByte(j) \in Blocks /\ LowByte(j) \in Nat \ {0}
      /\ Overlaid \subseteq Blocks /\ 0 \notin Overlaid
  BY <1>1, <1>2, OverlaidInside, SizesAssumption
<1>5. \A j \in 1 .. calls : LowByte(j) + 1 # 0
  BY <1>4
<1>6. bitmap_blocks' \subseteq Blocks /\ 0 \in bitmap_blocks'
  BY <1>3, <1>4, <1>5 DEF StoreRefused, IInv, TypeOK, Reserved
<1>7. \A i \in Inodes : \A s \in Slots :
         inode[i].blocks[s] # NoBlock => inode[i].blocks[s] \in bitmap_blocks'
  BY <1>1 DEF Intact, UsedBlocksMarked, Running, Marked, View, Held
<1>8. \A b \in Blocks \ bitmap_blocks' : block'[b] = <<>>
  BY <1>1 DEF Intact, FreeSpaceClean, Running, Marked
<1>9. free_blocks' \in Nat /\ block' \in [Blocks -> Seq(Dirent)]
  BY <1>1, <1>3 DEF IInv, TypeOK
<1>10. QED
  BY <1>1, <1>6, <1>7, <1>8, <1>9, SameInodes

-----------------------------------------------------------------------------
(* One regular file of a name in a directory *)

\* The regular files that a directory names alike are one.
SameFiles ==
    Running =>
        \A d, i, j \in Inodes : FileType(i) /\ FileType(j) =>
            \A k, l \in Links(d) :
                /\ EntriesOf(d)[k].inode = i /\ EntriesOf(d)[l].inode = j
                /\ EntriesOf(d)[k].name = EntriesOf(d)[l].name
                => i = j

\* The step gives d no name of a regular file that it did not have.
NoNewFile(d) ==
    \A i \in Inodes : FileType(i)' =>
        \A m \in Links(d)' : EntriesOf(d)'[m].inode = i =>
            /\ FileType(i)
            /\ \E l \in Links(d) : EntriesOf(d)[l] = EntriesOf(d)'[m]

\* A step that names no new file keeps the names apart.
LEMMA FilesKept ==
    ASSUME Running, SameFiles, \A d \in Inodes : NoNewFile(d)
    PROVE  SameFiles'
<1> SUFFICES ASSUME NEW d \in Inodes, NEW i \in Inodes, NEW j \in Inodes,
                    FileType(i)', FileType(j)',
                    NEW k \in Links(d)', NEW l \in Links(d)',
                    EntriesOf(d)'[k].inode = i, EntriesOf(d)'[l].inode = j,
                    EntriesOf(d)'[k].name = EntriesOf(d)'[l].name
             PROVE  i = j
  BY DEF SameFiles
<1>1. NoNewFile(d)
  OBVIOUS
<1>2. /\ FileType(i) /\ FileType(j)
      /\ \E p \in Links(d) : EntriesOf(d)[p] = EntriesOf(d)'[k]
      /\ \E q \in Links(d) : EntriesOf(d)[q] = EntriesOf(d)'[l]
  BY <1>1 DEF NoNewFile
<1>3. PICK p \in Links(d) : EntriesOf(d)[p] = EntriesOf(d)'[k]
  BY <1>2
<1>4. PICK q \in Links(d) : EntriesOf(d)[q] = EntriesOf(d)'[l]
  BY <1>2
<1>5. QED
  BY <1>2, <1>3, <1>4 DEF SameFiles

\* A step that leaves the entries of d as they are names no new file in it.
LEMMA SameEntries ==
    ASSUME NEW d, EntriesOf(d)' = EntriesOf(d) \/ Foreign(EntriesOf(d)'),
           \A i \in Inodes : FileType(i)' => FileType(i)
    PROVE  NoNewFile(d)
  BY DEF NoNewFile, Foreign, Links

\* The name of a new inode is a new one if the inode is a file's.
LEMMA AddInodeFiles ==
    ASSUME TInv, SameFiles, mode = "menu", mode' \in {"menu", "receiving"},
           NEW d \in Inodes, d \in bitmap_inode, NEW n \in Names, NEW t \in {DIR, FIL},
           NEW i \in Inodes,
           t = FIL => Absent(Entries(d), n),
           AddInode(i, d, n, t),
           \A j \in Inodes : View(j)' = inode'[j]
    PROVE  SameFiles'
<1> DEFINE entry == [inode |-> i, name |-> n]
<1>1. IInv /\ Layout /\ Tree /\ Forest
  BY DEF TInv, Tree
<1>2. /\ i \notin bitmap_inode
      /\ \A j \in Inodes \ {i} : inode'[j].type = inode[j].type
      /\ inode'[i] = EmptyNode(t)
  BY <1>1, AddInodeShape, SMTT(30) DEF FirstSlotOnly
<1>3. \A j \in Inodes : View(j) = inode[j]
  BY <1>1, MenuLayout
<1>4. \A j \in Inodes \ {i} : FileType(j)' <=> FileType(j)
  BY <1>2, <1>3 DEF FileType
<1>5. FileType(i)' <=> t = FIL
  BY <1>2 DEF FileType, EmptyNode
<1>6. OneEntryMore(d, entry)
  BY AddInodeTree
<1>7. \A j \in Inodes : \A k \in Links(j) : EntriesOf(j)[k].inode # i
  BY <1>1, <1>2 DEF Forest, EntriesAreLive, Running
<1>8. \A j \in Inodes : EntriesOf(j) \in Seq(Dirent)
  BY <1>1, EntriesOfType
<1>9. ASSUME NEW j \in Inodes, EntriesOf(j)' = EntriesOf(j)
      PROVE  NoNewFile(j)
  BY <1>4, <1>7, <1>9 DEF NoNewFile, Links
<1>10. CASE t = DIR
  <2>1. ASSUME NEW j \in Inodes, EntriesOf(j)' = Append(EntriesOf(j), entry)
        PROVE  NoNewFile(j)
    <3>1. ~FileType(i)'
      BY <1>5, <1>10 DEF DIR, FIL
    <3>2. ASSUME NEW m \in Links(j)', EntriesOf(j)'[m].inode # i
          PROVE  m \in Links(j) /\ EntriesOf(j)'[m] = EntriesOf(j)[m]
      BY <1>8, <2>1, <3>2 DEF Links
    <3>3. QED
      BY <1>4, <3>1, <3>2 DEF NoNewFile
  <2>2. \A j \in Inodes : NoNewFile(j)
    BY <1>6, <1>9, <2>1 DEF OneEntryMore
  <2>3. QED
    BY <2>2, FilesKept DEF Running
<1>11. CASE t = FIL
  <2>1. \A k \in Links(d) : EntriesOf(d)[k].name # n
    <3>1. CASE Owner(d) = d
      BY <1>1, <1>11, <3>1, OwnerEntries DEF Absent, Links
    <3>2. CASE Owner(d) # d
      BY <1>3, <3>2 DEF Owner, DirBlock, EntriesOf, Links
    <3>3. QED
      BY <3>1, <3>2
  <2> SUFFICES ASSUME NEW c \in Inodes, NEW x \in Inodes, NEW y \in Inodes,
                      FileType(x)', FileType(y)',
                      NEW k \in Links(c)', NEW l \in Links(c)',
                      EntriesOf(c)'[k].inode = x, EntriesOf(c)'[l].inode = y,
                      EntriesOf(c)'[k].name = EntriesOf(c)'[l].name
               PROVE  x = y
    BY DEF SameFiles
  <2>2. CASE EntriesOf(c)' = EntriesOf(c)
    <3>1. /\ k \in Links(c) /\ l \in Links(c)
          /\ EntriesOf(c)[k].inode = x /\ EntriesOf(c)[l].inode = y
          /\ EntriesOf(c)[k].name = EntriesOf(c)[l].name
      BY <2>2 DEF Links
    <3>2. FileType(x) /\ FileType(y)
      BY <1>4, <1>7, <3>1
    <3>3. QED
      BY <3>1, <3>2 DEF SameFiles, Running
  <2>3. CASE c = d /\ EntriesOf(c)' = Append(EntriesOf(c), entry)
    <3>1. \A m \in Links(c)' :
             \/ m \in Links(c) /\ EntriesOf(c)'[m] = EntriesOf(c)[m]
             \/ EntriesOf(c)'[m] = entry
      BY <1>8, <2>3 DEF Links
    <3>2. CASE EntriesOf(c)'[k] = entry \/ EntriesOf(c)'[l] = entry
      <4>1. entry.inode = i /\ entry.name = n
        OBVIOUS
      <4>2. \A m \in Links(c)' : EntriesOf(c)'[m].name = n => EntriesOf(c)'[m] = entry
        BY <2>1, <2>3, <3>1, <4>1
      <4>3. EntriesOf(c)'[k] = entry /\ EntriesOf(c)'[l] = entry
        BY <3>2, <4>1, <4>2
      <4>4. QED
        BY <4>1, <4>3
    <3>3. CASE /\ k \in Links(c) /\ EntriesOf(c)'[k] = EntriesOf(c)[k]
               /\ l \in Links(c) /\ EntriesOf(c)'[l] = EntriesOf(c)[l]
      <4>1. x # i /\ y # i
        BY <1>7, <3>3
      <4>2. QED
        BY <1>4, <3>3, <4>1 DEF SameFiles, Running
    <3>4. QED
      BY <3>1, <3>2, <3>3
  <2>4. QED
    BY <1>6, <2>2, <2>3 DEF OneEntryMore
<1>12. QED
  BY <1>10, <1>11

\* Deleting names nothing new.
LEMMA RemoveEntryFiles ==
    ASSUME TInv, SameFiles, NEW d \in Inodes, NEW k, NEW S, NEW B, Removes(d, k, S, B)
    PROVE  SameFiles'
<1>1. IInv /\ Layout /\ Running /\ S \in SUBSET Inodes
  BY DEF TInv, Removes, Running
<1>2. OnlyCleared(d, S)
  BY <1>1, RemoveEntryShape DEF Removes
<1>3. \A i \in Inodes : FileType(i)' => FileType(i)
  BY <1>2 DEF OnlyCleared, FileType, ClearNode, EmptyNode, DIR, FIL
<1>4. \A j \in Inodes : \A m \in DOMAIN EntriesOf(j)' :
         \E l \in DOMAIN EntriesOf(j) : EntriesOf(j)'[m] = EntriesOf(j)[l]
  BY RemoveEntryTree
<1>5. \A j \in Inodes : NoNewFile(j)
  BY <1>3, <1>4 DEF NoNewFile, Links
<1>6. QED
  BY <1>1, <1>5, FilesKept

\* What is typed or received into the file in hand is not taken for names.
LEMMA SessionEntries ==
    ASSUME DInv, LongTexts, Running',
           \/ \E text \in Texts : FillBlock(text) \/ FinishWrite(text) \/ ReceiveBlock(text)
           \/ StoreReceived,
           NEW c \in Inodes, c = cur
    PROVE  EntriesOf(c)' = EntriesOf(c) \/ Foreign(EntriesOf(c)')
<1>1. IInv /\ Layout /\ Running
  <2>1. mode \in {"writing", "receiving"}
    BY DEF FillBlock, FinishWrite, ReceiveBlock, StoreReceived
  <2>2. QED
    BY <2>1 DEF DInv, TInv, Running
<1>2. /\ mode \in {"writing", "receiving"}
      /\ \/ mode' = mode /\ UNCHANGED <<inode, cur>> /\ object'.type = object.type
         \/ mode' = "menu" /\ inode' = [inode EXCEPT ![cur] = object]
  BY <1>1, SessionViews
<1>3. View(c) = object /\ c # Root
  BY <1>1, <1>2 DEF View, Held, Layout, RootBare
<1>4. object \in Node /\ block \in [Blocks -> Seq(Dirent)] /\ inode \in [Inodes -> Node]
  BY <1>1 DEF IInv, TypeOK
<1>5. View(c)' = IF mode' = mode THEN object' ELSE object
  BY <1>2, <1>4 DEF View, Held
<1>6. EntriesOf(c) = IF object.blocks[1] = NoBlock THEN <<>> ELSE block[object.blocks[1]]
  BY <1>3 DEF EntriesOf
<1>7. EntriesOf(c)' = IF View(c)'.blocks[1] = NoBlock THEN <<>> ELSE block'[View(c)'.blocks[1]]
  BY <1>3 DEF EntriesOf
<1>8. object.blocks[1] \in Blocks /\ 1 \in Slots
  BY <1>4, Sizes DEF Node
<1>9. ASSUME NEW w, NEW text \in Texts, block' = [block EXCEPT ![w] = text],
             View(c)'.blocks[1] = object.blocks[1]
      PROVE  EntriesOf(c)' = EntriesOf(c) \/ Foreign(EntriesOf(c)')
  <2>1. block'[object.blocks[1]] = block[object.blocks[1]] \/ block'[object.blocks[1]] = text
    BY <1>4, <1>8, <1>9
  <2>2. Foreign(text)
    BY ForeignTexts
  <2>3. QED
    BY <1>6, <1>7, <1>9, <2>1, <2>2
<1>10. CASE \E text \in Texts : FillBlock(text)
  <2>1. PICK text \in Texts : FillBlock(text)
    BY <1>10
  <2>2. block' = [block EXCEPT ![object.blocks[block_index]] = text]
    BY <2>1 DEF FillBlock, Crash, Running
  <2>3. CASE CloseFile
    BY <1>2, <1>5, <1>9, <2>1, <2>2, <2>3 DEF FillBlock, CloseFile
  <2>4. CASE /\ block_index < MAX_BLOCK_COUNT /\ UNCHANGED mode
             /\ \E b \in Blocks : object' = WithBlock(object, block_index + 1, b)
    <3>1. PICK b \in Blocks : object' = WithBlock(object, block_index + 1, b)
      BY <2>4
    <3>2. block_index \in 1 .. MAX_BLOCK_COUNT + 1
      BY <1>1 DEF IInv, TypeOK
    <3>3. block_index + 1 \in Slots /\ block_index + 1 # 1
      BY <2>4, <3>2, SizesAssumption DEF Slots
    <3>4. View(c)'.blocks[1] = object.blocks[1]
      <4>1. \A r \in Slots \ {block_index + 1} :
               WithBlock(object, block_index + 1, b).blocks[r] = object.blocks[r]
        BY <1>4, <3>3, WithBlockType
      <4>2. View(c)' = WithBlock(object, block_index + 1, b)
        BY <1>5, <2>4, <3>1
      <4>3. QED
        BY <1>8, <3>3, <4>1, <4>2
    <3>5. QED
      BY <1>9, <2>2, <3>4
  <2>5. QED
    BY <2>1, <2>3, <2>4 DEF FillBlock, Crash, Running
<1>11. CASE \E text \in Texts : FinishWrite(text)
  <2>1. PICK text \in Texts : FinishWrite(text)
    BY <1>11
  <2>2. QED
    BY <1>2, <1>5, <1>9, <2>1 DEF FinishWrite, CloseFile
<1>12. CASE \E text \in Texts : ReceiveBlock(text)
  <2>1. PICK text \in Texts : ReceiveBlock(text)
    BY <1>12
  <2>2. PICK b \in Blocks : /\ TakeBlock(b)
                            /\ block' = [block EXCEPT ![b] = text]
                            /\ object' = WithBlock(object, block_index, b)
                            /\ UNCHANGED mode
    BY <2>1 DEF ReceiveBlock, Crash, Running
  <2>3. block_index \in Slots
    BY <1>1, <2>1, SizesAssumption DEF ReceiveBlock, IInv, TypeOK, Slots
  <2>4. CASE block_index = 1
    <3>1. View(c)'.blocks[1] = b /\ block'[b] = text
      BY <1>4, <1>5, <2>2, <2>3, <2>4, WithBlockType
    <3>2. QED
      BY <1>7, <3>1, ForeignTexts
  <2>5. CASE block_index # 1
    <3>1. View(c)'.blocks[1] = object.blocks[1]
      BY <1>4, <1>5, <1>8, <2>2, <2>3, <2>5, WithBlockType
    <3>2. QED
      BY <1>9, <2>2, <3>1
  <2>6. QED
    BY <2>4, <2>5
<1>13. CASE StoreReceived
  BY <1>2, <1>5, <1>6, <1>7, <1>13 DEF StoreReceived, CloseFile
<1>14. QED
  BY <1>10, <1>11, <1>12, <1>13

\* Every operation of the file system keeps the names of files apart.
LEMMA NextFiles == LongTexts /\ DInv /\ SameFiles /\ [Next]_vars => SameFiles'
<1> SUFFICES ASSUME LongTexts, DInv, SameFiles, [Next]_vars, Running' PROVE SameFiles'
  BY DEF SameFiles
<1>1. TInv /\ IInv /\ Layout
  BY DEF DInv, TInv
<1>2. ~Crash /\ ~EmptyPath /\ ~Stop
  BY DEF EmptyPath, Crash, Stop, Running
<1>3. ASSUME NEW d \in Parents, NEW n \in Names, CreateFile(d, n) \/ CreateDir(d, n)
      PROVE  SameFiles'
  <2>1. mode = "menu" /\ d \in Inodes /\ d \in bitmap_inode
    BY <1>1, <1>3, ParentsLive DEF CreateFile, CreateDir
  <2>2. PICK t \in {DIR, FIL} : AddObject(d, n, t) /\ (t = FIL => Absent(Entries(d), n))
    BY <1>3 DEF CreateFile, CreateDir, DIR, FIL
  <2>3. PICK i \in Inodes : AddInode(i, d, n, t) /\ mode' = "menu"
    BY <1>2, <2>1, <2>2 DEF AddObject
  <2>4. \A j \in Inodes : View(j)' = inode'[j]
    BY <2>3 DEF View, Held
  <2>5. QED
    BY <1>1, <2>1, <2>2, <2>3, <2>4, AddInodeFiles
<1>4. ASSUME NEW d \in Parents, NEW n \in Names, DeleteFile(d, n) \/ DeleteDir(d, n)
      PROVE  SameFiles'
  <2>1. d \in Inodes
    BY DEF Parents
  <2>2. PICK k, S, B : Removes(d, k, S, B)
    BY <1>1, <1>2, <1>4, <2>1, DeleteFileRemoves, DeleteDirRemoves
  <2>3. QED
    BY <1>1, <2>1, <2>2, RemoveEntryFiles
<1>5. ASSUME NEW d \in Parents, NEW n \in Names, OpenForWrite(d, n)
      PROVE  SameFiles'
  <2>1. d \in Inodes /\ mode = "menu"
    BY <1>5 DEF Parents, OpenForWrite
  <2>2. PICK t \in bitmap_inode : /\ t \in Inodes /\ t = cur' /\ inode[t].type = FIL
                                  /\ EntriesOf(t)' = <<>>
                                  /\ \A j \in Inodes \ {t} : EntriesOf(j)' = EntriesOf(j)
    BY <1>1, <1>5, <2>1, OpenForWriteTree
  <2>3. FileType(t)
    BY <2>1, <2>2 DEF FileType, View, Held
  <2>4. \A i \in Inodes : FileType(i)' => FileType(i)
    BY <1>1, <1>5, <2>1, <2>2, <2>3, OpenForWriteKeeps DEF Keeps, FileType
  <2>5. Foreign(<<>>)
    BY ForeignTexts
  <2>6. \A j \in Inodes : NoNewFile(j)
    BY <2>2, <2>4, <2>5, SameEntries
  <2>7. QED
    BY <2>1, <2>6, FilesKept DEF Running
<1>6. ASSUME NEW n \in Names, AcceptFile(n) PROVE SameFiles'
  <2>1. PICK i \in Inodes : /\ AddInode(i, Root, n, FIL)
                            /\ \A j \in Inodes : View(j)' = inode'[j]
    BY <1>6, AcceptFileKinds
  <2>2. mode = "menu" /\ mode' = "receiving" /\ Absent(Entries(Root), n)
    BY <1>6, AcceptFileKinds DEF AcceptFile
  <2>3. Root \in Inodes /\ Root \in bitmap_inode
    BY <1>1, Sizes DEF IInv, Reserved
  <2>4. QED
    BY <1>1, <2>1, <2>2, <2>3, AddInodeFiles
<1>7. CASE \/ \E text \in Texts : FillBlock(text) \/ FinishWrite(text) \/ ReceiveBlock(text)
           \/ StoreReceived
  <2>1. /\ mode \in {"writing", "receiving"}
        /\ \A i \in Inodes : i # cur => View(i)' = View(i)
        /\ \E c \in Inodes : c = cur /\ View(c) = object /\ View(c)'.type = object.type
    BY <1>1, <1>7, SessionViews
  <2>2. PICK c \in Inodes : c = cur /\ View(c) = object /\ View(c)'.type = object.type
    BY <2>1
  <2>3. \A i \in Inodes : FileType(i)' => FileType(i)
    BY <2>1, <2>2 DEF FileType
  <2>4. OthersKept
    BY <1>7, SessionKinds
  <2>5. \A j \in Inodes : EntriesOf(j)' = EntriesOf(j) \/ Foreign(EntriesOf(j)')
    BY <1>7, <2>2, <2>4, SessionEntries DEF OthersKept
  <2>6. \A j \in Inodes : NoNewFile(j)
    BY <2>3, <2>5, SameEntries
  <2>7. QED
    BY <2>1, <2>6, FilesKept DEF Running
<1>8. CASE CheckFilesystem \/ DefragStart \/ DefragSlot \/ DefragStore
  <2>1. \A i \in Inodes : FileType(i)' => FileType(i)
    BY <1>1, <1>8, ToolsKeep DEF Keeps, FileType
  <2>2. \A i \in Inodes : EntriesOf(i)' = EntriesOf(i)
    BY <1>1, <1>8, ToolsTree, DefragSlotTree, DefragStoreTree
  <2>3. \A j \in Inodes : NoNewFile(j)
    BY <2>1, <2>2, SameEntries
  <2>4. Running
    BY <1>8 DEF CheckFilesystem, DefragStart, DefragSlot, DefragStore, Running
  <2>5. QED
    BY <2>3, <2>4, FilesKept
<1>9. CASE Start
  <2>1. \A i \in Inodes : ~FileType(i)'
    BY <1>9 DEF Start, FileType, View, Held, EmptyNode, DIR, FIL
  <2>2. QED
    BY <2>1 DEF SameFiles
<1>10. CASE UNCHANGED vars
  <2>1. UNCHANGED <<inode, block, mode, cur, object>>
    BY <1>10 DEF vars, disk, local
  <2>2. /\ Running' <=> Running
        /\ \A i \in Inodes : View(i)' = View(i) /\ EntriesOf(i)' = EntriesOf(i)
    BY <2>1 DEF Running, View, Held, EntriesOf
  <2>3. \A j \in Inodes : NoNewFile(j)
    BY <2>2, SameEntries DEF FileType
  <2>4. QED
    BY <2>2, <2>3, FilesKept
<1>11. QED
  BY <1>2, <1>3, <1>4, <1>5, <1>6, <1>7, <1>8, <1>9, <1>10 DEF Next

-----------------------------------------------------------------------------
(* The invariant *)

\* Until storing a file has damaged the image it is as sound as the operations
\* of the file system alone keep it.
Sound == DInv /\ SameFiles /\ before \subseteq Blocks

\* The two threads keep the queue in order, the user interface does one thing
\* at a time, and an undamaged image is sound.
UInv == TP!IInv /\ Linked /\ (~damaged => Sound)

\* A step that does not damage the image keeps it sound.
LEMMA SoundKeeps ==
    ASSUME LongTexts, UInv, Sound, UtilityNext, StoreRefused => Intact'
    PROVE  Sound'
<1>1. TP!IInv /\ Linked /\ DInv /\ SameFiles
  BY DEF UInv, Sound
<1>2. before' \subseteq Blocks
  <2>1. CASE UNCHANGED refused
    BY <2>1 DEF refused, Sound
  <2>2. CASE AcceptRefused
    BY <1>1, <2>2 DEF AcceptRefused, DInv, TInv, IInv, TypeOK
  <2>3. CASE StoreRefused
    BY <2>3 DEF StoreRefused
  <2>4. QED
    BY <2>1, <2>2, <2>3 DEF UtilityNext, Local, Quit, Network, Accept, Receive, ReceiveFailed, StoreNamed
<1>3. ASSUME mode = "menu", DInv',
             \A i \in Inodes : View(i)' = View(i) /\ EntriesOf(i)' = EntriesOf(i)
      PROVE  Sound'
  <2>1. \A j \in Inodes : NoNewFile(j)
    BY <1>3, SameEntries DEF FileType
  <2>2. SameFiles'
    BY <1>1, <1>3, <2>1, FilesKept DEF Running
  <2>3. QED
    BY <1>2, <1>3, <2>2 DEF Sound
<1>4. CASE [Next]_vars
  <2>1. DInv'
    BY <1>1, <1>4, NextIInv, NextLayout, NextTree, NextKinds DEF TInv, DInv
  <2>2. SameFiles'
    BY <1>1, <1>4, NextFiles
  <2>3. QED
    BY <1>2, <2>1, <2>2 DEF Sound
<1>5. CASE mode = "menu" /\ \E text \in Texts : ReceiveLost(text)
  <2>1. CASE Running'
    BY <1>1, <1>3, <1>5, <2>1, ReceiveLostKeeps
  <2>2. CASE ~Running'
    <3>1. Crash
      BY <1>5, <2>2 DEF ReceiveLost, Running
    <3>2. QED
      BY <1>4, <1>5, <3>1 DEF Next, EmptyPath
  <2>3. QED
    BY <2>1, <2>2
<1>6. CASE mode = "menu" /\ StoreRefused
  BY <1>1, <1>3, <1>6, StoreRefusedKeeps DEF Sound
<1>7. QED
  BY <1>1, <1>4, <1>5, <1>6, ImageStep

\* A program that has just started has an empty queue and a fresh image.
LEMMA InitUInv == UtilityInit => UInv
<1> SUFFICES ASSUME UtilityInit PROVE UInv
  OBVIOUS
<1>1. Init /\ T!Init /\ code = 0 /\ before = {}
  BY DEF UtilityInit
<1>2. TP!IInv
  <2>1. TP!Init
    BY <1>1 DEF T!Init, TP!Init, T!Requests, TP!Requests, T!NoRequest, TP!NoRequest
  <2>2. QED
    BY <2>1, Assumed, TP!InitIInv
<1>3. Linked
  BY <1>1 DEF T!Init, Linked
<1>4. DInv
  BY <1>1, InitIInv, InitLayout, InitTree, BareKinds DEF TInv, DInv
<1>5. SameFiles
  <2>1. \A i \in Inodes : ~FileType(i)
    BY <1>1 DEF Init, InitDisk, FileType, View, Held, EmptyNode, DIR, FIL
  <2>2. QED
    BY <2>1 DEF SameFiles
<1>6. QED
  BY <1>1, <1>2, <1>3, <1>4, <1>5 DEF UInv, Sound

\* Every step of the program keeps the invariant.
LEMMA NextUInv == LongTexts /\ UInv /\ [UtilityNext]_uvars => UInv'
<1> SUFFICES ASSUME LongTexts, UInv, [UtilityNext]_uvars PROVE UInv'
  OBVIOUS
<1>1. TP!IInv /\ Linked
  BY DEF UInv
<1>2. CASE UtilityNext
  <2>1. TP!IInv' /\ Linked'
    BY <1>1, <1>2, NetworkKeeps, LinkedKeeps
  <2>2. ASSUME ~damaged' PROVE Sound'
    <3>1. ~damaged /\ (StoreRefused => Intact')
      <4>1. CASE StoreRefused
        <5>1. damaged' = (damaged \/ ~Intact')
          BY <4>1 DEF StoreRefused
        <5>2. QED
          BY <2>2, <5>1, Zenon
      <4>2. CASE ~StoreRefused
        <5>1. damaged' = damaged
          BY <1>1, <1>2, <4>2, ImageStep
        <5>2. QED
          BY <2>2, <4>2, <5>1
      <4>3. QED
        BY <4>1, <4>2
    <3>2. QED
      BY <1>2, <3>1, SoundKeeps DEF UInv
  <2>3. QED
    BY <2>1, <2>2 DEF UInv
<1>3. CASE UNCHANGED uvars
  <2>1. UNCHANGED vars /\ UNCHANGED network /\ UNCHANGED <<code, before, damaged>>
    BY <1>3 DEF uvars, image, refused
  <2>2. TP!IInv'
    BY <1>1, <2>1, NetworkIdle
  <2>3. Linked'
    BY <1>1, <2>1 DEF Linked, network, vars, T!Current
  <2>4. Sound => Sound'
    BY <2>1, NextIInv, NextLayout, NextTree, NextKinds, NextFiles DEF Sound, DInv, TInv
  <2>5. QED
    BY <2>1, <2>2, <2>3, <2>4 DEF UInv
<1>4. QED
  BY <1>2, <1>3

\* The two threads keep the queue in order, the user interface uses the image
\* for one thing at a time, and until it is damaged the image is sound.
THEOREM UtilityInvariance ==
    ASSUME LongTexts
    PROVE  UtilitySpec => []UInv
<1>1. UtilityInit => UInv
  BY InitUInv
<1>2. UInv /\ [UtilityNext]_uvars => UInv'
  BY NextUInv
<1>3. QED
  BY <1>1, <1>2, PTL DEF UtilitySpec

\* No operation of the user's, no request and no received block damages the
\* image: only storing the inode of a file whose name was refused does.
THEOREM DamageKnown ==
    ASSUME LongTexts
    PROVE  UtilitySpec => OnlyRefusedDamages
<1>1. UInv /\ UInv' /\ [UtilityNext]_uvars => [~damaged /\ ~Intact' => StoreRefused]_uvars
  <2> SUFFICES ASSUME UInv, UtilityNext, ~damaged, ~Intact', ~StoreRefused
               PROVE  FALSE
    OBVIOUS
  <2>1. Sound'
    BY SoundKeeps DEF UInv
  <2>2. QED
    BY <2>1 DEF Sound, DInv, TInv, IInv, Tree, Intact
<1>2. QED
  BY <1>1, UtilityInvariance, PTL DEF UtilitySpec, OnlyRefusedDamages

\* A directory of an undamaged image has no two files of one name, whoever
\* made them: create_file looks for the name, also for a sender.
THEOREM FilesHaveOneName ==
    ASSUME LongTexts
    PROVE  UtilitySpec => []FilesNamedOnce
<1>1. UInv => FilesNamedOnce
  <2> SUFFICES ASSUME Sound, Running,
                      NEW d \in Inodes, NEW k \in Links(d), NEW l \in Links(d),
                      FileType(EntriesOf(d)[k].inode), FileType(EntriesOf(d)[l].inode),
                      EntriesOf(d)[k].name = EntriesOf(d)[l].name
               PROVE  k = l
    BY DEF UInv, FilesNamedOnce
  <2>1. OneNamePerInode /\ EntriesAreLive /\ bitmap_inode \subseteq Inodes
    BY DEF Sound, DInv, TInv, Tree, Forest, IInv, TypeOK
  <2>2. EntriesOf(d)[k].inode \in Inodes /\ EntriesOf(d)[l].inode \in Inodes
    BY <2>1 DEF EntriesAreLive
  <2>3. EntriesOf(d)[k].inode = EntriesOf(d)[l].inode
    BY <2>2 DEF Sound, SameFiles
  <2>4. QED
    BY <2>1, <2>3 DEF OneNamePerInode
<1>2. QED
  BY <1>1, UtilityInvariance, PTL

-----------------------------------------------------------------------------
(* What even a damaged image keeps *)

\* The root has its entries in block 0, and is in nobody's hand.
Bare == inode[Root].blocks[1] = NoBlock /\ (Held => cur # Root)

\* Whatever is marked wrongly, nothing has a value of another kind.
Base == TypeOK /\ Reserved /\ Session /\ Bare

\* The end of the program.
LEMMA HaltBase ==
    ASSUME Base, mode' \in {"down", "crashed"}, DropLocal, UNCHANGED disk
    PROVE  Base'
<1>1. UNCHANGED <<bitmap_inode, bitmap_blocks, free_blocks, inode, block>>
  BY DEF disk
<1>2. ClearNode \in Node /\ 1 \in 1 .. MAX_BLOCK_COUNT + 1
  BY EmptyNodeType, SizesAssumption
<1>3. TypeOK'
  BY <1>1, <1>2, Sizes DEF DropLocal, Base, TypeOK
<1>4. QED
  BY <1>1, <1>3 DEF Base, Reserved, Session, Bare, Held

\* A new inode is not the root, and does not change the root's.
LEMMA AddInodeBase ==
    ASSUME Base, mode = "menu", mode' \in {"menu", "receiving"},
           NEW d \in Inodes, NEW n \in Names, NEW t \in {DIR, FIL}, NEW i \in Inodes,
           AddInode(i, d, n, t),
           mode' = "receiving" => cur' # Root,
           cur' \in Inodes, object' \in Node, block_index' \in 1 .. MAX_BLOCK_COUNT + 1,
           UNCHANGED <<free_blocks, bitmap>>
    PROVE  Base'
<1> DEFINE entry == [inode |-> i, name |-> n]
           tbl   == WithInode(i, t)
<1>1. TakeInode(i) /\ AddDirent(d, entry, tbl)
  BY DEF AddInode
<1>2. PICK b \in Blocks :
        /\ IF LacksBlock(d, tbl) THEN TakeBlock(b)
           ELSE b = tbl[d].blocks[1] /\ UNCHANGED bitmap_blocks
        /\ IF Len(block[b]) = DirCapacity
             THEN inode' = tbl /\ UNCHANGED block
             ELSE /\ inode' = [tbl EXCEPT ![d] = WithBlock(tbl[d], 1, b)]
                  /\ block' = [block EXCEPT ![b] = Append(@, entry)]
  BY <1>1 DEF AddDirent
<1>3. /\ i # Root /\ entry \in Dirent
      /\ bitmap_inode' = bitmap_inode \cup {i}
  BY <1>1, Sizes DEF TakeInode, FirstFree, Base, Reserved, Dirent, Root
<1>4. EmptyNode(t) \in Node
  BY EmptyNodeType
<1>5. /\ tbl \in [Inodes -> Node]
      /\ tbl[Root] = inode[Root]
  BY <1>3, <1>4, Sizes DEF Base, TypeOK, WithInode
<1>6. d = Root => ~LacksBlock(d, tbl) /\ b = tbl[d].blocks[1]
  BY <1>2 DEF LacksBlock
<1> HIDE DEF entry, tbl
<1>7. /\ WithBlock(tbl[d], 1, b) \in Node
      /\ WithBlock(tbl[d], 1, b).blocks[1] = b
  BY <1>5, WithBlockType, Sizes
<1>8. inode' \in [Inodes -> Node] /\ inode'[Root].blocks[1] = inode[Root].blocks[1]
  BY <1>2, <1>5, <1>6, <1>7, Sizes
<1>9. /\ bitmap_blocks' \subseteq Blocks
      /\ bitmap_blocks \subseteq bitmap_blocks'
  BY <1>2 DEF TakeBlock, Base, TypeOK
<1>10. block' \in [Blocks -> Seq(Dirent)]
  <2>1. block \in [Blocks -> Seq(Dirent)]
    BY DEF Base, TypeOK
  <2>2. Append(block[b], entry) \in Seq(Dirent)
    BY <1>3, <2>1
  <2>3. QED
    BY <1>2, <2>1, <2>2
<1>11. TypeOK'
  BY <1>3, <1>8, <1>9, <1>10 DEF Base, TypeOK
<1>12. QED
  BY <1>3, <1>8, <1>9, <1>11 DEF Base, Reserved, Session, Bare, Held

\* What the user can begin: creating,
LEMMA CreateBase ==
    ASSUME Base, NEW d \in Inodes, NEW n \in Names,
           \/ CreateFile(d, n) \/ CreateDir(d, n)
           \/ d = Root /\ AcceptFile(n)
    PROVE  Base'
<1>1. CASE Crash
  BY <1>1, HaltBase DEF Crash
<1>2. ASSUME NEW t \in {DIR, FIL}, NEW i \in Inodes, AddInode(i, d, n, t),
             mode = "menu", UNCHANGED <<free_blocks, mode, local>>
      PROVE  Base'
  <2>1. UNCHANGED <<cur, object, block_index, bitmap>>
    BY <1>2 DEF local
  <2>2. QED
    BY <1>2, <2>1, AddInodeBase DEF Base, TypeOK
<1>3. ASSUME NEW i \in Inodes, AddInode(i, d, n, FIL), mode = "menu", mode' = "receiving",
             cur' = i, object' = EmptyNode(FIL), block_index' = 1,
             UNCHANGED <<free_blocks, bitmap>>
      PROVE  Base'
  <2>1. i # Root
    BY <1>3 DEF AddInode, TakeInode, FirstFree, Base, Reserved
  <2>2. object' \in Node /\ 1 \in 1 .. MAX_BLOCK_COUNT + 1
    BY <1>3, EmptyNodeType, SizesAssumption
  <2>3. QED
    BY <1>3, <2>1, <2>2, AddInodeBase
<1>4. QED
  BY <1>1, <1>2, <1>3 DEF CreateFile, CreateDir, AddObject, AcceptFile

\* deleting, which never takes the root,
LEMMA DeleteBase ==
    ASSUME Base, NEW d \in Inodes, NEW n \in Names, DeleteFile(d, n) \/ DeleteDir(d, n)
    PROVE  Base'
<1>1. PICK k \in DOMAIN Entries(d) :
        /\ Entries(d)[k].inode \in Inodes
        /\ \/ Crash
           \/ RemoveEntry(d, k, {Entries(d)[k].inode}, NodeBlocks(inode[Entries(d)[k].inode]))
           \/ RemoveEntry(d, k, Doomed(Entries(d)[k].inode), DoomedBlocks(Entries(d)[k].inode))
  BY DEF DeleteFile, DeleteDir
<1> DEFINE t == Entries(d)[k].inode
<1>2. t \in Inodes /\ t # Root /\ inode[t] \in Node /\ TypeOK
  BY <1>1, EntriesType DEF Base, TypeOK
<1>3. CASE Crash
  BY <1>3, HaltBase DEF Crash
<1>4. ASSUME NEW S \in SUBSET (Inodes \ {Root}), NEW B, 0 \notin B, mode = "menu",
             RemoveEntry(d, k, S, B)
      PROVE  Base'
  <2>1. /\ bitmap_inode' = bitmap_inode \ S
        /\ inode' = [i \in Inodes |-> IF i \in S THEN ClearNode ELSE inode[i]]
        /\ bitmap_blocks' = bitmap_blocks \ B
        /\ block' = [b \in Blocks |-> IF b = DirBlock(d) THEN RemoveAt(Entries(d), k)
                                      ELSE IF b \in B THEN <<>> ELSE block[b]]
        /\ UNCHANGED <<free_blocks, mode, cur, object, block_index, bitmap>>
    BY <1>4 DEF RemoveEntry, local
  <2>2. RemoveAt(Entries(d), k) \in Seq(Dirent)
    BY EntriesType, RemoveAtType DEF Base
  <2>3. inode' \in [Inodes -> Node] /\ inode'[Root] = inode[Root]
    BY <2>1, EmptyNodeType, Sizes DEF Base, TypeOK
  <2>4. block' \in [Blocks -> Seq(Dirent)]
    BY <2>1, <2>2 DEF Base, TypeOK
  <2>5. TypeOK'
    BY <2>1, <2>3, <2>4 DEF Base, TypeOK
  <2>6. QED
    BY <1>4, <2>1, <2>3, <2>5 DEF Base, Reserved, Session, Bare, Held
<1>5. 0 \notin NodeBlocks(inode[t])
  BY <1>2, NodeBlocksSound DEF NoBlock
<1>6. 0 \notin DoomedBlocks(t) /\ Doomed(t) \in SUBSET (Inodes \ {Root})
  BY <1>2, DoomedSound DEF NoBlock
<1>7. mode = "menu" /\ {t} \in SUBSET (Inodes \ {Root})
  BY <1>2 DEF DeleteFile, DeleteDir
<1> HIDE DEF t
<1>8. QED
  BY <1>1, <1>3, <1>4, <1>5, <1>6, <1>7 DEF t

\* and opening a file, which the root is not, for writing.
LEMMA OpenForWriteBase ==
    ASSUME Base, NEW d \in Inodes, NEW n \in Names, OpenForWrite(d, n)
    PROVE  Base'
<1>1. PICK k \in DOMAIN Entries(d), b \in Blocks :
        /\ Entries(d)[k].inode \in Inodes
        /\ TakeBlock(b)
        /\ object' = WithBlock(inode[Entries(d)[k].inode], 1, b)
        /\ cur' = Entries(d)[k].inode
  BY DEF OpenForWrite
<1>2. /\ mode = "menu" /\ mode' = "writing" /\ block_index' = 1
      /\ UNCHANGED <<bitmap_inode, free_blocks, inode, block, bitmap>>
  BY DEF OpenForWrite
<1>3. inode[cur'] \in Node /\ cur' \in Inodes /\ cur' # Root
  BY <1>1, EntriesType DEF Base, TypeOK
<1>4. 1 \in Slots /\ 1 \in 1 .. MAX_BLOCK_COUNT + 1
  BY Sizes, SizesAssumption
<1>5. object' \in Node
  BY <1>1, <1>3, <1>4, WithBlockType
<1>6. TypeOK'
  BY <1>1, <1>2, <1>3, <1>4, <1>5 DEF Base, TypeOK, TakeBlock
<1>7. QED
  BY <1>1, <1>2, <1>3, <1>4, <1>6 DEF Base, Reserved, Session, Bare, Held, TakeBlock

\* Storing the copy.
LEMMA CloseFileBase ==
    ASSUME Base, mode \in {"writing", "receiving"}, CloseFile,
           block' \in [Blocks -> Seq(Dirent)],
           UNCHANGED <<bitmap_inode, bitmap_blocks, free_blocks>>
    PROVE  Base'
<1>1. /\ inode' = [inode EXCEPT ![cur] = object] /\ mode' = "menu"
      /\ cur' = Root /\ object' = ClearNode /\ block_index' = 1 /\ bitmap' = {}
  BY DEF CloseFile, DropLocal
<1>2. ClearNode \in Node /\ 1 \in 1 .. MAX_BLOCK_COUNT + 1
  BY EmptyNodeType, SizesAssumption
<1>3. TypeOK'
  BY <1>1, <1>2, Sizes DEF Base, TypeOK
<1>4. inode'[Root] = inode[Root]
  BY <1>1, Sizes DEF Base, TypeOK, Bare, Held
<1>5. QED
  BY <1>1, <1>3, <1>4 DEF Base, Reserved, Session, Bare, Held

\* Typing and receiving.
LEMMA SessionBase ==
    ASSUME Base,
           \/ \E text \in Texts : FillBlock(text) \/ FinishWrite(text) \/ ReceiveBlock(text)
           \/ StoreReceived
    PROVE  Base'
<1>1. object \in Node /\ block_index \in 1 .. MAX_BLOCK_COUNT + 1
      /\ block \in [Blocks -> Seq(Dirent)]
  BY DEF Base, TypeOK
<1>2. CASE Crash
  BY <1>2, HaltBase DEF Crash
<1>3. ASSUME mode \in {"writing", "receiving"}, CloseFile,
             \/ UNCHANGED block
             \/ \E text \in Texts : block' = [block EXCEPT ![object.blocks[block_index]] = text],
             UNCHANGED <<bitmap_inode, bitmap_blocks, free_blocks>>
      PROVE  Base'
  <2>1. CASE UNCHANGED block
    BY <1>1, <1>3, <2>1, CloseFileBase
  <2>2. ASSUME NEW text \in Texts, block' = [block EXCEPT ![object.blocks[block_index]] = text]
        PROVE  Base'
    <3>1. block' \in [Blocks -> Seq(Dirent)]
      BY <2>2, TypedType DEF Base
    <3>2. QED
      BY <1>3, <3>1, CloseFileBase
  <2>3. QED
    BY <1>3, <2>1, <2>2
<1>4. ASSUME NEW b \in Blocks, NEW s \in Slots, NEW w, NEW text \in Texts,
             mode \in {"writing", "receiving"}, TakeBlock(b),
             object' = WithBlock(object, s, b), block' = [block EXCEPT ![w] = text],
             block_index' \in 1 .. MAX_BLOCK_COUNT + 1, mode = "writing" => block_index' \in Slots,
             UNCHANGED <<bitmap_inode, free_blocks, inode, mode, cur, bitmap>>
      PROVE  Base'
  <2>1. object' \in Node /\ block' \in [Blocks -> Seq(Dirent)]
    BY <1>1, <1>4, WithBlockType, TypedType DEF Base
  <2>2. TypeOK'
    BY <1>4, <2>1 DEF Base, TypeOK, TakeBlock
  <2>3. QED
    BY <1>4, <2>2 DEF Base, Reserved, Session, Bare, Held, TakeBlock
<1>5. ASSUME NEW text \in Texts, FillBlock(text) PROVE Base'
  <2>1. mode = "writing" /\ block_index \in Slots /\ UNCHANGED <<bitmap_inode, free_blocks>>
    BY <1>5 DEF FillBlock, Base, Session
  <2>2. CASE UNCHANGED bitmap_blocks /\ CloseFile
             /\ block' = [block EXCEPT ![object.blocks[block_index]] = text]
    BY <1>3, <2>1, <2>2
  <2>3. ASSUME NEW b \in Blocks, TakeBlock(b), object' = WithBlock(object, block_index + 1, b),
               block' = [block EXCEPT ![object.blocks[block_index]] = text],
               block_index < MAX_BLOCK_COUNT, block_index' = block_index + 1,
               UNCHANGED <<inode, mode, cur, bitmap>>
        PROVE  Base'
    <3>1. block_index + 1 \in Slots /\ block_index' \in 1 .. MAX_BLOCK_COUNT + 1
      BY <1>1, <2>3, SizesAssumption DEF Slots
    <3>2. QED
      BY <1>4, <2>1, <2>3, <3>1
  <2>4. QED
    BY <1>2, <1>5, <2>2, <2>3 DEF FillBlock
<1>6. ASSUME NEW text \in Texts, FinishWrite(text) PROVE Base'
  BY <1>3, <1>6 DEF FinishWrite
<1>7. ASSUME NEW text \in Texts, ReceiveBlock(text) PROVE Base'
  <2>1. mode = "receiving" /\ block_index \in Slots
        /\ block_index + 1 \in 1 .. MAX_BLOCK_COUNT + 1
    BY <1>1, <1>7, SizesAssumption DEF ReceiveBlock, Slots
  <2>2. ASSUME NEW b \in Blocks, TakeBlock(b), object' = WithBlock(object, block_index, b),
               block' = [block EXCEPT ![b] = text], block_index' = block_index + 1,
               UNCHANGED <<bitmap_inode, free_blocks, inode, mode, cur, bitmap>>
        PROVE  Base'
    BY <1>4, <2>1, <2>2
  <2>3. QED
    BY <1>2, <1>7, <2>2 DEF ReceiveBlock
<1>8. CASE StoreReceived
  BY <1>3, <1>8 DEF StoreReceived
<1>9. QED
  BY <1>5, <1>6, <1>7, <1>8

\* The tools.
LEMMA ToolsBase ==
    ASSUME Base, CheckFilesystem \/ DefragStart \/ DefragSlot \/ DefragStore
    PROVE  Base'
<1>1. /\ object \in Node /\ block_index \in 1 .. MAX_BLOCK_COUNT + 1
      /\ block \in [Blocks -> Seq(Dirent)] /\ inode \in [Inodes -> Node]
      /\ 1 \in 1 .. MAX_BLOCK_COUNT + 1 /\ cur \in Inodes
  BY SizesAssumption DEF Base, TypeOK
<1>2. CASE CheckFilesystem
  <2>1. /\ bitmap_blocks' = bitmap_blocks \cup NodeBlocks(inode[Root])
        /\ free_blocks' = Cardinality((Blocks \ {0}) \ bitmap_blocks')
        /\ mode = "menu"
        /\ UNCHANGED <<bitmap_inode, inode, block, mode, cur, object, block_index, bitmap>>
    BY <1>2 DEF CheckFilesystem, local
  <2>2. NodeBlocks(inode[Root]) \subseteq Blocks
    BY <1>1, NodeBlocksSound, Sizes
  <2>3. IsFiniteSet((Blocks \ {0}) \ bitmap_blocks')
    <3>1. IsFiniteSet(Blocks)
      BY FS_Interval, SizesAssumption DEF Blocks
    <3>2. QED
      BY <3>1, FS_Subset
  <2>4. TypeOK'
    BY <2>1, <2>2, <2>3, FS_CardinalityType DEF Base, TypeOK
  <2>5. QED
    BY <2>1, <2>4 DEF Base, Reserved, Session, Bare, Held
<1>3. CASE DefragStart
  <2>1. /\ mode' = "defrag" /\ cur' = 1 /\ object' = inode[1]
        /\ block_index' = 1 /\ bitmap' = bitmap_blocks
        /\ UNCHANGED <<bitmap_inode, bitmap_blocks, free_blocks, inode, block>>
    BY <1>3 DEF DefragStart, disk
  <2>2. TypeOK'
    BY <1>1, <2>1, Sizes DEF Base, TypeOK
  <2>3. QED
    BY <2>1, <2>2 DEF Base, Reserved, Session, Bare, Held, Root
<1>4. CASE DefragSlot
  <2> DEFINE b == object.blocks[block_index]
  <2>1. /\ mode = "defrag" /\ block_index \in Slots /\ block_index' \in 1 .. MAX_BLOCK_COUNT + 1
        /\ b # NoBlock /\ b \in Blocks
        /\ UNCHANGED <<bitmap_inode, bitmap_blocks, free_blocks, inode, mode, cur>>
    BY <1>1, <1>4, SizesAssumption DEF DefragSlot, DefragHere, Slots, Node
  <2>2. /\ bitmap' \subseteq Blocks /\ 0 \in bitmap' /\ object' \in Node
        /\ block' \in [Blocks -> Seq(Dirent)]
    <3>1. CASE UNCHANGED <<block, bitmap, object>>
      BY <1>1, <2>1, <3>1 DEF Base, TypeOK, Reserved
    <3>2. ASSUME NEW k \in 1 .. b - 1, MoveBlock(b, k)
          PROVE  /\ bitmap' \subseteq Blocks /\ 0 \in bitmap' /\ object' \in Node
                 /\ block' \in [Blocks -> Seq(Dirent)]
      <4>1. k \in Blocks /\ k # b
        BY <2>1, SizesAssumption DEF Blocks, NoBlock
      <4>2. object' \in Node
        BY <1>1, <2>1, <3>2, <4>1, WithBlockType DEF MoveBlock
      <4>3. block[b] \in Seq(Dirent) /\ <<>> \in Seq(Dirent)
        BY <1>1, <2>1
      <4>4. block' \in [Blocks -> Seq(Dirent)]
        BY <1>1, <2>1, <3>2, <4>1, <4>3 DEF MoveBlock
      <4>5. bitmap' \subseteq Blocks /\ 0 \in bitmap'
        BY <2>1, <3>2, <4>1 DEF MoveBlock, Base, TypeOK, Reserved, NoBlock
      <4>6. QED
        BY <4>2, <4>4, <4>5
    <3>3. QED
      BY <1>4, <3>1, <3>2 DEF DefragSlot
  <2>3. TypeOK'
    BY <2>1, <2>2 DEF Base, TypeOK
  <2>4. QED
    BY <2>1, <2>2, <2>3 DEF Base, Reserved, Session, Bare, Held
<1>5. CASE DefragStore
  <2>1. /\ mode = "defrag" /\ inode' = [inode EXCEPT ![cur] = object]
        /\ UNCHANGED <<bitmap_inode, free_blocks, block>>
    BY <1>5 DEF DefragStore
  <2>2. inode' \in [Inodes -> Node] /\ inode'[Root] = inode[Root]
    BY <1>1, <2>1, Sizes DEF Base, Bare, Held
  <2>3. CASE /\ cur < TOTAL_INODE - 1 /\ cur' = cur + 1 /\ object' = inode[cur + 1]
             /\ block_index' = 1
             /\ UNCHANGED <<bitmap_blocks, bitmap, mode>>
    <3>1. cur + 1 \in Inodes /\ cur + 1 # Root
      BY <1>1, <2>3, SizesAssumption DEF Inodes, Root
    <3>2. TypeOK'
      BY <1>1, <2>1, <2>2, <2>3, <3>1 DEF Base, TypeOK
    <3>3. QED
      BY <2>1, <2>2, <2>3, <3>1, <3>2 DEF Base, Reserved, Session, Bare, Held
  <2>4. CASE bitmap_blocks' = bitmap /\ mode' = "menu" /\ DropLocal
    <3>1. TypeOK'
      BY <1>1, <2>1, <2>2, <2>4, EmptyNodeType, Sizes DEF Base, TypeOK, DropLocal
    <3>2. QED
      BY <2>1, <2>2, <2>4, <3>1 DEF Base, Reserved, Session, Bare, Held
  <2>5. QED
    BY <1>5, <2>3, <2>4 DEF DefragStore
<1>6. QED
  BY <1>2, <1>3, <1>4, <1>5

\* A fresh image, made at the first start or at a later one.
LEMMA InitBase ==
    /\ Init => Base
    /\ Start /\ Base => Base'
<1>1. ASSUME Init PROVE Base
  <2>1. IInv
    BY <1>1, InitIInv
  <2>2. Bare
    BY <1>1, Formatted, Sizes DEF Init, Bare, Held
  <2>3. QED
    BY <2>1, <2>2 DEF Base, IInv
<1>2. ASSUME Start, Base PROVE Base'
  <2>1. EmptyNode(DIR) \in Node /\ EmptyNode(DIR).blocks[1] = NoBlock
    BY EmptyNodeType, Sizes
  <2>2. TypeOK'
    BY <1>2, <2>1, Sizes, SizesAssumption DEF Start, local, Base, TypeOK
  <2>3. QED
    BY <1>2, <2>1, <2>2, Sizes DEF Start, Base, Reserved, Session, Bare, Held
<1>3. QED
  BY <1>1, <1>2

\* Every operation of the file system keeps that, on whatever image.
LEMMA NextBase == Base /\ [Next]_vars => Base'
<1> SUFFICES ASSUME Base, [Next]_vars PROVE Base'
  OBVIOUS
<1>1. ASSUME NEW d \in Parents, NEW n \in Names,
             CreateFile(d, n) \/ CreateDir(d, n) \/ DeleteFile(d, n) \/ DeleteDir(d, n)
               \/ OpenForWrite(d, n)
      PROVE  Base'
  <2>1. d \in Inodes
    BY DEF Parents
  <2>2. QED
    BY <1>1, <2>1, CreateBase, DeleteBase, OpenForWriteBase
<1>2. ASSUME NEW n \in Names, AcceptFile(n) PROVE Base'
  BY <1>2, CreateBase, Sizes
<1>3. CASE EmptyPath \/ Stop
  BY <1>3, HaltBase DEF EmptyPath, Crash, Stop
<1>4. CASE UNCHANGED vars
  BY <1>4 DEF vars, disk, local, Base, TypeOK, Reserved, Session, Bare, Held
<1>5. QED
  BY <1>1, <1>2, <1>3, <1>4, SessionBase, ToolsBase, InitBase DEF Next

\* Neither does what is done for a refused name make anything of another kind:
\* the bytes written are bytes of the bitmap, and not the root's.
LEMMA BaseKeeps ==
    ASSUME TP!IInv, Linked, Base, before \subseteq Blocks, UtilityNext
    PROVE  Base' /\ before' \subseteq Blocks
<1>1. before' \subseteq Blocks
  <2>1. CASE UNCHANGED refused
    BY <2>1 DEF refused
  <2>2. CASE AcceptRefused
    BY <2>2 DEF AcceptRefused, Base, TypeOK
  <2>3. CASE StoreRefused
    BY <2>3 DEF StoreRefused
  <2>4. QED
    BY <2>1, <2>2, <2>3 DEF UtilityNext, Local, Quit, Network, Accept, Receive, ReceiveFailed, StoreNamed
<1>2. CASE [Next]_vars
  BY <1>1, <1>2, NextBase
<1>3. ASSUME mode = "menu", NEW text \in Texts, ReceiveLost(text)
      PROVE  Base'
  <2>1. CASE Crash
    BY <2>1, HaltBase DEF Crash
  <2>2. ASSUME NEW b \in Blocks, TakeBlock(b), block' = [block EXCEPT ![b] = text],
               UNCHANGED <<bitmap_inode, free_blocks, inode, mode, local>>
        PROVE  Base'
    <3>1. block' \in [Blocks -> Seq(Dirent)]
      BY <2>2, TypedType DEF Base
    <3>2. QED
      BY <2>2, <3>1 DEF local, Base, TypeOK, Reserved, Session, Bare, Held, TakeBlock
  <2>3. QED
    BY <1>3, <2>1, <2>2 DEF ReceiveLost
<1>4. CASE mode = "menu" /\ StoreRefused
  <2>1. /\ code \in {-2, -4} /\ calls \in 0 .. MAX_BLOCK_COUNT
        /\ UNCHANGED <<bitmap_inode, free_blocks, inode, block, mode, local>>
    BY <1>4 DEF StoreRefused, Linked, TP!IInv, TP!TypeOK
  <2>2. /\ \A j \in 1 .. calls : LowByte(j) \in Blocks /\ LowByte(j) \in Nat \ {0}
        /\ Overlaid \subseteq Blocks /\ 0 \notin Overlaid
    BY <2>1, OverlaidInside, SizesAssumption
  <2>3. \A j \in 1 .. calls : LowByte(j) + 1 # 0
    BY <2>2
  <2>4. bitmap_blocks' \subseteq Blocks /\ 0 \in bitmap_blocks'
    BY <1>4, <2>2, <2>3 DEF StoreRefused, Base, TypeOK, Reserved
  <2>5. QED
    BY <1>1, <1>4, <2>1, <2>4 DEF local, Base, TypeOK, Reserved, Session, Bare, Held
<1>5. CASE mode = "menu" /\ \E text \in Texts : ReceiveLost(text)
  BY <1>1, <1>3, <1>5
<1>6. QED
  BY <1>2, <1>4, <1>5, ImageStep

-----------------------------------------------------------------------------
(* A file on its way *)

\* Who sends the file in turn.
Asker == T!Current.sender_ip

\* A connection that was read from is the one of the file in turn, or closed.
Fresh ==
    \A s \in Senders : got[s] # 0 =>
        /\ pc[s] # "idle"
        /\ \A j \in DOMAIN backlog : backlog[j] # s
        /\ fd[s] # 0 => ui = "receiving" /\ s = Asker

\* The inode in hand has the blocks received, in order; if create_file made a
\* name for it the root has it.
Arrived ==
    /\ got[Asker] = calls
    /\ block_index = calls + 1
    /\ cur \in bitmap_inode
    /\ \A q \in Slots : IF q <= calls
                          THEN /\ object.blocks[q] \in bitmap_blocks \ {NoBlock}
                               /\ block[object.blocks[q]] = FileText[Asker][q]
                          ELSE object.blocks[q] = NoBlock
    /\ created => \E k \in DOMAIN block[0] : block[0][k] = [inode |-> cur, name |-> NameSent]

\* So it is while a file is being received, and only then, unless recv has
\* failed.
Received ==
    /\ ui # "receiving" => calls = 0
    /\ ui = "receiving" => IF code = 0 THEN torn \/ Arrived ELSE ~created

\* The inductive invariant for StoredAsSent: nothing in it needs the marks of
\* the bitmap to be right.
SentInv == TP!IInv /\ Linked /\ Base /\ before \subseteq Blocks /\ Fresh /\ Received

\* The descriptor of the request in turn is its sender's and nobody else's.
LEMMA PeerIsAsker ==
    ASSUME TP!IInv, ui \in {"accepted", "receiving"}
    PROVE  /\ Asker \in Senders /\ fd[Asker] # 0 /\ fd[Asker] = T!Current.socket_fd
           /\ \A s \in T!Peers : s = Asker
<1>1. TP!Reviewing /\ ui # "down" /\ ~TP!MutexLost
  BY DEF TP!Reviewing, TP!MutexLost
<1>2. turn \in TP!Open
  <2>1. turn \in 1 .. MAX_PENDING_REQUESTS + 1 /\ turn <= request_count
        /\ request_count \in 0 .. MAX_PENDING_REQUESTS
    BY DEF TP!IInv, TP!TypeOK, TP!Turn
  <2>2. QED
    BY <2>1, TransferAssumption DEF TP!Open
<1>3. Asker \in Senders /\ fd[Asker] # 0 /\ fd[Asker] = T!Current.socket_fd
  BY <1>1, <1>2 DEF TP!IInv, TP!OwnDescriptor, T!Current, Asker
<1>4. ASSUME NEW s \in T!Peers PROVE s = Asker
  BY <1>3 DEF T!Peers, TP!IInv, TP!OneOwner
<1>5. QED
  BY <1>3, <1>4

\* Where no file is being received, nothing is read and at most some
\* connections are closed.
LEMMA FreshFrame ==
    ASSUME Fresh, ui # "receiving", UNCHANGED <<got, backlog>>,
           \A s \in Senders : pc'[s] = "idle" => pc[s] = "idle",
           \A s \in Senders : fd'[s] = fd[s] \/ fd'[s] = 0
    PROVE  Fresh'
  BY DEF Fresh

\* A step that reads, opens and closes nothing.
LEMMA FreshIdle ==
    ASSUME Fresh, UNCHANGED <<got, backlog, fd, ui, turn, pending_requests>>,
           \A s \in Senders : pc'[s] = "idle" => pc[s] = "idle"
    PROVE  Fresh'
  BY DEF Fresh, Asker, T!Current

\* A step of the network that has nothing to do with the request in turn.
LEMMA ReceivedIdle ==
    ASSUME Received, UNCHANGED <<image, code, ui, turn, pending_requests, calls, torn, created, got>>
    PROVE  Received'
  BY DEF Received, Arrived, Asker, NameSent, T!NameOf, T!Current, image, vars, disk, local

\* A step of neither the image nor the network.
LEMMA SentIdle ==
    ASSUME Fresh, Received, UNCHANGED <<image, network, code>>
    PROVE  Fresh' /\ Received'
<1>1. UNCHANGED <<pc, backlog, fd, got, ui, turn, pending_requests, calls, torn, created>>
  BY DEF network
<1>2. QED
  BY <1>1, FreshIdle, ReceivedIdle

\* What the server thread, the senders and the clock do.
LEMMA NetworkSent ==
    ASSUME SentInv, Network
    PROVE  Fresh' /\ Received'
<1>1. /\ UNCHANGED <<image, code>>
      /\ pc \in [Senders -> TP!Places]
      /\ backlog \in Seq(Senders)
      /\ ui \in {"menu", "prompt", "accepted", "receiving", "ending", "down"}
  BY DEF Network, refused, SentInv, TP!IInv, TP!TypeOK
<1>2. Fresh /\ Received
  BY DEF SentInv
<1>3. ASSUME UNCHANGED <<got, backlog, fd, ui, turn, pending_requests, calls, torn, created>>,
             \A s \in Senders : pc'[s] = "idle" => pc[s] = "idle"
      PROVE  Fresh' /\ Received'
  BY <1>1, <1>2, <1>3, FreshIdle, ReceivedIdle
<1>4. ASSUME ui # "receiving", ui' # "receiving", UNCHANGED <<got, backlog, pc, calls>>,
             \A s \in Senders : fd'[s] = fd[s] \/ fd'[s] = 0
      PROVE  Fresh' /\ Received'
  BY <1>2, <1>4, FreshFrame DEF Received
<1>5. ASSUME NEW D, T!CloseDescriptors(D)
      PROVE  \A s \in Senders : fd'[s] = fd[s] \/ fd'[s] = 0
  BY <1>5 DEF T!CloseDescriptors
<1>6. ASSUME NEW s \in Senders, T!Connect(s)
      PROVE  Fresh' /\ Received'
  <2>1. /\ pc[s] = "idle" /\ pc' = [pc EXCEPT ![s] = "connected"]
        /\ backlog' = Append(backlog, s)
        /\ UNCHANGED <<fd, got, ui, turn, pending_requests, calls, torn, created>>
    BY <1>6 DEF T!Connect, T!queue, T!check, T!file
  <2>2. \A j \in DOMAIN backlog' : backlog'[j] = s \/ (j \in DOMAIN backlog /\ backlog'[j] = backlog[j])
    BY <1>1, <2>1
  <2>3. Fresh'
    BY <1>1, <1>2, <2>1, <2>2 DEF Fresh, Asker, T!Current
  <2>4. Received'
    BY <1>1, <1>2, <2>1, ReceivedIdle
  <2>5. QED
    BY <2>3, <2>4
<1>7. ASSUME NEW s \in Senders, T!SenderStep(s) \/ T!Kill(s)
      PROVE  Fresh' /\ Received'
  <2>1. UNCHANGED T!receiver
    BY <1>7 DEF T!SenderStep, T!ConnectFails, T!FindFails, T!SendMetadata, T!PollTimeout,
         T!LeaveLate, T!Kill, T!ReadAnswer, T!SendBlock, T!BrokenPipe, T!SendDone
  <2>2. UNCHANGED <<got, backlog, fd, ui, turn, pending_requests, calls, torn, created>>
    BY <2>1 DEF T!receiver, T!connection, T!queue, T!check, T!file
  <2>3. \/ UNCHANGED pc
        \/ \E to \in {"waiting", "leaving", "sending", "done", "killed", "reset"} :
              pc' = [pc EXCEPT ![s] = to]
    BY <1>7 DEF T!SenderStep, T!ConnectFails, T!FindFails, T!SendMetadata, T!PollTimeout,
         T!LeaveLate, T!Kill, T!ReadAnswer, T!SendBlock, T!BrokenPipe, T!SendDone, T!Return
  <2>4. \A t \in Senders : pc'[t] = "idle" => pc[t] = "idle"
    BY <1>1, <2>3
  <2>5. QED
    BY <1>3, <2>2, <2>4
<1>8. CASE T!Accept
  <2> DEFINE s == Head(backlog)
  <2>1. /\ backlog # <<>> /\ backlog' = Tail(backlog)
        /\ \E d : fd' = [fd EXCEPT ![s] = d]
        /\ UNCHANGED <<pc, got, ui, turn, pending_requests, calls, torn, created>>
    BY <1>8 DEF T!Accept, T!sender, T!queue, T!check, T!file
  <2>2. /\ s = backlog[1] /\ 1 \in DOMAIN backlog
        /\ \A j \in DOMAIN backlog' : j + 1 \in DOMAIN backlog /\ backlog'[j] = backlog[j + 1]
    BY <1>1, <2>1
  <2>3. \A t \in Senders : fd'[t] = fd[t] \/ t = s
    BY <2>1 DEF SentInv, TP!IInv, TP!TypeOK
  <2>4. Fresh'
    BY <1>2, <2>1, <2>2, <2>3 DEF Fresh, Asker, T!Current
  <2>5. Received'
    BY <1>1, <1>2, <2>1, ReceivedIdle
  <2>6. QED
    BY <2>4, <2>5
<1>9. CASE T!ReceiveMetadata \/ T!Tick
  <2>1. UNCHANGED <<pc, got, backlog, fd, ui, turn, pending_requests, calls, torn, created>>
    BY <1>9 DEF T!ReceiveMetadata, T!Tick, T!sender, T!receiver, T!connection, T!queue, T!check, T!file
  <2>2. QED
    BY <1>3, <2>1
<1>10. CASE T!Enqueue
  <2>1. /\ UNCHANGED <<ui, got, backlog, pc, calls>> /\ mutex = "free"
        /\ UNCHANGED fd \/ \E D : T!CloseDescriptors(D)
    BY <1>10 DEF T!Enqueue, T!EnqueueRequest, T!sender, T!check, T!file
  <2>2. ui \in {"menu", "down"}
    BY <1>1, <2>1 DEF SentInv, TP!IInv, TP!Turn, TP!Reviewing
  <2>3. QED
    BY <1>4, <1>5, <2>1, <2>2
<1>11. CASE T!CheckStart
  <2>1. /\ ui = "menu" /\ ui' = "prompt" /\ UNCHANGED <<got, backlog, pc, calls>>
        /\ \E D : T!CloseDescriptors(D)
    BY <1>11 DEF T!CheckStart, T!DropExpired, T!sender, T!file
  <2>2. QED
    BY <1>4, <1>5, <2>1
<1>12. CASE T!UserAccepts \/ T!LoopEnd \/ T!CheckEnd
  <2>1. /\ ui \in {"prompt", "ending"} /\ ui' \in {"accepted", "ending", "menu"}
        /\ UNCHANGED <<got, backlog, pc, calls, fd>>
    BY <1>12 DEF T!UserAccepts, T!LoopEnd, T!CheckEnd, T!Prompting, T!sender, T!connection, T!file
  <2>2. QED
    BY <1>4, <2>1
<1>13. CASE T!UserRefuses \/ T!PromptExpires
  <2>1. /\ ui = "prompt" /\ ui' = "prompt" /\ UNCHANGED <<got, backlog, pc, calls>>
        /\ \E D : T!CloseDescriptors(D)
    BY <1>13 DEF T!UserRefuses, T!PromptExpires, T!Refuse, T!Prompting, T!sender, T!file
  <2>2. QED
    BY <1>4, <1>5, <2>1
<1>14. CASE T!AcceptExisting
  <2>1. /\ ui = "accepted" /\ ui' = "menu" /\ UNCHANGED <<got, backlog, pc, calls>>
        /\ \E D : T!CloseDescriptors(D)
    BY <1>14 DEF T!AcceptExisting, T!AnswerYes, T!sender, T!file
  <2>2. QED
    BY <1>4, <1>5, <2>1
<1>15. QED
  BY <1>6, <1>7, <1>8, <1>9, <1>10, <1>11, <1>12, <1>13, <1>14 DEF Network

\* The user interface is done with the file in turn, and with its connection.
LEMMA ExitSent ==
    ASSUME SentInv, T!Exit
    PROVE  Fresh' /\ Received'
<1>1. /\ ui' = "down" /\ calls' = 0 /\ UNCHANGED <<pc, got>>
      /\ fd' = [s \in Senders |-> 0] /\ backlog' = <<>>
  BY DEF T!Exit, T!EmptyMemory, T!EndReceiving, T!sender
<1>2. QED
  BY <1>1 DEF SentInv, Fresh, Received

\* Storing ends the reception and closes the connection.
LEMMA StoreSent ==
    ASSUME SentInv, T!StoreFile
    PROVE  Fresh' /\ Received'
<1>1. /\ ui = "receiving" /\ ui' = "prompt" /\ calls' = 0
      /\ T!CloseDescriptors({T!Current.socket_fd}) /\ UNCHANGED <<pc, got, backlog>>
  BY DEF T!StoreFile, T!EndReceiving, T!sender
<1>2. Asker \in Senders /\ fd[Asker] = T!Current.socket_fd
  BY <1>1, PeerIsAsker DEF SentInv
<1>3. fd'[Asker] = 0 /\ \A s \in Senders : fd'[s] = fd[s] \/ fd'[s] = 0
  BY <1>1, <1>2 DEF T!CloseDescriptors
<1>4. Fresh'
  BY <1>1, <1>2, <1>3 DEF SentInv, Fresh
<1>5. QED
  BY <1>1, <1>4 DEF Received

\* The names of the root in the image are those of the root that Transfer
\* looks through.
LEMMA RootIs ==
    ASSUME Base
    PROVE  /\ Entries(Root) = block[0] /\ block[0] \in Seq(Dirent)
           /\ DOMAIN RootNames = DOMAIN block[0]
           /\ Len(RootNames) = Len(block[0])
           /\ \A k \in DOMAIN block[0] : RootNames[k] = block[0][k].name
<1>1. Entries(Root) = block[0] /\ block[0] \in Seq(Dirent)
  BY Sizes DEF Base, Bare, TypeOK, Entries, DirBlock, NoBlock
<1>2. RootNames = [k \in 1 .. Len(block[0]) |-> block[0][k].name]
  BY <1>1 DEF RootNames
<1>3. RootNames \in Seq({block[0][k].name : k \in DOMAIN block[0]})
  BY <1>1, <1>2
<1>4. QED
  BY <1>1, <1>2, <1>3

\* Accepting a name that create_file accepts: the inode in hand is new, and if
\* there is room in the root it is there.
LEMMA AcceptSent ==
    ASSUME SentInv, Accept
    PROVE  Fresh' /\ Received'
<1>1. ui = "accepted" /\ code' = code /\ mode' \in {"receiving", "crashed"}
      /\ TP!IInv /\ Linked /\ Base /\ Fresh /\ Received
  BY DEF Accept, AcceptFile, Crash, refused, SentInv
<1>2. CASE mode' = "crashed"
  BY <1>2, ExitSent DEF Accept, WithProcess
<1>3. CASE mode' = "receiving"
  <2>1. PICK i \in Inodes : /\ AddInode(i, Root, NameSent, FIL)
                            /\ cur' = i /\ object' = EmptyNode(FIL) /\ block_index' = 1
    BY <1>3 DEF Accept, AcceptFile, Crash
  <2>2. /\ T!AcceptNew /\ ui' = "receiving"
        /\ UNCHANGED <<pc, got, backlog, fd, turn, pending_requests, calls>>
    BY <1>3 DEF Accept, WithProcess, T!AcceptNew, T!AnswerYes, T!sender, T!queue
  <2>3. Asker \in Senders /\ fd[Asker] # 0 /\ Asker' = Asker /\ NameSent' = NameSent
    BY <1>1, <2>2, PeerIsAsker DEF Asker, NameSent, T!NameOf, T!Current
  <2>4. got[Asker] = 0 /\ calls = 0 /\ code = 0
    BY <1>1, <2>3 DEF Fresh, Received, Linked
  <2>5. Fresh'
    BY <1>1, <2>2 DEF Fresh
  <2>6. cur' \in bitmap_inode' /\ i # Root
    BY <1>1, <2>1 DEF AddInode, TakeInode, FirstFree, Base, Reserved
  <2>7. WithInode(i, FIL)[Root] = inode[Root]
    BY <1>1, <2>6, Sizes DEF WithInode, Base, TypeOK
  <2>8. Len(block[0]) < DirCapacity =>
           block' = [block EXCEPT ![0] = Append(@, [inode |-> i, name |-> NameSent])]
    BY <1>1, <2>1, <2>7, RootIs, SizesAssumption
       DEF AddInode, AddDirent, LacksBlock, Base, Bare, NoBlock
  <2>9. created' => Len(block[0]) < DirCapacity
    BY <1>1, <2>2, RootIs DEF T!AcceptNew, NameSent
  <2>10. created' => \E k \in DOMAIN block'[0] : block'[0][k] = [inode |-> i, name |-> NameSent]
    <3>1. ASSUME created' PROVE block'[0] = Append(block[0], [inode |-> i, name |-> NameSent])
      BY <1>1, <2>8, <2>9, <3>1, Sizes DEF Base, TypeOK
    <3>2. Len(block[0]) + 1 \in DOMAIN Append(block[0], [inode |-> i, name |-> NameSent])
          /\ Append(block[0], [inode |-> i, name |-> NameSent])[Len(block[0]) + 1]
                = [inode |-> i, name |-> NameSent]
      BY <1>1, RootIs
    <3>3. QED
      BY <3>1, <3>2
  <2>11. \A q \in Slots : ~(q <= 0) /\ object'.blocks[q] = NoBlock
    BY <2>1, EmptyNodeType DEF Slots
  <2>12. Arrived'
    BY <2>1, <2>2, <2>3, <2>4, <2>6, <2>10, <2>11 DEF Arrived
  <2>13. QED
    BY <1>1, <2>2, <2>4, <2>5, <2>12 DEF Received
<1>4. QED
  BY <1>1, <1>2, <1>3

\* One that it refuses: Transfer counts nothing as created.
LEMMA AcceptRefusedSent ==
    ASSUME SentInv, AcceptRefused
    PROVE  Fresh' /\ Received'
<1>1. /\ ui = "accepted" /\ ui' = "receiving" /\ T!AcceptNew
      /\ UNCHANGED <<pc, got, backlog, fd>>
      /\ Fresh /\ Base
  BY DEF AcceptRefused, T!AcceptNew, T!AnswerYes, T!sender, SentInv
<1>2. code' \in {-2, -4} /\ CreateCode(NameSent) # 0
  BY DEF AcceptRefused, CreateCode
<1>3. ~created'
  <2>1. CASE ~FileNameAccepted(NameSent)
    <3>1. NameSent \in ShortNames
      BY <2>1 DEF FileNameAccepted
    <3>2. QED
      BY <1>1, <3>1 DEF T!AcceptNew, NameSent
  <2>2. CASE ~Absent(Entries(Root), NameSent)
    <3>1. PICK k \in DOMAIN RootNames : RootNames[k] = NameSent
      BY <1>1, <2>2, RootIs DEF Absent
    <3>2. QED
      BY <1>1, <3>1 DEF T!AcceptNew, NameSent
  <2>3. QED
    BY <1>2, <2>1, <2>2 DEF CreateCode
<1>4. Fresh'
  BY <1>1 DEF Fresh
<1>5. QED
  BY <1>1, <1>2, <1>3, <1>4 DEF Received

\* A block received is the next one sent, and goes to the slot in turn.
LEMMA ReceiveSent ==
    ASSUME SentInv, Receive
    PROVE  Fresh' /\ Received'
<1>1. /\ ui = "receiving" /\ calls < MAX_BLOCK_COUNT /\ code' = code
      /\ TP!IInv /\ Linked /\ Base /\ Fresh /\ Received
  BY DEF Receive, refused, SentInv
<1>2. CASE mode' = "crashed"
  BY <1>2, ExitSent DEF Receive, WithProcess
<1>3. CASE mode' # "crashed"
  <2>1. /\ T!ReceivePart /\ ui' = "receiving" /\ calls' = calls + 1
        /\ UNCHANGED <<pc, backlog, fd, turn, pending_requests, created>>
    BY <1>1, <1>3 DEF Receive, WithProcess, T!ReceivePart, T!sender, T!queue
  <2>2. /\ Asker \in Senders /\ fd[Asker] # 0 /\ \A s \in T!Peers : s = Asker
        /\ Asker' = Asker /\ NameSent' = NameSent
    BY <1>1, <2>1, PeerIsAsker DEF Asker, NameSent, T!NameOf, T!Current
  <2>3. got' = [got EXCEPT ![Asker] = @ + 1]
    <3>1. PICK s \in T!Peers, n \in 1 .. 1 : got' = [got EXCEPT ![s] = @ + n]
      BY <2>1 DEF T!ReceivePart
    <3>2. n = 1 /\ s = Asker
      BY <2>2, <3>1
    <3>3. QED
      BY <3>1, <3>2
  <2>4. /\ got \in [Senders -> Int] /\ backlog \in Seq(Senders)
        /\ calls \in 0 .. MAX_BLOCK_COUNT
    BY <1>1, SizesAssumption DEF TP!IInv, TP!TypeOK
  <2>5. Fresh'
    <3>1. pc[Asker] # "idle" /\ \A j \in DOMAIN backlog : backlog[j] # Asker
      BY <1>1, <2>2 DEF TP!IInv, TP!Backlog
    <3>2. QED
      BY <1>1, <2>1, <2>2, <2>3, <2>4, <3>1 DEF Fresh
  <2>9. torn => torn'
    BY <2>1 DEF T!ReceivePart
  <2>6. CASE code # 0 \/ torn
    BY <1>1, <2>1, <2>5, <2>6, <2>9 DEF Received
  <2>7. CASE code = 0 /\ ~torn
    <3> DEFINE text == FileText[Asker][got[Asker] + 1]
    <3>1. Arrived
      BY <1>1, <2>7 DEF Received
    <3>2. ReceiveBlock(text)
      <4>1. PICK s \in T!Peers : code = 0 /\ ReceiveBlock(FileText[s][got[s] + 1])
        BY <2>7 DEF Receive, WriteReceived
      <4>2. s = Asker
        BY <2>2, <4>1
      <4>3. QED
        BY <4>1, <4>2
    <3>3. PICK b \in Blocks : /\ TakeBlock(b)
                              /\ block' = [block EXCEPT ![b] = text]
                              /\ object' = WithBlock(object, block_index, b)
                              /\ block_index' = block_index + 1
                              /\ UNCHANGED <<bitmap_inode, cur>>
      BY <1>3, <3>2 DEF ReceiveBlock, Crash
    <3>4. /\ block_index = calls + 1 /\ block_index \in Slots /\ got[Asker] = calls
          /\ object \in Node /\ block \in [Blocks -> Seq(Dirent)]
          /\ bitmap_blocks \subseteq Blocks /\ 0 \in bitmap_blocks
      BY <1>1, <2>4, <3>1, SizesAssumption DEF Arrived, Slots, Base, TypeOK, Reserved
    <3>5. /\ object'.blocks[block_index] = b
          /\ \A q \in Slots \ {block_index} : object'.blocks[q] = object.blocks[q]
      BY <3>3, <3>4, WithBlockType
    <3>6. b \notin bitmap_blocks /\ b # 0 /\ bitmap_blocks' = bitmap_blocks \cup {b}
      BY <3>3, <3>4 DEF TakeBlock, FirstFree
    <3>7. block'[b] = text /\ \A x \in Blocks : x # b => block'[x] = block[x]
      BY <3>3, <3>4
    <3>8. ASSUME NEW q \in Slots
          PROVE  IF q <= calls + 1
                   THEN /\ object'.blocks[q] \in bitmap_blocks' \ {NoBlock}
                        /\ block'[object'.blocks[q]] = FileText[Asker][q]
                   ELSE object'.blocks[q] = NoBlock
      <4>1. q \in Nat /\ calls \in Nat
        BY <2>4, Sizes, SizesAssumption
      <4>2. CASE q = calls + 1
        BY <3>4, <3>5, <3>6, <3>7, <4>1, <4>2 DEF NoBlock
      <4>3. CASE q # calls + 1
        <5>1. object'.blocks[q] = object.blocks[q] /\ (q <= calls + 1 <=> q <= calls)
          BY <3>4, <3>5, <4>1, <4>3
        <5>2. IF q <= calls THEN /\ object.blocks[q] \in bitmap_blocks \ {NoBlock}
                                 /\ block[object.blocks[q]] = FileText[Asker][q]
              ELSE object.blocks[q] = NoBlock
          BY <3>1 DEF Arrived
        <5>3. QED
          BY <3>4, <3>6, <3>7, <5>1, <5>2
      <4>4. QED
        BY <4>2, <4>3
    <3>9. block'[0] = block[0]
      BY <3>6, <3>7, Sizes
    <3>10. got'[Asker] = calls + 1
      BY <2>2, <2>3, <2>4, <3>4
    <3>11. Arrived'
      BY <2>1, <2>2, <3>1, <3>3, <3>4, <3>8, <3>9, <3>10 DEF Arrived
    <3>12. QED
      BY <1>1, <2>1, <2>5, <2>7, <3>11 DEF Received
  <2>8. QED
    BY <2>6, <2>7
<1>4. QED
  BY <1>2, <1>3

\* What is stored after recv has failed is not counted as stored.
LEMMA FailedSent ==
    ASSUME SentInv, ReceiveFailed
    PROVE  Fresh' /\ Received'
<1>1. /\ ui = "receiving" /\ code' = code /\ Fresh /\ Received
  BY DEF ReceiveFailed, refused, SentInv
<1>2. CASE mode' = "crashed"
  BY <1>2, ExitSent DEF ReceiveFailed, WithProcess
<1>3. CASE mode' # "crashed"
  <2>1. /\ ui' = "receiving" /\ torn'
        /\ UNCHANGED <<pc, got, backlog, fd, ui, turn, pending_requests, created>>
    BY <1>1, <1>3 DEF ReceiveFailed, WithProcess, T!ReceiveError, T!sender, T!connection, T!queue
  <2>2. Fresh'
    BY <1>1, <2>1, FreshIdle
  <2>3. QED
    BY <1>1, <2>1, <2>2 DEF Received
<1>4. QED
  BY <1>2, <1>3

\* Every step of the program keeps the invariant.
LEMMA SentKeeps == SentInv /\ [UtilityNext]_uvars => SentInv'
<1> SUFFICES ASSUME SentInv, [UtilityNext]_uvars PROVE SentInv'
  OBVIOUS
<1>1. TP!IInv /\ Linked /\ Base /\ before \subseteq Blocks /\ Fresh /\ Received
  BY DEF SentInv
<1>2. CASE UtilityNext
  <2>1. TP!IInv' /\ Linked' /\ Base' /\ before' \subseteq Blocks
    BY <1>1, <1>2, NetworkKeeps, LinkedKeeps, BaseKeeps
  <2>2. CASE Local
    <3>1. CASE T!Exit
      BY <2>1, <3>1, ExitSent DEF SentInv
    <3>2. CASE UNCHANGED network
      <4>1. ui = "menu" /\ UNCHANGED <<pc, backlog, fd, got, ui, turn, pending_requests, calls>>
        BY <2>2, <3>2 DEF Local, network
      <4>2. Fresh' /\ Received'
        BY <1>1, <4>1, FreshIdle DEF Received
      <4>3. QED
        BY <2>1, <4>2 DEF SentInv
    <3>3. QED
      BY <2>2, <3>1, <3>2 DEF Local, WithProcess
  <2>3. CASE Quit
    BY <2>1, <2>3, ExitSent DEF Quit, SentInv
  <2>4. CASE Network
    BY <2>1, <2>4, NetworkSent DEF SentInv
  <2>5. CASE Accept \/ AcceptRefused
    BY <2>1, <2>5, AcceptSent, AcceptRefusedSent DEF SentInv
  <2>6. CASE Receive \/ ReceiveFailed
    BY <2>1, <2>6, ReceiveSent, FailedSent DEF SentInv
  <2>7. CASE StoreNamed \/ StoreRefused
    BY <2>1, <2>7, StoreSent DEF StoreNamed, StoreRefused, SentInv
  <2>8. QED
    BY <1>2, <2>2, <2>3, <2>4, <2>5, <2>6, <2>7 DEF UtilityNext
<1>3. CASE UNCHANGED uvars
  <2>1. UNCHANGED vars /\ UNCHANGED <<image, network, code, before>>
    BY <1>3 DEF uvars, image, refused
  <2>2. TP!IInv' /\ Fresh' /\ Received'
    BY <1>1, <2>1, NetworkIdle, SentIdle
  <2>3. Linked'
    BY <1>1, <2>1 DEF Linked, network, vars, T!Current
  <2>4. Base'
    BY <1>1, <2>1, NextBase
  <2>5. QED
    BY <1>1, <2>1, <2>2, <2>3, <2>4 DEF SentInv
<1>4. QED
  BY <1>2, <1>3

\* What a file is received into holds what was sent so far, on a damaged image
\* too: the blocks it takes are unmarked before and marked afterwards, and the
\* user interface does nothing else until it is stored.
THEOREM SentInvariance == UtilitySpec => []SentInv
<1>1. UtilityInit => SentInv
  <2> SUFFICES ASSUME UtilityInit PROVE SentInv
    OBVIOUS
  <2>1. TP!IInv /\ Linked /\ before = {}
    BY InitUInv DEF UInv, UtilityInit
  <2>2. Base
    BY InitBase DEF UtilityInit
  <2>3. Fresh /\ Received
    BY DEF UtilityInit, T!Init, Fresh, Received
  <2>4. QED
    BY <2>1, <2>2, <2>3 DEF SentInv
<1>2. QED
  BY <1>1, SentKeeps, PTL DEF UtilitySpec

\* Only storing a received file counts it as stored.
LEMMA OnlyStoring ==
    ASSUME UtilityNext, stored' # stored
    PROVE  T!StoreFile /\ (StoreNamed \/ StoreRefused)
<1>1. T!Exit \/ T!AcceptNew \/ T!ReceivePart \/ T!ReceiveError => UNCHANGED stored
  BY DEF T!Exit, T!AcceptNew, T!ReceivePart, T!ReceiveError
<1>2. Network => UNCHANGED stored
  BY DEF Network, T!Connect, T!SenderStep, T!ConnectFails, T!FindFails, T!SendMetadata, T!PollTimeout,
     T!LeaveLate, T!Kill, T!ReadAnswer, T!SendBlock, T!BrokenPipe, T!SendDone, T!Accept, T!ReceiveMetadata, T!Enqueue,
     T!EnqueueRequest, T!CheckStart, T!UserAccepts, T!UserRefuses, T!PromptExpires, T!Refuse,
     T!AcceptExisting, T!LoopEnd, T!CheckEnd, T!Tick, T!receiver, T!check, T!file
<1>3. Local \/ Quit \/ Accept \/ AcceptRefused \/ Receive \/ ReceiveFailed => UNCHANGED stored
  BY <1>1 DEF Local, Quit, Accept, AcceptRefused, Receive, ReceiveFailed, WithProcess, network
<1>4. QED
  BY <1>2, <1>3 DEF UtilityNext, StoreNamed, StoreRefused

\* An entry of the root that names an inode in use with what s sent.
HasAt ==
    \A s \in Senders : \A i \in Inodes : \A k \in DOMAIN Entries(Root) :
        /\ Entries(Root)[k] = [inode |-> i, name |-> FileName[s]]
        /\ i \in bitmap_inode
        /\ FileData(i) = FileText[s]
        => HasFileOf(s)

\* Such an entry is the file of HasFileOf.
LEMMA EntryIsFile == HasAt
<1> SUFFICES ASSUME NEW s \in Senders, NEW i \in Inodes, NEW k \in DOMAIN Entries(Root),
                    Entries(Root)[k] = [inode |-> i, name |-> FileName[s]],
                    i \in bitmap_inode, FileData(i) = FileText[s]
             PROVE  HasFileOf(s)
  BY DEF HasAt
<1>1. Entries(Root)[k].name = FileName[s] /\ Entries(Root)[k].inode = i
  OBVIOUS
<1>2. QED
  BY <1>1, Zenon DEF HasFileOf

\* A file counted as stored is in the root, in an inode in use, and holds what
\* its sender sent.
THEOREM StoredIsSent == UtilitySpec => StoredAsSent
<1>1. SentInv /\ [UtilityNext]_uvars =>
         [\A s \in stored' \ stored : HasFileOf(s)']_uvars
  <2> SUFFICES ASSUME SentInv, UtilityNext, NEW s \in stored' \ stored
               PROVE  HasFileOf(s)'
    OBVIOUS
  <2>1. T!StoreFile /\ (StoreNamed \/ StoreRefused) /\ ui = "receiving"
    BY OnlyStoring DEF T!StoreFile
  <2>2. PICK p \in T!Peers : s = p /\ T!Current.fm = p /\ created /\ ~torn
                             /\ got[p] = Len(FileText[p]) * 1
    BY <2>1 DEF T!StoreFile, T!Peers
  <2>3. TP!IInv /\ Linked /\ Base /\ Received
    BY DEF SentInv
  <2>4. s = Asker /\ s \in Senders /\ NameSent = FileName[s]
    BY <2>1, <2>2, <2>3, PeerIsAsker, NameSentType
  <2>5. code = 0 /\ Arrived /\ StoreNamed
    BY <2>1, <2>2, <2>3 DEF Received, StoreNamed, StoreRefused
  <2>6. PICK i \in Inodes : i = cur
    BY <2>3 DEF Base, TypeOK
  <2>7. /\ mode' = "menu" /\ inode' = [inode EXCEPT ![i] = object]
        /\ UNCHANGED <<bitmap_inode, block>>
    BY <2>5, <2>6 DEF StoreNamed, StoreReceived, CloseFile
  <2>8. i # Root /\ inode'[i] = object /\ inode'[Root].blocks[1] = 0 /\ i \in bitmap_inode'
    BY <2>3, <2>5, <2>6, <2>7, Sizes
       DEF Base, TypeOK, Bare, Held, StoreNamed, StoreReceived, NoBlock, Arrived
  <2>9. PICK k \in DOMAIN block[0] : block[0][k] = [inode |-> i, name |-> FileName[s]]
    BY <2>2, <2>4, <2>5, <2>6 DEF Arrived
  <2>10. calls = Len(FileText[s]) /\ calls \in 0 .. MAX_BLOCK_COUNT
         /\ FileText[s] \in Seq(Texts)
    BY <2>2, <2>3, <2>4, <2>5, SentAssumption, SMTT(30) DEF Arrived, TP!IInv, TP!TypeOK
  <2>11. UsedSlots(object) = 1 .. calls
    BY <2>5, <2>10, SizesAssumption DEF UsedSlots, Arrived, Slots, NoBlock
  <2>12. FileData(i)' = FileText[s]
    <3>1. View(i)' = object
      BY <2>7, <2>8 DEF View, Held
    <3>2. FileData(i)' = [q \in UsedSlots(View(i)') |-> block'[View(i)'.blocks[q]]]
      BY DataIs
    <3>5. FileData(i)' = [q \in UsedSlots(object) |-> block[object.blocks[q]]]
      BY <2>7, <3>1, <3>2, Zenon
    <3>3. \A q \in 1 .. calls : block[object.blocks[q]] = FileText[s][q]
      BY <2>4, <2>5, <2>10, SizesAssumption DEF Arrived, Slots
    <3>4. QED
      BY <2>10, <2>11, <3>3, <3>5
  <2>13. Entries(Root)' = block[0]
    BY <2>7, <2>8 DEF Entries, DirBlock
  <2>14. i \in Inodes /\ k \in DOMAIN Entries(Root)' /\ i \in bitmap_inode'
         /\ Entries(Root)'[k] = [inode |-> i, name |-> FileName[s]]
    BY <2>8, <2>9, <2>13
  <2>15. HasAt'
    BY EntryIsFile, PTL
  <2>16. QED
    BY <2>4, <2>12, <2>14, <2>15 DEF HasAt
<1>2. QED
  BY <1>1, SentInvariance, PTL DEF UtilitySpec, StoredAsSent
=============================================================================
