------------------------------ MODULE Transfer ------------------------------
(***************************************************************************)
(* Sending files from one running program to another (Code/network.c).     *)
(*                                                                         *)
(* One receiving program, in which two threads share a queue of requests:  *)
(* the server thread accepts connections and appends, the user interface   *)
(* thread goes through the queue in check_incoming_requests, asking the    *)
(* user and receiving the accepted files.  The senders are the programs    *)
(* of other users, each inside one call of send_file; a user who sends     *)
(* twice is two senders.                                                   *)
(*                                                                         *)
(* A connection is named by its sender.  Time is kept as the seconds that  *)
(* have passed since each sender sent its metadata; send_time is read off  *)
(* the sender's clock, so the receiver computes that age less the lead of  *)
(* the sender's clock.  Stored data is a number of pieces: send writes a   *)
(* whole block, recv may return part of one.                               *)
(*                                                                         *)
(* A killable sender may be killed at any time.  A connection closed or    *)
(* lost with the answer unread is reset, and the receiver's next recv      *)
(* fails, once.                                                            *)
(***************************************************************************)
EXTENDS Integers, Sequences, FiniteSets

CONSTANTS
    Senders,
    Killable,               \* those that may be killed: a bound
    Nobody,                 \* memory nothing was written to yet
    MAX_PENDING_REQUESTS,
    MAX_BLOCK_COUNT,
    Timeout,                \* the ten seconds of both sides
    Lead,                   \* how far each sender's clock is ahead of the receiver's
    MaxAge,                 \* ages are not counted beyond this
    Pieces,                 \* pieces of a block that recv may return separately
    FileName,               \* of each sender's file
    FileBlocks,             \* and its length in blocks
    ShortNames,             \* names create_file refuses
    RootNames,              \* the entries of the receiver's root, in order
    RootCapacity            \* and how many it can hold

ASSUME SendersAssumption == IsFiniteSet(Senders) /\ Nobody \notin Senders

ASSUME LimitsAssumption ==
    /\ MAX_PENDING_REQUESTS \in Nat \ {0}
    /\ MAX_BLOCK_COUNT \in Nat \ {0}
    /\ Pieces \in Nat \ {0}
    /\ RootCapacity \in Nat
    /\ Timeout \in Nat \ {0}

ASSUME ClocksAssumption ==
    /\ MaxAge \in Nat /\ MaxAge >= Timeout
    /\ Lead \in [Senders -> Int]
    /\ \A s \in Senders : Timeout + Lead[s] <= MaxAge

ASSUME FilesAssumption ==
    /\ FileBlocks \in [Senders -> 0 .. MAX_BLOCK_COUNT]
    /\ DOMAIN FileName = Senders

VARIABLES
    (* senders *)
    pc,             \* where send_file is
    result,         \* what it returned, 0 before
    age,            \* seconds since send_time was read, -1 before
    sent,           \* blocks sent
    (* connections, at the receiver's end *)
    backlog,        \* connected and not yet accepted, in order
    fd,             \* the descriptor of an accepted connection; 0 if it has none
    closed,         \* the connections the receiver has closed
    answer,         \* what the receiver sent back
    got,            \* pieces read
    (* the server thread *)
    server,         \* "accept", "recv", "lock"; "off" if it does not listen
    client,         \* the connection it holds
    fm,             \* whose metadata is in its variable fm
    (* the queue *)
    mutex,          \* "free", or held by "ui"; the server never keeps it
    pending_requests,
    request_count,
    (* the user interface thread *)
    ui,             \* "menu", "prompt", "accepted", "receiving", "ending", "down"
    i,              \* the request in turn
    calls,          \* calls of recv for the file being received
    torn,           \* one of them returned part of a block, or failed
    created,        \* create_file made an inode for it, and a name
    root,           \* the names in the root directory
    stored          \* the senders whose files were stored as they were sent

sender     == <<pc, result, age, sent>>
connection == <<backlog, fd, closed, answer, got>>
thread     == <<server, client, fm>>
queue      == <<mutex, pending_requests, request_count>>
file       == <<calls, torn, created, root, stored>>
check      == <<ui, i, file>>
receiver   == <<connection, thread, queue, check>>
vars       == <<sender, receiver>>

Requests == 1 .. MAX_PENDING_REQUESTS

\* sender_ip stands for the connection the request came by, fm for the sender
\* whose metadata it carries.
Request == [fm : Senders \cup {Nobody}, sender_ip : Senders \cup {Nobody},
            socket_fd : 0 .. Cardinality(Senders)]

NoRequest == [fm |-> Nobody, sender_ip |-> Nobody, socket_fd |-> 0]

Init ==
    /\ pc = [s \in Senders |-> "idle"]
    /\ result = [s \in Senders |-> 0]
    /\ age = [s \in Senders |-> -1]
    /\ sent = [s \in Senders |-> 0]
    /\ backlog = <<>>
    /\ fd = [s \in Senders |-> 0]
    /\ closed = {}
    /\ answer = [s \in Senders |-> "none"]
    /\ got = [s \in Senders |-> 0]
    /\ server \in {"accept", "off"}         \* "off": bind or listen has failed
    /\ client = Nobody
    /\ fm = Nobody
    /\ mutex = "free"
    /\ pending_requests = [k \in Requests |-> NoRequest]
    /\ request_count = 0
    /\ ui = "menu"
    /\ i = 1
    /\ calls = 0
    /\ torn = FALSE
    /\ created = FALSE
    /\ root = RootNames
    /\ stored = {}

-----------------------------------------------------------------------------
(* The senders: send_file *)

MetadataSent(s) == age[s] >= 0
SenderClosed(s) == pc[s] \in {"done", "killed", "reset"}

Return(s, code) ==
    /\ pc' = [pc EXCEPT ![s] = "done"]
    /\ result' = [result EXCEPT ![s] = code]

Connect(s) ==
    /\ pc[s] = "idle"
    /\ server # "off"
    /\ pc' = [pc EXCEPT ![s] = "connected"]
    /\ backlog' = Append(backlog, s)
    /\ UNCHANGED <<result, age, sent, fd, closed, answer, got,
                   thread, queue, check>>

ConnectFails(s) ==
    /\ pc[s] = "idle"
    /\ server = "off"
    /\ Return(s, -1)
    /\ UNCHANGED <<age, sent, receiver>>

\* The connection is made before the file is looked for.
FindFails(s) ==
    /\ pc[s] = "connected"
    /\ \E code \in {-2, -3} : Return(s, code)
    /\ UNCHANGED <<age, sent, receiver>>

SendMetadata(s) ==
    /\ pc[s] = "connected"
    /\ pc' = [pc EXCEPT ![s] = "waiting"]
    /\ age' = [age EXCEPT ![s] = 0]
    /\ UNCHANGED <<result, sent, receiver>>

\* poll sees an answer, or that the other end was closed.
Readable(s) == answer[s] # "none" \/ s \in closed


\* Between the end of poll and the close an answer may still come.
PollTimeout(s) ==
    /\ pc[s] = "waiting"
    /\ ~Readable(s)
    /\ age[s] >= Timeout
    /\ pc' = [pc EXCEPT ![s] = "leaving"]
    /\ UNCHANGED <<result, age, sent, receiver>>

\* An answer that is there and unread makes the close a reset; one still on its
\* way does not.
Gone(s, end) == end = "reset" => pc[s] \in {"waiting", "leaving"} /\ answer[s] # "none"

LeaveLate(s) ==
    /\ pc[s] = "leaving"
    /\ \E end \in {"done", "reset"} : Gone(s, end) /\ pc' = [pc EXCEPT ![s] = end]
    /\ result' = [result EXCEPT ![s] = -4]
    /\ UNCHANGED <<age, sent, receiver>>

\* The sending program is ended by a signal.
Kill(s) ==
    /\ s \in Killable
    /\ pc[s] \in {"connected", "waiting", "leaving", "sending"}
    /\ \E end \in {"killed", "reset"} : Gone(s, end) /\ pc' = [pc EXCEPT ![s] = end]
    /\ UNCHANGED <<result, age, sent, receiver>>

\* If the connection was closed with no answer, recv leaves response as it was
\* on the stack, and the byte compared may be anything, 'y' too.
ReadAnswer(s) ==
    /\ pc[s] = "waiting"
    /\ Readable(s)
    /\ \E response \in IF answer[s] = "none" THEN {"y", "n"} ELSE {answer[s]} :
          \/ /\ response = "y"
             /\ pc' = [pc EXCEPT ![s] = "sending"]
             /\ UNCHANGED result
          \/ /\ response = "n"
             /\ Return(s, -5)
    /\ UNCHANGED <<age, sent, receiver>>

SendBlock(s) ==
    /\ pc[s] = "sending"
    /\ sent[s] < FileBlocks[s]
    /\ sent' = [sent EXCEPT ![s] = @ + 1]
    /\ UNCHANGED <<pc, result, age, receiver>>

\* The receiver closed with data unread, which resets the connection, and a
\* send on it raises SIGPIPE, which nothing catches.
BrokenPipe(s) ==
    /\ pc[s] = "sending"
    /\ sent[s] < FileBlocks[s]
    /\ s \in closed
    /\ got[s] < sent[s] * Pieces
    /\ pc' = [pc EXCEPT ![s] = "killed"]
    /\ UNCHANGED <<result, age, sent, receiver>>

SendDone(s) ==
    /\ pc[s] = "sending"
    /\ sent[s] = FileBlocks[s]
    /\ Return(s, 1)
    /\ UNCHANGED <<age, sent, receiver>>

SenderStep(s) ==
    \/ ConnectFails(s) \/ FindFails(s) \/ SendMetadata(s)
    \/ PollTimeout(s) \/ LeaveLate(s) \/ ReadAnswer(s)
    \/ SendBlock(s) \/ BrokenPipe(s) \/ SendDone(s)

-----------------------------------------------------------------------------
(* The receiver: server_thread *)

\* The kernel gives the lowest free descriptor.
Accept ==
    /\ server = "accept"
    /\ backlog # <<>>
    /\ LET s == Head(backlog)
           used == {fd[t] : t \in Senders}
       IN /\ client' = s
          /\ \E d \in (1 .. Cardinality(Senders)) \ used :
                /\ 1 .. d - 1 \subseteq used
                /\ fd' = [fd EXCEPT ![s] = d]
    /\ backlog' = Tail(backlog)
    /\ server' = "recv"
    /\ UNCHANGED <<sender, closed, answer, got, fm, queue, check>>

\* A seeded fault: recv does not wait.
ReceiveMetadataAtOnce ==
    /\ server = "recv"
    /\ server' = "lock"
    /\ fm' = IF MetadataSent(client) THEN client ELSE fm
    /\ UNCHANGED <<sender, connection, client, queue, check>>

\* From a sender that has gone without sending any, recv returns 0, and fm is
\* still that of the request before.
ReceiveMetadata ==
    /\ server = "recv"
    /\ MetadataSent(client) \/ SenderClosed(client)
    /\ server' = "lock"
    /\ fm' = IF MetadataSent(client) THEN client ELSE fm
    /\ UNCHANGED <<sender, connection, client, queue, check>>

CloseDescriptors(D) ==
    /\ fd' = [s \in Senders |-> IF fd[s] \in D THEN 0 ELSE fd[s]]
    /\ closed' = closed \cup {s \in Senders : fd[s] \in D \ {0}}

EnqueueRequest ==
    /\ server = "lock"
    /\ server' = "accept"
    /\ client' = Nobody
    /\ \/ /\ request_count < MAX_PENDING_REQUESTS
          /\ pending_requests' = [pending_requests EXCEPT ![request_count + 1] =
                [fm |-> fm, sender_ip |-> client, socket_fd |-> fd[client]]]
          /\ request_count' = request_count + 1
          /\ UNCHANGED <<fd, closed>>
       \/ /\ request_count = MAX_PENDING_REQUESTS
          /\ CloseDescriptors({fd[client]})
          /\ UNCHANGED <<pending_requests, request_count>>
    /\ UNCHANGED <<sender, backlog, answer, got, fm, mutex, check>>

\* A seeded fault: the queue is used without the mutex.
EnqueueUnlocked == EnqueueRequest

\* A seeded fault: one request too many is let in.
EnqueueOneMore ==
    /\ mutex = "free"
    /\ server = "lock"
    /\ server' = "accept"
    /\ client' = Nobody
    /\ pending_requests' = [pending_requests EXCEPT ![request_count + 1] =
          [fm |-> fm, sender_ip |-> client, socket_fd |-> fd[client]]]
    /\ request_count' = request_count + 1
    /\ UNCHANGED <<sender, connection, fm, mutex, check>>

\* Lock, append or close, unlock.
Enqueue == mutex = "free" /\ EnqueueRequest

-----------------------------------------------------------------------------
(* The receiver: check_incoming_requests *)

\* Memory never written is zero: a send_time of 1970.
Expired(m) == m \in Senders => age[m] - Lead[m] >= Timeout

\* A seeded fault: a closed request is left in the queue.
DropExpiredNone ==
    LET late == {k \in 1 .. request_count : Expired(pending_requests[k].fm)}
    IN /\ CloseDescriptors({pending_requests[k].socket_fd : k \in late})
       /\ UNCHANGED <<pending_requests, request_count>>

\* Each request that came too long ago is closed and the ones behind it move
\* up; the slots left over hold what was in the last.
DropExpired ==
    LET late  == {k \in 1 .. request_count : Expired(pending_requests[k].fm)}
        stays == (1 .. request_count) \ late
    IN /\ CloseDescriptors({pending_requests[k].socket_fd : k \in late})
       /\ \E n \in 0 .. request_count : \E place \in [1 .. n -> stays] :
             /\ {place[k] : k \in 1 .. n} = stays
             /\ \A j, k \in 1 .. n : j < k => place[j] < place[k]
             /\ request_count' = n
             /\ pending_requests' =
                  [k \in Requests |-> IF k <= n THEN pending_requests[place[k]]
                                      ELSE IF k <= request_count
                                             THEN pending_requests[request_count]
                                             ELSE pending_requests[k]]

\* The mutex is an ordinary one: a thread that has kept it waits here for ever.
CheckStart ==
    /\ ui = "menu"
    /\ mutex = "free"
    /\ DropExpired
    /\ mutex' = "ui"
    /\ ui' = "prompt"
    /\ i' = 1
    /\ UNCHANGED <<sender, backlog, answer, got, thread, file>>

Current == pending_requests[i]
Prompting == ui = "prompt" /\ i <= request_count

\* The user presses y in time; the answer is sent in a later step.
UserAccepts ==
    /\ Prompting
    /\ ~Expired(Current.fm)
    /\ ui' = "accepted"
    /\ UNCHANGED <<sender, connection, thread, queue, i, file>>

\* The connection that the descriptor of the request in turn now is.
Peers == {s \in Senders : fd[s] # 0 /\ fd[s] = Current.socket_fd}

SendAnswer(a) == answer' = [s \in Senders |-> IF s \in Peers THEN a ELSE answer[s]]

Refuse ==
    /\ SendAnswer("n")
    /\ CloseDescriptors({Current.socket_fd})
    /\ i' = i + 1
    /\ UNCHANGED <<sender, backlog, got, thread, queue, ui, file>>

UserRefuses ==
    /\ Prompting
    /\ ~Expired(Current.fm)
    /\ Refuse

\* A seeded fault: reading the key blocks, so that only the user ends it.
PromptWaits ==
    /\ Prompting
    /\ Current.fm = Nobody
    /\ Refuse

PromptExpires ==
    /\ Prompting
    /\ Expired(Current.fm)
    /\ Refuse

NameOf(m) == IF m = Nobody THEN "" ELSE FileName[m]

\* The inner loop has an i of its own, and compares entry k of the root with
\* the name in slot k of the array, used or not; beyond the array nothing is
\* taken to match.
SameName(k) ==
    /\ k <= MAX_PENDING_REQUESTS
    /\ root[k] = NameOf(pending_requests[k].fm)

\* "y" is sent before the root is looked through.
AnswerYes == ui = "accepted" /\ SendAnswer("y")

\* The first match closes its own slot's descriptor and returns, the mutex
\* locked and the queue as it was.
AcceptExisting ==
    /\ AnswerYes
    /\ \E k \in DOMAIN root :
          /\ SameName(k)
          /\ \A j \in 1 .. k - 1 : ~SameName(j)
          /\ CloseDescriptors({pending_requests[k].socket_fd})
    /\ ui' = "menu"
    /\ i' = 1
    /\ UNCHANGED <<sender, backlog, got, thread, queue, file>>

\* create_file refuses a short name and one the root has; what it then returns
\* is used as an inode number all the same.  In a full root the new inode gets
\* no name.
AcceptNew ==
    /\ AnswerYes
    /\ \A k \in DOMAIN root : ~SameName(k)
    /\ LET n == NameOf(Current.fm) IN
          /\ created' = /\ n \notin ShortNames
                        /\ \A k \in DOMAIN root : root[k] # n
                        /\ Len(root) < RootCapacity
          /\ root' = IF created' THEN Append(root, n) ELSE root
    /\ ui' = "receiving"
    /\ UNCHANGED <<sender, backlog, fd, closed, got, thread, queue, i,
                   calls, torn, stored>>

Unread(s) == sent[s] * Pieces - got[s]

\* One block is taken from the disk for what one call of recv returns.
ReceivePart ==
    /\ ui = "receiving"
    /\ calls < MAX_BLOCK_COUNT
    /\ \E s \in Peers, n \in 1 .. Pieces :
          /\ n <= Unread(s)
          /\ got' = [got EXCEPT ![s] = @ + n]
          /\ torn' = (torn \/ n < Pieces)
    /\ calls' = calls + 1
    /\ UNCHANGED <<sender, backlog, fd, closed, answer, thread, queue, ui, i,
                   created, root, stored>>

\* recv fails where the connection was reset; the loop looks for 0 only, takes a
\* block all the same and writes what is on the stack.  The next recv returns 0.
ReceiveError ==
    /\ ui = "receiving"
    /\ calls = 0
    /\ \E s \in Peers : pc[s] = "reset"
    /\ calls' = 1
    /\ torn' = TRUE
    /\ UNCHANGED <<sender, connection, thread, queue, ui, i, created, root, stored>>

\* The locals of one receiving go out of scope.
EndReceiving == calls' = 0 /\ torn' = FALSE /\ created' = FALSE

\* The sender has closed, or the inode is full: it is written.
StoreFile ==
    /\ ui = "receiving"
    /\ \E s \in Peers :
          /\ \/ calls = MAX_BLOCK_COUNT
             \/ Unread(s) = 0 /\ SenderClosed(s) /\ (pc[s] = "reset" => calls > 0)
          /\ stored' = IF /\ Current.fm = s /\ created /\ ~torn
                          /\ got[s] = FileBlocks[s] * Pieces
                        THEN stored \cup {s} ELSE stored
    /\ CloseDescriptors({Current.socket_fd})
    /\ i' = i + 1
    /\ ui' = "prompt"
    /\ EndReceiving
    /\ UNCHANGED <<sender, backlog, answer, got, thread, queue, root>>

\* The loop has read request_count for the last time.
LoopEnd ==
    /\ ui = "prompt"
    /\ i > request_count
    /\ ui' = "ending"
    /\ UNCHANGED <<sender, connection, thread, queue, i, file>>

CheckEnd ==
    /\ ui = "ending"
    /\ request_count' = 0
    /\ mutex' = "free"
    /\ ui' = "menu"
    /\ i' = 1
    /\ UNCHANGED <<sender, connection, thread, pending_requests, file>>

EmptyMemory ==
    /\ mutex' = "free"
    /\ pending_requests' = [k \in Requests |-> NoRequest]
    /\ request_count' = 0
    /\ i' = 1
    /\ EndReceiving

\* The program ends, at any moment; the kernel closes its connections, and its
\* memory is gone.
Exit ==
    /\ ui # "down"
    /\ ui' = "down"
    /\ server' = "off"
    /\ closed' = closed \cup {s \in Senders : pc[s] # "idle" /\ result[s] # -1}
    /\ fd' = [s \in Senders |-> 0]
    /\ backlog' = <<>>
    /\ client' = Nobody
    /\ fm' = Nobody
    /\ EmptyMemory
    /\ UNCHANGED <<sender, answer, got, root, stored>>

UiStep ==
    \/ PromptExpires \/ AcceptExisting \/ AcceptNew
    \/ ReceivePart \/ ReceiveError \/ StoreFile \/ LoopEnd \/ CheckEnd

-----------------------------------------------------------------------------

\* One second passes.
Tick ==
    /\ \E s \in Senders : age[s] \in 0 .. MaxAge - 1
    /\ age' = [s \in Senders |-> IF age[s] \in 0 .. MaxAge - 1 THEN age[s] + 1 ELSE age[s]]
    /\ UNCHANGED <<pc, result, sent, receiver>>

Next ==
    \/ \E s \in Senders : Connect(s) \/ SenderStep(s) \/ Kill(s)
    \/ Accept \/ ReceiveMetadata \/ Enqueue
    \/ CheckStart \/ UserAccepts \/ UserRefuses \/ UiStep \/ Exit
    \/ Tick

\* Time passes, every thread that can run goes on, and one that waits for a
\* mutex released again and again gets it: between two checks the user
\* interface waits for a person.  No one has to connect, open the dialog or
\* answer, and nothing has to be killed.
Fairness ==
    /\ WF_vars(Tick)
    /\ \A s \in Senders : WF_vars(SenderStep(s))
    /\ WF_vars(Accept) /\ WF_vars(ReceiveMetadata) /\ SF_vars(Enqueue)
    /\ WF_vars(UiStep)

Spec == Init /\ [][Next]_vars

FairSpec == Spec /\ Fairness

-----------------------------------------------------------------------------
(* Properties *)

Places == {"idle", "connected", "waiting", "leaving", "sending", "done", "killed", "reset"}

\* Every variable keeps its type; the queue never holds more requests than its
\* array has slots.
TypeOK ==
    /\ pc \in [Senders -> Places]
    /\ result \in [Senders -> -5 .. 1]
    /\ age \in [Senders -> -1 .. MaxAge]
    /\ sent \in [Senders -> 0 .. MAX_BLOCK_COUNT]
    /\ backlog \in Seq(Senders)
    /\ fd \in [Senders -> 0 .. Cardinality(Senders)]
    /\ closed \subseteq Senders
    /\ answer \in [Senders -> {"none", "y", "n"}]
    /\ got \in [Senders -> 0 .. MAX_BLOCK_COUNT * Pieces]
    /\ server \in {"accept", "recv", "lock", "off"}
    /\ client \in Senders \cup {Nobody}
    /\ fm \in Senders \cup {Nobody}
    /\ mutex \in {"free", "ui"}
    /\ pending_requests \in [Requests -> Request]
    /\ request_count \in 0 .. MAX_PENDING_REQUESTS
    /\ ui \in {"menu", "prompt", "accepted", "receiving", "ending", "down"}
    /\ i \in 1 .. MAX_PENDING_REQUESTS + 1
    /\ calls \in 0 .. MAX_BLOCK_COUNT
    /\ torn \in BOOLEAN /\ created \in BOOLEAN
    /\ stored \subseteq Senders

Reviewing == ui \in {"prompt", "accepted", "receiving", "ending"}

\* The thread that locked the mutex has left check_incoming_requests with it.
MutexLost == mutex = "ui" /\ ~Reviewing

\* The requests still to be answered.
Open == {k \in 1 .. request_count : Reviewing => k >= i}

\* Every request still to be answered has the descriptor of the connection it
\* came by: none was closed, closed twice, or given to a later connection,
\* whose sender the answer would go to.
OwnDescriptor ==
    ui # "down" /\ ~MutexLost =>
        \A k \in Open :
            /\ pending_requests[k].socket_fd # 0
            /\ pending_requests[k].sender_ip \in Senders
            /\ fd[pending_requests[k].sender_ip] = pending_requests[k].socket_fd

\* An accepted connection is with the server thread, or waits in the queue
\* once, until it is closed: no sender is forgotten between the two threads.
NobodyForgotten ==
    ui # "down" /\ ~MutexLost =>
        \A s \in Senders :
            fd[s] # 0 => \/ s = client /\ \A k \in Open : pending_requests[k].sender_ip # s
                         \/ /\ s # client
                            /\ \E k \in Open : /\ pending_requests[k].sender_ip = s
                                               /\ \A l \in Open \ {k} :
                                                    pending_requests[l].sender_ip # s

\* The user is asked about the file of the one who waits for the answer: what
\* fm keeps of an earlier request is shown only for a sender that has gone.
AskedAboutOwnFile ==
    Reviewing =>
        \A k \in Open :
            LET s == pending_requests[k].sender_ip
            IN s \in Senders /\ pc[s] = "waiting" => pending_requests[k].fm = s


\* A check ends without the user: the prompts run out and no receiving waits
\* for a sender for ever.
CheckEnds == Reviewing ~> ~Reviewing
=============================================================================
