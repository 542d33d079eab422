--------------------------- MODULE TransferProofs ---------------------------
(***************************************************************************)
(* Proofs about Transfer, for any number of senders, any queue length, any *)
(* files and clocks.                                                       *)
(*                                                                         *)
(* The kernel gives a closed descriptor to the next connection, so that a  *)
(* request left in the queue with a closed descriptor would answer another *)
(* sender.  OwnDescriptor, that this does not happen, is not inductive: it *)
(* needs that no two connections have one descriptor, that the connections *)
(* still to be accepted have none, that the one the server thread holds is *)
(* in no request, and that a descriptor closed with a request is in no     *)
(* other, which is NobodyForgotten.  That fm is the right one follows from *)
(* the order in which a sender connects, sends its metadata, and waits.    *)
(***************************************************************************)
EXTENDS Transfer, SequenceTheorems, FiniteSetTheorems, TLAPS

\* No connection is lost in a check that kept the mutex, or has died with the
\* program.
Served == ui # "down" /\ ~MutexLost

\* No descriptor is that of two connections.
OneOwner == \A s, t \in Senders : fd[s] # 0 /\ fd[s] = fd[t] => s = t

\* Who waits to be accepted has connected once and has no descriptor.
Backlog ==
    /\ \A s \in Senders : pc[s] = "idle" => fd[s] = 0
    /\ \A j \in DOMAIN backlog : pc[backlog[j]] # "idle" /\ fd[backlog[j]] = 0
    /\ \A j, k \in DOMAIN backlog : backlog[j] = backlog[k] => j = k

\* The metadata goes out when the sender begins to wait.
Clocks ==
    \A s \in Senders : /\ pc[s] \in {"idle", "connected"} => age[s] = -1
                       /\ pc[s] = "waiting" => age[s] >= 0

\* No more is read than was sent, and no more sent than there is.
Sizes == \A s \in Senders : sent[s] <= FileBlocks[s] /\ got[s] <= sent[s] * Pieces

\* The metadata m is that of the sender s, unless s no longer waits.
Fits(m, s) ==
    s \in Senders => pc[s] \notin {"idle", "connected"} /\ (pc[s] = "waiting" => m = s)

\* What the server thread holds.
Hand ==
    /\ server \in {"accept", "off"} => client = Nobody
    /\ server \in {"recv", "lock"} => client \in Senders /\ (Served => fd[client] # 0)
    /\ server = "lock" => Fits(fm, client)

\* What the user interface has in turn.
Turn ==
    /\ Reviewing => mutex = "ui"
    /\ ui \in {"accepted", "receiving"} => i <= request_count
    /\ ui = "ending" => i > request_count

\* Of every request in the queue, answered or not.
Fitting ==
    \A k \in 1 .. request_count : Fits(pending_requests[k].fm, pending_requests[k].sender_ip)

IInv ==
    /\ TypeOK /\ OneOwner /\ Backlog /\ Clocks /\ Sizes /\ Hand /\ Turn /\ Fitting
    /\ OwnDescriptor /\ NobodyForgotten

-----------------------------------------------------------------------------
(* Descriptors *)

\* The descriptors are numbers.
LEMMA Descriptors ==
    ASSUME TypeOK
    PROVE  /\ Cardinality(Senders) \in Nat
           /\ \A s \in Senders : fd[s] \in Nat
  BY SendersAssumption, FS_CardinalityType DEF TypeOK

\* Closing some descriptors gives no connection another one.
LEMMA CloseType ==
    ASSUME TypeOK, OneOwner, NEW D, CloseDescriptors(D)
    PROVE  /\ fd' \in [Senders -> 0 .. Cardinality(Senders)]
           /\ closed' \subseteq Senders
           /\ \A s \in Senders : fd'[s] = fd[s] \/ fd'[s] = 0
           /\ OneOwner'
<1>1. 0 \in 0 .. Cardinality(Senders)
  BY Descriptors
<1>2. /\ fd' \in [Senders -> 0 .. Cardinality(Senders)]
      /\ \A s \in Senders : fd'[s] = fd[s] \/ fd'[s] = 0
  BY <1>1 DEF CloseDescriptors, TypeOK
<1>3. closed' \subseteq Senders
  BY DEF CloseDescriptors, TypeOK
<1>4. QED
  BY <1>2, <1>3 DEF OneOwner

\* To close the descriptors of some of the requests still to be answered is to
\* close their connections and no others.
LEMMA CloseRequests ==
    ASSUME IInv, Served, NEW L \in SUBSET Open,
           CloseDescriptors({pending_requests[k].socket_fd : k \in L})
    PROVE  /\ \A k \in Open \ L :
                  fd'[pending_requests[k].sender_ip] = fd[pending_requests[k].sender_ip]
           /\ \A s \in Senders :
                  fd'[s] # 0 => /\ fd'[s] = fd[s]
                                /\ \A k \in L : pending_requests[k].sender_ip # s
           /\ client \in Senders => fd'[client] = fd[client]
<1> DEFINE by(k) == pending_requests[k].sender_ip
<1>1. \A k \in Open : /\ by(k) \in Senders
                      /\ fd[by(k)] = pending_requests[k].socket_fd
                      /\ fd[by(k)] # 0
  BY DEF IInv, OwnDescriptor, Served
<1>2. \A k \in Open : by(k) # client /\ \A l \in Open \ {k} : by(l) # by(k)
  BY <1>1 DEF IInv, NobodyForgotten, Served
<1> HIDE DEF by
<1>3. \A s \in Senders : fd'[s] = IF \E k \in L : fd[s] = fd[by(k)] THEN 0 ELSE fd[s]
  BY <1>1 DEF CloseDescriptors, by
<1>4. \A s \in Senders : \A k \in L : fd[s] = fd[by(k)] => s = by(k)
  BY <1>1 DEF IInv, OneOwner
<1>5. \A k \in Open \ L : fd'[by(k)] = fd[by(k)]
  BY <1>1, <1>2, <1>3, <1>4
<1>6. \A s \in Senders : fd'[s] # 0 => fd'[s] = fd[s] /\ \A k \in L : by(k) # s
  BY <1>3
<1>7. client \in Senders => fd'[client] = fd[client]
  BY <1>2, <1>3, <1>4
<1>8. QED
  BY <1>5, <1>6, <1>7 DEF by

-----------------------------------------------------------------------------
(* The senders *)

\* A step of a sender that leaves the receiver alone keeps the invariant.
LEMMA SenderFrame ==
    ASSUME IInv, UNCHANGED receiver,
           pc' \in [Senders -> Places],
           result' \in [Senders -> -5 .. 1],
           age' \in [Senders -> -1 .. MaxAge],
           sent' \in [Senders -> 0 .. MAX_BLOCK_COUNT],
           \A s \in Senders : pc'[s] = "idle" => pc[s] = "idle",
           \A s \in Senders : pc[s] \notin {"idle", "connected"} =>
                /\ pc'[s] \notin {"idle", "connected"}
                /\ pc'[s] = "waiting" => pc[s] = "waiting",
           Clocks', Sizes'
    PROVE  IInv'
<1>1. /\ UNCHANGED <<backlog, fd, closed, answer, got, server, client, fm>>
      /\ UNCHANGED <<mutex, pending_requests, request_count, ui, i>>
      /\ UNCHANGED <<calls, torn, created, root, stored>>
  BY DEF receiver, connection, thread, queue, check, file
<1>2. TypeOK'
  BY <1>1 DEF IInv, TypeOK
<1>3. Served' = Served /\ Reviewing' = Reviewing /\ Open' = Open
  BY <1>1 DEF Served, MutexLost, Reviewing, Open
<1>4. OneOwner' /\ Backlog'
  <2>1. \A j \in DOMAIN backlog : backlog[j] \in Senders
    BY DEF IInv, TypeOK
  <2>2. QED
    BY <1>1, <2>1 DEF IInv, OneOwner, Backlog
<1>5. \A m, s : Fits(m, s) => Fits(m, s)'
  BY DEF Fits
<1>6. Hand' /\ Fitting'
  BY <1>1, <1>3, <1>5 DEF IInv, Hand, Fitting
<1>7. Turn'
  BY <1>1, <1>3 DEF IInv, Turn
<1>8. OwnDescriptor' /\ NobodyForgotten'
  BY <1>1, <1>3 DEF IInv, OwnDescriptor, NobodyForgotten, Served, MutexLost
<1>9. QED
  BY <1>2, <1>4, <1>6, <1>7, <1>8 DEF IInv

\* What happens to one sender's variables only, from one place in send_file to
\* a later one.
LEMMA SenderMoves ==
    ASSUME IInv, UNCHANGED receiver, NEW s \in Senders,
           NEW to \in Places \ {"idle", "connected"},
           pc[s] # "idle" \/ to = "done",
           pc[s] \in {"idle", "connected"} \/ to # "waiting",
           pc' = [pc EXCEPT ![s] = to],
           result' \in [Senders -> -5 .. 1],
           IF to = "waiting" THEN age' = [age EXCEPT ![s] = 0] ELSE UNCHANGED age,
           UNCHANGED sent
    PROVE  IInv'
<1>1. /\ pc' \in [Senders -> Places]
      /\ age' \in [Senders -> -1 .. MaxAge]
      /\ sent' \in [Senders -> 0 .. MAX_BLOCK_COUNT]
  <2>1. /\ pc \in [Senders -> Places] /\ age \in [Senders -> -1 .. MaxAge]
        /\ sent' \in [Senders -> 0 .. MAX_BLOCK_COUNT]
    BY DEF IInv, TypeOK
  <2>2. pc' \in [Senders -> Places]
    BY <2>1
  <2>3. 0 \in -1 .. MaxAge
    BY ClocksAssumption
  <2>4. age' \in [Senders -> -1 .. MaxAge]
    BY <2>1, <2>3
  <2>5. QED
    BY <2>1, <2>2, <2>4
<1>2. UNCHANGED got
  BY DEF receiver, connection
<1>3. Clocks'
  <2>1. \A q \in Senders : pc'[q] = IF q = s THEN to ELSE pc[q]
    BY DEF IInv, TypeOK
  <2>2. CASE to = "waiting"
    <3>1. \A q \in Senders : age'[q] = IF q = s THEN 0 ELSE age[q]
      BY <2>2 DEF IInv, TypeOK
    <3>2. QED
      BY <2>1, <2>2, <3>1 DEF IInv, Clocks
  <2>3. CASE to # "waiting"
    BY <2>1, <2>3 DEF IInv, Clocks
  <2>4. QED
    BY <2>2, <2>3
<1>4. Sizes'
  BY <1>2 DEF IInv, Sizes
<1>5. \A q \in Senders : /\ pc'[q] = "idle" => pc[q] = "idle"
                         /\ pc[q] \notin {"idle", "connected"} =>
                              /\ pc'[q] \notin {"idle", "connected"}
                              /\ pc'[q] = "waiting" => pc[q] = "waiting"
  BY DEF IInv, TypeOK
<1>6. QED
  BY <1>1, <1>3, <1>4, <1>5, SenderFrame

\* Every step of a sender after its connection keeps the invariant.
LEMMA SenderStepKeeps ==
    ASSUME IInv, NEW s \in Senders, SenderStep(s)
    PROVE  IInv'
<1>1. pc[s] \in Places
  BY DEF IInv, TypeOK
<1>13. "done" \in Places /\ "done" \notin {"idle", "connected", "waiting"}
  BY DEF Places
<1>2. ASSUME NEW code \in -5 .. 1, Return(s, code), UNCHANGED <<age, sent, receiver>>
      PROVE  IInv'
  <2>1. pc' = [pc EXCEPT ![s] = "done"] /\ result' \in [Senders -> -5 .. 1]
    BY <1>2 DEF Return, IInv, TypeOK
  <2>2. QED
    BY <1>2, <1>13, <2>1, SenderMoves
<1>3. CASE ConnectFails(s)
  BY <1>2, <1>3 DEF ConnectFails
<1>4. CASE FindFails(s)
  BY <1>2, <1>4 DEF FindFails
<1>5. CASE SendMetadata(s)
  BY <1>5, SenderMoves DEF SendMetadata, Places, IInv, TypeOK
<1>6. CASE PollTimeout(s)
  BY <1>6, SenderMoves DEF PollTimeout, Places, IInv, TypeOK
<1>12. CASE LeaveLate(s)
  <2>1. PICK end \in {"done", "reset"} : pc' = [pc EXCEPT ![s] = end]
    BY <1>12 DEF LeaveLate
  <2>2. result' \in [Senders -> -5 .. 1]
    BY <1>12 DEF LeaveLate, IInv, TypeOK
  <2>3. QED
    BY <1>12, <2>1, <2>2, SenderMoves DEF LeaveLate, Places
<1>7. CASE ReadAnswer(s)
  <2>1. CASE Return(s, -5)
    BY <1>2, <1>7, <2>1 DEF ReadAnswer
  <2>2. CASE pc' = [pc EXCEPT ![s] = "sending"] /\ UNCHANGED result
    BY <1>7, <2>2, SenderMoves DEF ReadAnswer, Places, IInv, TypeOK
  <2>3. QED
    BY <1>7, <2>1, <2>2 DEF ReadAnswer
<1>8. CASE SendBlock(s)
  <2>1. UNCHANGED got
    BY <1>8 DEF SendBlock, receiver, connection
  <2>2. sent \in [Senders -> 0 .. MAX_BLOCK_COUNT]
    BY DEF IInv, TypeOK
  <2>3. /\ sent[s] \in Nat /\ sent[s] < FileBlocks[s] /\ FileBlocks[s] \in 0 .. MAX_BLOCK_COUNT
        /\ sent' = [sent EXCEPT ![s] = sent[s] + 1]
    BY <1>8, <2>2, FilesAssumption, LimitsAssumption DEF SendBlock
  <2>4. sent' \in [Senders -> 0 .. MAX_BLOCK_COUNT]
    BY <2>3, <2>2, LimitsAssumption
  <2>5. sent[s] * Pieces <= (sent[s] + 1) * Pieces
    BY <2>3, LimitsAssumption
  <2>6. \A q \in Senders : got[q] \in Nat
    BY LimitsAssumption DEF IInv, TypeOK
  <2>7. got[s] <= (sent[s] + 1) * Pieces
    BY <2>3, <2>5, <2>6, LimitsAssumption DEF IInv, Sizes
  <2>8. Sizes'
    <3>1. \A q \in Senders : sent'[q] = IF q = s THEN sent[s] + 1 ELSE sent[q]
      BY <2>2, <2>3
    <3>2. sent[s] + 1 <= FileBlocks[s]
      BY <2>3, LimitsAssumption
    <3>3. QED
      BY <2>1, <2>7, <3>1, <3>2 DEF IInv, Sizes
  <2>9. Clocks'
    BY <1>8 DEF SendBlock, IInv, Clocks
  <2>10. QED
    BY <1>8, <2>4, <2>8, <2>9, SenderFrame DEF SendBlock, IInv, TypeOK
<1>9. CASE BrokenPipe(s)
  BY <1>9, SenderMoves DEF BrokenPipe, Places, IInv, TypeOK
<1>10. CASE SendDone(s)
  BY <1>2, <1>10 DEF SendDone
<1>11. QED
  BY <1>3, <1>4, <1>5, <1>6, <1>7, <1>8, <1>9, <1>10, <1>12 DEF SenderStep

\* So does the end of a sending program.
LEMMA KillKeeps ==
    ASSUME IInv, NEW s \in Senders, Kill(s)
    PROVE  IInv'
<1>1. PICK end \in {"killed", "reset"} : pc' = [pc EXCEPT ![s] = end]
  BY DEF Kill
<1>2. pc[s] # "idle" /\ end \in Places \ {"idle", "connected"} /\ end # "waiting"
  BY <1>1 DEF Kill, Places
<1>3. result' \in [Senders -> -5 .. 1]
  BY DEF Kill, IInv, TypeOK
<1>4. QED
  BY <1>1, <1>2, <1>3, SenderMoves DEF Kill

\* So does the passing of a second.
LEMMA TickKeeps ==
    ASSUME IInv, Tick
    PROVE  IInv'
<1>1. /\ UNCHANGED <<pc, result, sent, receiver>>
      /\ age' = [s \in Senders |-> IF age[s] \in 0 .. MaxAge - 1 THEN age[s] + 1 ELSE age[s]]
  BY DEF Tick
<1>2. \A s \in Senders : age[s] \in -1 .. MaxAge
  BY DEF IInv, TypeOK
<1>3. age' \in [Senders -> -1 .. MaxAge]
  BY <1>1, <1>2, ClocksAssumption
<1>4. Clocks'
  BY <1>1, <1>2, ClocksAssumption DEF IInv, Clocks
<1>5. Sizes'
  BY <1>1 DEF receiver, connection, IInv, Sizes
<1>6. QED
  BY <1>1, <1>3, <1>4, <1>5, SenderFrame DEF IInv, TypeOK

\* A connection joins the end of the backlog.
LEMMA ConnectKeeps ==
    ASSUME IInv, NEW s \in Senders, Connect(s)
    PROVE  IInv'
<1>1. /\ pc[s] = "idle" /\ pc' = [pc EXCEPT ![s] = "connected"]
      /\ backlog' = Append(backlog, s)
      /\ UNCHANGED <<result, age, sent, fd, closed, answer, got, server, client, fm>>
      /\ UNCHANGED <<mutex, pending_requests, request_count, ui, i>>
      /\ UNCHANGED <<calls, torn, created, root, stored>>
  BY DEF Connect, thread, queue, check, file
<1>2. pc' \in [Senders -> Places]
      /\ backlog' \in Seq(Senders)
  BY <1>1 DEF Places, IInv, TypeOK
<1>3. TypeOK'
  BY <1>1, <1>2 DEF IInv, TypeOK
<1>4. Served' = Served /\ Reviewing' = Reviewing /\ Open' = Open
  BY <1>1 DEF Served, MutexLost, Reviewing, Open
<1>5. Backlog'
  <2>1. backlog \in Seq(Senders) /\ pc \in [Senders -> Places]
    BY DEF IInv, TypeOK
  <2>2. \A j \in DOMAIN backlog : backlog[j] \in Senders \ {s}
    BY <1>1, <2>1 DEF IInv, Backlog
  <2>3. /\ DOMAIN backlog' = DOMAIN backlog \cup {Len(backlog) + 1}
        /\ \A j \in DOMAIN backlog : backlog'[j] = backlog[j]
        /\ backlog'[Len(backlog) + 1] = s
    BY <1>1, <2>1
  <2>4. \A q \in Senders : pc'[q] = IF q = s THEN "connected" ELSE pc[q]
    BY <1>1, <2>1
  <2>5. fd[s] = 0 /\ fd' = fd
    BY <1>1 DEF IInv, Backlog
  <2>6. \A q \in Senders : pc'[q] = "idle" => fd'[q] = 0
    BY <2>4, <2>5 DEF IInv, Backlog
  <2>7. \A j \in DOMAIN backlog' : pc'[backlog'[j]] # "idle" /\ fd'[backlog'[j]] = 0
    BY <2>2, <2>3, <2>4, <2>5 DEF IInv, Backlog
  <2>8. \A j, k \in DOMAIN backlog' : backlog'[j] = backlog'[k] => j = k
    BY <2>2, <2>3 DEF IInv, Backlog
  <2>9. QED
    BY <2>6, <2>7, <2>8 DEF Backlog
<1>6. OneOwner' /\ Clocks' /\ Sizes'
  BY <1>1 DEF IInv, TypeOK, OneOwner, Clocks, Sizes
<1>7. \A m, q : Fits(m, q) => Fits(m, q)'
  BY <1>1 DEF Fits, IInv, TypeOK
<1>8. Hand' /\ Fitting'
  BY <1>1, <1>4, <1>7 DEF IInv, Hand, Fitting
<1>9. Turn'
  BY <1>1, <1>4 DEF IInv, Turn
<1>10. OwnDescriptor' /\ NobodyForgotten'
  BY <1>1, <1>4 DEF IInv, OwnDescriptor, NobodyForgotten, Served, MutexLost
<1>11. QED
  BY <1>3, <1>5, <1>6, <1>8, <1>9, <1>10 DEF IInv

-----------------------------------------------------------------------------
(* The server thread *)

\* The connection accepted gets a descriptor that no other has, and is in no
\* request.
LEMMA AcceptKeeps ==
    ASSUME IInv, Accept
    PROVE  IInv'
<1> DEFINE s == Head(backlog)
<1>1. PICK d \in 1 .. Cardinality(Senders) :
        /\ d \notin {fd[t] : t \in Senders}
        /\ fd' = [fd EXCEPT ![s] = d]
  BY DEF Accept
<1>2. /\ server = "accept" /\ backlog # <<>> /\ client' = s
      /\ backlog' = Tail(backlog) /\ server' = "recv"
      /\ UNCHANGED <<pc, result, age, sent, closed, answer, got, fm, mutex, pending_requests>>
      /\ UNCHANGED <<request_count, ui, i, calls, torn, created, root, stored>>
  BY DEF Accept, sender, queue, check, file
<1>3. backlog \in Seq(Senders) /\ pc \in [Senders -> Places]
  BY DEF IInv, TypeOK
<1>4. /\ s = backlog[1] /\ s \in Senders /\ backlog' \in Seq(Senders)
      /\ 1 \in DOMAIN backlog
      /\ \A j \in DOMAIN backlog' : /\ j + 1 \in DOMAIN backlog /\ j \in Nat \ {0}
                                    /\ backlog'[j] = backlog[j + 1]
  BY <1>2, <1>3
<1> HIDE DEF s
<1>5. fd[s] = 0 /\ pc[s] # "idle"
  BY <1>4 DEF IInv, Backlog
<1>6. d \in Nat \ {0} /\ \A t \in Senders : fd[t] # d
  BY <1>1, Descriptors DEF IInv
<1>7. \A t \in Senders : fd'[t] = IF t = s THEN d ELSE fd[t]
  BY <1>1 DEF IInv, TypeOK
<1>8. TypeOK'
  <2>1. fd' \in [Senders -> 0 .. Cardinality(Senders)]
    BY <1>1, <1>4, <1>6, Descriptors DEF IInv, TypeOK
  <2>2. QED
    BY <1>2, <1>4, <2>1 DEF IInv, TypeOK
<1>9. Served' = Served /\ Reviewing' = Reviewing /\ Open' = Open
  BY <1>2 DEF Served, MutexLost, Reviewing, Open
<1>10. OneOwner'
  BY <1>6, <1>7 DEF IInv, OneOwner
<1>11. Backlog'
  <2>1. \A q \in Senders : pc[q] = "idle" => fd'[q] = 0
    BY <1>5, <1>7 DEF IInv, Backlog
  <2>2. \A j \in DOMAIN backlog' : backlog[j + 1] # s /\ backlog[j + 1] \in Senders
    BY <1>3, <1>4 DEF IInv, Backlog
  <2>3. \A j \in DOMAIN backlog' : pc[backlog'[j]] # "idle" /\ fd'[backlog'[j]] = 0
    BY <1>4, <1>7, <2>2 DEF IInv, Backlog
  <2>4. \A j, k \in DOMAIN backlog' : backlog'[j] = backlog'[k] => j = k
    BY <1>4 DEF IInv, Backlog
  <2>5. QED
    BY <1>2, <2>1, <2>3, <2>4 DEF Backlog
<1>12. Clocks' /\ Sizes' /\ Turn'
  BY <1>2, <1>9 DEF IInv, Clocks, Sizes, Turn
<1>13. Hand'
  BY <1>2, <1>4, <1>6, <1>7 DEF Hand
<1>14. Fitting'
  BY <1>2 DEF IInv, Fitting, Fits
<1>15. client = Nobody /\ Nobody \notin Senders
  BY <1>2, SendersAssumption DEF IInv, Hand
\* A sender without a descriptor is in no request.
<1>16. Served => \A k \in Open : pending_requests[k].sender_ip # s
  BY <1>5 DEF IInv, OwnDescriptor, Served
<1>17. OwnDescriptor'
  BY <1>2, <1>7, <1>9, <1>16 DEF IInv, OwnDescriptor, Served, MutexLost
<1>18. NobodyForgotten'
  BY <1>2, <1>7, <1>9, <1>15, <1>16 DEF IInv, NobodyForgotten, Served, MutexLost
<1>19. QED
  BY <1>8, <1>10, <1>11, <1>12, <1>13, <1>14, <1>17, <1>18 DEF IInv

\* recv waits until the metadata is there, or the sender has gone.
LEMMA ReceiveMetadataKeeps ==
    ASSUME IInv, ReceiveMetadata
    PROVE  IInv'
<1>1. /\ server = "recv" /\ server' = "lock"
      /\ fm' = IF MetadataSent(client) THEN client ELSE fm
      /\ UNCHANGED <<pc, result, age, sent, backlog, fd, closed, answer, got, client, mutex>>
      /\ UNCHANGED <<pending_requests, request_count, ui, i, calls, torn, created, root, stored>>
  BY DEF ReceiveMetadata, sender, connection, queue, check, file
<1>2. MetadataSent(client) \/ SenderClosed(client)
  BY DEF ReceiveMetadata
<1>3. client \in Senders /\ fm' \in Senders \cup {Nobody}
  BY <1>1 DEF IInv, Hand, TypeOK
<1>4. TypeOK'
  BY <1>1, <1>3 DEF IInv, TypeOK
<1>5. Served' = Served /\ Reviewing' = Reviewing /\ Open' = Open
  BY <1>1 DEF Served, MutexLost, Reviewing, Open
<1>6. OneOwner' /\ Backlog' /\ Clocks' /\ Sizes' /\ Turn' /\ Fitting'
  BY <1>1, <1>5 DEF IInv, OneOwner, Backlog, Clocks, Sizes, Turn, Fitting, Fits
<1>7. Fits(fm', client)
  BY <1>1, <1>2, <1>3 DEF Fits, MetadataSent, SenderClosed, IInv, Clocks
<1>8. Hand'
  BY <1>1, <1>3, <1>5, <1>7 DEF IInv, Hand, Fits
<1>9. OwnDescriptor' /\ NobodyForgotten'
  BY <1>1, <1>5 DEF IInv, OwnDescriptor, NobodyForgotten, Served, MutexLost
<1>10. QED
  BY <1>4, <1>6, <1>8, <1>9 DEF IInv

\* The connection in the server's hand is passed on to the queue, or closed.
LEMMA EnqueueKeeps ==
    ASSUME IInv, Enqueue
    PROVE  IInv'
<1> DEFINE new == [fm |-> fm, sender_ip |-> client, socket_fd |-> fd[client]]
<1>1. /\ mutex = "free" /\ server = "lock" /\ server' = "accept" /\ client' = Nobody
      /\ UNCHANGED <<pc, result, age, sent, backlog, answer, got, fm, mutex>>
      /\ UNCHANGED <<ui, i, calls, torn, created, root, stored>>
  BY DEF Enqueue, EnqueueRequest, sender, check, file
<1>2. ~Reviewing /\ ~MutexLost /\ ~Reviewing' /\ ~MutexLost'
  BY <1>1 DEF IInv, Turn, Reviewing, MutexLost
<1>3. Open = 1 .. request_count /\ Open' = 1 .. request_count'
  BY <1>2 DEF Open
<1>4. client \in Senders /\ Fits(fm, client) /\ (Served => fd[client] # 0)
  BY <1>1 DEF IInv, Hand
<1>5. request_count \in Nat /\ MAX_PENDING_REQUESTS \in Nat /\ request_count <= MAX_PENDING_REQUESTS
  BY LimitsAssumption DEF IInv, TypeOK
<1>6. Nobody \notin Senders
  BY SendersAssumption
<1>7. Clocks' /\ Sizes'
  BY <1>1 DEF IInv, Clocks, Sizes
<1>8. Turn'
  BY <1>1, <1>2 DEF Turn, Reviewing
<1>9. Hand'
  BY <1>1 DEF Hand
<1>10. CASE /\ request_count < MAX_PENDING_REQUESTS
            /\ pending_requests' = [pending_requests EXCEPT ![request_count + 1] = new]
            /\ request_count' = request_count + 1
            /\ UNCHANGED <<fd, closed>>
  <2>1. new \in Request
    BY <1>4 DEF Request, IInv, TypeOK
  <2> HIDE DEF new
  <2>2. request_count + 1 \in Requests /\ request_count' \in 0 .. MAX_PENDING_REQUESTS
    BY <1>5, <1>10 DEF Requests
  <2>3. /\ pending_requests' \in [Requests -> Request]
        /\ \A k \in 1 .. request_count : pending_requests'[k] = pending_requests[k]
        /\ pending_requests'[request_count + 1] = new
    BY <1>5, <1>10, <2>1, <2>2 DEF IInv, TypeOK
  <2>4. TypeOK'
    BY <1>1, <1>10, <2>2, <2>3 DEF IInv, TypeOK
  <2>5. OneOwner' /\ Backlog'
    BY <1>1, <1>10 DEF IInv, OneOwner, Backlog
  <2>6. \A k \in 1 .. request_count' : k \in 1 .. request_count \/ k = request_count + 1
    BY <1>5, <1>10
  <2>7. new.fm = fm /\ new.sender_ip = client /\ new.socket_fd = fd[client]
    BY DEF new
  <2>8. Fitting'
    BY <1>1, <1>4, <2>3, <2>6, <2>7 DEF IInv, Fitting, Fits
  <2>9. OwnDescriptor'
    BY <1>1, <1>3, <1>4, <1>10, <2>3, <2>6, <2>7, <1>2 DEF IInv, OwnDescriptor, Served
  <2>10. NobodyForgotten'
    <3> SUFFICES ASSUME ui # "down", NEW s \in Senders, fd[s] # 0
                 PROVE  \E k \in Open' : /\ pending_requests'[k].sender_ip = s
                                         /\ \A l \in Open' \ {k} :
                                              pending_requests'[l].sender_ip # s
      BY <1>1, <1>6, <1>10 DEF NobodyForgotten
    <3>1. CASE s = client
      <4>1. \A l \in Open' \ {request_count + 1} : pending_requests'[l].sender_ip # s
        BY <1>2, <1>3, <2>3, <2>6, <3>1 DEF IInv, NobodyForgotten
      <4>2. request_count + 1 \in Open'
        BY <1>3, <1>5, <1>10
      <4>3. QED
        BY <2>3, <2>7, <3>1, <4>1, <4>2
    <3>2. CASE s # client
      <4>1. PICK k \in Open : /\ pending_requests[k].sender_ip = s
                              /\ \A l \in Open \ {k} : pending_requests[l].sender_ip # s
        BY <1>2, <3>2 DEF IInv, NobodyForgotten
      <4>2. k \in Open'
        BY <1>3, <1>5, <1>10
      <4>3. \A l \in Open' \ {k} : pending_requests'[l].sender_ip # s
        BY <1>3, <2>3, <2>6, <2>7, <3>2, <4>1
      <4>4. QED
        BY <1>3, <2>3, <4>1, <4>2, <4>3
    <3>3. QED
      BY <3>1, <3>2
  <2>11. QED
    BY <1>7, <1>8, <1>9, <2>4, <2>5, <2>8, <2>9, <2>10 DEF IInv
<1>11. CASE /\ request_count = MAX_PENDING_REQUESTS
            /\ CloseDescriptors({fd[client]})
            /\ UNCHANGED <<pending_requests, request_count>>
  <2>1. /\ fd' \in [Senders -> 0 .. Cardinality(Senders)] /\ closed' \subseteq Senders
        /\ \A s \in Senders : fd'[s] = fd[s] \/ fd'[s] = 0
        /\ OneOwner'
    BY <1>11, CloseType DEF IInv
  <2>2. TypeOK'
    BY <1>1, <1>11, <2>1 DEF IInv, TypeOK
  <2>3. Backlog'
    <3>1. backlog \in Seq(Senders) /\ \A j \in DOMAIN backlog : backlog[j] \in Senders
      BY DEF IInv, TypeOK
    <3>2. QED
      BY <1>1, <2>1, <3>1 DEF IInv, Backlog
  <2>4. Fitting'
    BY <1>1, <1>11 DEF IInv, Fitting, Fits
  <2>5. Served => \A s \in Senders : fd'[s] = IF s = client THEN 0 ELSE fd[s]
    BY <1>4, <1>11 DEF CloseDescriptors, IInv, OneOwner
  <2>6. Served' = Served
    BY <1>1, <1>2 DEF Served
  <2>7. Served => \A k \in Open : /\ pending_requests[k].sender_ip \in Senders
                                  /\ pending_requests[k].sender_ip # client
    BY <1>4 DEF Served, IInv, NobodyForgotten, OwnDescriptor
  <2>8. OwnDescriptor'
    BY <1>1, <1>3, <1>11, <2>5, <2>6, <2>7 DEF IInv, OwnDescriptor, Served
  <2>9. NobodyForgotten'
    BY <1>1, <1>3, <1>6, <1>11, <2>5, <2>6 DEF IInv, NobodyForgotten, Served
  <2>10. QED
    BY <1>7, <1>8, <1>9, <2>1, <2>2, <2>3, <2>4, <2>8, <2>9 DEF IInv
<1>12. QED
  BY <1>10, <1>11 DEF Enqueue, EnqueueRequest

-----------------------------------------------------------------------------
(* The user interface thread *)

\* What a step of the check may change of the file being received.
FileTypes ==
    /\ answer' \in [Senders -> {"none", "y", "n"}]
    /\ got' \in [Senders -> 0 .. MAX_BLOCK_COUNT * Pieces]
    /\ calls' \in 0 .. MAX_BLOCK_COUNT
    /\ torn' \in BOOLEAN /\ created' \in BOOLEAN
    /\ stored' \subseteq Senders

\* A step that stays with the request in turn keeps the invariant.
LEMMA SameRequest ==
    ASSUME IInv, Reviewing,
           ui' \in {"prompt", "accepted", "receiving", "ending"},
           FileTypes, Turn', Sizes',
           UNCHANGED <<sender, backlog, fd, closed, thread, queue, i>>
    PROVE  IInv'
<1>1. /\ UNCHANGED <<pc, result, age, sent, backlog, fd, closed, server, client, fm>>
      /\ UNCHANGED <<mutex, pending_requests, request_count, i>>
  BY DEF sender, thread, queue
<1>2. TypeOK'
  BY <1>1 DEF IInv, TypeOK, FileTypes
<1>3. Reviewing' /\ Open' = Open /\ Served' /\ Served
  BY <1>1 DEF Reviewing, Open, Served, MutexLost
<1>4. OneOwner' /\ Backlog' /\ Clocks' /\ Fitting'
  BY <1>1 DEF IInv, OneOwner, Backlog, Clocks, Fitting, Fits
<1>5. Hand'
  BY <1>1, <1>3 DEF IInv, Hand, Fits
<1>6. OwnDescriptor' /\ NobodyForgotten'
  BY <1>1, <1>3 DEF IInv, OwnDescriptor, NobodyForgotten, Served
<1>7. QED
  BY <1>2, <1>4, <1>5, <1>6 DEF IInv

\* Closing the request in turn and going on to the next keeps the invariant.
LEMMA NextRequest ==
    ASSUME IInv, Reviewing, i <= request_count,
           CloseDescriptors({Current.socket_fd}), i' = i + 1, ui' = "prompt",
           FileTypes, Sizes',
           UNCHANGED <<sender, backlog, thread, queue>>
    PROVE  IInv'
<1>1. /\ UNCHANGED <<pc, result, age, sent, backlog, server, client, fm>>
      /\ UNCHANGED <<mutex, pending_requests, request_count>>
  BY DEF sender, thread, queue
<1>2. i \in Nat \ {0} /\ request_count \in Nat /\ request_count <= MAX_PENDING_REQUESTS
      /\ MAX_PENDING_REQUESTS \in Nat
  BY LimitsAssumption DEF IInv, TypeOK
<1>3. Reviewing' /\ Served /\ Served'
  BY <1>1 DEF Reviewing, Served, MutexLost
<1>4. Open = i .. request_count /\ Open' = i + 1 .. request_count /\ i \in Open
  BY <1>1, <1>2, <1>3 DEF Open
<1>5. /\ fd' \in [Senders -> 0 .. Cardinality(Senders)] /\ closed' \subseteq Senders
      /\ \A s \in Senders : fd'[s] = fd[s] \/ fd'[s] = 0
      /\ OneOwner'
  BY CloseType DEF IInv
<1>6. TypeOK'
  <2>1. i' \in 1 .. MAX_PENDING_REQUESTS + 1
    BY <1>2
  <2>2. QED
    BY <1>1, <1>5, <2>1 DEF IInv, TypeOK, FileTypes
<1>7. Backlog'
  <2>1. \A j \in DOMAIN backlog : backlog[j] \in Senders
    BY DEF IInv, TypeOK
  <2>2. QED
    BY <1>1, <1>5, <2>1 DEF IInv, Backlog
<1>8. Clocks' /\ Fitting' /\ Turn'
  BY <1>1, <1>3 DEF IInv, Clocks, Fitting, Fits, Turn, Reviewing
<1> DEFINE L == {i}
<1>9. /\ L \in SUBSET Open
      /\ CloseDescriptors({pending_requests[k].socket_fd : k \in L})
  <2>1. {pending_requests[k].socket_fd : k \in L} = {Current.socket_fd}
    BY DEF Current
  <2>2. QED
    BY <1>4, <2>1
<1> HIDE DEF L
<1>10. /\ \A k \in Open \ L :
             fd'[pending_requests[k].sender_ip] = fd[pending_requests[k].sender_ip]
       /\ \A s \in Senders : fd'[s] # 0 => /\ fd'[s] = fd[s]
                                           /\ \A k \in L : pending_requests[k].sender_ip # s
       /\ client \in Senders => fd'[client] = fd[client]
  BY <1>3, <1>9, CloseRequests
<1>11. Open' = Open \ L
  BY <1>2, <1>4 DEF L
<1>12. Hand'
  BY <1>1, <1>3, <1>10 DEF IInv, Hand, Fits
<1>13. OwnDescriptor'
  BY <1>1, <1>3, <1>10, <1>11 DEF IInv, OwnDescriptor, Served
<1>14. NobodyForgotten'
  BY <1>1, <1>3, <1>10, <1>11 DEF IInv, NobodyForgotten, Served
<1>15. QED
  BY <1>5, <1>6, <1>7, <1>8, <1>12, <1>13, <1>14 DEF IInv

\* Going through the queue keeps the invariant, up to the end of the loop.
LEMMA ReviewKeeps ==
    ASSUME IInv, \/ UserAccepts \/ UserRefuses \/ PromptExpires
                 \/ AcceptNew \/ ReceivePart \/ ReceiveError \/ StoreFile \/ LoopEnd
    PROVE  IInv'
<1>1. /\ answer \in [Senders -> {"none", "y", "n"}]
      /\ got \in [Senders -> 0 .. MAX_BLOCK_COUNT * Pieces]
      /\ calls \in 0 .. MAX_BLOCK_COUNT /\ MAX_BLOCK_COUNT \in Nat
      /\ torn \in BOOLEAN /\ created \in BOOLEAN
      /\ stored \subseteq Senders
      /\ sent \in [Senders -> 0 .. MAX_BLOCK_COUNT]
  BY LimitsAssumption DEF IInv, TypeOK
<1>2. \A a \in {"y", "n"} : SendAnswer(a) => answer' \in [Senders -> {"none", "y", "n"}]
  BY <1>1 DEF SendAnswer
<1>3. CASE UserAccepts
  <2>1. /\ ui = "prompt" /\ i <= request_count /\ ui' = "accepted"
        /\ UNCHANGED <<sender, connection, thread, queue, i, file>>
    BY <1>3 DEF UserAccepts, Prompting
  <2>2. FileTypes /\ Sizes' /\ UNCHANGED <<backlog, fd, closed>>
    BY <1>1, <2>1 DEF FileTypes, file, connection, sender, IInv, Sizes
  <2>3. Turn' /\ Reviewing
    BY <2>1 DEF queue, IInv, Turn, Reviewing
  <2>4. QED
    BY <2>1, <2>2, <2>3, SameRequest
<1>4. CASE UserRefuses \/ PromptExpires
  <2>1. /\ ui = "prompt" /\ i <= request_count /\ i' = i + 1 /\ ui' = ui
        /\ SendAnswer("n") /\ CloseDescriptors({Current.socket_fd})
        /\ UNCHANGED <<sender, backlog, got, thread, queue, file>>
    BY <1>4 DEF UserRefuses, PromptExpires, Prompting, Refuse
  <2>2. FileTypes /\ Sizes' /\ Reviewing
    BY <1>1, <1>2, <2>1 DEF FileTypes, file, sender, IInv, Sizes, Reviewing
  <2>3. QED
    BY <2>1, <2>2, NextRequest
<1>5. CASE AcceptNew
  <2>1. /\ ui = "accepted" /\ ui' = "receiving" /\ SendAnswer("y") /\ created' \in BOOLEAN
        /\ UNCHANGED <<sender, backlog, fd, closed, got, thread, queue, i, calls, torn, stored>>
    BY <1>5 DEF AcceptNew, AnswerYes
  <2>2. FileTypes /\ Sizes'
    BY <1>1, <1>2, <2>1 DEF FileTypes, sender, IInv, Sizes
  <2>3. Turn' /\ Reviewing
    BY <2>1 DEF queue, IInv, Turn, Reviewing
  <2>4. QED
    BY <2>1, <2>2, <2>3, SameRequest
<1>6. CASE ReceivePart
  <2>1. /\ ui = "receiving" /\ ui' = ui /\ calls < MAX_BLOCK_COUNT /\ calls' = calls + 1
        /\ UNCHANGED <<sender, backlog, fd, closed, answer, thread, queue, i, created, stored>>
    BY <1>6 DEF ReceivePart
  <2>2. PICK s \in Senders, n \in 1 .. Pieces :
          /\ n <= Unread(s)
          /\ got' = [got EXCEPT ![s] = @ + n]
          /\ torn' = (torn \/ n < Pieces)
    BY <1>6 DEF ReceivePart, Peers
  <2>3. n \in Nat /\ got[s] \in Nat /\ sent[s] \in Nat /\ Pieces \in Nat
        /\ sent[s] <= MAX_BLOCK_COUNT
    BY <1>1, LimitsAssumption
  <2>4. sent[s] * Pieces \in Nat /\ sent[s] * Pieces <= MAX_BLOCK_COUNT * Pieces
    BY <1>1, <2>3
  <2>5. got[s] + n <= sent[s] * Pieces
    BY <2>2, <2>3, <2>4 DEF Unread
  <2>6. got' \in [Senders -> 0 .. MAX_BLOCK_COUNT * Pieces]
    <3>1. got[s] + n \in 0 .. MAX_BLOCK_COUNT * Pieces
      BY <1>1, <2>3, <2>4, <2>5
    <3>2. QED
      BY <1>1, <2>2, <3>1
  <2>7. FileTypes
    BY <1>1, <2>1, <2>2, <2>6 DEF FileTypes
  <2>8. Sizes'
    BY <1>1, <2>1, <2>2, <2>5 DEF sender, IInv, Sizes
  <2>9. Turn' /\ Reviewing
    BY <2>1 DEF queue, IInv, Turn, Reviewing
  <2>10. QED
    BY <2>1, <2>7, <2>8, <2>9, SameRequest
<1>10. CASE ReceiveError
  <2>1. /\ ui = "receiving" /\ ui' = ui /\ calls = 0 /\ calls' = 1 /\ torn' = TRUE
        /\ UNCHANGED <<sender, connection, thread, queue, i, created, stored>>
    BY <1>10 DEF ReceiveError
  <2>2. 1 \in 0 .. MAX_BLOCK_COUNT
    BY LimitsAssumption
  <2>3. FileTypes /\ Sizes' /\ UNCHANGED <<backlog, fd, closed>>
    BY <1>1, <2>1, <2>2 DEF FileTypes, connection, sender, IInv, Sizes
  <2>4. Turn' /\ Reviewing
    BY <2>1 DEF queue, IInv, Turn, Reviewing
  <2>5. QED
    BY <2>1, <2>3, <2>4, SameRequest
<1>7. CASE StoreFile
  <2>1. /\ ui = "receiving" /\ i' = i + 1 /\ ui' = "prompt"
        /\ CloseDescriptors({Current.socket_fd})
        /\ calls' = 0 /\ torn' = FALSE /\ created' = FALSE /\ stored' \subseteq Senders
        /\ UNCHANGED <<sender, backlog, answer, got, thread, queue>>
    BY <1>1, <1>7 DEF StoreFile, EndReceiving, Peers
  <2>2. 0 \in 0 .. MAX_BLOCK_COUNT /\ UNCHANGED <<answer, got, sent>>
    BY <1>1, <2>1 DEF sender
  <2>3. FileTypes
    BY <1>1, <2>1, <2>2 DEF FileTypes
  <2>4. Sizes'
    BY <2>2 DEF IInv, Sizes
  <2>5. Reviewing /\ i <= request_count
    BY <2>1 DEF IInv, Turn, Reviewing
  <2>6. QED
    BY <2>1, <2>3, <2>4, <2>5, NextRequest
<1>8. CASE LoopEnd
  <2>1. /\ ui = "prompt" /\ i > request_count /\ ui' = "ending"
        /\ UNCHANGED <<sender, connection, thread, queue, i, file>>
    BY <1>8 DEF LoopEnd
  <2>2. FileTypes /\ Sizes' /\ UNCHANGED <<backlog, fd, closed>>
    BY <1>1, <2>1 DEF FileTypes, file, connection, sender, IInv, Sizes
  <2>3. Turn' /\ Reviewing
    BY <2>1 DEF queue, IInv, Turn, Reviewing
  <2>4. QED
    BY <2>1, <2>2, <2>3, SameRequest
<1>9. QED
  BY <1>3, <1>4, <1>5, <1>6, <1>7, <1>8, <1>10

\* The start of a check closes the requests that came too long ago and moves
\* the others up; none of these loses its descriptor.
LEMMA CheckStartKeeps ==
    ASSUME IInv, CheckStart
    PROVE  IInv'
<1> DEFINE L == {k \in 1 .. request_count : Expired(pending_requests[k].fm)}
           stays == (1 .. request_count) \ L
<1>1. /\ ui = "menu" /\ mutex = "free" /\ mutex' = "ui" /\ ui' = "prompt" /\ i' = 1
      /\ UNCHANGED <<pc, result, age, sent, backlog, answer, got, server, client, fm>>
      /\ UNCHANGED <<calls, torn, created, root, stored>>
  BY DEF CheckStart, sender, thread, file
<1>2. /\ CloseDescriptors({pending_requests[k].socket_fd : k \in L})
      /\ \E n \in 0 .. request_count : \E place \in [1 .. n -> stays] :
            /\ {place[k] : k \in 1 .. n} = stays
            /\ \A j, k \in 1 .. n : j < k => place[j] < place[k]
            /\ request_count' = n
            /\ pending_requests' =
                 [k \in Requests |-> IF k <= n THEN pending_requests[place[k]]
                                     ELSE IF k <= request_count
                                            THEN pending_requests[request_count]
                                            ELSE pending_requests[k]]
  BY DEF CheckStart, DropExpired
<1>3. L \subseteq 1 .. request_count
  OBVIOUS
<1> HIDE DEF L
<1>4. PICK n \in 0 .. request_count : \E place \in [1 .. n -> stays] :
            /\ {place[k] : k \in 1 .. n} = stays
            /\ \A j, k \in 1 .. n : j < k => place[j] < place[k]
            /\ request_count' = n
            /\ pending_requests' =
                 [k \in Requests |-> IF k <= n THEN pending_requests[place[k]]
                                     ELSE IF k <= request_count
                                            THEN pending_requests[request_count]
                                            ELSE pending_requests[k]]
  BY <1>2
<1>5. PICK place \in [1 .. n -> stays] :
            /\ {place[k] : k \in 1 .. n} = stays
            /\ \A j, k \in 1 .. n : j < k => place[j] < place[k]
            /\ request_count' = n
            /\ pending_requests' =
                 [k \in Requests |-> IF k <= n THEN pending_requests[place[k]]
                                     ELSE IF k <= request_count
                                            THEN pending_requests[request_count]
                                            ELSE pending_requests[k]]
  BY <1>4
<1>6. /\ request_count \in Nat /\ n \in Nat /\ n <= request_count
      /\ MAX_PENDING_REQUESTS \in Nat /\ request_count <= MAX_PENDING_REQUESTS
  BY <1>5, LimitsAssumption DEF IInv, TypeOK
<1>7. \A k \in 1 .. n : /\ place[k] \in 1 .. request_count /\ place[k] \notin L
                        /\ pending_requests'[k] = pending_requests[place[k]]
  BY <1>5, <1>6 DEF Requests
<1>8. \A j, k \in 1 .. n : place[j] = place[k] => j = k
  <2> SUFFICES ASSUME NEW j \in 1 .. n, NEW k \in 1 .. n, place[j] = place[k]
               PROVE  j = k
    OBVIOUS
  <2>1. place[j] \in Nat
    BY <1>6, <1>7
  <2>2. ~(j < k) /\ ~(k < j)
    BY <1>5, <2>1
  <2>3. QED
    BY <1>6, <2>2
<1>9. \A l \in (1 .. request_count) \ L : \E k \in 1 .. n : place[k] = l
  BY <1>5
<1>10. Served /\ Served' /\ Reviewing' /\ ~Reviewing
  BY <1>1 DEF Served, MutexLost, Reviewing
<1>11. Open = 1 .. request_count /\ Open' = 1 .. n /\ L \in SUBSET Open
  BY <1>1, <1>3, <1>5, <1>6, <1>10 DEF Open
<1>12. /\ fd' \in [Senders -> 0 .. Cardinality(Senders)] /\ closed' \subseteq Senders
       /\ \A s \in Senders : fd'[s] = fd[s] \/ fd'[s] = 0
       /\ OneOwner'
  BY <1>2, CloseType DEF IInv
<1>13. TypeOK'
  <2>1. pending_requests' \in [Requests -> Request]
    <3>1. pending_requests \in [Requests -> Request]
      BY DEF IInv, TypeOK
    <3>2. \A k \in Requests : k <= n => place[k] \in Requests
      BY <1>6, <1>7 DEF Requests
    <3>3. \A k \in Requests : k <= request_count => request_count \in Requests
      BY <1>6 DEF Requests
    <3>4. QED
      BY <1>5, <3>1, <3>2, <3>3
  <2>2. request_count' \in 0 .. MAX_PENDING_REQUESTS /\ i' \in 1 .. MAX_PENDING_REQUESTS + 1
    BY <1>1, <1>5, <1>6
  <2>3. QED
    BY <1>1, <1>12, <2>1, <2>2 DEF IInv, TypeOK
<1>14. Backlog'
  <2>1. \A j \in DOMAIN backlog : backlog[j] \in Senders
    BY DEF IInv, TypeOK
  <2>2. QED
    BY <1>1, <1>12, <2>1 DEF IInv, Backlog
<1>15. Clocks' /\ Sizes' /\ Turn'
  BY <1>1 DEF IInv, Clocks, Sizes, Turn, Reviewing
<1>16. Fitting'
  BY <1>1, <1>5, <1>7 DEF IInv, Fitting, Fits
<1>17. /\ \A k \in Open \ L :
             fd'[pending_requests[k].sender_ip] = fd[pending_requests[k].sender_ip]
       /\ \A s \in Senders : fd'[s] # 0 => /\ fd'[s] = fd[s]
                                           /\ \A k \in L : pending_requests[k].sender_ip # s
       /\ client \in Senders => fd'[client] = fd[client]
  BY <1>2, <1>10, <1>11, CloseRequests
<1>18. Hand'
  BY <1>1, <1>10, <1>17 DEF IInv, Hand, Fits
<1>19. OwnDescriptor'
  BY <1>7, <1>10, <1>11, <1>17 DEF IInv, OwnDescriptor, Served
<1>20. NobodyForgotten'
  <2> SUFFICES ASSUME NEW s \in Senders, fd'[s] # 0
               PROVE  \/ s = client /\ \A k \in Open' : pending_requests'[k].sender_ip # s
                      \/ /\ s # client
                         /\ \E k \in Open' : /\ pending_requests'[k].sender_ip = s
                                             /\ \A l \in Open' \ {k} :
                                                  pending_requests'[l].sender_ip # s
    BY <1>1 DEF NobodyForgotten
  <2>1. fd[s] # 0 /\ \A k \in L : pending_requests[k].sender_ip # s
    BY <1>17
  <2>2. CASE s = client
    BY <1>7, <1>10, <1>11, <2>1, <2>2 DEF IInv, NobodyForgotten, Served
  <2>3. CASE s # client
    <3>1. PICK k \in Open : /\ pending_requests[k].sender_ip = s
                            /\ \A l \in Open \ {k} : pending_requests[l].sender_ip # s
      BY <1>10, <2>1, <2>3 DEF IInv, NobodyForgotten, Served
    <3>2. PICK j \in 1 .. n : place[j] = k
      BY <1>9, <1>11, <2>1, <3>1
    <3>3. \A l \in Open' \ {j} : pending_requests'[l].sender_ip # s
      BY <1>7, <1>8, <1>11, <3>1, <3>2
    <3>4. QED
      BY <1>7, <1>11, <2>3, <3>1, <3>2, <3>3
  <2>4. QED
    BY <2>2, <2>3
<1>21. QED
  BY <1>12, <1>13, <1>14, <1>15, <1>16, <1>18, <1>19, <1>20 DEF IInv

\* Refusing a file for its name leaves the queue with its mutex locked, where
\* only the end of the program follows.
LEMMA AcceptExistingKeeps ==
    ASSUME IInv, AcceptExisting
    PROVE  IInv'
<1>1. /\ ui = "accepted" /\ SendAnswer("y") /\ ui' = "menu" /\ i' = 1
      /\ \E D : CloseDescriptors(D)
      /\ UNCHANGED <<pc, result, age, sent, backlog, got, server, client, fm>>
      /\ UNCHANGED <<mutex, pending_requests, request_count, calls, torn, created, root, stored>>
  BY DEF AcceptExisting, AnswerYes, sender, thread, queue, file
<1>2. MutexLost' /\ ~Reviewing'
  BY <1>1 DEF IInv, Turn, Reviewing, MutexLost
<1>3. /\ fd' \in [Senders -> 0 .. Cardinality(Senders)] /\ closed' \subseteq Senders
      /\ \A s \in Senders : fd'[s] = fd[s] \/ fd'[s] = 0
      /\ OneOwner'
  BY <1>1, CloseType DEF IInv
<1>4. answer' \in [Senders -> {"none", "y", "n"}]
  BY <1>1 DEF SendAnswer, IInv, TypeOK
<1>5. TypeOK'
  <2>1. i' \in 1 .. MAX_PENDING_REQUESTS + 1
    BY <1>1, LimitsAssumption
  <2>2. QED
    BY <1>1, <1>3, <1>4, <2>1 DEF IInv, TypeOK
<1>6. Backlog'
  <2>1. \A j \in DOMAIN backlog : backlog[j] \in Senders
    BY DEF IInv, TypeOK
  <2>2. QED
    BY <1>1, <1>3, <2>1 DEF IInv, Backlog
<1>7. Clocks' /\ Sizes' /\ Fitting'
  BY <1>1 DEF IInv, Clocks, Sizes, Fitting, Fits
<1>8. Hand'
  BY <1>1, <1>2 DEF IInv, Hand, Fits, Served
<1>9. Turn' /\ OwnDescriptor' /\ NobodyForgotten'
  BY <1>1, <1>2 DEF Turn, OwnDescriptor, NobodyForgotten
<1>10. QED
  BY <1>3, <1>5, <1>6, <1>7, <1>8, <1>9 DEF IInv

\* At the end of a check every request has been answered.
LEMMA CheckEndKeeps ==
    ASSUME IInv, CheckEnd
    PROVE  IInv'
<1>1. /\ ui = "ending" /\ request_count' = 0 /\ mutex' = "free" /\ ui' = "menu" /\ i' = 1
      /\ UNCHANGED <<pc, result, age, sent, backlog, fd, closed, answer, got>>
      /\ UNCHANGED <<server, client, fm, pending_requests, calls, torn, created, root, stored>>
  BY DEF CheckEnd, sender, connection, thread, file
<1>2. TypeOK'
  <2>1. request_count' \in 0 .. MAX_PENDING_REQUESTS /\ i' \in 1 .. MAX_PENDING_REQUESTS + 1
    BY <1>1, LimitsAssumption
  <2>2. QED
    BY <1>1, <2>1 DEF IInv, TypeOK
<1>3. Served /\ Served' /\ Reviewing /\ ~Reviewing'
  BY <1>1 DEF Served, MutexLost, Reviewing
<1>4. Open = {} /\ Open' = {}
  <2>1. i > request_count /\ i \in Int /\ request_count \in Int
    BY <1>1, LimitsAssumption DEF IInv, Turn, TypeOK
  <2>2. Open = {}
    BY <1>3, <2>1 DEF Open
  <2>3. Open' = {}
    BY <1>1 DEF Open
  <2>4. QED
    BY <2>2, <2>3
<1>5. OneOwner' /\ Backlog' /\ Clocks' /\ Sizes'
  BY <1>1 DEF IInv, OneOwner, Backlog, Clocks, Sizes
<1>6. Hand' /\ Turn' /\ Fitting'
  BY <1>1, <1>3 DEF IInv, Hand, Fits, Turn, Reviewing, Fitting
<1>7. OwnDescriptor' /\ NobodyForgotten'
  BY <1>1, <1>3, <1>4 DEF IInv, OwnDescriptor, NobodyForgotten, Served
<1>8. QED
  BY <1>2, <1>5, <1>6, <1>7 DEF IInv

\* The end of the program keeps the invariant.
LEMMA ExitKeeps ==
    ASSUME IInv, Exit
    PROVE  IInv'
<1>1. /\ ui' = "down" /\ server' = "off" /\ client' = Nobody /\ fm' = Nobody
      /\ closed' = closed \cup {s \in Senders : pc[s] # "idle" /\ result[s] # -1}
      /\ fd' = [s \in Senders |-> 0] /\ backlog' = <<>>
      /\ mutex' = "free" /\ request_count' = 0 /\ i' = 1
      /\ pending_requests' = [k \in Requests |-> NoRequest]
      /\ calls' = 0 /\ torn' = FALSE /\ created' = FALSE
      /\ UNCHANGED <<pc, result, age, sent, answer, got, root, stored>>
  BY DEF Exit, EmptyMemory, EndReceiving, sender
<1>2. NoRequest \in Request /\ 0 \in 0 .. Cardinality(Senders)
  BY Descriptors DEF NoRequest, Request, IInv
<1>3. /\ 0 \in 0 .. MAX_PENDING_REQUESTS /\ 1 \in 1 .. MAX_PENDING_REQUESTS + 1
      /\ 0 \in 0 .. MAX_BLOCK_COUNT
  BY LimitsAssumption
<1>4. TypeOK'
  <2>1. /\ fd' \in [Senders -> 0 .. Cardinality(Senders)]
        /\ pending_requests' \in [Requests -> Request]
        /\ closed' \subseteq Senders /\ backlog' \in Seq(Senders)
    BY <1>1, <1>2 DEF IInv, TypeOK
  <2>2. /\ request_count' \in 0 .. MAX_PENDING_REQUESTS
        /\ i' \in 1 .. MAX_PENDING_REQUESTS + 1
        /\ calls' \in 0 .. MAX_BLOCK_COUNT
    BY <1>1, <1>3
  <2>3. QED
    BY <1>1, <2>1, <2>2 DEF IInv, TypeOK
<1>5. OneOwner' /\ Backlog' /\ Clocks' /\ Sizes'
  BY <1>1 DEF IInv, OneOwner, Backlog, Clocks, Sizes
<1>6. Hand' /\ Turn' /\ Fitting'
  BY <1>1 DEF Hand, Turn, Reviewing, Fitting
<1>7. OwnDescriptor' /\ NobodyForgotten'
  BY <1>1 DEF OwnDescriptor, NobodyForgotten
<1>8. QED
  BY <1>4, <1>5, <1>6, <1>7 DEF IInv

-----------------------------------------------------------------------------
(* The invariant *)

\* It holds at the start.
LEMMA InitIInv == Init => IInv
<1> SUFFICES ASSUME Init PROVE IInv
  OBVIOUS
<1>1. /\ Cardinality(Senders) \in Nat
      /\ 0 \in 0 .. MAX_BLOCK_COUNT * Pieces /\ 0 \in 0 .. MAX_BLOCK_COUNT
      /\ 0 \in 0 .. MAX_PENDING_REQUESTS /\ 1 \in 1 .. MAX_PENDING_REQUESTS + 1
      /\ -1 \in -1 .. MaxAge
  BY SendersAssumption, LimitsAssumption, ClocksAssumption, FS_CardinalityType
<1>2. /\ 0 \in 0 .. Cardinality(Senders) /\ NoRequest \in Request
  BY <1>1 DEF NoRequest, Request
<1>3. TypeOK
  <2>1. /\ fd \in [Senders -> 0 .. Cardinality(Senders)]
        /\ got \in [Senders -> 0 .. MAX_BLOCK_COUNT * Pieces]
        /\ sent \in [Senders -> 0 .. MAX_BLOCK_COUNT]
        /\ age \in [Senders -> -1 .. MaxAge]
        /\ pending_requests \in [Requests -> Request]
    BY <1>1, <1>2 DEF Init
  <2>2. /\ pc \in [Senders -> Places]
        /\ result \in [Senders -> -5 .. 1]
        /\ answer \in [Senders -> {"none", "y", "n"}]
        /\ backlog \in Seq(Senders)
    BY DEF Init, Places
  <2>3. QED
    BY <1>1, <2>1, <2>2 DEF Init, TypeOK
<1>4. ~Reviewing /\ request_count = 0 /\ \A s \in Senders : fd[s] = 0
  BY DEF Init, Reviewing
<1>5. Open = {}
  BY <1>4 DEF Open
<1>6. OneOwner /\ Backlog /\ Clocks
  BY <1>4 DEF Init, OneOwner, Backlog, Clocks
<1>7. Sizes
  <2> SUFFICES ASSUME NEW s \in Senders
               PROVE  sent[s] <= FileBlocks[s] /\ got[s] <= sent[s] * Pieces
    BY DEF Sizes
  <2>1. sent[s] = 0 /\ got[s] = 0
    BY DEF Init
  <2>2. FileBlocks[s] \in Nat
    BY FilesAssumption, LimitsAssumption
  <2>3. QED
    BY <2>1, <2>2, LimitsAssumption
<1>8. Hand /\ Turn /\ Fitting
  BY <1>4 DEF Init, Hand, Turn, Fitting, Reviewing
<1>9. OwnDescriptor /\ NobodyForgotten
  BY <1>4, <1>5 DEF OwnDescriptor, NobodyForgotten
<1>10. QED
  BY <1>3, <1>6, <1>7, <1>8, <1>9 DEF IInv

\* Every step keeps it.
LEMMA NextIInv == IInv /\ [Next]_vars => IInv'
<1> SUFFICES ASSUME IInv, [Next]_vars PROVE IInv'
  OBVIOUS
<1>1. ASSUME NEW s \in Senders, Connect(s) \/ SenderStep(s) \/ Kill(s)
      PROVE  IInv'
  BY <1>1, ConnectKeeps, SenderStepKeeps, KillKeeps
<1>2. CASE Accept \/ ReceiveMetadata \/ Enqueue
  BY <1>2, AcceptKeeps, ReceiveMetadataKeeps, EnqueueKeeps
<1>3. CASE CheckStart
  BY <1>3, CheckStartKeeps
<1>4. CASE UserAccepts \/ UserRefuses
  BY <1>4, ReviewKeeps
<1>5. CASE UiStep
  BY <1>5, ReviewKeeps, AcceptExistingKeeps, CheckEndKeeps DEF UiStep
<1>6. CASE Exit
  BY <1>6, ExitKeeps
<1>7. CASE Tick
  BY <1>7, TickKeeps
<1>8. CASE UNCHANGED vars
  <2>1. UNCHANGED <<pc, result, age, sent, receiver>>
    BY <1>8 DEF vars, sender
  <2>2. Clocks' /\ Sizes'
    BY <2>1 DEF receiver, connection, IInv, Clocks, Sizes
  <2>3. QED
    BY <2>1, <2>2, SenderFrame DEF IInv, TypeOK
<1>9. QED
  BY <1>1, <1>2, <1>3, <1>4, <1>5, <1>6, <1>7, <1>8 DEF Next

\* The strengthened invariant holds of every behaviour.
THEOREM Invariance == Spec => []IInv
  BY InitIInv, NextIInv, PTL DEF Spec

\* Every variable keeps its type: the queue never outgrows its array, and no
\* more of a file is read than was sent.
THEOREM TypeCorrect == Spec => []TypeOK
<1>1. IInv => TypeOK
  BY DEF IInv
<1>2. QED
  BY <1>1, Invariance, PTL

\* An answer, and the file after it, goes over the connection by which the
\* request in turn came: its descriptor was neither closed nor given to
\* another connection since.
THEOREM AnswersGoHome == Spec => []OwnDescriptor
<1>1. IInv => OwnDescriptor
  BY DEF IInv
<1>2. QED
  BY <1>1, Invariance, PTL

\* Between the server thread and the user interface no connection is dropped
\* without being closed, and none is queued twice.
THEOREM NoneForgotten == Spec => []NobodyForgotten
<1>1. IInv => NobodyForgotten
  BY DEF IInv
<1>2. QED
  BY <1>1, Invariance, PTL

\* The file the user is asked about is that of the sender who waits for the
\* answer.
THEOREM OwnFileAskedAbout == Spec => []AskedAboutOwnFile
<1>1. IInv => AskedAboutOwnFile
  <2> SUFFICES ASSUME IInv, NEW k \in Open,
                      pending_requests[k].sender_ip \in Senders,
                      pc[pending_requests[k].sender_ip] = "waiting"
               PROVE  pending_requests[k].fm = pending_requests[k].sender_ip
    BY DEF AskedAboutOwnFile
  <2>1. k \in 1 .. request_count
    BY DEF Open
  <2>2. QED
    BY <2>1 DEF IInv, Fitting, Fits
<1>2. QED
  BY <1>1, Invariance, PTL
=============================================================================
