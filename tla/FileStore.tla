----------------------------- MODULE FileStore -----------------------------
(***************************************************************************)
(* What the utility promises about the contents of files, without blocks,  *)
(* bitmaps and inodes: a file is a function from its first so many slots   *)
(* to what they hold.  Sfs implements it; checking and defragmenting the   *)
(* image are then steps that change nothing.                               *)
(*                                                                         *)
(* It is as weak as the code makes it.  Opening a file to write gives it a *)
(* first slot whose contents are not promised; what is then written        *)
(* replaces slots one by one and keeps the tail behind them.  A file may   *)
(* be used as if it were a directory, which changes its first slot.  A     *)
(* restart loses everything.                                               *)
(***************************************************************************)
EXTENDS Naturals

CONSTANTS
    Files,      \* what a file can be named by
    Length,     \* the most slots a file has
    Texts       \* what one slot can be given

VARIABLES
    running,    \* the program runs
    content,    \* of each file that there is
    session     \* the file being written or received and the slot in turn

vars == <<running, content, session>>

NoSession == [kind |-> "none"]
Session(kind, f, at) == [kind |-> kind, file |-> f, slot |-> at]

Exists == DOMAIN content

\* No file.
Nothing == [f \in {} |-> f]

Init ==
    /\ running = TRUE
    /\ content = Nothing
    /\ session = NoSession

\* The files in F and no others are as they were.
Same(F) == \A f \in F : content'[f] = content[f]

\* In file f only the slots in S are given something.
OnlySlots(f, S) ==
    /\ DOMAIN content'[f] = DOMAIN content[f] \cup S
    /\ \A s \in DOMAIN content[f] \ S : content'[f][s] = content[f][s]

\* File f may have been used as a directory.
AtMostFirst(f) == content'[f] = content[f] \/ OnlySlots(f, {1})

\* A file is made, with nothing in it unless it is its own directory; host is
\* the one that was used as its directory, if that was a file.
Create(f, host) ==
    /\ running /\ session = NoSession
    /\ f \notin Exists
    /\ DOMAIN content' = Exists \cup {f}
    /\ f # host => content'[f] = Nothing
    /\ Same(Exists \ {host})
    /\ host \in Exists => AtMostFirst(host)
    /\ UNCHANGED running

\* The files in F are deleted; none are when a directory is made or deleted.
Delete(F, host) ==
    /\ running /\ session = NoSession
    /\ DOMAIN content' = Exists \ F
    /\ Same((Exists \ F) \ {host})
    /\ host \in Exists \ F => AtMostFirst(host)
    /\ UNCHANGED <<running, session>>

MakeFile(f, host) == Create(f, host) /\ UNCHANGED session

AcceptFile(f) ==
    /\ Create(f, f) /\ content'[f] = Nothing
    /\ session' = Session("receive", f, 1)

OpenForWrite(f) ==
    /\ running /\ session = NoSession
    /\ f \in Exists
    /\ DOMAIN content' = Exists
    /\ Same(Exists \ {f})
    /\ OnlySlots(f, {1})
    /\ session' = Session("write", f, 1)
    /\ UNCHANGED running

\* The slot in turn is given text, and the slots in More something.
Put(kind, f, at, text, More) ==
    /\ running /\ session = Session(kind, f, at)
    /\ f \in Exists
    /\ DOMAIN content' = Exists
    /\ Same(Exists \ {f})
    /\ OnlySlots(f, {at} \cup More)
    /\ content'[f][at] = text
    /\ UNCHANGED running

Fill(f, at, text) ==
    /\ at < Length
    /\ Put("write", f, at, text, {at + 1})
    /\ session' = Session("write", f, at + 1)

Finish(f, at, text) ==
    /\ Put("write", f, at, text, {})
    /\ session' = NoSession

Receive(f, at, text) ==
    /\ Put("receive", f, at, text, {})
    /\ session' = Session("receive", f, at + 1)

Received(f, at) ==
    /\ running /\ session = Session("receive", f, at)
    /\ session' = NoSession
    /\ UNCHANGED <<running, content>>

\* The program ends, in the middle of a session too.
Halt ==
    /\ running
    /\ running' = FALSE
    /\ content' = Nothing
    /\ session' = NoSession

Restart ==
    /\ ~running
    /\ running' = TRUE
    /\ UNCHANGED <<content, session>>

Next ==
    \/ \E f, host \in Files : MakeFile(f, host)
    \/ \E F \in SUBSET Files, host \in Files : Delete(F, host)
    \/ \E f \in Files : AcceptFile(f) \/ OpenForWrite(f)
    \/ \E f \in Files, at \in 1 .. Length + 1 :
          \/ \E text \in Texts : \/ Fill(f, at, text)
                                 \/ Finish(f, at, text)
                                 \/ Receive(f, at, text)
          \/ Received(f, at)
    \/ Halt
    \/ Restart

Spec == Init /\ [][Next]_vars
=============================================================================
