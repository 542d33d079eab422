--------------------------- MODULE TransferClaims ---------------------------
(***************************************************************************)
(* What the documents and messages say of the transfer and the code does   *)
(* not keep.  Each is checked by a run of its own that finds the behaviour *)
(* contradicting it.                                                       *)
(***************************************************************************)
EXTENDS Transfer

\* The server thread always comes back to listening, as long as the program
\* runs.
ServerKeepsListening == server # "accept" ~> server \in {"accept", "off"}

\* A sender whose file was accepted, and who is told that it was sent, has it
\* in the receiver's file system once the receiver, still running, is through
\* with the connection.
SentFileIsStored ==
    \A s \in Senders :
        answer[s] = "y" /\ result[s] = 1 /\ s \in closed /\ ui # "down"
            => s \in stored
=============================================================================
