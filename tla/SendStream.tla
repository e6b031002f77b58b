------------------------------ MODULE SendStream ------------------------------
(***************************************************************************)
(* What the asynchronous send path of one NetConnection promises its       *)
(* callers: the bytes sendDataAsync accepts form one stream, the socket    *)
(* receives that stream in order and without gaps, and nothing is handed   *)
(* to the socket once it is closed.  The stream may lose its undelivered   *)
(* tail only when the send buffer overflows (NetConnection.cpp:222-230),   *)
(* and then the connection is doomed.                                      *)
(***************************************************************************)
EXTENDS Sequences, SequencesExt

VARIABLES
  accepted,    \* the stream the callers were promised
  delivered,   \* what the socket has taken of it
  up,          \* the socket is open
  doomed       \* an overflow has asked for the connection to be cut

streamVars == <<accepted, delivered, up, doomed>>

Init == /\ accepted = << >>
        /\ delivered = << >>
        /\ up = TRUE
        /\ doomed = FALSE

(* A send call adds its bytes at the end of the stream. *)
Accept == /\ IsStrictPrefix(accepted, accepted')
          /\ UNCHANGED <<delivered, up, doomed>>

(* The socket takes the next bytes of the stream. *)
Deliver == /\ up
           /\ IsStrictPrefix(delivered, delivered')
           /\ IsPrefix(delivered', accepted)
           /\ UNCHANGED <<accepted, up, doomed>>

(* A send call that overflows the buffer gives up what is still waiting. *)
Overflow == /\ IsPrefix(accepted', accepted)
            /\ IsPrefix(delivered, accepted')
            /\ doomed' = TRUE
            /\ UNCHANGED <<delivered, up>>

Close == /\ up
         /\ up' = FALSE
         /\ UNCHANGED <<accepted, delivered, doomed>>

Next == Accept \/ Deliver \/ Overflow \/ Close

Spec == Init /\ [][Next]_streamVars

=============================================================================
