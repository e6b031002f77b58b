------------------------------ MODULE RpcService ------------------------------
(***************************************************************************)
(* What the RPC client and server of src/src/sample promise together:      *)
(* each request's callback is called at most once, with the answer to that *)
(* request or with the error that it could not be sent, and it is called   *)
(* unless something failed.                                                *)
(***************************************************************************)
CONSTANT Requests

VARIABLES
  state,    \* what has become of each request
  faulty    \* a connection was lost, or a response could not be made

vars == <<state, faulty>>

States == {"new", "sent", "answered", "refused", "lost"}
In(S) == {r \in Requests : state[r] \in S}

Init == state = [r \in Requests |-> "new"] /\ faulty = FALSE

Becomes(S, what) == state' = [r \in Requests |-> IF r \in S THEN what ELSE state[r]]

Send(r) == state[r] = "new" /\ Becomes({r}, "sent") /\ UNCHANGED faulty
Answer(r) == state[r] = "sent" /\ Becomes({r}, "answered") /\ UNCHANGED faulty
Refuse(r) == faulty /\ state[r] = "new" /\ Becomes({r}, "refused") /\ UNCHANGED faulty

(* A fault loses any of the requests that are not answered yet. *)
Lose(S) == faulty' = TRUE /\ Becomes(S, "lost")

Next == \/ \E r \in Requests : Send(r) \/ Answer(r) \/ Refuse(r)
        \/ \E S \in SUBSET In({"new", "sent"}) : Lose(S)

(* A request that is sent is answered, unless it is lost. *)
Spec == Init /\ [][Next]_vars /\ \A r \in Requests : WF_vars(Answer(r))
=============================================================================
