------------------------------ MODULE Mailbox ------------------------------
(***************************************************************************)
(* What polling promises: a message is posted once, under an id of its     *)
(* own; a request is open until it is answered, once, with messages that   *)
(* were posted, or closed.  One event may answer many.  Which messages are *)
(* due to whom is not said here.                                           *)
(***************************************************************************)
CONSTANTS Requests, Ids

VARIABLES posted,  \* the messages that can be read
          stage,   \* request -> "closed", "open" or "answered"
          reply    \* request -> the messages in its answer

vars == <<posted, stage, reply>>

Init ==
  /\ posted = {}
  /\ stage = [r \in Requests |-> "closed"]
  /\ reply = [r \in Requests |-> {}]

Post(m) ==
  /\ m \notin posted
  /\ posted' = posted \cup {m}
  /\ UNCHANGED <<stage, reply>>

Open(r) ==
  /\ stage[r] = "closed"
  /\ stage' = [stage EXCEPT ![r] = "open"]
  /\ UNCHANGED <<posted, reply>>

Answer(R, ids) ==
  /\ \A r \in R : stage[r] = "open"
  /\ ids \subseteq posted
  /\ stage' = [r \in Requests |-> IF r \in R THEN "answered" ELSE stage[r]]
  /\ reply' = [r \in Requests |-> IF r \in R THEN ids ELSE reply[r]]
  /\ UNCHANGED posted

(* Its connection is closed, or those of all with the end of the server.   *)
Close(R) ==
  /\ stage' = [r \in Requests |-> IF r \in R THEN "closed" ELSE stage[r]]
  /\ reply' = [r \in Requests |-> IF r \in R THEN {} ELSE reply[r]]
  /\ UNCHANGED posted

Next ==
  \/ \E m \in Ids : Post(m)
  \/ \E r \in Requests : Open(r) \/ Close({r})
  \/ \E R \in SUBSET {r \in Requests : stage[r] = "open"}, ids \in SUBSET posted : Answer(R, ids)
  \/ Close(Requests)

Spec == Init /\ [][Next]_vars
=============================================================================
