------------------------------- MODULE Reader -------------------------------
(***************************************************************************)
(* What the client promises its user: it reads the messages of a group     *)
(* from the oldest on, in the order of the server's list and skipping      *)
(* none, and what the user sends is in its place.  Conversation implements *)
(* this until one of its Faults happens.                                   *)
(***************************************************************************)
EXTENDS Naturals, Sequences

CONSTANTS Groups, Ids

VARIABLES listed,  \* per group its messages, newest first
          had,     \* per group the messages that the user has
          ok       \* no promise was given up

vars == <<listed, had, ok>>

All(g) == {listed[g][i] : i \in DOMAIN listed[g]}
Oldest(g, k) == {listed[g][i] : i \in Len(listed[g]) + 1 - k .. Len(listed[g])}

Init ==
  /\ listed = [g \in Groups |-> << >>]
  /\ had = [g \in Groups |-> {}]
  /\ ok = TRUE

Post(g, m) ==
  /\ \A h \in Groups : m \notin All(h)
  /\ listed' = [listed EXCEPT ![g] = <<m>> \o @]

(* Somebody else's message is new to the user. *)
Others(g, m) == Post(g, m) /\ UNCHANGED had

(* The user's own follows what the user has, which is everything. *)
Own(g, m) ==
  /\ had[g] = All(g)
  /\ Post(g, m)
  /\ had' = [had EXCEPT ![g] = @ \cup {m}]

(* The user reads on, where it has stopped. *)
Read(g, k) ==
  /\ had[g] \subseteq Oldest(g, k) /\ had[g] # Oldest(g, k)
  /\ had' = [had EXCEPT ![g] = Oldest(g, k)]
  /\ UNCHANGED listed

Keep ==
  /\ ok /\ ok'
  /\ \E g \in Groups : \/ \E m \in Ids : Others(g, m) \/ Own(g, m)
                       \/ \E k \in 1 .. Len(listed[g]) : Read(g, k)

(* From then on anything may happen. *)
GiveUp == ~ ok'

Next == Keep \/ GiveUp

Spec == Init /\ [][Next]_vars
=============================================================================
