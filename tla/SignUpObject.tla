---------------------------- MODULE SignUpObject ----------------------------
(***************************************************************************)
(* What createAccount promises its callers, whatever Redis commands it     *)
(* takes: a sign-up is one atomic claim of a login name.  Of all the calls *)
(* that ask for the same name exactly one is told TRUE until the name is   *)
(* released again.  A call may be lost with the process that runs it,      *)
(* before or after its claim took effect.                                  *)
(*                                                                         *)
(* Accounts.tla implements this object.                                    *)
(***************************************************************************)
CONSTANTS Threads, Logins,
          Refused       \* the names the store never accepts

VARIABLES taken,        \* the names that are claimed
          asked,        \* thread -> {l}: it has asked for l, {}: it has not
          won,          \* the threads whose pending call has been granted
          ret           \* thread -> result of its last call

vars == <<taken, asked, won, ret>>

TypeOK == /\ taken \subseteq Logins
          /\ asked \in [Threads -> SUBSET Logins]
          /\ won \subseteq Threads
          /\ ret \in [Threads -> {"none", "true", "false"}]

Init == /\ taken = {}
        /\ asked = [t \in Threads |-> {}]
        /\ won = {}
        /\ ret = [t \in Threads |-> "none"]

Invoke(t, l) == /\ asked[t] = {}
                /\ asked' = [asked EXCEPT ![t] = {l}]
                /\ UNCHANGED <<taken, won, ret>>

(* The instant at which a successful call takes effect. *)
Grant(t, l) == /\ asked[t] = {l}
               /\ t \notin won
               /\ l \notin taken \cup Refused
               /\ taken' = taken \cup {l}
               /\ won' = won \cup {t}
               /\ UNCHANGED <<asked, ret>>

ReturnTrue(t) == /\ t \in won
                 /\ won' = won \ {t}
                 /\ asked' = [asked EXCEPT ![t] = {}]
                 /\ ret' = [ret EXCEPT ![t] = "true"]
                 /\ UNCHANGED taken

ReturnFalse(t, l) == /\ asked[t] = {l}
                     /\ t \notin won
                     /\ l \in taken \cup Refused
                     /\ asked' = [asked EXCEPT ![t] = {}]
                     /\ ret' = [ret EXCEPT ![t] = "false"]
                     /\ UNCHANGED <<taken, won>>

Release(l) == /\ taken' = taken \ {l}
              /\ UNCHANGED <<asked, won, ret>>

(* The process dies: every pending call is forgotten, no claim is undone. *)
Lose == /\ asked' = [t \in Threads |-> {}]
        /\ won' = {}
        /\ UNCHANGED <<taken, ret>>

Next == \/ \E t \in Threads, l \in Logins :
              Invoke(t, l) \/ Grant(t, l) \/ ReturnFalse(t, l)
        \/ \E t \in Threads : ReturnTrue(t)
        \/ \E l \in Logins : Release(l)
        \/ Lose

Spec == Init /\ [][Next]_vars
=============================================================================
