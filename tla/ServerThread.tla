---------------------------- MODULE ServerThread ----------------------------
(***************************************************************************)
(* How a server comes up and ends (ServerThread.h, Server/main.cpp, the    *)
(* holders).  Several servers may be started on one machine, where there   *)
(* is one port to listen at and one Redis, which comes and goes.           *)
(*                                                                         *)
(* The main thread of a server starts its loops with std::async and waits  *)
(* for their futures, in the order of their start.  A loop makes its base, *)
(* connects to Redis and binds the port in the constructors of its holder, *)
(* which throw if they fail: the exception stays in the future until it is *)
(* got.  Only the destructor of ServerThread sets stop, after the loops:   *)
(* no loop returns.                                                        *)
(***************************************************************************)
EXTENDS Naturals

CONSTANT Servers       \* bound: the processes there are at one time

VARIABLES redis,       \* whether Redis runs
          main,        \* server -> what its main thread does
          vect,        \* server -> the futures it has pushed, a number
          loop,        \* server -> loop -> what the loop does
          redContext   \* server -> loop -> its connection to Redis

vars == <<redis, main, vect, loop, redContext>>

(* Faulty variant: the argument of the constructor is taken. *)
nthreads == 2

(* The member, whatever the argument is. *)
n_threads == 1
Loops == 0 .. n_threads - 1

TypeOK ==
  /\ redis \in BOOLEAN
  /\ main \in [Servers -> {"ended", "run", "get"}]
  /\ vect \in [Servers -> 0 .. n_threads]
  /\ loop \in [Servers -> [Loops -> {"none", "base", "connect", "bind", "dispatch", "threw"}]]
  /\ redContext \in [Servers -> [Loops -> {"none", "ok", "broken"}]]

Init ==
  /\ redis \in BOOLEAN
  /\ main = [p \in Servers |-> "ended"]
  /\ vect = [p \in Servers |-> 0]
  /\ loop = [p \in Servers |-> [i \in Loops |-> "none"]]
  /\ redContext = [p \in Servers |-> [i \in Loops |-> "none"]]

(* The end of a process: its connections and its port are closed. *)
Ends(p) ==
  /\ main' = [main EXCEPT ![p] = "ended"]
  /\ vect' = [vect EXCEPT ![p] = 0]
  /\ loop' = [loop EXCEPT ![p] = [i \in Loops |-> "none"]]
  /\ redContext' = [redContext EXCEPT ![p] = [i \in Loops |-> "none"]]
  /\ UNCHANGED redis

-----------------------------------------------------------------------------
(* The main thread *)

Start(p) ==
  /\ main[p] = "ended"
  /\ main' = [main EXCEPT ![p] = "run"]
  /\ UNCHANGED <<redis, vect, loop, redContext>>

(* Faulty variant: one loop too many. *)
OneMore(p) == vect[p] <= n_threads

More(p) == vect[p] < n_threads

Push(p) ==
  /\ main[p] = "run"
  /\ \/ /\ More(p)
        /\ loop' = [loop EXCEPT ![p][vect[p]] = "base"]
        /\ vect' = [vect EXCEPT ![p] = @ + 1]
        /\ UNCHANGED main
     \/ /\ ~ More(p)
        /\ main' = [main EXCEPT ![p] = "get"]
        /\ UNCHANGED <<loop, vect>>
  /\ UNCHANGED <<redis, redContext>>

(* fut.get() throws what the first loop has thrown; nobody catches it.     *)
Get(p) ==
  /\ main[p] = "get" /\ loop[p][0] = "threw"
  /\ Ends(p)

-----------------------------------------------------------------------------
(* A loop, dispatch *)

Goto(p, i, label) == loop' = [loop EXCEPT ![p][i] = label]

(* event_base_new may fail. *)
MakeBase(p, i) ==
  /\ loop[p][i] = "base"
  /\ Goto(p, i, "connect") \/ Goto(p, i, "threw")
  /\ UNCHANGED <<redis, main, vect, redContext>>

Connect(p, i) ==
  /\ loop[p][i] = "connect"
  /\ \/ /\ redis
        /\ Goto(p, i, "bind")
        /\ redContext' = [redContext EXCEPT ![p][i] = "ok"]
     \/ ~ redis /\ Goto(p, i, "threw") /\ UNCHANGED redContext
  /\ UNCHANGED <<redis, main, vect>>

(* The machine has one port to listen at, and it is taken while another    *)
(* loop listens.                                                           *)
PortFree == \A q \in Servers, j \in Loops : loop[q][j] # "dispatch"

(* The callbacks are set and the port is bound. The exception frees the    *)
(* connection.                                                             *)
Bind(p, i) ==
  /\ loop[p][i] = "bind"
  /\ \/ PortFree /\ Goto(p, i, "dispatch") /\ UNCHANGED redContext
     \/ /\ ~ PortFree
        /\ Goto(p, i, "threw")
        /\ redContext' = [redContext EXCEPT ![p][i] = "none"]
  /\ UNCHANGED <<redis, main, vect>>

(* A request that is served, or does not parse and needs no Redis.         *)
Serve(p, i) ==
  /\ loop[p][i] = "dispatch"
  /\ UNCHANGED vars

(* Faulty variant: a reply that is NULL is not read. *)
ReadsNothing(p, i) == Serve(p, i)

(* After its connection was lost every reply of Redis is NULL, also when   *)
(* Redis is there again; each handler reads the first.                     *)
ReadsNull(p, i) ==
  /\ loop[p][i] = "dispatch" /\ redContext[p][i] = "broken"
  /\ Ends(p)

-----------------------------------------------------------------------------
(* The machine *)

RedisStops ==
  /\ redis
  /\ redis' = FALSE
  /\ redContext' = [p \in Servers |-> [i \in Loops |->
                      IF redContext[p][i] = "ok" THEN "broken" ELSE redContext[p][i]]]
  /\ UNCHANGED <<main, vect, loop>>

RedisStarts ==
  /\ ~ redis
  /\ redis' = TRUE
  /\ UNCHANGED <<main, vect, loop, redContext>>

(* A server is killed, or a handler ends it. *)
Killed(p) == main[p] # "ended" /\ Ends(p)

-----------------------------------------------------------------------------
Main(p) == Push(p) \/ Get(p)
Holder(p, i) == MakeBase(p, i) \/ Connect(p, i) \/ Bind(p, i)

Next ==
  \/ \E p \in Servers : \/ Start(p) \/ Main(p) \/ Killed(p)
                        \/ \E i \in Loops : Holder(p, i) \/ Serve(p, i) \/ ReadsNull(p, i)
  \/ RedisStops \/ RedisStarts

Spec == Init /\ [][Next]_vars

(* Threads run. *)
FairSpec ==
  /\ Spec
  /\ \A p \in Servers : WF_vars(Main(p)) /\ \A i \in Loops : WF_vars(Holder(p, i))

-----------------------------------------------------------------------------
(* Properties *)

(* A failed start is seen: a server one of whose loops threw ends, instead *)
(* of staying with an exception nobody gets.                               *)
FailureEnds ==
  \A p \in Servers : (\E i \in Loops : loop[p][i] = "threw") ~> main[p] = "ended"

Serves == \E p \in Servers, i \in Loops : loop[p][i] = "dispatch" /\ redContext[p][i] = "ok"

(* From some time on no server is killed or fails to make its base. *)
Untroubled(p) == /\ Killed(p) => Get(p) \/ \E i \in Loops : ReadsNull(p, i)
                 /\ \A i \in Loops : MakeBase(p, i) => loop'[p][i] = "connect"

(* A Redis that was lost and is there again is served again: if it stays,  *)
(* servers are left alone, requests come and servers that ended are        *)
(* started again, one serves for good.  What it takes is that a server     *)
(* whose connection was lost ends and gives the port free: it never        *)
(* connects again.                                                         *)
Recovers ==
  /\ <>[]redis
  /\ <>[][\A p \in Servers : Untroubled(p)]_vars
  /\ \A p \in Servers : WF_vars(Start(p)) /\ \A i \in Loops : WF_vars(ReadsNull(p, i))
  => <>[]Serves
=============================================================================
