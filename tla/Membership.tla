----------------------------- MODULE Membership -----------------------------
(***************************************************************************)
(* Groups and their members (RedisCommands.cpp 30-44, 160-196, 251-271,    *)
(* 354-363 and the handlers of RequestFunctions.cpp that call them).       *)
(*                                                                         *)
(* Membership is kept twice, by group (a sorted set) and by user (a set),  *)
(* and written by two Redis commands: the group's is what reading a        *)
(* message asks, the user's what posting one asks.  Requests carry user    *)
(* ids here: Accounts.tla is about where those come from.                  *)
(***************************************************************************)
EXTENDS Integers, FiniteSets

CONSTANTS Threads,    \* the threads that run handlers
          Users,      \* user ids
          MaxGroups,  \* bound: how far groupsCounter may count
          CanCrash    \* whether the server may die

ASSUME MembershipAssumption == MaxGroups \in Nat /\ CanCrash \in BOOLEAN

Groups == 1 .. MaxGroups
NoGroup == 0

VARIABLES
  (* in Redis *)
  groupsCounter,  \* groupsCounter
  groupadmins,    \* groups::g::groupadmins
  groupmembers,   \* groups::g::groupmembers, without the scores
  usergroups,     \* users::u::groups
  (* in the server process *)
  pc,             \* thread -> the next Redis command it issues
  call,           \* thread -> the request it serves
  group,          \* thread -> group_id of createNewGroup
  roster,         \* thread -> what getUsersByGroup returned
  (* history *)
  result,         \* thread -> what its last request was answered
  torn            \* the <<user, group>> a crash came upon half written

redis == <<groupsCounter, groupadmins, groupmembers, usergroups>>
process == <<pc, call, group, roster>>
vars == <<redis, process, result, torn>>

Named == {"sadmin", "zmember", "sgroup"}     \* createNewGroup has its group_id
NewPCs == {"incr"} \cup Named
ChangePCs == {"valid", "first", "second"}
ListPCs == {"zrange", "getadmins"}
PCs == {"idle"} \cup NewPCs \cup ChangePCs \cup ListPCs
Calls == [op : {"new", "add", "remove", "list"}, me : Users, user : Users, group : Groups \cup {NoGroup}]
NoCall == [op |-> "none"]

TypeOK ==
  /\ groupsCounter \in 0 .. MaxGroups
  /\ groupadmins \in [Groups -> SUBSET Users]
  /\ groupmembers \in [Groups -> SUBSET Users]
  /\ usergroups \in [Users -> SUBSET Groups]
  /\ pc \in [Threads -> PCs]
  /\ call \in [Threads -> Calls \cup {NoCall}]
  /\ group \in [Threads -> Groups \cup {NoGroup}]
  /\ roster \in [Threads -> SUBSET Users]
  /\ result \in [Threads -> {"none", "OK", "FAIL", "created", "listed"}]
  /\ torn \subseteq Users \X Groups

-----------------------------------------------------------------------------
(* Faulty variants of definitions below, one slip each, on which the       *)
(* properties are tried.                                                   *)

NextGroupOnce(n) == 1                    \* SET in the place of INCR
CreatorNotAdmin(u) == {}                 \* SADD groupadmins left out
AdminUnresolved(u) == {NoGroup}          \* the token not looked up
FirstDidItAlone(done) == "answer"        \* the second command left out

-----------------------------------------------------------------------------
Init ==
  /\ groupsCounter = 0
  /\ groupadmins = [g \in Groups |-> {}]
  /\ groupmembers = [g \in Groups |-> {}]
  /\ usergroups = [u \in Users |-> {}]
  /\ pc = [t \in Threads |-> "idle"]
  /\ call = [t \in Threads |-> NoCall]
  /\ group = [t \in Threads |-> NoGroup]
  /\ roster = [t \in Threads |-> {}]
  /\ result = [t \in Threads |-> "none"]
  /\ torn = {}

At(t, label) == pc[t] = label
Goto(t, label) == pc' = [pc EXCEPT ![t] = label]

Serve(t, request, label) ==
  /\ At(t, "idle")
  /\ call' = [call EXCEPT ![t] = request]
  /\ Goto(t, label)
  /\ UNCHANGED <<redis, group, roster, result, torn>>

Reply(t, answer) ==
  /\ result' = [result EXCEPT ![t] = answer]
  /\ Goto(t, "idle")
  /\ call' = [call EXCEPT ![t] = NoCall]
  /\ group' = [group EXCEPT ![t] = NoGroup]
  /\ roster' = [roster EXCEPT ![t] = {}]
  /\ UNCHANGED torn

(* An unknown token, an unknown login or a missing field. *)
RejectMalformed(t) == At(t, "idle") /\ UNCHANGED vars

-----------------------------------------------------------------------------
(* createNewGroup *)

Creating == {t \in Threads : pc[t] = "incr"}

StartNew(t, me) ==
  /\ groupsCounter + Cardinality(Creating) < MaxGroups
  /\ Serve(t, [op |-> "new", me |-> me, user |-> me, group |-> NoGroup], "incr")

NextGroup(n) == n + 1

IncrGroups(t) ==
  /\ At(t, "incr")
  /\ groupsCounter < MaxGroups
  /\ groupsCounter' = NextGroup(groupsCounter)
  /\ group' = [group EXCEPT ![t] = groupsCounter']
  /\ Goto(t, "sadmin")
  /\ UNCHANGED <<groupadmins, groupmembers, usergroups, call, roster, result, torn>>

FirstAdmins(u) == {u}

SAddAdmin(t) ==
  /\ At(t, "sadmin")
  /\ groupadmins' = [groupadmins EXCEPT ![group[t]] = @ \cup FirstAdmins(call[t].me)]
  /\ Goto(t, "zmember")
  /\ UNCHANGED <<groupsCounter, groupmembers, usergroups, call, group, roster, result, torn>>

(* ZADD groups::g::groupmembers "(null)" u: the score is an int 0 where    *)
(* vsprintf reads a char pointer (line 173).  That is no number to Redis,  *)
(* which refuses the command; its reply is not looked at.                  *)
FirstMembers(u) == {}

ZAddCreator(t) ==
  /\ At(t, "zmember")
  /\ groupmembers' = [groupmembers EXCEPT ![group[t]] = @ \cup FirstMembers(call[t].me)]
  /\ Goto(t, "sgroup")
  /\ UNCHANGED <<groupsCounter, groupadmins, usergroups, call, group, roster, result, torn>>

SAddGroup(t) ==
  /\ At(t, "sgroup")
  /\ usergroups' = [usergroups EXCEPT ![call[t].me] = @ \cup {group[t]}]
  /\ Reply(t, "created")
  /\ UNCHANGED <<groupsCounter, groupadmins, groupmembers>>

-----------------------------------------------------------------------------
(* addUserToGroup and removeUserFromGroup: two commands joined by &&.      *)

StartChange(t, op, me, u, g) ==
  Serve(t, [op |-> op, me |-> me, user |-> u, group |-> g], "valid")

Valid(t) ==
  /\ At(t, "valid")
  /\ \/ /\ call[t].me \in groupadmins[call[t].group]
        /\ Goto(t, "first")
        /\ UNCHANGED <<call, group, roster, result, torn>>
     \/ /\ call[t].me \notin groupadmins[call[t].group]
        /\ Reply(t, "FAIL")
  /\ UNCHANGED redis

(* The integer an SADD, SREM, ZADD or ZREM returns: did it change the set. *)
Changes(t, set, x) == IF call[t].op = "add" THEN x \notin set ELSE x \in set
Changed(t, set, x) == IF call[t].op = "add" THEN set \cup {x} ELSE set \ {x}

(* The second command is only issued when the first returned 1. *)
AfterFirst(done) == IF done THEN "second" ELSE "answer"

First(t) ==
  LET u == call[t].user
      g == call[t].group
      done == Changes(t, usergroups[u], g)
  IN  /\ At(t, "first")
      /\ usergroups' = [usergroups EXCEPT ![u] = Changed(t, @, g)]
      /\ \/ /\ AfterFirst(done) = "second"
            /\ Goto(t, "second")
            /\ UNCHANGED <<call, group, roster, result, torn>>
         \/ /\ AfterFirst(done) = "answer"
            /\ Reply(t, IF done THEN "OK" ELSE "FAIL")
      /\ UNCHANGED <<groupsCounter, groupadmins, groupmembers>>

Second(t) ==
  LET u == call[t].user
      g == call[t].group
  IN  /\ At(t, "second")
      /\ groupmembers' = [groupmembers EXCEPT ![g] = Changed(t, @, u)]
      /\ Reply(t, IF Changes(t, groupmembers[g], u) THEN "OK" ELSE "FAIL")
      /\ UNCHANGED <<groupsCounter, groupadmins, usergroups>>

-----------------------------------------------------------------------------
(* groupMembersHandle *)

StartList(t, me, g) ==
  Serve(t, [op |-> "list", me |-> me, user |-> me, group |-> g], "zrange")

ZRange(t) ==
  /\ At(t, "zrange")
  /\ LET found == groupmembers[call[t].group]
     IN  \/ /\ found # {}
            /\ roster' = [roster EXCEPT ![t] = found]
            /\ Goto(t, "getadmins")
            /\ UNCHANGED <<call, group, result, torn>>
         \/ found = {} /\ Reply(t, "listed")
  /\ UNCHANGED redis

(* getAdmins returns from inside the loop over the admins.  With none the  *)
(* function would end without a value, which is undefined; no state gets   *)
(* there (AdminAlwaysFound), so there is no step for it.                   *)
GetAdmins(t) ==
  /\ At(t, "getadmins")
  /\ groupadmins[call[t].group] # {}
  /\ Reply(t, "listed")
  /\ UNCHANGED redis

-----------------------------------------------------------------------------
(* The pairs a handler has written in one place and not yet in the other.  *)
HalfWritten ==
  {<<call[t].user, call[t].group>> : t \in {s \in Threads : pc[s] = "second"}}

Crash ==
  /\ CanCrash
  /\ torn' = torn \cup HalfWritten
  /\ pc' = [t \in Threads |-> "idle"]
  /\ call' = [t \in Threads |-> NoCall]
  /\ group' = [t \in Threads |-> NoGroup]
  /\ roster' = [t \in Threads |-> {}]
  /\ UNCHANGED <<redis, result>>

Start(t) == \E me \in Users :
               \/ StartNew(t, me)
               \/ \E g \in Groups : \/ StartList(t, me, g)
                                    \/ \E u \in Users, op \in {"add", "remove"} :
                                          StartChange(t, op, me, u, g)

NewStep(t) == IncrGroups(t) \/ SAddAdmin(t) \/ ZAddCreator(t) \/ SAddGroup(t)
ChangeStep(t) == Valid(t) \/ First(t) \/ Second(t)
ListStep(t) == ZRange(t) \/ GetAdmins(t)

Next == \/ \E t \in Threads : \/ Start(t) \/ RejectMalformed(t)
                              \/ NewStep(t) \/ ChangeStep(t) \/ ListStep(t)
        \/ Crash

Spec == Init /\ [][Next]_vars

-----------------------------------------------------------------------------
(* Properties *)

(* An id that createNewGroup has just counted has no admin, no member, no  *)
(* user that lists it, and is counted by no other handler.                 *)
FreshGroup ==
  \A t \in Threads : At(t, "sadmin") =>
    /\ groupadmins[group[t]] = {} /\ groupmembers[group[t]] = {}
    /\ \A u \in Users : group[t] \notin usergroups[u]
    /\ \A s \in Threads \ {t} : pc[s] \in Named => group[s] # group[t]

(* Whoever lists a member's group finds an admin: getAdmins, which has no  *)
(* value to return without one, is never asked in vain, and no user lists  *)
(* a group that nobody administers.  It rests on SADD groupadmins coming   *)
(* before SADD groups, and on admins alone letting others in.              *)
AdminAlwaysFound ==
  /\ \A t \in Threads : At(t, "getadmins") => groupadmins[call[t].group] # {}
  /\ \A g \in Groups : groupmembers[g] # {} => groupadmins[g] # {}
  /\ \A u \in Users : \A g \in usergroups[u] : groupadmins[g] # {}

(* On one thread the two records of a membership agree whenever no handler *)
(* is between them, but for the pairs that a crash left half written: a    *)
(* member lists the group, and who lists a group is a member or, not made  *)
(* one by createNewGroup, its admin.                                       *)
Agreement ==
  (\A t \in Threads : At(t, "idle")) =>
    \A u \in Users, g \in Groups : <<u, g>> \notin torn =>
       /\ u \in groupmembers[g] => g \in usergroups[u]
       /\ g \in usergroups[u] => u \in groupmembers[g] \cup groupadmins[g]

(* On one thread an add answered OK leaves a member, a remove answered OK  *)
(* none, in both records, however torn they were before.                   *)
OKMeansBoth ==
  [][\A t \in Threads :
       (First(t) \/ Second(t)) /\ pc'[t] = "idle" /\ result'[t] = "OK" =>
         LET u == call[t].user  g == call[t].group IN
            IF call[t].op = "add" THEN g \in usergroups'[u] /\ u \in groupmembers'[g]
            ELSE g \notin usergroups'[u] /\ u \notin groupmembers'[g]]_vars

(* What a comment says and the code does not do: "add group creator to     *)
(* admins and members" (RedisCommands.cpp 170).                            *)
CreatorIsMember ==
  \A t \in Threads : At(t, "sgroup") => call[t].me \in groupmembers[group[t]]

-----------------------------------------------------------------------------
(* The inductive invariants behind the properties (MembershipProofs.tla).  *)

GroupTypeInv ==
  /\ TypeOK
  /\ \A t \in Threads :
        /\ pc[t] # "idle" => call[t] \in Calls
        /\ pc[t] \in ChangePCs \cup ListPCs => call[t].group \in Groups
        /\ pc[t] \in Named => group[t] \in 1 .. groupsCounter

(* Admins come first and never go.  Only they let anyone in.               *)
AdminInv ==
  /\ AdminAlwaysFound
  /\ \A g \in Groups : groupadmins[g] # {} => g <= groupsCounter
  /\ \A t \in Threads :
        /\ pc[t] \in {"first", "second"} => groupadmins[call[t].group] # {}
        /\ pc[t] \in {"zmember", "sgroup"} => groupadmins[group[t]] # {}

FreshInv ==
  \A t \in Threads : At(t, "sadmin") =>
    /\ groupadmins[group[t]] = {}
    /\ \A s \in Threads \ {t} : pc[s] \in Named => group[s] # group[t]

(* On one thread: the pairs that neither a crash nor a running handler has *)
(* left half written agree; who is about to be made a member lists the     *)
(* group, who is about to cease to be one does not; a creator is an admin  *)
(* before the group is listed for him.                                     *)
AgreeInv ==
  /\ \A u \in Users, g \in Groups : <<u, g>> \notin torn \cup HalfWritten =>
        /\ u \in groupmembers[g] => g \in usergroups[u]
        /\ g \in usergroups[u] => u \in groupmembers[g] \cup groupadmins[g]
  /\ \A t \in Threads :
        /\ pc[t] = "second" => (call[t].op = "add" <=> call[t].group \in usergroups[call[t].user])
        /\ pc[t] \in {"zmember", "sgroup"} => call[t].me \in groupadmins[group[t]]
        /\ pc[t] \in ChangePCs => call[t].op \in {"add", "remove"}
=============================================================================
