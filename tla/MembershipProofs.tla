-------------------------- MODULE MembershipProofs --------------------------
(***************************************************************************)
(* A group that anyone belongs to has an admin, and a new group is new,    *)
(* for any number of threads, users and groups, with crashes anywhere; on  *)
(* one thread the two records of a membership agree.                       *)
(***************************************************************************)
EXTENDS Membership, TLAPS

LEMMA GroupTypeInit == Init => GroupTypeInv
  BY MembershipAssumption DEF Init, GroupTypeInv, TypeOK, Groups, NoGroup, PCs, ChangePCs,
     ListPCs, NewPCs, Named

(* What a reply leaves of the handlers' state. *)
LEMMA ReplyStep ==
  ASSUME GroupTypeInv, NEW t \in Threads, NEW a \in {"OK", "FAIL", "created", "listed"},
         Reply(t, a)
  PROVE  /\ pc' = [pc EXCEPT ![t] = "idle"]
         /\ pc' \in [Threads -> PCs]
         /\ call' \in [Threads -> Calls \cup {NoCall}]
         /\ group' \in [Threads -> Groups \cup {NoGroup}]
         /\ roster' \in [Threads -> SUBSET Users]
         /\ result' \in [Threads -> {"none", "OK", "FAIL", "created", "listed"}]
         /\ torn' = torn
         /\ \A u \in Threads : pc'[u] # "idle" =>
               /\ pc'[u] = pc[u] /\ call'[u] = call[u] /\ group'[u] = group[u]
  BY DEF Reply, Goto, GroupTypeInv, TypeOK, PCs, NoGroup

LEMMA GroupTypeStep == GroupTypeInv /\ [Next]_vars => GroupTypeInv'
  <1> SUFFICES ASSUME GroupTypeInv, [Next]_vars
               PROVE  GroupTypeInv'
    OBVIOUS
  <1> USE DEF GroupTypeInv, TypeOK, PCs, NewPCs, ChangePCs, ListPCs, Named, redis, At, Goto
  <1>0. \A u \in Threads : pc[u] # "idle" => call[u].me \in Users /\ call[u].user \in Users
    BY DEF Calls
  <1>1. ASSUME NEW t \in Threads, Start(t)
        PROVE  GroupTypeInv'
    <2>1. ASSUME NEW request \in Calls, NEW label \in {"incr", "valid", "zrange"},
                 label # "incr" => request.group \in Groups, Serve(t, request, label)
          PROVE  GroupTypeInv'
      BY <2>1 DEF Serve
    <2>2. \A op \in {"new", "add", "remove", "list"}, m, u \in Users, g \in Groups \cup {NoGroup} :
             [op |-> op, me |-> m, user |-> u, group |-> g] \in Calls
      BY DEF Calls
    <2> QED
      BY <1>1, <2>1, <2>2 DEF Start, StartNew, StartChange, StartList
  <1>2. ASSUME NEW t \in Threads, IncrGroups(t)
        PROVE  GroupTypeInv'
    BY <1>2, MembershipAssumption DEF IncrGroups, NextGroup, Groups
  <1>3. ASSUME NEW t \in Threads, SAddAdmin(t)
        PROVE  GroupTypeInv'
    BY <1>0, <1>3 DEF SAddAdmin, FirstAdmins
  <1>4. ASSUME NEW t \in Threads, ZAddCreator(t)
        PROVE  GroupTypeInv'
    BY <1>0, <1>4 DEF ZAddCreator, FirstMembers
  <1>5. ASSUME NEW t \in Threads, SAddGroup(t)
        PROVE  GroupTypeInv'
    <2>1. group[t] \in Groups
      BY <1>5, MembershipAssumption DEF SAddGroup, Groups
    <2>2. usergroups' \in [Users -> SUBSET Groups]
      BY <1>0, <1>5, <2>1 DEF SAddGroup
    <2> QED
      BY <1>5, <2>2, ReplyStep DEF SAddGroup
  <1>6. ASSUME NEW t \in Threads, Valid(t)
        PROVE  GroupTypeInv'
    <2>1. CASE Reply(t, "FAIL")
      BY <1>6, <2>1, ReplyStep DEF Valid
    <2>2. CASE ~ Reply(t, "FAIL")
      BY <1>6, <2>2 DEF Valid
    <2> QED
      BY <2>1, <2>2
  <1>7. ASSUME NEW t \in Threads, First(t)
        PROVE  GroupTypeInv'
    <2> DEFINE done == Changes(t, usergroups[call[t].user], call[t].group)
    <2>1. usergroups' \in [Users -> SUBSET Groups]
      BY <1>0, <1>7 DEF First, Changed
    <2>2. CASE Reply(t, IF done THEN "OK" ELSE "FAIL")
      BY <1>7, <2>1, <2>2, ReplyStep DEF First
    <2>3. CASE ~ Reply(t, IF done THEN "OK" ELSE "FAIL")
      BY <1>7, <2>1, <2>3 DEF First
    <2> QED
      BY <2>2, <2>3
  <1>8. ASSUME NEW t \in Threads, Second(t)
        PROVE  GroupTypeInv'
    <2>1. groupmembers' \in [Groups -> SUBSET Users]
      BY <1>0, <1>8 DEF Second, Changed
    <2> QED
      BY <1>8, <2>1, ReplyStep DEF Second
  <1>9. ASSUME NEW t \in Threads, ZRange(t)
        PROVE  GroupTypeInv'
    <2>1. CASE Reply(t, "listed")
      BY <1>9, <2>1, ReplyStep DEF ZRange
    <2>2. CASE ~ Reply(t, "listed")
      BY <1>9, <2>2 DEF ZRange
    <2> QED
      BY <2>1, <2>2
  <1>10. ASSUME NEW t \in Threads, GetAdmins(t)
         PROVE  GroupTypeInv'
    BY <1>10, ReplyStep DEF GetAdmins
  <1>11. CASE Crash
    <2>1. HalfWritten \subseteq Users \X Groups
      BY <1>0, MembershipAssumption DEF HalfWritten, Groups
    <2> QED
      BY <1>11, <2>1 DEF Crash, NoGroup
  <1>12. CASE UNCHANGED vars
    BY <1>12 DEF vars, process
  <1> QED
    BY <1>1, <1>2, <1>3, <1>4, <1>5, <1>6, <1>7, <1>8, <1>9, <1>10, <1>11, <1>12
    DEF Next, NewStep, ChangeStep, ListStep, RejectMalformed

(* Every variable keeps its type; a counted group id is at most the counter. *)
THEOREM GroupTyping == Spec => [](GroupTypeInv /\ TypeOK)
  <1>1. GroupTypeInv => TypeOK
    BY DEF GroupTypeInv
  <1> QED
    BY GroupTypeInit, GroupTypeStep, <1>1, PTL DEF Spec

-----------------------------------------------------------------------------
(* What a step leaves alone that writes neither admins nor memberships.    *)
GroupFrame ==
  /\ UNCHANGED redis
  /\ \A t \in Threads : pc'[t] \in Named \cup {"first", "second", "getadmins"} =>
        pc'[t] = pc[t] /\ call'[t] = call[t] /\ group'[t] = group[t]

LEMMA GroupQuietStep ==
  ASSUME GroupTypeInv, NEW t \in Threads, Start(t) \/ GetAdmins(t)
  PROVE  GroupFrame
  <1> USE DEF GroupFrame, Named, Goto, At
  <1>1. CASE Start(t)
    <2>1. ASSUME NEW request, NEW label \in {"incr", "valid", "zrange"}, Serve(t, request, label)
          PROVE  GroupFrame
      BY <2>1 DEF Serve, GroupTypeInv, TypeOK
    <2> QED
      BY <1>1, <2>1 DEF Start, StartNew, StartChange, StartList
  <1>2. CASE GetAdmins(t)
    BY <1>2, ReplyStep DEF GetAdmins
  <1> QED
    BY <1>1, <1>2

LEMMA AdminInit == Init => AdminInv /\ FreshInv
  BY DEF Init, AdminInv, FreshInv, AdminAlwaysFound, At

(* While an id is fresh nobody belongs to its group.                       *)
LEMMA AdminStep ==
  GroupTypeInv /\ GroupTypeInv' /\ AdminInv /\ FreshInv /\ [Next]_vars => AdminInv' /\ FreshInv'
  <1> SUFFICES ASSUME GroupTypeInv, GroupTypeInv', AdminInv, FreshInv, [Next]_vars
               PROVE  AdminInv' /\ FreshInv'
    OBVIOUS
  <1> USE DEF AdminInv, FreshInv, AdminAlwaysFound, Named, At
  <1>0. /\ \A u \in Threads : /\ pc[u] # "idle" => call[u].me \in Users /\ call[u].user \in Users
                              /\ pc[u] \in ChangePCs \cup ListPCs => call[u].group \in Groups
                              /\ pc[u] \in Named => /\ group[u] \in Groups
                                                   /\ group[u] <= groupsCounter
        /\ groupsCounter \in Nat
    BY MembershipAssumption DEF Calls, GroupTypeInv, TypeOK, Groups
  <1>a. ASSUME GroupFrame
        PROVE  AdminInv' /\ FreshInv'
    BY <1>a DEF GroupFrame, redis
  <1>2. ASSUME NEW t \in Threads, IncrGroups(t)
        PROVE  AdminInv' /\ FreshInv'
    <2>1. /\ groupsCounter' = groupsCounter + 1 /\ group'[t] = groupsCounter + 1
          /\ \A u \in Threads \ {t} : pc'[u] = pc[u] /\ group'[u] = group[u]
          /\ pc'[t] = "sadmin"
          /\ group'[t] \in Groups
          /\ UNCHANGED <<groupadmins, groupmembers, usergroups, call>>
      BY <1>2, <1>0, MembershipAssumption
      DEF IncrGroups, NextGroup, Goto, GroupTypeInv, TypeOK, Groups
    <2>2. groupadmins[groupsCounter + 1] = {}
      BY <1>0, <2>1
    <2>3. FreshInv'
      BY <1>0, <2>1, <2>2
    <2>4. \A g \in Groups : groupadmins'[g] # {} => g <= groupsCounter'
      BY <1>0, <2>1 DEF Groups
    <2>5. AdminInv'
      BY <2>1, <2>4
    <2> QED
      BY <2>3, <2>5
  <1>3. ASSUME NEW t \in Threads, SAddAdmin(t)
        PROVE  AdminInv' /\ FreshInv'
    <2>1. /\ groupadmins' = [groupadmins EXCEPT ![group[t]] = @ \cup {call[t].me}]
          /\ pc[t] = "sadmin" /\ pc' = [pc EXCEPT ![t] = "zmember"]
          /\ UNCHANGED <<groupsCounter, groupmembers, usergroups, call, group>>
      BY <1>3 DEF SAddAdmin, FirstAdmins, Goto
    <2>2. \A g \in Groups : groupadmins[g] # {} => groupadmins'[g] # {}
      BY <2>1 DEF GroupTypeInv, TypeOK
    <2>3. groupadmins'[group[t]] # {}
      BY <1>0, <2>1 DEF GroupTypeInv, TypeOK
    <2>4. \A g \in Groups : g # group[t] => groupadmins'[g] = groupadmins[g]
      BY <2>1 DEF GroupTypeInv, TypeOK
    <2>5. \A u \in Threads : u # t => pc'[u] = pc[u]
      BY <2>1 DEF GroupTypeInv, TypeOK
    <2>6. FreshInv'
      BY <1>0, <2>1, <2>4, <2>5 DEF GroupTypeInv, TypeOK
    <2>7. AdminAlwaysFound'
      BY <1>0, <2>1, <2>2, <2>5 DEF GroupTypeInv, TypeOK, ListPCs
    <2>8. \A g \in Groups : groupadmins'[g] # {} => g <= groupsCounter'
      BY <1>0, <2>1, <2>4
    <2>9. \A u \in Threads :
            /\ pc'[u] \in {"first", "second"} => groupadmins'[call'[u].group] # {}
            /\ pc'[u] \in {"zmember", "sgroup"} => groupadmins'[group'[u]] # {}
      <3>1. pc'[t] = "zmember"
        BY <2>1 DEF GroupTypeInv, TypeOK
      <3>2. \A u \in Threads \ {t} : pc[u] \in {"zmember", "sgroup"} => groupadmins'[group[u]] # {}
        BY <1>0, <2>2 DEF GroupTypeInv, TypeOK
      <3>3. \A u \in Threads \ {t} :
               pc[u] \in {"first", "second"} => groupadmins'[call[u].group] # {}
        BY <1>0, <2>2 DEF GroupTypeInv, TypeOK, ChangePCs
      <3> QED
        BY <2>1, <2>3, <2>5, <3>1, <3>2, <3>3
    <2> QED
      BY <2>6, <2>7, <2>8, <2>9
  <1>4. ASSUME NEW t \in Threads, ZAddCreator(t)
        PROVE  AdminInv' /\ FreshInv'
    BY <1>4, <1>0 DEF ZAddCreator, FirstMembers, Goto, GroupTypeInv, TypeOK
  <1>5. ASSUME NEW t \in Threads, SAddGroup(t)
        PROVE  AdminInv' /\ FreshInv'
    <2>1. /\ call[t].me \in Users /\ group[t] \in Groups /\ groupadmins[group[t]] # {}
          /\ UNCHANGED <<groupsCounter, groupadmins, groupmembers>>
      BY <1>5, <1>0 DEF SAddGroup
    <2>2. \A u \in Users : usergroups'[u] \subseteq usergroups[u] \cup {group[t]}
      BY <1>5, <2>1 DEF SAddGroup, GroupTypeInv, TypeOK
    <2>3. \A u \in Threads : pc'[u] # "idle" =>
             pc'[u] = pc[u] /\ call'[u] = call[u] /\ group'[u] = group[u]
      BY <1>5, ReplyStep DEF SAddGroup
    <2> QED
      BY <2>1, <2>2, <2>3
  <1>6. ASSUME NEW t \in Threads, Valid(t)
        PROVE  AdminInv' /\ FreshInv'
    <2>1. CASE Reply(t, "FAIL")
      BY <1>6, <1>a, <2>1, ReplyStep DEF Valid, GroupFrame
    <2>2. CASE ~ Reply(t, "FAIL")
      <3>1. /\ groupadmins[call[t].group] # {}
            /\ pc' = [pc EXCEPT ![t] = "first"]
            /\ UNCHANGED <<redis, call, group>>
        BY <1>6, <2>2 DEF Valid, Goto
      <3>2. \A u \in Threads : IF u = t THEN pc'[u] = "first" ELSE pc'[u] = pc[u]
        BY <3>1 DEF GroupTypeInv, TypeOK
      <3> QED
        BY <3>1, <3>2 DEF redis
    <2> QED
      BY <2>1, <2>2
  <1>7. ASSUME NEW t \in Threads, First(t)
        PROVE  AdminInv' /\ FreshInv'
    <2> DEFINE u0 == call[t].user
               g0 == call[t].group
               done == Changes(t, usergroups[u0], g0)
    <2>1. /\ pc[t] = "first" /\ u0 \in Users /\ g0 \in Groups /\ groupadmins[g0] # {}
          /\ UNCHANGED <<groupsCounter, groupadmins, groupmembers>>
      BY <1>7, <1>0 DEF First, ChangePCs
    <2>2. \A u \in Users : usergroups'[u] \subseteq usergroups[u] \cup {g0}
      BY <1>7, <2>1 DEF First, Changed, GroupTypeInv, TypeOK
    <2>3. \A u \in Threads : pc'[u] \in Named \cup {"first", "second", "getadmins"} =>
             /\ pc'[u] = pc[u] \/ (pc'[u] = "second" /\ pc[u] = "first")
             /\ call'[u] = call[u] /\ group'[u] = group[u]
      <3>1. CASE Reply(t, IF done THEN "OK" ELSE "FAIL")
        BY <3>1, ReplyStep
      <3>2. CASE ~ Reply(t, IF done THEN "OK" ELSE "FAIL")
        BY <1>7, <3>2 DEF First, Goto, GroupTypeInv, TypeOK
      <3> QED
        BY <3>1, <3>2
    <2> QED
      BY <2>1, <2>2, <2>3
  <1>8. ASSUME NEW t \in Threads, Second(t)
        PROVE  AdminInv' /\ FreshInv'
    <2> DEFINE g0 == call[t].group
    <2>1. /\ g0 \in Groups /\ groupadmins[g0] # {}
          /\ UNCHANGED <<groupsCounter, groupadmins, usergroups>>
      BY <1>8, <1>0 DEF Second, ChangePCs
    <2>2. \A g \in Groups : g # g0 => groupmembers'[g] = groupmembers[g]
      BY <1>8, <2>1 DEF Second, GroupTypeInv, TypeOK
    <2>3. \A u \in Threads : pc'[u] # "idle" =>
             pc'[u] = pc[u] /\ call'[u] = call[u] /\ group'[u] = group[u]
      BY <1>8, ReplyStep DEF Second
    <2> QED
      BY <2>1, <2>2, <2>3
  <1>9. ASSUME NEW t \in Threads, ZRange(t)
        PROVE  AdminInv' /\ FreshInv'
    <2>1. CASE Reply(t, "listed")
      BY <1>9, <1>a, <2>1, ReplyStep DEF ZRange, GroupFrame
    <2>2. CASE ~ Reply(t, "listed")
      BY <1>9, <1>0, <2>2 DEF ZRange, Goto, redis, GroupTypeInv, TypeOK, ListPCs
    <2> QED
      BY <2>1, <2>2
  <1>10. CASE Crash
    BY <1>10, <1>a DEF Crash, GroupFrame
  <1>11. CASE UNCHANGED vars
    BY <1>11, <1>a DEF vars, process, GroupFrame
  <1> QED
    BY <1>a, <1>2, <1>3, <1>4, <1>5, <1>6, <1>7, <1>8, <1>9, <1>10, <1>11, GroupQuietStep
    DEF Next, NewStep, ChangeStep, ListStep, RejectMalformed

(* getAdmins is never asked for a group without an admin.                  *)
THEOREM AdminFound == Spec => []AdminAlwaysFound
  <1>1. AdminInv => AdminAlwaysFound
    BY DEF AdminInv
  <1> QED
    BY GroupTyping, AdminInit, AdminStep, <1>1, PTL DEF Spec

(* An id that createNewGroup has just counted names nobody's group yet.    *)
THEOREM NewGroupIsFresh == Spec => []FreshGroup
  <1>1. ASSUME GroupTypeInv, AdminInv, FreshInv
        PROVE  FreshGroup
    <2>1. \A t \in Threads : At(t, "sadmin") => group[t] \in Groups /\ groupadmins[group[t]] = {}
      BY <1>1, MembershipAssumption
      DEF FreshInv, GroupTypeInv, TypeOK, Groups, Named, At
    <2> QED
      BY <1>1, <2>1 DEF FreshGroup, FreshInv, AdminInv, AdminAlwaysFound
  <1> QED
    BY GroupTyping, AdminInit, AdminStep, <1>1, PTL DEF Spec

-----------------------------------------------------------------------------
(* Both records of a membership, on one thread *)

OneThread == \A s, t \in Threads : s = t

Agree(u, g) == /\ u \in groupmembers[g] => g \in usergroups[u]
               /\ g \in usergroups[u] => u \in groupmembers[g] \cup groupadmins[g]

(* What a step leaves that neither writes a set nor is between two writes. *)
AgreeFrame ==
  /\ UNCHANGED <<redis, torn>>
  /\ \A t \in Threads :
        /\ pc'[t] \in {"zmember", "sgroup", "second"} \/ pc[t] = "second" =>
              pc'[t] = pc[t] /\ call'[t] = call[t] /\ group'[t] = group[t]
        /\ pc'[t] \in ChangePCs =>
              call'[t].op \in {"add", "remove"}

LEMMA AgreeFrameStep == GroupTypeInv /\ AgreeInv /\ AgreeFrame => AgreeInv'
  <1> SUFFICES ASSUME GroupTypeInv, AgreeInv, AgreeFrame
               PROVE  AgreeInv'
    OBVIOUS
  <1>1. HalfWritten' = HalfWritten
    BY DEF AgreeFrame, HalfWritten
  <1> QED
    BY <1>1 DEF AgreeInv, AgreeFrame, redis

LEMMA AgreeQuiet ==
  ASSUME GroupTypeInv, AgreeInv, NEW t \in Threads,
         Start(t) \/ IncrGroups(t) \/ Valid(t) \/ ListStep(t)
  PROVE  AgreeFrame \/ IncrGroups(t)
  <1> USE DEF GroupTypeInv, TypeOK, redis, At, Goto, ChangePCs
  <1>0. \A u \in Threads : pc[u] \in ChangePCs => call[u].op \in {"add", "remove"}
    BY DEF AgreeInv
  <1>a. ASSUME NEW a \in {"OK", "FAIL", "created", "listed"}, Reply(t, a), UNCHANGED redis,
               pc[t] # "second"
        PROVE  AgreeFrame
    BY <1>0, <1>a, ReplyStep DEF AgreeFrame
  <1>1. CASE Start(t)
    <2>1. ASSUME NEW request, NEW label \in {"incr", "valid", "zrange"}, Serve(t, request, label),
                 label = "valid" => request.op \in {"add", "remove"}
          PROVE  AgreeFrame
      BY <1>0, <2>1 DEF Serve, AgreeFrame
    <2> QED
      BY <1>1, <2>1 DEF Start, StartNew, StartChange, StartList
  <1>2. CASE Valid(t)
    <2>1. CASE Reply(t, "FAIL")
      BY <1>2, <1>a, <2>1 DEF Valid
    <2>2. CASE ~ Reply(t, "FAIL")
      BY <1>0, <1>2, <2>2 DEF Valid, AgreeFrame
    <2> QED
      BY <2>1, <2>2
  <1>3. CASE ZRange(t)
    <2>1. CASE Reply(t, "listed")
      BY <1>3, <1>a, <2>1 DEF ZRange
    <2>2. CASE ~ Reply(t, "listed")
      BY <1>0, <1>3, <2>2 DEF ZRange, AgreeFrame
    <2> QED
      BY <2>1, <2>2
  <1>4. CASE GetAdmins(t)
    BY <1>4, <1>a DEF GetAdmins
  <1> QED
    BY <1>1, <1>2, <1>3, <1>4 DEF ListStep

LEMMA AgreeInit == Init => AgreeInv
  BY DEF Init, AgreeInv, ChangePCs

(* A pair agrees again when the second command has been run, however torn  *)
(* it was; while the commands are apart it counts as half written.         *)
LEMMA AgreeStep ==
  ASSUME OneThread
  PROVE  GroupTypeInv /\ AgreeInv /\ [Next]_vars => AgreeInv'
  <1> SUFFICES ASSUME GroupTypeInv, AgreeInv, [Next]_vars
               PROVE  AgreeInv'
    OBVIOUS
  <1>0. \A u \in Threads : /\ pc[u] # "idle" => call[u].me \in Users /\ call[u].user \in Users
                           /\ pc[u] \in ChangePCs => call[u].group \in Groups
                           /\ pc[u] \in Named => group[u] \in Groups
    BY MembershipAssumption DEF Calls, GroupTypeInv, TypeOK, Groups
  <1>b. \A t, u \in Threads : u = t
    BY DEF OneThread
  <1>c. \A t \in Threads : HalfWritten =
           IF pc[t] = "second" THEN {<<call[t].user, call[t].group>>} ELSE {}
    BY <1>b DEF HalfWritten
  <1>d. \A t \in Threads : HalfWritten' =
           IF pc'[t] = "second" THEN {<<call'[t].user, call'[t].group>>} ELSE {}
    BY <1>b DEF HalfWritten
  <1>e. \A u \in Users, g \in Groups : <<u, g>> \notin torn \cup HalfWritten => Agree(u, g)
    BY DEF AgreeInv, Agree
  <1>f. ASSUME \A u \in Users, g \in Groups : <<u, g>> \notin torn' \cup HalfWritten' => Agree(u, g)',
               NEW t \in Threads, pc'[t] \notin ChangePCs \cup {"zmember", "sgroup"}
        PROVE  AgreeInv'
    BY <1>b, <1>f DEF AgreeInv, Agree, ChangePCs
  <1>1. ASSUME NEW t \in Threads, IncrGroups(t)
        PROVE  AgreeInv'
    <2>1. /\ pc'[t] = "sadmin" /\ pc[t] = "incr"
          /\ UNCHANGED <<groupadmins, groupmembers, usergroups, torn>>
      BY <1>1 DEF IncrGroups, At, Goto, GroupTypeInv, TypeOK
    <2> QED
      BY <1>c, <1>d, <1>e, <1>f, <2>1 DEF Agree, ChangePCs
  <1>2. ASSUME NEW t \in Threads, SAddAdmin(t)
        PROVE  AgreeInv'
    <2>1. /\ pc[t] = "sadmin" /\ pc'[t] = "zmember" /\ call' = call /\ group' = group
          /\ groupadmins' = [groupadmins EXCEPT ![group[t]] = @ \cup {call[t].me}]
          /\ UNCHANGED <<groupmembers, usergroups, torn>>
      BY <1>2 DEF SAddAdmin, FirstAdmins, At, Goto, GroupTypeInv, TypeOK
    <2>2. group[t] \in Groups /\ call[t].me \in groupadmins'[group[t]]
      BY <1>0, <2>1 DEF Named, GroupTypeInv, TypeOK
    <2>3. \A g \in Groups : groupadmins[g] \subseteq groupadmins'[g]
      BY <2>1, <2>2 DEF GroupTypeInv, TypeOK
    <2>4. \A u \in Users, g \in Groups : <<u, g>> \notin torn' \cup HalfWritten' => Agree(u, g)'
      BY <1>c, <1>d, <1>e, <2>1, <2>3 DEF Agree
    <2> QED
      BY <1>b, <2>1, <2>2, <2>4 DEF AgreeInv, Agree, ChangePCs
  <1>3. ASSUME NEW t \in Threads, ZAddCreator(t)
        PROVE  AgreeInv'
    <2>1. /\ pc[t] = "zmember" /\ pc'[t] = "sgroup" /\ group[t] \in Groups
          /\ call' = call /\ group' = group
          /\ groupmembers' = [groupmembers EXCEPT ![group[t]] = @ \cup {}]
          /\ UNCHANGED <<groupadmins, usergroups, torn>>
      BY <1>0, <1>3 DEF ZAddCreator, FirstMembers, Named, At, Goto, GroupTypeInv, TypeOK
    <2>2. groupmembers' = groupmembers
      BY <2>1 DEF GroupTypeInv, TypeOK
    <2>3. \A u \in Users, g \in Groups : <<u, g>> \notin torn' \cup HalfWritten' => Agree(u, g)'
      BY <1>c, <1>d, <1>e, <2>1, <2>2 DEF Agree
    <2> QED
      BY <1>b, <2>1, <2>2, <2>3 DEF AgreeInv, Agree, ChangePCs
  <1>4. ASSUME NEW t \in Threads, SAddGroup(t)
        PROVE  AgreeInv'
    <2>1. /\ pc[t] = "sgroup" /\ pc'[t] = "idle" /\ torn' = torn
          /\ group[t] \in Groups /\ call[t].me \in Users
          /\ call[t].me \in groupadmins[group[t]]
          /\ usergroups' = [usergroups EXCEPT ![call[t].me] = @ \cup {group[t]}]
          /\ UNCHANGED <<groupadmins, groupmembers>>
      BY <1>0, <1>4 DEF SAddGroup, Reply, Named, At, Goto, AgreeInv, GroupTypeInv, TypeOK
    <2>2. \A u \in Users, g \in Groups :
             g \in usergroups'[u] <=> g \in usergroups[u] \/ (u = call[t].me /\ g = group[t])
      BY <2>1 DEF GroupTypeInv, TypeOK
    <2>3. \A u \in Users, g \in Groups : <<u, g>> \notin torn' \cup HalfWritten' => Agree(u, g)'
      BY <1>c, <1>d, <1>e, <2>1, <2>2 DEF Agree
    <2> QED
      BY <1>f, <2>1, <2>3 DEF ChangePCs
  <1>5. ASSUME NEW t \in Threads, First(t)
        PROVE  AgreeInv'
    <2> DEFINE u0 == call[t].user
               g0 == call[t].group
               done == Changes(t, usergroups[u0], g0)
    <2>1. /\ pc[t] = "first" /\ u0 \in Users /\ g0 \in Groups /\ call[t].op \in {"add", "remove"}
          /\ usergroups' = [usergroups EXCEPT ![u0] = Changed(t, @, g0)]
          /\ torn' = torn /\ UNCHANGED <<groupadmins, groupmembers>>
      BY <1>0, <1>5 DEF First, Reply, At, ChangePCs, AgreeInv
    <2>2. \A u \in Users, g \in Groups : <<u, g>> # <<u0, g0>> =>
             (g \in usergroups'[u] <=> g \in usergroups[u])
      BY <2>1 DEF Changed, GroupTypeInv, TypeOK
    <2>3. g0 \in usergroups'[u0] <=> call[t].op = "add"
      BY <2>1 DEF Changed, GroupTypeInv, TypeOK
    <2>4. CASE done
      <3>1. pc'[t] = "second" /\ call' = call
        BY <1>5, <2>4 DEF First, AfterFirst, Goto, GroupTypeInv, TypeOK
      <3>2. \A u \in Users, g \in Groups : <<u, g>> \notin torn' \cup HalfWritten' => Agree(u, g)'
        BY <1>c, <1>d, <1>e, <2>1, <2>2, <3>1 DEF Agree
      <3> QED
        BY <1>b, <2>1, <2>3, <3>1, <3>2 DEF AgreeInv, Agree, ChangePCs
    <2>5. CASE ~ done
      <3>1. pc'[t] = "idle"
        BY <1>5, <2>5 DEF First, AfterFirst, Reply, Goto, GroupTypeInv, TypeOK
      <3>2. g0 \in usergroups'[u0] <=> g0 \in usergroups[u0]
        BY <2>1, <2>3, <2>5 DEF Changes
      <3>3. \A u \in Users, g \in Groups : <<u, g>> \notin torn' \cup HalfWritten' => Agree(u, g)'
        BY <1>c, <1>d, <1>e, <2>1, <2>2, <3>1, <3>2 DEF Agree
      <3> QED
        BY <1>f, <3>1, <3>3 DEF ChangePCs
    <2> QED
      BY <2>4, <2>5
  <1>6. ASSUME NEW t \in Threads, Second(t)
        PROVE  AgreeInv'
    <2> DEFINE u0 == call[t].user
               g0 == call[t].group
    <2>1. /\ pc[t] = "second" /\ pc'[t] = "idle" /\ u0 \in Users /\ g0 \in Groups
          /\ groupmembers' = [groupmembers EXCEPT ![g0] = Changed(t, @, u0)]
          /\ torn' = torn /\ UNCHANGED <<groupadmins, usergroups>>
          /\ (call[t].op = "add" <=> g0 \in usergroups[u0])
      BY <1>0, <1>6 DEF Second, Reply, At, Goto, ChangePCs, AgreeInv, GroupTypeInv, TypeOK
    <2>2. \A u \in Users, g \in Groups : <<u, g>> # <<u0, g0>> =>
             (u \in groupmembers'[g] <=> u \in groupmembers[g])
      BY <2>1 DEF Changed, GroupTypeInv, TypeOK
    <2>3. u0 \in groupmembers'[g0] <=> g0 \in usergroups[u0]
      BY <2>1 DEF Changed, GroupTypeInv, TypeOK
    <2>4. \A u \in Users, g \in Groups : u = u0 /\ g = g0 => Agree(u, g)'
      BY <2>1, <2>3 DEF Agree
    <2>5. \A u \in Users, g \in Groups : <<u, g>> # <<u0, g0>> /\ <<u, g>> \notin torn' =>
             Agree(u, g)'
      BY <1>c, <1>e, <2>1, <2>2 DEF Agree
    <2> QED
      BY <1>f, <2>1, <2>4, <2>5 DEF ChangePCs
  <1>7. CASE Crash
    <2>1. UNCHANGED redis /\ torn' = torn \cup HalfWritten /\ \A t \in Threads : pc'[t] = "idle"
      BY <1>7 DEF Crash
    <2> QED
      BY <2>1, <1>e DEF AgreeInv, Agree, redis, ChangePCs
  <1>8. CASE UNCHANGED vars
    <2>1. AgreeFrame
      BY <1>8 DEF vars, process, redis, AgreeFrame, AgreeInv
    <2> QED
      BY <2>1, AgreeFrameStep
  <1> QED
    BY <1>1, <1>2, <1>3, <1>4, <1>5, <1>6, <1>7, <1>8, AgreeQuiet, AgreeFrameStep
    DEF Next, NewStep, ChangeStep, RejectMalformed

(* On one thread the two records of a membership agree, but for the pairs  *)
(* that a crash left half written (RedisCommands.cpp 180-196).             *)
THEOREM RecordsAgree ==
  ASSUME OneThread
  PROVE  Spec => []Agreement
  <1>1. AgreeInv => Agreement
    BY DEF AgreeInv, Agreement, HalfWritten, At
  <1>2. GroupTypeInv /\ AgreeInv /\ [Next]_vars => AgreeInv'
    BY AgreeStep
  <1> QED
    BY GroupTyping, AgreeInit, <1>1, <1>2, PTL DEF Spec

(* On one thread an answer OK is true of both records, whatever a crash    *)
(* had left of the pair before (RedisCommands.cpp 180-196).                *)
THEOREM OKIsBoth ==
  ASSUME OneThread
  PROVE  Spec => OKMeansBoth
  <1>1. ASSUME GroupTypeInv, AgreeInv, NEW t \in Threads, First(t) \/ Second(t),
               pc'[t] = "idle", result'[t] = "OK"
        PROVE  IF call[t].op = "add"
               THEN /\ call[t].group \in usergroups'[call[t].user]
                    /\ call[t].user \in groupmembers'[call[t].group]
               ELSE /\ call[t].group \notin usergroups'[call[t].user]
                    /\ call[t].user \notin groupmembers'[call[t].group]
    <2>1. CASE First(t)
      <3> DEFINE done == Changes(t, usergroups[call[t].user], call[t].group)
      <3>1. done => pc'[t] = "second"
        BY <1>1, <2>1 DEF First, AfterFirst, Goto, GroupTypeInv, TypeOK
      <3>2. ~ done => result'[t] = "FAIL"
        BY <1>1, <2>1 DEF First, AfterFirst, Reply, GroupTypeInv, TypeOK
      <3> QED
        BY <1>1, <3>1, <3>2
    <2>2. CASE Second(t)
      <3>1. /\ call[t].user \in Users /\ call[t].group \in Groups
            /\ (call[t].op = "add" <=> call[t].group \in usergroups[call[t].user])
            /\ usergroups' = usergroups
            /\ groupmembers' = [groupmembers EXCEPT ![call[t].group] = Changed(t, @, call[t].user)]
        BY <1>1, <2>2 DEF Second, At, AgreeInv, GroupTypeInv, Calls, ChangePCs
      <3>2. call[t].user \in groupmembers'[call[t].group] <=> call[t].op = "add"
        BY <1>1, <3>1 DEF Changed, GroupTypeInv, TypeOK
      <3> QED
        BY <3>1, <3>2
    <2> QED
      BY <1>1, <2>1, <2>2
  <1>2. GroupTypeInv /\ AgreeInv /\ [Next]_vars => AgreeInv'
    BY AgreeStep
  <1>3. GroupTypeInv /\ AgreeInv =>
          [\A t \in Threads :
             (First(t) \/ Second(t)) /\ pc'[t] = "idle" /\ result'[t] = "OK" =>
               LET u == call[t].user  g == call[t].group IN
                  IF call[t].op = "add" THEN g \in usergroups'[u] /\ u \in groupmembers'[g]
                  ELSE g \notin usergroups'[u] /\ u \notin groupmembers'[g]]_vars
    BY <1>1
  <1> QED
    BY GroupTyping, AgreeInit, <1>2, <1>3, PTL DEF Spec, OKMeansBoth
=============================================================================
