------------------------------ MODULE Contacts ------------------------------
(***************************************************************************)
(* One client's table of groups and their members                          *)
(* (src/Client_QML/sqlcontactmodel.cpp), the requests that fill it         *)
(* (serverconnector.cpp) and the handlers that answer them                 *)
(* (RequestFunctions.cpp 86-90, 157-161, 185-241).                         *)
(*                                                                         *)
(* Two models share the table, each with a selection of its own: that of   *)
(* the list of groups, and that of the page on which one group's members   *)
(* are changed.  Both only ever look at their row 0.  A row is written     *)
(* with what the model has read before, and replies come in any order.  A  *)
(* handler of the server, or a slot of the client, is one step.            *)
(***************************************************************************)
EXTENDS Integers, Sequences, FiniteSets, SequencesExt, Bags

CONSTANTS Users,
          Me,          \* who is logged in at the client
          Groups,
          Creator,     \* group -> who makes it, its one admin
          Old,         \* groups made before; of others none is made later
          Before,      \* group -> the members it has if it is old
          NoGroup,     \* the id "", which is no group's
          NoUser,
          MaxCalls,    \* bound: the user asks for no more while so many are open
          MaxEvents,   \* bound: the changes of members, and what is lost
          MaxLogins    \* bound: how often the client is started

ASSUME ContactsAssumption ==
  /\ IsFiniteSet(Groups)
  /\ Me \in Users /\ NoUser \notin Users /\ NoGroup \notin Groups
  /\ Creator \in [Groups -> Users] /\ Before \in [Groups -> SUBSET Users]
  /\ \A g \in Groups : Creator[g] \notin Before[g]
  /\ {g \in Groups : Creator[g] # Me} \subseteq Old /\ Old \subseteq Groups
  /\ MaxCalls \in Nat /\ MaxEvents \in Nat /\ MaxLogins \in Nat \ {0}

VARIABLES
  (* the server *)
  created,       \* the groups there are
  groupmembers,  \* groups::g::groupmembers
  (* the client *)
  rows,          \* the table, in the order of insertion
  contact_,      \* the group the list's model has last been filtered by
  listed,        \* record(0) of the list's model, as selected last
  page,          \* the group whose page is open
  paged,         \* record(0) of the page's model, as selected last
  net,           \* the requests that are open, a bag, each with its reply
  (* history *)
  ever,          \* group -> who has ever been a member
  events, logins,
  missed,        \* since the login a member may have been missed
  left           \* a member may have been left in the table

server == <<created, groupmembers, ever>>
table == <<rows, contact_, listed>>
pages == <<page, paged>>
counts == <<events, logins>>
vars == <<server, table, pages, net, counts, missed, left>>

Own == {g \in Groups : Creator[g] = Me}
Others == Groups \ Own

Row(g, members, admin) == [contactid |-> g, members |-> members, admin |-> admin]
NoRow == Row(NoGroup, {}, NoUser)
TableRows == [contactid : Groups \cup {NoGroup}, members : SUBSET Users, admin : Users \cup {NoUser}]

Kinds == {"poll", "groups", "members", "new_group", "add", "remove"}
Call(kind, g, u) == [kind |-> kind, stage |-> "sent", group |-> g, user |-> u, ans |-> {}]
PollCall == Call("poll", NoGroup, NoUser)
GroupsCall == Call("groups", NoGroup, NoUser)
Calls == [kind : Kinds, stage : {"sent", "parked", "answered"}, group : Groups \cup {NoGroup},
          user : Users \cup {NoUser}, ans : SUBSET (Groups \cup Users \cup {NoGroup})]

(* Every variable keeps its type; contactid is a key. *)
TypeOK ==
  /\ created \subseteq Groups
  /\ groupmembers \in [Groups -> SUBSET Users] /\ ever \in [Groups -> SUBSET Users]
  /\ rows \in Seq(TableRows) /\ IsInjective([i \in DOMAIN rows |-> rows[i].contactid])
  /\ listed \in TableRows /\ paged \in TableRows
  /\ contact_ \in Groups \cup {NoGroup} /\ page \in Groups \cup {NoGroup}
  /\ IsABag(net) /\ BagToSet(net) \subseteq Calls
  /\ events \in 0 .. MaxEvents /\ logins \in 1 .. MaxLogins
  /\ missed \in BOOLEAN /\ left \in BOOLEAN

-----------------------------------------------------------------------------
(* Requests *)

Open(kind) == {c \in BagToSet(net) : c.kind = kind}
Is(c, kinds, stage) == c.kind \in kinds /\ c.stage = stage
Copies(c, calls) == IF c \in BagToSet(calls) THEN calls[c] ELSE 0
HasRoom == BagCardinality(net) < MaxCalls
Sent(calls) == net (+) SetToBag(calls)
Instead(c, calls) == (net (-) SetToBag({c})) (+) SetToBag(calls)
Answered(c, ans) == Instead(c, {[c EXCEPT !.stage = "answered", !.ans = ans]})
Gone(c) == Instead(c, {})

(* The client is started for the first time; there may be groups already.  *)
(* After the login the list is made visible, which polls, and the groups   *)
(* are asked for (main.qml 59-66).                                         *)
Init ==
  /\ created = Old
  /\ groupmembers = [g \in Groups |-> IF g \in Old THEN Before[g] ELSE {}]
  /\ ever = groupmembers
  /\ rows = << >> /\ contact_ = NoGroup /\ listed = NoRow
  /\ page = NoGroup /\ paged = NoRow
  /\ net = SetToBag({PollCall, GroupsCall})
  /\ events = 0 /\ logins = 1 /\ missed = FALSE /\ left = FALSE

-----------------------------------------------------------------------------
(* The table *)

(* contactid is the table's key. *)
HasRow(g, t) == \E i \in DOMAIN t : t[i].contactid = g
RowOf(g, t) == IF HasRow(g, t) THEN t[CHOOSE i \in DOMAIN t : t[i].contactid = g] ELSE NoRow
First(t) == IF t = << >> THEN NoRow ELSE t[1]

(* Faulty variants: rows are inserted again; the group of record(0) is not *)
(* compared; only one of several groups is asked about; the page's model   *)
(* does not select again.                                                  *)
Every(ids) == ids
AnyRow(rec, g) == TRUE
AskedOnce(ids) == {Call("members", g, NoUser) : g \in {x \in ids : x = CHOOSE y \in ids : TRUE}}
NotReselected(t) == paged

(* INSERT OR IGNORE *)
New(ids) == {g \in ids : ~ HasRow(g, rows)}
IsOf(rec, g) == rec.contactid = g

(* setRecord, submitAll: by its key the row is found that rec has been     *)
(* read from; Qt writes the field that was set, or the whole of rec.       *)
Updates(t, rec) ==
  {[i \in DOMAIN t |->
      IF t[i].contactid = rec.contactid
      THEN [rec EXCEPT !.admin = IF whole THEN @ ELSE t[i].admin] ELSE t[i]] : whole \in BOOLEAN}

(* addMemberToTable of each of M: after the first one that is not in rec   *)
(* the model has selected the row again.                                   *)
Adds(rec, g, M) == IsOf(rec, g) /\ ~ M \subseteq rec.members
WithMembers(t, rec, M) == Updates(t, [rec EXCEPT !.members = @ \cup M])

(* removeMemberFromTable *)
Removes(rec, g, u) == IsOf(rec, g) /\ u \in rec.members
WithoutMember(t, rec, u) == Updates(t, [rec EXCEPT !.members = @ \ {u}])

(* proceedGroupAdmins, on what the model has just selected; whether        *)
(* setFilter selects again is Qt's.                                        *)
WithAdmin(t, g, admin) ==
  {[i \in DOMAIN t |-> IF IsOf(rec, g) /\ IsOf(t[i], rec.contactid)
                       THEN [rec EXCEPT !.admin = admin] ELSE t[i]] : rec \in {First(t), RowOf(g, t)}}

-----------------------------------------------------------------------------
(* What the client does with a reply *)

(* A request for the members of each group. *)
Asked(ids) == {Call("members", g, NoUser) : g \in ids}

(* proceedNewGroups: each group is a row with the one who is logged in.    *)
(* addGroupReply takes a lost reply for a group with no id.                *)
NewGroups(c) ==
  /\ Is(c, {"groups", "poll", "new_group"}, "answered")
  /\ LET ids == c.ans
     IN  /\ \E order \in SetToSeqs(New(ids)) :
               rows' = rows \o [i \in DOMAIN order |-> Row(order[i], {Me}, NoUser)]
         /\ net' = Instead(c, Asked(ids))
         /\ left' = (left \/ NoGroup \in ids)
  /\ listed' = First(rows')
  /\ UNCHANGED <<server, contact_, pages, counts, missed>>

(* setContact(g, false): nothing if the model was filtered by g last; else *)
(* the row of g is selected.                                               *)
Filtered(g) == RowOf(g, rows)
RecordOf(g) == IF contact_ = g THEN listed ELSE Filtered(g)

(* groupUsersReply, proceedGroupMembers, proceedGroupAdmins: the two       *)
(* signals are emitted one after the other, for a group that has members.  *)
GroupUsersReply(c) ==
  /\ Is(c, {"members"}, "answered")
  /\ LET g == c.group
         M == c.ans
         rec == RecordOf(g)
         aside == \/ contact_ = g /\ listed # RowOf(g, rows)
                  \/ page = g /\ ~ M \subseteq RowOf(g, rows).members
     IN  \/ /\ M = {}
            /\ UNCHANGED <<table, missed, left>>
         \/ /\ M # {}
            /\ \E t \in IF Adds(rec, g, M) THEN WithMembers(rows, rec, M) ELSE {rows} :
                  rows' \in WithAdmin(t, g, Creator[g])
            /\ contact_' = g
            /\ listed' = First(rows')
            /\ missed' = (missed \/ aside)
            /\ left' = (left \/ aside)
  /\ net' = Gone(c)
  /\ UNCHANGED <<server, pages, counts>>

(* What the page's model has in row 0 when the table has become t. *)
Reselected(t) == RowOf(page, t)

(* addMemberReply, removeMemberReply: the page that is open, if one is,    *)
(* writes its row.                                                         *)
MemberReply(c) ==
  /\ Is(c, {"add", "remove"}, "answered")
  /\ LET g == c.group
         u == c.user
         add == c.kind = "add"
         written == page # NoGroup /\ IF add THEN Adds(paged, g, {u}) ELSE Removes(paged, g, u)
         astray == c.ans # {} /\ page # g
     IN  /\ \/ /\ c.ans # {} /\ written
               /\ rows' \in IF add THEN WithMembers(rows, paged, {u}) ELSE WithoutMember(rows, paged, u)
               /\ paged' = Reselected(rows')
            \/ /\ c.ans = {} \/ ~ written
               /\ UNCHANGED <<rows, paged>>
         /\ missed' = (missed \/ astray)
         /\ left' = (left \/ astray)
  /\ net' = Gone(c)
  /\ UNCHANGED <<server, contact_, listed, page, counts>>

Reply(c) == NewGroups(c) \/ GroupUsersReply(c) \/ MemberReply(c)

-----------------------------------------------------------------------------
(* What the server does (one thread, Membership.tla has the commands) *)

(* users::Me::groups *)
Listed == {g \in created : Me \in groupmembers[g] \cup {Creator[g]}}

(* pollingHandle of group -1, or of one in which there is nothing unread. *)
PollingHandle(c) ==
  /\ Is(c, {"poll"}, "sent")
  /\ net' = Instead(c, {[c EXCEPT !.stage = "parked"]})
  /\ UNCHANGED <<server, table, pages, counts, missed, left>>

(* groupsRequestHandle, groupMembersHandle *)
ReadHandle(c) ==
  /\ Is(c, {"groups", "members"}, "sent")
  /\ net' = Answered(c, IF c.kind = "groups" THEN Listed
                        ELSE IF c.group \in Groups THEN groupmembers[c.group] ELSE {})
  /\ UNCHANGED <<server, table, pages, counts, missed, left>>

(* newGroupHandle *)
NewGroupHandle(c) ==
  /\ Is(c, {"new_group"}, "sent")
  /\ \E g \in Own \ created :
        /\ created' = created \cup {g}
        /\ net' = Answered(c, {g})
  /\ UNCHANGED <<groupmembers, ever, table, pages, counts, missed, left>>

(* A change that is answered OK: an admin's, of one who is not yet in, or  *)
(* is, by both records.                                                    *)
Joins(g, u) == u \notin groupmembers[g] \cup {Creator[g]}
Changed(g, M) == /\ groupmembers' = [groupmembers EXCEPT ![g] = M]
                 /\ ever' = [ever EXCEPT ![g] = @ \cup M]

(* addMemberHandle of the client's request; a reply about g with u in it   *)
(* may be on its way while u is removed.                                   *)
AddMemberHandle(c) ==
  /\ Is(c, {"add", "remove"}, "sent")
  /\ LET g == c.group
         u == c.user
         add == c.kind = "add"
         ok == Creator[g] = Me /\ IF add THEN Joins(g, u) ELSE u \in groupmembers[g]
     IN  /\ net' = Answered(c, IF ok THEN {u} ELSE {})
         /\ \/ ok /\ Changed(g, IF add THEN groupmembers[g] \cup {u} ELSE groupmembers[g] \ {u})
            \/ ~ ok /\ UNCHANGED <<groupmembers, ever>>
         /\ left' = (left \/ \E m \in Open("members") : ok /\ ~ add /\ m.group = g /\ u \in m.ans)
  /\ UNCHANGED <<created, table, pages, counts, missed>>

Handle(c) == PollingHandle(c) \/ ReadHandle(c) \/ NewGroupHandle(c) \/ AddMemberHandle(c)

(* addMemberHandle of another admin: the members of the group are told, if *)
(* a poll of theirs is parked.  Nobody tells of a removal by more than     *)
(* that, and no row loses a member by it.                                  *)
OthersChange(g, u) ==
  /\ events < MaxEvents
  /\ g \in Others
  /\ u # Creator[g]
  /\ Changed(g, IF Joins(g, u) THEN groupmembers[g] \cup {u} ELSE groupmembers[g] \ {u})
  /\ LET told == Me \in groupmembers'[g]
         parked == {c \in Open("poll") : c.stage = "parked"}
     IN  /\ \/ \E c \in parked : told /\ net' = Answered(c, {g})
            \/ ~ (told /\ parked # {}) /\ UNCHANGED net
         /\ missed' = (missed \/ (told /\ parked = {}))
         /\ left' = (left \/ ~ Joins(g, u))
  /\ events' = events + 1
  /\ UNCHANGED <<created, table, pages, logins>>

(* newMessageHandle: a parked poll is answered with a message.             *)
Message(c) ==
  /\ Is(c, {"poll"}, "parked")
  /\ net' = Gone(c)
  /\ UNCHANGED <<server, table, pages, counts, missed, left>>

(* A request or its reply is lost: the client reads an empty reply, which  *)
(* only newGroups does not drop.                                           *)
Lose(c) ==
  /\ events < MaxEvents
  /\ net' = CASE c.kind = "new_group" -> Answered(c, {NoGroup})
              [] c.kind = "groups" -> Answered(c, {})
              [] OTHER -> Gone(c)
  /\ events' = events + 1
  /\ missed' = TRUE /\ left' = TRUE
  /\ UNCHANGED <<server, table, pages, logins>>

-----------------------------------------------------------------------------
(* What the user does *)

(* The "+" of the list of groups. *)
AddGroup ==
  /\ HasRoom
  /\ Copies(Call("new_group", NoGroup, NoUser), net) < Cardinality(Own \ created)
  /\ net' = Sent({Call("new_group", NoGroup, NoUser)})
  /\ UNCHANGED <<server, table, pages, counts, missed, left>>

(* setGroup polls for messages, and messagesReceived again after a batch   *)
(* (Conversation.tla); such a poll may be told of changes too.             *)
Poll ==
  /\ HasRoom /\ Open("poll") = {}
  /\ net' = Sent({PollCall})
  /\ UNCHANGED <<server, table, pages, counts, missed, left>>

(* A click on a group's row: setContact of a model of its own, which is    *)
(* told of changes only.                                                   *)
OpenPage(g) ==
  /\ HasRow(g, rows)
  /\ page # g
  /\ page' = g /\ paged' = RowOf(g, rows)
  /\ UNCHANGED <<server, table, net, counts, missed, left>>

ClosePage ==
  /\ page # NoGroup
  /\ page' = NoGroup /\ paged' = NoRow
  /\ UNCHANGED <<server, table, net, counts, missed, left>>

(* addMember, removeMember; who is on the page as its admin may remove     *)
(* others that are.  Of two requests about one user at a time the replies  *)
(* may come in either order.                                               *)
ChangeMember(u, kind) ==
  /\ page # NoGroup
  /\ kind = "remove" => paged.admin = Me /\ u \in paged.members \ {Me}
  /\ events < MaxEvents
  /\ HasRoom
  /\ net' = Sent({Call(kind, page, u)})
  /\ events' = events + 1
  /\ LET crossed == \E c \in Open("add") \cup Open("remove") : c.group = page /\ c.user = u
     IN  missed' = (missed \/ crossed) /\ left' = (left \/ crossed)
  /\ UNCHANGED <<server, table, pages, logins>>

(* The client is closed, or dies, and started again: its file is kept. The *)
(* changes it had asked for have been made by then or are lost.            *)
Restart ==
  /\ logins < MaxLogins
  /\ \A c \in Open("add") \cup Open("remove") \cup Open("new_group") : c.stage = "answered"
  /\ logins' = logins + 1
  /\ contact_' = NoGroup /\ listed' = NoRow
  /\ page' = NoGroup /\ paged' = NoRow
  /\ net' = SetToBag({PollCall, GroupsCall})
  /\ missed' = FALSE
  /\ left' = (left \/ Open("remove") # {})
  /\ UNCHANGED <<server, rows, events>>

Next ==
  \/ \E c \in BagToSet(net) : Handle(c) \/ Reply(c) \/ Message(c) \/ Lose(c)
  \/ \E g \in Groups : OpenPage(g) \/ \E u \in Users : OthersChange(g, u)
  \/ \E u \in Users \ {Me}, kind \in {"add", "remove"} : ChangeMember(u, kind)
  \/ AddGroup \/ Poll \/ ClosePage \/ Restart

Spec == Init /\ [][Next]_vars

(* The server's loop, or the client's, handles what has come: polls, which *)
(* may be renewed for ever, do not keep it from the rest.                  *)
Served(kinds) == \E c \in BagToSet(net) : c.kind \in kinds /\ (Handle(c) \/ Reply(c))
FairSpec == Spec /\ WF_vars(Served({"poll"})) /\ WF_vars(Served(Kinds \ {"poll"}))

-----------------------------------------------------------------------------
(* Properties *)

(* A row has only members, and the admin, of its own group: whatever       *)
(* crosses, is lost or is read from a stale selection, no reply about one  *)
(* group is written into the row of another.                               *)
RowsOfOneGroup ==
  \A i \in DOMAIN rows : LET g == rows[i].contactid IN
     g # NoGroup => /\ rows[i].members \subseteq ever[g] \cup {Me}
                    /\ rows[i].admin \in {NoUser, Creator[g]}

Quiet == \A c \in BagToSet(net) : c.stage = "parked"

(* When nothing is under way every group of the client has its row, with   *)
(* all of its members, unless one was missed since the login: a reply was  *)
(* lost, or came when its page was gone; a change was told while no poll   *)
(* was parked; the second reply in a row about one group was written to    *)
(* what was listed (sqlcontactmodel.cpp 65), or two models wrote one row.  *)
(* A new login makes up for all of these.                                  *)
KnowsAll ==
  \A g \in Listed : \E i \in DOMAIN rows :
     rows[i].contactid = g /\ groupmembers[g] \cup {Me} \subseteq rows[i].members
Complete == Quiet /\ ~ missed => KnowsAll

(* When nothing is under way no row has somebody who is not in the group   *)
(* any more, and no row is of no group, unless that was left behind: a     *)
(* removal by another admin, or one whose reply was lost or came too late, *)
(* or one of the cases above.                                              *)
NoLeftovers ==
  Quiet /\ ~ left =>
    \A i \in DOMAIN rows : LET g == rows[i].contactid IN
       g \in created /\ rows[i].members \subseteq groupmembers[g] \cup {Me}

(* The client catches up: it knows all members of all of its groups in the *)
(* end, unless one was missed.                                             *)
CatchesUp == []<>(KnowsAll \/ missed)

-----------------------------------------------------------------------------
(* The inductive invariant.  What a reply may say at all, and that it is   *)
(* about a group the table has a row of, if it was asked for by one.       *)
ReplyFits(c) ==
  LET was == IF c.group \in Groups THEN ever[c.group] ELSE {}
  IN  CASE c.kind \in {"groups", "poll", "new_group"} -> c.ans \subseteq Groups \cup {NoGroup}
        [] c.kind = "members" -> c.ans \subseteq was /\ HasRow(c.group, rows)
        [] c.kind \in {"add", "remove"} ->
             /\ c.group \in Groups /\ c.user \in Users \ {Me}
             /\ c.ans # {} => Creator[c.group] = Me /\ c.user \in was

(* A row, in the table or selected, is of one group. *)
Fits(row) ==
  row.contactid # NoGroup =>
    /\ Me \in row.members /\ row.members \subseteq ever[row.contactid] \cup {Me}
    /\ row.admin \in {NoUser, Creator[row.contactid]}

RowsInv ==
  /\ \A i \in DOMAIN rows : Fits(rows[i])
  /\ Fits(listed) /\ Fits(paged)
  /\ \A g \in Groups : groupmembers[g] \subseteq ever[g]
  /\ page # NoGroup => HasRow(page, rows)
  /\ \A c \in BagToSet(net) : ReplyFits(c)

(* Until one of the named events the page shows what the table has, and of *)
(* the changes of one user there is one at a time.                         *)
PageShows ==
  ~ (missed /\ left) /\ page # NoGroup =>
     paged.contactid = page /\ paged.members = RowOf(page, rows).members

ChangeCalls == Open("add") \cup Open("remove")
Single == \A c, d \in ChangeCalls :
             c.group = d.group /\ c.user = d.user => c = d /\ Copies(c, net) = 1
OneAtATime == ~ (missed /\ left) => Single

(* What is in the table of group g and its member u, or will be. *)
InRow(g, u) == \E i \in DOMAIN rows : rows[i].contactid = g /\ u \in rows[i].members
Brings(c, g, u) ==
  \/ Is(c, {"groups"}, "sent")
  \/ Is(c, {"groups", "poll", "new_group"}, "answered") /\ g \in c.ans
  \/ Is(c, {"members"}, "sent") /\ c.group = g
  \/ Is(c, {"members"}, "answered") /\ c.group = g /\ u \in c.ans
  \/ Is(c, {"add"}, "answered") /\ c.group = g /\ c.user = u /\ c.ans # {}
Brought(g, u) == InRow(g, u) \/ \E c \in BagToSet(net) : Brings(c, g, u)

(* Removal of u from g has been answered OK. *)
Takes(c, g, u) == Is(c, {"remove"}, "answered") /\ c.group = g /\ c.user = u /\ c.ans # {}

AllBrought == \A g \in Listed : \A u \in groupmembers[g] \cup {Me} : Brought(g, u)
RemovedAreGone ==
  \A g \in Groups, u \in Users : (\E c \in BagToSet(net) : Takes(c, g, u)) => u \notin groupmembers[g]
KnownInv == ~ missed => AllBrought /\ RemovedAreGone

(* Who is in a row is in the group, or will be taken out; who is in a      *)
(* reply is in the group.                                                  *)
Rightly(row) ==
  /\ row.contactid \in created
  /\ \A u \in row.members \ {Me} :
        u \in groupmembers[row.contactid] \/ \E c \in BagToSet(net) : Takes(c, row.contactid, u)
ReplyHolds(c) ==
  CASE c.kind \in {"groups", "poll", "new_group"} -> c.ans \subseteq created
    [] c.kind = "members" -> c.ans # {} => c.ans \subseteq groupmembers[c.group]
    [] c.kind = "add" -> c.ans # {} => c.user \in groupmembers[c.group]
    [] c.kind = "remove" -> TRUE

NoneLeft == /\ \A i \in DOMAIN rows : Rightly(rows[i])
            /\ \A c \in BagToSet(net) : ReplyHolds(c)
LeftInv == Old \subseteq created /\ (~ left => NoneLeft)
=============================================================================
