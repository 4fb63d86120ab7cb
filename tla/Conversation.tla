---------------------------- MODULE Conversation ----------------------------
(***************************************************************************)
(* One client's list of messages (src/Client_QML/sqlgroupmodel.cpp), the   *)
(* requests it sends (serverconnector.cpp) and what the server answers     *)
(* (RequestFunctions.cpp 93-154, 196-255; RedisCommands.cpp 316-335).      *)
(*                                                                         *)
(* The client shows one group.  It polls with the number of rows it has,   *)
(* fetches the contents of the ids it is answered, polls again, and stores *)
(* the rows.  A handler of the server is one step here: it runs to its end *)
(* on the one loop, and LongPoll.tla has its commands; a crash inside of a *)
(* handler is an action of its own.  Requests reach the server, and        *)
(* replies the client, in any order; a request that follows from a reply   *)
(* takes its place in net.                                                 *)
(***************************************************************************)
EXTENDS Integers, Sequences, FiniteSets, SequencesExt

CONSTANTS Groups,     \* groups the client lists
          Owned,      \* those it has made: its groups, but not groupmembers
          Requests,   \* bound: the client's requests that are open at a time
          NoGroup, NoRequest,
          MaxMsgs,    \* bound: how far messagesCounter may count
          MaxShows,   \* bound: how often the user clicks on a group
          MaxSends,   \* bound: how often the user sends a message
          CanLose,    \* whether connections and the server may fail
          CanChange   \* whether members are added and removed

Ids == 1 .. MaxMsgs

ASSUME ConversationAssumption ==
  /\ Owned \subseteq Groups /\ NoGroup \notin Groups /\ NoRequest \notin Requests
  /\ IsFiniteSet(Requests)
  /\ MaxMsgs \in Nat /\ MaxShows \in Nat /\ MaxSends \in Nat
  /\ CanLose \in BOOLEAN /\ CanChange \in BOOLEAN

VARIABLES
  (* the server *)
  messagesCounter,
  messages,      \* groups::g::messages, newest first
  content,       \* the ids that have a messages::id
  waiting,       \* the groups whose groups::g::waiting has the client
  groupmembers,  \* the groups whose groups::g::groupmembers has the client
  pending,       \* the client's entry of pending_requests
  (* the client *)
  group_,        \* the group it shows
  rows,          \* its table: group, message (0: its own) and trueid, at uid
  net,           \* replyType: its requests, each with its reply
  seconds,       \* the clock, as far as the client's messages show it
  (* history *)
  mine,          \* the ids of the client's messages
  shows, sends,  \* how often the user has clicked and sent
  broken,        \* since the last click an answer has ended the polling
  faults         \* what has made the number of rows a wrong cursor (Faults)

server == <<messagesCounter, messages, content, waiting, groupmembers, pending>>
client == <<group_, rows, seconds>>
history == <<mine, shows, sends, broken, faults>>
vars == <<server, client, net, history>>

GroupOf(m) == CHOOSE g \in Groups : m \in ToSet(messages[g])

(* When the number of rows of the group shown is not the number of its     *)
(* oldest messages that the client has: a batch is of a group that is not  *)
(* shown, or answers a poll of another group; it brings a message again;   *)
(* the rows are counted while a message of the client's own is on its way, *)
(* or such a message is listed after one the client has not got yet; of    *)
(* two sent in one second one is stored.                                   *)
Faults == {"elsewhere", "repeated", "crossed", "outOfTurn", "second"}

-----------------------------------------------------------------------------
(* Requests: sent, parked or answered; "ids" are asked for, or the reply.  *)

NoCall == [kind |-> "none", stage |-> "answered", group |-> NoGroup, n |-> 0, ids |-> {}]
Poll(g, count) == [NoCall EXCEPT !.kind = "poll", !.stage = "sent", !.group = g, !.n = count]
Contents(ids) == [NoCall EXCEPT !.kind = "contents", !.stage = "sent", !.ids = ids]
Send(g, uid) == [NoCall EXCEPT !.kind = "send", !.stage = "sent", !.group = g, !.n = uid]

Free(r) == net[r].kind = "none"
Is(r, kind, stage) == net[r].kind = kind /\ net[r].stage = stage
Answered(R, ids) ==
  [r \in Requests |->
     IF r \in R THEN [net[r] EXCEPT !.stage = "answered", !.group = NoGroup, !.ids = ids]
                ELSE net[r]]
NewRequest == CHOOSE r \in Requests : Free(r)
HasFree == \E r \in Requests : Free(r)
Parked == {pending} \ {NoRequest}
HasRoom == messagesCounter + Cardinality({r \in Requests : Is(r, "send", "sent")}) < MaxMsgs
UnderWay(kind, g) == \E r \in Requests : Is(r, kind, "sent") /\ net[r].group = g
Fault(kind, holds) == {f \in {kind} : holds}

(* Every variable keeps its type. *)
TypeOK ==
  /\ messagesCounter \in 0 .. MaxMsgs
  /\ messages \in [Groups -> Seq(Ids)]
  /\ content \subseteq Ids /\ mine \subseteq Ids
  /\ waiting \subseteq Groups /\ groupmembers \subseteq Groups \ Owned
  /\ pending \in Requests \cup {NoRequest}
  /\ group_ \in Groups \cup {NoGroup}
  /\ rows \in Seq([group : Groups, msg : Ids \cup {0},
                   trueid : ({"id"} \X Ids) \cup ({"time", "uid"} \X Nat)])
  /\ net \in [Requests -> [kind : {"none", "poll", "contents", "send"},
                           stage : {"sent", "parked", "answered"},
                           group : Groups \cup {NoGroup}, n : Nat, ids : SUBSET Ids]]
  /\ seconds \in 0 .. MaxSends /\ sends \in 0 .. MaxSends /\ shows \in 0 .. MaxShows
  /\ broken \in BOOLEAN /\ faults \subseteq Faults

(* The user has just logged in: the list of groups, which is made visible  *)
(* then and never again, polls as group -1 for news of groups; a message   *)
(* wakes such a poll like any other of the client.                         *)
Init ==
  /\ messagesCounter = 0
  /\ messages = [g \in Groups |-> << >>]
  /\ content = {}
  /\ waiting = {}
  /\ groupmembers = Groups \ Owned
  /\ pending = NoRequest
  /\ group_ = NoGroup
  /\ rows = << >>
  /\ LET first == CHOOSE r \in Requests : TRUE
     IN  net = [r \in Requests |-> IF r = first THEN Poll(NoGroup, 0) ELSE NoCall]
  /\ seconds = 0
  /\ mine = {} /\ shows = 0 /\ sends = 0 /\ broken = FALSE /\ faults = {}

-----------------------------------------------------------------------------
(* The table *)

Shown == {rows[i].msg : i \in DOMAIN rows} \ {0}   \* what has been fetched
Keys == {rows[i].trueid : i \in DOMAIN rows}
RowsOf(g) == {i \in DOMAIN rows : rows[i].group = g}

(* Faulty variant: the client's own messages are not counted. *)
CountFetched(g) == Cardinality({i \in RowsOf(g) : rows[i].msg # 0})

(* rowCount() when g is shown: the rows the filter lets through. *)
RowCount(g) == Cardinality(RowsOf(g))
LastUid(g) == IF RowsOf(g) = {} THEN 0 ELSE Max(RowsOf(g))

(* addMessage: INSERT OR IGNORE, where trueid is UNIQUE.  A batch is in    *)
(* the order of its keys, which are sorted as text.                        *)
Row(g, m, trueid) == [group |-> g, msg |-> m, trueid |-> trueid]
Stored(ids) ==
  LET new == {m \in ids : <<"id", m>> \notin Keys}
      one(m) == Row(GroupOf(m), m, <<"id", m>>)
  IN  {rows \o [i \in DOMAIN order |-> one(order[i])] : order \in SetToSeqs(new)}

(* Faulty variant: the rows to come are counted although they are stored.  *)
NextCountTwice(ids) == RowCount(group_) + 2 * Cardinality(ids)

(* messagesReceived: the next poll is sent before the rows are stored.     *)
NextCount(ids) == RowCount(group_) + Cardinality(ids)

-----------------------------------------------------------------------------
(* What the user does *)

(* setGroup *)
ShowGroup(g) ==
  /\ shows < MaxShows
  /\ HasFree
  /\ group_' = g
  /\ net' = [net EXCEPT ![NewRequest] = Poll(g, RowCount(g))]
  /\ shows' = shows + 1
  /\ broken' = FALSE
  /\ faults' = faults \cup Fault("crossed", UnderWay("send", g))
  /\ UNCHANGED <<server, rows, seconds, mine, sends>>

(* sendMessage: the row's trueid is the time in seconds, so of two in one  *)
(* second the later is not stored; it is sent all the same.  Its local id  *)
(* is the uid of the last row shown: setTable() has cleared filter and     *)
(* sorting, so rows are listed as they came.                               *)
SendMessage(t) ==
  /\ sends < MaxSends
  /\ t = seconds + 1 \/ (t = seconds /\ sends > 0)
  /\ HasRoom
  /\ HasFree
  /\ group_ # NoGroup
  /\ LET new == <<"time", t>> \notin Keys
     IN  /\ rows' = IF new THEN Append(rows, Row(group_, 0, <<"time", t>>)) ELSE rows
         /\ net' = [net EXCEPT ![NewRequest] =
                      Send(group_, IF new THEN Len(rows) + 1 ELSE LastUid(group_))]
         /\ faults' = faults \cup Fault("second", ~ new)
                             \cup Fault("crossed", UnderWay("poll", group_))
  /\ seconds' = t
  /\ sends' = sends + 1
  /\ UNCHANGED <<server, group_, mine, shows, broken>>

-----------------------------------------------------------------------------
(* What the client does with a reply; an empty one is dropped.             *)

(* Faulty variant: after an empty reply the client polls again. *)
UpdatesReplyAgain(r) ==
  /\ Is(r, "poll", "answered")
  /\ net' = [net EXCEPT ![r] = IF net[r].ids = {} THEN Poll(group_, RowCount(group_))
                                                 ELSE Contents(net[r].ids)]
  /\ UNCHANGED <<server, client, history>>

(* updatesReply; for news of groups see sqlcontactmodel.cpp: no poll       *)
(* follows them.                                                           *)
UpdatesReply(r) ==
  /\ Is(r, "poll", "answered")
  /\ net' = [net EXCEPT ![r] = IF net[r].ids = {} THEN NoCall ELSE Contents(net[r].ids)]
  /\ UNCHANGED <<server, client, history>>

(* contentsReply, messagesReceived: all ids of a reply are of one group.   *)
ContentsReply(r) ==
  /\ Is(r, "contents", "answered")
  /\ LET ids == net[r].ids
         g == GroupOf(CHOOSE m \in ids : TRUE)
     IN  \/ /\ ids = {}
            /\ net' = [net EXCEPT ![r] = NoCall]
            /\ UNCHANGED <<rows, faults>>
         \/ /\ ids # {}
            /\ net' = [net EXCEPT ![r] = Poll(g, NextCount(ids))]
            /\ rows' \in Stored(ids)
            /\ faults' = faults \cup Fault("elsewhere", g # group_)
                                \cup Fault("repeated", \E i \in DOMAIN rows : rows[i].msg \in ids)
                                \cup Fault("crossed", UnderWay("send", g))
  /\ UNCHANGED <<server, group_, seconds, mine, shows, sends, broken>>

(* sendMessageReply, messageDelivered: the reply is {uid: id}, and what is *)
(* executed is SET trueid = uid WHERE uid = id, unless trueid is taken; a  *)
(* JSON value is bound as the id, in which Qt may see no number.           *)
SendMessageReply(r) ==
  /\ Is(r, "send", "answered")
  /\ LET trueid == <<"uid", net[r].n>>
     IN  \/ UNCHANGED rows
         \/ rows' = [i \in DOMAIN rows |->
                        IF i \in net[r].ids /\ trueid \notin Keys
                        THEN [rows[i] EXCEPT !.trueid = trueid] ELSE rows[i]]
  /\ net' = [net EXCEPT ![r] = NoCall]
  /\ UNCHANGED <<server, group_, seconds, history>>

-----------------------------------------------------------------------------
(* What the server does *)

(* Faulty variant: the count is sent as it is counted from zero. *)
UnreadOneShort(g, known) == {messages[g][i] : i \in 1 .. Len(messages[g]) - known - 1}

(* getUnreadMessages *)
Unread(g, known) == {messages[g][i] : i \in 1 .. Len(messages[g]) - known}
News(r) == IF net[r].group = NoGroup THEN {} ELSE Unread(net[r].group, net[r].n)

(* pollingHandle *)
PollingHandle(r) ==
  /\ Is(r, "poll", "sent")
  /\ LET g == net[r].group
         ids == News(r)
     IN  \/ /\ ids # {}
            /\ net' = [Answered({r}, ids) EXCEPT ![r].n = 0]
            /\ UNCHANGED <<waiting, pending>>
         \/ /\ ids = {}
            /\ waiting' = waiting \cup ({g} \ {NoGroup})
            /\ net' = [Answered(Parked, {}) EXCEPT ![r].stage = "parked", ![r].n = 0]
            /\ pending' = r
  /\ UNCHANGED <<messagesCounter, messages, content, groupmembers, client, history>>

(* getMessageContent: nothing at all if the client is not in groupmembers  *)
(* of one; for an id without a record the handler throws.                  *)
Readable(ids) ==
  IF \A m \in ids : m \in content /\ GroupOf(m) \in groupmembers THEN ids ELSE {}

MessageContentHandle(r) ==
  /\ Is(r, "contents", "sent")
  /\ net' = Answered({r}, Readable(net[r].ids))
  /\ broken' = (broken \/ Readable(net[r].ids) = {})
  /\ UNCHANGED <<server, client, mine, shows, sends, faults>>

(* Whatever the client has open fails; pending_requests is empty.          *)
Lost(R) ==
  /\ net' = Answered(R, {})
  /\ broken' = (broken \/ \E r \in R : net[r].kind \in {"poll", "contents"})
  /\ pending' = IF pending \in R THEN NoRequest ELSE pending
  /\ faults' = faults \cup Fault("crossed", \E r \in R : Is(r, "send", "sent"))
Open == {r \in Requests : ~ Free(r) /\ net[r].stage # "answered"}
Die == Lost(Open)

(* INCR messagesCounter, LPUSH.                                            *)
(* Faulty variant: the number is taken before the increment. *)
LastMessage == messagesCounter
NextMessage == messagesCounter + 1
Listed(g) ==
  /\ messagesCounter' = messagesCounter + 1
  /\ messages' = [messages EXCEPT ![g] = <<NextMessage>> \o @]

(* newMessageHandle of the client's own message, which does not wake it.   *)
(* For a group that is not the client's see PostCheck of LongPoll.tla.     *)
NewMessageHandle(r) ==
  /\ Is(r, "send", "sent")
  /\ LET g == net[r].group
     IN  \/ /\ g \in groupmembers \cup Owned
            /\ Listed(g)
            /\ content' = content \cup {NextMessage}
            /\ mine' = mine \cup {NextMessage}
            /\ net' = Answered({r}, {NextMessage})
            /\ faults' = faults \cup Fault("outOfTurn", ~ ToSet(messages[g]) \subseteq mine \cup Shown)
            /\ UNCHANGED <<pending, broken>>
         \/ /\ g \notin groupmembers \cup Owned
            /\ Lost({r}) \/ Die
            /\ UNCHANGED <<messagesCounter, messages, content, mine>>
  /\ UNCHANGED <<waiting, groupmembers, client, shows, sends>>

Handle(r) == PollingHandle(r) \/ MessageContentHandle(r) \/ NewMessageHandle(r)
Reply(r) == UpdatesReply(r) \/ ContentsReply(r) \/ SendMessageReply(r)

-----------------------------------------------------------------------------
(* What others do *)

(* getWaitingMembers, and the client's entry of pending_requests. *)
Woken(g) == IF g \in waiting THEN Parked ELSE {}

(* newMessageHandle of another client's message. *)
OthersPost(g) ==
  /\ HasRoom
  /\ Listed(g)
  /\ content' = content \cup {NextMessage}
  /\ net' = Answered(Woken(g), {NextMessage})
  /\ pending' = IF Woken(g) = {} THEN pending ELSE NoRequest
  /\ faults' = faults \cup Fault("elsewhere", \E r \in Woken(g) : net[r].group # g)
  /\ UNCHANGED <<waiting, groupmembers, client, mine, shows, sends, broken>>

(* The server dies between LPUSH and HMSET of it. *)
OthersPostCut(g) ==
  /\ CanLose
  /\ HasRoom
  /\ Listed(g)
  /\ Die
  /\ UNCHANGED <<content, waiting, groupmembers, client, mine, shows, sends>>

(* addMemberHandle of the admin: members are told of a change of the       *)
(* group; the client does not poll again when it is told so.               *)
Change(g, members) ==
  /\ CanChange
  /\ g \notin Owned
  /\ groupmembers' = members
  /\ LET told == IF g \in members THEN Parked ELSE {}
     IN  /\ net' = Answered(told, {})
         /\ pending' = IF told = {} THEN pending ELSE NoRequest
         /\ broken' = (broken \/ told # {})
  /\ UNCHANGED <<messagesCounter, messages, content, waiting, client, mine, shows, sends, faults>>
ChangeOthers(g) == Change(g, groupmembers)
AddClient(g) == g \notin groupmembers /\ Change(g, groupmembers \cup {g})
RemoveClient(g) == g \in groupmembers /\ Change(g, groupmembers \ {g})

(* A request or its reply is lost: the client reads an empty reply.        *)
Lose(r) ==
  /\ CanLose
  /\ ~ Free(r)
  /\ Lost({r})
  /\ UNCHANGED <<messagesCounter, messages, content, waiting, groupmembers, client, mine, shows, sends>>

Crash ==
  /\ CanLose
  /\ Die
  /\ UNCHANGED <<messagesCounter, messages, content, waiting, groupmembers, client, mine, shows, sends>>

-----------------------------------------------------------------------------
Next ==
  \/ \E r \in Requests : Handle(r) \/ Reply(r) \/ Lose(r)
  \/ \E t \in {seconds, seconds + 1} : SendMessage(t)
  \/ \E g \in Groups :
        \/ ShowGroup(g) \/ OthersPost(g) \/ OthersPostCut(g)
        \/ ChangeOthers(g) \/ AddClient(g) \/ RemoveClient(g)
  \/ Crash

Spec == Init /\ [][Next]_vars

(* The server's loop, or the client's, handles what has come: a request    *)
(* waits for one of the two at a time.                                     *)
FairSpec == Spec /\ \A r \in Requests : WF_vars(Handle(r) \/ Reply(r))

-----------------------------------------------------------------------------
(* Properties *)

(* The messages of g that were listed before m. *)
Older(g, m) == {messages[g][i] : i \in {j \in DOMAIN messages[g] :
                  \E k \in 1 .. j - 1 : messages[g][k] = m}}

(* No message is left out: of a message that has been fetched the client   *)
(* has all older ones of the group too, fetched or its own, whatever was   *)
(* posted between two of its polls and whatever was lost (rowCount() is    *)
(* the cursor, sqlgroupmodel.cpp 47 and 84), as long as none of Faults has *)
(* happened.  Nor is one passed over that a crash left without a record:   *)
(* the batch it is in is not answered at all.                              *)
NoGaps ==
  faults = {} =>
    \A m \in Shown : \A o \in Older(GroupOf(m), m) : o \in mine \cup Shown

(* What the client has sent is not fetched and shown a second time, as     *)
(* long as none of Faults has happened.  That the row never learns its id  *)
(* (SendMessageReply) does not matter then, because it is counted.         *)
OwnNotFetched ==
  faults = {} => Shown \cap mine = {}

(* The client reads each group from its oldest message on and in the order *)
(* of the server's list, whatever polls, batches and posts cross: it       *)
(* implements Reader as long as none of Faults has happened.               *)
Members(g) == ToSet(messages[g])
Had == [g \in Groups |-> Members(g) \cap (mine \cup Shown)]
ReaderOf == INSTANCE Reader WITH listed <- messages, had <- Had, ok <- faults = {}
ReadsOn == ReaderOf!Spec

(* The client catches up with the group it shows: from its last click on,  *)
(* it has in the end every message it may read, unless an answer has ended *)
(* its polling (a failure, a batch it may not read, news of the group's    *)
(* members) or one of Faults has happened.                                 *)
Due == IF group_ \in groupmembers
       THEN {m \in ToSet(messages[group_]) : m \in content \ (mine \cup Shown)} ELSE {}
CaughtUp == []<>(Due = {} \/ broken \/ faults # {})

(* The client comes to rest: as long as every batch is of the group shown  *)
(* and polled, its polling ends in a request that is parked, or ends. (With*)
(* a batch of another group, whose messages it then asks for with a count  *)
(* of the rows shown, it may ask for the same messages for ever.)          *)
Quiet == \A r \in Requests : Free(r) \/ net[r].stage = "parked"
Settles == []<>(Quiet \/ "elsewhere" \in faults)

-----------------------------------------------------------------------------
(* The invariant behind NoGaps, OwnNotFetched and ReadsOn *)

(* An id is listed once, and the counter is past it. *)
ListsInv ==
  /\ \A g \in Groups : \A i \in DOMAIN messages[g] : messages[g][i] <= messagesCounter
  /\ \A g, h \in Groups : \A i \in DOMAIN messages[g], j \in DOMAIN messages[h] :
        messages[g][i] = messages[h][j] => g = h /\ i = j
  /\ \A m \in mine : m <= messagesCounter

(* A row is of a message that its group lists, and known by it unless it   *)
(* has got the trueid of another.                                          *)
RowsInv ==
  \A i \in DOMAIN rows :
     /\ rows[i].msg # 0 => rows[i].msg \in Members(rows[i].group)
     /\ \A m \in Ids : rows[i].trueid = <<"id", m>> => rows[i].msg = m

(* What is sent has a group and room for an id; what is parked is the      *)
(* entry of pending_requests; a batch is of one group.                     *)
Sends == {r \in Requests : Is(r, "send", "sent")}
RequestsInv ==
  /\ messagesCounter + Cardinality(Sends) <= MaxMsgs
  /\ seconds <= sends
  /\ \A r \in Sends : net[r].group \in Groups
  /\ pending # NoRequest => Is(pending, "poll", "parked")
  /\ \A r \in Requests : net[r].stage = "parked" => r = pending
  /\ \A r \in Requests : net[r].kind \in {"poll", "contents"} /\ net[r].ids # {} =>
        \E g \in Groups : net[r].ids \subseteq Members(g)

(* Counted from the oldest message of g, number 1: the one at place j,     *)
(* and those after a up to b.                                              *)
Place(g, j) == messages[g][Len(messages[g]) + 1 - j]
Batch(g, a, b) == {Place(g, j) : j \in a + 1 .. b}

(* The rows of g, less those of messages that the server has yet to list.  *)
Sending(g) == {r \in Sends : net[r].group = g}
Known(g) == RowCount(g) - Cardinality(Sending(g))

(* As long as none of Faults has happened, the client has of every group   *)
(* the Known(g) oldest messages and no other, ...                          *)
RowsArePrefix ==
  \A g \in Groups :
     /\ Known(g) \in 0 .. Len(messages[g])
     /\ \A j \in 1 .. Len(messages[g]) : Place(g, j) \in mine \cup Shown <=> j <= Known(g)

(* ... a poll that is sent asks for nothing of the client's own, ...       *)
PollsAreBehind ==
  \A r \in Requests, g \in Groups : Is(r, "poll", "sent") /\ net[r].group = g =>
     /\ Sending(g) = {}
     /\ net[r].n <= Known(g)
     /\ Unread(g, net[r].n) \cap mine = {}

(* ... a batch on its way goes on where the client is, or starts before,   *)
(* and has nothing of the client's own, ...                                *)
BatchesGoOn ==
  \A r \in Requests : net[r].kind \in {"poll", "contents"} /\ net[r].ids # {} =>
     /\ net[r].ids \cap mine = {}
     /\ \E g \in Groups : \E a \in 0 .. Known(g), b \in 0 .. Len(messages[g]) :
           net[r].ids = Batch(g, a, b)

(* ... and a client that waits has everything.                             *)
WaitingHasAll ==
  \A r \in Requests, g \in Groups : Is(r, "poll", "parked") /\ net[r].group = g =>
     g \in waiting /\ Known(g) = Len(messages[g])

(* The strengthening of NoGaps and OwnNotFetched that is inductive. *)
BaseInv == TypeOK /\ ListsInv /\ RowsInv /\ RequestsInv
CursorInv == RowsArePrefix /\ PollsAreBehind /\ BatchesGoOn /\ WaitingHasAll
ReadingInv ==
  /\ BaseInv
  /\ OwnNotFetched
  /\ faults = {} => CursorInv
=============================================================================
