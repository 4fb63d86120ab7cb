------------------------------ MODULE LongPoll ------------------------------
(***************************************************************************)
(* Posting, polling and waking (RequestFunctions.cpp 39-67, 93-154,        *)
(* 164-175, 196-241; RedisCommands.cpp 212-229, 337-352).                  *)
(*                                                                         *)
(* A poll that finds nothing unread is parked: its request is kept in      *)
(* pending_requests under the session token of its client and answered by  *)
(* a later post, by a change of a group, or by the client's next poll.     *)
(* What happens under mtx is one step here.  A client is its session token *)
(* and one user (Accounts.tla); of Membership.tla the changes of a group   *)
(* are here, made by its one admin.                                        *)
(***************************************************************************)
EXTENDS Integers, Sequences, FiniteSets

CONSTANTS Threads,      \* the server's threads; ServerThread.cpp 6-7 makes it one
          Clients,      \* session tokens
          Groups,       \* groups that createNewGroup has made
          Lobby,        \* group "-1": the client polls from its contact list
          Creator,      \* group -> the client that made it, its admin
          Requests,     \* bound: the polls that are open at one time
          NoClient,     \* what is not a client
          NoRequest,    \* what is not a request
          MaxMsgs,      \* bound: how far messagesCounter may count
          PageSize,     \* the messages of a page; 50
          CanCrash,     \* whether the server may die
          CanRelogin    \* whether a client that has a token may log in again

Ids == 1 .. MaxMsgs

ASSUME PollAssumption == /\ Lobby \notin Groups
                         /\ NoClient \notin Clients /\ NoRequest \notin Requests
                         /\ Creator \in [Groups -> Clients]
                         /\ MaxMsgs \in Nat /\ PageSize \in Nat \ {0}
                         /\ CanCrash \in BOOLEAN /\ CanRelogin \in BOOLEAN

VARIABLES
  (* in Redis *)
  messagesCounter,  \* messagesCounter
  messages,         \* groups::g::messages, newest first
  content,          \* the ids that have a messages::id
  waiting,          \* groups::g::waiting
  usergroups,       \* group -> the clients whose users::u::groups has it
  groupmembers,     \* groups::g::groupmembers
  (* in the server process *)
  pending_requests, \* token -> the parked request
  state,            \* request -> "free", "serving", "parked" or "done"
  poll,             \* request -> its client, group and number of messages known
  dangling,         \* parked requests whose fini hook points to an erased key
  pc,               \* thread -> what its handler does next
  call,             \* thread -> the request it serves and the handler's locals
  (* history *)
  author,           \* message id -> who posted it
  got,              \* request -> the ids in its reply
  halfPosted        \* ids a crash left listed but without content

redis == <<messagesCounter, messages, content, waiting, usergroups, groupmembers>>
parking == <<pending_requests, state, poll, dangling>>
process == <<parking, pc, call>>
history == <<author, got, halfPosted>>
vars == <<redis, process, history>>

PollPCs == {"lrange", "sadd", "park"}
PostPCs == {"groups", "incr", "lpush", "hmset", "smembers", "wake"}
ChangePCs == {"first", "second", "zrange", "announce"}
PCs == {"idle", "erase"} \cup PollPCs \cup PostPCs \cup ChangePCs
Calls == [me : Clients, group : Groups \cup {Lobby}, user : Clients,
          op : {"poll", "post", "add", "remove", "login"},
          request : Requests \cup {NoRequest}, msg : Ids \cup {0},
          audience : SUBSET Clients]
NoCall == [op |-> "none"]
NoPoll == [me |-> NoClient, group |-> Lobby, known |-> 0]

TypeOK ==
  /\ messagesCounter \in 0 .. MaxMsgs
  /\ messages \in [Groups -> Seq(Ids)]
  /\ content \subseteq Ids
  /\ waiting \in [Groups -> SUBSET Clients]
  /\ usergroups \in [Groups -> SUBSET Clients]
  /\ groupmembers \in [Groups -> SUBSET Clients]
  /\ pending_requests \in [Clients -> Requests \cup {NoRequest}]
  /\ state \in [Requests -> {"free", "serving", "parked", "done"}]
  /\ poll \in [Requests -> [me : Clients \cup {NoClient}, group : Groups \cup {Lobby},
                            known : 0 .. MaxMsgs]]
  /\ dangling \subseteq Requests
  /\ pc \in [Threads -> PCs]
  /\ call \in [Threads -> Calls \cup {NoCall}]
  /\ author \in [Ids -> Clients \cup {NoClient}]
  /\ got \in [Requests -> SUBSET Ids]
  /\ halfPosted \subseteq Ids

Init ==
  /\ messagesCounter = 0
  /\ messages = [g \in Groups |-> << >>]
  /\ content = {}
  /\ waiting = [g \in Groups |-> {}]
  /\ usergroups = [g \in Groups |-> {Creator[g]}]
  /\ groupmembers = [g \in Groups |-> {}]
  /\ pending_requests = [c \in Clients |-> NoRequest]
  /\ state = [r \in Requests |-> "free"]
  /\ poll = [r \in Requests |-> NoPoll]
  /\ dangling = {}
  /\ pc = [t \in Threads |-> "idle"]
  /\ call = [t \in Threads |-> NoCall]
  /\ author = [m \in Ids |-> NoClient]
  /\ got = [r \in Requests |-> {}]
  /\ halfPosted = {}

At(t, label) == pc[t] = label
Goto(t, label) == pc' = [pc EXCEPT ![t] = label]

-----------------------------------------------------------------------------
(* Redis *)

(* LRANGE key start stop: a negative index counts from the end, both ends  *)
(* are included, and what is past the end is left out.                     *)
LRange(s, start, stop) ==
  LET at(i) == IF i < 0 THEN Len(s) + i ELSE i
      last == IF at(stop) < Len(s) THEN at(stop) ELSE Len(s) - 1
  IN  SubSeq(s, at(start) + 1, last + 1)

(* Faulty variants: the count is sent as it is counted from zero; the      *)
(* number of a message is taken before the increment.                      *)
UnreadOneShort(g, known) ==
  LET s == LRange(messages[g], 0, -(known + 2))
  IN  {s[i] : i \in 1 .. Len(s)}
LastMessage == messagesCounter

(* getUnreadMessages: the client sends its count plus one                  *)
(* (serverconnector.cpp 47), which is glued to "0 -".                      *)
Unread(g, known) ==
  LET s == LRange(messages[g], 0, -(known + 1))
  IN  {s[i] : i \in 1 .. Len(s)}

(* Faulty variant: places are counted from one. *)
PageStartOfOne(page) == page * PageSize + 1

(* getMessagesByGroup, which no handler calls; what is no number is page 0 *)
(* (a long long: the product of a page that exists does not overflow).     *)
PageStart(page) == page * PageSize
MessagesByGroup(g, page) ==
  LET s == LRange(messages[g], PageStart(page), PageStart(page) + PageSize)
  IN  {s[i] : i \in 1 .. Len(s)}

(* INCR messagesCounter. *)
NextMessage == messagesCounter + 1

-----------------------------------------------------------------------------
(* pending_requests, under mtx *)

(* The requests of a set of clients that are parked where they are found.  *)
Found(C) == {pending_requests[c] : c \in C} \ {NoRequest}

(* freeRequest: unset the hooks, reply, resume.                            *)
Answered(R) == [r \in Requests |-> IF r \in R THEN "done" ELSE state[r]]
Told(R, ids) == [r \in Requests |-> IF r \in R THEN ids ELSE got[r]]
Erased(C) == [c \in Clients |-> IF c \in C THEN NoRequest ELSE pending_requests[c]]

-----------------------------------------------------------------------------
(* Handlers *)

Request(me, g, op) == [me |-> me, group |-> g, user |-> me, op |-> op,
                       request |-> NoRequest, msg |-> 0, audience |-> {}]

Serve(t, request, label) ==
  /\ At(t, "idle")
  /\ call' = [call EXCEPT ![t] = request]
  /\ Goto(t, label)

Done(t) == Goto(t, "idle") /\ call' = [call EXCEPT ![t] = NoCall]

(* An unknown token, a missing field, a caller who is not an admin.        *)
RejectMalformed(t) == At(t, "idle") /\ UNCHANGED vars

(* pollingHandle; whether the client is a member is not asked.             *)
FirstRead(g) == IF g = Lobby THEN "sadd" ELSE "lrange"

StartPoll(t, c, g, n, r) ==
  /\ state[r] = "free"
  /\ Serve(t, [Request(c, g, "poll") EXCEPT !.request = r], FirstRead(g))
  /\ state' = [state EXCEPT ![r] = "serving"]
  /\ poll' = [poll EXCEPT ![r] = [me |-> c, group |-> g, known |-> n]]
  /\ UNCHANGED <<redis, pending_requests, dangling, history>>

PollRead(t) ==
  /\ At(t, "lrange")
  /\ LET r == call[t].request
         ids == Unread(call[t].group, poll[r].known)
     IN  \/ /\ ids # {}
            /\ state' = Answered({r})
            /\ got' = Told({r}, ids)
            /\ Done(t)
         \/ /\ ids = {}
            /\ Goto(t, "sadd")
            /\ UNCHANGED <<call, state, got>>
  /\ UNCHANGED <<redis, pending_requests, poll, dangling, author, halfPosted>>

(* groups::-1::waiting, which nobody reads, is left out. *)
PollWait(t) ==
  /\ At(t, "sadd")
  /\ waiting' = [g \in Groups |-> waiting[g] \cup {c \in {call[t].me} : g = call[t].group}]
  /\ Goto(t, "park")
  /\ UNCHANGED <<messagesCounter, messages, content, usergroups, groupmembers, parking, call, history>>

(* Faulty variant: an earlier poll is forgotten. *)
DisplacedNone(c) == {}

(* An earlier poll of the same client is answered with nothing.            *)
Displaced(c) == Found({c})

PollPark(t) ==
  /\ At(t, "park")
  /\ LET r == call[t].request
         c == call[t].me
     IN  /\ state' = [Answered(Displaced(c)) EXCEPT ![r] = "parked"]
         /\ pending_requests' = [pending_requests EXCEPT ![c] = r]
  /\ Done(t)
  /\ UNCHANGED <<redis, poll, dangling, history>>

-----------------------------------------------------------------------------
(* newMessageHandle and addMessageToGroup *)

(* getAllAvailableGroups. *)
AvailableGroups(c) == {g \in Groups : c \in usergroups[g]}

Posting == {t \in Threads : pc[t] \in {"groups", "incr"}}

StartPost(t, c, g) ==
  /\ messagesCounter + Cardinality(Posting) < MaxMsgs
  /\ Serve(t, Request(c, g, "post"), "groups")
  /\ UNCHANGED <<redis, parking, history>>

(* The process ends and is started again, with every connection lost. *)
Die == /\ pending_requests' = [c \in Clients |-> NoRequest]
       /\ state' = [r \in Requests |-> "free"]
       /\ poll' = [r \in Requests |-> NoPoll]
       /\ dangling' = {}
       /\ pc' = [t \in Threads |-> "idle"]
       /\ call' = [t \in Threads |-> NoCall]
       /\ got' = [r \in Requests |-> {}]
       /\ halfPosted' = halfPosted \cup {call[t].msg : t \in {s \in Threads : At(s, "hmset")}}
       /\ UNCHANGED <<redis, author>>

(* To a caller outside the group an object is passed where printf expects  *)
(* a char pointer (line 98): some reply, or the end of the process.        *)
PostCheck(t) ==
  /\ At(t, "groups")
  /\ \/ /\ call[t].group \in AvailableGroups(call[t].me)
        /\ Goto(t, "incr")
        /\ UNCHANGED <<redis, parking, call, history>>
     \/ /\ call[t].group \notin AvailableGroups(call[t].me)
        /\ \/ Done(t) /\ UNCHANGED <<redis, parking, history>>
           \/ Die

PostIncr(t) ==
  /\ At(t, "incr")
  /\ messagesCounter < MaxMsgs
  /\ messagesCounter' = messagesCounter + 1
  /\ call' = [call EXCEPT ![t].msg = NextMessage]
  /\ author' = [author EXCEPT ![messagesCounter'] = call[t].me]
  /\ Goto(t, "lpush")
  /\ UNCHANGED <<messages, content, waiting, usergroups, groupmembers, parking, got, halfPosted>>

(* Faulty variant: the content is not stored. *)
PostPushOnly(t) ==
  /\ At(t, "lpush")
  /\ messages' = [messages EXCEPT ![call[t].group] = <<call[t].msg>> \o @]
  /\ Goto(t, "smembers")
  /\ UNCHANGED <<messagesCounter, content, waiting, usergroups, groupmembers, parking, call, history>>

PostPush(t) ==
  /\ At(t, "lpush")
  /\ messages' = [messages EXCEPT ![call[t].group] = <<call[t].msg>> \o @]
  /\ Goto(t, "hmset")
  /\ UNCHANGED <<messagesCounter, content, waiting, usergroups, groupmembers, parking, call, history>>

(* Whether the one who posted is told before the others makes no           *)
(* difference: the reply leaves with this step.                            *)
PostStore(t) ==
  /\ At(t, "hmset")
  /\ content' = content \cup {call[t].msg}
  /\ Goto(t, "smembers")
  /\ UNCHANGED <<messagesCounter, messages, waiting, usergroups, groupmembers, parking, call, history>>

PostWaiting(t) ==
  /\ At(t, "smembers")
  /\ call' = [call EXCEPT ![t].audience = waiting[call[t].group]]
  /\ Goto(t, "wake")
  /\ UNCHANGED <<redis, parking, history>>

(* Faulty variant: the test for the one who posts is turned around. *)
WokenSelf(t) == call[t].audience \cap {call[t].me}

Woken(t) == call[t].audience \ {call[t].me}

PostWake(t) ==
  /\ At(t, "wake")
  /\ state' = Answered(Found(Woken(t)))
  /\ got' = Told(Found(Woken(t)), {call[t].msg})
  /\ pending_requests' = Erased(Woken(t))
  /\ Done(t)
  /\ UNCHANGED <<redis, poll, dangling, author, halfPosted>>

-----------------------------------------------------------------------------
(* addMemberHandle; only a change of both sets is answered OK and told to  *)
(* the members (Membership.tla has the commands one by one).               *)

StartChange(t, g, u, op) ==
  /\ Serve(t, [Request(Creator[g], g, op) EXCEPT !.user = u], "first")
  /\ UNCHANGED <<redis, parking, history>>

Changes(t, set) == (call[t].op = "add") <=> call[t].user \notin set
Changed(t, set) == IF call[t].op = "add" THEN set \cup {call[t].user} ELSE set \ {call[t].user}

(* The label to go to when a command has changed its set; else the reply.  *)
GoOn(t, set, label) ==
  \/ Changes(t, set) /\ Goto(t, label) /\ UNCHANGED call
  \/ ~ Changes(t, set) /\ Done(t)

First(t) ==
  /\ At(t, "first")
  /\ usergroups' = [usergroups EXCEPT ![call[t].group] = Changed(t, @)]
  /\ GoOn(t, usergroups[call[t].group], "second")
  /\ UNCHANGED <<messagesCounter, messages, content, waiting, groupmembers, parking, history>>

Second(t) ==
  /\ At(t, "second")
  /\ groupmembers' = [groupmembers EXCEPT ![call[t].group] = Changed(t, @)]
  /\ GoOn(t, groupmembers[call[t].group], "zrange")
  /\ UNCHANGED <<messagesCounter, messages, content, waiting, usergroups, parking, history>>

Roster(t) ==
  /\ At(t, "zrange")
  /\ call' = [call EXCEPT ![t].audience = groupmembers[call[t].group]]
  /\ Goto(t, "announce")
  /\ UNCHANGED <<redis, parking, history>>

Announce(t) ==
  /\ At(t, "announce")
  /\ state' = Answered(Found(Woken(t)))
  /\ pending_requests' = Erased(Woken(t))
  /\ Done(t)
  /\ UNCHANGED <<redis, poll, dangling, history>>

-----------------------------------------------------------------------------
(* loginRequestHandle of a client that has a token: its entry is erased,   *)
(* its request stays parked and its hook keeps the address of the key.     *)

StartLogin(t, c) ==
  /\ CanRelogin
  /\ Serve(t, Request(c, Lobby, "login"), "erase")
  /\ UNCHANGED <<redis, parking, history>>

LoginErase(t) ==
  /\ At(t, "erase")
  /\ dangling' = dangling \cup Found({call[t].me})
  /\ pending_requests' = Erased({call[t].me})
  /\ Done(t)
  /\ UNCHANGED <<redis, state, poll, history>>

-----------------------------------------------------------------------------
(* The connection of a parked request is closed, which an event loop sees  *)
(* between two handlers: fini_cb erases the key its argument points to.    *)
(* Where that key is gone, what is read there is  *)
(* anything: no key, the key of some client, or the end of the process.    *)

Listening == \E t \in Threads : At(t, "idle")

Closed(r) == /\ state' = [state EXCEPT ![r] = "free"]
             /\ poll' = [poll EXCEPT ![r] = NoPoll]
             /\ got' = [got EXCEPT ![r] = {}]

(* Faulty variant: the entry outlives the request. *)
FiniLeft(r) == pending_requests

FiniErased(r) == Erased({poll[r].me})

Disconnect(r) ==
  /\ Listening
  /\ state[r] = "parked"
  /\ \/ /\ r \notin dangling
        /\ Closed(r)
        /\ pending_requests' = FiniErased(r)
        /\ UNCHANGED <<redis, dangling, pc, call, author, halfPosted>>
     \/ /\ r \in dangling
        /\ \E C \in {{}} \cup {{c} : c \in Clients} :
              /\ Closed(r)
              /\ pending_requests' = Erased(C)
              /\ dangling' = (dangling \ {r}) \cup Found(C)
        /\ UNCHANGED <<redis, pc, call, author, halfPosted>>
     \/ r \in dangling /\ Die

(* An answered request is freed when its reply has left. *)
Recycle(r) ==
  /\ Listening
  /\ state[r] = "done"
  /\ Closed(r)
  /\ UNCHANGED <<redis, pending_requests, dangling, pc, call, author, halfPosted>>

Crash == CanCrash /\ Die

-----------------------------------------------------------------------------
Start(t) ==
  \/ \E c \in Clients, r \in Requests :
        \/ \E g \in Groups, n \in 0 .. MaxMsgs : StartPoll(t, c, g, n, r)
        \/ StartPoll(t, c, Lobby, 0, r)
  \/ \E c \in Clients, g \in Groups :
        \/ StartPost(t, c, g)
        \/ \E op \in {"add", "remove"} : StartChange(t, g, c, op)
  \/ \E c \in Clients : StartLogin(t, c)

PollStep(t) == PollRead(t) \/ PollWait(t) \/ PollPark(t)
PostStep(t) == \/ PostCheck(t) \/ PostIncr(t) \/ PostPush(t) \/ PostStore(t)
               \/ PostWaiting(t) \/ PostWake(t)
ChangeStep(t) == First(t) \/ Second(t) \/ Roster(t) \/ Announce(t)
Step(t) == PollStep(t) \/ PostStep(t) \/ ChangeStep(t) \/ LoginErase(t)

Next == \/ \E t \in Threads : Start(t) \/ RejectMalformed(t) \/ Step(t)
        \/ \E r \in Requests : Disconnect(r) \/ Recycle(r)
        \/ Crash

Spec == Init /\ [][Next]_vars

(* The event loop runs a handler to its end. *)
Fairness == \A t \in Threads : WF_vars(Step(t))
FairSpec == Spec /\ Fairness

-----------------------------------------------------------------------------
(* Properties *)

(* What pending_requests names is a request that is still open, unanswered *)
(* and of that client: no request is answered twice or after it was freed. *)
PendingSound ==
  \A c \in Clients : LET r == pending_requests[c] IN
     r # NoRequest => state[r] = "parked" /\ poll[r].me = c

(* A parked request can be found by whoever has news for its client, but   *)
(* for one whose entry a login of that client has taken away.              *)
ParkedIsPending ==
  \A r \in Requests : state[r] = "parked" =>
     r \in dangling \/ pending_requests[poll[r].me] = r

(* What others have posted beyond the messages a poll knows of. *)
News(r) == LET s == messages[poll[r].group]
           IN  {m \in {s[i] : i \in 1 .. Len(s) - poll[r].known} : author[m] # poll[r].me}
Waits(r) == state[r] = "parked" /\ r \notin dangling /\ poll[r].group # Lobby

(* On one thread no request sleeps over news: whatever was posted to its   *)
(* group by others, beyond what the client knows, has woken it, also when  *)
(* the server died between listing a message and waking.                   *)
NoLostWakeup ==
  (\A t \in Threads : pc[t] \notin PostPCs) =>
     \A r \in Requests : Waits(r) => News(r) = {}

(* Without a crash every id in a reply has a content that can be fetched;  *)
(* a crash between LPUSH and HMSET costs the one id it hit.                *)
DeliveredIsReadable == \A r \in Requests : got[r] \subseteq content \cup halfPosted

(* Who reads page after page misses no message, whatever is posted between *)
(* two pages: each message is on the page of its place, and one that has   *)
(* left a page by a post is on the next one.                               *)
PagesKeep ==
  [][\A g \in Groups : messages'[g] # messages[g] =>
       /\ \A i \in DOMAIN messages'[g] :
             messages'[g][i] \in MessagesByGroup(g, (i - 1) \div PageSize)'
       /\ \A page \in 0 .. Len(messages[g]) :
             MessagesByGroup(g, page) \subseteq
               MessagesByGroup(g, page)' \cup MessagesByGroup(g, page + 1)']_vars

Posted == UNION {{messages[g][i] : i \in DOMAIN messages[g]} : g \in Groups}
Stage(r) == CASE state[r] = "free" -> "closed"
              [] state[r] \in {"serving", "parked"} -> "open"
              [] state[r] = "done" -> "answered"
Mail == INSTANCE Mailbox WITH posted <- Posted, stage <- [r \in Requests |-> Stage(r)], reply <- got

(* Whatever handlers, logins, closed connections and the hooks they left   *)
(* do, a request is answered at most once and while it is open, with ids   *)
(* that are listed, and no id is listed twice.                             *)
MailDelivered == Mail!Spec

(* News is delivered: a request that is parked on a group to which another *)
(* posts is answered, unless its entry is taken away or it ends.           *)
WakeEventually ==
  \A r \in Requests : (Waits(r) /\ News(r) # {}) ~> ~Waits(r)
-----------------------------------------------------------------------------
(* The inductive invariants behind the properties (LongPollProofs.tla,     *)
(* MailProofs.tla).                                                        *)

PollTypeInv ==
  /\ TypeOK
  /\ \A t \in Threads :
        /\ pc[t] # "idle" => call[t] \in Calls
        /\ pc[t] \in PollPCs => call[t].request \in Requests
        /\ pc[t] \in {"lrange"} \cup PostPCs \cup ChangePCs => call[t].group \in Groups
        /\ pc[t] \in {"lpush", "hmset", "smembers", "wake"} => call[t].msg \in Ids

(* A request that is being served is its handler's alone; one that has     *)
(* been cut loose is parked and nobody can find it.                        *)
ParkInv ==
  /\ \A t \in Threads : pc[t] \in PollPCs =>
        /\ state[call[t].request] = "serving"
        /\ poll[call[t].request].me = call[t].me
        /\ \A s \in Threads \ {t} : pc[s] \in PollPCs => call[s].request # call[t].request
  /\ \A r \in Requests : state[r] = "parked" => poll[r].me \in Clients
  /\ \A r \in dangling : state[r] = "parked" /\ \A c \in Clients : pending_requests[c] # r
  /\ PendingSound
  /\ ParkedIsPending

(* An id is counted before it is listed and listed before anyone is told.  *)
MailInv ==
  /\ Posted \subseteq 1 .. messagesCounter
  /\ \A t \in Threads :
        /\ pc[t] = "lpush" =>
              /\ call[t].msg \in (1 .. messagesCounter) \ Posted
              /\ \A s \in Threads \ {t} : pc[s] = "lpush" => call[s].msg # call[t].msg
        /\ pc[t] \in {"hmset", "smembers", "wake"} => call[t].msg \in Posted
  /\ \A r \in Requests : /\ got[r] \subseteq Posted
                         /\ state[r] # "done" => got[r] = {}

(* On one thread: what is listed has a content, was cut off by a crash or  *)
(* is about to be given one, and then nobody else runs.                    *)
ReadableInv ==
  /\ Posted \subseteq content \cup halfPosted \cup
        {call[t].msg : t \in {s \in Threads : At(s, "hmset")}}
  /\ \A t \in Threads : pc[t] \in {"smembers", "wake"} => call[t].msg \in content
  /\ DeliveredIsReadable

(* On one thread: who waits for a group is in its waiting set.             *)
WaitersListed ==
  \A r \in Requests : Waits(r) => poll[r].me \in waiting[poll[r].group]

(* News that has not woken a request is the message that a handler is      *)
(* about to wake it with.                                                  *)
NewsIsComing ==
  \A r \in Requests : Waits(r) => \A m \in News(r) : \E t \in Threads :
     /\ pc[t] \in {"hmset", "smembers", "wake"}
     /\ call[t].msg = m /\ call[t].group = poll[r].group
     /\ pc[t] = "wake" => poll[r].me \in call[t].audience

(* Who is about to wait has no news; who is about to wake is the author.   *)
HandlersReady ==
  \A t \in Threads :
     /\ pc[t] \in PollPCs => poll[call[t].request].group = call[t].group
     /\ pc[t] \in {"sadd", "park"} /\ call[t].group # Lobby => News(call[t].request) = {}
     /\ pc[t] = "park" /\ call[t].group # Lobby => call[t].me \in waiting[call[t].group]
     /\ pc[t] \in {"lpush", "hmset", "smembers", "wake"} => author[call[t].msg] = call[t].me

WakeInv == WaitersListed /\ NewsIsComing /\ HandlersReady
=============================================================================
