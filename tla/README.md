# The c123c chat server, specified and checked

c123c is a chat: a C++ server over libevent/libevhtp (`src/lib`, `src/Server`)
that keeps all of its data in Redis, and a Qt client (`src/Client_QML`). This
directory holds TLA+ modules that model the server's handlers as sequences of
Redis commands, TLC configurations that check them on small instances, and
proofs, checked by TLAPS, that hold for every number of threads, users, groups,
accounts, messages and open requests. The client's two tables, of messages and of groups, are modelled against the same
handlers, and the start and end of servers beside them.

The contents: 1. the system; 2. the modules and how they correspond to the code; 3. the
runs; 4. fairness and assumptions; 5. the proofs; 6. disagreements found; 7.
what is not modelled; 8. the plan.

## 1. The system

### How it is put together

`ServerThread::run` starts one `dispatch` per thread (ServerThread.h:52-77), and
the constructor fixes the number of threads at one ("currently 1 thread only",
ServerThread.cpp:4-7). `dispatch` owns a libevent loop, one Redis connection and a
table from path to handler. `RequestHandler::abstractRequestHandle` parses the
body as JSON, runs the handler to its end and turns every exception into the
reply `Error`. A handler is straight-line code that issues Redis commands, one
blocking round trip each (`RedisReplyHolder`), and replies; only a poll may be
left unanswered, "parked", and answered by another handler later.

| component | state | operations | who talks to it |
|---|---|---|---|
| accounts and sessions (RedisCommands.cpp 47-131, 146-158, 199-210) | `logintoid`, `accountcounter`, `users::id` (login, password, token), `users::id::appcounter`, `sessiontokens`, the mutex of `createAccount` | sign-up, login, account deletion, token look-up | every other operation starts with a token |
| groups and membership (160-196, 251-271, 354-363) | `groupsCounter`, `groups::g::groupadmins`, `groups::g::groupmembers`, `users::u::groups` | create a group, add, remove, list members | posting asks `users::u::groups`; content asks `groupmembers` |
| messages and long polling (RequestFunctions.cpp 39-67, 93-154, 164-175, 196-241; RedisCommands.cpp 212-229, 337-352) | `messagesCounter`, `groups::g::messages`, `messages::m`, `groups::g::waiting`; in the process `pending_requests` under `mtx`, the hook of each parked request | poll, post, wake after a post, wake after a change of a group, erase at login, erase when a connection closes | all handlers share `pending_requests` |
| message content (RequestFunctions.cpp 243-255) | reads only | fetch texts by id | the client, after a poll |
| pages of messages (RedisCommands.cpp 231-249) | reads only | the ids of a page | nobody |
| update queues (273-306) | `updates::…` | none that is called | nobody |
| Redis access (RedisReplyHolder.h, RedisContextHolder) | the connection | one command, one reply | all of RedisCommands.cpp |
| event loop and holders (ServerThread, Holders/) | the loops, their connections to Redis, the port, `stop` | start, connect, bind, dispatch, end | libevent, Redis, other servers on the machine |
| request parsing (RequestHandler.h, MessageParser, util) | none | body to JSON, field to string | handlers |
| client connector (serverconnector.{h,cpp}) | token, app id, the requests under way | login, poll, send, fetch content, groups, members | the server, the models |
| client models (sqlgroupmodel, sqlcontactmodel) | SQLite tables of messages and groups; per model a filter and what it selected | append, count, mark delivered; add groups, add and remove members | connector, views |
| client views (QML), third-party code, tests | | | |

Redis, libevent and libevhtp are not in the repository's own code. Redis is
modelled by what the code relies on: it executes one command at a time and what
is written stays. libevhtp is modelled by when it calls back: between handlers,
on the thread of its loop.

### What is hard here

* An operation is several Redis commands. Between two of them the process may die: the
  state it leaves half written is what the next request finds. In the server as it is
  built, with one loop, handlers do not interleave; the functions of `RedisCommands` are
  also called from several threads (tests.cpp:73-93), and `createAccount` takes a lock for that.
* The check and the act are apart: EXISTS, then SET.
* Membership is kept twice. Posting asks one copy, reading the other.
* A parked request is known by its client's token, by a waiting set in Redis,
  by `pending_requests` and by the pointer in its hook. These four must agree, and
  handlers, logins, closing connections and crashes change them in any order.
* A command is one string that is split at blanks, so a login or a password reaches Redis as
  several arguments: as keys, options, fields and values of their own.
* In the client two models share one table of groups. Each writes row 0 of what it
  selected last, on replies that come in any order, and news that is told while
  no poll is parked is not told again.
* Whether a server that cannot bind, or has lost Redis, gets out of the way is
  decided by futures, exceptions and a NULL that is read.

Every such place that was found is in `PROJECT.json` under "hazards" with its
line, the properties that cover it, or the reason why none does.

### What makes it correct

* Accounts: two names never lead to one id; a taken name stays with its user;
  a sign-up is one atomic claim of a name, and whoever was told TRUE can log in;
  a token that was answered identifies its user ever after. (Of which logins and
  passwords this is true is in sections 5 and 6.)
* Groups: a new group's id is fresh; nobody can be in a group without an
  admin; the two records of a membership agree; OK means that both were made.
* Messages: no message is posted while somebody who waits for it sleeps on;
  a request is answered at most once and never after it was freed; what a poll
  delivers can be fetched; who reads page after page misses nothing.
* The client: the number of its rows is a cursor into the server's list, so it
  leaves no message out and fetches none of its own; it catches up with the group
  it shows, and then waits. Its table of groups has a row for each of its groups, with
  the members of that group and no other.
* The server's process: one that failed to start ends; after Redis was away a server
  serves again.

## 2. The modules

| module | what it is |
|---|---|
| `Accounts` | sign-up, login, deletion, and the token look-up that `addMemberHandle` makes for every member |
| `SignUpObject` | the abstract sign-up: a set of taken names, one atomic claim each |
| `Membership` | groups and their two records of membership |
| `LongPoll` | posting, polling, parking, waking, logins and closed connections |
| `Mailbox` | the abstract service of polling, which `LongPoll` implements |
| `Conversation` | the client's table of messages, its requests, and the handlers that answer them, one step each |
| `Contacts` | the client's table of groups and members, its two models, their requests and the handlers, one step each |
| `Reader` | the abstract client: it reads each group from the oldest message on; `Conversation` implements it until a fault |
| `ServerThread` | servers on one machine: threads, connections to Redis, the port |
| `AccountsProofs`, `SignUpProofs`, `MembershipProofs`, `LongPollProofs`, `MailProofs`, `ConversationProofs`, `ContactsProofs`, `ServerThreadProofs` | theorems and their proofs; `MailProofs` goes on from `LongPollProofs`, `SignUpProofs` from `AccountsProofs` |
| `MCAccounts`, `MCMembership`, `MCLongPoll`, `MCContacts` | values of the constants for TLC |

Those of the handlers are written one way. A variable is a Redis key (under the name it has in the
code) or something the process keeps. `pc[t]` is the *next Redis command* thread `t`
issues, `call[t]` the request it serves, and the handler's locals are functions
of the thread. One action is one Redis command with everything the code does
between its reply and the next command: returns, assignments, the choice of what
comes next. So TLC interleaves exactly where the code can be interleaved. `Crash`
resets what is in the process and leaves what is in Redis. `RejectMalformed`
stands for all requests that fail before they change anything. History variables
(`signedUp`, `answers`, `author`, `torn`, ...) record what callers were told or
where a crash hit; no guard reads them.

**Accounts.** `Lock` … `HMSetUser` are `createAccount` line by line; the two early
returns (name taken; SET refused) release the lock like the last one.
`GetId`, `GetPassword` are `checkLoginPassword`, which has one caller in a login
and one in a deletion; a missing password is the NULL string `strcmp` dies of
(line 60), hence `Die`. `GetAppCounter` … `HSetUser` are `authenticate`,
`getSessionToken`, `generateSessionToken`; as in the code the token is read
first, the app key is made next, and only then is it asked whether there was a
token. A login and a password are sequences of *words*, and the words after the first spill into
the arguments that follow. `Exists`: EXISTS counts its keys, the further words among them, and is
compared with 1, so a login of several words may pass or be refused whether its name is taken
or not. `SetLogin`: SET takes a login of three words or more when the last is EX or PX (`x 5 EX` makes
`SET logintoid::x 5 EX 7`), so the name leads to *any* id and is `volatile`, and `Expire` takes it
away; a login of two words is refused. `RecordArgs`, `FieldsOf`, `ValueOf`: HMSET takes pairs of a field and a value,
refuses an odd rest, and of two values of one field keeps the last; the fields the model has are the password and the
token. What a word says to Redis (that it is a key, an option, an id, a token) is nondeterministic, but for the three
names of fields. `cut` and `forged` are history: the ids whose record is not to be expected, and those whose
token a sign-up has set. A token is `hash(id) + time` modulo the
size of `size_t` (`TokenOf`). `HDelSession` changes nothing: the field it names has
quotes around it.

**SignUpObject.** States a set `taken`, per thread what it has asked for, whether
it has won, what it was told. The refinement in `Accounts` (`SignUpAtomic`) maps the
claim to the SET: the call has taken effect between invocation and return.

**Membership.** `IncrGroups`, `SAddAdmin`, `ZAddCreator`, `SAddGroup` are `createNewGroup`.
`ZAddCreator` adds nobody: the score of that ZADD is formatted with `%s` from the
int 0, which gives `(null)`, and Redis refuses it. `Valid`, `First`, `Second` are
`addUserToGroup` and `removeUserFromGroup`, which differ in SADD/ZADD against
SREM/ZREM; the second command is behind `&&`. `ZRange`, `GetAdmins` are
`groupMembersHandle`.

**LongPoll.** What happens under `mtx` is one action. A request goes from "free"
to "serving" to "done", or to "parked" and from there to "done" (answered), or "free"
(connection closed). `PollRead`, `PollWait`, `PollPark` are `pollingHandle`;
`PostCheck` … `PostWake` `newMessageHandle` with `addMessageToGroup`; `First` …
`Announce` the change of a group and its announcement; `LoginErase` the end of
`loginRequestHandle`; `Disconnect` the hook `fini_cb`. `dangling` are the
parked requests whose entry a login has erased: their hook points to a string
that is gone, so what it erases is *any* key, none, or the process ends. A post by
a non-member passes an object where printf wants a char pointer (line 98): a
reply or the end of the process. A client is its session token and one user,
which `TokensResolve` and `SameSessionToken` of Accounts justify: different users
have different tokens, and one user keeps one. The count a client sends is any
number up to `MaxMsgs`. The admin of a group is its creator, who alone may change it
(`AdminInv` of Membership). `MessagesByGroup` is `getMessagesByGroup`; as no handler calls it
it is no action, and `PagesKeep` asks of it what a reader between posts needs.

**Mailbox.** Messages are posted under ids of their own, a request is open, then
answered once or closed. `Mail` in `LongPoll` maps `posted` to what is listed, "serving"
and "parked" to "open", and `reply` to `got`; a wake answers many requests in one step.

**Conversation.** The other side: `group_` and `rows` are the client's SQLite table
and the group it shows, `net` its requests (`replyType`), each with its reply, lost,
or parked by the server. `ShowGroup` is `setGroup` (a click), `SendMessage`
`sendMessage`; the poll for news of groups that `setContact("")` makes after the login is under way in `Init`; `UpdatesReply`,
`ContentsReply`, `SendMessageReply` are what `replyFinished` calls. As in
`messagesReceived` the next poll is sent before the rows are stored, with the count of
the rows there are plus that of those to come. `RowCount` counts the rows *of
the group shown*, also where the batch is of another. A handler of the server is one
step, which its one loop justifies and `LongPoll` takes apart; `OthersPostCut` is the
crash inside of `addMessageToGroup`. In `Readable` the batch is
given up for one id that may not be read or has no record. The creator of a group is not
in its `groupmembers` (`CreatorIsMember`), hence `Owned`. `faults` and `broken` are
history: what has made the count a wrong cursor, and whether an answer has ended the
polling. The properties name them as what the design does not survive; `Faults` lists
the five cases. `Stored` allows the rows of a batch in any order, as its keys are sorted as text.

**Reader.** Per group a list and what the user has of it. A step lists a message of others, lists
the user's own (only when the user has all of the list), or reads on: what the user had before grows to a longer
part of the list, again counted from its oldest message and with none left out. `ReaderOf` in `Conversation` maps
`listed` to `messages` and `had` to the messages of the list that the client has fetched or sent; `ok`
ends with the first fault, after which nothing is promised.

**Contacts.** `rows` is the SQLite table, in the order of insertion. The list's model has
been filtered by `contact_` last and has `listed` in row 0; the page of a group, if one is open, has
`paged`. `RecordOf` is `setContact` with its early return: for the group it was given last
it does not select, and row 0 is the first of the whole table. `Updates`,
`WithMembers`, `WithoutMember`, `WithAdmin` are `setRecord` and `submitAll` of what was
read before; where Qt decides (whether a whole row or the field that was set is written,
whether `setFilter` selects) both are allowed. `NewGroups`, `GroupUsersReply`,
`MemberReply` are what `replyFinished` calls for the kinds of requests in `net`, a bag;
`Asked` the requests for members that follow. `OthersChange` is `addMemberHandle` for
another admin with its announcement, `AddMemberHandle` for the client's. A lost reply is
read as an empty one (`Lose`): `addGroupReply` takes it for a group without an id.
`missed` and `left` are history: since the login a member may have been missed, or one
who left may have been left in the table. The properties name these cases.

**ServerThread.** `main` is the main thread of a server (`run`: push the
futures, then get them in order), `loop` each loop (`dispatch` with the constructors of
its holder), `redContext` its connection. `n_threads` is 1 whatever is asked for
(ServerThread.cpp 7); the module is written for any number, and with two (`nthreads`)
`FailureEnds` is violated: an exception behind a loop that runs is never got.
`ReadsNull` is the first command after the connection was lost: `redisCommand` returns
NULL and the holder reads it. `Serve` has no effect here; what handlers do is in the
other modules.

## 3. The runs

Each run asks one question. Times are on two workers.

| run | instance | what it shows |
|---|---|---|
| `SignUpRaces` | 2 threads, logins `a`, `b`, `a b`, 2 passwords, ids up to 3, crashes | ids are distinct, names stay, TRUE means known, `createAccount` refines the atomic claim, the lock is given back (12 s) |
| `LoginCrash` | 1 thread, 2 users, logins `a`, `b`, `b token a`, 1 password, crashes, deletions by any token of any login | every token answered resolves to its user, unless a sign-up set the token; on one thread a user has one session token; `checkLoginPassword` dies only of ids whose record a crash left out or a deletion took, or that a long login named (105 s, 3.4 million states) |
| `GroupCrashes` | 1 thread, 2 users, 2 groups, crashes | both records agree but where a crash hit between them; OK means both; an admin is always found; an id just counted is fresh (12 s) |
| `PollParking` | 1 thread, 2 clients, 2 open requests, 1 message, logins, lost connections, crashes, fairness | `pending_requests` names open requests of its client only; every parked request is in it, but those a login cut loose; news is delivered (105 s) |
| `PollNews` | 1 thread, 2 clients, 2 requests, 2 messages, crashes | no request sleeps over a message its client does not have; what is delivered has a content, but for the one id a crash hit; pages lose nothing between posts; `LongPoll` implements `Mailbox` (115 s) |
| `Reading` | 1 client with 2 groups, one of its own, 2 open requests, 2 messages, 2 clicks, 2 sends, lost replies, crashes, changes of members, fairness | the client leaves no message out, does not fetch its own, reads as `Reader` promises, catches up with the group it shows, and comes to rest (150 s) |
| `Contacts` | the client and 2 other users, a group it may make and one of another that it is in, 2 open requests, 2 events (changes of members, requests or replies that are lost), 2 starts of the client, fairness | rows are of one group; complete, and without leftovers, when nothing is under way, but for the named cases; the client catches up (60 s) |
| `Startup` | 3 servers, Redis that comes and goes, kills, fairness | a failed start ends its server; after Redis is back a server serves (2 s) |
| `KnownAppKept`, `AnswerIsASecret`, `BlankInPassword`, `CreatorIsMember` | smallest that shows it | section 6 |

Every property of a passing run comes with a faulty variant of a definition of the model
(the "mutants" in PROJECT.json; the variants are in the modules, under "Faulty
variants"), on which TLC finds that property violated in the same
instance: a lock that is ignored, an id that is not counted, a hook that is not
unset, an unread count off by one. So none of them holds by the bound.

**Bounds and why they are enough.** Counters stop at `MaxAccounts`, `MaxAppKey`,
`MaxGroups`, `MaxMsgs`: a *start* action has the room as its guard, so no handler
is stopped in the middle of its work. Two threads show every race of the code, as it has no
step that waits for two others: `SignUpRaces` has them; two users (or two names) are what all
properties quantify over, and a third id in `SignUpRaces` lets a sign-up follow a
race and a crash. In `LoginCrash` the `a` of the login `b token a` stands for any word, EX among them: its SET
gives `b` either id, counted or not, for a time, and its HMSET `users::2 login b token a password p` sets
a token. Four tokens are two per user, for two values of the clock, and the sums wrap around. Two messages are needed in `PollNews` for a list in which a client knows the
older one and not the newer. Two requests let one displace the other, or both wait;
one client is the group's creator and the other is not. In `Reading` two clicks
are one change of the group shown, two open requests a poll and the poll, send or fetch
that crosses it, two messages a batch and a hole in it. In `Contacts` two events are
an addition and a removal, two additions that cross, or a change and a loss; as the client is in the other's
group at first, a second reply about it can follow the first, which `setContact` does not
select for; the second start shows what a login makes up for. Three servers in `Startup` are one that serves and two that try. Logins, deletions and changes of
groups on two threads are in no run: `DistinctIds`, `NamesKept`, `AnsweredTokensResolve`,
`AdminFound`, `NewGroupIsFresh`, `SignUpIsAtomic` and `MailIsDelivered` are proved with them. In `PollNews` a page begins
at every message and has two, as in the code one begins at every 50th and has 51. Users in `GroupCrashes` and requests
in `PollNews` are symmetric; no property of these runs is a liveness property.
The bounds are those of TLC only: the theorems below have none.

**One thread or two.** The server runs one loop. The accounts and the groups are in a Redis that
several servers may share, so races are checked with two threads, or proved for any number, where the
properties survive them. `Agreement`, `OKMeansBoth`, `SameSessionToken`, `DiesOfLostRecords`,
`NoLostWakeup`, `DeliveredIsReadable` need the one thread, and so do their theorems (`OneThread`): the comment at
ServerThread.cpp:4 is what they rest on, and on the operating system, which does not give a port to a second
server. Raising `n_threads` would break these, e.g.
a post between `getUnreadMessages` and the registration of a poll would wake
nobody.

**No deadlock.** Deadlock is checked in every run; a thread can always be sent
a malformed request, so what the runs would find is only a stopped model. That
no thread waits for ever is `MutexReleased`.

## 4. Fairness and assumptions

Fairness is `WF_vars(Step(t))` per thread: a handler that has begun goes on to its
end. `event_base_loop` calls a handler as a function and blocking Redis calls
return, so on one loop nothing can keep it from continuing. Nothing is assumed about
requests arriving, connections closing or crashes (`Start`, `Disconnect`,
`Crash` have no fairness). `MutexReleased` and `WakeEventually` are checked under it;
both say that something ends that a handler has begun. `Lock` needs no strong fairness for
them, as they speak about the thread that has the lock.

`Conversation` has `WF_vars(Handle(r) \/ Reply(r))` per request of the client. A
request waits either for the server's loop, which handles what has come, or for the
client's, which reads the reply; each of them goes on. A lost request is answered
by an empty reply (`Lose`), so the assumption does not say that the network is reliable; a parked one has
neither step enabled. Nothing is assumed about users, other clients, failures.

`Contacts` has two such assumptions for the same two loops, one for polls and one for all
other requests: polls may be renewed for ever, and a loop that takes what has come in turn does not
keep the rest waiting for them. `ServerThread` assumes that threads run. That requests
come and that servers which ended are started again is not the code's: it is a hypothesis of
`Recovers`, next to a Redis that stays and servers that are left alone, and stands in the
property.

Assumptions on constants are named in the modules. Two are more than types:

* `HashesApart`: the sums `hash(id) + time` of two users are never equal modulo 2^64
  (RedisCommands.cpp:81). It is a property of `std::hash` and the clock and is not
  implied by the code. `TokensResolve` needs it.
* `PollAssumption`: a group has a creator, which its admin is.

Redis keeps what is written (no eviction, no loss), and but in `ServerThread` its connection stays.

## 5. The proofs

TLC shows the properties for the instances above; the theorems hold for all
values of the constants, with any number of threads, also where `Threads` is not
finite, unless a hypothesis is named. Every inductive invariant was first checked by TLC
on the instances of section 3; they stand at the end of the modules they are about.

The hypotheses. `OneThread` says that `Threads` has one element at most: it is what
`ServerThread::ServerThread` fixes with `n_threads(1)` (ServerThread.cpp:4-7), for one server on its port; that a second
does not get that port is the operating system's, and no theorem. `ShortLogins` says that logins have two
words at most: with three, SET may give a name to another's id, and the statement is false of the code
(section 6). `PlainPasswords` says that passwords are of one word; `StoredPasswords`, which is
weaker, that HMSET stores a password for every login of one word (`BlankInPassword` shows the
others). Where none of them is named, the theorem is about logins and passwords of any words.

| module | theorem | statement | hypotheses |
|---|---|---|---|
| `AccountsProofs` | `Typing` | `Spec => []TypeOK` | |
| | `DistinctIds` | `Spec => []LoginIdsDistinct` | `ShortLogins` |
| | `NamesKept` | `Spec => NamesNotReassigned` | `ShortLogins` |
| | `AnsweredTokensResolve` | `Spec => []TokensResolve` | (the property excepts ids in `forged`) |
| | `SignUpsHold` | `Spec => []SignedUpIsKnown` | `NoDeletion`, `PlainPasswords`, `ShortLogins` |
| | `DeathsAreOfCutRecords` | `Spec => []DiesOfLostRecords` | `OneThread`, `StoredPasswords` |
| | `OneSessionToken` | `Spec => []SameSessionToken` | `OneThread` |
| `SignUpProofs` | `SignUpIsAtomic` | `Spec => SignUpAtomic` | `ShortLogins` |
| `MembershipProofs` | `GroupTyping` | `Spec => []TypeOK` | |
| | `AdminFound` | `Spec => []AdminAlwaysFound` | |
| | `NewGroupIsFresh` | `Spec => []FreshGroup` | |
| | `RecordsAgree` | `Spec => []Agreement` | `OneThread` |
| | `OKIsBoth` | `Spec => OKMeansBoth` | `OneThread` |
| `LongPollProofs` | `PollTyping` | `Spec => []TypeOK` | |
| | `PendingIsOpen` | `Spec => []PendingSound` | |
| | `ParkedAreFound` | `Spec => []ParkedIsPending` | |
| `MailProofs` | `MailIsDelivered` | `Spec => MailDelivered` | |
| | `PagesAreKept` | `Spec => PagesKeep` | |
| | `RepliesAreReadable` | `Spec => []DeliveredIsReadable` | `OneThread` |
| | `NobodySleepsOverNews` | `Spec => []NoLostWakeup` | `OneThread` |
| `ConversationProofs` | `ReadingTypes` | `Spec => []TypeOK` | |
| | `NothingIsLeftOut` | `Spec => []NoGaps` | |
| | `OwnIsNotFetched` | `Spec => []OwnNotFetched` | |
| | `ReadsInOrder` | `Spec => ReadsOn` | |
| `ContactsProofs` | `ContactsTypes` | `Spec => []TypeOK` | |
| | `RowsAreOfOneGroup` | `Spec => []RowsOfOneGroup` | |
| | `TableIsComplete` | `Spec => []Complete` | |
| | `TableHasNoLeftovers` | `Spec => []NoLeftovers` | |
| `ServerThreadProofs` | `ServerTyping` | `Spec => []TypeOK` | |

**Accounts.** The argument is a tower of invariants, each inductive relative to those before it.
`TypeInv` adds to the types that a handler which uses an id, a request or a
token has one. `ClaimInv` says that between EXISTS and return the thread holds
the lock, that the name it found free still is, and that no name leads to the id it
just counted: the counter bounds all ids in use, and no name expires. It needs `ShortLogins`: SET of a
longer login writes an id that is anybody's. `LoginIdsDistinct` alone
is not inductive, as SET could write an id that is in use. `SessionInv` says
that each field of `sessiontokens` is a hash of its user, so with `HashesApart` no
HSET replaces another user's field, and that what a user's record or a
handler past its first HSET holds as a token is already a field, unless the id is in `forged`. It says nothing of
names, and so needs no hypothesis on logins. Without it the crash between
the two HSETs, or the second token of a race, could not be told from a token that
leads nowhere. `KnownInv` says that a thread at HMSET writes to the record its own
name leads to and to no other. It uses no crash: a sign-up cut before its HMSET was
never told TRUE. With `DeletePCs` reached, or passwords of several words, the
statement is false, hence the hypotheses.

On one thread `RecordInv` says that a name leads to a record with a password, unless the
record is being written, was cut by a crash or deleted, or a long login named the id. As such an id may not
have been counted yet, or may be the one another sign-up is about to give away, `RecordInv` says of both that they are in
`cut`. `SameTokenInv` says that a token is
issued only to who has none, that an answered token is its user's until the record is deleted,
and that the id of a deleted record is not counted again: so no later login can be
answered another one. `SignUpIsAtomic` maps the steps of `Accounts` one by one:
SET, under the lock and on a name that `ClaimInv` says is free, is the claim, HDEL and
DEL of a deletion the release, all others stutter.

**Membership.** `AdminInv` says that admins are written
first and never removed, and that a handler past `Valid`, or past its SADD of the
admins, works on a group that has one. `FreshInv` says that two handlers never
hold one group id between INCR and their end. `AgreeInv`, on one thread, allows the two records to
differ for the pairs a crash tore and for the one pair the running handler has half written, and says
of that handler which half: so its second command makes them agree again.

**LongPoll.** That the reply of a poll holds ids rests on `UnreadIds`, a lemma on LRANGE with a
negative end. `ParkInv` is needed as neither property is inductive: an entry is erased
by the name of its *client*, so one must know that the request it names is that
client's; PollPark overwrites an entry with the request it serves, so one must know
that no other handler serves it and that its state is "serving"; and a closing connection
whose hook points nowhere may erase the entry of any client, so one must know that a
request that was cut loose is parked and named by no entry.

`MailInv` adds for the refinement that an id is counted before it is listed and listed once, also
by two posts at a time, and that replies hold listed ids only. A step of `LongPoll` is a post, an
answer, several answers at once (a wake), a close or nothing to `Mailbox`. `ReadableInv` has
the one message between LPUSH and HMSET as its exception, whose writer is the only thread.
`WakeInv` has three parts: who waits is in the waiting set; news that has not woken a request is
the message of the handler that is about to wake it, with that request's client in what SMEMBERS
returned; a handler about to register a poll has seen that there is no news. The last fails with two
threads, which is the race of section 3. `PagesAreKept` is a statement about one step: it
computes `PageOf` for a list and for the list with one id pushed in front.

**Conversation.** `ReadingInv` has two layers. `BaseInv` holds always: an id is listed once and the
counter is past it; a row is of a message its group lists; a batch is of one group; what is parked is the
one entry of `pending_requests`; every send under way still has room for an id. `CursorInv` holds until one of `Faults`
and is what makes the number of rows a cursor. Count the messages of a group from its oldest
one, and let `Known(g)` be the rows of g less the client's own messages that the server has not listed yet. Then the
client has exactly the first `Known(g)` messages of g (`RowsArePrefix`). `NoGaps` alone says less, and is not
inductive: it does not say where the next batch begins. So `CursorInv` adds that a poll that
is sent counts no further than `Known(g)`, and that no message of the client's own is under way or behind
that count (`PollsAreBehind`); that a batch, in a reply or in a request for contents, is a run of places that
begins at `Known(g)` or before it and has nothing of the client's own (`BatchesGoOn`); and that a client that
is parked has everything, so that the one id it is woken with is the next place (`WaitingHasAll`). The step that
needs all of it is `ContentsReply`: a batch that begins before `Known(g)` would repeat a row, so one that
does not is the continuation, and the count sent with the next poll, taken before the rows are stored, is right. A
message of the client's own is listed at the end of the list, and leaves the rows a prefix only if there
is nothing in between: this is why `outOfTurn` is a fault. A crash between LPUSH and HMSET needs no exception:
the id without a record is a place like any other, and no batch that has it is ever answered, so neither
property excepts ids without a record. That the order in which a batch is stored does not matter is `StoredIs`, on
which the count rests; `Requests` must be finite, as sends are counted.

`ReadsInOrder` is the refinement of `Reader`. A post of others leaves what the client has, since an id just counted is
in no row; the client's own is `Own`, because without `outOfTurn` the client had all before it; a batch that is
stored is `Read`, because by `RowsArePrefix` before and after the step what the client has of the group is a
prefix, which has grown, and of another group nothing was stored; every other step stutters. The first
step that is a fault, and all after it (`FaultsStay`), are `GiveUp`.

**Contacts.** `BaseInv` (the types and `RowsInv`) says of rows, of what the two models have selected and of
replies alike that they name members their own group has had. For a row that is
not enough: a write takes its content from a selection and its place from another look at the table.
`SyncInv` says that, until a named event, the open page shows what its row has, and
that of the changes of one user one is open at a time. `KnownInv` says that every member
is in the row or in something under way that will bring them there: a request for the groups, one for the members,
or a reply; and that nobody is in a group whose removal from it has just been answered. `LeftInv` is
its counterpart: who is in a row is in the group, or a reply under way takes them out. With nothing
under way these are `Complete` and `NoLeftovers`. That requests are a bag, and a request may be open
twice, is why "one at a time" counts copies.

**ServerThread.** Only the types are proved. What matters here, `FailureEnds` and `Recovers`, is liveness, and that one
server has the port is what `PortFree` assumes of the operating system.

**Only model-checked.** Liveness (`MutexReleased`, `WakeEventually`, `CaughtUp`, `Settles`, `CatchesUp`,
`FailureEnds`, `Recovers`), which is outside of what TLAPS does with fairness. Every invariant and every action
property of a passing run, and all three refinements, are theorems.

## 6. Where code and repository disagree

Four runs check what a comment or a test says, and TLC shows a behaviour of the
code that does not do it. `src/` is unchanged; the other runs model the code as it is.

* `KnownAppKept` — RedisCommands.cpp:95-96: whether "such app id exists" is asked
  of the *type* of a GET reply, which is never an integer. So every login makes a
  new app key, and two logins never get the same string, which
  tests.cpp:66 expects ("must return same token").
* `AnswerIsASecret` — tests.cpp:128 passes what `authenticate` returned as "token".
  It has `:` and the app key appended (RedisCommands.cpp:76), and `getIdBySecret`
  looks it up as it is. The Qt client splits it (serverconnector.h:54-60).
* `BlankInPassword` — RedisCommands.cpp:128: a password with a blank is split; with
  two words HMSET is refused, the reply is not read, and the answer is TRUE.
* `CreatorIsMember` — RedisCommands.cpp:170-173: the comment says "add group creator
  to admins and members"; the ZADD of the members is refused each time.

What the hypotheses of section 5 leave out, the code does, and no comment or test says
otherwise:

* A login of three words or more may give a name to an id that is another's, or nobody's: `x 5 EX`, with
  accountcounter 7, makes x lead to user 5 for 7 seconds and is answered TRUE (RedisCommands.cpp:122). `DistinctIds`, `NamesKept`,
  `SignUpsHold`, `SignUpIsAtomic` are for logins of two words at most.
* EXISTS with two keys counts 2 when both are taken, which is not 1 (line 116): a login of several words then passes though
  its name is taken. With two words the SET is refused after that, so no name is lost.
* A password of three words, `p token X`, or a login with such a word sets the user's token to X, which is in no
  `sessiontokens` (line 128): the next login is answered X, which identifies nobody. `TokensResolve` excepts these users.

Further remarks, not runs: a change whose second command was cut off by a crash
makes its retry answer FAIL (`Agreement` has it as an exception); a login cuts a
parked poll of its client loose, so it is answered by nobody (the exception in
`ParkedIsPending`). In the client:

* The count sent with a batch of a group that is not shown is the count of the group that
  is (sqlgroupmodel.cpp:84). If it is too small the client asks for the same messages
  over and over: without its exception `Settles` is violated. If it is too great
  messages are left out, the exception in `NoGaps`.
* `messageDelivered` binds the two values the wrong way round (sqlgroupmodel.cpp:99-100), so
  a sent row keeps its time as `trueid`; it is fetched and shown a second time
  when the count is wrong, e.g. when two sends and a poll cross.
* The creator of a group never reads what others post in it: `getMessageContent` asks
  `groupmembers`, where the creator is not.
* A poll that is answered `grUpdates`, or a batch that cannot be read, ends the polling until the
  next click (`broken`).
* `setContact` does not select for the group it was given last (sqlcontactmodel.cpp:65), though
  its callers lift the filter: a second reply about that group adds nothing, unless its row
  is the first of the table. Without this case in `missed` `Complete` is violated.
* Who is removed by another admin stays in the table of every other member:
  `proceedGroupMembers` only adds. So `NoLeftovers` excepts it.
* A lost reply to `new_group` makes a row without an id (serverconnector.cpp:175).

In the server: it never connects to Redis again. What makes it recover is that it ends of the
first NULL it reads (`Recovers`). It listens at 6667 by default (ServerThread.h:18), the client
asks at 6755 (serverconnector.h:169): the two meet only where a port is forwarded.

## 7. What is not modelled

* The second reply that `messageContentHandle` sends for an unknown token
  (RequestFunctions.cpp:245-254): what libevhtp makes of it is not in this code.
* `insertUpdate`, `updateSingleApp`, `getPendingUpdates`, `broadcast`: called by no handler.
* A `%` in a login or password, which the code hands to printf; the text of an error reply that is taken for a
  password; options of SET that newer versions of Redis have (GET, EXAT, KEEPTTL).
* Commands longer than the 80 bytes they are printed into (RedisReplyHolder.h:54): lengths
  are abstracted.
* Polls of several groups: the client sends one (serverconnector.cpp:46-47).
* The text of logins and passwords beyond their words, that of groups and messages; JSON; logging.
* The socket of SocketHolder, which is never made (SocketHolder.h:30); the destructor of
  ServerThread, which sets `stop` and which a running server does not reach; the vendored libraries; QML.
* Of the Qt client: login and sign-up; how many rows `rowCount()` has fetched; more than one device of a user.

## 8. Plan

Done, in this order: `Accounts` with its proofs; `Membership` with its proofs;
`LongPoll` with its proofs; `Conversation`; `Contacts`; `ServerThread` with its proofs;
pages; `Mailbox`; its refinement and that of `SignUpObject` as theorems; what holds on one thread as theorems; the proofs
of `Contacts`; those of `Conversation`; `Reader` and its refinement. What would come next:
login and sign-up of the Qt client, with the token and app id they keep.
