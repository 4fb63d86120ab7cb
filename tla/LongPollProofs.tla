---------------------------- MODULE LongPollProofs ----------------------------
(***************************************************************************)
(* What pending_requests names is open, and what is parked is in it, for   *)
(* any number of threads, clients, groups and requests, with crashes       *)
(* anywhere and with hooks that point to keys that are gone.               *)
(***************************************************************************)
EXTENDS LongPoll, SequenceTheorems, TLAPS

States == {"free", "serving", "parked", "done"}
Polls == [me : Clients \cup {NoClient}, group : Groups \cup {Lobby}, known : 0 .. MaxMsgs]

-----------------------------------------------------------------------------
(* Lemmas about the operators that more than one handler uses.             *)

LEMMA FoundRequests ==
  ASSUME TypeOK, NEW C \in SUBSET Clients
  PROVE  Found(C) \subseteq Requests
  BY DEF Found, TypeOK

LEMMA AnsweredType ==
  ASSUME TypeOK, NEW R
  PROVE  Answered(R) \in [Requests -> States]
  BY DEF Answered, TypeOK, States

LEMMA ToldType ==
  ASSUME TypeOK, NEW R, NEW ids \in SUBSET Ids
  PROVE  Told(R, ids) \in [Requests -> SUBSET Ids]
  BY DEF Told, TypeOK

LEMMA ErasedType ==
  ASSUME TypeOK, NEW C
  PROVE  Erased(C) \in [Clients -> Requests \cup {NoRequest}]
  BY DEF Erased, TypeOK

(* LRANGE 0 -(known + 1) leaves out the last known messages: what a client *)
(* is told is unread is all the others.                                    *)
LEMMA UnreadAre ==
  ASSUME TypeOK, NEW g \in Groups, NEW known \in 0 .. MaxMsgs
  PROVE  /\ Unread(g, known) = {messages[g][i] : i \in 1 .. Len(messages[g]) - known}
         /\ Unread(g, known) \subseteq Ids
  <1> DEFINE s == messages[g]
             n == Len(s) - known
  <1>1. s \in Seq(Ids) /\ known \in Nat /\ Len(s) \in Nat
    BY PollAssumption DEF TypeOK
  <1>2. LRange(s, 0, -(known + 1)) = SubSeq(s, 1, n)
    <2>1. \A k, l \in Nat : /\ -(k + 1) < 0 /\ l + -(k + 1) < l
                            /\ l + -(k + 1) + 1 = l - k
      OBVIOUS
    <2>2. /\ -(known + 1) < 0 /\ Len(s) + -(known + 1) < Len(s)
          /\ Len(s) + -(known + 1) + 1 = n
      BY <1>1, <2>1
    <2> HIDE DEF n, s
    <2> QED
      BY <2>2 DEF LRange
  <1>3. /\ \A i \in 1 .. n : i \in 1 .. Len(s)
        /\ \A i \in 1 .. Len(s) : s[i] \in Ids
    BY <1>1
  <1>4. /\ SubSeq(s, 1, n) \in Seq(Ids)
        /\ Len(SubSeq(s, 1, n)) = IF 1 <= n THEN n ELSE 0
        /\ \A i \in 1 .. n : SubSeq(s, 1, n)[i] = s[i]
    <2>1. n \in Int /\ 1 \in Int /\ \A i \in 1 .. n : s[i] \in Ids
      BY <1>1, <1>3
    <2>2. n - 1 + 1 = n /\ \A i \in 1 .. n : 1 + i - 1 = i
      BY <2>1
    <2> HIDE DEF n, s
    <2> QED
      BY <2>1, <2>2, SubSeqProperties
  <1>5. 1 .. Len(SubSeq(s, 1, n)) = 1 .. n
    BY <1>1, <1>4
  <1>6. Unread(g, known) = {s[i] : i \in 1 .. n}
    <2> HIDE DEF n
    <2> QED
      BY <1>2, <1>4, <1>5 DEF Unread
  <1> QED
    BY <1>3, <1>6

LEMMA DoneStep ==
  ASSUME TypeOK, NEW t \in Threads, Done(t)
  PROVE  /\ pc' \in [Threads -> PCs]
         /\ call' \in [Threads -> Calls \cup {NoCall}]
         /\ \A u \in Threads : pc'[u] # "idle" =>
               u # t /\ pc'[u] = pc[u] /\ call'[u] = call[u]
  BY DEF Done, Goto, TypeOK, PCs

-----------------------------------------------------------------------------
(* Types *)

LEMMA PollTypeInit == Init => PollTypeInv
  <1> SUFFICES ASSUME Init
               PROVE  PollTypeInv
    OBVIOUS
  <1> USE PollAssumption DEF Init
  <1>1. messages \in [Groups -> Seq(Ids)]
    OBVIOUS
  <1>2. poll \in [Requests -> Polls]
    BY DEF NoPoll, Polls
  <1>3. TypeOK
    BY <1>1, <1>2 DEF TypeOK, Polls, PCs
  <1> QED
    BY <1>3 DEF PollTypeInv, PollPCs, PostPCs, ChangePCs

(* A request that arrives.                                                 *)
LEMMA ServeStep ==
  ASSUME PollTypeInv, NEW t \in Threads, NEW request \in Calls,
         NEW label \in {"lrange", "sadd", "groups", "first", "erase"},
         label \in {"lrange", "sadd"} => request.request \in Requests,
         label \in {"lrange", "groups", "first"} => request.group \in Groups,
         Serve(t, request, label)
  PROVE  /\ pc' \in [Threads -> PCs]
         /\ call' \in [Threads -> Calls \cup {NoCall}]
         /\ \A u \in Threads :
               /\ pc'[u] # "idle" => call'[u] \in Calls
               /\ pc'[u] \in PollPCs => call'[u].request \in Requests
               /\ pc'[u] \in {"lrange"} \cup PostPCs \cup ChangePCs => call'[u].group \in Groups
               /\ pc'[u] \in {"lpush", "hmset", "smembers", "wake"} => call'[u].msg \in Ids
  BY DEF Serve, Goto, PollTypeInv, TypeOK, PCs, PollPCs, PostPCs, ChangePCs

LEMMA RequestTypes ==
  ASSUME NEW c \in Clients, NEW g \in Groups \cup {Lobby},
         NEW op \in {"poll", "post", "add", "remove", "login"}
  PROVE  /\ Request(c, g, op) \in Calls
         /\ \A r \in Requests : [Request(c, g, op) EXCEPT !.request = r] \in Calls
         /\ \A u \in Clients : [Request(c, g, op) EXCEPT !.user = u] \in Calls
         /\ Request(c, g, op).group = g
         /\ \A r \in Requests : /\ [Request(c, g, op) EXCEPT !.request = r].request = r
                                /\ [Request(c, g, op) EXCEPT !.request = r].group = g
         /\ \A u \in Clients : [Request(c, g, op) EXCEPT !.user = u].group = g
  BY DEF Request, Calls

LEMMA DieTypes == PollTypeInv /\ Die => PollTypeInv'
  <1> SUFFICES ASSUME PollTypeInv, Die
               PROVE  PollTypeInv'
    OBVIOUS
  <1>1. poll' \in [Requests -> Polls]
    BY PollAssumption DEF Die, NoPoll, Polls
  <1>2. halfPosted' \in SUBSET Ids
    BY DEF Die, PollTypeInv, TypeOK, At
  <1>3. TypeOK'
    BY <1>1, <1>2, PollAssumption DEF Die, PollTypeInv, TypeOK, redis, PCs, Polls
  <1> QED
    BY <1>3 DEF Die, PollTypeInv, PollPCs, PostPCs, ChangePCs

(* Each handler's step, and what libevent calls between two handlers.      *)
LEMMA PollTypeStep == PollTypeInv /\ [Next]_vars => PollTypeInv'
  <1> SUFFICES ASSUME PollTypeInv, [Next]_vars
               PROVE  PollTypeInv'
    OBVIOUS
  <1> USE DEF At, Goto
  <1>0. /\ TypeOK
        /\ \A u \in Threads :
              pc[u] # "idle" => /\ call[u] \in Calls
                                /\ call[u].me \in Clients /\ call[u].user \in Clients
                                /\ call[u].audience \in SUBSET Clients
    BY DEF PollTypeInv, Calls
  (* A handler that is done, or goes on with its request as it is. *)
  <1>a. ASSUME NEW t \in Threads, TypeOK', Done(t)
        PROVE  PollTypeInv'
    BY <1>0, <1>a, DoneStep DEF PollTypeInv, PollPCs, PostPCs, ChangePCs
  <1>b. ASSUME NEW t \in Threads, NEW label \in PCs, TypeOK', pc[t] # "idle",
               pc' = [pc EXCEPT ![t] = label], UNCHANGED call,
               label \in PollPCs => call[t].request \in Requests,
               label \in {"lrange"} \cup PostPCs \cup ChangePCs => call[t].group \in Groups,
               label \in {"lpush", "hmset", "smembers", "wake"} => call[t].msg \in Ids
        PROVE  PollTypeInv'
    BY <1>0, <1>b DEF PollTypeInv, TypeOK
  <1>1. ASSUME NEW t \in Threads, Start(t)
        PROVE  PollTypeInv'
    <2>1. ASSUME NEW c \in Clients, NEW r \in Requests, NEW g \in Groups \cup {Lobby},
                 NEW n \in 0 .. MaxMsgs, StartPoll(t, c, g, n, r)
          PROVE  PollTypeInv'
      <3> DEFINE request == [Request(c, g, "poll") EXCEPT !.request = r]
      <3>1. request \in Calls /\ request.request = r /\ request.group = g
        BY RequestTypes
      <3>2. Serve(t, request, FirstRead(g)) /\ FirstRead(g) \in {"lrange", "sadd"}
        BY <2>1 DEF StartPoll, FirstRead
      <3>3. FirstRead(g) = "lrange" => g \in Groups
        BY PollAssumption DEF FirstRead
      <3> HIDE DEF request
      <3>4. state' \in [Requests -> States] /\ poll' \in [Requests -> Polls]
        <4>1. [me |-> c, group |-> g, known |-> n] \in Polls
          BY DEF Polls
        <4> QED
          BY <2>1, <4>1, <1>0 DEF StartPoll, TypeOK, States, Polls
      <3>5. TypeOK'
        BY <2>1, <3>1, <3>2, <3>3, <3>4, ServeStep
        DEF StartPoll, redis, history, PollTypeInv, TypeOK, States, Polls
      <3>6. PICK label \in {"lrange", "sadd"} :
               Serve(t, request, label) /\ (label = "lrange" => g \in Groups)
        BY <3>2, <3>3
      <3>7. \A u \in Threads :
               /\ pc'[u] # "idle" => call'[u] \in Calls
               /\ pc'[u] \in PollPCs => call'[u].request \in Requests
               /\ pc'[u] \in {"lrange"} \cup PostPCs \cup ChangePCs => call'[u].group \in Groups
               /\ pc'[u] \in {"lpush", "hmset", "smembers", "wake"} => call'[u].msg \in Ids
        BY <3>1, <3>6, ServeStep
      <3> QED
        BY <3>5, <3>7 DEF PollTypeInv
    <2>2. ASSUME NEW request \in Calls, NEW label \in {"groups", "first", "erase"},
                 label # "erase" => request.group \in Groups,
                 Serve(t, request, label), UNCHANGED <<redis, parking, history>>
          PROVE  PollTypeInv'
      <3>1. TypeOK'
        BY <2>2, ServeStep DEF redis, parking, history, PollTypeInv, TypeOK
      <3> QED
        BY <2>2, <3>1, ServeStep DEF PollTypeInv
    <2>3. ASSUME NEW c \in Clients, NEW g \in Groups, StartPost(t, c, g)
          PROVE  PollTypeInv'
      BY <2>2, <2>3, RequestTypes DEF StartPost
    <2>4. ASSUME NEW c \in Clients, NEW g \in Groups, NEW op \in {"add", "remove"},
                 StartChange(t, g, c, op)
          PROVE  PollTypeInv'
      <3> DEFINE request == [Request(Creator[g], g, op) EXCEPT !.user = c]
      <3>1. Creator[g] \in Clients
        BY PollAssumption
      <3>2. request \in Calls /\ request.group = g
        BY <3>1, RequestTypes
      <3>3. Serve(t, request, "first") /\ UNCHANGED <<redis, parking, history>>
        BY <2>4 DEF StartChange
      <3> QED
        BY <2>2, <3>2, <3>3
    <2>5. ASSUME NEW c \in Clients, StartLogin(t, c)
          PROVE  PollTypeInv'
      BY <2>2, <2>5, RequestTypes DEF StartLogin
    <2>6. 0 \in 0 .. MaxMsgs
      BY PollAssumption
    <2> QED
      BY <1>1, <2>1, <2>3, <2>4, <2>5, <2>6 DEF Start
  <1>2. ASSUME NEW t \in Threads, PollRead(t)
        PROVE  PollTypeInv'
    <2> DEFINE r == call[t].request
               ids == Unread(call[t].group, poll[r].known)
    <2>1. r \in Requests /\ ids \in SUBSET Ids
      <3>1. r \in Requests /\ call[t].group \in Groups
        BY <1>2 DEF PollRead, PollTypeInv, PollPCs
      <3>2. poll[r].known \in 0 .. MaxMsgs
        BY <1>0, <3>1 DEF TypeOK
      <3> QED
        BY <1>0, <3>1, <3>2, UnreadAre
    <2>2. CASE ids # {}
      <3>1. /\ state' = Answered({r}) /\ got' = Told({r}, ids) /\ Done(t)
            /\ UNCHANGED <<redis, pending_requests, poll, dangling, author, halfPosted>>
        BY <1>2, <2>2 DEF PollRead
      <3>2. TypeOK'
        BY <1>0, <2>1, <3>1, AnsweredType, ToldType, DoneStep DEF TypeOK, States, redis
      <3> QED
        BY <1>a, <3>1, <3>2
    <2>3. CASE ids = {}
      <3>1. pc' = [pc EXCEPT ![t] = "sadd"] /\ UNCHANGED <<call, state, got>>
        BY <1>2, <2>3 DEF PollRead
      <3>2. TypeOK'
        BY <1>0, <1>2, <3>1 DEF PollRead, TypeOK, redis, PCs, PollPCs
      <3> QED
        BY <1>2, <1>b, <2>1, <3>1, <3>2 DEF PollRead, PCs, PollPCs, PostPCs, ChangePCs
    <2> QED
      BY <2>2, <2>3
  <1>3. ASSUME NEW t \in Threads, PollWait(t)
        PROVE  PollTypeInv'
    <2>1. call[t].request \in Requests /\ call[t].me \in Clients
      BY <1>0, <1>3 DEF PollWait, PollTypeInv, PollPCs
    <2>2. waiting' \in [Groups -> SUBSET Clients]
      BY <1>0, <1>3, <2>1 DEF PollWait, TypeOK
    <2>3. TypeOK'
      BY <1>0, <1>3, <2>2 DEF PollWait, TypeOK, parking, history, PCs, PollPCs
    <2> QED
      BY <1>3, <1>b, <2>1, <2>3 DEF PollWait, PCs, PollPCs, PostPCs, ChangePCs
  <1>4. ASSUME NEW t \in Threads, PollPark(t)
        PROVE  PollTypeInv'
    <2>1. call[t].request \in Requests /\ call[t].me \in Clients
      BY <1>0, <1>4 DEF PollPark, PollTypeInv, PollPCs
    <2>2. state' \in [Requests -> States]
      BY <1>0, <1>4, <2>1, AnsweredType DEF PollPark, States
    <2>3. pending_requests' \in [Clients -> Requests \cup {NoRequest}]
      BY <1>0, <1>4, <2>1 DEF PollPark, TypeOK
    <2>4. TypeOK'
      BY <1>0, <1>4, <2>2, <2>3, DoneStep DEF PollPark, TypeOK, redis, history, States
    <2> QED
      BY <1>4, <1>a, <2>4 DEF PollPark
  <1>5. ASSUME NEW t \in Threads, PostCheck(t)
        PROVE  PollTypeInv'
    <2>1. CASE pc' = [pc EXCEPT ![t] = "incr"] /\ UNCHANGED <<redis, parking, call, history>>
      <3>1. TypeOK'
        BY <1>0, <2>1 DEF TypeOK, redis, parking, history, PCs, PostPCs
      <3> QED
        BY <1>5, <1>b, <2>1, <3>1 DEF PostCheck, PollTypeInv, PCs, PollPCs, PostPCs, ChangePCs
    <2>2. CASE Done(t) /\ UNCHANGED <<redis, parking, history>>
      <3>1. TypeOK'
        BY <1>0, <2>2, DoneStep DEF TypeOK, redis, parking, history
      <3> QED
        BY <1>a, <2>2, <3>1
    <2>3. CASE Die
      BY <2>3, DieTypes
    <2> QED
      BY <1>5, <2>1, <2>2, <2>3 DEF PostCheck
  <1>6. ASSUME NEW t \in Threads, PostIncr(t)
        PROVE  PollTypeInv'
    <2> DEFINE n == messagesCounter + 1
    <2>1. n \in Ids /\ n \in 0 .. MaxMsgs
      BY <1>0, <1>6, PollAssumption DEF PostIncr, TypeOK, Ids
    <2>2. [call[t] EXCEPT !.msg = n] \in Calls
      BY <1>0, <1>6, <2>1 DEF PostIncr, Calls
    <2>3. /\ messagesCounter' = n
          /\ call' = [call EXCEPT ![t] = [call[t] EXCEPT !.msg = n]]
          /\ author' = [author EXCEPT ![n] = call[t].me]
          /\ pc' = [pc EXCEPT ![t] = "lpush"] /\ pc[t] = "incr"
          /\ UNCHANGED <<messages, content, waiting, usergroups, groupmembers, parking, got, halfPosted>>
      BY <1>0, <1>6 DEF PostIncr, NextMessage, TypeOK
    <2>4. call[t].me \in Clients /\ call[t].group \in Groups
      BY <1>0, <2>3 DEF PollTypeInv, PostPCs
    <2> HIDE DEF n
    <2>5. TypeOK'
      BY <1>0, <2>1, <2>2, <2>3, <2>4 DEF TypeOK, parking, PCs, PostPCs
    <2>6. [call[t] EXCEPT !.msg = n].msg = n /\ [call[t] EXCEPT !.msg = n].group = call[t].group
      BY <1>0, <2>3 DEF Calls
    <2> QED
      BY <1>0, <2>1, <2>2, <2>3, <2>4, <2>5, <2>6
      DEF PollTypeInv, TypeOK, PollPCs, PostPCs, ChangePCs
  <1>7. ASSUME NEW t \in Threads, PostPush(t)
        PROVE  PollTypeInv'
    <2>1. call[t].group \in Groups /\ call[t].msg \in Ids
      BY <1>7 DEF PostPush, PollTypeInv, PostPCs
    <2>2. messages' \in [Groups -> Seq(Ids)]
      BY <1>0, <1>7, <2>1 DEF PostPush, TypeOK
    <2>3. TypeOK'
      BY <1>0, <1>7, <2>2 DEF PostPush, TypeOK, parking, history, PCs, PostPCs
    <2> QED
      BY <1>7, <1>b, <2>1, <2>3 DEF PostPush, PCs, PollPCs, PostPCs, ChangePCs
  <1>8. ASSUME NEW t \in Threads, PostStore(t)
        PROVE  PollTypeInv'
    <2>1. call[t].group \in Groups /\ call[t].msg \in Ids
      BY <1>8 DEF PostStore, PollTypeInv, PostPCs
    <2>2. TypeOK'
      BY <1>0, <1>8, <2>1 DEF PostStore, TypeOK, parking, history, PCs, PostPCs
    <2> QED
      BY <1>8, <1>b, <2>1, <2>2 DEF PostStore, PCs, PollPCs, PostPCs, ChangePCs
  (* A handler that has read who is to be woken. *)
  <1>c. ASSUME NEW t \in Threads, NEW label \in {"wake", "announce"}, NEW set \in SUBSET Clients,
               pc[t] # "idle", call[t].group \in Groups, label = "wake" => call[t].msg \in Ids,
               pc' = [pc EXCEPT ![t] = label], call' = [call EXCEPT ![t].audience = set],
               UNCHANGED <<redis, parking, history>>
        PROVE  PollTypeInv'
    <2> DEFINE new == [call[t] EXCEPT !.audience = set]
    <2>1. new \in Calls /\ new.group = call[t].group /\ new.msg = call[t].msg
      BY <1>0, <1>c DEF Calls
    <2>2. call' = [call EXCEPT ![t] = new]
      BY <1>0, <1>c DEF TypeOK
    <2> HIDE DEF new
    <2>3. TypeOK'
      BY <1>0, <1>c, <2>1, <2>2 DEF TypeOK, redis, parking, history, PCs, PostPCs, ChangePCs
    <2> QED
      BY <1>0, <1>c, <2>1, <2>2, <2>3 DEF PollTypeInv, TypeOK, PollPCs, PostPCs, ChangePCs
  <1>9. ASSUME NEW t \in Threads, PostWaiting(t)
        PROVE  PollTypeInv'
    <2>1. call[t].group \in Groups /\ call[t].msg \in Ids
      BY <1>9 DEF PostWaiting, PollTypeInv, PostPCs
    <2>2. waiting[call[t].group] \in SUBSET Clients
      BY <1>0, <2>1 DEF TypeOK
    <2> QED
      BY <1>9, <1>c, <2>1, <2>2 DEF PostWaiting
  (* A handler that wakes. *)
  <1>d. ASSUME NEW t \in Threads, pc[t] # "idle", Done(t),
               state' = Answered(Found(Woken(t))), pending_requests' = Erased(Woken(t)),
               got' \in [Requests -> SUBSET Ids],
               UNCHANGED <<redis, poll, dangling, author, halfPosted>>
        PROVE  PollTypeInv'
    <2>1. TypeOK'
      BY <1>0, <1>d, AnsweredType, ErasedType, DoneStep DEF TypeOK, States, redis
    <2> QED
      BY <1>a, <1>d, <2>1
  <1>10. ASSUME NEW t \in Threads, PostWake(t)
         PROVE  PollTypeInv'
    <2>1. {call[t].msg} \in SUBSET Ids
      BY <1>10 DEF PostWake, PollTypeInv
    <2>2. got' \in [Requests -> SUBSET Ids]
      BY <1>0, <1>10, <2>1, ToldType DEF PostWake
    <2> QED
      BY <1>10, <1>d, <2>2 DEF PostWake
  <1>11. ASSUME NEW t \in Threads, Announce(t)
         PROVE  PollTypeInv'
    BY <1>0, <1>11, <1>d DEF Announce, TypeOK, history
  <1>12. ASSUME NEW t \in Threads, Roster(t)
         PROVE  PollTypeInv'
    <2>1. call[t].group \in Groups
      BY <1>12 DEF Roster, PollTypeInv, ChangePCs
    <2>2. groupmembers[call[t].group] \in SUBSET Clients
      BY <1>0, <2>1 DEF TypeOK
    <2> QED
      BY <1>12, <1>c, <2>1, <2>2 DEF Roster
  <1>13. ASSUME NEW t \in Threads, NEW set, NEW label \in {"second", "zrange"},
                pc[t] \in {"first", "second"}, GoOn(t, set, label), TypeOK'
         PROVE  PollTypeInv'
    <2>1. call[t].group \in Groups
      BY <1>13 DEF PollTypeInv, ChangePCs
    <2> QED
      BY <1>13, <1>a, <1>b, <2>1 DEF GoOn, PCs, PollPCs, PostPCs, ChangePCs
  <1>14. ASSUME NEW t \in Threads, First(t)
         PROVE  PollTypeInv'
    <2>1. call[t].group \in Groups /\ call[t].user \in Clients
      BY <1>0, <1>14 DEF First, PollTypeInv, ChangePCs
    <2>2. usergroups' \in [Groups -> SUBSET Clients]
      BY <1>0, <1>14, <2>1 DEF First, Changed, TypeOK
    <2>3. pc' \in [Threads -> PCs] /\ call' \in [Threads -> Calls \cup {NoCall}]
      BY <1>0, <1>14, DoneStep DEF First, GoOn, TypeOK, PCs, ChangePCs
    <2>4. TypeOK'
      BY <1>0, <1>14, <2>2, <2>3 DEF First, TypeOK, parking, history
    <2> QED
      BY <1>13, <1>14, <2>4 DEF First
  <1>15. ASSUME NEW t \in Threads, Second(t)
         PROVE  PollTypeInv'
    <2>1. call[t].group \in Groups /\ call[t].user \in Clients
      BY <1>0, <1>15 DEF Second, PollTypeInv, ChangePCs
    <2>2. groupmembers' \in [Groups -> SUBSET Clients]
      BY <1>0, <1>15, <2>1 DEF Second, Changed, TypeOK
    <2>3. pc' \in [Threads -> PCs] /\ call' \in [Threads -> Calls \cup {NoCall}]
      BY <1>0, <1>15, DoneStep DEF Second, GoOn, TypeOK, PCs, ChangePCs
    <2>4. TypeOK'
      BY <1>0, <1>15, <2>2, <2>3 DEF Second, TypeOK, parking, history
    <2> QED
      BY <1>13, <1>15, <2>4 DEF Second
  <1>16. ASSUME NEW t \in Threads, LoginErase(t)
         PROVE  PollTypeInv'
    <2>1. {call[t].me} \in SUBSET Clients
      BY <1>0, <1>16 DEF LoginErase
    <2>2. dangling' \subseteq Requests
      BY <1>0, <1>16, <2>1, FoundRequests DEF LoginErase, TypeOK
    <2>3. TypeOK'
      BY <1>0, <1>16, <2>2, ErasedType, DoneStep DEF LoginErase, TypeOK, redis, history
    <2> QED
      BY <1>16, <1>a, <2>3 DEF LoginErase
  <1>e. ASSUME TypeOK', UNCHANGED <<pc, call>>
        PROVE  PollTypeInv'
    BY <1>e DEF PollTypeInv
  <1>17. ASSUME NEW r \in Requests, Closed(r), pending_requests' \in [Clients -> Requests \cup {NoRequest}],
                dangling' \subseteq Requests, UNCHANGED <<redis, pc, call, author, halfPosted>>
         PROVE  PollTypeInv'
    <2>1. NoPoll \in Polls
      BY PollAssumption DEF NoPoll, Polls
    <2>2. TypeOK'
      BY <1>0, <1>17, <2>1 DEF Closed, TypeOK, redis, Polls
    <2> QED
      BY <1>17, <1>e, <2>2
  <1>18. ASSUME NEW r \in Requests, Disconnect(r)
         PROVE  PollTypeInv'
    <2>1. ASSUME NEW C \in SUBSET Clients
          PROVE  /\ Erased(C) \in [Clients -> Requests \cup {NoRequest}]
                 /\ (dangling \ {r}) \cup Found(C) \subseteq Requests
      BY <1>0, FoundRequests, ErasedType DEF TypeOK
    <2>2. CASE r \notin dangling
      <3>1. /\ Closed(r) /\ pending_requests' = Erased({poll[r].me})
            /\ UNCHANGED <<redis, dangling, pc, call, author, halfPosted>>
        BY <1>18, <2>2 DEF Disconnect, FiniErased
      <3>2. dangling' \subseteq Requests
        BY <1>0, <3>1 DEF TypeOK
      <3> QED
        BY <1>0, <1>17, <3>1, <3>2, ErasedType
    <2>3. CASE r \in dangling
      <3>1. CASE Die
        BY <3>1, DieTypes
      <3>2. CASE ~ Die
        <4>1. PICK C \in {{}} \cup {{c} : c \in Clients} :
                 /\ Closed(r) /\ pending_requests' = Erased(C)
                 /\ dangling' = (dangling \ {r}) \cup Found(C)
                 /\ UNCHANGED <<redis, pc, call, author, halfPosted>>
          BY <1>18, <2>3, <3>2 DEF Disconnect
        <4> QED
          BY <1>17, <2>1, <4>1
      <3> QED
        BY <3>1, <3>2
    <2> QED
      BY <2>2, <2>3
  <1>19. ASSUME NEW r \in Requests, Recycle(r)
         PROVE  PollTypeInv'
    BY <1>0, <1>17, <1>19 DEF Recycle, TypeOK
  <1>20. CASE Crash
    BY <1>20, DieTypes DEF Crash
  <1>21. CASE UNCHANGED vars
    BY <1>0, <1>21, <1>e DEF vars, redis, process, parking, history, TypeOK
  <1> QED
    BY <1>1, <1>2, <1>3, <1>4, <1>5, <1>6, <1>7, <1>8, <1>9, <1>10, <1>11, <1>12, <1>14,
       <1>15, <1>16, <1>18, <1>19, <1>20, <1>21
    DEF Next, Step, PollStep, PostStep, ChangeStep, RejectMalformed

(* Every variable of LongPoll keeps its type.                              *)
THEOREM PollTyping == Spec => [](PollTypeInv /\ TypeOK)
  <1>1. PollTypeInv => TypeOK
    BY DEF PollTypeInv
  <1> QED
    BY PollTypeInit, PollTypeStep, <1>1, PTL DEF Spec

-----------------------------------------------------------------------------
(* Who holds a request *)

(* What a step leaves alone that neither parks nor answers anything.       *)
ParkFrame ==
  /\ UNCHANGED parking
  /\ \A t \in Threads : pc'[t] \in PollPCs => pc[t] \in PollPCs /\ call'[t] = call[t]

LEMMA ParkInit == Init => ParkInv
  BY PollAssumption DEF Init, ParkInv, PendingSound, ParkedIsPending, PollPCs, NoPoll

LEMMA ParkFrameStep == TypeOK /\ ParkInv /\ ParkFrame => ParkInv'
  BY DEF ParkFrame, ParkInv, PendingSound, ParkedIsPending, parking

LEMMA ParkDie == Die => ParkInv'
  BY PollAssumption DEF Die, ParkInv, PendingSound, ParkedIsPending, PollPCs

(* Some clients' parked requests are answered and their entries erased.    *)
LEMMA ParkWake ==
  ASSUME PollTypeInv, ParkInv, NEW C \in SUBSET Clients,
         state' = Answered(Found(C)), pending_requests' = Erased(C),
         UNCHANGED <<poll, dangling>>,
         \A t \in Threads : pc'[t] \in PollPCs => pc[t] \in PollPCs /\ call'[t] = call[t]
  PROVE  ParkInv'
  <1>1. Found(C) \subseteq Requests /\ \A r \in Found(C) : state[r] = "parked"
    BY FoundRequests DEF Found, ParkInv, PendingSound, PollTypeInv
  <1>2. \A r \in Requests : state'[r] = IF r \in Found(C) THEN "done" ELSE state[r]
    BY DEF Answered
  <1>3. \A c \in Clients : pending_requests'[c] = IF c \in C THEN NoRequest ELSE pending_requests[c]
    BY DEF Erased
  <1>4. \A c \in Clients : pending_requests[c] \in Found(C) => c \in C
    <2>1. \A c, d \in Clients : pending_requests[c] = pending_requests[d]
             /\ pending_requests[c] # NoRequest => c = d
      BY DEF ParkInv, PendingSound
    <2> QED
      BY <2>1 DEF Found
  <1>5. PendingSound'
    <2>1. \A c \in Clients : pending_requests[c] \in Requests \cup {NoRequest}
      BY DEF PollTypeInv, TypeOK
    <2> QED
      BY <1>2, <1>3, <1>4, <2>1 DEF PendingSound, ParkInv
  <1>6. ParkedIsPending'
    <2>1. ASSUME NEW r \in Requests, state'[r] = "parked", r \notin dangling
          PROVE  pending_requests'[poll[r].me] = r
      <3>1. state[r] = "parked" /\ r \notin Found(C)
        BY <1>2, <2>1
      <3>2. poll[r].me \in Clients /\ pending_requests[poll[r].me] = r
        BY <2>1, <3>1 DEF ParkInv, ParkedIsPending
      <3>3. r # NoRequest
        BY PollAssumption
      <3> QED
        BY <1>3, <3>1, <3>2, <3>3 DEF Found
    <2> QED
      BY <2>1 DEF ParkedIsPending
  <1>7. \A r \in dangling : r \in Requests /\ r # NoRequest /\ r \notin Found(C)
    BY PollAssumption DEF PollTypeInv, TypeOK, ParkInv, Found
  <1>8. \A r \in dangling : state'[r] = "parked" /\ \A c \in Clients : pending_requests'[c] # r
    BY <1>2, <1>3, <1>7 DEF ParkInv
  <1>9. \A t \in Threads : pc[t] \in PollPCs => call[t].request \notin Found(C)
    BY <1>1 DEF ParkInv
  <1>10. \A r \in Requests : state'[r] = "parked" => poll'[r].me \in Clients
    BY <1>2 DEF ParkInv
  <1>11. \A t \in Threads : pc'[t] \in PollPCs =>
           /\ state'[call'[t].request] = "serving"
           /\ poll'[call'[t].request].me = call'[t].me
           /\ \A u \in Threads \ {t} : pc'[u] \in PollPCs => call'[u].request # call'[t].request
    BY <1>9 DEF ParkInv, Answered, PollTypeInv
  <1> QED
    BY <1>5, <1>6, <1>8, <1>10, <1>11 DEF ParkInv

(* Entries of some clients are erased and their requests stay parked; some *)
(* of those that were cut loose before are closed.                         *)
LEMMA ParkLoose ==
  ASSUME PollTypeInv, ParkInv, NEW C \in SUBSET Clients, NEW R \in SUBSET dangling,
         pending_requests' = Erased(C), dangling' = (dangling \ R) \cup Found(C),
         \A q \in Requests \ R : state'[q] = state[q] /\ poll'[q] = poll[q],
         \A q \in R : state'[q] = "free",
         \A t \in Threads : pc'[t] \in PollPCs => pc[t] \in PollPCs /\ call'[t] = call[t]
  PROVE  ParkInv'
  <1>1. Found(C) \subseteq Requests /\ \A q \in Found(C) : state[q] = "parked" /\ q \notin R
    BY FoundRequests DEF Found, ParkInv, PendingSound, PollTypeInv
  <1>2. \A c \in Clients : pending_requests'[c] = IF c \in C THEN NoRequest ELSE pending_requests[c]
    BY DEF Erased
  <1>3. \A c \in Clients : pending_requests[c] \in Found(C) => c \in C
    <2>1. \A c, d \in Clients : pending_requests[c] = pending_requests[d]
             /\ pending_requests[c] # NoRequest => c = d
      BY DEF ParkInv, PendingSound
    <2> QED
      BY <2>1 DEF Found
  <1>4. dangling \subseteq Requests /\ NoRequest \notin Requests
        /\ \A c \in Clients : pending_requests[c] \in Requests \cup {NoRequest}
    BY PollAssumption DEF PollTypeInv, TypeOK
  <1>5. PendingSound'
    <2>1. ASSUME NEW c \in Clients, pending_requests'[c] # NoRequest
          PROVE  state'[pending_requests'[c]] = "parked" /\ poll'[pending_requests'[c]].me = c
      <3>1. pending_requests'[c] = pending_requests[c]
            /\ pending_requests[c] \in Requests \ R
        BY <1>2, <1>4, <2>1 DEF ParkInv
      <3> QED
        BY <2>1, <3>1 DEF ParkInv, PendingSound
    <2> QED
      BY <2>1 DEF PendingSound
  <1>6. ParkedIsPending'
    <2>1. ASSUME NEW q \in Requests, state'[q] = "parked", q \notin dangling'
          PROVE  pending_requests'[poll'[q].me] = q
      <3>1. q \notin R /\ q \notin dangling /\ q \notin Found(C) /\ state[q] = "parked"
            /\ poll'[q] = poll[q]
        BY <2>1
      <3>2. poll[q].me \in Clients /\ pending_requests[poll[q].me] = q
        BY <3>1 DEF ParkInv, ParkedIsPending
      <3> QED
        BY <1>2, <1>4, <3>1, <3>2 DEF Found
    <2> QED
      BY <2>1 DEF ParkedIsPending
  <1>7. \A q \in dangling' : state'[q] = "parked" /\ \A c \in Clients : pending_requests'[c] # q
    <2>1. ASSUME NEW q \in Found(C)
          PROVE  state'[q] = "parked" /\ \A c \in Clients : pending_requests'[c] # q
      BY <1>1, <1>2, <1>3, <1>4, <2>1
    <2>2. ASSUME NEW q \in dangling \ R
          PROVE  state'[q] = "parked" /\ \A c \in Clients : pending_requests'[c] # q
      BY <1>2, <1>4, <2>2 DEF ParkInv
    <2> QED
      BY <2>1, <2>2
  <1>8. \A q \in Requests : state'[q] = "parked" => poll'[q].me \in Clients
    BY DEF ParkInv
  <1>9. \A t \in Threads : pc'[t] \in PollPCs =>
           /\ state'[call'[t].request] = "serving"
           /\ poll'[call'[t].request].me = call'[t].me
           /\ \A u \in Threads \ {t} : pc'[u] \in PollPCs => call'[u].request # call'[t].request
    <2>1. \A t \in Threads : pc[t] \in PollPCs => call[t].request \in Requests \ R
      BY DEF ParkInv, PollTypeInv
    <2> QED
      BY <2>1 DEF ParkInv
  <1> QED
    BY <1>5, <1>6, <1>7, <1>8, <1>9 DEF ParkInv

(* Steps that touch neither pending_requests nor a request. *)
LEMMA ParkQuiet ==
  ASSUME PollTypeInv, NEW t \in Threads,
         \/ Start(t) /\ UNCHANGED parking
         \/ PollWait(t) \/ (PostCheck(t) /\ ~ Die) \/ PostIncr(t) \/ PostPush(t) \/ PostStore(t)
         \/ PostWaiting(t) \/ First(t) \/ Second(t) \/ Roster(t)
  PROVE  ParkFrame
  <1> USE DEF ParkFrame, PollPCs, At, Goto
  <1>0. pc \in [Threads -> PCs] /\ call \in [Threads -> Calls \cup {NoCall}]
    BY DEF PollTypeInv, TypeOK
  <1>1. CASE Start(t) /\ UNCHANGED parking
    <2>1. ASSUME NEW request, NEW label \in {"groups", "first", "erase"}, Serve(t, request, label)
          PROVE  ParkFrame
      BY <1>0, <1>1, <2>1 DEF Serve
    <2>2. ASSUME NEW c \in Clients, NEW r \in Requests, NEW g, NEW n, StartPoll(t, c, g, n, r)
          PROVE  FALSE
      BY <1>1, <2>2 DEF StartPoll, parking, PollTypeInv, TypeOK
    <2> QED
      BY <1>1, <2>1, <2>2 DEF Start, StartPost, StartChange, StartLogin
  <1>2. CASE PollWait(t)
    BY <1>0, <1>2 DEF PollWait
  <1>3. CASE PostCheck(t) /\ ~ Die
    BY <1>0, <1>3 DEF PostCheck, Done
  <1>4. CASE PostIncr(t)
    BY <1>0, <1>4 DEF PostIncr
  <1>5. CASE PostPush(t) \/ PostStore(t)
    BY <1>0, <1>5 DEF PostPush, PostStore
  <1>6. CASE PostWaiting(t)
    BY <1>0, <1>6 DEF PostWaiting
  <1>7. CASE First(t) \/ Second(t)
    BY <1>0, <1>7 DEF First, Second, GoOn, Done
  <1>8. CASE Roster(t)
    BY <1>0, <1>8 DEF Roster
  <1> QED
    BY <1>1, <1>2, <1>3, <1>4, <1>5, <1>6, <1>7, <1>8

LEMMA ParkStep == PollTypeInv /\ ParkInv /\ [Next]_vars => ParkInv'
  <1> SUFFICES ASSUME PollTypeInv, ParkInv, [Next]_vars
               PROVE  ParkInv'
    OBVIOUS
  <1> USE DEF At, Goto
  <1>0. /\ TypeOK
        /\ \A u \in Threads : pc[u] # "idle" =>
              call[u].me \in Clients /\ call[u].audience \in SUBSET Clients
        /\ \A u \in Threads : pc[u] \in PollPCs =>
              /\ call[u].request \in Requests /\ state[call[u].request] = "serving"
              /\ poll[call[u].request].me = call[u].me
              /\ \A v \in Threads \ {u} : pc[v] \in PollPCs => call[v].request # call[u].request
    BY DEF PollTypeInv, Calls, ParkInv
  <1>1. ASSUME NEW t \in Threads, NEW c \in Clients, NEW g \in Groups \cup {Lobby},
               NEW n \in 0 .. MaxMsgs, NEW r \in Requests, StartPoll(t, c, g, n, r)
        PROVE  ParkInv'
    <2>1. /\ state[r] = "free" /\ state' = [state EXCEPT ![r] = "serving"]
          /\ poll' = [poll EXCEPT ![r] = [me |-> c, group |-> g, known |-> n]]
          /\ call' = [call EXCEPT ![t] = [Request(c, g, "poll") EXCEPT !.request = r]]
          /\ pc' = [pc EXCEPT ![t] = FirstRead(g)] /\ pc[t] = "idle"
          /\ UNCHANGED <<pending_requests, dangling>>
      BY <1>1 DEF StartPoll, Serve
    <2>2. [Request(c, g, "poll") EXCEPT !.request = r].request = r
          /\ [Request(c, g, "poll") EXCEPT !.request = r].me = c
      BY DEF Request
    <2>3. /\ \A q \in Requests : q # r => state'[q] = state[q] /\ poll'[q] = poll[q]
          /\ state'[r] = "serving" /\ poll'[r].me = c
          /\ \A u \in Threads : u # t => pc'[u] = pc[u] /\ call'[u] = call[u]
          /\ call'[t].request = r /\ call'[t].me = c
      BY <1>0, <2>1, <2>2 DEF TypeOK
    <2>4. \A u \in Threads : pc[u] \in PollPCs => u # t /\ call[u].request # r
      BY <1>0, <2>1 DEF PollPCs
    <2>5. r \notin dangling /\ \A d \in Clients : pending_requests[d] # r
      BY <2>1, PollAssumption DEF ParkInv, PendingSound
    <2>6. PendingSound'
      BY <1>0, <2>1, <2>3, <2>5 DEF PendingSound, ParkInv, TypeOK
    <2>7. ParkedIsPending'
      BY <2>1, <2>3 DEF ParkedIsPending, ParkInv
    <2>8. \A u \in Threads : pc'[u] \in PollPCs =>
            /\ state'[call'[u].request] = "serving"
            /\ poll'[call'[u].request].me = call'[u].me
            /\ \A v \in Threads \ {u} : pc'[v] \in PollPCs => call'[v].request # call'[u].request
      BY <1>0, <2>3, <2>4
    <2>9. /\ \A q \in Requests : state'[q] = "parked" => poll'[q].me \in Clients
          /\ \A q \in dangling : state'[q] = "parked" /\ \A d \in Clients : pending_requests'[d] # q
      BY <1>0, <2>1, <2>3, <2>5 DEF ParkInv, TypeOK
    <2> QED
      BY <2>1, <2>6, <2>7, <2>8, <2>9 DEF ParkInv
  <1>2. ASSUME NEW t \in Threads, PollRead(t)
        PROVE  ParkInv'
    <2> DEFINE r == call[t].request
    <2>1. CASE Unread(call[t].group, poll[r].known) # {}
      <3>1. state' = Answered({r}) /\ Done(t) /\ UNCHANGED <<pending_requests, poll, dangling>>
        BY <1>2, <2>1 DEF PollRead
      <3>2. r \in Requests /\ state[r] = "serving"
        BY <1>0, <1>2 DEF PollRead, PollPCs
      <3>3. /\ \A q \in Requests : q # r => state'[q] = state[q]
            /\ state'[r] = "done"
        BY <3>1, <3>2 DEF Answered
      <3>4. \A u \in Threads : pc'[u] \in PollPCs =>
               u # t /\ pc[u] \in PollPCs /\ call'[u] = call[u] /\ call[u].request # r
        BY <1>0, <1>2, <3>1, DoneStep DEF PollRead, PollPCs
      <3>5. r # NoRequest /\ r \notin dangling /\ \A c \in Clients : pending_requests[c] # r
        BY <3>2, PollAssumption DEF ParkInv, PendingSound
      <3> HIDE DEF r
      <3>6. PendingSound'
        <4>1. \A c \in Clients : pending_requests[c] # NoRequest =>
                 pending_requests[c] \in Requests \ {r}
          BY <1>0, <3>5 DEF TypeOK
        <4>2. UNCHANGED <<pending_requests, poll>>
          BY <3>1
        <4>3. \A q \in Requests \ {r} : state'[q] = state[q]
          BY <3>3
        <4> QED
          BY <4>1, <4>2, <4>3 DEF ParkInv, PendingSound
      <3>7. ParkedIsPending'
        BY <3>1, <3>3 DEF ParkInv, ParkedIsPending
      <3>8. \A u \in Threads : pc'[u] \in PollPCs =>
              /\ state'[call'[u].request] = "serving"
              /\ poll'[call'[u].request].me = call'[u].me
              /\ \A v \in Threads \ {u} : pc'[v] \in PollPCs => call'[v].request # call'[u].request
        <4>1. \A u \in Threads : pc'[u] \in PollPCs => call[u].request \in Requests \ {r}
          BY <1>0, <3>4
        <4>2. \A q \in Requests \ {r} : state'[q] = state[q] /\ poll'[q] = poll[q]
          BY <3>1, <3>3
        <4> QED
          BY <1>0, <3>4, <4>1, <4>2
      <3>9. /\ \A q \in Requests : state'[q] = "parked" => poll'[q].me \in Clients
            /\ \A q \in dangling' : /\ state'[q] = "parked"
                                    /\ \A c \in Clients : pending_requests'[c] # q
        <4>1. dangling \subseteq Requests \ {r}
          BY <1>0, <3>5 DEF TypeOK
        <4> QED
          BY <3>1, <3>3, <4>1 DEF ParkInv
      <3> QED
        BY <3>6, <3>7, <3>8, <3>9 DEF ParkInv
    <2>2. CASE Unread(call[t].group, poll[r].known) = {}
      <3>1. ParkFrame
        BY <1>0, <1>2, <2>2 DEF PollRead, ParkFrame, PollPCs, parking, TypeOK
      <3> QED
        BY <1>0, <3>1, ParkFrameStep
    <2> QED
      BY <2>1, <2>2
  <1>3. ASSUME NEW t \in Threads, PollPark(t)
        PROVE  ParkInv'
    <2> DEFINE r == call[t].request
               c == call[t].me
               F == Found({c})
    <2>1. /\ r \in Requests /\ c \in Clients /\ state[r] = "serving" /\ poll[r].me = c
          /\ \A u \in Threads \ {t} : pc[u] \in PollPCs => call[u].request # r
      BY <1>0, <1>3 DEF PollPark, PollPCs
    <2>2. F \subseteq Requests /\ \A q \in F : state[q] = "parked" /\ poll[q].me = c
      BY <1>0, <2>1, FoundRequests DEF Found, ParkInv, PendingSound
    <2>3. r # NoRequest /\ r \notin dangling /\ r \notin F
          /\ \A d \in Clients : pending_requests[d] # r
      <3> HIDE DEF r, c, F
      <3> QED
        BY <2>1, <2>2, PollAssumption DEF ParkInv, PendingSound
    <2>4. /\ Done(t) /\ UNCHANGED <<poll, dangling>>
          /\ state' = [Answered(F) EXCEPT ![r] = "parked"]
          /\ pending_requests' = [pending_requests EXCEPT ![c] = r]
      BY <1>3 DEF PollPark, Displaced
    <2>5. /\ \A q \in Requests : q # r => state'[q] = IF q \in F THEN "done" ELSE state[q]
          /\ state'[r] = "parked"
      BY <2>1, <2>4 DEF Answered
    <2>6. /\ \A d \in Clients : d # c => pending_requests'[d] = pending_requests[d]
          /\ pending_requests'[c] = r
          /\ \A d \in Clients : pending_requests[d] \in Requests \cup {NoRequest}
      BY <1>0, <2>1, <2>4 DEF TypeOK
    <2>7. pending_requests[c] # NoRequest => pending_requests[c] \in F
      BY DEF Found
    <2>8. \A u \in Threads : pc'[u] \in PollPCs => u # t /\ pc[u] \in PollPCs /\ call'[u] = call[u]
      BY <1>0, <2>4, DoneStep DEF PollPCs
    <2> HIDE DEF r, c, F
    <2>9. PendingSound'
      BY <2>1, <2>2, <2>3, <2>4, <2>5, <2>6 DEF ParkInv, PendingSound
    <2>10. ParkedIsPending'
      <3>1. ASSUME NEW q \in Requests, state'[q] = "parked", q \notin dangling, q # r
            PROVE  pending_requests'[poll[q].me] = q
        <4>1. q \notin F /\ state[q] = "parked"
          BY <2>5, <3>1
        <4>2. poll[q].me \in Clients /\ pending_requests[poll[q].me] = q /\ q # NoRequest
          BY <3>1, <4>1, PollAssumption DEF ParkInv, ParkedIsPending
        <4> QED
          BY <2>6, <2>7, <4>1, <4>2
      <3> QED
        BY <2>1, <2>4, <2>6, <3>1 DEF ParkedIsPending
    <2>11. \A q \in dangling' : state'[q] = "parked" /\ \A d \in Clients : pending_requests'[d] # q
      <3>1. \A q \in dangling : q \in Requests /\ q # NoRequest /\ q \notin F
        <4>1. \A q \in F : \E d \in Clients : pending_requests[d] = q
          BY <2>1 DEF F, Found
        <4> QED
          BY <1>0, <4>1, PollAssumption DEF TypeOK, ParkInv
      <3> QED
        BY <2>3, <2>4, <2>5, <2>6, <3>1 DEF ParkInv
    <2>12. \A q \in Requests : state'[q] = "parked" => poll'[q].me \in Clients
      BY <2>1, <2>4, <2>5 DEF ParkInv
    <2>13. \A u \in Threads : pc'[u] \in PollPCs =>
             /\ state'[call'[u].request] = "serving"
             /\ poll'[call'[u].request].me = call'[u].me
             /\ \A v \in Threads \ {u} : pc'[v] \in PollPCs => call'[v].request # call'[u].request
      BY <1>0, <2>1, <2>2, <2>4, <2>5, <2>8
    <2> QED
      BY <2>9, <2>10, <2>11, <2>12, <2>13 DEF ParkInv
  <1>a. ASSUME NEW t \in Threads, pc[t] # "idle", Done(t), state' = Answered(Found(Woken(t))),
               pending_requests' = Erased(Woken(t)), UNCHANGED <<poll, dangling>>
        PROVE  ParkInv'
    <2>1. Woken(t) \in SUBSET Clients
      BY <1>0, <1>a DEF Woken
    <2>2. \A u \in Threads : pc'[u] \in PollPCs => pc[u] \in PollPCs /\ call'[u] = call[u]
      BY <1>0, <1>a, DoneStep DEF PollPCs
    <2> QED
      BY <1>a, <2>1, <2>2, ParkWake
  <1>4. ASSUME NEW t \in Threads, PostWake(t) \/ Announce(t)
        PROVE  ParkInv'
    BY <1>4, <1>a DEF PostWake, Announce
  <1>5. ASSUME NEW t \in Threads, LoginErase(t)
        PROVE  ParkInv'
    <2>1. {call[t].me} \in SUBSET Clients
      BY <1>0, <1>5 DEF LoginErase
    <2>2. \A u \in Threads : pc'[u] \in PollPCs => pc[u] \in PollPCs /\ call'[u] = call[u]
      BY <1>0, <1>5, DoneStep DEF LoginErase, PollPCs
    <2>3. {} \in SUBSET dangling
      OBVIOUS
    <2> QED
      BY <1>5, <2>1, <2>2, <2>3, ParkLoose DEF LoginErase
  <1>6. ASSUME NEW r \in Requests, Closed(r)
        PROVE  /\ \A q \in Requests \ {r} : state'[q] = state[q] /\ poll'[q] = poll[q]
               /\ state'[r] = "free"
    BY <1>0, <1>6 DEF Closed, TypeOK
  <1>7. ASSUME NEW r \in Requests, Closed(r), r \notin dangling, UNCHANGED <<dangling, pc, call>>,
               state[r] # "serving",
               \A c \in Clients : pending_requests'[c] =
                  IF pending_requests[c] = r THEN NoRequest ELSE pending_requests[c]
        PROVE  ParkInv'
    <2>1. \A u \in Threads : pc[u] \in PollPCs => call[u].request # r
      BY <1>0, <1>7
    <2>2. NoRequest \notin Requests /\ dangling \subseteq Requests
          /\ \A c \in Clients : pending_requests[c] \in Requests \cup {NoRequest}
      BY <1>0, PollAssumption DEF TypeOK
    <2>3. PendingSound'
      BY <1>6, <1>7, <2>2 DEF PendingSound, ParkInv
    <2>4. ParkedIsPending'
      BY <1>6, <1>7, <2>2 DEF ParkedIsPending, ParkInv
    <2>5. \A u \in Threads : pc'[u] \in PollPCs =>
             /\ state'[call'[u].request] = "serving"
             /\ poll'[call'[u].request].me = call'[u].me
             /\ \A v \in Threads \ {u} : pc'[v] \in PollPCs => call'[v].request # call'[u].request
      BY <1>0, <1>6, <1>7, <2>1
    <2>6. /\ \A q \in Requests : state'[q] = "parked" => poll'[q].me \in Clients
          /\ \A q \in dangling' : /\ state'[q] = "parked"
                                  /\ \A c \in Clients : pending_requests'[c] # q
      BY <1>6, <1>7, <2>2 DEF ParkInv
    <2> QED
      BY <2>3, <2>4, <2>5, <2>6 DEF ParkInv
  <1>8. ASSUME NEW r \in Requests, Disconnect(r)
        PROVE  ParkInv'
    <2>1. CASE r \notin dangling
      <3>1. /\ Closed(r) /\ pending_requests' = Erased({poll[r].me}) /\ state[r] = "parked"
            /\ UNCHANGED <<dangling, pc, call>>
        BY <1>8, <2>1 DEF Disconnect, FiniErased
      <3>2. pending_requests[poll[r].me] = r /\ r # NoRequest
        BY <2>1, <3>1, PollAssumption DEF ParkInv, ParkedIsPending
      <3>3. \A c \in Clients : pending_requests[c] = r => c = poll[r].me
        BY <3>2 DEF ParkInv, PendingSound
      <3>4. \A c \in Clients : pending_requests'[c] =
               IF pending_requests[c] = r THEN NoRequest ELSE pending_requests[c]
        BY <3>1, <3>2, <3>3 DEF Erased
      <3> QED
        BY <1>7, <2>1, <3>1, <3>4
    <2>2. CASE r \in dangling /\ ~ Die
      <3>1. PICK C \in {{}} \cup {{c} : c \in Clients} :
               /\ Closed(r) /\ pending_requests' = Erased(C)
               /\ dangling' = (dangling \ {r}) \cup Found(C)
               /\ UNCHANGED <<pc, call>>
        BY <1>8, <2>2 DEF Disconnect
      <3>2. C \in SUBSET Clients /\ {r} \in SUBSET dangling
        BY <2>2
      <3> QED
        BY <1>6, <3>1, <3>2, ParkLoose
    <2> QED
      BY <1>8, <2>1, <2>2, ParkDie DEF Disconnect
  <1>9. ASSUME NEW r \in Requests, Recycle(r)
        PROVE  ParkInv'
    <2>1. r \notin dangling /\ r # NoRequest /\ \A c \in Clients : pending_requests[c] # r
      BY <1>9, PollAssumption DEF Recycle, ParkInv, PendingSound
    <2> QED
      BY <1>7, <1>9, <2>1 DEF Recycle
  <1>10. CASE Crash
    BY <1>10, ParkDie DEF Crash
  <1>11. CASE UNCHANGED vars
    <2>1. ParkFrame
      BY <1>11 DEF vars, process, ParkFrame
    <2> QED
      BY <1>0, <2>1, ParkFrameStep
  <1>12. ASSUME NEW t \in Threads, Start(t)
         PROVE  ParkInv'
    <2>1. CASE UNCHANGED parking
      BY <1>0, <1>12, <2>1, ParkQuiet, ParkFrameStep
    <2>2. CASE ~ UNCHANGED parking
      <3>1. 0 \in 0 .. MaxMsgs
        BY PollAssumption
      <3> QED
        BY <1>1, <1>12, <2>2, <3>1 DEF Start, StartPost, StartChange, StartLogin
    <2> QED
      BY <2>1, <2>2
  <1>13. ASSUME NEW t \in Threads, PostCheck(t)
         PROVE  ParkInv'
    BY <1>0, <1>13, ParkQuiet, ParkFrameStep, ParkDie
  <1> QED
    BY <1>0, <1>2, <1>3, <1>4, <1>5, <1>8, <1>9, <1>10, <1>11, <1>12, <1>13, ParkQuiet, ParkFrameStep
    DEF Next, Step, PollStep, PostStep, ChangeStep, RejectMalformed

(* pending_requests names nothing but open requests of the client it names *)
(* them under, for any number of threads, clients and requests.            *)
THEOREM PendingIsOpen == Spec => []PendingSound
  <1>1. ParkInv => PendingSound
    BY DEF ParkInv
  <1> QED
    BY PollTyping, ParkInit, ParkStep, <1>1, PTL DEF Spec

(* Every parked request but one that a login has cut loose can be found by *)
(* whoever has news for its client.                                        *)
THEOREM ParkedAreFound == Spec => []ParkedIsPending
  <1>1. ParkInv => ParkedIsPending
    BY DEF ParkInv
  <1> QED
    BY PollTyping, ParkInit, ParkStep, <1>1, PTL DEF Spec
=============================================================================
