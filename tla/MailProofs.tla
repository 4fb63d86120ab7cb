------------------------------ MODULE MailProofs ------------------------------
(***************************************************************************)
(* What polling delivers: LongPoll implements Mailbox, for any number of   *)
(* threads, clients, groups and requests, with crashes anywhere and hooks  *)
(* that point to keys that are gone; pages that are read one after another *)
(* leave no message out.  On one thread a reply can be read, and no parked *)
(* request sleeps over news.                                               *)
(***************************************************************************)
EXTENDS LongPollProofs

-----------------------------------------------------------------------------
(* The lists of messages *)

(* LPUSH: the new id is the first, the others move up by one.              *)
LEMMA Pushed ==
  ASSUME NEW s \in Seq(Ids), NEW m \in Ids
  PROVE  /\ Len(<<m>> \o s) = Len(s) + 1
         /\ (<<m>> \o s)[1] = m
         /\ \A i \in 1 .. Len(s) : (<<m>> \o s)[i + 1] = s[i]
         /\ \A i \in 2 .. Len(s) + 1 : (<<m>> \o s)[i] = s[i - 1]
         /\ \A n \in Int : n <= Len(s) =>
               {(<<m>> \o s)[i] : i \in 1 .. n + 1} \subseteq {m} \cup {s[i] : i \in 1 .. n}
  <1>1. Len(s) \in Nat
    OBVIOUS
  <1>2. /\ Len(<<m>> \o s) = Len(s) + 1
        /\ (<<m>> \o s)[1] = m
        /\ \A i \in 2 .. Len(s) + 1 : (<<m>> \o s)[i] = s[i - 1]
    <2>1. <<m>> \in Seq(Ids) /\ Len(<<m>>) = 1 /\ <<m>>[1] = m
      OBVIOUS
    <2>2. /\ Len(<<m>> \o s) = Len(<<m>>) + Len(s)
          /\ \A i \in 1 .. Len(<<m>>) + Len(s) : (<<m>> \o s)[i] =
                IF i <= Len(<<m>>) THEN <<m>>[i] ELSE s[i - Len(<<m>>)]
      BY <2>1, ConcatProperties
    <2> QED
      BY <1>1, <2>1, <2>2
  <1> HIDE DEF Ids
  <1>3. \A i \in 1 .. Len(s) : i + 1 \in 2 .. Len(s) + 1 /\ (i + 1) - 1 = i
    BY <1>1
  <1>4. \A i \in 1 .. Len(s) : (<<m>> \o s)[i + 1] = s[i]
    BY <1>2, <1>3
  <1>5. ASSUME NEW n \in Int, n <= Len(s), NEW i \in 1 .. n + 1
        PROVE  (<<m>> \o s)[i] \in {m} \cup {s[j] : j \in 1 .. n}
    <2>1. CASE i = 1
      BY <1>2, <2>1
    <2>2. CASE i # 1
      <3>1. i \in 2 .. Len(s) + 1 /\ i - 1 \in 1 .. n
        BY <1>1, <1>5, <2>2
      <3> QED
        BY <1>2, <3>1
    <2> QED
      BY <2>1, <2>2
  <1> QED
    BY <1>2, <1>4, <1>5

(* An id that is listed is at some place of some list.                     *)
Listed(lists) == UNION {{lists[g][i] : i \in DOMAIN lists[g]} : g \in Groups}

LEMMA ListedAre ==
  ASSUME NEW lists \in [Groups -> Seq(Ids)]
  PROVE  /\ Listed(lists) \subseteq Ids
         /\ \A g \in Groups : \A i \in 1 .. Len(lists[g]) : lists[g][i] \in Listed(lists)
         /\ \A m \in Listed(lists) :
               \E g \in Groups : \E i \in 1 .. Len(lists[g]) : m = lists[g][i]
  <1>1. \A g \in Groups : /\ lists[g] \in Seq(Ids)
                          /\ DOMAIN lists[g] = 1 .. Len(lists[g])
                          /\ \A i \in 1 .. Len(lists[g]) : lists[g][i] \in Ids
    OBVIOUS
  <1> HIDE DEF Ids
  <1> QED
    BY <1>1 DEF Listed

LEMMA PostedAre ==
  ASSUME TypeOK
  PROVE  /\ Posted \subseteq Ids
         /\ \A g \in Groups : \A i \in 1 .. Len(messages[g]) : messages[g][i] \in Posted
         /\ \A m \in Posted : \E g \in Groups : \E i \in 1 .. Len(messages[g]) : m = messages[g][i]
  BY ListedAre DEF Posted, Listed, TypeOK

LEMMA PushPosts ==
  ASSUME PollTypeInv, TypeOK', NEW t \in Threads, PostPush(t)
  PROVE  Posted' = Posted \cup {call[t].msg}
  <1> DEFINE g0 == call[t].group
             m0 == call[t].msg
  <1>1. /\ g0 \in Groups /\ m0 \in Ids
        /\ messages' = [messages EXCEPT ![g0] = <<m0>> \o @]
    BY DEF PostPush, At, PollTypeInv, PostPCs
  <1>2. /\ messages[g0] \in Seq(Ids) /\ messages'[g0] = <<m0>> \o messages[g0]
        /\ \A g \in Groups : g # g0 => messages'[g] = messages[g]
    BY <1>1 DEF PollTypeInv, TypeOK
  <1>3. /\ Len(messages'[g0]) = Len(messages[g0]) + 1 /\ Len(messages[g0]) \in Nat
        /\ messages'[g0][1] = m0
        /\ \A i \in 1 .. Len(messages[g0]) : messages'[g0][i + 1] = messages[g0][i]
        /\ \A i \in 2 .. Len(messages[g0]) + 1 : messages'[g0][i] = messages[g0][i - 1]
    BY <1>1, <1>2, Pushed
  <1> HIDE DEF g0, m0
  <1>4. \A m \in Posted' : m \in Posted \cup {m0}
    <2>1. ASSUME NEW g \in Groups, NEW i \in 1 .. Len(messages'[g])
          PROVE  messages'[g][i] \in Posted \cup {m0}
      <3>1. CASE g # g0
        BY <1>2, <2>1, <3>1, PostedAre DEF PollTypeInv
      <3>2. CASE g = g0 /\ i = 1
        BY <1>3, <3>2
      <3>3. CASE g = g0 /\ i # 1
        <4>1. i \in 2 .. Len(messages[g0]) + 1 /\ i - 1 \in 1 .. Len(messages[g0])
          BY <1>3, <2>1, <3>3
        <4> QED
          BY <1>1, <1>3, <3>3, <4>1, PostedAre DEF PollTypeInv
      <3> QED
        BY <3>1, <3>2, <3>3
    <2>2. \A m \in Posted' : \E g \in Groups : \E i \in 1 .. Len(messages'[g]) : m = messages'[g][i]
      BY ListedAre DEF Posted, Listed, TypeOK
    <2> QED
      BY <2>1, <2>2
  <1>5. \A m \in Posted \cup {m0} : m \in Posted'
    <2>1. \A g \in Groups : \A i \in 1 .. Len(messages'[g]) : messages'[g][i] \in Posted'
      BY ListedAre DEF Posted, Listed, TypeOK
    <2>2. m0 \in Posted'
      BY <1>1, <1>3, <2>1
    <2>3. ASSUME NEW g \in Groups, NEW i \in 1 .. Len(messages[g])
          PROVE  messages[g][i] \in Posted'
      <3>1. CASE g # g0
        BY <1>2, <2>1, <2>3, <3>1
      <3>2. CASE g = g0
        <4>1. i + 1 \in 1 .. Len(messages'[g0])
          BY <1>3, <2>3, <3>2
        <4> QED
          BY <1>1, <1>3, <2>1, <2>3, <3>2, <4>1
      <3> QED
        BY <3>1, <3>2
    <2> QED
      BY <2>2, <2>3, PostedAre DEF PollTypeInv
  <1> QED
    BY <1>4, <1>5 DEF m0

-----------------------------------------------------------------------------
(* The mailbox *)

Stages == [r \in Requests |-> Stage(r)]

(* What a step leaves that does not count or list an id.                   *)
PostersKeep ==
  /\ UNCHANGED <<messages, messagesCounter>>
  /\ \A t \in Threads :
        /\ pc'[t] = "lpush" => pc[t] = "lpush" /\ call'[t].msg = call[t].msg
        /\ pc'[t] \in {"hmset", "smembers", "wake"} =>
              pc[t] \in {"hmset", "smembers", "wake"} /\ call'[t].msg = call[t].msg

(* A handler that returns has nothing in hand.                             *)
LEMMA PostersDone ==
  ASSUME TypeOK, NEW t \in Threads, Done(t), UNCHANGED <<messages, messagesCounter>>
  PROVE  PostersKeep
  BY DoneStep DEF PostersKeep

(* A request is open while it is served or parked.                         *)
LEMMA StageStep ==
  ASSUME TypeOK, NEW r \in Requests
  PROVE  /\ state[r] = "free" => Stage(r) = "closed"
         /\ state[r] \in {"serving", "parked"} => Stage(r) = "open"
         /\ state[r] = "done" => Stage(r) = "answered"
         /\ state'[r] = "free" => Stage(r)' = "closed"
         /\ state'[r] \in {"serving", "parked"} => Stage(r)' = "open"
         /\ state'[r] = "done" => Stage(r)' = "answered"
         /\ state'[r] = state[r] => Stage(r)' = Stage(r)
  <1>1. state[r] \in {"free", "serving", "parked", "done"}
    BY DEF TypeOK
  <1> QED
    BY <1>1 DEF Stage

(* The actions of the mailbox, stated of the requests' states.             *)
LEMMA MailInit == Init => MailInv /\ Mail!Init
  <1> SUFFICES ASSUME Init
               PROVE  MailInv /\ Mail!Init
    OBVIOUS
  <1>1. Posted = {}
    BY DEF Init, Posted
  <1>2. MailInv
    BY <1>1 DEF Init, MailInv
  <1> QED
    BY <1>1, <1>2 DEF Init, Mail!Init, Stage

(* What is left to show where ids are neither counted nor listed.          *)
LEMMA RepliesSuffice ==
  ASSUME MailInv, PostersKeep,
         \A r \in Requests : got'[r] \subseteq Posted /\ (state'[r] # "done" => got'[r] = {})
  PROVE  MailInv'
  <1>1. Posted' = Posted /\ messagesCounter' = messagesCounter
    BY DEF PostersKeep, Posted
  <1>2. \A t \in Threads :
          /\ pc'[t] = "lpush" =>
                /\ call'[t].msg \in (1 .. messagesCounter) \ Posted
                /\ \A u \in Threads \ {t} : pc'[u] = "lpush" => call'[u].msg # call'[t].msg
          /\ pc'[t] \in {"hmset", "smembers", "wake"} => call'[t].msg \in Posted
    BY DEF MailInv, PostersKeep
  <1> QED
    BY <1>1, <1>2 DEF MailInv

LEMMA Stutters ==
  ASSUME MailInv, PostersKeep, UNCHANGED <<Stages, got>>,
         \A r \in Requests : state[r] = "done" => state'[r] = "done"
  PROVE  MailInv' /\ [Mail!Next]_Mail!vars
  <1>1. Posted' = Posted
    BY DEF PostersKeep, Posted
  <1>2. \A q \in Requests : got[q] \subseteq Posted /\ (state[q] # "done" => got[q] = {})
    BY DEF MailInv
  <1>3. MailInv'
    BY <1>2, RepliesSuffice
  <1> QED
    BY <1>1, <1>3 DEF Mail!vars, Stages

LEMMA Opens ==
  ASSUME TypeOK, MailInv, PostersKeep, NEW r \in Requests, state[r] = "free",
         state' = [state EXCEPT ![r] = "serving"], got' = got
  PROVE  MailInv' /\ Mail!Next
  <1>1. Posted' = Posted
    BY DEF PostersKeep, Posted
  <1>2. \A q \in Requests : state'[q] = IF q = r THEN "serving" ELSE state[q]
    BY DEF TypeOK
  <1>3. MailInv'
    <2>1. \A q \in Requests : got[q] \subseteq Posted /\ (state[q] # "done" => got[q] = {})
      BY DEF MailInv
    <2> QED
      BY <1>2, <2>1, RepliesSuffice
  <1>4. Stages[r] = "closed" /\ Stages' = [Stages EXCEPT ![r] = "open"]
    BY <1>2, StageStep DEF Stages
  <1>5. Mail!Open(r)
    BY <1>1, <1>4 DEF Mail!Open, Stages
  <1> QED
    BY <1>3, <1>5 DEF Mail!Next

(* The requests of R are answered, the others stay at their stage.         *)
AnsweredWith(R, ids) ==
  /\ \A r \in R : state[r] \in {"serving", "parked"} /\ state'[r] = "done"
  /\ \A r \in Requests \ R : /\ state[r] = "done" => state'[r] = "done"
                             /\ Stage(r)' = Stage(r)
  /\ \A r \in Requests : got'[r] = IF r \in R THEN ids ELSE got[r]

LEMMA Answers ==
  ASSUME TypeOK, TypeOK', MailInv, PostersKeep,
         NEW R \in SUBSET Requests, NEW ids \in SUBSET Posted, AnsweredWith(R, ids)
  PROVE  MailInv' /\ Mail!Next
  <1>0. /\ \A r \in R : state[r] \in {"serving", "parked"} /\ state'[r] = "done"
        /\ \A r \in Requests \ R : /\ state[r] = "done" => state'[r] = "done"
                                   /\ Stage(r)' = Stage(r)
        /\ got' \in [Requests -> SUBSET Ids]
        /\ \A r \in Requests : got'[r] = IF r \in R THEN ids ELSE got[r]
    BY DEF AnsweredWith, TypeOK
  <1>1. Posted' = Posted
    BY DEF PostersKeep, Posted
  <1>2. MailInv'
    <2>1. \A q \in Requests : got[q] \subseteq Posted /\ (state[q] # "done" => got[q] = {})
      BY DEF MailInv
    <2> QED
      BY <1>0, <2>1, RepliesSuffice
  <1>3. \A r \in R : Stages[r] = "open"
    BY <1>0, StageStep DEF Stages
  <1>4. \A r \in R : Stage(r)' = "answered"
    BY <1>0, StageStep
  <1>5. Stages' = [r \in Requests |-> IF r \in R THEN "answered" ELSE Stages[r]]
    BY <1>0, <1>4 DEF Stages
  <1>6. got' = [r \in Requests |-> IF r \in R THEN ids ELSE got[r]]
    BY <1>0
  <1>7. Mail!Answer(R, ids)
    BY <1>1, <1>3, <1>5, <1>6 DEF Mail!Answer, Stages
  <1>8. R \in SUBSET {r \in Requests : Stages[r] = "open"}
    BY <1>3
  <1> QED
    BY <1>2, <1>7, <1>8 DEF Mail!Next, Stages

(* One request ends, or all do with the process.                           *)
LEMMA Closes ==
  ASSUME TypeOK, MailInv, PostersKeep, NEW R \in SUBSET Requests,
         R = Requests \/ \E r \in Requests : R = {r},
         state' = [r \in Requests |-> IF r \in R THEN "free" ELSE state[r]],
         got' = [r \in Requests |-> IF r \in R THEN {} ELSE got[r]]
  PROVE  MailInv' /\ Mail!Next
  <1>1. Posted' = Posted
    BY DEF PostersKeep, Posted
  <1>2. MailInv'
    <2>1. \A q \in Requests : got[q] \subseteq Posted /\ (state[q] # "done" => got[q] = {})
      BY DEF MailInv
    <2>2. \A q \in Requests : /\ got'[q] = IF q \in R THEN {} ELSE got[q]
                             /\ state'[q] = IF q \in R THEN "free" ELSE state[q]
      OBVIOUS
    <2> QED
      BY <2>1, <2>2, RepliesSuffice
  <1>3. Stages' = [r \in Requests |-> IF r \in R THEN "closed" ELSE Stages[r]]
    <2>1. \A r \in Requests : Stage(r)' = IF r \in R THEN "closed" ELSE Stage(r)
      BY StageStep
    <2> QED
      BY <2>1 DEF Stages
  <1>4. Mail!Close(R)
    BY <1>1, <1>3 DEF Mail!Close, Stages
  <1> QED
    BY <1>2, <1>4 DEF Mail!Next

(* The end of the process ends every request and every handler.            *)
LEMMA DieCloses ==
  ASSUME TypeOK, MailInv, Die
  PROVE  MailInv' /\ Mail!Next
  <1>1. PostersKeep
    BY DEF Die, redis, PostersKeep
  <1>2. /\ state' = [r \in Requests |-> IF r \in Requests THEN "free" ELSE state[r]]
        /\ got' = [r \in Requests |-> IF r \in Requests THEN {} ELSE got[r]]
    BY DEF Die
  <1>3. Requests \in SUBSET Requests
    OBVIOUS
  <1> QED
    BY <1>1, <1>2, <1>3, Closes

(* Steps after which every request is where it was.                        *)
LEMMA MailQuiet ==
  ASSUME PollTypeInv, MailInv, NEW t \in Threads,
         \/ Start(t) /\ UNCHANGED state
         \/ (PollRead(t) /\ ~ Done(t)) \/ PollWait(t) \/ (PostCheck(t) /\ ~ Die)
         \/ PostStore(t) \/ PostWaiting(t) \/ First(t) \/ Second(t) \/ Roster(t)
         \/ LoginErase(t)
  PROVE  MailInv' /\ [Mail!Next]_Mail!vars
  <1> USE DEF At, Goto, redis, parking, history
  <1>0. TypeOK /\ pc \in [Threads -> PCs] /\ call \in [Threads -> Calls \cup {NoCall}]
    BY DEF PollTypeInv, TypeOK
  <1>a. ASSUME PostersKeep, UNCHANGED <<state, got>>
        PROVE  MailInv' /\ [Mail!Next]_Mail!vars
    <2>1. Stages' = Stages
      BY <1>a DEF Stages, Stage
    <2> QED
      BY <1>a, <2>1, Stutters
  <1>1. CASE Start(t) /\ UNCHANGED state
    <2>1. ASSUME NEW request, NEW label \in {"groups", "first", "erase"},
                 Serve(t, request, label), UNCHANGED <<redis, parking, history>>
          PROVE  PostersKeep
      BY <1>0, <2>1 DEF Serve, PostersKeep
    <2>2. ASSUME NEW c \in Clients, NEW r \in Requests, NEW g, NEW n, StartPoll(t, c, g, n, r)
          PROVE  FALSE
      BY <1>0, <1>1, <2>2 DEF StartPoll, TypeOK
    <2>3. PostersKeep /\ UNCHANGED <<state, got>>
      BY <1>1, <2>1, <2>2 DEF Start, StartPost, StartChange, StartLogin
    <2> QED
      BY <1>a, <2>3
  <1>2. CASE PollRead(t) /\ ~ Done(t)
    BY <1>0, <1>2, <1>a DEF PollRead, PostersKeep
  <1>3. CASE PollWait(t)
    BY <1>0, <1>3, <1>a DEF PollWait, PostersKeep
  <1>4. CASE PostCheck(t) /\ ~ Die
    <2>1. CASE Done(t)
      BY <1>0, <1>4, <1>a, <2>1, PostersDone DEF PostCheck
    <2>2. CASE ~ Done(t)
      BY <1>0, <1>4, <1>a, <2>2 DEF PostCheck, PostersKeep
    <2> QED
      BY <2>1, <2>2
  <1>5. CASE PostStore(t)
    BY <1>0, <1>5, <1>a DEF PostStore, PostersKeep
  <1>6. CASE PostWaiting(t)
    <2>1. call[t] \in Calls
      BY <1>6 DEF PostWaiting, PollTypeInv
    <2>2. call'[t].msg = call[t].msg /\ \A u \in Threads : u # t => call'[u] = call[u]
      BY <1>0, <1>6, <2>1 DEF PostWaiting, Calls
    <2>3. PostersKeep
      BY <1>0, <1>6, <2>2 DEF PostWaiting, PostersKeep
    <2> QED
      BY <1>6, <1>a, <2>3 DEF PostWaiting
  <1>7. CASE First(t) \/ Second(t)
    <2>1. CASE Done(t)
      BY <1>0, <1>7, <1>a, <2>1, PostersDone DEF First, Second
    <2>2. CASE ~ Done(t)
      BY <1>0, <1>7, <1>a, <2>2 DEF First, Second, GoOn, PostersKeep
    <2> QED
      BY <2>1, <2>2
  <1>8. CASE Roster(t)
    BY <1>0, <1>8, <1>a DEF Roster, PostersKeep
  <1>9. CASE LoginErase(t)
    BY <1>0, <1>9, <1>a, PostersDone DEF LoginErase
  <1> QED
    BY <1>1, <1>2, <1>3, <1>4, <1>5, <1>6, <1>7, <1>8, <1>9

(* Each step is one of the mailbox, or none. *)
LEMMA MailStep ==
  PollTypeInv /\ PollTypeInv' /\ ParkInv /\ MailInv /\ [Next]_vars
    => MailInv' /\ [Mail!Next]_Mail!vars
  <1> SUFFICES ASSUME PollTypeInv, PollTypeInv', ParkInv, MailInv, [Next]_vars
               PROVE  MailInv' /\ [Mail!Next]_Mail!vars
    OBVIOUS
  <1> USE DEF At, Goto
  <1>0. /\ TypeOK /\ TypeOK' /\ pc \in [Threads -> PCs] /\ call \in [Threads -> Calls \cup {NoCall}]
        /\ \A u \in Threads : pc[u] # "idle" =>
              call[u].me \in Clients /\ call[u].audience \in SUBSET Clients
        /\ \A u \in Threads : pc[u] \in PollPCs =>
              call[u].request \in Requests /\ state[call[u].request] = "serving"
    BY DEF PollTypeInv, TypeOK, Calls, ParkInv
  <1>a. ASSUME NEW C \in SUBSET Clients
        PROVE  Found(C) \in SUBSET Requests /\ \A r \in Found(C) : state[r] = "parked"
    BY <1>0, FoundRequests DEF Found, ParkInv, PendingSound
  <1>b. \A r \in Requests : got[r] \subseteq Posted /\ (state[r] # "done" => got[r] = {})
    BY DEF MailInv
  <1>1. ASSUME NEW t \in Threads, Start(t)
        PROVE  MailInv' /\ [Mail!Next]_Mail!vars
    <2>1. ASSUME NEW c, NEW r \in Requests, NEW g, NEW n, StartPoll(t, c, g, n, r)
          PROVE  MailInv' /\ Mail!Next
      <3>1. PostersKeep
        BY <1>0, <2>1 DEF StartPoll, Serve, FirstRead, redis, PostersKeep
      <3> QED
        BY <1>0, <2>1, <3>1, Opens DEF StartPoll, history
    <2>2. CASE UNCHANGED state
      BY <1>1, <2>2, MailQuiet
    <2>3. CASE ~ UNCHANGED state
      BY <1>1, <2>1, <2>3 DEF Start, StartPost, StartChange, StartLogin, parking
    <2> QED
      BY <2>2, <2>3
  <1>2. ASSUME NEW t \in Threads, PollRead(t), Done(t)
        PROVE  MailInv' /\ Mail!Next
    <2> DEFINE mine == call[t].request
               ids == Unread(call[t].group, poll[mine].known)
    <2>1. /\ pc[t] = "lrange" /\ mine \in Requests /\ state[mine] = "serving"
          /\ call[t].group \in Groups /\ poll[mine].known \in 0 .. MaxMsgs
      BY <1>0, <1>2 DEF PollRead, PollPCs, PollTypeInv, TypeOK
    <2>2. ids \in SUBSET Posted
      <3>1. /\ ids = {messages[call[t].group][i] :
                        i \in 1 .. Len(messages[call[t].group]) - poll[mine].known}
            /\ poll[mine].known \in Nat /\ Len(messages[call[t].group]) \in Nat
        <4>1. messages[call[t].group] \in Seq(Ids)
          BY <1>0, <2>1 DEF TypeOK
        <4>2. Len(messages[call[t].group]) \in Nat /\ poll[mine].known \in Nat
          BY <2>1, <4>1, PollAssumption
        <4> QED
          BY <1>0, <2>1, <4>2, UnreadAre
      <3>2. \A i \in 1 .. Len(messages[call[t].group]) - poll[mine].known :
               i \in 1 .. Len(messages[call[t].group])
        BY <3>1
      <3> QED
        BY <1>0, <2>1, <3>1, <3>2, PostedAre
    <2>3. /\ state' = Answered({mine}) /\ got' = Told({mine}, ids)
          /\ UNCHANGED <<messages, messagesCounter>>
      BY <1>0, <1>2, <2>1 DEF PollRead, Done, TypeOK, redis
    <2>4. PostersKeep
      BY <1>0, <1>2, <2>3, PostersDone
    <2> DEFINE F == {mine}
    <2> HIDE DEF mine, ids
    <2>5. /\ \A q \in Requests : state'[q] = IF q \in F THEN "done" ELSE state[q]
          /\ \A q \in Requests : got'[q] = IF q \in F THEN ids ELSE got[q]
      BY <1>0, <2>3 DEF Answered, Told, TypeOK
    <2>6. \A q \in Requests \ F : Stage(q)' = Stage(q)
      BY <1>0, <2>5, StageStep
    <2>7. TypeOK /\ F \in SUBSET Requests
      BY <1>0, <2>1
    <2>8. \A q \in F : state[q] \in {"serving", "parked"} /\ state'[q] = "done"
      BY <2>1, <2>5
    <2> HIDE DEF F
    <2>9. AnsweredWith(F, ids)
      <3>1. \A r \in F : state[r] \in {"serving", "parked"} /\ state'[r] = "done"
        BY <2>8
      <3>2. \A r \in Requests \ F : state[r] = "done" => state'[r] = "done"
        BY <2>5
      <3>3. \A r \in Requests \ F : Stage(r)' = Stage(r)
        BY <2>6
      <3>4. \A r \in Requests : got'[r] = IF r \in F THEN ids ELSE got[r]
        BY <2>5
      <3> QED
        BY <3>1, <3>2, <3>3, <3>4 DEF AnsweredWith
    <2> QED
      BY <1>0, <2>2, <2>4, <2>7, <2>9, Answers
  <1>3. ASSUME NEW t \in Threads, PollPark(t)
        PROVE  MailInv' /\ Mail!Next
    <2> DEFINE r == call[t].request
               F == Found({call[t].me})
               none == {}
    <2>1. /\ r \in Requests /\ state[r] = "serving" /\ {call[t].me} \in SUBSET Clients
      BY <1>0, <1>3 DEF PollPark, PollPCs
    <2>2. F \in SUBSET Requests /\ r \notin F /\ \A q \in F : state[q] = "parked"
      BY <1>a, <2>1
    <2>3. /\ state' = [Answered(F) EXCEPT ![r] = "parked"] /\ got' = got
          /\ Done(t) /\ UNCHANGED <<messages, messagesCounter>>
      BY <1>3 DEF PollPark, Displaced, redis, history
    <2>4. PostersKeep
      BY <1>0, <2>3, PostersDone
    <2> HIDE DEF r, F
    <2>5. \A q \in Requests : state'[q] = IF q \in F THEN "done" ELSE
                                          IF q = r THEN "parked" ELSE state[q]
      BY <2>1, <2>2, <2>3 DEF Answered
    <2>6. \A q \in Requests \ F : Stage(q)' = Stage(q)
      BY <1>0, <2>1, <2>5, StageStep
    <2>7. \A q \in Requests : got'[q] = IF q \in F THEN none ELSE got[q]
      BY <1>b, <2>2, <2>3
    <2>8. none \in SUBSET Posted
      OBVIOUS
    <2>9. \A q \in F : state[q] \in {"serving", "parked"} /\ state'[q] = "done"
      BY <2>1, <2>2, <2>5
    <2>10. \A q \in Requests \ F : /\ state[q] = "done" => state'[q] = "done"
                                   /\ Stage(q)' = Stage(q)
      BY <2>1, <2>2, <2>5, <2>6
    <2>11. AnsweredWith(F, none)
      BY <2>7, <2>9, <2>10 DEF AnsweredWith
    <2> HIDE DEF none
    <2> QED
      BY <1>0, <2>2, <2>4, <2>8, <2>11, Answers
  <1>4. ASSUME NEW t \in Threads, PostWake(t) \/ Announce(t)
        PROVE  MailInv' /\ Mail!Next
    <2> DEFINE F == Found(Woken(t))
               ids == IF pc[t] = "wake" THEN {call[t].msg} ELSE {}
    <2>1. F \in SUBSET Requests /\ \A q \in F : state[q] = "parked"
      BY <1>0, <1>4, <1>a DEF PostWake, Announce, Woken
    <2>2. ids \in SUBSET Posted
      BY DEF MailInv
    <2>3. /\ state' = Answered(F) /\ Done(t) /\ UNCHANGED <<messages, messagesCounter>>
      BY <1>4 DEF PostWake, Announce, redis
    <2>4. PostersKeep
      BY <1>0, <2>3, PostersDone
    <2>5. \A q \in Requests : got'[q] = IF q \in F THEN ids ELSE got[q]
      <3>1. CASE PostWake(t)
        BY <3>1 DEF PostWake, Told
      <3>2. CASE Announce(t)
        BY <1>b, <2>1, <3>2 DEF Announce, history
      <3> QED
        BY <1>4, <3>1, <3>2
    <2> HIDE DEF F, ids
    <2>6. \A q \in Requests : state'[q] = IF q \in F THEN "done" ELSE state[q]
      BY <2>3 DEF Answered
    <2>7. \A q \in Requests \ F : Stage(q)' = Stage(q)
      BY <1>0, <2>6, StageStep
    <2>9. \A q \in F : state[q] \in {"serving", "parked"} /\ state'[q] = "done"
      BY <2>1, <2>6
    <2>10. \A q \in Requests \ F : /\ state[q] = "done" => state'[q] = "done"
                                   /\ Stage(q)' = Stage(q)
      BY <2>6, <2>7
    <2>11. AnsweredWith(F, ids)
      BY <2>5, <2>9, <2>10 DEF AnsweredWith
    <2> QED
      BY <1>0, <2>1, <2>2, <2>4, <2>11, Answers
  <1>5. ASSUME NEW t \in Threads, PostIncr(t)
        PROVE  MailInv' /\ [Mail!Next]_Mail!vars
    <2> DEFINE m == messagesCounter + 1
    <2>1. /\ pc[t] = "incr" /\ pc' = [pc EXCEPT ![t] = "lpush"] /\ messagesCounter' = m
          /\ call' = [call EXCEPT ![t].msg = m] /\ call[t] \in Calls
          /\ UNCHANGED <<messages, state, got>>
      BY <1>5 DEF PostIncr, NextMessage, parking, PollTypeInv, PostPCs
    <2>2. messagesCounter \in Nat /\ m \in 1 .. m /\ m \notin 1 .. messagesCounter
          /\ 1 .. messagesCounter \subseteq 1 .. m
      BY <1>0, PollAssumption DEF TypeOK
    <2>3. Posted' = Posted /\ Posted \subseteq 1 .. messagesCounter
      BY <2>1 DEF Posted, MailInv
    <2>4. /\ pc'[t] = "lpush" /\ call'[t].msg = m
          /\ \A u \in Threads : u # t => pc'[u] = pc[u] /\ call'[u] = call[u]
      BY <1>0, <2>1 DEF Calls
    <2> HIDE DEF m
    <2>5. \A u \in Threads :
            /\ pc'[u] = "lpush" =>
                  /\ call'[u].msg \in (1 .. m) \ Posted
                  /\ \A v \in Threads \ {u} : pc'[v] = "lpush" => call'[v].msg # call'[u].msg
            /\ pc'[u] \in {"hmset", "smembers", "wake"} => call'[u].msg \in Posted
      BY <2>2, <2>3, <2>4 DEF MailInv
    <2>6. MailInv'
      BY <1>b, <2>1, <2>2, <2>3, <2>5 DEF MailInv
    <2>7. Stages' = Stages
      BY <2>1 DEF Stages, Stage
    <2> QED
      BY <2>1, <2>3, <2>6, <2>7 DEF Mail!vars, Stages
  <1>6. ASSUME NEW t \in Threads, PostPush(t)
        PROVE  MailInv' /\ Mail!Next
    <2> DEFINE m == call[t].msg
    <2>1. /\ pc[t] = "lpush" /\ pc' = [pc EXCEPT ![t] = "hmset"] /\ call' = call
          /\ UNCHANGED <<messagesCounter, state, got>>
      BY <1>6 DEF PostPush, parking, history
    <2>2. Posted' = Posted \cup {m}
      BY <1>0, <1>6, PushPosts
    <2>3. m \in (1 .. messagesCounter) \ Posted /\ m \in Ids
      BY <2>1 DEF MailInv, PollTypeInv
    <2>4. pc'[t] = "hmset" /\ \A u \in Threads : u # t => pc'[u] = pc[u]
      BY <1>0, <2>1
    <2>5. \A u \in Threads : call'[u] = call[u]
      BY <2>1
    <2>6. \A u \in Threads \ {t} : pc[u] = "lpush" => call[u].msg # m
      BY <2>1 DEF MailInv
    <2> HIDE DEF m
    <2>7. \A u \in Threads :
            /\ pc'[u] = "lpush" =>
                  /\ call'[u].msg \in (1 .. messagesCounter) \ Posted'
                  /\ \A v \in Threads \ {u} : pc'[v] = "lpush" => call'[v].msg # call'[u].msg
            /\ pc'[u] \in {"hmset", "smembers", "wake"} => call'[u].msg \in Posted'
      BY <2>2, <2>4, <2>5, <2>6 DEF MailInv, m
    <2>8. MailInv'
      BY <1>b, <2>1, <2>2, <2>3, <2>7 DEF MailInv
    <2>9. Stages' = Stages
      BY <2>1 DEF Stages, Stage
    <2>10. Mail!Post(m)
      BY <2>1, <2>2, <2>3, <2>9 DEF Mail!Post, Stages
    <2> QED
      BY <2>3, <2>8, <2>10 DEF Mail!Next
  <1>7. ASSUME NEW r \in Requests, Closed(r), UNCHANGED <<redis, pc, call>>
        PROVE  MailInv' /\ Mail!Next
    <2>1. PostersKeep
      BY <1>7 DEF redis, PostersKeep
    <2>2. /\ state' = [q \in Requests |-> IF q \in {r} THEN "free" ELSE state[q]]
          /\ got' = [q \in Requests |-> IF q \in {r} THEN {} ELSE got[q]]
      BY <1>0, <1>7 DEF Closed, TypeOK
    <2>3. {r} \in SUBSET Requests
      OBVIOUS
    <2> QED
      BY <1>0, <2>1, <2>2, <2>3, Closes
  <1>8. ASSUME NEW r \in Requests, Disconnect(r) \/ Recycle(r)
        PROVE  MailInv' /\ Mail!Next
    BY <1>0, <1>7, <1>8, DieCloses DEF Disconnect, Recycle
  <1>9. CASE Crash
    BY <1>0, <1>9, DieCloses DEF Crash
  <1>10. CASE UNCHANGED vars
    <2>1. PostersKeep /\ UNCHANGED <<state, got>>
      BY <1>10 DEF vars, redis, process, parking, history, PostersKeep
    <2>2. Stages' = Stages
      BY <2>1 DEF Stages, Stage
    <2> QED
      BY <2>1, <2>2, Stutters
  <1>11. ASSUME NEW t \in Threads, PostCheck(t)
         PROVE  MailInv' /\ [Mail!Next]_Mail!vars
    BY <1>0, <1>11, MailQuiet, DieCloses
  <1> QED
    BY <1>1, <1>2, <1>3, <1>4, <1>5, <1>6, <1>8, <1>9, <1>10, <1>11, MailQuiet
    DEF Next, Step, PollStep, PostStep, ChangeStep, RejectMalformed

(* Polling implements the mailbox: every message is listed once, every     *)
(* request is answered at most once, while it is open, and with messages   *)
(* that are listed, whatever threads, logins, closed connections, hooks    *)
(* and crashes do.                                                         *)
THEOREM MailIsDelivered == Spec => MailDelivered
  <1>1. Spec => [](PollTypeInv /\ ParkInv)
    BY PollTyping, ParkInit, ParkStep, PTL DEF Spec
  <1> QED
    BY <1>1, MailInit, MailStep, PTL DEF Spec, MailDelivered, Mail!Spec
-----------------------------------------------------------------------------
(* On one thread *)

OneThread == \A s, t \in Threads : s = t

(* A message is listed, and those who wait are not told yet.               *)
Telling == {"hmset", "smembers", "wake"}

(* A step before and after which a handler has no message in hand and no   *)
(* request to park, and that writes neither a list, a content nor a        *)
(* waiting set.                                                            *)
Passing(t) ==
  /\ pc[t] \notin Telling
  /\ pc'[t] \notin Telling \cup PollPCs \cup {"lpush"}
  /\ UNCHANGED <<messages, content, waiting, author, halfPosted>>

LEMMA PassingSteps ==
  ASSUME PollTypeInv, NEW t \in Threads,
         \/ Start(t) /\ UNCHANGED state
         \/ (PollRead(t) /\ Done(t)) \/ PollPark(t) \/ (PostCheck(t) /\ ~ Die)
         \/ ChangeStep(t) \/ LoginErase(t)
  PROVE  Passing(t)
  <1> USE DEF At, Goto, redis, parking, history, Telling, PollPCs
  <1>0. /\ pc \in [Threads -> PCs]
        /\ Done(t) => pc'[t] = "idle"
    BY DEF PollTypeInv, TypeOK, Done
  <1>1. CASE Start(t) /\ UNCHANGED state
    <2>1. ASSUME NEW request, NEW label \in {"groups", "first", "erase"},
                 Serve(t, request, label), UNCHANGED <<redis, parking, history>>
          PROVE  Passing(t)
      BY <1>0, <2>1 DEF Serve, Passing
    <2>2. ASSUME NEW c \in Clients, NEW r \in Requests, NEW g, NEW n, StartPoll(t, c, g, n, r)
          PROVE  FALSE
      BY <1>1, <2>2 DEF StartPoll, PollTypeInv, TypeOK
    <2> QED
      BY <1>1, <2>1, <2>2 DEF Start, StartPost, StartChange, StartLogin
  <1>2. CASE PollRead(t) /\ Done(t)
    BY <1>0, <1>2 DEF PollRead, Passing
  <1>3. CASE PollPark(t)
    BY <1>0, <1>3 DEF PollPark, Passing
  <1>4. CASE PostCheck(t) /\ ~ Die
    BY <1>0, <1>4 DEF PostCheck, Passing
  <1>5. CASE First(t) \/ Second(t)
    BY <1>0, <1>5 DEF First, Second, GoOn, Passing
  <1>6. CASE Roster(t)
    BY <1>0, <1>6 DEF Roster, Passing
  <1>7. CASE Announce(t) \/ LoginErase(t)
    BY <1>0, <1>7 DEF Announce, LoginErase, Passing
  <1> QED
    BY <1>1, <1>2, <1>3, <1>4, <1>5, <1>6, <1>7 DEF ChangeStep

-----------------------------------------------------------------------------
(* What is told can be read *)

LEMMA ReadableInit == Init => ReadableInv
  BY DEF Init, ReadableInv, DeliveredIsReadable, Posted

LEMMA ReadablePassing ==
  ASSUME OneThread, ReadableInv, NEW t \in Threads, Passing(t),
         \A r \in Requests : got'[r] \subseteq content \cup halfPosted
  PROVE  ReadableInv'
  <1>1. Posted' = Posted
    BY DEF Passing, Posted
  <1>2. \A u \in Threads : pc[u] # "hmset" /\ pc'[u] \notin {"smembers", "wake"}
    BY DEF OneThread, Passing, Telling
  <1>3. DeliveredIsReadable'
    BY DEF DeliveredIsReadable, Passing
  <1> QED
    BY <1>1, <1>2, <1>3 DEF ReadableInv, Passing, At

(* A crash between LPUSH and HMSET.                                        *)
LEMMA ReadableDie == ReadableInv /\ Die => ReadableInv'
  <1> SUFFICES ASSUME ReadableInv, Die
               PROVE  ReadableInv'
    OBVIOUS
  <1>1. Posted' = Posted /\ content' = content
        /\ halfPosted' = halfPosted \cup {call[t].msg : t \in {s \in Threads : At(s, "hmset")}}
    BY DEF Die, redis, Posted
  <1>2. \A t \in Threads : pc'[t] = "idle"
    BY DEF Die
  <1>3. DeliveredIsReadable'
    BY DEF Die, DeliveredIsReadable
  <1> QED
    BY <1>1, <1>2, <1>3 DEF ReadableInv

LEMMA ReadableStep ==
  ASSUME OneThread
  PROVE  PollTypeInv /\ PollTypeInv' /\ MailInv /\ ReadableInv /\ [Next]_vars => ReadableInv'
  <1> SUFFICES ASSUME PollTypeInv, PollTypeInv', MailInv, ReadableInv, [Next]_vars
               PROVE  ReadableInv'
    OBVIOUS
  <1> USE DEF At, Goto
  <1>0. /\ TypeOK /\ TypeOK' /\ pc \in [Threads -> PCs] /\ call \in [Threads -> Calls \cup {NoCall}]
    BY DEF PollTypeInv, TypeOK
  <1>a. \A t, u \in Threads : u = t
    BY DEF OneThread
  <1>b. \A t \in Threads : {call[u].msg : u \in {s \in Threads : At(s, "hmset")}} =
           IF pc[t] = "hmset" THEN {call[t].msg} ELSE {}
    BY <1>a
  <1>c. \A t \in Threads : {call'[u].msg : u \in {s \in Threads : At(s, "hmset")'}} =
           IF pc'[t] = "hmset" THEN {call'[t].msg} ELSE {}
    BY <1>a
  <1>d. \A r \in Requests : got[r] \subseteq content \cup halfPosted
    BY DEF ReadableInv, DeliveredIsReadable
  <1>e. ASSUME Posted' = Posted, UNCHANGED <<content, halfPosted>>, NEW t \in Threads,
               pc[t] # "hmset",
               pc'[t] \in {"smembers", "wake"} =>
                  pc[t] \in {"smembers", "wake"} /\ call'[t].msg = call[t].msg,
               \A r \in Requests : got'[r] = got[r] \/ got'[r] = {}
        PROVE  ReadableInv'
    <2>1. Posted \subseteq content \cup halfPosted
      BY <1>b, <1>e DEF ReadableInv
    <2>2. DeliveredIsReadable'
      BY <1>d, <1>e DEF DeliveredIsReadable
    <2>3. \A u \in Threads : pc'[u] \in {"smembers", "wake"} => call'[u].msg \in content
      BY <1>a, <1>e DEF ReadableInv
    <2> QED
      BY <1>e, <2>1, <2>2, <2>3 DEF ReadableInv
  <1>1. ASSUME NEW t \in Threads, NEW c, NEW r, NEW g, NEW n, StartPoll(t, c, g, n, r)
        PROVE  ReadableInv'
    <2>1. pc[t] = "idle" /\ pc'[t] \in {"sadd", "lrange"} /\ UNCHANGED <<redis, got, halfPosted>>
      BY <1>0, <1>1 DEF StartPoll, Serve, FirstRead, history
    <2> QED
      BY <1>e, <2>1 DEF redis, Posted
  <1>2. ASSUME NEW t \in Threads, Start(t)
        PROVE  ReadableInv'
    <2>1. CASE UNCHANGED state
      <3>1. Passing(t)
        BY <1>2, <2>1, PassingSteps
      <3>2. got' = got
        BY <1>2, <2>1 DEF Start, StartPoll, StartPost, StartChange, StartLogin, history
      <3> QED
        BY <1>d, <3>1, <3>2, ReadablePassing
    <2>2. CASE ~ UNCHANGED state
      BY <1>1, <1>2, <2>2 DEF Start, StartPost, StartChange, StartLogin, parking
    <2> QED
      BY <2>1, <2>2
  <1>3. ASSUME NEW t \in Threads, PollRead(t)
        PROVE  ReadableInv'
    <2> DEFINE r == call[t].request
               g == call[t].group
               ids == Unread(g, poll[r].known)
    <2>1. /\ pc[t] = "lrange" /\ r \in Requests /\ g \in Groups /\ poll[r].known \in 0 .. MaxMsgs
      BY <1>0, <1>3 DEF PollRead, PollPCs, PollTypeInv, TypeOK
    <2>2. CASE ids # {}
      <3>1. Done(t) /\ got' = Told({r}, ids)
        BY <1>3, <2>2 DEF PollRead
      <3>2. ids \subseteq Posted
        <4>1. messages[g] \in Seq(Ids) /\ Len(messages[g]) \in Nat /\ poll[r].known \in Nat
          BY <1>0, <2>1, PollAssumption DEF TypeOK
        <4>2. \A i \in 1 .. Len(messages[g]) - poll[r].known : i \in 1 .. Len(messages[g])
          BY <4>1
        <4> QED
          BY <1>0, <2>1, <4>2, UnreadAre, PostedAre
      <3>3. Posted \subseteq content \cup halfPosted
        BY <1>b, <2>1 DEF ReadableInv
      <3> HIDE DEF ids
      <3>4. \A q \in Requests : got'[q] = IF q = r THEN ids ELSE got[q]
        BY <3>1 DEF Told
      <3>5. \A q \in Requests : got'[q] \subseteq content \cup halfPosted
        BY <1>d, <3>2, <3>3, <3>4
      <3> QED
        BY <1>3, <3>1, <3>5, PassingSteps, ReadablePassing
    <2>3. CASE ids = {}
      <3>1. pc'[t] = "sadd" /\ UNCHANGED <<redis, got, halfPosted>>
        BY <1>0, <1>3, <2>3 DEF PollRead
      <3> QED
        BY <1>e, <2>1, <3>1 DEF redis, Posted
    <2> QED
      BY <2>2, <2>3
  <1>4. ASSUME NEW t \in Threads, PollWait(t)
        PROVE  ReadableInv'
    <2>1. pc[t] = "sadd" /\ pc'[t] = "park" /\ UNCHANGED <<messages, content, got, halfPosted>>
      BY <1>0, <1>4 DEF PollWait, history
    <2> QED
      BY <1>e, <2>1 DEF Posted
  <1>5. ASSUME NEW t \in Threads,
               PollPark(t) \/ (PostCheck(t) /\ ~ Die) \/ ChangeStep(t) \/ LoginErase(t)
        PROVE  ReadableInv'
    <2>1. got' = got
      BY <1>5 DEF PollPark, PostCheck, ChangeStep, First, Second, Roster, Announce, LoginErase,
                  history, parking
    <2> QED
      BY <1>5, <1>d, <2>1, PassingSteps, ReadablePassing
  <1>6. ASSUME NEW t \in Threads, PostIncr(t)
        PROVE  ReadableInv'
    <2>1. pc[t] = "incr" /\ pc'[t] = "lpush" /\ UNCHANGED <<messages, content, got, halfPosted>>
      BY <1>0, <1>6 DEF PostIncr
    <2> QED
      BY <1>e, <2>1 DEF Posted
  <1>7. ASSUME NEW t \in Threads, PostPush(t)
        PROVE  ReadableInv'
    <2>1. /\ pc[t] = "lpush" /\ pc'[t] = "hmset" /\ call' = call
          /\ UNCHANGED <<content, got, halfPosted>>
      BY <1>0, <1>7 DEF PostPush, history
    <2>2. Posted' = Posted \cup {call[t].msg}
      BY <1>0, <1>7, PushPosts
    <2>3. Posted' \subseteq content' \cup halfPosted' \cup {call'[t].msg}
      BY <1>b, <2>1, <2>2 DEF ReadableInv
    <2>4. \A u \in Threads : pc'[u] \notin {"smembers", "wake"}
      BY <1>a, <2>1
    <2>5. DeliveredIsReadable'
      BY <1>d, <2>1 DEF DeliveredIsReadable
    <2> QED
      BY <1>c, <2>1, <2>3, <2>4, <2>5 DEF ReadableInv
  <1>8. ASSUME NEW t \in Threads, PostStore(t)
        PROVE  ReadableInv'
    <2>1. /\ pc[t] = "hmset" /\ pc'[t] = "smembers" /\ call' = call
          /\ content' = content \cup {call[t].msg}
          /\ UNCHANGED <<messages, got, halfPosted>>
      BY <1>0, <1>8 DEF PostStore, history
    <2>2. Posted' = Posted /\ Posted \subseteq content' \cup halfPosted'
      BY <1>b, <2>1 DEF ReadableInv, Posted
    <2>3. DeliveredIsReadable'
      BY <1>d, <2>1 DEF DeliveredIsReadable
    <2>4. \A u \in Threads : call'[u].msg \in content'
      BY <1>a, <2>1
    <2> QED
      BY <2>2, <2>3, <2>4 DEF ReadableInv
  <1>9. ASSUME NEW t \in Threads, PostWaiting(t)
        PROVE  ReadableInv'
    <2>1. /\ pc[t] = "smembers" /\ pc'[t] = "wake" /\ call'[t].msg = call[t].msg
          /\ UNCHANGED <<messages, content, got, halfPosted>>
      BY <1>0, <1>9 DEF PostWaiting, redis, history, PollTypeInv, Calls
    <2> QED
      BY <1>e, <2>1 DEF Posted
  <1>10. ASSUME NEW t \in Threads, PostWake(t)
         PROVE  ReadableInv'
    <2>1. /\ pc[t] = "wake" /\ pc'[t] = "idle" /\ UNCHANGED <<messages, content, halfPosted>>
          /\ got' = Told(Found(Woken(t)), {call[t].msg}) /\ call[t].msg \in content
      BY <1>0, <1>10 DEF PostWake, Done, redis, ReadableInv
    <2>2. \A q \in Requests : got'[q] = {call[t].msg} \/ got'[q] = got[q]
      BY <2>1 DEF Told
    <2>3. DeliveredIsReadable'
      BY <1>d, <2>1, <2>2 DEF DeliveredIsReadable
    <2>4. Posted' = Posted /\ Posted \subseteq content \cup halfPosted
      BY <1>b, <2>1 DEF ReadableInv, Posted
    <2>5. \A u \in Threads : pc'[u] = "idle"
      BY <1>a, <2>1
    <2> QED
      BY <2>1, <2>3, <2>4, <2>5 DEF ReadableInv
  <1>11. ASSUME NEW r \in Requests, (Disconnect(r) /\ ~ Die) \/ Recycle(r)
         PROVE  ReadableInv'
    <2>1. PICK t \in Threads : pc[t] = "idle"
      BY <1>11 DEF Disconnect, Recycle, Listening
    <2>2. Closed(r) /\ UNCHANGED <<redis, pc, call, halfPosted>>
      BY <1>11 DEF Disconnect, Recycle
    <2>3. \A q \in Requests : got'[q] = got[q] \/ got'[q] = {}
      BY <1>0, <2>2 DEF Closed, TypeOK
    <2> QED
      BY <1>e, <2>1, <2>2, <2>3 DEF redis, Posted
  <1>12. CASE UNCHANGED vars
    <2>1. UNCHANGED <<messages, content, halfPosted, got, pc, call>>
      BY <1>12 DEF vars, redis, process, history
    <2>2. Posted' = Posted /\ DeliveredIsReadable'
      BY <1>d, <2>1 DEF Posted, DeliveredIsReadable
    <2> QED
      BY <2>1, <2>2 DEF ReadableInv
  <1> QED
    BY <1>2, <1>3, <1>4, <1>5, <1>6, <1>7, <1>8, <1>9, <1>10, <1>11, <1>12, ReadableDie
    DEF Next, Step, PollStep, PostStep, Crash, RejectMalformed

(* On one thread every id in a reply has a content that can be fetched, or *)
(* was hit by a crash between LPUSH and HMSET.                             *)
THEOREM RepliesAreReadable ==
  ASSUME OneThread
  PROVE  Spec => []DeliveredIsReadable
  <1>1. ReadableInv => DeliveredIsReadable
    BY DEF ReadableInv
  <1>2. PollTypeInv /\ PollTypeInv' /\ MailInv /\ ReadableInv /\ [Next]_vars => ReadableInv'
    BY ReadableStep
  <1>3. Spec => [](PollTypeInv /\ MailInv)
    BY PollTyping, ParkInit, ParkStep, MailInit, MailStep, PTL DEF Spec
  <1> QED
    BY ReadableInit, <1>1, <1>2, <1>3, PTL DEF Spec
-----------------------------------------------------------------------------
(* No request sleeps over news *)

LEMMA WakeInit == Init => WakeInv
  BY DEF Init, WakeInv, WaitersListed, NewsIsComing, HandlersReady, Waits, PollPCs

(* What is news to a request changes with its group's list alone.          *)
LEMMA NewsKeep ==
  ASSUME TypeOK, NEW r \in Requests, poll[r].group \in Groups, poll'[r] = poll[r],
         messages' = messages, \A m \in Posted : author'[m] = author[m]
  PROVE  News(r)' = News(r)
  <1> DEFINE s == messages[poll[r].group]
             n == Len(s) - poll[r].known
             new == {s[i] : i \in 1 .. n}
  <1>1. new \subseteq Posted
    <2>1. s \in Seq(Ids) /\ Len(s) \in Nat /\ poll[r].known \in Nat
      BY PollAssumption DEF TypeOK
    <2>2. \A i \in 1 .. n : i \in 1 .. Len(s)
      BY <2>1
    <2> QED
      BY <2>2, PostedAre
  <1>2. News(r) = {m \in new : author[m] # poll[r].me}
    BY DEF News
  <1>3. News(r)' = {m \in new : author'[m] # poll[r].me}
    BY DEF News
  <1> HIDE DEF new
  <1> QED
    BY <1>1, <1>2, <1>3

LEMMA Waiters ==
  ASSUME TypeOK, NEW r \in Requests
  PROVE  /\ Waits(r) => poll[r].group \in Groups
         /\ Waits(r) <=> state[r] = "parked" /\ r \notin dangling /\ poll[r].group # Lobby
         /\ Waits(r)' <=> state'[r] = "parked" /\ r \notin dangling' /\ poll'[r].group # Lobby
  BY DEF TypeOK, Waits

(* While the one thread has nothing to tell, who waits has no news.        *)
LEMMA NoNews ==
  ASSUME OneThread, WakeInv, NEW t \in Threads, pc[t] \notin Telling,
         NEW r \in Requests, Waits(r)
  PROVE  News(r) = {} /\ poll[r].me \in waiting[poll[r].group]
  <1>1. \A u \in Threads : pc[u] \notin {"hmset", "smembers", "wake"}
    BY DEF OneThread, Telling
  <1> QED
    BY <1>1 DEF WakeInv, NewsIsComing, WaitersListed

(* A step after which no handler holds a message or a request to park.     *)
LEMMA Settled ==
  ASSUME TypeOK, TypeOK', UNCHANGED <<messages, waiting, author>>,
         \A u \in Threads : pc'[u] \notin Telling \cup PollPCs \cup {"lpush"},
         \A r \in Requests : Waits(r)' => /\ poll'[r] = poll[r] /\ News(r) = {}
                                          /\ poll[r].me \in waiting[poll[r].group]
  PROVE  WakeInv'
  <1>1. ASSUME NEW r \in Requests, Waits(r)'
        PROVE  News(r)' = {} /\ poll'[r].me \in waiting'[poll'[r].group]
    <2>1. poll'[r].group \in Groups
      BY <1>1 DEF TypeOK, Waits
    <2> QED
      BY <1>1, <2>1, NewsKeep
  <1>2. WaitersListed' /\ NewsIsComing'
    BY <1>1 DEF WaitersListed, NewsIsComing
  <1>3. HandlersReady'
    BY DEF HandlersReady, Telling, PollPCs
  <1> QED
    BY <1>2, <1>3 DEF WakeInv

(* A step of a handler that has nothing to tell yet.                       *)
LEMMA Going ==
  ASSUME OneThread, TypeOK, WakeInv, NEW t \in Threads, pc[t] \notin Telling,
         messages' = messages, \A m \in Posted : author'[m] = author[m],
         \A g \in Groups : waiting[g] \subseteq waiting'[g],
         \A r \in Requests : Waits(r)' => Waits(r) /\ poll'[r] = poll[r]
  PROVE  WaitersListed' /\ NewsIsComing'
  <1>1. ASSUME NEW r \in Requests, Waits(r)'
        PROVE  News(r)' = {} /\ poll'[r].me \in waiting'[poll'[r].group]
    <2>1. Waits(r) /\ poll'[r] = poll[r] /\ poll[r].group \in Groups
      BY <1>1, Waiters
    <2> QED
      BY <2>1, NewsKeep, NoNews
  <1> QED
    BY <1>1 DEF WaitersListed, NewsIsComing

LEMMA WakeStep ==
  ASSUME OneThread
  PROVE  PollTypeInv /\ PollTypeInv' /\ ParkInv /\ MailInv /\ WakeInv /\ [Next]_vars => WakeInv'
  <1> SUFFICES ASSUME PollTypeInv, PollTypeInv', ParkInv, MailInv, WakeInv, [Next]_vars
               PROVE  WakeInv'
    OBVIOUS
  <1> USE DEF At, Goto
  <1>0. /\ TypeOK /\ TypeOK' /\ pc \in [Threads -> PCs] /\ call \in [Threads -> Calls \cup {NoCall}]
        /\ \A r \in Requests : poll[r].group \in Groups \cup {Lobby}
    BY DEF PollTypeInv, TypeOK
  <1>a. \A t, u \in Threads : u = t
    BY DEF OneThread
  <1>b. ASSUME NEW t \in Threads, pc[t] \in PollPCs
        PROVE  /\ call[t].request \in Requests /\ call[t].me \in Clients
               /\ state[call[t].request] = "serving" /\ poll[call[t].request].me = call[t].me
               /\ poll[call[t].request].group = call[t].group
    BY <1>b DEF PollTypeInv, ParkInv, WakeInv, HandlersReady, Calls, PollPCs
  (* A step that leaves who waits, or takes some of them away.             *)
  <1>c. ASSUME NEW t \in Threads, pc[t] \notin Telling,
               pc'[t] \notin Telling \cup PollPCs \cup {"lpush"},
               UNCHANGED <<messages, waiting, author>>,
               \A r \in Requests : Waits(r)' => Waits(r) /\ poll'[r] = poll[r]
        PROVE  WakeInv'
    BY <1>0, <1>a, <1>c, NoNews, Settled
  <1>1. ASSUME NEW t \in Threads, NEW c \in Clients, NEW r \in Requests,
               NEW g \in Groups \cup {Lobby}, NEW n, StartPoll(t, c, g, n, r)
        PROVE  WakeInv'
    <2>1. /\ pc[t] = "idle" /\ pc'[t] = FirstRead(g)
          /\ call'[t] = [Request(c, g, "poll") EXCEPT !.request = r]
          /\ state' = [state EXCEPT ![r] = "serving"]
          /\ poll' = [poll EXCEPT ![r] = [me |-> c, group |-> g, known |-> n]]
          /\ UNCHANGED <<messages, waiting, author, dangling>>
      BY <1>0, <1>1 DEF StartPoll, Serve, redis, history
    <2>2. call'[t].request = r /\ call'[t].group = g /\ poll'[r].group = g
      BY <1>0, <2>1 DEF Request, TypeOK
    <2>3. \A q \in Requests : Waits(q)' => Waits(q) /\ poll'[q] = poll[q]
      BY <1>0, <2>1, Waiters DEF TypeOK
    <2>4. WaitersListed' /\ NewsIsComing'
      BY <1>0, <2>1, <2>3, Going DEF Telling
    <2>5. HandlersReady'
      BY <1>a, <2>1, <2>2 DEF HandlersReady, FirstRead
    <2> QED
      BY <2>4, <2>5 DEF WakeInv
  <1>2. ASSUME NEW t \in Threads, Start(t)
        PROVE  WakeInv'
    <2>1. CASE UNCHANGED state
      <3>1. Passing(t)
        BY <1>2, <2>1, PassingSteps
      <3>2. UNCHANGED <<poll, dangling>>
        <4>1. ASSUME NEW c \in Clients, NEW r \in Requests, NEW g, NEW n, StartPoll(t, c, g, n, r)
              PROVE  FALSE
          BY <1>0, <2>1, <4>1 DEF StartPoll, TypeOK
        <4> QED
          BY <1>2, <4>1 DEF Start, StartPost, StartChange, StartLogin, parking
      <3> QED
        BY <1>c, <2>1, <3>1, <3>2 DEF Passing, Waits
    <2>2. CASE ~ UNCHANGED state
      BY <1>1, <1>2, <2>2 DEF Start, StartPost, StartChange, StartLogin, parking
    <2> QED
      BY <2>1, <2>2
  <1>3. ASSUME NEW t \in Threads, PollRead(t)
        PROVE  WakeInv'
    <2>0. PICK r \in Requests : r = call[t].request
      BY <1>3, <1>b DEF PollRead, PollPCs
    <2> DEFINE g == call[t].group
               ids == Unread(g, poll[r].known)
    <2>1. /\ pc[t] = "lrange" /\ g \in Groups /\ poll[r].known \in 0 .. MaxMsgs
          /\ poll[r].group = g /\ state[r] = "serving"
          /\ UNCHANGED <<messages, waiting, author, poll, dangling>>
      BY <1>0, <1>3, <1>b, <2>0 DEF PollRead, PollPCs, PollTypeInv, TypeOK, redis
    <2>2. CASE ids # {}
      <3>1. state' = Answered({r}) /\ Done(t)
        BY <1>3, <2>0, <2>2 DEF PollRead
      <3>2. Passing(t)
        BY <1>3, <3>1, PassingSteps
      <3>3. \A q \in Requests : Waits(q)' => Waits(q)
        BY <2>1, <3>1, Waiters, <1>0 DEF Answered
      <3> QED
        BY <1>c, <2>1, <3>2, <3>3 DEF Passing
    <2>3. CASE ids = {}
      <3>1. pc'[t] = "sadd" /\ UNCHANGED <<call, state>>
        BY <1>0, <1>3, <2>0, <2>3 DEF PollRead
      <3>2. \A q \in Requests : Waits(q)' => Waits(q)
        BY <2>1, <3>1 DEF Waits
      <3>3. WaitersListed' /\ NewsIsComing'
        BY <1>0, <2>1, <3>2, Going DEF Telling
      <3>4. News(r) \subseteq ids
        BY <1>0, <2>1, UnreadAre DEF News
      <3>5. News(r)' = {}
        <4>1. poll[r].group \in Groups /\ \A m \in Posted : author'[m] = author[m]
          BY <2>1
        <4>2. News(r)' = News(r)
          BY <1>0, <2>1, <4>1, NewsKeep
        <4> QED
          BY <2>3, <3>4, <4>2
      <3>6. HandlersReady'
        BY <1>a, <2>0, <2>1, <3>1, <3>5 DEF HandlersReady
      <3> QED
        BY <3>3, <3>6 DEF WakeInv
    <2> QED
      BY <2>2, <2>3
  <1>4. ASSUME NEW t \in Threads, PollWait(t)
        PROVE  WakeInv'
    <2> DEFINE g == call[t].group
    <2>0. PICK r \in Requests : r = call[t].request
      BY <1>4, <1>b DEF PollWait, PollPCs
    <2>1. /\ pc[t] = "sadd" /\ pc'[t] = "park" /\ poll[r].group = g
          /\ UNCHANGED <<messages, author, call, state, poll, dangling>>
          /\ waiting' = [h \in Groups |-> waiting[h] \cup {c \in {call[t].me} : h = g}]
      BY <1>0, <1>4, <1>b, <2>0 DEF PollWait, PollPCs, parking, history
    <2>2. \A q \in Requests : Waits(q)' => Waits(q) /\ poll'[q] = poll[q]
      BY <2>1 DEF Waits
    <2>3. WaitersListed' /\ NewsIsComing'
      BY <1>0, <2>1, <2>2, Going DEF Telling
    <2>4. g # Lobby => g \in Groups /\ call[t].me \in waiting'[g]
      BY <1>0, <2>1
    <2>5. g # Lobby => News(r)' = {}
      BY <1>0, <2>0, <2>1, NewsKeep DEF WakeInv, HandlersReady
    <2>6. HandlersReady'
      BY <1>a, <2>0, <2>1, <2>4, <2>5 DEF HandlersReady
    <2> QED
      BY <2>3, <2>6 DEF WakeInv
  <1>5. ASSUME NEW t \in Threads, PollPark(t)
        PROVE  WakeInv'
    <2>0. PICK r \in Requests : r = call[t].request
      BY <1>5, <1>b DEF PollPark, PollPCs
    <2>1. /\ pc[t] = "park" /\ poll[r].group = call[t].group /\ poll[r].me = call[t].me
          /\ state' = [Answered(Displaced(call[t].me)) EXCEPT ![r] = "parked"]
          /\ UNCHANGED <<poll, dangling>>
      BY <1>0, <1>5, <1>b, <2>0 DEF PollPark, PollPCs
    <2>2. Passing(t)
      BY <1>5, PassingSteps
    <2>3. \A q \in Requests : q # r /\ Waits(q)' => Waits(q)
      BY <1>0, <2>1, Waiters DEF Answered
    <2>4. Waits(r)' => News(r) = {} /\ poll[r].me \in waiting[poll[r].group]
      <3>1. Waits(r)' => call[t].group # Lobby
        BY <1>0, <2>1, Waiters
      <3>2. call[t].group # Lobby => News(r) = {} /\ call[t].me \in waiting[call[t].group]
        BY <2>0, <2>1 DEF WakeInv, HandlersReady
      <3> QED
        BY <2>1, <3>1, <3>2
    <2>5. \A q \in Requests : Waits(q)' => /\ poll'[q] = poll[q] /\ News(q) = {}
                                           /\ poll[q].me \in waiting[poll[q].group]
      <3>1. ASSUME NEW q \in Requests, Waits(q)', q # r
            PROVE  News(q) = {} /\ poll[q].me \in waiting[poll[q].group]
        BY <2>2, <2>3, <3>1, NoNews DEF Passing
      <3> QED
        BY <2>1, <2>4, <3>1
    <2> QED
      BY <1>0, <1>a, <2>2, <2>5, Settled DEF Passing
  <1>6. ASSUME NEW t \in Threads, (PostCheck(t) /\ ~ Die) \/ ChangeStep(t) \/ LoginErase(t)
        PROVE  WakeInv'
    <2>1. /\ poll' = poll /\ dangling \subseteq dangling'
          /\ \A q \in Requests : state'[q] = "parked" => state[q] = "parked"
      BY <1>6 DEF PostCheck, ChangeStep, First, Second, Roster, Announce, LoginErase, Answered,
                  parking
    <2>2. Passing(t)
      BY <1>6, PassingSteps
    <2> QED
      BY <1>c, <2>1, <2>2 DEF Passing, Waits
  <1>7. ASSUME NEW t \in Threads, PostIncr(t)
        PROVE  WakeInv'
    <2>1. /\ pc[t] = "incr" /\ pc'[t] = "lpush" /\ call[t] \in Calls
          /\ author' = [author EXCEPT ![messagesCounter + 1] = call[t].me]
          /\ call'[t].msg = messagesCounter + 1 /\ call'[t].me = call[t].me
          /\ messagesCounter + 1 \in Ids /\ messagesCounter + 1 \notin 1 .. messagesCounter
          /\ UNCHANGED <<messages, waiting, state, poll, dangling>>
      <3>1. messagesCounter \in 0 .. MaxMsgs /\ messagesCounter < MaxMsgs
        BY <1>0, <1>7 DEF PostIncr, TypeOK
      <3>2. messagesCounter + 1 \in Ids /\ messagesCounter + 1 \notin 1 .. messagesCounter
        BY <3>1, PollAssumption DEF Ids
      <3> QED
        BY <1>0, <1>7, <3>2 DEF PostIncr, NextMessage, parking, PollTypeInv, PostPCs, Calls
    <2>2. \A m \in Posted : author'[m] = author[m]
      BY <1>0, <2>1 DEF MailInv, TypeOK
    <2>3. \A q \in Requests : Waits(q)' => Waits(q) /\ poll'[q] = poll[q]
      BY <2>1 DEF Waits
    <2>4. WaitersListed' /\ NewsIsComing'
      BY <1>0, <2>1, <2>2, <2>3, Going DEF Telling
    <2>5. author'[call'[t].msg] = call'[t].me
      BY <1>0, <2>1 DEF TypeOK
    <2>6. HandlersReady'
      BY <1>a, <2>1, <2>5 DEF HandlersReady, PollPCs
    <2> QED
      BY <2>4, <2>6 DEF WakeInv
  <1>8. ASSUME NEW t \in Threads, PostPush(t)
        PROVE  WakeInv'
    <2> DEFINE g == call[t].group
               m == call[t].msg
    <2>1. /\ pc[t] = "lpush" /\ pc'[t] = "hmset" /\ g \in Groups /\ m \in Ids
          /\ messages' = [messages EXCEPT ![g] = <<m>> \o @]
          /\ UNCHANGED <<waiting, author, call, state, poll, dangling>>
      BY <1>0, <1>8 DEF PostPush, PollTypeInv, PostPCs, parking, history
    <2>2. ASSUME NEW r \in Requests, Waits(r)'
          PROVE  /\ Waits(r) /\ poll[r].group \in Groups /\ News(r) = {}
                 /\ poll[r].me \in waiting[poll[r].group]
      BY <1>0, <2>1, <2>2, NoNews, Waiters DEF Waits, Telling
    <2>3. ASSUME NEW r \in Requests, Waits(r)'
          PROVE  News(r)' \subseteq {m} /\ (poll[r].group # g => News(r)' = {})
      <3> DEFINE s == messages[poll[r].group]
                 n == Len(s) - poll[r].known
      <3>1. s \in Seq(Ids) /\ Len(s) \in Nat /\ poll[r].known \in Nat
        BY <1>0, <2>2, <2>3, PollAssumption DEF TypeOK
      <3>2. {i \in {s[j] : j \in 1 .. n} : author[i] # poll[r].me} = {}
        BY <2>2, <2>3 DEF News
      <3>3. CASE poll[r].group # g
        <4>1. messages'[poll[r].group] = s
          BY <1>0, <2>1, <2>2, <2>3, <3>3 DEF TypeOK
        <4> QED
          BY <2>1, <3>2, <3>3, <4>1 DEF News
      <3>4. CASE poll[r].group = g
        <4>1. messages'[g] = <<m>> \o s
          BY <1>0, <2>1, <3>4 DEF TypeOK
        <4>2. Len(<<m>> \o s) - poll[r].known = n + 1
          BY <2>1, <3>1, Pushed
        <4>3. n \in Int /\ n <= Len(s)
          BY <3>1
        <4>4. {(<<m>> \o s)[j] : j \in 1 .. n + 1} \subseteq {m} \cup {s[j] : j \in 1 .. n}
          BY <2>1, <3>1, <4>3, Pushed
        <4> DEFINE old == {s[j] : j \in 1 .. n}
                   new == {(<<m>> \o s)[j] : j \in 1 .. n + 1}
        <4>5. News(r)' = {i \in new : author[i] # poll[r].me}
          <5>1. /\ poll'[r] = poll[r] /\ author' = author
                /\ messages'[poll[r].group] = <<m>> \o s
            BY <2>1, <3>4, <4>1
          <5> HIDE DEF s, n, m
          <5> QED
            BY <4>2, <5>1 DEF News
        <4>6. new \subseteq {m} \cup old /\ \A i \in old : author[i] = poll[r].me
          <5>1. {i \in old : author[i] # poll[r].me} = {}
            BY <3>2
          <5> HIDE DEF old
          <5>2. \A i \in old : author[i] = poll[r].me
            BY <5>1
          <5> QED
            BY <4>4, <5>2 DEF old
        <4> HIDE DEF old, new, m
        <4>7. \A i \in News(r)' : i = m
          BY <4>5, <4>6
        <4> QED
          BY <3>4, <4>7
      <3> QED
        BY <3>3, <3>4
    <2>4. WaitersListed'
      BY <2>1, <2>2 DEF WaitersListed
    <2>5. NewsIsComing'
      BY <2>1, <2>3 DEF NewsIsComing
    <2>6. author[m] = call[t].me
      BY <2>1 DEF WakeInv, HandlersReady
    <2>7. HandlersReady'
      BY <1>a, <2>1, <2>6 DEF HandlersReady, PollPCs
    <2> QED
      BY <2>4, <2>5, <2>7 DEF WakeInv
  (* The message is stored, and who waits is read.                         *)
  <1>9. ASSUME NEW t \in Threads, PostStore(t) \/ PostWaiting(t)
        PROVE  WakeInv'
    <2>1. /\ pc[t] \in {"hmset", "smembers"} /\ pc'[t] \in {"smembers", "wake"}
          /\ call'[t].group = call[t].group /\ call'[t].msg = call[t].msg
          /\ call'[t].me = call[t].me
          /\ pc'[t] = "wake" => call'[t].audience = waiting[call[t].group]
          /\ UNCHANGED <<messages, waiting, author, state, poll, dangling>>
      <3>1. call[t] \in Calls
        BY <1>9 DEF PostStore, PostWaiting, PollTypeInv
      <3> QED
        BY <1>0, <1>9, <3>1 DEF PostStore, PostWaiting, parking, history, redis, Calls
    <2>2. WaitersListed'
      BY <2>1 DEF WakeInv, WaitersListed, Waits
    <2>3. ASSUME NEW r \in Requests, Waits(r)'
          PROVE  /\ Waits(r) /\ News(r)' = News(r)
                 /\ poll[r].me \in waiting[poll[r].group]
      BY <1>0, <2>1, <2>3, NewsKeep, Waiters DEF WakeInv, WaitersListed
    <2>4. NewsIsComing'
      <3>1. ASSUME NEW r \in Requests, Waits(r)', NEW m \in News(r)'
            PROVE  /\ call'[t].msg = m /\ call'[t].group = poll'[r].group
                   /\ pc'[t] = "wake" => poll'[r].me \in call'[t].audience
        BY <1>a, <2>1, <2>3, <3>1 DEF WakeInv, NewsIsComing
      <3> QED
        BY <2>1, <3>1 DEF NewsIsComing
    <2>5. HandlersReady'
      BY <1>a, <2>1 DEF WakeInv, HandlersReady, PollPCs
    <2> QED
      BY <2>2, <2>4, <2>5 DEF WakeInv
  <1>10. ASSUME NEW t \in Threads, PostWake(t)
         PROVE  WakeInv'
    <2>1. /\ pc[t] = "wake" /\ pc'[t] = "idle" /\ state' = Answered(Found(Woken(t)))
          /\ UNCHANGED <<messages, waiting, author, poll, dangling>>
      BY <1>0, <1>10 DEF PostWake, Done, redis
    <2>2. ASSUME NEW r \in Requests, Waits(r)'
          PROVE  /\ poll'[r] = poll[r] /\ News(r) = {}
                 /\ poll[r].me \in waiting[poll[r].group]
      <3>1. Waits(r) /\ r \notin Found(Woken(t))
        BY <1>0, <2>1, <2>2, Waiters DEF Answered
      <3>2. poll[r].me \in Clients /\ pending_requests[poll[r].me] = r /\ r # NoRequest
        BY <1>0, <3>1, Waiters, PollAssumption DEF ParkInv, ParkedIsPending
      <3>3. poll[r].me \notin Woken(t)
        BY <3>1, <3>2 DEF Found
      <3>4. ASSUME NEW m \in News(r)
            PROVE  FALSE
        <4>1. call[t].msg = m /\ poll[r].me \in call[t].audience
          BY <1>a, <2>1, <3>1, <3>4 DEF WakeInv, NewsIsComing
        <4>2. author[m] = call[t].me /\ author[m] # poll[r].me
          BY <2>1, <3>4, <4>1 DEF WakeInv, HandlersReady, News
        <4> QED
          BY <3>3, <4>1, <4>2 DEF Woken
      <3> QED
        BY <2>1, <3>1, <3>4 DEF WakeInv, WaitersListed
    <2>3. \A u \in Threads : pc'[u] = "idle"
      BY <1>a, <2>1
    <2> QED
      BY <1>0, <2>1, <2>2, <2>3, Settled DEF Telling, PollPCs
  <1>11. ASSUME NEW r \in Requests, (Disconnect(r) /\ ~ Die) \/ Recycle(r)
         PROVE  WakeInv'
    <2>1. PICK t \in Threads : pc[t] = "idle"
      BY <1>11 DEF Disconnect, Recycle, Listening
    <2>2. Closed(r) /\ dangling \ {r} \subseteq dangling' /\ UNCHANGED <<redis, pc, author>>
      BY <1>11 DEF Disconnect, Recycle
    <2>3. \A q \in Requests : Waits(q)' => q # r /\ Waits(q) /\ poll'[q] = poll[q]
      BY <1>0, <2>2, Waiters DEF Closed, TypeOK
    <2> QED
      BY <1>c, <2>1, <2>2, <2>3 DEF redis, Telling, PollPCs
  <1>12. CASE Die
    <2>1. /\ \A u \in Threads : pc'[u] = "idle"
          /\ \A r \in Requests : state'[r] = "free"
          /\ UNCHANGED <<messages, waiting, author>>
      BY <1>12 DEF Die, redis
    <2>2. \A r \in Requests : ~ Waits(r)'
      BY <1>0, <2>1, Waiters
    <2> QED
      BY <1>0, <2>1, <2>2, Settled DEF Telling, PollPCs
  <1>13. CASE UNCHANGED vars
    BY <1>13 DEF vars, redis, process, parking, history, WakeInv, WaitersListed, NewsIsComing,
                 HandlersReady, Waits, News
  <1>14. ASSUME NEW t \in Threads, PostCheck(t)
         PROVE  WakeInv'
    BY <1>6, <1>12, <1>14
  <1> QED
    BY <1>2, <1>3, <1>4, <1>5, <1>6, <1>7, <1>8, <1>9, <1>10, <1>11, <1>12, <1>13, <1>14
    DEF Next, Step, PollStep, PostStep, Crash, RejectMalformed

(* On one thread no request sleeps over news: whatever others have posted  *)
(* to its group has woken it once no handler is posting.                   *)
THEOREM NobodySleepsOverNews ==
  ASSUME OneThread
  PROVE  Spec => []NoLostWakeup
  <1>1. WakeInv => NoLostWakeup
    BY DEF WakeInv, NewsIsComing, NoLostWakeup, PostPCs
  <1>2. PollTypeInv /\ PollTypeInv' /\ ParkInv /\ MailInv /\ WakeInv /\ [Next]_vars => WakeInv'
    BY WakeStep
  <1>3. Spec => [](PollTypeInv /\ ParkInv /\ MailInv)
    BY PollTyping, ParkInit, ParkStep, MailInit, MailStep, PTL DEF Spec
  <1> QED
    BY WakeInit, <1>1, <1>2, <1>3, PTL DEF Spec
-----------------------------------------------------------------------------
(* Pages of messages, on any number of threads *)

PageOf(s, page) == LET l == LRange(s, PageStart(page), PageStart(page) + PageSize)
                   IN  {l[i] : i \in 1 .. Len(l)}

(* The places of a page: LRANGE includes both ends, so a page has one      *)
(* message more than PageSize, and shares it with the next one.            *)
OnPage(i, page) == PageStart(page) < i /\ i <= PageStart(page) + PageSize + 1

LEMMA PageIs ==
  ASSUME NEW s \in Seq(Ids), NEW page \in Nat
  PROVE  /\ \A i \in 1 .. Len(s) : OnPage(i, page) => s[i] \in PageOf(s, page)
         /\ \A m \in PageOf(s, page) : \E i \in 1 .. Len(s) : OnPage(i, page) /\ m = s[i]
  <1> DEFINE start == PageStart(page)
             stop == start + PageSize
             last == IF stop < Len(s) THEN stop ELSE Len(s) - 1
             l == SubSeq(s, start + 1, last + 1)
  <1>1. PageSize \in Nat /\ start \in Nat /\ Len(s) \in Nat /\ stop \in Nat
    BY PollAssumption DEF PageStart
  <1>2. last \in Int /\ last + 1 <= Len(s) /\ last <= stop
    BY <1>1
  <1>3. LRange(s, start, stop) = l
    <2>1. ~ start < 0 /\ ~ stop < 0
      BY <1>1
    <2> HIDE DEF start, stop
    <2> QED
      BY <2>1 DEF LRange
  <1>4. \A i \in start + 1 .. last + 1 : s[i] \in Ids
    BY <1>1, <1>2
  <1>5. /\ Len(l) = IF start + 1 <= last + 1 THEN last + 1 - (start + 1) + 1 ELSE 0
        /\ \A i \in 1 .. last + 1 - (start + 1) + 1 : l[i] = s[start + 1 + i - 1]
    <2> HIDE DEF start, last
    <2> QED
      BY <1>1, <1>2, <1>4, SubSeqProperties
  <1>6. ASSUME NEW i \in 1 .. Len(s), start < i, i <= stop + 1
        PROVE  s[i] \in {l[j] : j \in 1 .. Len(l)}
    <2>1. i <= last + 1
      BY <1>1, <1>6
    <2> HIDE DEF last, start, l
    <2>2. i - start \in 1 .. Len(l) /\ i - start \in 1 .. last + 1 - (start + 1) + 1
          /\ start + 1 + (i - start) - 1 = i
      BY <1>1, <1>2, <1>5, <1>6, <2>1
    <2>3. l[i - start] = s[i]
      BY <1>5, <2>2
    <2> QED
      BY <2>2, <2>3
  <1>7. ASSUME NEW j \in 1 .. Len(l)
        PROVE  \E i \in 1 .. Len(s) : start < i /\ i <= stop + 1 /\ l[j] = s[i]
    <2> HIDE DEF last, start, l
    <2>1. start + j \in 1 .. Len(s) /\ start < start + j /\ start + j <= stop + 1
          /\ l[j] = s[start + j]
      BY <1>1, <1>2, <1>5, <1>7
    <2> QED
      BY <2>1
  <1>8. PageOf(s, page) = {l[j] : j \in 1 .. Len(l)}
    BY <1>3 DEF PageOf
  <1> HIDE DEF l
  <1> QED
    BY <1>6, <1>7, <1>8 DEF OnPage

(* Division.                                                               *)
LEMMA PageOfPlace ==
  ASSUME NEW i \in Nat, NEW n \in Nat \ {0}
  PROVE  /\ i \div n \in Nat
         /\ (i \div n) * n <= i /\ i < (i \div n) * n + n
         /\ (i + 1) * n = i * n + n
  OBVIOUS

(* What LPUSH does to the pages of a list.                                 *)
LEMMA PagesOfPushed ==
  ASSUME NEW s \in Seq(Ids), NEW m \in Ids
  PROVE  /\ \A i \in 1 .. Len(<<m>> \o s) :
               (<<m>> \o s)[i] \in PageOf(<<m>> \o s, (i - 1) \div PageSize)
         /\ \A page \in 0 .. Len(s) :
               PageOf(s, page) \subseteq PageOf(<<m>> \o s, page) \cup PageOf(<<m>> \o s, page + 1)
  <1> DEFINE new == <<m>> \o s
  <1>1. new \in Seq(Ids) /\ Len(new) \in Nat /\ Len(s) \in Nat /\ PageSize \in Nat \ {0}
    BY PollAssumption
  <1>2. Len(new) = Len(s) + 1 /\ \A i \in 1 .. Len(s) : new[i + 1] = s[i]
    BY Pushed
  <1> HIDE DEF new
  <1>3. ASSUME NEW i \in 1 .. Len(new)
        PROVE  new[i] \in PageOf(new, (i - 1) \div PageSize)
    <2> DEFINE page == (i - 1) \div PageSize
    <2>1. page \in Nat /\ page * PageSize <= i - 1 /\ i - 1 < page * PageSize + PageSize
      <3>1. i - 1 \in Nat
        BY <1>1
      <3> QED
        BY <1>1, <3>1, PageOfPlace
    <2> HIDE DEF page
    <2>2. OnPage(i, page)
      <3>1. page * PageSize \in Nat
        BY <1>1, <2>1
      <3> QED
        BY <1>1, <2>1, <3>1 DEF OnPage, PageStart
    <2>3. new[i] \in PageOf(new, page)
      BY <1>1, <2>1, <2>2, PageIs
    <2> QED
      BY <2>3 DEF page
  <1>4. ASSUME NEW page \in 0 .. Len(s), NEW x \in PageOf(s, page)
        PROVE  x \in PageOf(new, page) \/ x \in PageOf(new, page + 1)
    <2>1. PICK i \in 1 .. Len(s) : OnPage(i, page) /\ x = s[i]
      BY <1>1, <1>4, PageIs
    <2>2. i + 1 \in 1 .. Len(new) /\ new[i + 1] = x /\ page \in Nat /\ page + 1 \in Nat
      BY <1>1, <1>2, <2>1
    <2>3. OnPage(i + 1, page) \/ OnPage(i + 1, page + 1)
      <3>1. PageStart(page) \in Nat /\ PageStart(page + 1) = PageStart(page) + PageSize
        BY <1>1, <2>2, PageOfPlace DEF PageStart
      <3> QED
        BY <1>1, <2>1, <3>1 DEF OnPage
    <2> QED
      BY <1>1, <2>2, <2>3, PageIs
  <1> QED
    BY <1>3, <1>4 DEF new

LEMMA PagesStep ==
  PollTypeInv /\ PollTypeInv' /\ [Next]_vars =>
    \A g \in Groups : messages'[g] # messages[g] =>
       /\ \A i \in DOMAIN messages'[g] :
             messages'[g][i] \in MessagesByGroup(g, (i - 1) \div PageSize)'
       /\ \A page \in 0 .. Len(messages[g]) :
             MessagesByGroup(g, page) \subseteq
               MessagesByGroup(g, page)' \cup MessagesByGroup(g, page + 1)'
  <1> SUFFICES ASSUME PollTypeInv, PollTypeInv', [Next]_vars, NEW g \in Groups,
                      messages'[g] # messages[g]
               PROVE  /\ \A i \in DOMAIN messages'[g] :
                            messages'[g][i] \in MessagesByGroup(g, (i - 1) \div PageSize)'
                      /\ \A page \in 0 .. Len(messages[g]) :
                            MessagesByGroup(g, page) \subseteq
                              MessagesByGroup(g, page)' \cup MessagesByGroup(g, page + 1)'
    OBVIOUS
  <1>1. PICK t \in Threads : PostPush(t)
    <2> USE DEF redis
    <2>1. ~ Die /\ ~ UNCHANGED vars
      BY DEF Die, vars
    <2>2. \A t \in Threads : ~ Start(t)
      BY DEF Start, StartPoll, StartPost, StartChange, StartLogin
    <2>3. \A t \in Threads : ~ PollStep(t)
      BY DEF PollStep, PollRead, PollWait, PollPark
    <2>4. \A t \in Threads : ~ ChangeStep(t) /\ ~ LoginErase(t)
      BY DEF ChangeStep, First, Second, Roster, Announce, LoginErase
    <2>5. \A t \in Threads : PostStep(t) => PostPush(t)
      BY <2>1 DEF PostStep, PostCheck, PostIncr, PostStore, PostWaiting, PostWake
    <2>6. \A r \in Requests : ~ Disconnect(r) /\ ~ Recycle(r)
      BY <2>1 DEF Disconnect, Recycle
    <2> QED
      BY <2>1, <2>2, <2>3, <2>4, <2>5, <2>6 DEF Next, RejectMalformed, Step, Crash
  <1> DEFINE m == call[t].msg
             s == messages[g]
  <1>2. m \in Ids /\ s \in Seq(Ids) /\ messages'[g] = <<m>> \o s
    BY <1>1 DEF PostPush, At, PollTypeInv, TypeOK, PostPCs
  <1>3. \A page : /\ MessagesByGroup(g, page) = PageOf(s, page)
                  /\ MessagesByGroup(g, page)' = PageOf(<<m>> \o s, page)
    BY <1>2 DEF MessagesByGroup, PageOf
  <1>4. DOMAIN messages'[g] = 1 .. Len(<<m>> \o s)
    BY <1>2
  <1> HIDE DEF m, s
  <1> QED
    BY <1>2, <1>3, <1>4, PagesOfPushed DEF s

(* Who reads page after page misses nothing: each message is on the page   *)
(* of its place, and a post moves a message to the next page at most.      *)
THEOREM PagesAreKept == Spec => PagesKeep
  <1>1. PollTypeInv /\ PollTypeInv' /\ [Next]_vars =>
          [\A g \in Groups : messages'[g] # messages[g] =>
             /\ \A i \in DOMAIN messages'[g] :
                   messages'[g][i] \in MessagesByGroup(g, (i - 1) \div PageSize)'
             /\ \A page \in 0 .. Len(messages[g]) :
                   MessagesByGroup(g, page) \subseteq
                     MessagesByGroup(g, page)' \cup MessagesByGroup(g, page + 1)']_vars
    BY PagesStep
  <1> QED
    BY <1>1, PollTyping, PTL DEF Spec, PagesKeep
=============================================================================
