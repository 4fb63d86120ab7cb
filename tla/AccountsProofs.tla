--------------------------- MODULE AccountsProofs ---------------------------
(***************************************************************************)
(* The safety properties of Accounts, for any number of threads, names,    *)
(* passwords, accounts and tokens, with crashes at any moment.             *)
(*                                                                         *)
(* TypeInv, ClaimInv, SessionInv, KnownInv, RecordInv and SameTokenInv are *)
(* the parts of the inductive invariant, each relative to TypeInv or to    *)
(* TypeInv and ClaimInv; all but TypeInv and SessionInv hold under         *)
(* hypotheses on what is requested or on the number of threads, which      *)
(* their theorems state.                                                   *)
(***************************************************************************)
EXTENDS Accounts, TLAPS, SequenceTheorems

(* A word or more: there is a first one. *)
LEMMA FirstWord ==
  /\ \A l \in Logins : l[1] \in Words
  /\ \A p \in Passwords : p[1] \in Words
  BY NamesAssumption DEF NonEmpty

(* What HMSET is given are words, and a value is one of them               *)
(* (RedisCommands.cpp 128-129).                                            *)
LEMMA ArgsType ==
  ASSUME NEW l \in Logins, NEW p \in Passwords
  PROVE  RecordArgs(l, p) \in Seq(Words)
  <1>1. l \in Seq(Words) /\ p \in Seq(Words)
    BY NamesAssumption DEF NonEmpty
  <1>2. <<LoginField>> \in Seq(Words) /\ <<PasswordField>> \in Seq(Words)
    BY FieldsAssumption
  <1>3. <<LoginField>> \o l \in Seq(Words)
    BY <1>1, <1>2
  <1>4. <<LoginField>> \o l \o <<PasswordField>> \in Seq(Words)
    BY <1>2, <1>3
  <1> QED
    BY <1>1, <1>4 DEF RecordArgs

LEMMA ValueType ==
  ASSUME NEW args \in Seq(Words), NEW field
  PROVE  ValueOf(field, args) \subseteq Words
  <1>1. ASSUME NEW n \in FieldsOf(args)
        PROVE  args[n + 1] \in Words
    <2>1. n \in 1 .. Len(args) /\ n % 2 = 1 /\ Len(args) % 2 = 0 /\ Len(args) \in Nat
      BY DEF FieldsOf
    <2>2. n # Len(args)
      BY <2>1
    <2>3. n + 1 \in 1 .. Len(args)
      BY <2>1, <2>2
    <2> QED
      BY <2>3
  <1> QED
    BY <1>1 DEF ValueOf

(* A stored password is one word. *)
LEMMA StoredType ==
  \A l \in Logins, p \in Passwords : StoredPassword(l, p) \subseteq {<<w>> : w \in Words}
  BY ArgsType, ValueType DEF StoredPassword

(* The sum of two hashes fits size_t (RedisCommands.cpp 81). *)
LEMMA TokenType == \A i \in Ids, s \in Times : TokenOf(i, s) \in Tokens
  <1> TAKE i \in Ids, s \in Times
  <1>1. HashOf[i] + s \in Nat /\ TokenSpace \in Nat \ {0}
    BY ClockAssumption DEF Ids
  <1> QED
    BY <1>1 DEF TokenOf, Tokens

-----------------------------------------------------------------------------
(* Type correctness *)

LEMMA TypeInit == Init => TypeInv
  BY CountersAssumption DEF Init, TypeInv, TypeOK, Ids, Missing, NoToken,
     NoCall, PCs, KnowsId, LoginPCs, TokenPCs, CheckPCs

LEMMA TypeStep == TypeInv /\ [Next]_vars => TypeInv'
  <1> SUFFICES ASSUME TypeInv, [Next]_vars
               PROVE  TypeInv'
    OBVIOUS
  <1> USE DEF TypeInv, TypeOK, PCs, SignUpPCs, CheckPCs, TokenPCs, LoginPCs,
              DeletePCs, KnowsId, redis, history, locals, At, Goto
  <1>1. ASSUME NEW t \in Threads, Start(t)
        PROVE  TypeInv'
    <2>1. ASSUME NEW request \in Calls, NEW label \in {"lock", "getid", "whoami"},
                 Serve(t, request, label), label = "getid" => request.op = "login"
          PROVE  TypeInv'
      BY <2>1 DEF Serve
    <2>2. \A l \in Logins, p \in Passwords, k \in Tokens, app \in Nat :
            \A op \in {"signup", "login", "delete"} :
               [op |-> op, login |-> l, password |-> p, app |-> app, token |-> k] \in Calls
      BY DEF Calls
    <2>3. 0 \in Tokens /\ Apps \subseteq Nat
      BY ClockAssumption, CountersAssumption DEF Tokens
    <2>4. ASSUME NEW i \in Users, StartNotify(t, i)
          PROVE  TypeInv'
      <3>1. i \in Ids
        BY <2>4 DEF Users
      <3> QED
        BY <2>4, <3>1 DEF StartNotify
    <2> QED
      BY <1>1, <2>1, <2>2, <2>3, <2>4 DEF Start, StartSignUp, StartLogin, StartDelete
  <1>2. ASSUME NEW t \in Threads, Step(t)
        PROVE  TypeInv'
    <2>0. Done(t) => /\ pc' \in [Threads -> PCs]
                     /\ call' \in [Threads -> Calls \cup {NoCall, Notify}]
                     /\ id' \in [Threads -> Ids \cup {Missing}]
                     /\ me' \in [Threads -> Ids \cup {Missing}]
                     /\ tok' \in [Threads -> Tokens \cup {NoToken}]
                     /\ key' \in [Threads -> Nat]
                     /\ needKey' \in [Threads -> BOOLEAN]
                     /\ known' \in [Threads -> BOOLEAN]
                     /\ \A u \in Threads :
                           /\ pc'[u] \notin {"idle"} \cup TokenPCs => call'[u] \in Calls
                           /\ pc'[u] \in KnowsId => id'[u] \in Ids
                           /\ pc'[u] = "huser" => tok'[u] \in Tokens
                           /\ (pc'[u] \in CheckPCs /\ call'[u].op # "login") \/ pc'[u] = "deluser"
                                 => me'[u] \in Ids
      BY DEF Done
    <2> USE DEF Return, Unlocked, Fail, Missing, NoToken
    <2>1. CASE Lock(t)
      BY <2>1 DEF Lock
    <2>2. CASE Exists(t)
      <3>1. CASE Return(t, "false")
        BY <2>0, <2>2, <3>1 DEF Exists
      <3>2. CASE ~ Return(t, "false")
        BY <2>2, <3>2 DEF Exists
      <3> QED
        BY <3>1, <3>2
    <2>3. CASE Incr(t)
      <3>1. accountcounter' \in 0 .. MaxAccounts /\ accountcounter' \in Ids
        BY <2>3, CountersAssumption DEF Incr, NewId, Ids
      <3> QED
        BY <2>3, <3>1 DEF Incr
    <2>4. CASE SetLogin(t)
      <3>1. call[t].login[1] \in Words /\ id[t] \in Ids
        BY <2>4, FirstWord DEF SetLogin, Calls
      <3>2. /\ logintoid' \in [Words -> Ids \cup {Missing}]
            /\ volatile' \subseteq Words /\ cut' \subseteq Ids
        <4>1. \A i \in Ids, w \in Words :
                 [logintoid EXCEPT ![w] = i] \in [Words -> Ids \cup {Missing}]
          OBVIOUS
        <4>2. logintoid' \in [Words -> Ids \cup {Missing}]
          BY <2>4, <3>1, <4>1 DEF SetLogin
        <4>3. volatile' \subseteq Words /\ cut' \subseteq Ids
          BY <2>4, <3>1 DEF SetLogin
        <4> QED
          BY <4>2, <4>3
      <3>3. UNCHANGED <<accountcounter, password, token, appcounter, sessiontokens,
                        signedUp, answers, forged>>
        BY <2>4 DEF SetLogin
      <3>4. CASE Goto(t, "hmset") /\ UNCHANGED <<signUpMutex, call, locals, ret>>
        BY <2>4, <3>1, <3>2, <3>3, <3>4 DEF SetLogin
      <3>5. CASE Return(t, "false")
        BY <2>0, <3>2, <3>3, <3>5
      <3> QED
        BY <2>4, <3>4, <3>5 DEF SetLogin
    <2>5. CASE HMSetUser(t)
      <3>1. call[t] \in Calls /\ id[t] \in Ids
        BY <2>5 DEF HMSetUser
      <3>2. StoredPassword(call[t].login, call[t].password) \subseteq {<<w>> : w \in Words}
        BY <3>1, StoredType DEF Calls
      <3>3. password' \in [Ids -> {NoPassword} \cup {<<w>> : w \in Words}]
        BY <2>5, <3>1, <3>2 DEF HMSetUser
      <3>4. token' \in [Ids -> Tokens \cup {NoToken}] /\ forged' \subseteq Ids
        BY <2>5, <3>1 DEF HMSetUser
      <3> QED
        BY <2>0, <2>5, <3>1, <3>3, <3>4 DEF HMSetUser, Calls
    <2>6. CASE GetId(t)
      <3> DEFINE l == call[t].login
      <3>1. CASE Plain(l) /\ Taken(l)
        <4>1. logintoid[l[1]] \in Ids
          BY <2>6, <3>1, FirstWord DEF GetId, Taken, Calls
        <4> QED
          BY <2>6, <3>1, <4>1 DEF GetId
      <3>2. CASE ~ (Plain(l) /\ Taken(l))
        BY <2>0, <2>6, <3>2 DEF GetId
      <3> QED
        BY <3>1, <3>2
    <2>7. CASE GetPassword(t)
      <3>1. CASE Die
        BY <3>1 DEF Die
      <3>2. CASE Fail(t)
        BY <2>0, <3>2
      <3>3. ASSUME NEW label \in {"getapp", "deluser"}, Goto(t, label),
                   label = "deluser" => call[t].op # "login",
                   UNCHANGED <<redis, signUpMutex, call, locals, history>>
            PROVE  TypeInv'
        BY <2>7, <3>3 DEF GetPassword
      <3> QED
        BY <2>7, <3>1, <3>2, <3>3 DEF GetPassword
    <2>8. CASE GetAppCounter(t)
      BY <2>8 DEF GetAppCounter
    <2>9. CASE GetToken(t)
      <3>1. token[id[t]] \in Tokens \cup {NoToken}
        BY <2>9 DEF GetToken
      <3>2. CASE ~ needKey[t] /\ AfterKey(token[id[t]]) = "answer"
        BY <2>0, <2>9, <3>1, <3>2 DEF GetToken, Answer, AfterKey, Answers
      <3>3. CASE needKey[t] \/ AfterKey(token[id[t]]) = "hsession"
        BY <2>9, <3>1, <3>3 DEF GetToken, AfterKey
      <3> QED
        BY <3>2, <3>3 DEF AfterKey
    <2>10. CASE IncrApp(t)
      <3>1. appcounter[id[t]] + 1 \in Nat /\ id[t] \in Ids /\ tok[t] \in Tokens \cup {NoToken}
        BY <2>10 DEF IncrApp
      <3>2. CASE AfterKey(tok[t]) = "answer"
        BY <2>0, <2>10, <3>1, <3>2 DEF IncrApp, Answer, AfterKey, Answers
      <3>3. CASE AfterKey(tok[t]) = "hsession"
        BY <2>10, <3>1, <3>3 DEF IncrApp
      <3> QED
        BY <3>2, <3>3 DEF AfterKey
    <2>11. CASE HSetSession(t)
      BY <2>11, TokenType DEF HSetSession, WithSession
    <2>12. CASE HSetUser(t)
      BY <2>0, <2>12 DEF HSetUser, Answer, Answers
    <2>13. CASE WhoAmI(t)
      <3>1. IdBySecret(<<call[t].token>>) \in Ids \cup {Missing}
        BY <2>13 DEF WhoAmI, IdBySecret, Calls
      <3>2. CASE IdBySecret(<<call[t].token>>) = Missing
        BY <2>0, <2>13, <3>2 DEF WhoAmI
      <3>3. CASE IdBySecret(<<call[t].token>>) # Missing
        BY <2>13, <3>1, <3>3 DEF WhoAmI
      <3> QED
        BY <3>2, <3>3
    <2>14. CASE DelUser(t)
      BY <2>14 DEF DelUser
    <2>15. CASE HDelSession(t)
      BY <2>15 DEF HDelSession
    <2>16. CASE DelLogin(t)
      BY <2>0, <2>16 DEF DelLogin
    <2> QED
      BY <1>2, <2>1, <2>2, <2>3, <2>4, <2>5, <2>6, <2>7, <2>8, <2>9, <2>10, <2>11, <2>12,
         <2>13, <2>14, <2>15, <2>16 DEF Step, SignUpStep, LoginStep, DeleteStep
  <1>3. CASE Crash
    BY <1>3 DEF Crash, Die, Missing, NoToken, locals
  <1>4. CASE UNCHANGED vars
    BY <1>4 DEF vars, process
  <1>5. ASSUME NEW w \in volatile, Expire(w)
        PROVE  TypeInv'
    BY <1>5 DEF Expire, process, Missing
  <1> QED
    BY <1>1, <1>2, <1>3, <1>4, <1>5 DEF Next, RejectMalformed

(* Every variable keeps its type; handlers that use an id have one. *)
THEOREM Typing == Spec => [](TypeInv /\ TypeOK)
  <1>1. TypeInv => TypeOK
    BY DEF TypeInv
  <1> QED
    BY TypeInit, TypeStep, <1>1, PTL DEF Spec

-----------------------------------------------------------------------------
(* Names and ids *)

(* Redis refuses a second word of a login to SET; a third may have it      *)
(* accept the second as the value (RedisCommands.cpp 122).                 *)
ShortLogins == \A l \in Logins : Len(l) <= 2

(* What the steps outside createAccount leave of it: at most a name gone.  *)
ClaimFrame ==
  /\ accountcounter' = accountcounter
  /\ volatile' \subseteq volatile
  /\ \A w \in Words : logintoid'[w] \in {logintoid[w], Missing}
  /\ signUpMutex' = signUpMutex
  /\ \A t \in Threads : pc'[t] \in Critical =>
        pc'[t] = pc[t] /\ call'[t] = call[t] /\ id'[t] = id[t]

LEMMA OtherStep ==
  ASSUME TypeInv, NEW t \in Threads, Start(t) \/ LoginStep(t) \/ DeleteStep(t)
  PROVE  ClaimFrame \/ Die
  <1> USE DEF TypeInv, TypeOK, ClaimFrame, Critical, redis, history, locals, At, Goto
  <1>0. Done(t) => \A u \in Threads : pc'[u] \in Critical =>
                      pc'[u] = pc[u] /\ call'[u] = call[u] /\ id'[u] = id[u]
    BY DEF Done
  <1>1. CASE Start(t)
    <2>1. ASSUME NEW request, NEW label \in {"lock", "getid", "whoami"}, Serve(t, request, label)
          PROVE  ClaimFrame
      BY <2>1 DEF Serve
    <2>2. ASSUME NEW i \in Users, StartNotify(t, i)
          PROVE  ClaimFrame
      BY <2>2 DEF StartNotify
    <2> QED
      BY <1>1, <2>1, <2>2 DEF Start, StartSignUp, StartLogin, StartDelete
  <1>2. CASE LoginStep(t)
    <2>1. CASE GetId(t)
      BY <1>0, <2>1 DEF GetId, Fail
    <2>2. CASE GetPassword(t)
      BY <1>0, <2>2 DEF GetPassword, Fail
    <2>3. CASE GetAppCounter(t)
      BY <2>3 DEF GetAppCounter
    <2>4. CASE GetToken(t)
      BY <1>0, <2>4 DEF GetToken, Answer
    <2>5. CASE IncrApp(t)
      BY <1>0, <2>5 DEF IncrApp, Answer
    <2>6. CASE HSetSession(t)
      BY <2>6 DEF HSetSession
    <2>7. CASE HSetUser(t)
      BY <1>0, <2>7 DEF HSetUser, Answer
    <2> QED
      BY <1>2, <2>1, <2>2, <2>3, <2>4, <2>5, <2>6, <2>7 DEF LoginStep
  <1>3. CASE DeleteStep(t)
    <2>1. CASE WhoAmI(t)
      BY <1>0, <2>1 DEF WhoAmI, Fail
    <2>2. CASE DelUser(t)
      BY <2>2 DEF DelUser
    <2>3. CASE HDelSession(t)
      BY <2>3 DEF HDelSession
    <2>4. CASE DelLogin(t)
      BY <1>0, <2>4 DEF DelLogin
    <2> QED
      BY <1>3, <2>1, <2>2, <2>3, <2>4 DEF DeleteStep
  <1> QED
    BY <1>1, <1>2, <1>3

LEMMA ClaimInit == Init => ClaimInv
  BY DEF Init, ClaimInv, Critical, LoginIdsDistinct, Missing

(* The mutex of createAccount holds one thread.                            *)
LEMMA OneInside ==
  ASSUME ClaimInv, NEW t \in Threads, pc[t] \in Critical
  PROVE  \A u \in Threads : pc[u] \in Critical => u = t
  <1>1. \A u \in Threads : pc[u] \in Critical => {u} = {t}
    BY DEF ClaimInv
  <1>2. \A u \in Threads : {u} = {t} => u = t
    OBVIOUS
  <1> QED
    BY <1>1, <1>2

LEMMA ClaimStep ==
  ASSUME ShortLogins
  PROVE  TypeInv /\ TypeInv' /\ ClaimInv /\ [Next]_vars => ClaimInv'
  <1> SUFFICES ASSUME TypeInv, TypeInv', ClaimInv, [Next]_vars
               PROVE  ClaimInv'
    OBVIOUS
  <1> USE DEF ClaimInv, LoginIdsDistinct, Critical, Taken
  <1>a. \A t \in Threads : pc[t] \in SignUpPCs =>
           call[t].login \in Logins /\ call[t].login[1] \in Words
    BY FirstWord DEF TypeInv, Calls, SignUpPCs, TokenPCs
  <1>b. ASSUME ClaimFrame
        PROVE  ClaimInv'
    <2>1. \A t \in Threads : pc'[t] = "set" => id[t] # Missing
      BY <1>b DEF ClaimFrame, TypeInv, KnowsId, Ids, Missing
    <2> QED
      BY <1>a, <1>b, <2>1 DEF ClaimFrame, TypeInv, TypeOK, Missing, SignUpPCs
  <1>c. ASSUME Die
        PROVE  ClaimInv'
    BY <1>c DEF Die, redis
  <1>d. ASSUME NEW t \in Threads, pc[t] \in Critical
        PROVE  \A u \in Threads : pc[u] \in Critical => u = t
    BY <1>d, OneInside
  <1>1. ASSUME NEW t \in Threads, SignUpStep(t)
        PROVE  ClaimInv'
    <2> USE <1>a DEF TypeInv, TypeOK, At, Goto, redis, locals, Missing, SignUpPCs
    <2>1. CASE Lock(t)
      BY <2>1 DEF Lock, LockFree
    <2>2. CASE Exists(t)
      <3>1. CASE Return(t, "false")
        <4>1. pc[t] = "exists" /\ Return(t, "false") /\ UNCHANGED redis
          BY <2>2, <3>1 DEF Exists
        <4>2. /\ pc'[t] = "idle" /\ \A u \in Threads \ {t} : pc'[u] = pc[u]
              /\ UNCHANGED <<logintoid, accountcounter, volatile>>
          BY <4>1 DEF Return, Done
        <4>3. \A u \in Threads : pc'[u] \in Critical => u # t /\ pc[u] \in Critical
          BY <4>2
        <4>4. \A u \in Threads : pc'[u] \notin Critical
          BY <1>d, <4>1, <4>3
        <4> QED
          BY <4>2, <4>4
      <3>2. CASE ~ Return(t, "false")
        BY <2>2, <3>2 DEF Exists
      <3> QED
        BY <3>1, <3>2
    <2>3. CASE Incr(t)
      <3>0. volatile' = {}
        BY <2>3 DEF Incr
      <3>1. accountcounter \in Nat /\ \A w \in Words : logintoid[w] \in Nat
        BY CountersAssumption DEF Ids
      <3>2. accountcounter' = accountcounter + 1 /\ id'[t] = accountcounter'
        BY <2>3 DEF Incr, NewId
      <3>3. \A u \in Threads : pc'[u] = "set" => u = t
        BY <1>d, <2>3 DEF Incr
      <3>4. \A w \in Words : logintoid'[w] = logintoid[w] /\ logintoid[w] < accountcounter'
        BY <2>3, <3>1, <3>2 DEF Incr
      <3>5. \A u \in Threads : pc'[u] \in Critical =>
               pc[u] \in Critical /\ signUpMutex' = signUpMutex /\ call'[u] = call[u]
        BY <2>3 DEF Incr
      <3>6. \A u \in Threads : pc'[u] \in {"incr", "set"} => pc[u] \in {"incr", "set"}
        BY <2>3 DEF Incr
      <3>7. \A w \in Words : logintoid'[w] <= accountcounter'
        BY <3>1, <3>2, <3>4
      <3>8. LoginIdsDistinct'
        BY <3>4
      <3>9. \A u \in Threads : pc'[u] = "set" =>
               id'[u] <= accountcounter' /\ \A w \in Words : logintoid'[w] # id'[u]
        BY <3>1, <3>2, <3>3, <3>4
      <3> QED
        BY <3>0, <3>4, <3>5, <3>6, <3>7, <3>8, <3>9
    <2>4. CASE SetLogin(t)
      <3> DEFINE w0 == call[t].login[1]
      <3>a. call[t].login \in Logins /\ ~ Len(call[t].login) > 2 /\ w0 \in Words
        <4>1. call[t].login \in Seq(Words)
          BY <2>4, NamesAssumption DEF SetLogin, NonEmpty
        <4> QED
          BY <2>4, <4>1 DEF SetLogin, ShortLogins
      <3>0. /\ accountcounter' = accountcounter
            /\ \/ pc' = [pc EXCEPT ![t] = "hmset"] /\ signUpMutex' = signUpMutex
               \/ pc' = [pc EXCEPT ![t] = "idle"]
        BY <2>4, <3>a DEF SetLogin, Return, Done
      <3>b. volatile' = {}
        BY <2>4, <3>a DEF SetLogin
      <3>c. \A u \in Threads : /\ pc'[u] \in Critical => pc[u] \in Critical
                               /\ u # t => pc'[u] = pc[u]
        BY <2>4, <3>0 DEF SetLogin
      <3>1. \A u \in Threads : pc'[u] \notin {"incr", "set"}
        <4>1. \A u \in Threads : pc[u] \in {"incr", "set"} => u = t
          BY <1>d, <2>4 DEF SetLogin
        <4>2. pc'[t] \in {"hmset", "idle"}
          BY <2>4, <3>0 DEF SetLogin
        <4> QED
          BY <3>c, <4>1, <4>2
      <3>2. \A u \in Threads : pc'[u] \in Critical => u = t /\ signUpMutex' = {t}
        <4>1. pc[t] \in Critical /\ signUpMutex = {t}
          BY <2>4 DEF SetLogin
        <4>2. \A u \in Threads : pc'[u] \in Critical => u = t
          BY <1>d, <3>c, <4>1
        <4>3. pc' = [pc EXCEPT ![t] = "idle"] => pc'[t] \notin Critical
          OBVIOUS
        <4> QED
          BY <3>0, <4>1, <4>2, <4>3
      <3>3. CASE Plain(call[t].login)
        <4>1. w0 \in Words /\ logintoid' = [logintoid EXCEPT ![w0] = id[t]]
          BY <2>4, <3>a, <3>3 DEF SetLogin
        <4>2. \A w \in Words : logintoid[w] # id[t] /\ id[t] <= accountcounter
          BY <2>4 DEF SetLogin
        <4> QED
          BY <3>b, <3>0, <3>1, <3>2, <4>1, <4>2
      <3>4. CASE ~ Plain(call[t].login)
        <4>1. logintoid' = logintoid
          BY <2>4, <3>a, <3>4 DEF SetLogin
        <4> QED
          BY <3>b, <3>0, <3>1, <3>2, <4>1
      <3> QED
        BY <3>3, <3>4
    <2>5. CASE HMSetUser(t)
      BY <2>5 DEF HMSetUser, Return, Unlocked, Done
    <2> QED
      BY <1>1, <2>1, <2>2, <2>3, <2>4, <2>5 DEF SignUpStep
  <1>2. CASE UNCHANGED vars
    BY <1>2 DEF vars, redis, process, locals
  <1>3. ASSUME NEW w \in volatile
        PROVE  FALSE
    BY <1>3
  <1> QED
    BY <1>b, <1>c, <1>1, <1>2, <1>3, OtherStep DEF Next, Step, Crash, RejectMalformed

(* No two names lead to one user, where logins have two words at most: one *)
(* of three may name another's id.                                         *)
THEOREM DistinctIds ==
  ASSUME ShortLogins
  PROVE  Spec => []LoginIdsDistinct
  <1>1. ClaimInv => LoginIdsDistinct
    BY DEF ClaimInv
  <1>2. TypeInv /\ TypeInv' /\ ClaimInv /\ [Next]_vars => ClaimInv'
    BY ClaimStep
  <1> QED
    BY Typing, ClaimInit, <1>1, <1>2, PTL DEF Spec

(* A taken name is never given to another user, where logins have two      *)
(* words at most: one of three may pass EXISTS although it is taken.       *)
THEOREM NamesKept ==
  ASSUME ShortLogins
  PROVE  Spec => NamesNotReassigned
  <1> DEFINE Kept == \A w \in Words : logintoid[w] # Missing =>
                        logintoid'[w] \in {logintoid[w], Missing}
  <1>1. ASSUME TypeInv, ClaimInv, [Next]_vars
        PROVE  Kept
    <2>1. ClaimFrame => Kept
      BY DEF ClaimFrame
    <2>2. Die => Kept
      BY DEF Die, redis
    <2>3. ASSUME NEW t \in Threads, SignUpStep(t)
          PROVE  Kept
      <3>1. CASE SetLogin(t) /\ Plain(call[t].login)
        <4>1. ~ Taken(call[t].login)
          BY <1>1, <3>1 DEF SetLogin, At, ClaimInv
        <4>2. logintoid' = [logintoid EXCEPT ![call[t].login[1]] = id[t]]
          BY <3>1 DEF SetLogin, Plain
        <4>3. logintoid \in [Words -> Ids \cup {Missing}]
          BY <1>1 DEF TypeInv, TypeOK
        <4> QED
          BY <4>1, <4>2, <4>3 DEF Taken
      <3>2. CASE ~ (SetLogin(t) /\ Plain(call[t].login))
        <4>1. SetLogin(t) => ~ Len(call[t].login) > 2
          <5>1. ASSUME SetLogin(t)
                PROVE  call[t].login \in Logins /\ call[t].login \in Seq(Words)
            BY <1>1, <5>1, NamesAssumption DEF SetLogin, At, TypeInv, TokenPCs, Calls, NonEmpty
          <5> QED
            BY <5>1 DEF ShortLogins
        <4>2. logintoid' = logintoid
          BY <2>3, <3>2, <4>1 DEF SignUpStep, Lock, Exists, Incr, SetLogin, HMSetUser, redis
        <4> QED
          BY <4>2
      <3> QED
        BY <3>1, <3>2
    <2>4. UNCHANGED vars => Kept
      BY DEF vars, redis
    <2>5. volatile = {}
      BY <1>1 DEF ClaimInv
    <2> QED
      BY <1>1, <2>1, <2>2, <2>3, <2>4, <2>5, OtherStep DEF Next, Step, Crash, RejectMalformed
  <1>2. TypeInv /\ ClaimInv /\ [Next]_vars => [Kept]_vars
    BY <1>1
  <1>3. TypeInv /\ TypeInv' /\ ClaimInv /\ [Next]_vars => ClaimInv'
    BY ClaimStep
  <1> QED
    BY Typing, ClaimInit, <1>2, <1>3, PTL DEF Spec, NamesNotReassigned

-----------------------------------------------------------------------------
(* Session tokens *)

(* What the steps that issue no token leave of the sessions. *)
SessionFrame ==
  /\ sessiontokens' = sessiontokens
  /\ answers' = answers
  /\ forged \subseteq forged'
  /\ \A i \in Ids \ forged' : token'[i] \in {token[i], NoToken}
  /\ \A t \in Threads : pc'[t] \in {"incrapp", "huser"} =>
        pc'[t] = pc[t] /\ tok'[t] = tok[t] /\ id'[t] = id[t]

LEMMA TokenlessStep ==
  ASSUME TypeInv, NEW t \in Threads,
         \/ Start(t) \/ SignUpStep(t) \/ DeleteStep(t)
         \/ GetId(t) \/ GetPassword(t) \/ GetAppCounter(t)
  PROVE  SessionFrame
  <1> USE DEF TypeInv, TypeOK, SessionFrame, redis, history, locals, At, Goto
  <1>0. Done(t) => \A u \in Threads : pc'[u] \in {"incrapp", "huser"} =>
                      pc'[u] = pc[u] /\ tok'[u] = tok[u] /\ id'[u] = id[u]
    BY DEF Done
  <1>1. CASE Start(t)
    <2>1. ASSUME NEW request, NEW label \in {"lock", "getid", "whoami"}, Serve(t, request, label)
          PROVE  SessionFrame
      BY <2>1 DEF Serve
    <2>2. ASSUME NEW i \in Users, StartNotify(t, i)
          PROVE  SessionFrame
      BY <2>2 DEF StartNotify
    <2> QED
      BY <1>1, <2>1, <2>2 DEF Start, StartSignUp, StartLogin, StartDelete
  <1>2. CASE SignUpStep(t)
    <2>1. CASE Lock(t)
      BY <2>1 DEF Lock
    <2>2. CASE Exists(t)
      BY <1>0, <2>2 DEF Exists, Return
    <2>3. CASE Incr(t)
      BY <2>3 DEF Incr
    <2>4. CASE SetLogin(t)
      BY <1>0, <2>4 DEF SetLogin, Return
    <2>5. CASE HMSetUser(t)
      BY <1>0, <2>5 DEF HMSetUser, Return
    <2> QED
      BY <1>2, <2>1, <2>2, <2>3, <2>4, <2>5 DEF SignUpStep
  <1>3. CASE DeleteStep(t)
    <2>1. CASE WhoAmI(t)
      BY <1>0, <2>1 DEF WhoAmI, Fail
    <2>2. CASE DelUser(t)
      BY <2>2 DEF DelUser
    <2>3. CASE HDelSession(t)
      BY <2>3 DEF HDelSession
    <2>4. CASE DelLogin(t)
      BY <1>0, <2>4 DEF DelLogin
    <2> QED
      BY <1>3, <2>1, <2>2, <2>3, <2>4 DEF DeleteStep
  <1>4. CASE GetId(t)
    BY <1>0, <1>4 DEF GetId, Fail
  <1>5. CASE GetPassword(t)
    <2>1. Die => SessionFrame
      BY DEF Die
    <2> QED
      BY <1>0, <1>5, <2>1 DEF GetPassword, Fail
  <1>6. CASE GetAppCounter(t)
    BY <1>6 DEF GetAppCounter
  <1> QED
    BY <1>1, <1>2, <1>3, <1>4, <1>5, <1>6

LEMMA SessionInit == Init => SessionInv
  BY DEF Init, SessionInv, TokensResolve, Missing, NoToken

(* The field a new token takes is free or the same user's. *)
LEMMA NewToken ==
  ASSUME TypeInv, SessionInv, NEW i \in Ids, NEW s \in Times
  PROVE  sessiontokens[TokenOf(i, s)] \in {Missing, i}
  <1> DEFINE k == TokenOf(i, s)
  <1>1. k \in Tokens /\ sessiontokens[k] \in Ids \cup {Missing}
    BY TokenType DEF TypeInv, TypeOK
  <1>2. ASSUME sessiontokens[k] # Missing
        PROVE  sessiontokens[k] = i
    <2>1. PICK r \in Times : k = TokenOf(sessiontokens[k], r)
      BY <1>1, <1>2 DEF SessionInv
    <2> QED
      BY <1>1, <1>2, <2>1, HashesApart
  <1> QED
    BY <1>2

LEMMA SessionStep == TypeInv /\ TypeInv' /\ SessionInv /\ [Next]_vars => SessionInv'
  <1> SUFFICES ASSUME TypeInv, TypeInv', SessionInv, [Next]_vars
               PROVE  SessionInv'
    OBVIOUS
  <1> USE DEF SessionInv, TokensResolve
  <1>a. ASSUME SessionFrame
        PROVE  SessionInv'
    BY <1>a DEF SessionFrame, TypeInv, TypeOK
  <1>b. ASSUME NEW t \in Threads, NEW n, NEW k \in Tokens, Answer(t, k, n),
               sessiontokens' = sessiontokens, forged' = forged,
               sessiontokens[k] = id[t] \/ id[t] \in forged,
               token' = token \/ token' = [token EXCEPT ![id[t]] = k]
        PROVE  SessionInv'
    <2>1. \A a \in answers' : a \in answers \/ (a.id = id[t] /\ a.token = k)
      BY <1>b DEF Answer
    <2>2. \A u \in Threads : pc'[u] \in {"incrapp", "huser"} =>
             pc'[u] = pc[u] /\ tok'[u] = tok[u] /\ id'[u] = id[u]
      BY <1>b DEF Answer, Done, Goto, TypeInv, TypeOK
    <2>3. \A i \in Ids \ forged : token'[i] # NoToken => sessiontokens'[token'[i]] = i
      BY <1>b DEF TypeInv, TypeOK
    <2> QED
      BY <1>b, <2>1, <2>2, <2>3
  <1>1. ASSUME NEW t \in Threads, GetToken(t)
        PROVE  SessionInv'
    <2>1. id[t] \in Ids /\ token[id[t]] \in Tokens \cup {NoToken}
      BY <1>1 DEF GetToken, At, TypeInv, TypeOK, KnowsId, LoginPCs, TokenPCs
    <2>2. CASE ~ needKey[t] /\ AfterKey(token[id[t]]) = "answer"
      BY <1>b, <1>1, <2>1, <2>2 DEF GetToken, AfterKey, redis
    <2>3. CASE needKey[t] \/ AfterKey(token[id[t]]) = "hsession"
      BY <1>1, <2>1, <2>3 DEF GetToken, AfterKey, redis, TypeInv, TypeOK, Goto, At
    <2> QED
      BY <2>2, <2>3 DEF AfterKey
  <1>2. ASSUME NEW t \in Threads, IncrApp(t)
        PROVE  SessionInv'
    <2>1. tok[t] \in Tokens \cup {NoToken} /\ At(t, "incrapp")
      BY <1>2 DEF IncrApp, TypeInv, TypeOK
    <2>2. CASE AfterKey(tok[t]) = "answer"
      BY <1>b, <1>2, <2>1, <2>2 DEF IncrApp, AfterKey, At
    <2>3. CASE AfterKey(tok[t]) = "hsession"
      BY <1>2, <2>1, <2>3 DEF IncrApp, AfterKey, TypeInv, TypeOK, Goto, At
    <2> QED
      BY <2>2, <2>3 DEF AfterKey
  <1>3. ASSUME NEW t \in Threads, HSetSession(t)
        PROVE  SessionInv'
    <2>1. id[t] \in Ids
      BY <1>3 DEF HSetSession, At, TypeInv, KnowsId, LoginPCs, TokenPCs
    <2>2. PICK s \in Times : /\ sessiontokens' = WithSession(TokenOf(id[t], s), id[t])
                             /\ tok' = [tok EXCEPT ![t] = TokenOf(id[t], s)]
      BY <1>3 DEF HSetSession
    <2> DEFINE k == TokenOf(id[t], s)
    <2>3. k \in Tokens /\ sessiontokens[k] \in {Missing, id[t]}
      BY <2>1, TokenType, NewToken
    <2>4. sessiontokens' = [sessiontokens EXCEPT ![k] = id[t]]
      BY <2>2 DEF WithSession
    <2>5. \A x \in Tokens : sessiontokens[x] # Missing => sessiontokens'[x] = sessiontokens[x]
      BY <2>3, <2>4 DEF TypeInv, TypeOK
    <2>6. /\ token' = token /\ answers' = answers /\ id' = id /\ forged' = forged
          /\ pc' = [pc EXCEPT ![t] = "huser"]
      BY <1>3 DEF HSetSession, Goto, history
    <2>7. \A i \in Ids : i # Missing
      BY DEF Ids, Missing
    <2>8. (\A x \in Tokens : sessiontokens[x] # Missing =>
              \E r \in Times : x = TokenOf(sessiontokens[x], r))'
      BY <2>1, <2>3, <2>4 DEF TypeInv, TypeOK
    <2>9. (\A i \in Ids \ forged : token[i] # NoToken => sessiontokens[token[i]] = i)'
      BY <2>5, <2>6, <2>7 DEF TypeInv, TypeOK
    <2>10. TokensResolve'
      BY <2>5, <2>6, <2>7 DEF TypeInv, TypeOK, Answers
    <2>11. ASSUME NEW u \in Threads, pc'[u] \in {"incrapp", "huser"}, tok'[u] # NoToken,
                  id'[u] \notin forged'
           PROVE  sessiontokens'[tok'[u]] = id'[u]
      <3>1. CASE u = t
        BY <2>2, <2>3, <2>4, <2>6, <3>1 DEF TypeInv, TypeOK
      <3>2. CASE u # t
        <4>1. /\ pc[u] \in {"incrapp", "huser"} /\ tok'[u] = tok[u]
              /\ tok[u] \in Tokens /\ id[u] \in Ids
          BY <2>2, <2>6, <2>11, <3>2 DEF TypeInv, TypeOK, KnowsId, LoginPCs, TokenPCs
        <4> QED
          BY <2>5, <2>6, <2>7, <2>11, <4>1
      <3> QED
        BY <3>1, <3>2
    <2> QED
      BY <2>8, <2>9, <2>10, <2>11
  <1>4. ASSUME NEW t \in Threads, HSetUser(t)
        PROVE  SessionInv'
    <2>1. tok[t] \in Tokens /\ (sessiontokens[tok[t]] = id[t] \/ id[t] \in forged)
      BY <1>4 DEF HSetUser, At, TypeInv, Tokens, NoToken
    <2> QED
      BY <1>b, <1>4, <2>1 DEF HSetUser
  <1>5. Die => SessionInv'
    <2>1. Die => SessionFrame
      BY DEF Die, SessionFrame, redis, history
    <2> QED
      BY <1>a, <2>1
  <1>6. CASE UNCHANGED vars
    BY <1>6 DEF vars, redis, process, locals, history
  <1>7. ASSUME NEW w \in volatile, Expire(w)
        PROVE  SessionInv'
    BY <1>7 DEF Expire, process, locals, history
  <1> QED
    BY <1>a, <1>1, <1>2, <1>3, <1>4, <1>5, <1>6, <1>7, TokenlessStep
    DEF Next, Step, LoginStep, Crash, RejectMalformed

(* Every token that was ever answered identifies its user, unless his      *)
(* sign-up set a token of its own.                                         *)
THEOREM AnsweredTokensResolve == Spec => []TokensResolve
  <1>1. SessionInv => TokensResolve
    BY DEF SessionInv
  <1> QED
    BY Typing, SessionInit, SessionStep, <1>1, PTL DEF Spec

-----------------------------------------------------------------------------
(* What a sign-up was promised *)

NoDeletion == "delete" \notin Ops
PlainPasswords == \A p \in Passwords : Plain(p)

(* One word put behind three. *)
LEMMA OneAppended ==
  ASSUME NEW s \in Seq(Words), NEW u \in Seq(Words), Len(s) = 3, Len(u) = 1
  PROVE  /\ s \o u \in Seq(Words) /\ Len(s \o u) = 4
         /\ (s \o u)[1] = s[1] /\ (s \o u)[3] = s[3] /\ (s \o u)[4] = u[1]
  <1>1. /\ s \o u \in Seq(Words) /\ Len(s \o u) = Len(s) + Len(u)
        /\ \A i \in 1 .. Len(s) + Len(u) :
              (s \o u)[i] = IF i <= Len(s) THEN s[i] ELSE u[i - Len(s)]
    BY ConcatProperties
  <1>2. (s \o u)[4] = u[4 - 3]
    BY <1>1
  <1> QED
    BY <1>1, <1>2

(* HMSET stores a password of one word as it is, for a login of one word.  *)
LEMMA PlainStored ==
  ASSUME PlainPasswords, NEW l \in Logins, NEW p \in Passwords, Plain(l)
  PROVE  StoredPassword(l, p) = {p}
  <1> DEFINE args == RecordArgs(l, p)
  <1>1. p \in Seq(Words) /\ Len(p) = 1 /\ l \in Seq(Words) /\ Len(l) = 1
    BY NamesAssumption DEF PlainPasswords, Plain, NonEmpty
  <1>2. <<LoginField>> \in Seq(Words) /\ <<PasswordField>> \in Seq(Words)
    BY FieldsAssumption
  <1> DEFINE named == <<LoginField>> \o l
             keyed == named \o <<PasswordField>>
  <1>3. named \in Seq(Words) /\ Len(named) = 2 /\ named[1] = LoginField
    BY <1>1, <1>2
  <1>4. /\ keyed \in Seq(Words) /\ Len(keyed) = 3
        /\ keyed[1] = LoginField /\ keyed[3] = PasswordField
    BY <1>2, <1>3
  <1>5. /\ args \in Seq(Words) /\ Len(args) = 4
        /\ args[1] = LoginField /\ args[3] = PasswordField /\ args[4] = p[1]
    <2>1. args = keyed \o p
      BY DEF RecordArgs
    <2> HIDE DEF keyed, args
    <2> QED
      BY <1>1, <1>4, <2>1, OneAppended
  <1> HIDE DEF args
  <1>6. FieldsOf(args) = {1, 3}
    <2>1. DOMAIN args = 1 .. 4 /\ Len(args) % 2 = 0
      BY <1>5
    <2>2. \A n \in 1 .. 4 : n % 2 = 1 <=> n \in {1, 3}
      OBVIOUS
    <2> QED
      BY <2>1, <2>2 DEF FieldsOf
  <1>7. {n \in FieldsOf(args) : args[n] = PasswordField} = {3}
    BY <1>5, <1>6, FieldsAssumption
  <1>8. ValueOf(PasswordField, args) = {args[3 + 1]}
    BY <1>7 DEF ValueOf
  <1>9. p = <<p[1]>>
    BY <1>1
  <1> QED
    BY <1>5, <1>8, <1>9 DEF StoredPassword, args

(* What every step but SET and HMSET leaves of the names and records.      *)
HandlersFrame ==
  \A t \in Threads : /\ pc'[t] \notin DeletePCs
                     /\ pc'[t] \in CheckPCs => call'[t].op = "login"
                     /\ pc'[t] = "hmset" => /\ pc[t] = "hmset"
                                           /\ call'[t] = call[t] /\ id'[t] = id[t]
KnownFrame ==
  /\ logintoid' = logintoid /\ password' = password /\ signedUp' = signedUp
  /\ HandlersFrame

LEMMA QuietStep ==
  ASSUME NoDeletion, TypeInv, KnownInv, NEW t \in Threads,
         Start(t) \/ LoginStep(t) \/ DeleteStep(t) \/ Lock(t) \/ Exists(t) \/ Incr(t)
  PROVE  KnownFrame
  <1> USE DEF TypeInv, TypeOK, KnownInv, KnownFrame, DeletePCs, CheckPCs,
              redis, history, locals, At, Goto
  <1>0. Done(t) => HandlersFrame
    BY DEF Done, HandlersFrame
  <1>a. ASSUME HandlersFrame, UNCHANGED <<logintoid, password, signedUp>>
        PROVE  KnownFrame
    BY <1>a
  <1>1. CASE Start(t)
    <2>1. ASSUME NEW request, request.op = "login", Serve(t, request, "getid")
          PROVE  KnownFrame
      BY <2>1 DEF Serve, HandlersFrame
    <2>2. ASSUME NEW request, Serve(t, request, "lock")
          PROVE  KnownFrame
      BY <2>2 DEF Serve, HandlersFrame
    <2>3. ASSUME NEW request, request.op = "delete"
          PROVE  ~ Serve(t, request, "whoami")
      BY <2>3 DEF Serve, NoDeletion
    <2>4. ASSUME NEW i \in Users, StartNotify(t, i)
          PROVE  KnownFrame
      BY <2>4 DEF StartNotify, HandlersFrame
    <2> QED
      BY <1>1, <2>1, <2>2, <2>3, <2>4 DEF Start, StartSignUp, StartLogin, StartDelete
  <1>2. CASE LoginStep(t)
    <2>1. CASE GetId(t)
      <3>1. CASE Fail(t)
        BY <1>0, <3>1 DEF Fail
      <3>2. CASE ~ Fail(t)
        BY <2>1, <3>2 DEF GetId, HandlersFrame
      <3> QED
        BY <3>1, <3>2
    <2>2. CASE GetPassword(t)
      <3>1. Die => KnownFrame
        BY DEF Die, HandlersFrame
      <3>2. CASE Fail(t)
        BY <1>0, <3>2 DEF Fail
      <3>3. CASE ~ Fail(t) /\ ~ Die
        BY <2>2, <3>3 DEF GetPassword, HandlersFrame
      <3> QED
        BY <3>1, <3>2, <3>3
    <2>3. CASE GetAppCounter(t)
      BY <2>3 DEF GetAppCounter, HandlersFrame
    <2>4. CASE GetToken(t)
      <3>1. CASE Done(t)
        BY <1>0, <2>4, <3>1 DEF GetToken
      <3>2. CASE ~ Done(t)
        BY <2>4, <3>2 DEF GetToken, Answer, HandlersFrame
      <3> QED
        BY <3>1, <3>2
    <2>5. CASE IncrApp(t)
      <3>1. CASE Done(t)
        BY <1>0, <2>5, <3>1 DEF IncrApp
      <3>2. CASE ~ Done(t)
        BY <2>5, <3>2 DEF IncrApp, Answer, HandlersFrame
      <3> QED
        BY <3>1, <3>2
    <2>6. CASE HSetSession(t)
      BY <2>6 DEF HSetSession, HandlersFrame
    <2>7. CASE HSetUser(t)
      BY <1>0, <2>7 DEF HSetUser, Answer
    <2> QED
      BY <1>2, <2>1, <2>2, <2>3, <2>4, <2>5, <2>6, <2>7 DEF LoginStep
  <1>3. CASE DeleteStep(t)
    BY <1>3 DEF DeleteStep, WhoAmI, DelUser, HDelSession, DelLogin
  <1>4. CASE Lock(t)
    BY <1>4 DEF Lock, HandlersFrame
  <1>5. CASE Exists(t)
    <2>1. CASE Done(t)
      BY <1>0, <1>5, <2>1 DEF Exists
    <2>2. CASE ~ Done(t)
      BY <1>5, <2>2 DEF Exists, Return, HandlersFrame
    <2> QED
      BY <2>1, <2>2
  <1>6. CASE Incr(t)
    BY <1>6 DEF Incr, HandlersFrame
  <1> QED
    BY <1>1, <1>2, <1>3, <1>4, <1>5, <1>6

LEMMA KnownInit == Init => KnownInv
  BY DEF Init, KnownInv, SignedUpIsKnown, DeletePCs, CheckPCs

LEMMA KnownStep ==
  ASSUME NoDeletion, PlainPasswords, ShortLogins
  PROVE  TypeInv /\ TypeInv' /\ ClaimInv /\ ClaimInv' /\ KnownInv /\ [Next]_vars => KnownInv'
  <1> SUFFICES ASSUME TypeInv, TypeInv', ClaimInv, ClaimInv', KnownInv, [Next]_vars
               PROVE  KnownInv'
    OBVIOUS
  <1> USE DEF KnownInv, SignedUpIsKnown, Taken
  <1>a. ASSUME KnownFrame
        PROVE  KnownInv'
    BY <1>a DEF KnownFrame, HandlersFrame
  <1>b. Die => KnownFrame
    BY DEF Die, KnownFrame, HandlersFrame, redis, history, DeletePCs, CheckPCs
  <1>c. UNCHANGED vars => KnownFrame
    BY DEF vars, redis, process, locals, history, KnownFrame, HandlersFrame
  <1>d. ASSUME NEW t \in Threads, pc[t] \in Critical
        PROVE  \A u \in Threads : pc[u] \in Critical => u = t
    BY <1>d, OneInside
  <1>e. \A s \in signedUp : s[1] \in Logins /\ s[1][1] \in Words /\ s[2] \in Passwords
    BY FirstWord DEF TypeInv, TypeOK
  <1>1. ASSUME NEW t \in Threads, SetLogin(t)
        PROVE  KnownInv'
    <2> DEFINE w0 == call[t].login[1]
    <2>1. pc[t] = "set" /\ w0 \in Words /\ call[t].login \in Logins
      BY <1>1, FirstWord DEF SetLogin, At, TypeInv, Calls, TokenPCs
    <2>2. ~ Len(call[t].login) > 2
      <3>1. call[t].login \in Seq(Words)
        BY <2>1, NamesAssumption DEF NonEmpty
      <3> QED
        BY <2>1, <3>1 DEF ShortLogins
    <2>3. password' = password /\ signedUp' = signedUp
      BY <1>1 DEF SetLogin
    <2>4. CASE Plain(call[t].login)
      <3>0. logintoid[w0] = Missing
        BY <2>1, <2>4 DEF ClaimInv
      <3>1. \A s \in signedUp : s[1][1] # w0
        BY <3>0
      <3>2. /\ logintoid' = [logintoid EXCEPT ![w0] = id[t]]
            /\ pc' = [pc EXCEPT ![t] = "hmset"] /\ call' = call /\ id' = id
        BY <1>1, <2>2, <2>4 DEF SetLogin, Goto, locals
      <3>3. \A s \in signedUp : logintoid'[s[1][1]] = logintoid[s[1][1]]
        BY <1>e, <3>1, <3>2 DEF TypeInv, TypeOK
      <3>4. \A u \in Threads : pc'[u] = "hmset" => u = t
        BY <1>d, <2>1, <3>2 DEF TypeInv, TypeOK, Critical
      <3>5. \A u \in Threads : /\ pc'[u] \notin DeletePCs
                               /\ pc'[u] \in CheckPCs => call'[u].op = "login"
        BY <3>2 DEF TypeInv, TypeOK, DeletePCs, CheckPCs
      <3>6. logintoid'[w0] = id'[t]
        BY <2>1, <3>2 DEF TypeInv, TypeOK
      <3> QED
        BY <2>3, <2>4, <3>1, <3>2, <3>3, <3>4, <3>5, <3>6
    <2>5. CASE ~ Plain(call[t].login)
      <3>1. logintoid' = logintoid /\ Done(t)
        BY <1>1, <2>2, <2>5 DEF SetLogin, Return
      <3>2. \A u \in Threads : pc'[u] # "idle" =>
               pc'[u] = pc[u] /\ call'[u] = call[u] /\ id'[u] = id[u]
        BY <3>1 DEF Done, Goto, TypeInv, TypeOK
      <3> QED
        BY <2>3, <3>1, <3>2, <1>a DEF KnownFrame, HandlersFrame, DeletePCs, CheckPCs
    <2> QED
      BY <2>4, <2>5
  <1>2. ASSUME NEW t \in Threads, HMSetUser(t)
        PROVE  KnownInv'
    <2> DEFINE l == call[t].login
               p == call[t].password
    <2>1. /\ pc[t] = "hmset" /\ l \in Logins /\ l[1] \in Words /\ p \in Passwords
          /\ id[t] \in Ids /\ logintoid[l[1]] = id[t] /\ Plain(l)
      BY <1>2, FirstWord DEF HMSetUser, At, TypeInv, Calls, KnowsId, TokenPCs
    <2>2. /\ password' = [password EXCEPT ![id[t]] = p] /\ logintoid' = logintoid
          /\ signedUp' = signedUp \cup {<<l, p>>} /\ Done(t)
      <3>1. StoredPassword(l, p) = {p}
        BY <2>1, PlainStored
      <3> QED
        BY <1>2, <3>1 DEF HMSetUser, Return
    <2>3. \A u \in Threads : pc'[u] # "idle" => pc'[u] = pc[u] /\ call'[u] = call[u]
      BY <2>2 DEF Done, Goto, TypeInv, TypeOK
    <2>4. \A u \in Threads : pc'[u] # "hmset"
      BY <1>d, <2>1, <2>2, <2>3 DEF Critical, Done, Goto, TypeInv, TypeOK
    <2>5. id[t] # Missing
      BY <2>1 DEF Ids, Missing
    <2>6. \A s \in signedUp : logintoid[s[1][1]] # id[t]
      BY <1>e, <2>1, <2>5 DEF ClaimInv, LoginIdsDistinct
    <2>7. \A s \in signedUp : password'[logintoid[s[1][1]]] = s[2]
      BY <1>e, <2>2, <2>6 DEF TypeInv, TypeOK
    <2>8. password'[logintoid[l[1]]] = p
      BY <2>1, <2>2 DEF TypeInv, TypeOK
    <2>9. SignedUpIsKnown'
      BY <2>1, <2>2, <2>5, <2>7, <2>8
    <2> QED
      BY <2>3, <2>4, <2>9 DEF DeletePCs, CheckPCs
  <1> QED
    BY <1>a, <1>b, <1>c, <1>1, <1>2, QuietStep
    DEF Next, Step, SignUpStep, Crash, RejectMalformed, ClaimInv

(* Where accounts are not deleted, passwords have no blank and logins one  *)
(* at most, whoever was told TRUE can log in with that very pair, whatever *)
(* ran beside it and whenever the server died.                             *)
THEOREM SignUpsHold ==
  ASSUME NoDeletion, PlainPasswords, ShortLogins
  PROVE  Spec => []SignedUpIsKnown
  <1>1. KnownInv => SignedUpIsKnown
    BY DEF KnownInv
  <1>2. TypeInv /\ TypeInv' /\ ClaimInv /\ ClaimInv' /\ KnownInv /\ [Next]_vars => KnownInv'
    BY KnownStep
  <1>3. TypeInv /\ TypeInv' /\ ClaimInv /\ [Next]_vars => ClaimInv'
    BY ClaimStep
  <1>4. Spec => [](TypeInv /\ ClaimInv)
    BY Typing, ClaimInit, <1>3, PTL DEF Spec
  <1> QED
    BY KnownInit, <1>1, <1>2, <1>4, PTL DEF Spec

-----------------------------------------------------------------------------
(* On one thread *)

OneThread == \A s, t \in Threads : s = t
(* A password of an odd number of words is stored, for a name of one word. *)
StoredPasswords == \A l \in Logins, p \in Passwords : Plain(l) => StoredPassword(l, p) # {}

(* What every step but INCR, SET, HMSET, a found name, a deletion and the  *)
(* end of the process leaves of names and records.                         *)
RecordFrame ==
  /\ logintoid' = logintoid /\ password' = password /\ cut' = cut
  /\ accountcounter' = accountcounter
  /\ \A t \in Threads : /\ pc'[t] = "getpassword" => pc[t] = "getpassword" /\ id'[t] = id[t]
                        /\ pc[t] = "hmset" => pc'[t] = "hmset" /\ id'[t] = id[t]
                        /\ pc'[t] \in {"set", "hmset"} =>
                              pc'[t] = pc[t] /\ call'[t] = call[t] /\ id'[t] = id[t]

LEMMA RecordQuiet ==
  ASSUME TypeInv, NEW t \in Threads,
         \/ Start(t) \/ LoginStep(t) \/ Lock(t) \/ Exists(t)
         \/ WhoAmI(t) \/ HDelSession(t)
  PROVE  RecordFrame \/ Die \/ (GetId(t) /\ ~ Fail(t))
  <1> USE DEF TypeInv, TypeOK, redis, history, locals, At, Goto
  <1>0. ASSUME Done(t), UNCHANGED <<logintoid, password, cut, accountcounter>>, pc[t] # "hmset"
        PROVE  RecordFrame
    BY <1>0 DEF Done, RecordFrame
  <1>1. CASE Start(t)
    <2>1. ASSUME NEW request, NEW label \in {"lock", "getid", "whoami"}, Serve(t, request, label)
          PROVE  RecordFrame
      BY <2>1 DEF Serve, RecordFrame
    <2>2. ASSUME NEW i \in Users, StartNotify(t, i)
          PROVE  RecordFrame
      BY <2>2 DEF StartNotify, RecordFrame
    <2> QED
      BY <1>1, <2>1, <2>2 DEF Start, StartSignUp, StartLogin, StartDelete
  <1>2. CASE LoginStep(t)
    <2>1. CASE GetId(t)
      BY <1>0, <2>1 DEF GetId, Fail
    <2>2. CASE GetPassword(t)
      <3>1. CASE Fail(t)
        BY <1>0, <2>2, <3>1 DEF GetPassword, Fail
      <3>2. CASE ~ Fail(t)
        BY <2>2, <3>2 DEF GetPassword, RecordFrame
      <3> QED
        BY <3>1, <3>2
    <2>3. CASE GetAppCounter(t)
      BY <2>3 DEF GetAppCounter, RecordFrame
    <2>4. CASE GetToken(t)
      <3>1. CASE Done(t)
        BY <1>0, <2>4, <3>1 DEF GetToken
      <3>2. CASE ~ Done(t)
        BY <2>4, <3>2 DEF GetToken, Answer, RecordFrame
      <3> QED
        BY <3>1, <3>2
    <2>5. CASE IncrApp(t)
      <3>1. CASE Done(t)
        BY <1>0, <2>5, <3>1 DEF IncrApp
      <3>2. CASE ~ Done(t)
        BY <2>5, <3>2 DEF IncrApp, Answer, RecordFrame
      <3> QED
        BY <3>1, <3>2
    <2>6. CASE HSetSession(t)
      BY <2>6 DEF HSetSession, RecordFrame
    <2>7. CASE HSetUser(t)
      BY <1>0, <2>7 DEF HSetUser, Answer
    <2> QED
      BY <1>2, <2>1, <2>2, <2>3, <2>4, <2>5, <2>6, <2>7 DEF LoginStep
  <1>3. CASE WhoAmI(t)
    <2>1. CASE Fail(t)
      BY <1>0, <1>3, <2>1 DEF WhoAmI, Fail
    <2>2. CASE ~ Fail(t)
      BY <1>3, <2>2 DEF WhoAmI, RecordFrame
    <2> QED
      BY <2>1, <2>2
  <1>4. CASE HDelSession(t)
    BY <1>4 DEF HDelSession, RecordFrame
  <1>5. CASE Lock(t)
    BY <1>5 DEF Lock, RecordFrame
  <1>6. CASE Exists(t)
    <2>1. CASE Done(t)
      BY <1>0, <1>6, <2>1 DEF Exists
    <2>2. CASE ~ Done(t)
      BY <1>6, <2>2 DEF Exists, Return, RecordFrame
    <2> QED
      BY <2>1, <2>2
  <1> QED
    BY <1>1, <1>2, <1>3, <1>4, <1>5, <1>6

LEMMA RecordInit == Init => RecordInv
  BY DEF Init, RecordInv, DiesOfLostRecords, At, Missing

(* The end of the process leaves out the record that was being written.    *)
LEMMA RecordDie == TypeInv /\ RecordInv /\ Die => RecordInv'
  BY DEF TypeInv, TypeOK, RecordInv, DiesOfLostRecords, Die, At, redis

LEMMA RecordFrameStep == TypeInv /\ RecordInv /\ RecordFrame => RecordInv'
  BY DEF TypeInv, TypeOK, RecordInv, DiesOfLostRecords, RecordFrame, At

LEMMA RecordStep ==
  ASSUME OneThread, StoredPasswords
  PROVE  TypeInv /\ TypeInv' /\ RecordInv /\ [Next]_vars => RecordInv'
  <1> SUFFICES ASSUME TypeInv, TypeInv', RecordInv, [Next]_vars
               PROVE  RecordInv'
    OBVIOUS
  <1>a. CASE UNCHANGED vars
    BY <1>a, RecordFrameStep DEF vars, redis, process, history, locals, RecordFrame
  <1>b. /\ \A s, u \in Threads : s = u
        /\ accountcounter \in Nat /\ \A w \in Words : logintoid[w] \in Nat
        /\ \A w \in Words : logintoid'[w] \in Nat
    BY CountersAssumption DEF OneThread, TypeInv, TypeOK, Ids, Missing
  <1>0. ASSUME NEW t \in Threads, Incr(t)
        PROVE  RecordInv'
    <2>1. /\ accountcounter' = accountcounter + 1 /\ id'[t] = accountcounter'
          /\ pc[t] = "incr" /\ pc'[t] = "set"
          /\ UNCHANGED <<logintoid, password, cut>>
      BY <1>0 DEF Incr, NewId, At, Goto, history, TypeInv, TypeOK
    <2>2. \A w \in Words : logintoid[w] = accountcounter' => logintoid[w] > accountcounter
      BY <1>b, <2>1
    <2>3. \A w \in Words : logintoid[w] > accountcounter' => logintoid[w] > accountcounter
      BY <1>b, <2>1
    <2>4. id'[t] <= accountcounter'
      BY <1>b, <2>1
    <2> QED
      BY <1>b, <2>1, <2>2, <2>3, <2>4 DEF RecordInv, DiesOfLostRecords, At
  <1>1. ASSUME NEW t \in Threads, SetLogin(t)
        PROVE  RecordInv'
    <2> DEFINE l == call[t].login
               w0 == l[1]
    <2>1. /\ pc[t] = "set" /\ w0 \in Words /\ id[t] \in Ids /\ id[t] <= accountcounter
          /\ password' = password /\ accountcounter' = accountcounter
      BY <1>1, FirstWord DEF SetLogin, At, TypeInv, TokenPCs, Calls, KnowsId, RecordInv
    <2>2. CASE /\ Plain(l) /\ logintoid' = [logintoid EXCEPT ![w0] = id[t]]
               /\ Goto(t, "hmset") /\ UNCHANGED <<call, locals, cut>>
      <3>1. pc'[t] = "hmset" /\ id' = id /\ call' = call /\ cut' = cut
        BY <2>2 DEF Goto, locals, TypeInv, TypeOK
      <3>2. \A w \in Words : logintoid'[w] = IF w = w0 THEN id[t] ELSE logintoid[w]
        BY <2>2 DEF TypeInv, TypeOK
      <3>3. \A w \in Words : logintoid'[w] > accountcounter' => logintoid'[w] \in cut'
        BY <1>b, <2>1, <3>1, <3>2 DEF RecordInv, Ids
      <3>4. \A w \in Words : logintoid'[w] # Missing /\ password'[logintoid'[w]] = NoPassword =>
               logintoid'[w] \in cut' \/ logintoid'[w] = id[t]
        <4>1. \A w \in Words : w # w0 => logintoid'[w] = logintoid[w]
          BY <3>2
        <4>2. \A w \in Words : w = w0 => logintoid'[w] = id[t]
          BY <3>2
        <4> QED
          BY <1>b, <2>1, <3>1, <4>1, <4>2 DEF RecordInv, At
      <3> QED
        BY <1>b, <2>1, <2>2, <3>1, <3>3, <3>4 DEF RecordInv, DiesOfLostRecords, At
    <2>3. CASE /\ \E i \in Ids : /\ logintoid' = [logintoid EXCEPT ![w0] = i]
                                /\ cut' = cut \cup {i}
               /\ Goto(t, "hmset") /\ UNCHANGED <<call, locals>>
      <3>1. pc'[t] = "hmset" /\ id' = id /\ call' = call
        BY <2>3 DEF Goto, locals, TypeInv, TypeOK
      <3>2. \A w \in Words : logintoid'[w] \in cut' \/ logintoid'[w] = logintoid[w]
        BY <2>3 DEF TypeInv, TypeOK
      <3>3. cut \subseteq cut'
        BY <2>3
      <3> QED
        BY <1>b, <2>1, <3>1, <3>2, <3>3 DEF RecordInv, DiesOfLostRecords, At
    <2>4. CASE Return(t, "false") /\ UNCHANGED <<logintoid, cut>>
      <3>1. RecordFrame
        BY <2>1, <2>4 DEF Return, Done, Goto, RecordFrame, TypeInv, TypeOK
      <3> QED
        BY <3>1, RecordFrameStep
    <2> QED
      BY <1>1, <2>2, <2>3, <2>4 DEF SetLogin
  <1>2. ASSUME NEW t \in Threads, HMSetUser(t)
        PROVE  RecordInv'
    <2> DEFINE l == call[t].login
               p == call[t].password
    <2>1. /\ pc[t] = "hmset" /\ l \in Logins /\ p \in Passwords /\ id[t] \in Ids
      BY <1>2 DEF HMSetUser, At, TypeInv, TokenPCs, Calls, KnowsId
    <2>2. /\ UNCHANGED <<logintoid, accountcounter, cut>> /\ pc'[t] = "idle"
          /\ \/ StoredPassword(l, p) = {} /\ password' = password
             \/ \E s \in StoredPassword(l, p) : password' = [password EXCEPT ![id[t]] = s]
      BY <1>2 DEF HMSetUser, Return, Done, Goto, TypeInv, TypeOK
    <2>3. Plain(l) => password'[id[t]] # NoPassword
      <3>1. ASSUME Plain(l)
            PROVE  StoredPassword(l, p) # {}
        BY <2>1, <3>1 DEF StoredPasswords
      <3>2. \A s \in StoredPassword(l, p) : s # NoPassword
        <4>1. \A w : <<w>> # << >>
          OBVIOUS
        <4> QED
          BY <4>1, Zenon DEF StoredPassword, NoPassword
      <3>3. ASSUME NEW s, password' = [password EXCEPT ![id[t]] = s]
            PROVE  password'[id[t]] = s
        BY <2>1, <3>3 DEF TypeInv, TypeOK
      <3> QED
        BY <2>2, <3>1, <3>2, <3>3
    <2>4. \A i \in Ids : i # id[t] => password'[i] = password[i]
      BY <2>2 DEF TypeInv, TypeOK
    <2>5. ASSUME NEW w \in Words, logintoid[w] # Missing, password'[logintoid[w]] = NoPassword
          PROVE  logintoid[w] \in cut
      <3>1. CASE logintoid[w] = id[t]
        BY <2>1, <2>3, <2>5, <3>1 DEF RecordInv, At
      <3>2. CASE logintoid[w] # id[t]
        <4>1. logintoid[w] \in Ids
          BY <2>5 DEF TypeInv, TypeOK
        <4>2. password[logintoid[w]] = NoPassword
          BY <2>4, <2>5, <3>2, <4>1
        <4>3. \A u \in Threads : id[u] = id[t]
          BY <1>b
        <4> QED
          BY <2>5, <3>2, <4>2, <4>3 DEF RecordInv
      <3> QED
        BY <3>1, <3>2
    <2> QED
      BY <1>b, <2>2, <2>5 DEF RecordInv, DiesOfLostRecords, At
  <1>3. ASSUME NEW t \in Threads, GetId(t), ~ Fail(t)
        PROVE  RecordInv'
    <2>1. /\ pc[t] = "getid" /\ call[t].login[1] \in Words
      BY <1>3, FirstWord DEF GetId, At, TypeInv, TokenPCs, Calls
    <2>2. /\ logintoid[call[t].login[1]] # Missing
          /\ id'[t] = logintoid[call[t].login[1]] /\ pc'[t] = "getpassword"
          /\ UNCHANGED <<logintoid, accountcounter, password, cut>>
      BY <1>3 DEF GetId, Taken, Goto, redis, history, TypeInv, TypeOK
    <2> QED
      BY <1>b, <2>1, <2>2 DEF RecordInv, DiesOfLostRecords, At
  <1>4. ASSUME NEW t \in Threads, DelUser(t)
        PROVE  RecordInv'
    <2>1. /\ pc[t] = "deluser" /\ pc' = [pc EXCEPT ![t] = "hdelsession"] /\ id' = id
          /\ me[t] \in Ids /\ UNCHANGED <<logintoid, accountcounter>> /\ cut' = cut \cup {me[t]}
          /\ password' = [password EXCEPT ![me[t]] = NoPassword]
      BY <1>4 DEF DelUser, At, Goto, locals, TypeInv
    <2> QED
      BY <1>b, <2>1 DEF RecordInv, DiesOfLostRecords, At, TypeInv, TypeOK
  <1>5. ASSUME NEW t \in Threads, DelLogin(t)
        PROVE  RecordInv'
    <2>1. /\ pc[t] = "dellogin" /\ Done(t)
          /\ UNCHANGED <<accountcounter, password, cut>>
          /\ \A w \in Words : logintoid'[w] \in {logintoid[w], Missing}
      BY <1>5 DEF DelLogin, At, history, TypeInv, TypeOK
    <2>2. \A u \in Threads : pc'[u] = "idle"
      BY <1>b, <2>1 DEF Done, Goto, TypeInv, TypeOK
    <2>3. \A w \in Words : ~ Missing > accountcounter
      BY <1>b DEF Missing
    <2>4. \A u \in Threads : pc[u] # "hmset"
      BY <1>b, <2>1
    <2> QED
      BY <2>1, <2>2, <2>3, <2>4 DEF RecordInv, DiesOfLostRecords, At
  <1>6. ASSUME NEW w \in volatile, Expire(w)
        PROVE  RecordInv'
    <2>1. /\ UNCHANGED <<accountcounter, password, cut, pc, call, id>>
          /\ \A v \in Words : logintoid'[v] \in {logintoid[v], Missing}
      BY <1>6 DEF Expire, process, locals, history, TypeInv, TypeOK
    <2>2. ~ Missing > accountcounter /\ \A u \in Threads : pc[u] \in {"set", "hmset"} => id[u] # Missing
      BY <1>b DEF Missing, TypeInv, KnowsId, Ids
    <2> QED
      BY <2>1, <2>2 DEF RecordInv, DiesOfLostRecords, At
  <1> QED
    BY <1>a, <1>0, <1>1, <1>2, <1>3, <1>4, <1>5, <1>6, RecordQuiet, RecordDie, RecordFrameStep
    DEF Next, Step, SignUpStep, LoginStep, DeleteStep, Crash, RejectMalformed

(* On one thread, where every password of a request is stored, a name      *)
(* without a password is one that a crash or a deletion cut short, or that *)
(* a login of several words led there, and nothing else makes              *)
(* checkLoginPassword end the process.                                     *)
THEOREM DeathsAreOfCutRecords ==
  ASSUME OneThread, StoredPasswords
  PROVE  Spec => []DiesOfLostRecords
  <1>1. RecordInv => DiesOfLostRecords
    BY DEF RecordInv
  <1>2. TypeInv /\ TypeInv' /\ RecordInv /\ [Next]_vars => RecordInv'
    BY RecordStep
  <1> QED
    BY TypeInit, TypeStep, RecordInit, <1>1, <1>2, PTL DEF Spec

-----------------------------------------------------------------------------
(* One token of a user *)

(* What the steps leave that neither issue or answer a token nor write,    *)
(* read or delete a record.                                                *)
TokenFrame ==
  /\ token' = token /\ password' = password /\ answers' = answers
  /\ accountcounter' = accountcounter
  /\ \A t \in Threads :
        /\ pc'[t] \in LoginPCs /\ call'[t].op = "login" =>
              pc[t] \in LoginPCs /\ call'[t] = call[t] /\ id'[t] = id[t]
        /\ pc'[t] = "incrapp" => pc[t] = "incrapp" /\ tok'[t] = tok[t] /\ id'[t] = id[t]
        /\ pc'[t] \in {"hsession", "huser"} =>
              pc[t] \in {"hsession", "huser"} /\ id'[t] = id[t]
        /\ pc'[t] \in {"set", "hmset"} => pc[t] \in {"set", "hmset"} /\ id'[t] = id[t]

LEMMA TokenFrameStep == TypeInv /\ SameTokenInv /\ TokenFrame => SameTokenInv'
  <1> SUFFICES ASSUME TypeInv, SameTokenInv, TokenFrame
               PROVE  SameTokenInv'
    OBVIOUS
  <1>1. SameSessionToken'
    BY DEF SameTokenInv, SameSessionToken, TokenFrame
  <1>2. \A t \in Threads :
          /\ pc'[t] \in LoginPCs /\ call'[t].op = "login" =>
                password'[id'[t]] # NoPassword
          /\ pc'[t] = "incrapp" => tok'[t] = token'[id'[t]]
          /\ pc'[t] \in {"hsession", "huser"} => token'[id'[t]] = NoToken
    BY DEF SameTokenInv, TokenFrame
  <1>3. \A t \in Threads :
          pc'[t] \in {"set", "hmset"} =>
                id'[t] <= accountcounter' /\ \A a \in answers' : a.id # id'[t]
    BY DEF SameTokenInv, TokenFrame
  <1> QED
    BY <1>1, <1>2, <1>3 DEF SameTokenInv, TokenFrame

(* A handler that returns leaves nothing to say of its thread.             *)
LEMMA TokenDone ==
  ASSUME TypeInv, NEW t \in Threads, Done(t),
         UNCHANGED <<token, password, answers, accountcounter>>
  PROVE  TokenFrame
  BY DEF TypeInv, TypeOK, Done, Goto, TokenFrame, LoginPCs, TokenPCs

LEMMA TokenQuiet ==
  ASSUME TypeInv, NEW t \in Threads,
         \/ Start(t) \/ Lock(t) \/ Exists(t) \/ SetLogin(t) \/ GetId(t)
         \/ GetAppCounter(t) \/ HSetSession(t)
         \/ WhoAmI(t) \/ HDelSession(t) \/ DelLogin(t)
  PROVE  TokenFrame
  <1> USE DEF TypeInv, TypeOK, redis, history, locals, At, Goto, LoginPCs, TokenPCs
  <1>1. CASE Start(t)
    <2>1. ASSUME NEW request, NEW label \in {"lock", "getid", "whoami"}, Serve(t, request, label)
          PROVE  TokenFrame
      BY <2>1 DEF Serve, TokenFrame
    <2>2. ASSUME NEW i \in Users, StartNotify(t, i)
          PROVE  TokenFrame
      BY <2>2 DEF StartNotify, TokenFrame, Notify
    <2> QED
      BY <1>1, <2>1, <2>2 DEF Start, StartSignUp, StartLogin, StartDelete
  <1>2. CASE Lock(t)
    BY <1>2 DEF Lock, TokenFrame
  <1>3. CASE Exists(t)
    <2>1. CASE Done(t)
      BY <1>3, <2>1, TokenDone DEF Exists
    <2>2. CASE ~ Done(t)
      BY <1>3, <2>2 DEF Exists, Return, TokenFrame
    <2> QED
      BY <2>1, <2>2
  <1>4. CASE SetLogin(t)
    <2>1. CASE Done(t)
      BY <1>4, <2>1, TokenDone DEF SetLogin
    <2>2. CASE ~ Done(t)
      BY <1>4, <2>2 DEF SetLogin, Return, TokenFrame
    <2> QED
      BY <2>1, <2>2
  <1>5. CASE GetAppCounter(t)
    BY <1>5 DEF GetAppCounter, TokenFrame
  <1>6. CASE HSetSession(t)
    BY <1>6 DEF HSetSession, TokenFrame
  <1>7. CASE WhoAmI(t)
    <2>1. CASE Done(t)
      BY <1>7, <2>1, TokenDone DEF WhoAmI, Fail
    <2>2. CASE ~ Done(t)
      BY <1>7, <2>2 DEF WhoAmI, Fail, TokenFrame
    <2> QED
      BY <2>1, <2>2
  <1>8. CASE HDelSession(t)
    BY <1>8 DEF HDelSession, TokenFrame
  <1>9. CASE DelLogin(t)
    BY <1>9, TokenDone DEF DelLogin
  <1>10. CASE GetId(t)
    <2>1. CASE Done(t)
      BY <1>10, <2>1, TokenDone DEF GetId, Fail
    <2>2. CASE ~ Done(t)
      BY <1>10, <2>2 DEF GetId, Fail, TokenFrame
    <2> QED
      BY <2>1, <2>2
  <1> QED
    BY <1>1, <1>2, <1>3, <1>4, <1>5, <1>6, <1>7, <1>8, <1>9, <1>10

LEMMA TokenDie == TypeInv /\ Die => TokenFrame
  BY DEF TypeInv, TypeOK, Die, TokenFrame, redis, LoginPCs, TokenPCs

LEMMA SameTokenInit == Init => SameTokenInv
  BY DEF Init, SameTokenInv, SameSessionToken, LoginPCs, TokenPCs

(* What a handler answers is the token of a user who has a password: so it *)
(* was all along.                                                          *)
LEMMA AnswerStep ==
  ASSUME OneThread, TypeInv, TypeInv', SameTokenInv, NEW t \in Threads, pc[t] \in LoginPCs,
         NEW k, NEW n, Answer(t, k, n), k \in Tokens, n \in Nat,
         UNCHANGED <<password, accountcounter>>,
         token[id[t]] \in {k, NoToken}, token' = [token EXCEPT ![id[t]] = k]
  PROVE  SameTokenInv'
  <1> DEFINE new == [id |-> id[t], token |-> k, key |-> n, known |-> known[t]]
  <1>1. id[t] \in Ids /\ id[t] # Missing /\ token'[id[t]] = k /\ k # NoToken
    BY DEF TypeInv, TypeOK, KnowsId, Ids, Missing, Tokens, NoToken
  <1>2. \A u \in Threads : pc'[u] = "idle"
    BY DEF OneThread, Answer, Done, Goto, TypeInv, TypeOK
  <1>3. \A a \in answers : a.id \in Ids /\ a.token \in Tokens /\ a.token # NoToken
    BY DEF TypeInv, TypeOK, Answers, Tokens, NoToken
  <1>4. \A a \in answers : a.id = id[t] =>
           a.token = k \/ password[id[t]] = NoPassword
    BY <1>1, <1>3 DEF SameTokenInv
  <1>5. \A a \in answers : token'[a.id] = a.token \/ password[a.id] = NoPassword
    BY <1>1, <1>3, <1>4 DEF SameTokenInv, TypeInv, TypeOK
  <1>6. CASE call[t].op # "login"
    <2>1. answers' = answers
      BY <1>6 DEF Answer
    <2> QED
      BY <1>2, <1>5, <2>1 DEF SameTokenInv, SameSessionToken, LoginPCs, TokenPCs
  <1>7. CASE call[t].op = "login"
    <2>1. answers' = answers \cup {new}
      BY <1>7 DEF Answer
    <2>2. password[id[t]] # NoPassword /\ id[t] <= accountcounter
      BY <1>1, <1>7 DEF SameTokenInv
    <2>3. \A a \in answers : a.id = id[t] => a.token = k
      BY <1>4, <2>2
    <2>4. SameSessionToken'
      BY <2>1, <2>3 DEF SameTokenInv, SameSessionToken
    <2>5. \A a \in answers' : /\ a.id <= accountcounter'
                              /\ token'[a.id] = a.token \/ password'[a.id] = NoPassword
      BY <1>1, <1>5, <2>1, <2>2 DEF SameTokenInv
    <2> QED
      BY <1>2, <2>4, <2>5 DEF SameTokenInv, LoginPCs, TokenPCs
  <1> QED
    BY <1>6, <1>7

LEMMA SameTokenStep ==
  ASSUME OneThread
  PROVE  TypeInv /\ TypeInv' /\ SameTokenInv /\ [Next]_vars => SameTokenInv'
  <1> SUFFICES ASSUME TypeInv, TypeInv', SameTokenInv, [Next]_vars
               PROVE  SameTokenInv'
    OBVIOUS
  <1>a. CASE UNCHANGED vars
    <2>1. TokenFrame
      BY <1>a DEF vars, redis, process, history, locals, TokenFrame
    <2> QED
      BY <2>1, TokenFrameStep
  <1>b. \A t, u \in Threads : u = t
    BY DEF OneThread
  <1>c. ASSUME NEW t \in Threads, Fail(t)
        PROVE  SameTokenInv'
    BY <1>c, TokenDone, TokenFrameStep DEF Fail, redis, history
  <1>1. ASSUME NEW t \in Threads, Incr(t)
        PROVE  SameTokenInv'
    <2>1. /\ accountcounter' = accountcounter + 1 /\ id'[t] = accountcounter'
          /\ token' = token /\ password' = password /\ answers' = answers
          /\ pc'[t] = "set"
      BY <1>1 DEF Incr, NewId, Goto, history, TypeInv, TypeOK
    <2>2. \A a \in answers : a.id <= accountcounter
      BY DEF SameTokenInv
    <2>3. accountcounter \in Nat /\ \A a \in answers : a.id \in Nat
      BY CountersAssumption DEF TypeInv, TypeOK, Answers, Ids
    <2>4. \A a \in answers : a.id <= accountcounter' /\ a.id # accountcounter'
      BY <2>1, <2>2, <2>3
    <2>5. accountcounter' <= accountcounter'
      BY <2>1, <2>3
    <2>6. SameSessionToken'
      BY <2>1 DEF SameTokenInv, SameSessionToken
    <2>7. \A i \in Ids : password[i] # NoPassword => i <= accountcounter'
      <3>1. \A i \in Ids : i \in Nat
        BY DEF Ids
      <3> QED
        BY <2>1, <2>3, <3>1 DEF SameTokenInv
    <2> QED
      BY <1>b, <2>1, <2>4, <2>5, <2>6, <2>7 DEF SameTokenInv, LoginPCs, TokenPCs
  <1>2. ASSUME NEW t \in Threads, HMSetUser(t)
        PROVE  SameTokenInv'
    <2>1. /\ pc[t] = "hmset" /\ pc'[t] = "idle" /\ answers' = answers
          /\ accountcounter' = accountcounter
          /\ \A i \in Ids : i # id[t] => password'[i] = password[i] /\ token'[i] = token[i]
      BY <1>2 DEF HMSetUser, Return, Done, Goto, At, TypeInv, TypeOK
    <2>2. \A a \in answers : a.id \in Ids /\ a.id # id[t]
      BY <2>1 DEF SameTokenInv, TypeInv, TypeOK, Answers
    <2>3. SameSessionToken'
      BY <2>1 DEF SameTokenInv, SameSessionToken
    <2>4. \A i \in Ids : password'[i] # NoPassword => i <= accountcounter
      BY <2>1 DEF SameTokenInv
    <2> QED
      BY <1>b, <2>1, <2>2, <2>3, <2>4 DEF SameTokenInv, LoginPCs, TokenPCs
  <1>3. ASSUME NEW w \in volatile, Expire(w)
        PROVE  SameTokenInv'
    <2>1. TokenFrame
      BY <1>3 DEF Expire, process, locals, history, TokenFrame
    <2> QED
      BY <2>1, TokenFrameStep
  <1>4. ASSUME NEW t \in Threads, GetPassword(t), ~ Fail(t), ~ Die
        PROVE  SameTokenInv'
    <2>1. /\ pc[t] = "getpassword" /\ call[t].password \in Passwords
          /\ password[id[t]] = call[t].password
          /\ pc'[t] = IF call[t].op = "login" THEN "getapp" ELSE "deluser"
          /\ call' = call /\ id' = id
          /\ UNCHANGED <<token, password, answers, accountcounter>>
      BY <1>4 DEF GetPassword, At, Goto, redis, history, locals, TypeInv, TypeOK, TokenPCs, Calls
    <2>2. password[id[t]] # NoPassword
      BY <2>1, NamesAssumption DEF SameTokenInv, NonEmpty, NoPassword
    <2>3. SameSessionToken'
      BY <2>1 DEF SameTokenInv, SameSessionToken
    <2> QED
      BY <1>b, <2>1, <2>2, <2>3 DEF SameTokenInv, LoginPCs, TokenPCs
  <1>5. ASSUME NEW t \in Threads, GetToken(t)
        PROVE  SameTokenInv'
    <2>1. /\ pc[t] = "gettoken" /\ id[t] \in Ids /\ token[id[t]] \in Tokens \cup {NoToken}
          /\ UNCHANGED <<token, password, accountcounter>>
      BY <1>5 DEF GetToken, At, redis, TypeInv, TypeOK, KnowsId, LoginPCs, TokenPCs
    <2>2. CASE ~ needKey[t] /\ token[id[t]] # NoToken
      <3>1. Answer(t, token[id[t]], 0)
        BY <1>5, <2>2 DEF GetToken, AfterKey
      <3>2. token' = [token EXCEPT ![id[t]] = token[id[t]]]
        BY <2>1 DEF TypeInv, TypeOK
      <3> QED
        BY <2>1, <2>2, <3>1, <3>2, AnswerStep DEF LoginPCs, TokenPCs
    <2>3. CASE needKey[t] \/ token[id[t]] = NoToken
      <3>1. /\ tok' = [tok EXCEPT ![t] = token[id[t]]] /\ call' = call /\ id' = id
            /\ pc'[t] = (IF needKey[t] THEN "incrapp" ELSE "hsession")
            /\ answers' = answers
        BY <1>5, <2>3 DEF GetToken, AfterKey, Goto, TypeInv, TypeOK
      <3>2. SameSessionToken'
        BY <3>1 DEF SameTokenInv, SameSessionToken
      <3> QED
        BY <1>b, <2>1, <2>3, <3>1, <3>2 DEF SameTokenInv, LoginPCs, TokenPCs, TypeInv, TypeOK
    <2> QED
      BY <2>2, <2>3
  <1>6. ASSUME NEW t \in Threads, IncrApp(t)
        PROVE  SameTokenInv'
    <2>1. /\ pc[t] = "incrapp" /\ id[t] \in Ids /\ tok[t] = token[id[t]]
          /\ tok[t] \in Tokens \cup {NoToken} /\ appcounter[id[t]] + 1 \in Nat
          /\ UNCHANGED <<token, password, accountcounter>>
      BY <1>6 DEF IncrApp, At, SameTokenInv, TypeInv, TypeOK, KnowsId, LoginPCs, TokenPCs
    <2>2. CASE tok[t] # NoToken
      <3>1. Answer(t, tok[t], appcounter[id[t]] + 1)
        BY <1>6, <2>2 DEF IncrApp, AfterKey
      <3>2. token' = [token EXCEPT ![id[t]] = tok[t]]
        BY <2>1 DEF TypeInv, TypeOK
      <3> QED
        BY <2>1, <2>2, <3>1, <3>2, AnswerStep DEF LoginPCs, TokenPCs
    <2>3. CASE tok[t] = NoToken
      <3>1. /\ tok' = tok /\ call' = call /\ id' = id /\ pc'[t] = "hsession"
            /\ answers' = answers
        BY <1>6, <2>3 DEF IncrApp, AfterKey, Goto, TypeInv, TypeOK
      <3>2. SameSessionToken'
        BY <3>1 DEF SameTokenInv, SameSessionToken
      <3> QED
        BY <1>b, <2>1, <2>3, <3>1, <3>2 DEF SameTokenInv, LoginPCs, TokenPCs
    <2> QED
      BY <2>2, <2>3
  <1>7. ASSUME NEW t \in Threads, HSetUser(t)
        PROVE  SameTokenInv'
    <2>1. /\ pc[t] = "huser" /\ tok[t] \in Tokens /\ key[t] \in Nat
          /\ token[id[t]] = NoToken /\ token' = [token EXCEPT ![id[t]] = tok[t]]
          /\ Answer(t, tok[t], key[t]) /\ UNCHANGED <<password, accountcounter>>
      BY <1>7 DEF HSetUser, At, SameTokenInv, TypeInv, TypeOK
    <2> QED
      BY <2>1, AnswerStep DEF LoginPCs, TokenPCs
  <1>8. ASSUME NEW t \in Threads, DelUser(t)
        PROVE  SameTokenInv'
    <2>1. /\ pc'[t] = "hdelsession" /\ answers' = answers /\ accountcounter' = accountcounter
          /\ password' = [password EXCEPT ![me[t]] = NoPassword]
          /\ token' = [token EXCEPT ![me[t]] = NoToken] /\ me[t] \in Ids
      BY <1>8 DEF DelUser, At, Goto, TypeInv, TypeOK
    <2>2. \A a \in answers : a.id \in Ids
      BY DEF TypeInv, TypeOK, Answers
    <2>3. \A a \in answers : token'[a.id] = a.token \/ password'[a.id] = NoPassword
      BY <2>1, <2>2 DEF SameTokenInv, TypeInv, TypeOK
    <2>4. SameSessionToken'
      BY <2>1 DEF SameTokenInv, SameSessionToken
    <2>5. \A i \in Ids : password'[i] # NoPassword => i <= accountcounter
      BY <2>1 DEF SameTokenInv, TypeInv, TypeOK
    <2> QED
      BY <1>b, <2>1, <2>3, <2>4, <2>5 DEF SameTokenInv, LoginPCs, TokenPCs
  <1>9. ASSUME NEW t \in Threads, Start(t) \/ Step(t)
        PROVE  SameTokenInv'
    BY <1>c, <1>1, <1>2, <1>4, <1>5, <1>6, <1>7, <1>8, <1>9,
       TokenQuiet, TokenDie, TokenFrameStep
    DEF Step, SignUpStep, LoginStep, DeleteStep
  <1> QED
    BY <1>a, <1>3, <1>9, TokenDie, TokenFrameStep DEF Next, Crash, RejectMalformed

(* On one thread all logins of a user are answered the same session token, *)
(* whatever crashes came while it was being issued and whatever changes of *)
(* groups issued it.                                                       *)
THEOREM OneSessionToken ==
  ASSUME OneThread
  PROVE  Spec => []SameSessionToken
  <1>1. SameTokenInv => SameSessionToken
    BY DEF SameTokenInv
  <1>2. TypeInv /\ TypeInv' /\ SameTokenInv /\ [Next]_vars => SameTokenInv'
    BY SameTokenStep
  <1> QED
    BY TypeInit, TypeStep, SameTokenInit, <1>1, <1>2, PTL DEF Spec
=============================================================================
