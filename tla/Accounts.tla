------------------------------ MODULE Accounts ------------------------------
(***************************************************************************)
(* Sign-up, login, account deletion (RedisCommands.cpp 47-131, 146-158,    *)
(* 199-210) and the look-up of a member's session that a change of a group *)
(* makes (RequestFunctions.cpp 226-229), as programs of Redis commands.    *)
(* Redis executes one command at a time; between two commands of one       *)
(* caller any other caller may run, and the server process may die and be  *)
(* started again.  What is in Redis survives, a mutex and the locals of a  *)
(* handler do not.                                                         *)
(*                                                                         *)
(* A command is written into one line and split at its blanks              *)
(* (RedisReplyHolder.h 53-60), so a login and a password are sequences of  *)
(* words: one of more than one word spills into the next arguments.  What  *)
(* a spilt word says to Redis is nondeterministic here: it may be a key    *)
(* that exists, an option of SET, an id, a token.                          *)
(***************************************************************************)
EXTENDS Integers, Sequences, FiniteSets

CONSTANTS Threads,      \* the threads that run handlers
          Words,        \* what logins and passwords are made of
          Logins,       \* the logins that requests carry
          Passwords,    \* the passwords that requests carry
          LoginField, PasswordField, TokenField,  \* the words "login", "password", "token"
          MaxAccounts,  \* bound: how far accountcounter may count
          MaxAppKey,    \* bound: no login starts once an appcounter is there
          Apps,         \* the app ids that logins carry, 0: none
          Times,        \* the values of time(0)
          HashOf,       \* user id -> std::hash of it
          TokenSpace,   \* bound: size_t has this many values
          Ops,          \* what is requested, of AllOps
          CanCrash      \* whether the server may die

Ids == 1 .. MaxAccounts
Missing == 0                            \* a NIL reply for an id
Tokens == 0 .. TokenSpace - 1
NoToken == -1
NoPassword == << >>
AllOps == {"signup", "login", "delete", "notify"}
NonEmpty(S) == Seq(S) \ {<< >>}

TokenOf(i, s) == (HashOf[i] + s) % TokenSpace

ASSUME CountersAssumption == MaxAccounts \in Nat /\ MaxAppKey \in Nat /\ Apps \subseteq Nat
ASSUME NamesAssumption == /\ Logins \subseteq NonEmpty(Words)
                          /\ Passwords \subseteq NonEmpty(Words)
ASSUME FieldsAssumption == /\ {LoginField, PasswordField, TokenField} \subseteq Words
                           /\ LoginField # PasswordField
                           /\ TokenField \notin {LoginField, PasswordField}
ASSUME OpsAssumption == Ops \subseteq AllOps /\ CanCrash \in BOOLEAN
ASSUME ClockAssumption == /\ TokenSpace \in Nat \ {0}
                          /\ Times \subseteq Nat
                          /\ HashOf \in [Ids -> Nat]
(* hash + time of two users never coincide (RedisCommands.cpp 81).         *)
ASSUME HashesApart == \A i, j \in Ids, s, r \in Times :
                         TokenOf(i, s) = TokenOf(j, r) => i = j

VARIABLES
  (* in Redis *)
  logintoid,      \* logintoid::word -> id
  volatile,       \* the words whose logintoid::word is going to expire
  accountcounter, \* accountcounter
  password,       \* users::id password
  token,          \* users::id token
  appcounter,     \* users::id::appcounter
  sessiontokens,  \* sessiontokens: token -> id
  (* in the server process *)
  signUpMutex,    \* {t}: held by t, {}: free
  pc,             \* thread -> the next Redis command it issues
  call,           \* thread -> the request it serves
  (* thread -> the locals of its handler *)
  id,             \* the user's id
  me,             \* deleteAccount: the id behind the token
  tok,            \* the session token
  key,            \* the app key
  needKey,        \* whether to make one
  known,          \* whether the app id of the request existed
  (* history: what callers were told *)
  signedUp,       \* the <<login, password>> that createAccount answered TRUE
  answers,        \* what authenticate has answered
  ret,            \* thread -> what its last sign-up returned
  cut,            \* the ids whose record a crash left out or a deletion took,
                  \* or to which a login of several words has led a name
  forged          \* the ids whose token a sign-up with a word "token" has set

redis == <<logintoid, volatile, accountcounter, password, token, appcounter, sessiontokens>>
locals == <<id, me, tok, key, needKey, known>>
process == <<signUpMutex, pc, call, locals>>
history == <<signedUp, answers, ret, cut, forged>>
vars == <<redis, process, history>>

SignUpPCs == {"lock", "exists", "incr", "set", "hmset"}
CheckPCs == {"getid", "getpassword"}                      \* checkLoginPassword
TokenPCs == {"gettoken", "incrapp", "hsession", "huser"}   \* getSessionToken
LoginPCs == {"getapp"} \cup TokenPCs
DeletePCs == {"whoami", "deluser", "hdelsession", "dellogin"}
PCs == {"idle"} \cup SignUpPCs \cup CheckPCs \cup LoginPCs \cup DeletePCs

Calls == [op : {"signup", "login", "delete"}, login : Logins, password : Passwords,
          app : Nat, token : Tokens]
NoCall == [op |-> "none"]
Notify == [op |-> "notify"]
Answers == [id : Ids, token : Tokens, key : Nat, known : BOOLEAN]

TypeOK ==
  /\ logintoid \in [Words -> Ids \cup {Missing}]
  /\ volatile \subseteq Words
  /\ accountcounter \in 0 .. MaxAccounts
  /\ password \in [Ids -> {NoPassword} \cup {<<w>> : w \in Words}]
  /\ token \in [Ids -> Tokens \cup {NoToken}]
  /\ appcounter \in [Ids -> Nat]
  /\ sessiontokens \in [Tokens -> Ids \cup {Missing}]
  /\ signUpMutex \in SUBSET Threads
  /\ pc \in [Threads -> PCs]
  /\ call \in [Threads -> Calls \cup {NoCall, Notify}]
  /\ id \in [Threads -> Ids \cup {Missing}]
  /\ me \in [Threads -> Ids \cup {Missing}]
  /\ tok \in [Threads -> Tokens \cup {NoToken}]
  /\ key \in [Threads -> Nat]
  /\ needKey \in [Threads -> BOOLEAN]
  /\ known \in [Threads -> BOOLEAN]
  /\ signedUp \subseteq Logins \X Passwords
  /\ answers \subseteq Answers
  /\ ret \in [Threads -> {"none", "true", "false"}]
  /\ cut \subseteq Ids
  /\ forged \subseteq Ids

-----------------------------------------------------------------------------
(* HMSET users::%s login %s password %s, split at the blanks of the login  *)
(* and of the password.  Redis takes its arguments in pairs of a field and *)
(* a value, refuses them all when one is left over, and of two values of   *)
(* one field keeps the last.                                               *)

RecordArgs(l, p) == <<LoginField>> \o l \o <<PasswordField>> \o p
FieldsOf(args) == {n \in DOMAIN args : n % 2 = 1 /\ Len(args) % 2 = 0}
ValueOf(field, args) == LET at == {n \in FieldsOf(args) : args[n] = field}
                        IN  {args[n + 1] : n \in {k \in at : \A j \in at : j <= k}}

-----------------------------------------------------------------------------
(* Faulty variants of definitions below, one slip each, on which the       *)
(* properties are tried: a property worth stating fails with one of them.  *)

StoredPasswordFromZero(l, p) == IF Len(p) % 2 = 0 THEN {<<p[1]>>} ELSE {}
LockIgnored(t) == TRUE
StillLocked(t) == signUpMutex
NewIdOnce(n) == 1
AfterKeyAnew(k) == "hsession"
AfterKeyNever(k) == "answer"
SessionOfNewest(k, i) == [sessiontokens EXCEPT ![k] = accountcounter]

-----------------------------------------------------------------------------
(* What a Redis command does with its arguments.                           *)

Plain(s) == Len(s) = 1

(* What a sign-up leaves as the password, {}: nothing.  A login of one     *)
(* word and a password of an odd number of words are all stored: the first *)
(* word as the password, unless a later pair names that field again, the   *)
(* others as fields of their own.                                          *)
StoredPassword(l, p) == {<<w>> : w \in ValueOf(PasswordField, RecordArgs(l, p))}

(* The type of a GET reply is never "integer": Redis stores a counter as a *)
(* string.                                                                 *)
GetReplyType(n) == IF n = 0 THEN "nil" ELSE "string"

(* RedisCommands.cpp 95-96: the app id of the request is one that exists.  *)
ExistingApp(n, app) == app > 0 /\ GetReplyType(n) = "integer" /\ n <= app

(* getIdBySecret: the field of sessiontokens is a bare token.  The answer  *)
(* of a login appends ":" and an app key to it.                            *)
IdBySecret(secret) == IF Len(secret) = 1 THEN sessiontokens[secret[1]] ELSE Missing
Secret(a) == IF a.key = 0 THEN <<a.token>> ELSE <<a.token, a.key>>

-----------------------------------------------------------------------------
Init ==
  /\ logintoid = [w \in Words |-> Missing]
  /\ volatile = {}
  /\ accountcounter = 0
  /\ password = [i \in Ids |-> NoPassword]
  /\ token = [i \in Ids |-> NoToken]
  /\ appcounter = [i \in Ids |-> 0]
  /\ sessiontokens = [k \in Tokens |-> Missing]
  /\ signUpMutex = {}
  /\ pc = [t \in Threads |-> "idle"]
  /\ call = [t \in Threads |-> NoCall]
  /\ id = [t \in Threads |-> Missing]
  /\ me = [t \in Threads |-> Missing]
  /\ tok = [t \in Threads |-> NoToken]
  /\ key = [t \in Threads |-> 0]
  /\ needKey = [t \in Threads |-> FALSE]
  /\ known = [t \in Threads |-> FALSE]
  /\ signedUp = {}
  /\ answers = {}
  /\ ret = [t \in Threads |-> "none"]
  /\ cut = {}
  /\ forged = {}

At(t, label) == pc[t] = label
Goto(t, label) == pc' = [pc EXCEPT ![t] = label]
Serve(t, request, label) == /\ At(t, "idle")
                            /\ request.op \in Ops
                            /\ call' = [call EXCEPT ![t] = request]
                            /\ Goto(t, label)
                            /\ UNCHANGED <<redis, signUpMutex, locals, history>>
Done(t) == /\ Goto(t, "idle")
           /\ call' = [call EXCEPT ![t] = NoCall]
           /\ id' = [id EXCEPT ![t] = Missing]
           /\ me' = [me EXCEPT ![t] = Missing]
           /\ tok' = [tok EXCEPT ![t] = NoToken]
           /\ key' = [key EXCEPT ![t] = 0]
           /\ needKey' = [needKey EXCEPT ![t] = FALSE]
           /\ known' = [known EXCEPT ![t] = FALSE]

(* A request that misses a field, or has an empty one, changes nothing.    *)
RejectMalformed(t) == At(t, "idle") /\ UNCHANGED vars

-----------------------------------------------------------------------------
(* createAccount *)

SignUps == {t \in Threads : pc[t] \in SignUpPCs}
SignUpRoom == accountcounter + Cardinality(SignUps) < MaxAccounts

StartSignUp(t, l, p) ==
  /\ SignUpRoom
  /\ Serve(t, [op |-> "signup", login |-> l, password |-> p, app |-> 0, token |-> 0], "lock")

LockFree(t) == signUpMutex = {}

Lock(t) ==
  /\ At(t, "lock")
  /\ LockFree(t)
  /\ signUpMutex' = signUpMutex \cup {t}
  /\ Goto(t, "exists")
  /\ UNCHANGED <<redis, call, locals, history>>

(* Returning destroys the lock_guard. *)
Unlocked(t) == signUpMutex \ {t}

Return(t, result) ==
  /\ signUpMutex' = Unlocked(t)
  /\ ret' = [ret EXCEPT ![t] = result]
  /\ Done(t)

Taken(l) == logintoid[l[1]] # Missing

(* EXISTS counts how many of its keys there are, the further words of the  *)
(* login being keys too, and the code compares with 1: a login of several  *)
(* words may pass although its name is taken, or be refused for another.   *)
Exists(t) ==
  /\ At(t, "exists")
  /\ LET l == call[t].login
     IN  \/ /\ Plain(l) => Taken(l)
            /\ Return(t, "false")
         \/ /\ Plain(l) => ~ Taken(l)
            /\ Goto(t, "incr")
            /\ UNCHANGED <<signUpMutex, call, locals, ret>>
  /\ UNCHANGED <<redis, signedUp, answers, cut, forged>>

NewId(n) == n + 1

Incr(t) ==
  /\ At(t, "incr")
  /\ accountcounter < MaxAccounts
  /\ accountcounter' = NewId(accountcounter)
  /\ id' = [id EXCEPT ![t] = accountcounter']
  /\ Goto(t, "set")
  /\ UNCHANGED <<logintoid, volatile, password, token, appcounter, sessiontokens,
                 signUpMutex, call, me, tok, key, needKey, known, history>>

(* SET logintoid::%s %s: with a login of three words or more the second is *)
(* the value and the last may be an EX or PX to which the id is the time   *)
(* (SET logintoid::x 5 EX 7).  A value that is no id is like the id of an  *)
(* account not made yet.  Any other further word is refused.               *)
SetLogin(t) ==
  /\ At(t, "set")
  /\ LET l == call[t].login
     IN  \/ /\ Plain(l)
            /\ logintoid' = [logintoid EXCEPT ![l[1]] = id[t]]
            /\ volatile' = volatile \ {l[1]}
            /\ Goto(t, "hmset")
            /\ UNCHANGED <<signUpMutex, call, locals, ret, cut>>
         \/ /\ Len(l) > 2
            /\ \E i \in Ids : /\ logintoid' = [logintoid EXCEPT ![l[1]] = i]
                             /\ cut' = cut \cup {i}
            /\ volatile' = volatile \cup {l[1]}
            /\ Goto(t, "hmset")
            /\ UNCHANGED <<signUpMutex, call, locals, ret>>
         \/ /\ ~ Plain(l)
            /\ Return(t, "false")
            /\ UNCHANGED <<logintoid, volatile, cut>>
  /\ UNCHANGED <<accountcounter, password, token, appcounter, sessiontokens,
                 signedUp, answers, forged>>

(* The reply of HMSET is not looked at: the answer is TRUE all the same.   *)
HMSetUser(t) ==
  /\ At(t, "hmset")
  /\ LET l == call[t].login
         pass == call[t].password
         stored == StoredPassword(l, pass)
         forges == ValueOf(TokenField, RecordArgs(l, pass)) # {}
     IN  /\ \/ stored = {} /\ UNCHANGED password
            \/ \E s \in stored : password' = [password EXCEPT ![id[t]] = s]
         /\ \/ ~ forges /\ UNCHANGED <<token, forged>>
            \/ /\ forges
               /\ \E k \in Tokens : token' = [token EXCEPT ![id[t]] = k]
               /\ forged' = forged \cup {id[t]}
         /\ signedUp' = signedUp \cup {<<l, pass>>}
  /\ Return(t, "true")
  /\ UNCHANGED <<logintoid, volatile, accountcounter, appcounter, sessiontokens, answers, cut>>

(* Redis takes away a name that was set with a time to live. *)
Expire(w) ==
  /\ w \in volatile
  /\ logintoid' = [logintoid EXCEPT ![w] = Missing]
  /\ volatile' = volatile \ {w}
  /\ UNCHANGED <<accountcounter, password, token, appcounter, sessiontokens,
                 process, history>>

-----------------------------------------------------------------------------
(* checkLoginPassword, called by authenticate and by deleteAccount *)

Fail(t) == Done(t) /\ UNCHANGED <<redis, signUpMutex, history>>

(* GET with several words is an error, and so is the HGET that its text is *)
(* then put into: taking the text of an error for a password is left out.  *)
GetId(t) ==
  /\ At(t, "getid")
  /\ LET l == call[t].login
     IN  \/ /\ Plain(l) /\ Taken(l)
            /\ id' = [id EXCEPT ![t] = logintoid[l[1]]]
            /\ Goto(t, "getpassword")
            /\ UNCHANGED <<redis, signUpMutex, call, me, tok, key, needKey, known, history>>
         \/ ~ (Plain(l) /\ Taken(l)) /\ Fail(t)

(* The process ends and is started again: Redis keeps what it has. *)
Die == /\ signUpMutex' = {}
       /\ pc' = [t \in Threads |-> "idle"]
       /\ call' = [t \in Threads |-> NoCall]
       /\ id' = [t \in Threads |-> Missing]
       /\ me' = [t \in Threads |-> Missing]
       /\ tok' = [t \in Threads |-> NoToken]
       /\ key' = [t \in Threads |-> 0]
       /\ needKey' = [t \in Threads |-> FALSE]
       /\ known' = [t \in Threads |-> FALSE]
       /\ cut' = cut \cup {id[t] : t \in {s \in Threads : At(s, "hmset")}}
       /\ UNCHANGED <<redis, signedUp, answers, ret, forged>>

(* strcmp with the NULL string of a NIL reply ends the process. *)
GetPassword(t) ==
  /\ At(t, "getpassword")
  /\ LET stored == password[id[t]]
     IN  \/ stored = NoPassword /\ Die
         \/ stored # NoPassword /\ stored # call[t].password /\ Fail(t)
         \/ /\ stored = call[t].password
            /\ Goto(t, IF call[t].op = "login" THEN "getapp" ELSE "deluser")
            /\ UNCHANGED <<redis, signUpMutex, call, locals, history>>

-----------------------------------------------------------------------------
(* authenticate *)

LoginRoom(l) == Taken(l) => appcounter[logintoid[l[1]]] < MaxAppKey

StartLogin(t, l, p, app) ==
  /\ LoginRoom(l)
  /\ Serve(t, [op |-> "login", login |-> l, password |-> p, app |-> app, token |-> 0], "getid")

GetAppCounter(t) ==
  /\ At(t, "getapp")
  /\ LET n == appcounter[id[t]]
         app == call[t].app
     IN  /\ needKey' = [needKey EXCEPT ![t] = ~ ExistingApp(n, app)]
         /\ known' = [known EXCEPT ![t] = app \in 1 .. n]
  /\ Goto(t, "gettoken")
  /\ UNCHANGED <<redis, signUpMutex, call, id, me, tok, key, history>>

(* getSessionToken reads the token, makes a key, and only then looks       *)
(* whether there was a token.                                              *)
AfterKey(k) == IF k = NoToken THEN "hsession" ELSE "answer"

Answer(t, k, n) ==
  /\ answers' = IF call[t].op # "login" THEN answers
                ELSE answers \cup {[id |-> id[t], token |-> k, key |-> n,
                                    known |-> known[t]]}
  /\ Done(t)

GetToken(t) ==
  /\ At(t, "gettoken")
  /\ LET k == token[id[t]]
     IN  \/ /\ needKey[t] \/ AfterKey(k) = "hsession"
            /\ tok' = [tok EXCEPT ![t] = k]
            /\ Goto(t, IF needKey[t] THEN "incrapp" ELSE "hsession")
            /\ UNCHANGED <<call, id, me, key, needKey, known, answers>>
         \/ /\ ~ needKey[t] /\ AfterKey(k) = "answer"
            /\ Answer(t, k, 0)
  /\ UNCHANGED <<redis, signUpMutex, signedUp, ret, cut, forged>>

IncrApp(t) ==
  /\ At(t, "incrapp")
  /\ LET i == id[t]
         n == appcounter[i] + 1
     IN  /\ appcounter' = [appcounter EXCEPT ![i] = n]
         /\ \/ /\ AfterKey(tok[t]) = "answer"
               /\ Answer(t, tok[t], n)
            \/ /\ AfterKey(tok[t]) = "hsession"
               /\ key' = [key EXCEPT ![t] = n]
               /\ Goto(t, "hsession")
               /\ UNCHANGED <<call, id, me, tok, needKey, known, answers>>
  /\ UNCHANGED <<logintoid, volatile, accountcounter, password, token, sessiontokens,
                 signUpMutex, signedUp, ret, cut, forged>>

(* generateSessionToken: first the token's user, then the user's token.    *)
WithSession(k, i) == [sessiontokens EXCEPT ![k] = i]

HSetSession(t) ==
  /\ At(t, "hsession")
  /\ \E s \in Times :
        LET k == TokenOf(id[t], s)
        IN  /\ sessiontokens' = WithSession(k, id[t])
            /\ tok' = [tok EXCEPT ![t] = k]
  /\ Goto(t, "huser")
  /\ UNCHANGED <<logintoid, volatile, accountcounter, password, token, appcounter,
                 signUpMutex, call, id, me, key, needKey, known, history>>

HSetUser(t) ==
  /\ At(t, "huser")
  /\ token' = [token EXCEPT ![id[t]] = tok[t]]
  /\ Answer(t, tok[t], key[t])
  /\ UNCHANGED <<logintoid, volatile, accountcounter, password, appcounter, sessiontokens,
                 signUpMutex, signedUp, ret, cut, forged>>

-----------------------------------------------------------------------------
(* addMemberHandle asks getSessionToken, without an app key, for every     *)
(* member of the group it has changed: one who never logged in, or was     *)
(* deleted since, is given a session all the same.                         *)

Users == ({logintoid[w] : w \in Words} \cup {sessiontokens[k] : k \in Tokens}) \ {Missing}

StartNotify(t, i) ==
  /\ At(t, "idle")
  /\ "notify" \in Ops
  /\ call' = [call EXCEPT ![t] = Notify]
  /\ id' = [id EXCEPT ![t] = i]
  /\ Goto(t, "gettoken")
  /\ UNCHANGED <<redis, signUpMutex, me, tok, key, needKey, known, history>>

-----------------------------------------------------------------------------
(* deleteAccount: the token says whose record goes, the login which name.  *)

StartDelete(t, l, p, k) ==
  Serve(t, [op |-> "delete", login |-> l, password |-> p, app |-> 0, token |-> k], "whoami")

WhoAmI(t) ==
  /\ At(t, "whoami")
  /\ LET i == IdBySecret(<<call[t].token>>)
     IN  \/ /\ i # Missing
            /\ me' = [me EXCEPT ![t] = i]
            /\ Goto(t, "getid")
            /\ UNCHANGED <<redis, signUpMutex, call, id, tok, key, needKey, known, history>>
         \/ i = Missing /\ Fail(t)

DelUser(t) ==
  /\ At(t, "deluser")
  /\ password' = [password EXCEPT ![me[t]] = NoPassword]
  /\ token' = [token EXCEPT ![me[t]] = NoToken]
  /\ cut' = cut \cup {me[t]}
  /\ Goto(t, "hdelsession")
  /\ UNCHANGED <<logintoid, volatile, accountcounter, appcounter, sessiontokens,
                 signUpMutex, call, locals, signedUp, answers, ret, forged>>

(* HDEL is given the token with the quotes of its JSON form: no such field. *)
HDelSession(t) ==
  /\ At(t, "hdelsession")
  /\ Goto(t, "dellogin")
  /\ UNCHANGED <<redis, signUpMutex, call, locals, history>>

DelLogin(t) ==
  /\ At(t, "dellogin")
  /\ logintoid' = [logintoid EXCEPT ![call[t].login[1]] = Missing]
  /\ volatile' = volatile \ {call[t].login[1]}
  /\ Done(t)
  /\ UNCHANGED <<accountcounter, password, token, appcounter, sessiontokens,
                 signUpMutex, history>>

-----------------------------------------------------------------------------
Crash == CanCrash /\ Die

Start(t) == \/ \E l \in Logins, p \in Passwords :
                  \/ StartSignUp(t, l, p)
                  \/ \E app \in Apps : StartLogin(t, l, p, app)
                  \/ \E k \in Tokens : StartDelete(t, l, p, k)
            \/ \E i \in Users : StartNotify(t, i)

SignUpStep(t) == Lock(t) \/ Exists(t) \/ Incr(t) \/ SetLogin(t) \/ HMSetUser(t)
LoginStep(t) == \/ GetId(t) \/ GetPassword(t) \/ GetAppCounter(t) \/ GetToken(t)
                \/ IncrApp(t) \/ HSetSession(t) \/ HSetUser(t)
DeleteStep(t) == WhoAmI(t) \/ DelUser(t) \/ HDelSession(t) \/ DelLogin(t)
Step(t) == SignUpStep(t) \/ LoginStep(t) \/ DeleteStep(t)

Next == \/ \E t \in Threads : Start(t) \/ RejectMalformed(t) \/ Step(t)
        \/ \E w \in volatile : Expire(w)
        \/ Crash

Spec == Init /\ [][Next]_vars

(* A thread that runs a handler is scheduled until it returns. *)
Fairness == \A t \in Threads : WF_vars(Step(t))
FairSpec == Spec /\ Fairness

-----------------------------------------------------------------------------
(* Properties *)

(* No two names lead to one user id, whatever sign-ups run side by side    *)
(* (INCR accountcounter, RedisCommands.cpp 120).                           *)
LoginIdsDistinct ==
  \A v, w \in Words : v # w /\ logintoid[v] = logintoid[w] => logintoid[v] = Missing

(* A name that is taken leads to the same user until it is deleted: no     *)
(* sign-up that found it free a while ago takes it over (the check and the *)
(* SET are apart, RedisCommands.cpp 114-122).                              *)
NamesNotReassigned ==
  [][\A w \in Words : logintoid[w] # Missing =>
        logintoid'[w] \in {logintoid[w], Missing}]_vars

(* Who was told TRUE can log in: the name leads to a record that holds     *)
(* the password of that very call, after any other sign-ups and crashes.   *)
SignedUpIsKnown ==
  \A s \in signedUp : LET l == s[1] IN
     Taken(l) /\ password[logintoid[l[1]]] = s[2]

(* On one thread checkLoginPassword finds a name without a password, and   *)
(* dies, only where a crash came between SET and HMSET of its sign-up,     *)
(* where deleteAccount took the record and not the name, being cut short   *)
(* or given another's login, or where the second word of a login named the *)
(* id (RedisCommands.cpp 60, 122-129, 205-209).                            *)
DiesOfLostRecords ==
  \A t \in Threads : At(t, "getpassword") /\ password[id[t]] = NoPassword => id[t] \in cut

(* A token a login has answered identifies that user ever after, although  *)
(* another login may issue a second one and a crash may come between the   *)
(* two HSETs (RedisCommands.cpp 82-83); a sign-up whose login or password  *)
(* has the word "token" sets a token itself (128-129), which is excepted.  *)
TokensResolve == \A a \in answers : a.id \notin forged => sessiontokens[a.token] = a.id

(* On one thread all logins of a user are answered one session token,      *)
(* also when the server died while the first was being issued.             *)
SameSessionToken == \A a, b \in answers : a.id = b.id => a.token = b.token

(* The lock of createAccount is given back on every way out.               *)
MutexReleased == \A t \in Threads : signUpMutex = {t} ~> signUpMutex # {t}

(* createAccount is one atomic claim of a name: it takes effect at the     *)
(* SET, between its call and its return.                                   *)
SignUp == INSTANCE SignUpObject WITH
             Logins <- Logins,
             Refused <- {l \in Logins : ~ Plain(l)},
             taken <- {l \in Logins : Plain(l) /\ Taken(l)},
             asked <- [t \in Threads |-> IF pc[t] \in SignUpPCs THEN {call[t].login} ELSE {}],
             won <- {t \in Threads : At(t, "hmset")},
             ret <- ret
SignUpAtomic == SignUp!Spec

(* What tests and comments of the repository say, and the code does not do. *)

(* RedisCommands.cpp 92-97: a request that names an app id that exists     *)
(* keeps it and is given no new key.                                       *)
KnownAppKept == \A a \in answers : a.known => a.key = 0

(* tests.cpp 117-120 and 126-128: what authenticate returns is a token     *)
(* that other requests may carry.                                          *)
AnswerIsASecret == \A a \in answers : IdBySecret(Secret(a)) = a.id

-----------------------------------------------------------------------------
(* The inductive invariant behind the properties (AccountsProofs.tla). *)

Critical == {"exists", "incr", "set", "hmset"}
KnowsId == {"set", "hmset", "getpassword", "deluser"} \cup LoginPCs

TypeInv ==
  /\ TypeOK
  /\ \A t \in Threads :
        /\ pc[t] \notin {"idle"} \cup TokenPCs => call[t] \in Calls
        /\ pc[t] \in KnowsId => id[t] \in Ids
        /\ pc[t] = "huser" => tok[t] \in Tokens
        /\ (pc[t] \in CheckPCs /\ call[t].op # "login") \/ pc[t] = "deluser" => me[t] \in Ids

(* Between EXISTS and the end of createAccount the lock is held, so a name *)
(* found free is still free, and the id just counted is nobody's, where    *)
(* logins have two words at most.                                          *)
ClaimInv ==
  /\ \A t \in Threads : pc[t] \in Critical => signUpMutex = {t}
  /\ \A w \in Words : logintoid[w] <= accountcounter
  /\ volatile = {}
  /\ \A t \in Threads : pc[t] \in {"incr", "set"} /\ Plain(call[t].login) =>
        ~ Taken(call[t].login)
  /\ \A t \in Threads : pc[t] = "set" =>
        /\ id[t] <= accountcounter
        /\ \A w \in Words : logintoid[w] # id[t]
  /\ LoginIdsDistinct

(* A token is a hash of its user; what a user or a handler holds as a      *)
(* user's token, and no password set, is already a field of sessiontokens. *)
SessionInv ==
  /\ \A k \in Tokens : sessiontokens[k] # Missing =>
        \E s \in Times : k = TokenOf(sessiontokens[k], s)
  /\ \A i \in Ids \ forged : token[i] # NoToken => sessiontokens[token[i]] = i
  /\ \A t \in Threads :
        pc[t] \in {"incrapp", "huser"} /\ tok[t] # NoToken /\ id[t] \notin forged =>
          sessiontokens[tok[t]] = id[t]
  /\ TokensResolve

(* Without deletions, with passwords of one word and logins of two words   *)
(* at most, a sign-up told TRUE has left a record that no other sign-up    *)
(* writes to: the name of one that is at its HMSET is not among the names  *)
(* claimed before.                                                         *)
KnownInv ==
  /\ \A t \in Threads : /\ pc[t] \notin DeletePCs
                        /\ pc[t] \in CheckPCs => call[t].op = "login"
  /\ \A t \in Threads : pc[t] = "hmset" =>
        /\ Plain(call[t].login)
        /\ logintoid[call[t].login[1]] = id[t]
        /\ \A s \in signedUp : s[1][1] # call[t].login[1]
  /\ SignedUpIsKnown

(* A name leads to a record with a password, or to one that is being       *)
(* written, was cut or was deleted; who checks a password has such an id.  *)
(* Only a login of several words leads a name to an id not counted yet, or *)
(* to the one that another sign-up is about to give away.                  *)
RecordInv ==
  /\ \A w \in Words : logintoid[w] > accountcounter => logintoid[w] \in cut
  /\ \A t \in Threads, w \in Words :
        \/ At(t, "set") /\ logintoid[w] = id[t]
        \/ At(t, "hmset") /\ ~ Plain(call[t].login) /\ logintoid[w] = id[t]
        => logintoid[w] \in cut
  /\ \A t \in Threads : At(t, "set") => id[t] <= accountcounter
  /\ \A w \in Words : logintoid[w] # Missing /\ password[logintoid[w]] = NoPassword =>
        logintoid[w] \in cut \/ \E t \in Threads : At(t, "hmset") /\ id[t] = logintoid[w]
  /\ DiesOfLostRecords

(* Who is logging in has a password still; a token is issued to who has    *)
(* none; an answered token stays its user's until the record is deleted,   *)
(* and the id of a deleted record is not signed up again.                  *)
SameTokenInv ==
  /\ \A t \in Threads :
        /\ pc[t] \in LoginPCs /\ call[t].op = "login" =>
              password[id[t]] # NoPassword
        /\ pc[t] = "incrapp" => tok[t] = token[id[t]]
        /\ pc[t] \in {"hsession", "huser"} => token[id[t]] = NoToken
        /\ pc[t] \in {"set", "hmset"} => id[t] <= accountcounter /\ \A a \in answers : a.id # id[t]
  /\ \A i \in Ids : password[i] # NoPassword => i <= accountcounter
  /\ \A a \in answers : /\ a.id <= accountcounter
                        /\ token[a.id] = a.token \/ password[a.id] = NoPassword
  /\ SameSessionToken

=============================================================================
