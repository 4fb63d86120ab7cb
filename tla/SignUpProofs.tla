---------------------------- MODULE SignUpProofs ----------------------------
(***************************************************************************)
(* createAccount is one atomic claim of a name: Accounts implements        *)
(* SignUpObject, for any number of threads, names of one word or two and   *)
(* accounts, with crashes at any moment.  The claim takes effect at the    *)
(* SET; that the name is still free there is ClaimInv.                     *)
(***************************************************************************)
EXTENDS AccountsProofs

(* The state of the object, as Accounts has it. *)
Claimed == {l \in Logins : Plain(l) /\ Taken(l)}
Asking == [t \in Threads |-> IF pc[t] \in SignUpPCs THEN {call[t].login} ELSE {}]
Granted == {t \in Threads : At(t, "hmset")}

(* A name of one word is that word. *)
LEMMA PlainName ==
  ASSUME NEW l \in Logins, NEW m \in Logins, Plain(l), Plain(m), l[1] = m[1]
  PROVE  l = m
  <1>1. l \in Seq(Words) /\ m \in Seq(Words) /\ Len(l) = 1 /\ Len(m) = 1
    BY NamesAssumption DEF Plain, NonEmpty
  <1> QED
    BY <1>1

(* What a step of a thread that leaves createAccount alone does to it.     *)
LEMMA AskingFrame ==
  ASSUME \A u \in Threads : \/ pc[u] \notin SignUpPCs /\ pc'[u] \notin SignUpPCs
                            \/ pc'[u] = pc[u] /\ call'[u] = call[u]
  PROVE  Asking' = Asking /\ Granted' = Granted
  BY DEF Asking, Granted, At, SignUpPCs

LEMMA ClaimedFrame == UNCHANGED logintoid => Claimed' = Claimed
  BY DEF Claimed, Taken

LEMMA SignUpInit == Init => SignUp!Init
  <1> SUFFICES ASSUME Init
               PROVE  SignUp!Init
    OBVIOUS
  <1>1. Claimed = {}
    <2>1. \A l \in Logins : ~ Taken(l)
      BY FirstWord DEF Init, Taken
    <2> QED
      BY <2>1 DEF Claimed
  <1>2. Asking = [t \in Threads |-> {}] /\ Granted = {}
    BY DEF Init, Asking, Granted, At, SignUpPCs
  <1> QED
    BY <1>1, <1>2 DEF Init, SignUp!Init, Claimed, Asking, Granted

(* Each action of the object, stated of what Accounts keeps.               *)
LEMMA ObjectActions ==
  /\ UNCHANGED <<Claimed, Asking, Granted, ret>> => UNCHANGED SignUp!vars
  /\ \A t \in Threads, l \in Logins :
        /\ /\ Asking[t] = {} /\ Asking' = [Asking EXCEPT ![t] = {l}]
           /\ UNCHANGED <<Claimed, Granted, ret>>
           => SignUp!Next
        /\ /\ Asking[t] = {l} /\ t \notin Granted /\ l \notin Claimed /\ Plain(l)
           /\ Claimed' = Claimed \cup {l} /\ Granted' = Granted \cup {t}
           /\ UNCHANGED <<Asking, ret>>
           => SignUp!Next
        /\ /\ Asking[t] = {l} /\ t \notin Granted /\ (l \in Claimed \/ ~ Plain(l))
           /\ Asking' = [Asking EXCEPT ![t] = {}] /\ ret' = [ret EXCEPT ![t] = "false"]
           /\ UNCHANGED <<Claimed, Granted>>
           => SignUp!Next
  /\ \A t \in Threads :
        /\ t \in Granted /\ Granted' = Granted \ {t}
        /\ Asking' = [Asking EXCEPT ![t] = {}] /\ ret' = [ret EXCEPT ![t] = "true"]
        /\ UNCHANGED Claimed
        => SignUp!Next
  /\ \A l \in Logins : Claimed' = Claimed \ {l} /\ UNCHANGED <<Asking, Granted, ret>> => SignUp!Next
  /\ /\ Asking' = [t \in Threads |-> {}] /\ Granted' = {} /\ UNCHANGED <<Claimed, ret>>
     => SignUp!Next
  BY ZenonT(40)
     DEF SignUp!vars, SignUp!Next, SignUp!Invoke, SignUp!Grant, SignUp!ReturnFalse,
         SignUp!ReturnTrue, SignUp!Release, SignUp!Lose, Claimed, Asking, Granted

(* A call returns: its thread asks for nothing and is granted nothing.     *)
LEMMA Returned ==
  ASSUME TypeInv, NEW t \in Threads, Done(t)
  PROVE  Asking' = [Asking EXCEPT ![t] = {}] /\ Granted' = Granted \ {t}
  <1>1. pc'[t] = "idle" /\ \A u \in Threads \ {t} : pc'[u] = pc[u] /\ call'[u] = call[u]
    BY DEF Done, Goto, TypeInv, TypeOK
  <1>2. \A u \in Threads : Asking'[u] = IF u = t THEN {} ELSE Asking[u]
    BY <1>1 DEF Asking, SignUpPCs
  <1>3. Asking' = [Asking EXCEPT ![t] = {}]
    <2>1. Asking = [u \in Threads |-> Asking[u]] /\ Asking' = [u \in Threads |-> Asking'[u]]
      BY DEF Asking
    <2> QED
      BY <1>2, <2>1
  <1>4. Granted' = Granted \ {t}
    BY <1>1 DEF Granted, At
  <1> QED
    BY <1>3, <1>4

(* Steps of createAccount. *)
LEMMA SignUpMaps ==
  ASSUME ShortLogins, TypeInv, ClaimInv, NEW t \in Threads, SignUpStep(t)
  PROVE  [SignUp!Next]_SignUp!vars
  <1> DEFINE l == call[t].login
  <1>0. pc[t] \in SignUpPCs /\ l \in Logins /\ l[1] \in Words
    <2>1. pc[t] \in SignUpPCs
      BY DEF SignUpStep, Lock, Exists, Incr, SetLogin, HMSetUser, At, SignUpPCs
    <2>2. call[t] \in Calls
      BY <2>1 DEF TypeInv, TypeOK, SignUpPCs, TokenPCs
    <2> QED
      BY <2>1, <2>2, FirstWord DEF Calls
  <1>1. Asking[t] = {l} /\ (t \in Granted <=> pc[t] = "hmset")
    BY <1>0 DEF Asking, Granted, At
  <1>2. l \in Claimed <=> Plain(l) /\ Taken(l)
    BY <1>0 DEF Claimed
  <1>b. ~ Len(l) > 2
    <2>1. l \in Seq(Words)
      BY <1>0, NamesAssumption DEF NonEmpty
    <2> QED
      BY <1>0, <2>1 DEF ShortLogins
  <1>3. CASE Lock(t) \/ (Exists(t) /\ ~ Return(t, "false")) \/ Incr(t)
    <2>1. Asking' = Asking /\ Granted' = Granted
      <3>1. /\ pc[t] \in SignUpPCs \ {"hmset"} /\ pc'[t] \in SignUpPCs \ {"hmset"}
            /\ call' = call /\ \A u \in Threads \ {t} : pc'[u] = pc[u]
        BY <1>3 DEF Lock, Exists, Incr, Goto, At, SignUpPCs, TypeInv, TypeOK
      <3>2. \A u \in Threads : /\ pc'[u] \in SignUpPCs <=> pc[u] \in SignUpPCs
                              /\ pc'[u] = "hmset" <=> pc[u] = "hmset"
        BY <3>1
      <3> QED
        BY <3>1, <3>2 DEF Asking, Granted, At
    <2>2. UNCHANGED <<logintoid, ret>>
      BY <1>3 DEF Lock, Exists, Incr, redis, history
    <2> QED
      BY <2>1, <2>2, ClaimedFrame, ObjectActions
  <1>a. ASSUME pc[t] # "hmset", Return(t, "false"), UNCHANGED logintoid, Taken(l) \/ ~ Plain(l)
        PROVE  SignUp!Next
    <2>1. Asking' = [Asking EXCEPT ![t] = {}] /\ Granted' = Granted
      BY <1>1, <1>a, Returned DEF Return
    <2>2. ret' = [ret EXCEPT ![t] = "false"] /\ Claimed' = Claimed
      BY <1>a, ClaimedFrame DEF Return
    <2> QED
      BY <1>0, <1>1, <1>2, <1>a, <2>1, <2>2, ObjectActions
  <1>4. CASE Exists(t) /\ Return(t, "false")
    <2>1. pc'[t] = "idle"
      BY <1>4 DEF Return, Done, Goto, TypeInv, TypeOK
    <2>2. Taken(l) \/ ~ Plain(l)
      BY <1>4, <2>1 DEF Exists, Goto, TypeInv, TypeOK
    <2> QED
      BY <1>4, <1>a, <2>2 DEF Exists, At, redis
  <1>5. CASE SetLogin(t) /\ ~ Plain(l)
    BY <1>5, <1>a, <1>b DEF SetLogin, At
  <1>6. CASE SetLogin(t) /\ Plain(l)
    <2>1. /\ pc[t] = "set" /\ pc' = [pc EXCEPT ![t] = "hmset"]
          /\ logintoid' = [logintoid EXCEPT ![l[1]] = id[t]]
          /\ UNCHANGED <<call, ret>>
      BY <1>6, <1>b DEF SetLogin, At, Goto
    <2>2. ~ Taken(l) /\ id[t] # Missing
      BY <1>6, <2>1 DEF ClaimInv, TypeInv, KnowsId, Ids, Missing
    <2>3. Asking' = Asking /\ Granted' = Granted \cup {t}
      BY <2>1 DEF Asking, Granted, At, SignUpPCs, TypeInv, TypeOK
    <2>4. \A m \in Logins : m # l /\ Plain(m) => m[1] # l[1]
      BY <1>0, <1>6, PlainName
    <2>5. /\ logintoid'[l[1]] # Missing
          /\ \A m \in Logins : m # l /\ Plain(m) => (Taken(m)' <=> Taken(m))
      BY <1>0, <2>1, <2>2, <2>4, FirstWord DEF Taken, TypeInv, TypeOK
    <2>6. Claimed' = Claimed \cup {l}
      BY <1>0, <1>6, <2>5 DEF Claimed, Taken
    <2> QED
      BY <1>0, <1>1, <1>2, <1>6, <2>1, <2>2, <2>3, <2>6, ObjectActions
  <1>7. CASE HMSetUser(t)
    <2>1. pc[t] = "hmset" /\ Return(t, "true") /\ UNCHANGED logintoid
      BY <1>7 DEF HMSetUser, At
    <2>2. Asking' = [Asking EXCEPT ![t] = {}] /\ Granted' = Granted \ {t}
      BY <2>1, Returned DEF Return
    <2>3. ret' = [ret EXCEPT ![t] = "true"] /\ Claimed' = Claimed
      BY <2>1, ClaimedFrame DEF Return
    <2> QED
      BY <1>1, <2>1, <2>2, <2>3, ObjectActions
  <1> QED
    BY <1>3, <1>4, <1>5, <1>6, <1>7 DEF SignUpStep

(* The process dies. *)
LEMMA DieMaps == Die => SignUp!Next
  <1> SUFFICES ASSUME Die
               PROVE  SignUp!Next
    OBVIOUS
  <1>1. Asking' = [t \in Threads |-> {}] /\ Granted' = {}
    BY DEF Die, Asking, Granted, At, SignUpPCs
  <1>2. Claimed' = Claimed /\ ret' = ret
    BY ClaimedFrame DEF Die, redis
  <1> QED
    BY <1>1, <1>2, ObjectActions

(* Requests that arrive, logins and deletions. *)
LEMMA OtherMaps ==
  ASSUME TypeInv, NEW t \in Threads, Start(t) \/ LoginStep(t) \/ DeleteStep(t)
  PROVE  [SignUp!Next]_SignUp!vars
  <1>1. ASSUME NEW l \in Logins, NEW request, request.login = l, Serve(t, request, "lock")
        PROVE  SignUp!Next
    <2>1. /\ pc[t] = "idle" /\ pc' = [pc EXCEPT ![t] = "lock"]
          /\ call' = [call EXCEPT ![t] = request] /\ UNCHANGED <<logintoid, ret>>
      BY <1>1 DEF Serve, At, Goto, redis, history
    <2>2. /\ Asking[t] = {} /\ Asking' = [Asking EXCEPT ![t] = {l}]
          /\ Granted' = Granted
      BY <1>1, <2>1 DEF Asking, Granted, At, SignUpPCs, TypeInv, TypeOK
    <2> QED
      BY <2>1, <2>2, ClaimedFrame, ObjectActions
  (* A step that neither begins nor ends in createAccount. *)
  <1>a. ASSUME pc[t] \notin SignUpPCs, pc'[t] \notin SignUpPCs, ret' = ret,
               \A u \in Threads \ {t} : pc'[u] = pc[u] /\ call'[u] = call[u]
        PROVE  Asking' = Asking /\ Granted' = Granted
    BY <1>a, AskingFrame
  <1>2. ASSUME pc[t] \notin SignUpPCs, pc'[t] \notin SignUpPCs, UNCHANGED <<ret, logintoid>>,
               \A u \in Threads \ {t} : pc'[u] = pc[u] /\ call'[u] = call[u]
        PROVE  UNCHANGED SignUp!vars
    BY <1>a, <1>2, ClaimedFrame, ObjectActions
  <1> USE DEF At, Goto, SignUpPCs, TypeInv, TypeOK, redis, history
  <1>b. Done(t) => /\ pc'[t] \notin SignUpPCs
                   /\ \A u \in Threads \ {t} : pc'[u] = pc[u] /\ call'[u] = call[u]
    BY DEF Done
  <1>3. CASE Start(t)
    <2>1. ASSUME NEW request, NEW label \in {"getid", "whoami"}, Serve(t, request, label)
          PROVE  UNCHANGED SignUp!vars
      BY <1>2, <2>1 DEF Serve
    <2>2. ASSUME NEW i \in Users, StartNotify(t, i)
          PROVE  UNCHANGED SignUp!vars
      BY <1>2, <2>2 DEF StartNotify
    <2>3. ASSUME NEW l \in Logins, NEW p \in Passwords, StartSignUp(t, l, p)
          PROVE  SignUp!Next
      <3> DEFINE request == [op |-> "signup", login |-> l, password |-> p, app |-> 0, token |-> 0]
      <3>1. request.login = l /\ Serve(t, request, "lock")
        BY <2>3 DEF StartSignUp
      <3> QED
        BY <1>1, <3>1
    <2> QED
      BY <1>3, <2>1, <2>2, <2>3 DEF Start, StartLogin, StartDelete
  <1>4. CASE LoginStep(t)
    <2>1. CASE GetPassword(t)
      BY <1>b, <1>2, <2>1, DieMaps DEF GetPassword, Fail
    <2>2. CASE GetId(t) \/ GetAppCounter(t) \/ GetToken(t) \/ IncrApp(t) \/ HSetSession(t) \/ HSetUser(t)
      <3>1. pc[t] \notin SignUpPCs /\ UNCHANGED <<ret, logintoid>>
        BY <2>2 DEF GetId, GetAppCounter, GetToken, IncrApp, HSetSession, HSetUser, Fail
      <3>2. /\ pc'[t] \notin SignUpPCs
            /\ \A u \in Threads \ {t} : pc'[u] = pc[u] /\ call'[u] = call[u]
        BY <1>b, <2>2 DEF GetId, GetAppCounter, GetToken, IncrApp, HSetSession, HSetUser, Fail, Answer
      <3> QED
        BY <1>2, <3>1, <3>2
    <2> QED
      BY <1>4, <2>1, <2>2 DEF LoginStep
  <1>5. CASE DeleteStep(t)
    <2>1. CASE WhoAmI(t) \/ DelUser(t) \/ HDelSession(t)
      BY <1>b, <1>2, <2>1 DEF WhoAmI, DelUser, HDelSession, Fail
    <2>2. CASE DelLogin(t)
      <3> DEFINE w == call[t].login[1]
      <3>1. /\ pc[t] = "dellogin" /\ Done(t) /\ ret' = ret
            /\ logintoid' = [logintoid EXCEPT ![w] = Missing]
        BY <2>2 DEF DelLogin
      <3>2. Asking' = Asking /\ Granted' = Granted
        BY <1>a, <1>b, <3>1
      <3>3. \A m \in Logins : Taken(m)' <=> m[1] # w /\ Taken(m)
        BY <3>1, FirstWord DEF Taken
      <3>4. CASE \E l \in Logins : Plain(l) /\ l[1] = w
        <4>1. PICK l \in Logins : Plain(l) /\ l[1] = w
          BY <3>4
        <4>2. \A m \in Logins : Plain(m) /\ m # l => m[1] # w
          BY <4>1, PlainName
        <4>3. Claimed' = Claimed \ {l}
          BY <3>3, <4>1, <4>2 DEF Claimed
        <4> QED
          BY <3>1, <3>2, <4>1, <4>3, ObjectActions
      <3>5. CASE ~ \E l \in Logins : Plain(l) /\ l[1] = w
        <4>1. Claimed' = Claimed
          BY <3>3, <3>5 DEF Claimed
        <4> QED
          BY <3>1, <3>2, <4>1, ObjectActions
      <3> QED
        BY <3>4, <3>5
    <2> QED
      BY <1>5, <2>1, <2>2 DEF DeleteStep
  <1> QED
    BY <1>3, <1>4, <1>5

LEMMA ObjectStep ==
  ASSUME ShortLogins
  PROVE  TypeInv /\ ClaimInv /\ [Next]_vars => [SignUp!Next]_SignUp!vars
  <1> SUFFICES ASSUME TypeInv, ClaimInv, [Next]_vars
               PROVE  [SignUp!Next]_SignUp!vars
    OBVIOUS
  <1>1. CASE UNCHANGED vars
    <2>1. Asking' = Asking /\ Granted' = Granted
      BY <1>1, AskingFrame DEF vars, process
    <2> QED
      BY <1>1, <2>1, ClaimedFrame, ObjectActions DEF vars, redis, history
  <1>2. volatile = {}
    BY DEF ClaimInv
  <1> QED
    BY <1>1, <1>2, SignUpMaps, OtherMaps, DieMaps DEF Next, Step, Crash, RejectMalformed

(* Of all calls that ask for one name exactly one is told TRUE until the   *)
(* name is released: createAccount implements the atomic claim, on any     *)
(* number of threads and whenever the server dies, where logins have two   *)
(* words at most.                                                          *)
THEOREM SignUpIsAtomic ==
  ASSUME ShortLogins
  PROVE  Spec => SignUpAtomic
  <1>1. TypeInv /\ TypeInv' /\ ClaimInv /\ [Next]_vars => ClaimInv'
    BY ClaimStep
  <1>2. Spec => [](TypeInv /\ ClaimInv)
    BY Typing, ClaimInit, <1>1, PTL DEF Spec
  <1>3. TypeInv /\ ClaimInv /\ [Next]_vars => [SignUp!Next]_SignUp!vars
    BY ObjectStep
  <1> QED
    BY <1>2, <1>3, SignUpInit, PTL DEF Spec, SignUpAtomic, SignUp!Spec
=============================================================================
