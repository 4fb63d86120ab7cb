------------------------- MODULE ServerThreadProofs -------------------------
(***************************************************************************)
(* However many servers are started, every variable keeps its type.        *)
(***************************************************************************)
EXTENDS ServerThread, TLAPS

LEMMA OneLoop == n_threads = 1 /\ Loops = {0}
  BY DEF n_threads, Loops

LEMMA EndsStep ==
  ASSUME TypeOK, NEW p \in Servers, Ends(p)
  PROVE  TypeOK'
  BY OneLoop DEF Ends, TypeOK

LEMMA GotoStep ==
  ASSUME TypeOK, NEW p \in Servers, NEW i \in Loops,
         NEW label \in {"connect", "bind", "dispatch", "threw"}, Goto(p, i, label)
  PROVE  loop' \in [Servers -> [Loops -> {"none", "base", "connect", "bind", "dispatch", "threw"}]]
  <1>1. i = 0
    BY OneLoop
  <1> QED
    BY <1>1, OneLoop DEF Goto, TypeOK

LEMMA ContextStep ==
  ASSUME TypeOK, NEW p \in Servers, NEW i \in Loops, NEW c \in {"none", "ok", "broken"},
         redContext' = [redContext EXCEPT ![p][i] = c]
  PROVE  redContext' \in [Servers -> [Loops -> {"none", "ok", "broken"}]]
  <1>1. redContext \in [Servers -> [Loops -> {"none", "ok", "broken"}]]
    BY DEF TypeOK
  <1>2. [redContext[p] EXCEPT ![i] = c] \in [Loops -> {"none", "ok", "broken"}]
    BY <1>1
  <1>3. redContext' = [redContext EXCEPT ![p] = [redContext[p] EXCEPT ![i] = c]]
    OBVIOUS
  <1> QED
    BY <1>1, <1>2, <1>3

LEMMA ServerInit == Init => TypeOK
  BY OneLoop DEF Init, TypeOK

LEMMA ServerStep == TypeOK /\ [Next]_vars => TypeOK'
  <1> SUFFICES ASSUME TypeOK, [Next]_vars
               PROVE  TypeOK'
    OBVIOUS
  <1>1. ASSUME NEW p \in Servers, Start(p)
        PROVE  TypeOK'
    BY <1>1 DEF Start, TypeOK
  <1>2. ASSUME NEW p \in Servers, Push(p)
        PROVE  TypeOK'
    <2>1. CASE More(p)
      <3>1. vect[p] = 0 /\ vect' = [vect EXCEPT ![p] = 1]
        BY <2>1, <1>2, OneLoop DEF More, Push, TypeOK
      <3>2. /\ loop' = [loop EXCEPT ![p][0] = "base"]
            /\ UNCHANGED <<redis, main, redContext>>
        BY <2>1, <3>1, <1>2 DEF Push
      <3> QED
        BY <3>1, <3>2, OneLoop DEF TypeOK
    <2>2. CASE ~ More(p)
      BY <2>2, <1>2 DEF Push, TypeOK
    <2> QED
      BY <2>1, <2>2
  <1>3. ASSUME NEW p \in Servers, Ends(p)
        PROVE  TypeOK'
    BY <1>3, EndsStep
  <1>4. ASSUME NEW p \in Servers, NEW i \in Loops, MakeBase(p, i)
        PROVE  TypeOK'
    BY <1>4, GotoStep DEF MakeBase, TypeOK
  <1>5. ASSUME NEW p \in Servers, NEW i \in Loops, Connect(p, i)
        PROVE  TypeOK'
    <2>1. redContext' \in [Servers -> [Loops -> {"none", "ok", "broken"}]]
      <3>1. CASE UNCHANGED redContext
        BY <3>1 DEF TypeOK
      <3>2. CASE redContext' = [redContext EXCEPT ![p][i] = "ok"]
        BY <3>2, ContextStep
      <3> QED
        BY <3>1, <3>2, <1>5 DEF Connect
    <2>2. loop' \in [Servers -> [Loops -> {"none", "base", "connect", "bind", "dispatch", "threw"}]]
      BY <1>5, GotoStep DEF Connect
    <2> QED
      BY <1>5, <2>1, <2>2 DEF Connect, TypeOK
  <1>6. ASSUME NEW p \in Servers, NEW i \in Loops, Bind(p, i)
        PROVE  TypeOK'
    <2>1. redContext' \in [Servers -> [Loops -> {"none", "ok", "broken"}]]
      <3>1. CASE UNCHANGED redContext
        BY <3>1 DEF TypeOK
      <3>2. CASE redContext' = [redContext EXCEPT ![p][i] = "none"]
        BY <3>2, ContextStep
      <3> QED
        BY <3>1, <3>2, <1>6 DEF Bind
    <2>2. loop' \in [Servers -> [Loops -> {"none", "base", "connect", "bind", "dispatch", "threw"}]]
      BY <1>6, GotoStep DEF Bind
    <2> QED
      BY <1>6, <2>1, <2>2 DEF Bind, TypeOK
  <1>7. ASSUME UNCHANGED <<main, vect, loop>>, RedisStops \/ RedisStarts
        PROVE  TypeOK'
    <2>1. redis' \in BOOLEAN
      BY <1>7 DEF RedisStops, RedisStarts
    <2>2. redContext' \in [Servers -> [Loops -> {"none", "ok", "broken"}]]
      BY <1>7 DEF RedisStops, RedisStarts, TypeOK
    <2> QED
      BY <1>7, <2>1, <2>2 DEF TypeOK
  <1>8. ASSUME UNCHANGED vars
        PROVE  TypeOK'
    BY <1>8 DEF vars, TypeOK
  <1>9. RedisStops \/ RedisStarts => UNCHANGED <<main, vect, loop>>
    BY DEF RedisStops, RedisStarts
  <1> QED
    BY <1>1, <1>2, <1>3, <1>4, <1>5, <1>6, <1>7, <1>8, <1>9
    DEF Next, Main, Get, Holder, Serve, ReadsNull, Killed

(* Every variable keeps its type, whatever servers are started. *)
THEOREM ServerTyping == Spec => []TypeOK
  BY ServerInit, ServerStep, PTL DEF Spec
=============================================================================
