-------------------------- MODULE ConversationProofs --------------------------
(***************************************************************************)
(* Whatever is posted, lost, late or out of order, the rows the client has *)
(* of a group are its oldest messages with none left out, and none of its  *)
(* own is among them twice, until one of the Faults has happened: it reads *)
(* as Reader says, for any number of groups, requests and messages, with   *)
(* crashes anywhere.                                                       *)
(***************************************************************************)
EXTENDS Conversation, SequenceTheorems, FiniteSetTheorems, TLAPS

TableRows == [group : Groups, msg : Ids \cup {0},
              trueid : ({"id"} \X Ids) \cup ({"time", "uid"} \X Nat)]
Calls == [kind : {"none", "poll", "contents", "send"},
          stage : {"sent", "parked", "answered"},
          group : Groups \cup {NoGroup}, n : Nat, ids : SUBSET Ids]

-----------------------------------------------------------------------------
(* Lemmas about numbers, sets and lists *)

(* A set of the first numbers that has a member has a greatest one. *)
LEMMA GreatestExists ==
  ASSUME NEW n \in Nat, NEW S \in SUBSET (1 .. n), S # {}
  PROVE  /\ Max(S) \in S
         /\ \A x \in S : Max(S) >= x
  <1> DEFINE Above(x) == x .. n
             T == {Above(x) : x \in S}
             F == FiniteSubsetsOf(1 .. n)
  <1>1. IsWellFoundedOn(StrictSubsetOrdering(1 .. n), F)
    BY FS_StrictSubsetOrderingWellFounded
  <1>2. T \subseteq F /\ T # {}
    <2>1. \A x \in S : Above(x) \in SUBSET (1 .. n) /\ IsFiniteSet(Above(x))
      BY FS_Interval
    <2> QED
      BY <2>1 DEF FiniteSubsetsOf
  <1>3. PICK A \in T : \A B \in T : ~ (<<B, A>> \in StrictSubsetOrdering(1 .. n))
    <2> HIDE DEF T, F
    <2> QED
      BY <1>1, <1>2, WFMin
  <1>4. PICK m \in S : A = Above(m)
    OBVIOUS
  <1>5. \A x \in S : m >= x
    <2> SUFFICES ASSUME NEW x \in S, x > m
                 PROVE  FALSE
      OBVIOUS
    <2>1. Above(x) \subseteq Above(m) /\ m \in Above(m) /\ m \notin Above(x)
      OBVIOUS
    <2>2. <<Above(x), A>> \in StrictSubsetOrdering(1 .. n)
      <3>1. Above(x) \in SUBSET (1 .. n) /\ A \in SUBSET (1 .. n)
        BY <1>4
      <3> QED
        BY <1>4, <2>1, <3>1 DEF StrictSubsetOrdering
    <2> QED
      BY <1>3, <2>2
  <1> QED
    BY <1>5 DEF Max

(* What is left of a number of requests when one is done, or one more is   *)
(* sent.                                                                   *)
LEMMA OneMore ==
  ASSUME NEW S, IsFiniteSet(S), NEW x
  PROVE  /\ Cardinality(S) \in Nat
         /\ x \notin S => Cardinality(S \cup {x}) = Cardinality(S) + 1
         /\ x \in S => Cardinality(S \ {x}) = Cardinality(S) - 1 /\ Cardinality(S) > 0
  <1>1. Cardinality(S) \in Nat
    BY FS_CardinalityType
  <1>2. x \notin S => Cardinality(S \cup {x}) = Cardinality(S) + 1
    BY FS_AddElement
  <1>3. x \in S => Cardinality(S \ {x}) = Cardinality(S) - 1
    BY FS_RemoveElement
  <1>4. x \in S => Cardinality(S) > 0
    <2>1. x \in S => Cardinality(S) # 0
      BY FS_EmptySet
    <2> QED
      BY <1>1, <2>1
  <1> QED
    BY <1>1, <1>2, <1>3, <1>4

(* An order of a finite set has each of its members, once. *)
LEMMA OrderIs ==
  ASSUME NEW S, IsFiniteSet(S), NEW order \in SetToSeqs(S)
  PROVE  /\ Cardinality(S) \in Nat
         /\ DOMAIN order = 1 .. Cardinality(S)
         /\ Len(order) = Cardinality(S)
         /\ \A i \in DOMAIN order : order[i] \in S
         /\ \A m \in S : \E i \in DOMAIN order : order[i] = m
  <1> DEFINE D == 1 .. Cardinality(S)
  <1>1. Cardinality(S) \in Nat
    BY FS_CardinalityType
  <1>2. order \in [D -> S] /\ \A i, j \in D : i # j => order[i] # order[j]
    BY DEF SetToSeqs
  <1>3. IsFiniteSet(D) /\ Cardinality(D) = Cardinality(S)
    BY <1>1, FS_Interval
  <1> HIDE DEF D
  <1>4. order \in Injection(D, S)
    BY <1>2 DEF Injection, IsInjective
  <1>5. order \in Surjection(D, S)
    BY <1>3, <1>4, FS_Injection
  <1>6. \A m \in S : \E i \in D : order[i] = m
    BY <1>5 DEF Surjection
  <1>7. order \in Seq(S) /\ Len(order) = Cardinality(S)
    BY <1>1, <1>2 DEF D
  <1> QED
    BY <1>1, <1>2, <1>6, <1>7 DEF D

(* LPUSH: the new id is the first of its list, the others move up by one. *)
LEMMA ListedIs ==
  ASSUME TypeOK, ListsInv, messagesCounter < MaxMsgs, NEW g \in Groups, Listed(g)
  PROVE  /\ messagesCounter' = messagesCounter + 1 /\ messagesCounter' \in 0 .. MaxMsgs
         /\ NextMessage \in Ids /\ NextMessage = messagesCounter + 1
         /\ messages' \in [Groups -> Seq(Ids)]
         /\ \A h \in Groups : h # g => messages'[h] = messages[h]
         /\ Len(messages'[g]) = Len(messages[g]) + 1
         /\ messages'[g][1] = NextMessage
         /\ \A i \in 1 .. Len(messages[g]) : messages'[g][i + 1] = messages[g][i]
         /\ \A h \in Groups : NextMessage \notin Members(h)
  <1>1. /\ messagesCounter \in Nat /\ MaxMsgs \in Nat /\ messagesCounter \in 0 .. MaxMsgs
        /\ messages \in [Groups -> Seq(Ids)]
    BY ConversationAssumption DEF TypeOK
  <1>2. /\ messagesCounter' = messagesCounter + 1 /\ messagesCounter' \in 0 .. MaxMsgs
        /\ NextMessage \in Ids /\ NextMessage = messagesCounter + 1
    BY <1>1 DEF Listed, NextMessage, Ids
  <1> DEFINE s == messages[g]
             one == <<NextMessage>>
  <1>3. s \in Seq(Ids) /\ one \in Seq(Ids) /\ Len(one) = 1 /\ one[1] = NextMessage /\ Len(s) \in Nat
    BY <1>1, <1>2
  <1>4. messages' = [messages EXCEPT ![g] = one \o s]
    BY DEF Listed
  <1>5. messages'[g] = one \o s /\ \A h \in Groups : h # g => messages'[h] = messages[h]
    BY <1>1, <1>4
  <1> HIDE DEF s, one
  <1>6. /\ one \o s \in Seq(Ids)
        /\ Len(one \o s) = 1 + Len(s)
        /\ \A i \in 1 .. 1 + Len(s) : (one \o s)[i] = IF i <= 1 THEN one[i] ELSE s[i - 1]
    <2>1. /\ one \o s \in Seq(Ids)
          /\ Len(one \o s) = Len(one) + Len(s)
          /\ \A i \in 1 .. Len(one) + Len(s) :
                (one \o s)[i] = IF i <= Len(one) THEN one[i] ELSE s[i - Len(one)]
      BY <1>3, ConcatProperties, Zenon
    <2> QED
      BY <1>3, <2>1, Zenon
  <1>7. (one \o s)[1] = NextMessage /\ \A i \in 1 .. Len(s) : (one \o s)[i + 1] = s[i]
    BY <1>3, <1>6
  <1>8. messages' \in [Groups -> Seq(Ids)]
    BY <1>1, <1>4, <1>6
  <1>9. ASSUME NEW h \in Groups, NextMessage \in Members(h)
        PROVE  FALSE
    <2>1. PICK i \in DOMAIN messages[h] : messages[h][i] = NextMessage
      BY <1>9 DEF Members, ToSet
    <2>2. messages[h][i] <= messagesCounter
      BY <2>1 DEF ListsInv
    <2> QED
      BY <1>1, <1>2, <2>1, <2>2
  <1> QED
    BY <1>2, <1>5, <1>6, <1>7, <1>8, <1>9 DEF s

LEMMA MembersGrow ==
  ASSUME TypeOK, ListsInv, messagesCounter < MaxMsgs, NEW g \in Groups, Listed(g)
  PROVE  /\ Members(g)' = Members(g) \cup {NextMessage}
         /\ \A h \in Groups : h # g => Members(h)' = Members(h)
  <1>1. /\ \A h \in Groups : messages[h] \in Seq(Ids) /\ messages'[h] \in Seq(Ids)
        /\ \A h \in Groups : h # g => messages'[h] = messages[h]
        /\ Len(messages'[g]) = Len(messages[g]) + 1 /\ messages'[g][1] = NextMessage
        /\ \A i \in 1 .. Len(messages[g]) : messages'[g][i + 1] = messages[g][i]
    BY ListedIs DEF TypeOK
  <1> DEFINE s == messages[g]
             t == messages'[g]
  <1>2. /\ Len(s) \in Nat /\ DOMAIN s = 1 .. Len(s) /\ DOMAIN t = 1 .. Len(s) + 1
        /\ t[1] = NextMessage /\ \A i \in 1 .. Len(s) : t[i + 1] = s[i]
    BY <1>1
  <1> HIDE DEF s, t
  <1>3. {t[i] : i \in DOMAIN t} = {s[i] : i \in DOMAIN s} \cup {NextMessage}
    <2>1. ASSUME NEW i \in 1 .. Len(s) + 1
          PROVE  t[i] \in {s[k] : k \in DOMAIN s} \cup {NextMessage}
      <3>1. CASE i = 1
        BY <1>2, <3>1
      <3>2. CASE i # 1
        <4>1. i - 1 \in 1 .. Len(s) /\ i = (i - 1) + 1
          BY <1>2, <3>2
        <4> QED
          BY <1>2, <4>1
      <3> QED
        BY <3>1, <3>2
    <2>2. ASSUME NEW i \in 1 .. Len(s)
          PROVE  s[i] \in {t[k] : k \in DOMAIN t}
      <3>1. i + 1 \in 1 .. Len(s) + 1
        BY <1>2
      <3> QED
        BY <1>2, <3>1
    <2>3. 1 \in DOMAIN t
      BY <1>2
    <2> QED
      BY <1>2, <2>1, <2>2, <2>3
  <1> QED
    <2>1. Members(g)' = Members(g) \cup {NextMessage}
      BY <1>3 DEF Members, ToSet, s, t
    <2>2. ASSUME NEW h \in Groups, h # g
          PROVE  Members(h)' = Members(h)
      BY <1>1, <2>2 DEF Members
    <2> QED
      BY <2>1, <2>2

LEMMA ListsStay ==
  ASSUME TypeOK, ListsInv, messagesCounter < MaxMsgs, NEW g \in Groups, Listed(g),
         \A m \in mine' : m \in mine \/ m = NextMessage
  PROVE  ListsInv'
  <1>1. /\ messagesCounter' = messagesCounter + 1 /\ messagesCounter \in Nat
        /\ NextMessage = messagesCounter + 1
        /\ messages' \in [Groups -> Seq(Ids)]
        /\ \A h \in Groups : h # g => messages'[h] = messages[h]
        /\ Len(messages'[g]) = Len(messages[g]) + 1 /\ messages'[g][1] = NextMessage
        /\ \A i \in 1 .. Len(messages[g]) : messages'[g][i + 1] = messages[g][i]
        /\ \A h \in Groups : messages[h] \in Seq(Ids)
    BY ListedIs DEF TypeOK
  <1>2. \A h \in Groups : \A i \in DOMAIN messages[h] :
           messages[h][i] \in Nat /\ messages[h][i] <= messagesCounter
    <2> SUFFICES ASSUME NEW h \in Groups, NEW i \in DOMAIN messages[h]
                 PROVE  messages[h][i] \in Nat /\ messages[h][i] <= messagesCounter
      OBVIOUS
    <2>1. messages[h][i] \in Ids
      BY <1>1
    <2> QED
      BY <2>1 DEF ListsInv, Ids
  (* Where an entry of a new list comes from. *)
  <1> DEFINE Old(h, i) == IF h = g THEN i - 1 ELSE i
  <1>3. ASSUME NEW h \in Groups, NEW i \in DOMAIN messages'[h]
        PROVE  \/ h = g /\ i = 1 /\ messages'[h][i] = messagesCounter + 1
               \/ /\ Old(h, i) \in DOMAIN messages[h]
                  /\ messages'[h][i] = messages[h][Old(h, i)]
    <2>1. CASE h = g
      <3>1. i \in 1 .. Len(messages[g]) + 1 /\ Len(messages[g]) \in Nat
        BY <1>1, <2>1
      <3>2. CASE i = 1
        BY <1>1, <2>1, <3>2
      <3>3. CASE i # 1
        <4>1. i - 1 \in 1 .. Len(messages[g]) /\ i = (i - 1) + 1
          BY <3>1, <3>3
        <4>2. i - 1 \in DOMAIN messages[g]
          BY <1>1, <4>1
        <4> QED
          BY <1>1, <2>1, <4>1, <4>2
      <3> QED
        BY <3>2, <3>3
    <2>2. CASE h # g
      BY <1>1, <2>2
    <2> QED
      BY <2>1, <2>2
  <1>4. \A h \in Groups : \A i \in DOMAIN messages'[h] : i \in Int
    BY <1>1
  <1>5. ASSUME NEW h \in Groups, NEW i \in DOMAIN messages'[h]
        PROVE  messages'[h][i] <= messagesCounter'
    BY <1>1, <1>2, <1>3
  <1>6. ASSUME NEW h \in Groups, NEW k \in Groups,
               NEW i \in DOMAIN messages'[h], NEW j \in DOMAIN messages'[k],
               messages'[h][i] = messages'[k][j]
        PROVE  h = k /\ i = j
    <2>1. CASE h = g /\ i = 1 /\ messages'[h][i] = messagesCounter + 1
      <3>1. ~ (Old(k, j) \in DOMAIN messages[k] /\ messages'[k][j] = messages[k][Old(k, j)])
        <4>1. SUFFICES ASSUME Old(k, j) \in DOMAIN messages[k],
                              messagesCounter + 1 = messages[k][Old(k, j)]
                       PROVE  FALSE
          BY <1>6, <2>1
        <4> HIDE DEF Old
        <4> QED
          BY <1>1, <1>2, <4>1
      <3> QED
        BY <1>3, <2>1, <3>1
    <2>2. CASE Old(h, i) \in DOMAIN messages[h] /\ messages'[h][i] = messages[h][Old(h, i)]
      <3>1. ~ (messages'[k][j] = messagesCounter + 1)
        <4>1. SUFFICES ASSUME messagesCounter + 1 = messages[h][Old(h, i)]
                       PROVE  FALSE
          BY <1>6, <2>2
        <4> HIDE DEF Old
        <4> QED
          BY <1>1, <1>2, <2>2, <4>1
      <3>2. Old(k, j) \in DOMAIN messages[k] /\ messages'[k][j] = messages[k][Old(k, j)]
        BY <1>3, <3>1
      <3>3. h = k /\ Old(h, i) = Old(k, j)
        <4> HIDE DEF Old
        <4>1. \A a \in DOMAIN messages[h], b \in DOMAIN messages[k] :
                 messages[h][a] = messages[k][b] => h = k /\ a = b
          BY DEF ListsInv
        <4>2. messages[h][Old(h, i)] = messages[k][Old(k, j)]
          BY <1>6, <2>2, <3>2
        <4> QED
          BY <2>2, <3>2, <4>1, <4>2
      <3> QED
        BY <1>4, <3>3
    <2> QED
      BY <1>3, <2>1, <2>2
  <1>7. \A m \in mine' : m <= messagesCounter'
    <2>1. \A m \in mine : m \in Nat /\ m <= messagesCounter
      BY DEF ListsInv, TypeOK, Ids
    <2> QED
      BY <1>1, <2>1
  <1> QED
    BY <1>5, <1>6, <1>7 DEF ListsInv

LEMMA GroupOfIs ==
  ASSUME ListsInv, NEW g \in Groups, NEW m \in Members(g)
  PROVE  GroupOf(m) = g
  <1>1. \A h \in Groups : m \in ToSet(messages[h]) => h = g
    BY DEF ListsInv, Members, ToSet
  <1> QED
    BY <1>1 DEF GroupOf, Members

(* The places of a list, counted from its oldest entry. *)
LEMMA PlacesAre ==
  ASSUME TypeOK, ListsInv, NEW g \in Groups
  PROVE  /\ Len(messages[g]) \in Nat
         /\ \A j \in 1 .. Len(messages[g]) : Place(g, j) \in Members(g) /\ Place(g, j) \in Ids
         /\ \A m \in Members(g) : \E j \in 1 .. Len(messages[g]) : m = Place(g, j)
         /\ \A j, k \in 1 .. Len(messages[g]) : Place(g, j) = Place(g, k) => j = k
         /\ Members(g) \subseteq Ids
  <1> DEFINE s == messages[g]
  <1>1. /\ s \in Seq(Ids) /\ Len(s) \in Nat /\ DOMAIN s = 1 .. Len(s)
        /\ \A i \in 1 .. Len(s) : s[i] \in Ids
    BY DEF TypeOK
  <1>2. \A j \in 1 .. Len(s) : /\ Len(s) + 1 - j \in 1 .. Len(s)
                               /\ Len(s) + 1 - (Len(s) + 1 - j) = j
    BY <1>1
  <1>3. \A i, k \in DOMAIN s : s[i] = s[k] => i = k
    BY DEF ListsInv
  <1>4. Members(g) = {s[i] : i \in DOMAIN s}
    BY DEF Members, ToSet
  <1>5. \A j \in 1 .. Len(s) : Place(g, j) = s[Len(s) + 1 - j]
    BY DEF Place
  <1> HIDE DEF s
  <1>6. \A j \in 1 .. Len(s) : Place(g, j) \in Members(g) /\ Place(g, j) \in Ids
    BY <1>1, <1>2, <1>4, <1>5
  <1>7. ASSUME NEW m \in Members(g)
        PROVE  \E j \in 1 .. Len(s) : m = Place(g, j)
    <2>1. PICK i \in 1 .. Len(s) : m = s[i]
      BY <1>1, <1>4
    <2>2. Len(s) + 1 - i \in 1 .. Len(s) /\ Len(s) + 1 - (Len(s) + 1 - i) = i
      BY <1>2
    <2> QED
      BY <1>5, <2>1, <2>2
  <1>8. ASSUME NEW j \in 1 .. Len(s), NEW k \in 1 .. Len(s), Place(g, j) = Place(g, k)
        PROVE  j = k
    <2>1. Len(s) + 1 - j = Len(s) + 1 - k
      BY <1>1, <1>2, <1>3, <1>5, <1>8
    <2> QED
      BY <1>1, <2>1
  <1>9. Members(g) \subseteq Ids
    BY <1>1, <1>4
  <1> QED
    BY <1>1, <1>6, <1>7, <1>8, <1>9 DEF s

LEMMA PlacesStay ==
  ASSUME TypeOK, ListsInv, messagesCounter < MaxMsgs, NEW g \in Groups, Listed(g)
  PROVE  /\ \A j : j = Len(messages[g]) + 1 => Place(g, j)' = NextMessage
         /\ \A h \in Groups : \A j \in 1 .. Len(messages[h]) : Place(h, j)' = Place(h, j)
  <1>1. /\ \A h \in Groups : Len(messages[h]) \in Nat
        /\ \A h \in Groups : h # g => messages'[h] = messages[h]
        /\ Len(messages'[g]) = Len(messages[g]) + 1 /\ messages'[g][1] = NextMessage
        /\ \A i \in 1 .. Len(messages[g]) : messages'[g][i + 1] = messages[g][i]
    BY ListedIs, PlacesAre
  <1>2. ASSUME NEW j, j = Len(messages[g]) + 1
        PROVE  Place(g, j)' = NextMessage
    <2>1. Len(messages'[g]) + 1 - j = 1
      BY <1>1, <1>2
    <2> QED
      BY <1>1, <2>1 DEF Place
  <1>3. ASSUME NEW j \in 1 .. Len(messages[g])
        PROVE  Place(g, j)' = Place(g, j)
    <2>1. /\ Len(messages[g]) + 1 - j \in 1 .. Len(messages[g])
          /\ Len(messages'[g]) + 1 - j = (Len(messages[g]) + 1 - j) + 1
      BY <1>1
    <2> QED
      BY <1>1, <2>1 DEF Place
  <1>4. \A h \in Groups : h # g => \A j \in 1 .. Len(messages[h]) : Place(h, j)' = Place(h, j)
    BY <1>1 DEF Place
  <1> QED
    BY <1>2, <1>3, <1>4

-----------------------------------------------------------------------------
(* Lemmas about the table *)

(* The rows of a group, of this or the next table. *)
LEMMA RowsAreFinite ==
  ASSUME NEW t \in Seq(TableRows), NEW g
  PROVE  /\ Len(t) \in Nat /\ DOMAIN t = 1 .. Len(t)
         /\ {i \in DOMAIN t : t[i].group = g} \subseteq 1 .. Len(t)
         /\ IsFiniteSet({i \in DOMAIN t : t[i].group = g})
         /\ Cardinality({i \in DOMAIN t : t[i].group = g}) \in Nat
  <1>1. Len(t) \in Nat /\ DOMAIN t = 1 .. Len(t)
    OBVIOUS
  <1>2. IsFiniteSet(1 .. Len(t))
    BY <1>1, FS_Interval
  <1> DEFINE S == {i \in DOMAIN t : t[i].group = g}
  <1>3. S \in SUBSET (1 .. Len(t))
    BY <1>1
  <1> HIDE DEF S
  <1>4. IsFiniteSet(S) /\ Cardinality(S) \in Nat
    BY <1>2, <1>3, FS_Subset, FS_CardinalityType
  <1> QED
    BY <1>1, <1>3, <1>4 DEF S

LEMMA RowCountIs ==
  ASSUME TypeOK, NEW g
  PROVE  /\ Len(rows) \in Nat /\ DOMAIN rows = 1 .. Len(rows)
         /\ RowsOf(g) \subseteq 1 .. Len(rows)
         /\ IsFiniteSet(RowsOf(g)) /\ RowCount(g) \in Nat
  <1>1. rows \in Seq(TableRows)
    BY DEF TypeOK, TableRows
  <1> QED
    BY <1>1, RowsAreFinite, Zenon DEF RowsOf, RowCount

(* The numbers of the next n rows. *)
Added(n) == Len(rows) + 1 .. Len(rows) + n

(* What addMessage leaves in the table for a batch of one group. *)
Extended(t, g, new) ==
  /\ t \in Seq(TableRows)
  /\ Cardinality(new) \in Nat
  /\ DOMAIN t = DOMAIN rows \cup Added(Cardinality(new))
  /\ \A i \in DOMAIN rows : i \notin Added(Cardinality(new)) /\ t[i] = rows[i]
  /\ \A i \in Added(Cardinality(new)) : \E m \in new : t[i] = Row(g, m, <<"id", m>>)
  /\ \A m \in new : \E i \in Added(Cardinality(new)) : t[i] = Row(g, m, <<"id", m>>)

LEMMA StoredIs ==
  ASSUME TypeOK, ListsInv, NEW g \in Groups, NEW ids \in SUBSET Members(g),
         NEW new, new = {m \in ids : <<"id", m>> \notin Keys},
         NEW t \in Stored(ids)
  PROVE  Extended(t, g, new)
  <1> DEFINE n == Cardinality(new)
             add == Added(n)
             one(m) == Row(GroupOf(m), m, <<"id", m>>)
  <1>1. IsFiniteSet(new) /\ new \subseteq Ids
    <2>1. ids \subseteq Ids
      BY PlacesAre
    <2>2. IsFiniteSet(Ids)
      BY ConversationAssumption, FS_Interval DEF Ids
    <2>3. new \in SUBSET Ids
      BY <2>1
    <2> QED
      BY <2>2, <2>3, FS_Subset
  <1>2. PICK order \in SetToSeqs(new) : t = rows \o [i \in DOMAIN order |-> one(order[i])]
    BY DEF Stored
  <1>3. /\ n \in Nat /\ DOMAIN order = 1 .. n
        /\ \A i \in DOMAIN order : order[i] \in new
        /\ \A m \in new : \E i \in DOMAIN order : order[i] = m
    BY <1>1, OrderIs
  <1>4. \A m \in new : one(m) = Row(g, m, <<"id", m>>) /\ one(m) \in TableRows
    <2> SUFFICES ASSUME NEW m \in new
                 PROVE  one(m) = Row(g, m, <<"id", m>>) /\ one(m) \in TableRows
      OBVIOUS
    <2>1. m \in ids /\ m \in Ids
      BY <1>1
    <2>2. GroupOf(m) = g
      BY <2>1, GroupOfIs
    <2>3. <<"id", m>> \in {"id"} \X Ids
      BY <2>1
    <2> QED
      BY <2>1, <2>2, <2>3 DEF Row, TableRows
  <1> DEFINE s == [i \in DOMAIN order |-> one(order[i])]
  <1> HIDE DEF one, n
  <1>5. s \in Seq(TableRows) /\ Len(s) = n
    <2>1. s \in [1 .. n -> TableRows]
      BY <1>3, <1>4
    <2> HIDE DEF s
    <2> QED
      BY <1>3, <2>1
  <1>6. \A i \in 1 .. n : s[i] = one(order[i])
    BY <1>3
  <1> HIDE DEF s
  <1>7. rows \in Seq(TableRows)
    BY DEF TypeOK, TableRows
  <1>8. /\ t = rows \o s
        /\ t \in Seq(TableRows) /\ Len(t) = Len(rows) + n
        /\ \A i \in 1 .. Len(rows) + n : t[i] = IF i <= Len(rows) THEN rows[i] ELSE s[i - Len(rows)]
    <2>1. t = rows \o s
      BY <1>2 DEF s
    <2>2. /\ rows \o s \in Seq(TableRows)
          /\ Len(rows \o s) = Len(rows) + Len(s)
          /\ \A i \in 1 .. Len(rows) + Len(s) :
                (rows \o s)[i] = IF i <= Len(rows) THEN rows[i] ELSE s[i - Len(rows)]
      BY <1>5, <1>7, ConcatProperties, Zenon
    <2> QED
      BY <1>5, <2>1, <2>2, Zenon
  <1>9. Len(rows) \in Nat /\ DOMAIN rows = 1 .. Len(rows) /\ DOMAIN t = 1 .. Len(t)
    BY <1>7, <1>8
  <1>10. DOMAIN t = DOMAIN rows \cup add
    BY <1>3, <1>8, <1>9 DEF Added
  <1>11. \A i \in DOMAIN rows : i \notin add /\ t[i] = rows[i]
    BY <1>3, <1>8, <1>9 DEF Added
  <1>12. ASSUME NEW i \in add
         PROVE  \E m \in new : t[i] = Row(g, m, <<"id", m>>)
    <2>1. i - Len(rows) \in 1 .. n /\ t[i] = s[i - Len(rows)]
      BY <1>3, <1>8, <1>9 DEF Added
    <2>2. t[i] = one(order[i - Len(rows)]) /\ order[i - Len(rows)] \in new
      BY <1>3, <1>6, <2>1
    <2> QED
      BY <1>4, <2>2
  <1>13. ASSUME NEW m \in new
         PROVE  \E i \in add : t[i] = Row(g, m, <<"id", m>>)
    <2>1. PICK k \in 1 .. n : order[k] = m
      BY <1>3
    <2>2. /\ Len(rows) + k \in add /\ t[Len(rows) + k] = s[(Len(rows) + k) - Len(rows)]
          /\ (Len(rows) + k) - Len(rows) = k
      BY <1>3, <1>8, <1>9 DEF Added
    <2> QED
      BY <1>4, <1>6, <2>1, <2>2
  <1> QED
    BY <1>3, <1>8, <1>10, <1>11, <1>12, <1>13 DEF n, Extended

(* The table after a batch of g that has nothing known in it. *)
LEMMA StoredCounts ==
  ASSUME TypeOK, ListsInv, NEW g \in Groups, NEW ids \in SUBSET Members(g),
         \A m \in ids : <<"id", m>> \notin Keys, rows' \in Stored(ids)
  PROVE  /\ RowCount(g)' = RowCount(g) + Cardinality(ids)
         /\ \A h \in Groups : h # g => RowCount(h)' = RowCount(h)
         /\ Shown' = Shown \cup ids
  <1> DEFINE add == Added(Cardinality(ids))
  <1>1. ids = {m \in ids : <<"id", m>> \notin Keys}
    OBVIOUS
  <1>2. /\ rows' \in Seq(TableRows)
        /\ Cardinality(ids) \in Nat
        /\ DOMAIN rows' = DOMAIN rows \cup add
        /\ \A i \in DOMAIN rows : i \notin add /\ rows'[i] = rows[i]
        /\ \A i \in add : \E m \in ids : rows'[i] = Row(g, m, <<"id", m>>)
        /\ \A m \in ids : \E i \in add : rows'[i] = Row(g, m, <<"id", m>>)
    <2>1. Extended(rows', g, ids)
      BY <1>1, StoredIs
    <2> QED
      BY <2>1 DEF Extended
  <1>3. \A h : IsFiniteSet(RowsOf(h)) /\ Len(rows) \in Nat
    BY RowCountIs
  <1>4. IsFiniteSet(add) /\ Cardinality(add) = Cardinality(ids)
    <2>1. \A l, k \in Nat : /\ l + 1 \in Int /\ l + k \in Int
                             /\ l + 1 > l + k => k = 0
                             /\ l + k - (l + 1) + 1 = k
      OBVIOUS
    <2>2. \A l, k \in Nat : IsFiniteSet(l + 1 .. l + k) /\ Cardinality(l + 1 .. l + k) = k
      BY <2>1, FS_Interval
    <2> QED
      BY <1>2, <1>3, <2>2 DEF Added
  <1> HIDE DEF add
  <1>5. \A m : Row(g, m, <<"id", m>>).group = g /\ Row(g, m, <<"id", m>>).msg = m
    BY DEF Row
  <1>6. \A i \in add : rows'[i].group = g /\ rows'[i].msg \in ids
    BY <1>2, <1>5
  <1>7. RowsOf(g)' = RowsOf(g) \cup add /\ RowsOf(g) \cap add = {}
    BY <1>2, <1>6 DEF RowsOf
  <1>8. \A h : h # g => RowsOf(h)' = RowsOf(h)
    BY <1>2, <1>6 DEF RowsOf
  <1>9. RowCount(g)' = RowCount(g) + Cardinality(ids)
    <2>1. /\ Cardinality(RowsOf(g) \cup add)
             = Cardinality(RowsOf(g)) + Cardinality(add) - Cardinality(RowsOf(g) \cap add)
          /\ Cardinality({}) = 0
      BY <1>3, <1>4, FS_Union, FS_EmptySet
    <2>4. Cardinality(RowsOf(g) \cap add) = 0
      BY <1>7, FS_EmptySet, Zenon
    <2>2. Cardinality(RowsOf(g)) \in Nat
      BY <1>3, FS_CardinalityType
    <2>3. Cardinality(RowsOf(g) \cup add) = Cardinality(RowsOf(g)) + Cardinality(ids)
      BY <1>2, <1>4, <2>4, <2>1, <2>2
    <2> QED
      BY <1>7, <2>3, Zenon DEF RowCount
  <1>10. Shown' = Shown \cup ids
    <2>1. 0 \notin ids
      BY PlacesAre DEF Ids
    <2>2. \A m \in ids : \E i \in DOMAIN rows' : rows'[i].msg = m
      BY <1>2, <1>5
    <2>3. \A i \in DOMAIN rows' : rows'[i].msg \in ids \/ (i \in DOMAIN rows /\ rows'[i] = rows[i])
      BY <1>2, <1>6
    <2>4. \A i \in DOMAIN rows : i \in DOMAIN rows' /\ rows'[i] = rows[i]
      BY <1>2
    <2> QED
      BY <2>1, <2>2, <2>3, <2>4 DEF Shown
  <1> QED
    BY <1>8, <1>9, <1>10 DEF RowCount

-----------------------------------------------------------------------------
(* Lemmas about requests *)

LEMMA AnsweredIs ==
  ASSUME TypeOK, NEW R, NEW ids \in SUBSET Ids
  PROVE  /\ Answered(R, ids) \in [Requests -> Calls]
         /\ \A r \in Requests : /\ Answered(R, ids)[r].kind = net[r].kind
                                /\ Answered(R, ids)[r].n = net[r].n
         /\ \A r \in R \cap Requests : /\ Answered(R, ids)[r].stage = "answered"
                                       /\ Answered(R, ids)[r].group = NoGroup
                                       /\ Answered(R, ids)[r].ids = ids
         /\ \A r \in Requests \ R : Answered(R, ids)[r] = net[r]
  <1>1. net \in [Requests -> Calls]
    BY DEF TypeOK, Calls
  <1>2. \A r \in Requests :
           /\ [net[r] EXCEPT !.stage = "answered", !.group = NoGroup, !.ids = ids] \in Calls
           /\ net[r] \in Calls
    BY <1>1 DEF Calls
  <1> QED
    BY <1>1, <1>2 DEF Answered, Calls

LEMMA CallsAre ==
  /\ NoCall \in Calls /\ NoCall.kind = "none" /\ NoCall.stage = "answered" /\ NoCall.ids = {}
  /\ \A g \in Groups \cup {NoGroup}, n \in Nat :
        /\ Poll(g, n) \in Calls
        /\ Poll(g, n).kind = "poll" /\ Poll(g, n).stage = "sent"
        /\ Poll(g, n).group = g /\ Poll(g, n).n = n /\ Poll(g, n).ids = {}
        /\ Send(g, n) \in Calls
        /\ Send(g, n).kind = "send" /\ Send(g, n).stage = "sent" /\ Send(g, n).group = g
  /\ \A ids \in SUBSET Ids :
        /\ Contents(ids) \in Calls
        /\ Contents(ids).kind = "contents" /\ Contents(ids).stage = "sent"
        /\ Contents(ids).ids = ids
  BY DEF NoCall, Poll, Send, Contents, Calls

LEMMA ANewRequest ==
  ASSUME HasFree
  PROVE  NewRequest \in Requests /\ net[NewRequest].kind = "none"
  BY DEF HasFree, NewRequest, Free

LEMMA SendsAreFinite ==
  ASSUME NEW S \in SUBSET Requests
  PROVE  IsFiniteSet(S) /\ Cardinality(S) \in Nat
  BY ConversationAssumption, FS_Subset, FS_CardinalityType

LEMMA FewerSends ==
  ASSUME TypeOK, RequestsInv, Sends' \subseteq Sends, messagesCounter' = messagesCounter
  PROVE  messagesCounter' + Cardinality(Sends') <= MaxMsgs
  <1>1. Sends \in SUBSET Requests /\ Sends' \in SUBSET Sends
    BY DEF Sends
  <1>2. IsFiniteSet(Sends) /\ Cardinality(Sends) \in Nat
    BY <1>1, SendsAreFinite
  <1>3. Cardinality(Sends') \in Nat
    BY <1>1, SendsAreFinite
  <1>4. Cardinality(Sends') <= Cardinality(Sends)
    BY <1>1, <1>2, FS_Subset
  <1>5. messagesCounter \in Nat /\ MaxMsgs \in Nat /\ messagesCounter + Cardinality(Sends) <= MaxMsgs
    BY ConversationAssumption DEF TypeOK, RequestsInv
  <1> HIDE DEF Sends
  <1>6. \A c, s, t, m \in Nat : c + s <= m /\ t <= s => c + t <= m
    OBVIOUS
  <1> QED
    BY <1>2, <1>3, <1>4, <1>5, <1>6

(* A request to which nothing happens, and one that is answered, stay what *)
(* the invariant says of them.                                             *)
LEMMA RequestsKept ==
  ASSUME TypeOK, RequestsInv,
         UNCHANGED <<messagesCounter, seconds, sends>>,
         \A g \in Groups : Members(g) \subseteq Members(g)',
         \A q \in Sends' : q \in Sends /\ net'[q].group = net[q].group,
         pending' # NoRequest => Is(pending, "poll", "parked")',
         \A q \in Requests : net'[q].stage = "parked" => q = pending',
         \A q \in Requests : net'[q].kind \in {"poll", "contents"} /\ net'[q].ids # {} =>
           \/ net[q].kind \in {"poll", "contents"} /\ net'[q].ids = net[q].ids
           \/ \E g \in Groups : net'[q].ids \subseteq Members(g)
  PROVE  RequestsInv'
  <1>1. messagesCounter' + Cardinality(Sends') <= MaxMsgs
    BY FewerSends
  <1>2. seconds' <= sends'
    BY DEF RequestsInv
  <1>3. \A q \in Sends' : net'[q].group \in Groups
    BY DEF RequestsInv
  <1>4. ASSUME NEW q \in Requests, net'[q].kind \in {"poll", "contents"}, net'[q].ids # {}
        PROVE  \E g \in Groups : net'[q].ids \subseteq Members(g)'
    <2>1. \E g \in Groups : net'[q].ids \subseteq Members(g)
      BY <1>4 DEF RequestsInv
    <2> QED
      BY <2>1
  <1> QED
    BY <1>1, <1>2, <1>3, <1>4 DEF RequestsInv

LEMMA RowsKept ==
  ASSUME TypeOK, RowsInv, rows' = rows, \A g \in Groups : Members(g) \subseteq Members(g)'
  PROVE  RowsInv'
  <1>1. \A i \in DOMAIN rows : rows[i].group \in Groups
    <2>1. rows \in Seq(TableRows)
      BY DEF TypeOK, TableRows
    <2>2. \A i \in DOMAIN rows : rows[i] \in TableRows
      BY <2>1
    <2> QED
      BY <2>2 DEF TableRows
  <1>2. ASSUME NEW i \in DOMAIN rows, rows[i].msg # 0
        PROVE  rows[i].msg \in Members(rows[i].group)'
    <2>1. rows[i].msg \in Members(rows[i].group)
      BY <1>2 DEF RowsInv
    <2>2. \A g \in Groups : rows[i].group = g => rows[i].msg \in Members(g)'
      BY <2>1
    <2>3. PICK g \in Groups : g = rows[i].group
      BY <1>1
    <2>4. rows'[i].group = g
      BY <2>3
    <2>5. rows[i].msg \in Members(g)'
      BY <2>2, <2>3
    <2> QED
      BY <2>4, <2>5 DEF Members
  <1> QED
    BY <1>2 DEF RowsInv

-----------------------------------------------------------------------------
(* Types, lists, rows and requests: BaseInv, one action after the other.   *)

LEMMA BaseInit == Init => BaseInv
  <1> SUFFICES ASSUME Init
               PROVE  BaseInv
    OBVIOUS
  <1> USE ConversationAssumption
  <1>1. net \in [Requests -> Calls] /\ \A r \in Requests : net[r] = NoCall \/ net[r] = Poll(NoGroup, 0)
    BY CallsAre DEF Init
  <1>2. \A g \in Groups : messages[g] = << >>
    BY DEF Init
  <1>3. TypeOK
    <2>1. messages \in [Groups -> Seq(Ids)]
      BY DEF Init
    <2>2. rows \in Seq(TableRows)
      BY EmptySeq DEF Init
    <2>3. /\ messagesCounter \in 0 .. MaxMsgs
          /\ content \subseteq Ids /\ mine \subseteq Ids
          /\ waiting \subseteq Groups /\ groupmembers \subseteq Groups \ Owned
          /\ pending \in Requests \cup {NoRequest}
          /\ group_ \in Groups \cup {NoGroup}
          /\ seconds \in 0 .. MaxSends /\ sends \in 0 .. MaxSends /\ shows \in 0 .. MaxShows
          /\ broken \in BOOLEAN /\ faults \subseteq Faults
      <3>1. /\ messagesCounter = 0 /\ seconds = 0 /\ sends = 0 /\ shows = 0
            /\ content = {} /\ mine = {} /\ waiting = {} /\ groupmembers = Groups \ Owned
            /\ pending = NoRequest /\ group_ = NoGroup /\ broken = FALSE /\ faults = {}
        BY DEF Init
      <3>2. broken \in BOOLEAN
        BY <3>1, Zenon
      <3>3. /\ messagesCounter \in 0 .. MaxMsgs
            /\ seconds \in 0 .. MaxSends /\ sends \in 0 .. MaxSends /\ shows \in 0 .. MaxShows
        BY <3>1
      <3>4. /\ content \subseteq Ids /\ mine \subseteq Ids
            /\ waiting \subseteq Groups /\ groupmembers \subseteq Groups \ Owned
            /\ pending \in Requests \cup {NoRequest}
            /\ group_ \in Groups \cup {NoGroup} /\ faults \subseteq Faults
        BY <3>1
      <3> QED
        BY <3>2, <3>3, <3>4
    <2> QED
      BY <1>1, <2>1, <2>2, <2>3 DEF TypeOK, TableRows, Calls
  <1>4. ListsInv /\ RowsInv
    BY <1>2 DEF ListsInv, RowsInv, Init
  <1>5. RequestsInv
    <2>1. Sends = {}
      BY <1>1, CallsAre DEF Sends, Is
    <2>2. messagesCounter + Cardinality(Sends) <= MaxMsgs
      BY <2>1, FS_EmptySet DEF Init
    <2> QED
      BY <1>1, <2>1, <2>2, CallsAre DEF RequestsInv, Init
  <1> QED
    BY <1>3, <1>4, <1>5 DEF BaseInv

(* Only requests change. *)
LEMMA BaseOfRequests ==
  ASSUME BaseInv, TypeOK', RequestsInv',
         UNCHANGED <<messagesCounter, messages, mine, rows>>
  PROVE  BaseInv'
  <1>1. \A g \in Groups : Members(g) \subseteq Members(g)'
    BY DEF Members
  <1>2. ListsInv' /\ RowsInv'
    BY <1>1, RowsKept DEF BaseInv, ListsInv
  <1> QED
    BY <1>2 DEF BaseInv

LEMMA UnreadAre ==
  ASSUME TypeOK, ListsInv, NEW g \in Groups, NEW n \in Nat
  PROVE  /\ Unread(g, n) \subseteq Members(g)
         /\ Unread(g, n) = Batch(g, n, Len(messages[g]))
  <1> DEFINE s == messages[g]
  <1>1. /\ s \in Seq(Ids) /\ Len(s) \in Nat /\ DOMAIN s = 1 .. Len(s)
    BY DEF TypeOK
  <1>2. Unread(g, n) = {s[i] : i \in 1 .. Len(s) - n}
    BY DEF Unread
  <1>3. Batch(g, n, Len(messages[g])) = {s[Len(s) + 1 - j] : j \in n + 1 .. Len(s)}
    BY DEF Batch, Place
  <1>4. Members(g) = {s[i] : i \in DOMAIN s}
    BY DEF Members, ToSet
  <1> HIDE DEF s
  <1>5. Unread(g, n) \subseteq Members(g)
    <2>1. \A i \in 1 .. Len(s) - n : i \in DOMAIN s
      BY <1>1
    <2> QED
      BY <1>2, <1>4, <2>1
  <1>6. ASSUME NEW i \in 1 .. Len(s) - n
        PROVE  \E j \in n + 1 .. Len(s) : s[i] = s[Len(s) + 1 - j]
    <2>1. Len(s) + 1 - i \in n + 1 .. Len(s) /\ Len(s) + 1 - (Len(s) + 1 - i) = i
      BY <1>1
    <2> QED
      BY <2>1
  <1>7. ASSUME NEW j \in n + 1 .. Len(s)
        PROVE  \E i \in 1 .. Len(s) - n : s[i] = s[Len(s) + 1 - j]
    <2>1. Len(s) + 1 - j \in 1 .. Len(s) - n
      BY <1>1
    <2> QED
      BY <2>1
  <1>8. Unread(g, n) = Batch(g, n, Len(messages[g]))
    <2>1. {s[i] : i \in 1 .. Len(s) - n} = {s[Len(s) + 1 - j] : j \in n + 1 .. Len(s)}
      <3>1. \A x \in {s[i] : i \in 1 .. Len(s) - n} : x \in {s[Len(s) + 1 - j] : j \in n + 1 .. Len(s)}
        BY <1>6
      <3>2. \A x \in {s[Len(s) + 1 - j] : j \in n + 1 .. Len(s)} : x \in {s[i] : i \in 1 .. Len(s) - n}
        BY <1>7
      <3> QED
        BY <3>1, <3>2, Zenon
    <2> QED
      BY <1>2, <1>3, <2>1 DEF s
  <1> QED
    BY <1>5, <1>8

LEMMA NewsAre ==
  ASSUME BaseInv, NEW r \in Requests
  PROVE  /\ News(r) \in SUBSET Ids
         /\ News(r) # {} => net[r].group \in Groups /\ News(r) \subseteq Members(net[r].group)
  <1>1. net[r].group \in Groups \cup {NoGroup} /\ net[r].n \in Nat
    BY DEF BaseInv, TypeOK
  <1>2. CASE net[r].group = NoGroup
    BY <1>2 DEF News
  <1>3. CASE net[r].group # NoGroup
    BY <1>1, <1>3, UnreadAre, PlacesAre DEF News, BaseInv
  <1> QED
    BY <1>2, <1>3

LEMMA PollingBase ==
  ASSUME BaseInv, NEW r \in Requests, PollingHandle(r)
  PROVE  BaseInv'
  <1>1. /\ TypeOK /\ RequestsInv /\ net \in [Requests -> Calls]
        /\ net[r].kind = "poll" /\ net[r].stage = "sent"
        /\ net[r].group \in Groups \cup {NoGroup}
        /\ UNCHANGED <<messagesCounter, messages, content, groupmembers, client, history>>
    BY DEF BaseInv, PollingHandle, Is, TypeOK, Calls
  <1>2. CASE /\ News(r) # {}
             /\ net' = [Answered({r}, News(r)) EXCEPT ![r].n = 0]
             /\ UNCHANGED <<waiting, pending>>
    <2> DEFINE f == Answered({r}, News(r))
    <2>1. /\ f \in [Requests -> Calls] /\ f[r].kind = "poll" /\ f[r].stage = "answered"
          /\ f[r].ids = News(r)
          /\ \A q \in Requests \ {r} : f[q] = net[q]
      BY <1>1, NewsAre, AnsweredIs
    <2> HIDE DEF f
    <2>2. [f[r] EXCEPT !.n = 0] \in Calls
      BY <2>1 DEF Calls
    <2>3. net' = [f EXCEPT ![r] = [f[r] EXCEPT !.n = 0]]
      BY <1>2 DEF f
    <2>4. /\ net' \in [Requests -> Calls]
          /\ net'[r].kind = "poll" /\ net'[r].stage = "answered" /\ net'[r].ids = News(r)
          /\ \A q \in Requests \ {r} : net'[q] = net[q]
      BY <2>1, <2>2, <2>3 DEF Calls
    <2>5. TypeOK'
      BY <1>1, <1>2, <2>4 DEF TypeOK, Calls, client, history
    <2>6. RequestsInv'
      <3>1. \A q \in Sends' : q \in Sends /\ net'[q].group = net[q].group
        BY <2>4 DEF Sends, Is
      <3>2. pending' # NoRequest => Is(pending, "poll", "parked")'
        BY <1>1, <1>2, <2>4 DEF RequestsInv, Is, TypeOK
      <3>3. \A q \in Requests : net'[q].stage = "parked" => q = pending'
        BY <1>2, <2>4 DEF BaseInv, RequestsInv
      <3>4. \E g \in Groups : net'[r].ids \subseteq Members(g)
        BY <1>2, <2>4, NewsAre
      <3>5. \A g \in Groups : Members(g) \subseteq Members(g)'
        BY <1>1 DEF Members
      <3>6. UNCHANGED <<messagesCounter, seconds, sends>>
        BY <1>1 DEF client, history
      <3> QED
        BY <1>1, <2>4, <3>1, <3>2, <3>3, <3>4, <3>5, <3>6, RequestsKept
    <2> QED
      BY <1>1, <2>5, <2>6, BaseOfRequests DEF client, history
  <1>3. CASE /\ News(r) = {}
             /\ waiting' = waiting \cup ({net[r].group} \ {NoGroup})
             /\ net' = [Answered(Parked, {}) EXCEPT ![r].stage = "parked", ![r].n = 0]
             /\ pending' = r
    <2> DEFINE f == Answered(Parked, {})
    <2>1. /\ f \in [Requests -> Calls]
          /\ \A q \in Parked \cap Requests :
                f[q].stage = "answered" /\ f[q].ids = {} /\ f[q].kind = net[q].kind
          /\ \A q \in Requests \ Parked : f[q] = net[q]
      BY <1>1, AnsweredIs
    <2> HIDE DEF f
    <2>2. r \notin Parked
      BY <1>1 DEF Parked, RequestsInv, Is
    <2>3. f[r] = net[r]
      BY <2>1, <2>2
    <2>4. /\ net' \in [Requests -> Calls]
          /\ net'[r].kind = "poll" /\ net'[r].stage = "parked" /\ net'[r].ids = net[r].ids
          /\ \A q \in Requests \ {r} : net'[q] = f[q]
      <3>1. net' = [f EXCEPT ![r] = [[f[r] EXCEPT !.stage = "parked"] EXCEPT !.n = 0]]
        BY <1>3, <2>1 DEF f
      <3>2. [[f[r] EXCEPT !.stage = "parked"] EXCEPT !.n = 0] \in Calls
        <4>1. \A c \in Calls : [c EXCEPT !.stage = "parked"] \in Calls
          BY DEF Calls
        <4>2. \A c \in Calls : [c EXCEPT !.n = 0] \in Calls
          BY DEF Calls
        <4> QED
          BY <2>1, <4>1, <4>2
      <3> QED
        BY <1>1, <2>1, <2>3, <3>1, <3>2 DEF Calls
    <2>5. TypeOK'
      BY <1>1, <1>3, <2>4 DEF TypeOK, Calls, client, history
    <2>6. RequestsInv'
      <3>1. \A q \in Sends' : q \in Sends /\ net'[q].group = net[q].group
        BY <2>1, <2>4 DEF Sends, Is
      <3>2. Is(pending, "poll", "parked")'
        BY <1>3, <2>4 DEF Is
      <3>3. \A q \in Requests : net'[q].stage = "parked" => q = pending'
        <4> SUFFICES ASSUME NEW q \in Requests, q # r, net'[q].stage = "parked"
                     PROVE  FALSE
          BY <1>3
        <4>1. f[q].stage = "parked"
          BY <2>4
        <4>2. q \notin Parked
          BY <2>1, <4>1
        <4>3. net[q].stage = "parked"
          BY <2>1, <4>1, <4>2
        <4>4. q = pending
          BY <1>1, <4>3 DEF RequestsInv
        <4> QED
          BY <4>2, <4>4, ConversationAssumption DEF Parked
      <3>4. \A q \in Requests : net'[q].kind \in {"poll", "contents"} /\ net'[q].ids # {} =>
               net[q].kind \in {"poll", "contents"} /\ net'[q].ids = net[q].ids
        BY <1>1, <2>1, <2>4
      <3>5. \A g \in Groups : Members(g) \subseteq Members(g)'
        BY <1>1 DEF Members
      <3>6. UNCHANGED <<messagesCounter, seconds, sends>>
        BY <1>1 DEF client, history
      <3> QED
        BY <1>1, <3>1, <3>2, <3>3, <3>4, <3>5, <3>6, RequestsKept
    <2> QED
      BY <1>1, <2>5, <2>6, BaseOfRequests DEF client, history
  <1> QED
    BY <1>2, <1>3 DEF PollingHandle

(* Some requests are answered and nothing else is sent. *)
LEMMA AnsweredKeeps ==
  ASSUME BaseInv, NEW R \in SUBSET Requests, NEW ids \in SUBSET Ids, net' = Answered(R, ids),
         UNCHANGED <<seconds, sends>>,
         \A g \in Groups : Members(g) \subseteq Members(g)',
         ids = {} \/ \E g \in Groups : ids \subseteq Members(g)',
         pending' = IF pending \in R THEN NoRequest ELSE pending
  PROVE  /\ net' \in [Requests -> Calls]
         /\ Sends' = Sends \ R
         /\ \A q \in Sends' : net'[q] = net[q]
         /\ messagesCounter' + Cardinality(Sends') <= MaxMsgs => RequestsInv'
  <1>1. TypeOK /\ RequestsInv /\ pending \in Requests \cup {NoRequest}
    BY DEF BaseInv, TypeOK
  <1>2. /\ net' \in [Requests -> Calls]
        /\ \A q \in Requests : net'[q].kind = net[q].kind
        /\ \A q \in R : net'[q].stage = "answered" /\ net'[q].ids = ids
        /\ \A q \in Requests \ R : net'[q] = net[q]
    BY <1>1, AnsweredIs
  <1>3. Sends' = Sends \ R /\ \A q \in Sends' : net'[q] = net[q]
    BY <1>2 DEF Sends, Is
  <1>4. \A q \in Sends' : net'[q].group \in Groups
    BY <1>1, <1>3 DEF RequestsInv
  <1>5. pending' # NoRequest => Is(pending, "poll", "parked")'
    BY <1>1, <1>2 DEF RequestsInv, Is
  <1>6. ASSUME NEW q \in Requests, net'[q].stage = "parked"
        PROVE  q = pending'
    BY <1>1, <1>2, <1>6 DEF RequestsInv
  <1>7. ASSUME NEW q \in Requests, net'[q].kind \in {"poll", "contents"}, net'[q].ids # {}
        PROVE  \E g \in Groups : net'[q].ids \subseteq Members(g)'
    <2>1. CASE q \in R
      BY <1>2, <1>7, <2>1
    <2>2. CASE q \notin R
      <3>1. PICK g \in Groups : net[q].ids \subseteq Members(g)
        BY <1>1, <1>2, <1>7, <2>2 DEF RequestsInv
      <3> QED
        BY <1>2, <2>2, <3>1
    <2> QED
      BY <2>1, <2>2
  <1>8. seconds' <= sends'
    BY <1>1 DEF RequestsInv
  <1> QED
    BY <1>2, <1>3, <1>4, <1>5, <1>6, <1>7, <1>8 DEF RequestsInv

(* ... with no message listed. *)
LEMMA BaseAnswered ==
  ASSUME BaseInv, NEW R \in SUBSET Requests, NEW ids \in SUBSET Ids, net' = Answered(R, ids),
         ids = {} \/ \E g \in Groups : ids \subseteq Members(g),
         pending' = IF pending \in R THEN NoRequest ELSE pending,
         UNCHANGED <<messagesCounter, messages, content, waiting, client, mine, shows, sends>>,
         groupmembers' \subseteq Groups \ Owned, broken' \in BOOLEAN, faults' \subseteq Faults
  PROVE  BaseInv'
  <1>1. /\ \A g \in Groups : Members(g)' = Members(g)
        /\ UNCHANGED <<seconds, sends, rows, messages, mine, messagesCounter, group_>>
    BY DEF Members, client
  <1>2. /\ net' \in [Requests -> Calls]
        /\ Sends' \subseteq Sends
        /\ messagesCounter' + Cardinality(Sends') <= MaxMsgs => RequestsInv'
    BY <1>1, AnsweredKeeps
  <1>3. TypeOK /\ RequestsInv
    BY DEF BaseInv
  <1>4. RequestsInv'
    BY <1>1, <1>2, <1>3, FewerSends
  <1>5. TypeOK'
    <2>1. pending' \in Requests \cup {NoRequest}
      BY <1>3 DEF TypeOK
    <2> QED
      BY <1>1, <1>2, <1>3, <2>1 DEF TypeOK, Calls
  <1> QED
    BY <1>1, <1>4, <1>5, BaseOfRequests

LEMMA FaultsAre ==
  ASSUME TypeOK, NEW f \in Faults, NEW holds \in BOOLEAN
  PROVE  /\ faults \cup Fault(f, holds) \subseteq Faults
         /\ faults \subseteq Faults
         /\ Fault(f, holds) \subseteq Faults
         /\ faults \cup Fault(f, holds) = {} => faults = {} /\ ~ holds
  <1>1. faults \subseteq Faults
    BY DEF TypeOK
  <1>2. Fault(f, holds) \subseteq {f} /\ (Fault(f, holds) = {} => ~ holds)
    BY Zenon DEF Fault
  <1> QED
    BY <1>1, <1>2

LEMMA ContentBase ==
  ASSUME BaseInv, NEW r \in Requests, MessageContentHandle(r)
  PROVE  BaseInv'
  <1>1. /\ TypeOK /\ RequestsInv /\ net[r] \in Calls
        /\ net[r].kind = "contents" /\ net[r].stage = "sent"
    BY DEF BaseInv, MessageContentHandle, Is, TypeOK, Calls
  <1> DEFINE ids == Readable(net[r].ids)
  <1>2. ids \subseteq net[r].ids
    BY DEF Readable
  <1>3. ids \in SUBSET Ids
    BY <1>1, <1>2 DEF Calls
  <1>4. ids = {} \/ \E g \in Groups : ids \subseteq Members(g)
    <2>1. CASE net[r].ids = {}
      BY <1>2, <2>1
    <2>2. CASE net[r].ids # {}
      <3>1. PICK g \in Groups : net[r].ids \subseteq Members(g)
        BY <1>1, <2>2 DEF RequestsInv
      <3> QED
        BY <1>2, <3>1
    <2> QED
      BY <2>1, <2>2
  <1>5. pending \notin {r}
    BY <1>1, ConversationAssumption DEF RequestsInv, Is
  <1>6. broken' \in BOOLEAN
    <2>1. broken \in BOOLEAN
      BY <1>1 DEF TypeOK
    <2> QED
      BY <2>1, Zenon DEF MessageContentHandle
  <1>7. /\ net' = Answered({r}, ids)
        /\ UNCHANGED <<server, client, mine, shows, sends, faults>>
    BY DEF MessageContentHandle
  <1> HIDE DEF ids
  <1>8. /\ pending' = IF pending \in {r} THEN NoRequest ELSE pending
        /\ UNCHANGED <<messagesCounter, messages, content, waiting, client, mine, shows, sends>>
    BY <1>5, <1>7 DEF server
  <1>9. groupmembers' \subseteq Groups \ Owned /\ faults' \subseteq Faults
    BY <1>1, <1>7 DEF TypeOK, server
  <1> QED
    BY <1>3, <1>4, <1>6, <1>7, <1>8, <1>9, BaseAnswered

(* The failures: nothing is listed, what fails is answered with nothing.   *)
LEMMA LostIs ==
  ASSUME TypeOK, NEW R \in SUBSET Requests, Lost(R)
  PROVE  /\ net' = Answered(R, {}) /\ pending' = IF pending \in R THEN NoRequest ELSE pending
         /\ broken' \in BOOLEAN /\ faults' \subseteq Faults
         /\ faults' = {} => faults = {} /\ R \cap Sends = {}
  <1> DEFINE holds == \E r \in R : Is(r, "send", "sent")
  <1>1. /\ net' = Answered(R, {}) /\ pending' = IF pending \in R THEN NoRequest ELSE pending
        /\ faults' = faults \cup Fault("crossed", holds)
    BY DEF Lost
  <1>2. broken' \in BOOLEAN
    <2>1. broken \in BOOLEAN
      BY DEF TypeOK
    <2> QED
      BY <2>1, Zenon DEF Lost
  <1>3. holds \in BOOLEAN /\ (~ holds => R \cap Sends = {})
    BY Zenon DEF Sends
  <1>4. "crossed" \in Faults
    BY DEF Faults
  <1> HIDE DEF holds
  <1>5. faults' \subseteq Faults /\ (faults' = {} => faults = {} /\ ~ holds)
    BY <1>1, <1>3, <1>4, FaultsAre
  <1> QED
    BY <1>1, <1>2, <1>3, <1>5

LEMMA LostBase ==
  ASSUME BaseInv, NEW R \in SUBSET Requests, Lost(R),
         UNCHANGED <<messagesCounter, messages, content, waiting, groupmembers, client, mine, shows, sends>>
  PROVE  BaseInv'
  <1>1. /\ net' = Answered(R, {}) /\ pending' = IF pending \in R THEN NoRequest ELSE pending
        /\ broken' \in BOOLEAN /\ faults' \subseteq Faults
    BY LostIs DEF BaseInv
  <1>2. groupmembers' \subseteq Groups \ Owned
    BY DEF BaseInv, TypeOK
  <1> QED
    BY <1>1, <1>2, BaseAnswered

LEMMA ChangeBase ==
  ASSUME BaseInv, NEW g \in Groups, NEW members \in SUBSET (Groups \ Owned), Change(g, members)
  PROVE  BaseInv'
  <1> DEFINE told == IF g \in members THEN Parked ELSE {}
  <1>1. TypeOK /\ pending \in Requests \cup {NoRequest} /\ broken \in BOOLEAN /\ faults \subseteq Faults
    BY DEF BaseInv, TypeOK
  <1>2. /\ net' = Answered(told, {})
        /\ pending' = IF told = {} THEN pending ELSE NoRequest
        /\ groupmembers' = members
        /\ UNCHANGED <<messagesCounter, messages, content, waiting, client, mine, shows, sends, faults>>
    BY DEF Change
  <1>3. told \in SUBSET Requests /\ (told = {} \/ told = {pending})
    BY <1>1 DEF Parked
  <1>4. told = {} => pending \notin told
    OBVIOUS
  <1>5. broken' \in BOOLEAN
    BY <1>1, Zenon DEF Change
  <1> HIDE DEF told
  <1>6. pending' = IF pending \in told THEN NoRequest ELSE pending
    BY <1>2, <1>3, <1>4
  <1>7. faults' \subseteq Faults /\ groupmembers' \subseteq Groups \ Owned
    BY <1>1, <1>2
  <1> QED
    BY <1>2, <1>3, <1>5, <1>6, <1>7, BaseAnswered

LEMMA UpdatesBase ==
  ASSUME BaseInv, NEW r \in Requests, UpdatesReply(r)
  PROVE  BaseInv'
  <1> DEFINE next == IF net[r].ids = {} THEN NoCall ELSE Contents(net[r].ids)
  <1>1. /\ TypeOK /\ RequestsInv /\ net \in [Requests -> Calls] /\ net[r] \in Calls
        /\ net[r].kind = "poll" /\ net[r].stage = "answered"
        /\ net' = [net EXCEPT ![r] = next]
        /\ UNCHANGED <<messagesCounter, messages, content, waiting, groupmembers, pending,
                       group_, rows, seconds, mine, shows, sends, broken, faults>>
    BY DEF BaseInv, UpdatesReply, Is, TypeOK, Calls, server, client, history
  <1>2. /\ next \in Calls /\ next.kind \in {"none", "contents"} /\ next.stage # "parked"
        /\ next.ids = net[r].ids
    <2>1. net[r].ids \in SUBSET Ids
      BY <1>1 DEF Calls
    <2> QED
      BY <2>1, CallsAre
  <1> HIDE DEF next
  <1>3. /\ net' \in [Requests -> Calls] /\ net'[r] = next
        /\ \A q \in Requests \ {r} : net'[q] = net[q]
    BY <1>1, <1>2
  <1>4. TypeOK'
    BY <1>1, <1>3 DEF TypeOK, Calls
  <1>5. RequestsInv'
    <2>1. \A q \in Sends' : q \in Sends /\ net'[q].group = net[q].group
      BY <1>2, <1>3 DEF Sends, Is
    <2>2. pending' # NoRequest => Is(pending, "poll", "parked")'
      BY <1>1, <1>3 DEF RequestsInv, Is, TypeOK
    <2>3. \A q \in Requests : net'[q].stage = "parked" => q = pending'
      BY <1>1, <1>2, <1>3 DEF RequestsInv
    <2>4. \A q \in Requests : net'[q].kind \in {"poll", "contents"} /\ net'[q].ids # {} =>
             net[q].kind \in {"poll", "contents"} /\ net'[q].ids = net[q].ids
      BY <1>1, <1>2, <1>3
    <2>5. \A g \in Groups : Members(g) \subseteq Members(g)'
      BY <1>1 DEF Members
    <2> QED
      BY <1>1, <2>1, <2>2, <2>3, <2>4, <2>5, RequestsKept
  <1> QED
    BY <1>1, <1>4, <1>5, BaseOfRequests

(* A batch that has come, if not empty, is of the one group that lists it. *)
LEMMA BatchGroup ==
  ASSUME BaseInv, NEW r \in Requests, net[r].kind \in {"poll", "contents"}, net[r].ids # {}
  PROVE  /\ GroupOf(CHOOSE m \in net[r].ids : TRUE) \in Groups
         /\ net[r].ids \in SUBSET Members(GroupOf(CHOOSE m \in net[r].ids : TRUE))
  <1>1. PICK g \in Groups : net[r].ids \subseteq Members(g)
    BY DEF BaseInv, RequestsInv
  <1>2. (CHOOSE m \in net[r].ids : TRUE) \in Members(g)
    BY <1>1
  <1>3. GroupOf(CHOOSE m \in net[r].ids : TRUE) = g
    BY <1>2, GroupOfIs DEF BaseInv
  <1> QED
    BY <1>1, <1>3

(* The rows that a batch leaves are of messages that their group lists. *)
LEMMA StoredRows ==
  ASSUME BaseInv, NEW g \in Groups, NEW ids \in SUBSET Members(g), rows' \in Stored(ids),
         UNCHANGED messages
  PROVE  rows' \in Seq(TableRows) /\ RowsInv'
  <1> DEFINE new == {m \in ids : <<"id", m>> \notin Keys}
             add == Added(Cardinality(new))
  <1>1. /\ rows' \in Seq(TableRows)
        /\ DOMAIN rows' = DOMAIN rows \cup add
        /\ \A i \in DOMAIN rows : rows'[i] = rows[i]
        /\ \A i \in add : \E m \in new : rows'[i] = Row(g, m, <<"id", m>>)
    <2>1. Extended(rows', g, new)
      BY StoredIs DEF BaseInv
    <2> HIDE DEF new
    <2> QED
      BY <2>1 DEF Extended
  <1> HIDE DEF new, add
  <1>2. \A h : Members(h)' = Members(h)
    BY DEF Members
  <1>3. ASSUME NEW i \in DOMAIN rows'
        PROVE  /\ rows'[i].msg # 0 => rows'[i].msg \in Members(rows'[i].group)
               /\ \A m \in Ids : rows'[i].trueid = <<"id", m>> => rows'[i].msg = m
    <2>1. CASE i \in DOMAIN rows
      BY <1>1, <2>1 DEF BaseInv, RowsInv
    <2>2. CASE i \in add
      <3>1. PICK m \in new : rows'[i] = Row(g, m, <<"id", m>>)
        BY <1>1, <2>2
      <3> QED
        BY <3>1 DEF Row, new
    <2> QED
      BY <1>1, <2>1, <2>2
  <1>4. RowsInv'
    BY <1>2, <1>3 DEF RowsInv
  <1> QED
    BY <1>1, <1>4

LEMMA ContentsBase ==
  ASSUME BaseInv, NEW r \in Requests, ContentsReply(r)
  PROVE  BaseInv'
  <1> DEFINE ids == net[r].ids
             g == GroupOf(CHOOSE m \in ids : TRUE)
  <1>1. /\ TypeOK /\ ListsInv /\ RequestsInv /\ net \in [Requests -> Calls] /\ net[r] \in Calls
        /\ net[r].kind = "contents" /\ net[r].stage = "answered"
        /\ UNCHANGED <<messagesCounter, messages, content, waiting, groupmembers, pending,
                       group_, seconds, mine, shows, sends, broken>>
    BY DEF BaseInv, ContentsReply, Is, TypeOK, Calls, server
  <1>2. PICK next \in Calls : /\ net' = [net EXCEPT ![r] = next]
                              /\ next.kind \in {"none", "poll"} /\ next.stage # "parked"
                              /\ next.ids = {}
    <2>1. CASE ids = {}
      BY <2>1, CallsAre DEF ContentsReply
    <2>2. CASE ids # {}
      <3>1. g \in Groups
        BY <1>1, <2>2, BatchGroup
      <3>2. NextCount(ids) \in Nat
        <4>1. ids \in SUBSET Ids /\ IsFiniteSet(Ids)
          BY <1>1, ConversationAssumption, FS_Interval DEF Calls, Ids
        <4>2. Cardinality(ids) \in Nat
          BY <4>1, FS_Subset, FS_CardinalityType
        <4>3. RowCount(group_) \in Nat
          BY <1>1, RowCountIs
        <4> QED
          BY <4>2, <4>3 DEF NextCount
      <3>3. net' = [net EXCEPT ![r] = Poll(g, NextCount(ids))]
        BY <2>2 DEF ContentsReply
      <3> HIDE DEF g, ids
      <3> QED
        BY <3>1, <3>2, <3>3, CallsAre
    <2> QED
      BY <2>1, <2>2
  <1>3. rows' \in Seq(TableRows) /\ RowsInv'
    <2>1. CASE ids = {}
      <3>1. rows' = rows
        BY <2>1 DEF ContentsReply
      <3>2. \A h \in Groups : Members(h) \subseteq Members(h)'
        BY <1>1 DEF Members
      <3>3. rows \in Seq(TableRows)
        BY <1>1 DEF TypeOK, TableRows
      <3> QED
        BY <1>1, <3>1, <3>2, <3>3, RowsKept DEF BaseInv
    <2>2. CASE ids # {}
      <3>1. g \in Groups /\ ids \in SUBSET Members(g)
        BY <1>1, <2>2, BatchGroup
      <3>2. rows' \in Stored(ids)
        BY <2>2 DEF ContentsReply
      <3> HIDE DEF g, ids
      <3> QED
        BY <1>1, <3>1, <3>2, StoredRows
    <2> QED
      BY <2>1, <2>2
  <1>4. faults' \subseteq Faults
    <2>1. faults \subseteq Faults
      BY <1>1 DEF TypeOK
    <2>2. \A f \in Faults, holds \in BOOLEAN : Fault(f, holds) \subseteq Faults
      BY <1>1, FaultsAre
    <2>3. CASE ids = {}
      BY <2>1, <2>3 DEF ContentsReply
    <2>4. CASE ids # {}
      <3>1. faults' = faults \cup Fault("elsewhere", g # group_)
                             \cup Fault("repeated", \E i \in DOMAIN rows : rows[i].msg \in ids)
                             \cup Fault("crossed", UnderWay("send", g))
        BY <2>4 DEF ContentsReply
      <3> HIDE DEF g, ids
      <3>2. /\ Fault("elsewhere", g # group_) \subseteq Faults
            /\ Fault("repeated", \E i \in DOMAIN rows : rows[i].msg \in ids) \subseteq Faults
            /\ Fault("crossed", UnderWay("send", g)) \subseteq Faults
        BY Zenon DEF Fault, Faults
      <3> QED
        BY <2>1, <3>1, <3>2
    <2> QED
      BY <2>3, <2>4
  <1> HIDE DEF g, ids
  <1>5. /\ net' \in [Requests -> Calls] /\ net'[r] = next
        /\ \A q \in Requests \ {r} : net'[q] = net[q]
    BY <1>1, <1>2
  <1>6. TypeOK'
    BY <1>1, <1>3, <1>4, <1>5 DEF TypeOK, Calls, TableRows
  <1>7. RequestsInv'
    <2>1. \A q \in Sends' : q \in Sends /\ net'[q].group = net[q].group
      BY <1>2, <1>5 DEF Sends, Is
    <2>2. pending' # NoRequest => Is(pending, "poll", "parked")'
      BY <1>1, <1>5 DEF RequestsInv, Is, TypeOK
    <2>3. \A q \in Requests : net'[q].stage = "parked" => q = pending'
      BY <1>1, <1>2, <1>5 DEF RequestsInv
    <2>4. \A q \in Requests : net'[q].kind \in {"poll", "contents"} /\ net'[q].ids # {} =>
             net[q].kind \in {"poll", "contents"} /\ net'[q].ids = net[q].ids
      BY <1>1, <1>2, <1>5
    <2>5. \A h \in Groups : Members(h) \subseteq Members(h)'
      BY <1>1 DEF Members
    <2> QED
      BY <1>1, <2>1, <2>2, <2>3, <2>4, <2>5, RequestsKept
  <1>8. ListsInv'
    BY <1>1 DEF ListsInv
  <1> QED
    BY <1>3, <1>6, <1>7, <1>8 DEF BaseInv

(* A row may get the id it has on the server; nothing else of it changes.  *)
LEMMA DeliveredRows ==
  ASSUME BaseInv, NEW r \in Requests, SendMessageReply(r)
  PROVE  /\ rows' \in Seq(TableRows) /\ DOMAIN rows' = DOMAIN rows
         /\ \A i \in DOMAIN rows :
               /\ rows'[i].group = rows[i].group /\ rows'[i].msg = rows[i].msg
               /\ rows'[i].trueid \in {rows[i].trueid, <<"uid", net[r].n>>}
  <1> DEFINE trueid == <<"uid", net[r].n>>
             named == [i \in DOMAIN rows |->
                          IF i \in net[r].ids /\ trueid \notin Keys
                          THEN [rows[i] EXCEPT !.trueid = trueid] ELSE rows[i]]
  <1>1. rows \in Seq(TableRows) /\ Len(rows) \in Nat /\ DOMAIN rows = 1 .. Len(rows)
    BY RowCountIs DEF BaseInv, TypeOK, TableRows
  <1>2. trueid \in {"time", "uid"} \X Nat
    BY DEF BaseInv, TypeOK
  <1>3. rows' = rows \/ rows' = named
    BY DEF SendMessageReply
  <1> HIDE DEF trueid
  <1>4. \A row \in TableRows : /\ [row EXCEPT !.trueid = trueid] \in TableRows
                               /\ [row EXCEPT !.trueid = trueid].group = row.group
                               /\ [row EXCEPT !.trueid = trueid].msg = row.msg
                               /\ [row EXCEPT !.trueid = trueid].trueid = trueid
    BY <1>2 DEF TableRows
  <1>5. \A i \in DOMAIN rows : rows[i] \in TableRows
    BY <1>1
  <1>6. /\ DOMAIN named = DOMAIN rows
        /\ \A i \in DOMAIN rows : /\ named[i] \in TableRows
                                  /\ named[i].group = rows[i].group /\ named[i].msg = rows[i].msg
                                  /\ named[i].trueid \in {rows[i].trueid, trueid}
    BY <1>4, <1>5
  <1>7. named \in Seq(TableRows)
    <2>1. named \in [1 .. Len(rows) -> TableRows]
      BY <1>1, <1>4, <1>5
    <2> HIDE DEF named
    <2> QED
      BY <1>1, <2>1
  <1> HIDE DEF named
  <1>8. CASE rows' = rows
    BY <1>1, <1>8
  <1>9. CASE rows' = named
    BY <1>6, <1>7, <1>9 DEF trueid
  <1> QED
    BY <1>3, <1>8, <1>9

LEMMA DeliveredBase ==
  ASSUME BaseInv, NEW r \in Requests, SendMessageReply(r)
  PROVE  BaseInv'
  <1>1. /\ TypeOK /\ ListsInv /\ RequestsInv /\ net \in [Requests -> Calls]
        /\ net[r].kind = "send" /\ net[r].stage = "answered"
        /\ net' = [net EXCEPT ![r] = NoCall]
        /\ UNCHANGED <<messagesCounter, messages, content, waiting, groupmembers, pending,
                       group_, seconds, mine, shows, sends, broken, faults>>
    BY DEF BaseInv, SendMessageReply, Is, TypeOK, Calls, server, history
  <1>2. /\ net' \in [Requests -> Calls] /\ net'[r] = NoCall
        /\ \A q \in Requests \ {r} : net'[q] = net[q]
    BY <1>1, CallsAre
  <1>3. /\ rows' \in Seq(TableRows) /\ DOMAIN rows' = DOMAIN rows
        /\ \A i \in DOMAIN rows :
              /\ rows'[i].group = rows[i].group /\ rows'[i].msg = rows[i].msg
              /\ rows'[i].trueid \in {rows[i].trueid, <<"uid", net[r].n>>}
    BY DeliveredRows
  <1>4. TypeOK'
    BY <1>1, <1>2, <1>3 DEF TypeOK, Calls, TableRows
  <1>5. RowsInv'
    <2>1. \A h : Members(h)' = Members(h)
      BY <1>1 DEF Members
    <2>2. \A i \in DOMAIN rows' : rows'[i].msg # 0 => rows'[i].msg \in Members(rows'[i].group)
      BY <1>3 DEF BaseInv, RowsInv
    <2>3. \A m \in Ids : <<"uid", net[r].n>> # <<"id", m>>
      OBVIOUS
    <2>4. \A i \in DOMAIN rows', m \in Ids : rows'[i].trueid = <<"id", m>> => rows'[i].msg = m
      BY <1>3, <2>3 DEF BaseInv, RowsInv
    <2> QED
      BY <2>1, <2>2, <2>4 DEF RowsInv
  <1>6. RequestsInv'
    <2>1. \A q \in Sends' : q \in Sends /\ net'[q].group = net[q].group
      BY <1>2, CallsAre DEF Sends, Is
    <2>2. pending' # NoRequest => Is(pending, "poll", "parked")'
      BY <1>1, <1>2 DEF RequestsInv, Is, TypeOK
    <2>3. \A q \in Requests : net'[q].stage = "parked" => q = pending'
      BY <1>1, <1>2, CallsAre DEF RequestsInv
    <2>4. \A q \in Requests : net'[q].kind \in {"poll", "contents"} /\ net'[q].ids # {} =>
             net[q].kind \in {"poll", "contents"} /\ net'[q].ids = net[q].ids
      BY <1>2, CallsAre
    <2>5. \A h \in Groups : Members(h) \subseteq Members(h)'
      BY <1>1 DEF Members
    <2> QED
      BY <1>1, <2>1, <2>2, <2>3, <2>4, <2>5, RequestsKept
  <1>7. ListsInv'
    BY <1>1 DEF ListsInv
  <1> QED
    BY <1>4, <1>5, <1>6, <1>7 DEF BaseInv

LEMMA ShowBase ==
  ASSUME BaseInv, NEW g \in Groups, ShowGroup(g)
  PROVE  BaseInv'
  <1> DEFINE r == NewRequest
  <1>1. /\ TypeOK /\ RequestsInv /\ net \in [Requests -> Calls]
        /\ r \in Requests /\ net[r].kind = "none"
        /\ net' = [net EXCEPT ![r] = Poll(g, RowCount(g))]
        /\ group_' = g /\ shows < MaxShows /\ shows' = shows + 1 /\ broken' = FALSE
        /\ faults' = faults \cup Fault("crossed", UnderWay("send", g))
        /\ UNCHANGED <<messagesCounter, messages, content, waiting, groupmembers, pending,
                       rows, seconds, mine, sends>>
    BY ANewRequest DEF BaseInv, ShowGroup, TypeOK, Calls, server
  <1> HIDE DEF r
  <1>2. Poll(g, RowCount(g)) \in Calls /\ Poll(g, RowCount(g)).kind = "poll"
        /\ Poll(g, RowCount(g)).stage = "sent" /\ Poll(g, RowCount(g)).ids = {}
    BY <1>1, RowCountIs, CallsAre
  <1>3. /\ net' \in [Requests -> Calls] /\ net'[r] = Poll(g, RowCount(g))
        /\ \A q \in Requests \ {r} : net'[q] = net[q]
    BY <1>1, <1>2
  <1>4. faults' \subseteq Faults
    <2>1. Fault("crossed", UnderWay("send", g)) \subseteq Faults
      BY Zenon DEF Fault, Faults
    <2> QED
      BY <1>1, <2>1 DEF TypeOK
  <1>5. TypeOK'
    <2>1. shows' \in 0 .. MaxShows
      BY <1>1, ConversationAssumption DEF TypeOK
    <2>2. broken' \in BOOLEAN
      BY <1>1, Zenon
    <2> QED
      BY <1>1, <1>3, <1>4, <2>1, <2>2 DEF TypeOK, Calls
  <1>6. RequestsInv'
    <2>1. \A q \in Sends' : q \in Sends /\ net'[q].group = net[q].group
      BY <1>2, <1>3 DEF Sends, Is
    <2>2. pending' # NoRequest => Is(pending, "poll", "parked")'
      BY <1>1, <1>3 DEF RequestsInv, Is, TypeOK
    <2>3. \A q \in Requests : net'[q].stage = "parked" => q = pending'
      BY <1>1, <1>2, <1>3 DEF RequestsInv
    <2>4. \A q \in Requests : net'[q].kind \in {"poll", "contents"} /\ net'[q].ids # {} =>
             net[q].kind \in {"poll", "contents"} /\ net'[q].ids = net[q].ids
      BY <1>2, <1>3
    <2>5. \A h \in Groups : Members(h) \subseteq Members(h)'
      BY <1>1 DEF Members
    <2> QED
      BY <1>1, <2>1, <2>2, <2>3, <2>4, <2>5, RequestsKept
  <1> QED
    BY <1>1, <1>5, <1>6, BaseOfRequests

(* What a message that the user sends leaves in the table. *)
LEMMA SentRows ==
  ASSUME BaseInv, NEW t \in {seconds, seconds + 1}, SendMessage(t)
  PROVE  /\ rows' \in Seq(TableRows) /\ RowsInv'
         /\ Shown' = Shown
         /\ \A h : h = group_ /\ <<"time", t>> \notin Keys => RowCount(h)' = RowCount(h) + 1
         /\ \A h : h # group_ => RowCount(h)' = RowCount(h)
  <1> DEFINE new == Row(group_, 0, <<"time", t>>)
             n == Len(rows) + 1
  <1>1. /\ rows \in Seq(TableRows) /\ Len(rows) \in Nat /\ DOMAIN rows = 1 .. Len(rows)
        /\ group_ \in Groups /\ t \in Nat
        /\ UNCHANGED messages
        /\ rows' = IF <<"time", t>> \notin Keys THEN Append(rows, new) ELSE rows
    BY RowCountIs DEF BaseInv, TypeOK, TableRows, SendMessage, server
  <1>2. \A h : Members(h)' = Members(h)
    BY <1>1 DEF Members
  <1>3. CASE <<"time", t>> \in Keys
    <2>1. rows' = rows
      BY <1>1, <1>3
    <2> QED
      BY <1>1, <1>2, <1>3, <2>1, RowsKept DEF BaseInv, Shown, RowCount, RowsOf
  <1>4. CASE <<"time", t>> \notin Keys
    <2>1. /\ new \in TableRows /\ new.group = group_ /\ new.msg = 0
          /\ \A m : new.trueid # <<"id", m>>
      <3>1. <<"time", t>> \in {"time", "uid"} \X Nat
        BY <1>1
      <3>2. \A m : <<"time", t>> # <<"id", m>>
        OBVIOUS
      <3> QED
        BY <1>1, <3>1, <3>2 DEF Row, TableRows
    <2>2. /\ rows' \in Seq(TableRows)
          /\ DOMAIN rows' = DOMAIN rows \cup {n} /\ n \notin DOMAIN rows
          /\ \A i \in DOMAIN rows : rows'[i] = rows[i]
          /\ rows'[n] = new
      <3> HIDE DEF new
      <3> QED
        BY <1>1, <1>4, <2>1
    <2> HIDE DEF n, new
    <2>3. RowsInv'
      BY <1>2, <2>1, <2>2 DEF BaseInv, RowsInv
    <2>4. Shown' = Shown
      BY <2>1, <2>2 DEF Shown
    <2>5. \A h : h = group_ => RowsOf(h)' = RowsOf(h) \cup {n} /\ n \notin RowsOf(h)
      BY <2>1, <2>2 DEF RowsOf
    <2>6. \A h : h # group_ => RowsOf(h)' = RowsOf(h)
      BY <2>1, <2>2 DEF RowsOf
    <2>7. ASSUME NEW h, h = group_
          PROVE  RowCount(h)' = RowCount(h) + 1
      <3>1. IsFiniteSet(RowsOf(h)) /\ n \notin RowsOf(h)
        BY <2>5, <2>7, RowCountIs DEF BaseInv
      <3>2. Cardinality(RowsOf(h) \cup {n}) = RowCount(h) + 1
        BY <3>1, OneMore DEF RowCount
      <3> QED
        BY <2>5, <2>7, <3>2, Zenon DEF RowCount
    <2> QED
      BY <2>2, <2>3, <2>4, <2>6, <2>7 DEF RowCount
  <1> QED
    BY <1>3, <1>4

LEMMA SendBase ==
  ASSUME BaseInv, NEW t \in {seconds, seconds + 1}, SendMessage(t)
  PROVE  BaseInv'
  <1> DEFINE r == NewRequest
             uid == IF <<"time", t>> \notin Keys THEN Len(rows) + 1 ELSE LastUid(group_)
             call == Send(group_, uid)
  <1>1. /\ TypeOK /\ ListsInv /\ RequestsInv /\ net \in [Requests -> Calls]
        /\ r \in Requests /\ net[r].kind = "none"
        /\ group_ \in Groups
        /\ net' = [net EXCEPT ![r] = call]
        /\ HasRoom
        /\ sends < MaxSends /\ sends' = sends + 1 /\ seconds' = t
        /\ t = seconds + 1 \/ (t = seconds /\ sends > 0)
        /\ UNCHANGED <<messagesCounter, messages, content, waiting, groupmembers, pending,
                       group_, mine, shows, broken>>
    BY ANewRequest DEF BaseInv, SendMessage, TypeOK, Calls, server
  <1>2. uid \in Nat
    <2>1. Len(rows) \in Nat /\ RowsOf(group_) \subseteq 1 .. Len(rows)
      BY <1>1, RowCountIs
    <2>2. RowsOf(group_) # {} => Max(RowsOf(group_)) \in RowsOf(group_)
      BY <2>1, GreatestExists
    <2> QED
      BY <2>1, <2>2 DEF LastUid
  <1> HIDE DEF r, uid
  <1>3. call \in Calls /\ call.kind = "send" /\ call.stage = "sent" /\ call.group = group_
    BY <1>1, <1>2, CallsAre
  <1> HIDE DEF call
  <1>4. /\ net' \in [Requests -> Calls] /\ net'[r] = call
        /\ \A q \in Requests \ {r} : net'[q] = net[q]
    BY <1>1, <1>3
  <1>5. /\ sends' \in 0 .. MaxSends /\ seconds' \in 0 .. MaxSends /\ seconds' <= sends'
    <2>1. seconds \in Nat /\ sends \in Nat /\ MaxSends \in Nat /\ seconds <= sends
      BY <1>1, ConversationAssumption DEF TypeOK, RequestsInv
    <2> QED
      BY <1>1, <2>1
  <1>6. faults' \subseteq Faults
    <2>1. /\ Fault("second", ~ (<<"time", t>> \notin Keys)) \subseteq Faults
          /\ Fault("crossed", UnderWay("poll", group_)) \subseteq Faults
      BY Zenon DEF Fault, Faults
    <2> QED
      BY <1>1, <2>1 DEF SendMessage, TypeOK
  <1>7. rows' \in Seq(TableRows) /\ RowsInv'
    BY SentRows
  <1>8. TypeOK'
    BY <1>1, <1>4, <1>5, <1>6, <1>7 DEF TypeOK, Calls, TableRows
  <1>9. ListsInv'
    BY <1>1 DEF ListsInv
  <1>10. RequestsInv'
    <2>1. Sends' = Sends \cup {r} /\ r \notin Sends
      BY <1>1, <1>3, <1>4 DEF Sends, Is
    <2>2. messagesCounter' + Cardinality(Sends') <= MaxMsgs
      <3>1. Sends \in SUBSET Requests
        BY DEF Sends
      <3>2. IsFiniteSet(Sends) /\ Cardinality(Sends) \in Nat
        BY <3>1, SendsAreFinite
      <3>3. Cardinality(Sends') = Cardinality(Sends) + 1
        BY <2>1, <3>2, OneMore
      <3>4. messagesCounter + Cardinality(Sends) < MaxMsgs
        BY <1>1 DEF HasRoom, Sends
      <3>5. messagesCounter \in Nat /\ MaxMsgs \in Nat
        BY <1>1, ConversationAssumption DEF TypeOK
      <3> HIDE DEF Sends
      <3> QED
        BY <1>1, <3>2, <3>3, <3>4, <3>5
    <2>3. \A q \in Sends' : net'[q].group \in Groups
      BY <1>1, <1>3, <1>4, <2>1 DEF RequestsInv, Sends
    <2>4. pending' # NoRequest => Is(pending, "poll", "parked")'
      BY <1>1, <1>4 DEF RequestsInv, Is, TypeOK
    <2>5. \A q \in Requests : net'[q].stage = "parked" => q = pending'
      BY <1>1, <1>3, <1>4 DEF RequestsInv
    <2>6. \A q \in Requests : net'[q].kind \in {"poll", "contents"} /\ net'[q].ids # {} =>
             \E g \in Groups : net'[q].ids \subseteq Members(g)'
      BY <1>1, <1>3, <1>4 DEF RequestsInv, Members
    <2> QED
      BY <1>5, <2>2, <2>3, <2>4, <2>5, <2>6 DEF RequestsInv
  <1> QED
    BY <1>7, <1>8, <1>9, <1>10 DEF BaseInv

(* A message is listed, whoever sends it, and some requests are answered. *)
LEMMA PostBase ==
  ASSUME BaseInv, messagesCounter < MaxMsgs, NEW g \in Groups, Listed(g),
         NEW R \in SUBSET Requests, NEW ids \in SUBSET {NextMessage}, net' = Answered(R, ids),
         pending' = IF pending \in R THEN NoRequest ELSE pending,
         messagesCounter' + Cardinality(Sends') <= MaxMsgs,
         content' \subseteq content \cup {NextMessage},
         mine' \subseteq mine \cup {NextMessage},
         broken' \in BOOLEAN, faults' \subseteq Faults,
         UNCHANGED <<waiting, groupmembers, client, shows, sends>>
  PROVE  BaseInv'
  <1>1. TypeOK /\ ListsInv /\ RowsInv /\ UNCHANGED <<seconds, rows, group_>>
    BY DEF BaseInv, client
  <1>2. /\ messagesCounter' \in 0 .. MaxMsgs /\ NextMessage \in Ids
        /\ messages' \in [Groups -> Seq(Ids)]
    BY <1>1, ListedIs
  <1>3. /\ Members(g)' = Members(g) \cup {NextMessage}
        /\ \A h \in Groups : Members(h) \subseteq Members(h)'
    BY <1>1, MembersGrow
  <1>4. ids = {} \/ \E h \in Groups : ids \subseteq Members(h)'
    BY <1>3
  <1>5. ids \in SUBSET Ids
    BY <1>2
  <1>6. net' \in [Requests -> Calls] /\ RequestsInv'
    <2>1. UNCHANGED <<seconds, sends>>
      BY <1>1
    <2> HIDE DEF Sends
    <2> QED
      BY <1>3, <1>4, <1>5, <2>1, AnsweredKeeps
  <1>7. TypeOK'
    <2>1. pending' \in Requests \cup {NoRequest}
      BY <1>1 DEF TypeOK
    <2> QED
      BY <1>1, <1>2, <1>6, <2>1 DEF TypeOK, Calls
  <1>8. ListsInv'
    BY <1>1, ListsStay
  <1>9. RowsInv'
    BY <1>1, <1>3, RowsKept
  <1> QED
    BY <1>6, <1>7, <1>8, <1>9 DEF BaseInv

LEMMA OwnPostBase ==
  ASSUME BaseInv, NEW r \in Requests, NewMessageHandle(r)
  PROVE  BaseInv'
  <1> DEFINE g == net[r].group
  <1>1. /\ TypeOK /\ RequestsInv /\ broken \in BOOLEAN /\ r \in Sends
        /\ g \in Groups /\ net[r].stage = "sent"
        /\ UNCHANGED <<waiting, groupmembers, client, shows, sends>>
    BY DEF BaseInv, NewMessageHandle, Sends, TypeOK, RequestsInv, Is
  <1>2. CASE /\ Listed(g)
             /\ content' = content \cup {NextMessage}
             /\ mine' = mine \cup {NextMessage}
             /\ net' = Answered({r}, {NextMessage})
             /\ faults' = faults \cup Fault("outOfTurn", ~ ToSet(messages[g]) \subseteq mine \cup Shown)
             /\ UNCHANGED <<pending, broken>>
    <2>1. faults' \subseteq Faults
      <3>1. Fault("outOfTurn", ~ ToSet(messages[g]) \subseteq mine \cup Shown) \subseteq Faults
        BY Zenon DEF Fault, Faults
      <3> QED
        BY <1>1, <1>2, <3>1 DEF TypeOK
    <2>2. pending' = IF pending \in {r} THEN NoRequest ELSE pending
      BY <1>1, <1>2, ConversationAssumption DEF RequestsInv, Is
    <2>3. /\ Sends \in SUBSET Requests /\ IsFiniteSet(Sends)
          /\ Cardinality(Sends) \in Nat /\ Cardinality(Sends \ {r}) = Cardinality(Sends) - 1
          /\ Cardinality(Sends) > 0
      <3>1. Sends \in SUBSET Requests
        BY DEF Sends
      <3>2. IsFiniteSet(Sends)
        BY <3>1, SendsAreFinite
      <3> QED
        BY <1>1, <3>1, <3>2, OneMore
    <2>4. /\ messagesCounter < MaxMsgs
          /\ messagesCounter + 1 + (Cardinality(Sends) - 1) <= MaxMsgs
      <3>1. messagesCounter \in Nat /\ MaxMsgs \in Nat /\ messagesCounter + Cardinality(Sends) <= MaxMsgs
        BY <1>1, ConversationAssumption DEF TypeOK, RequestsInv
      <3> HIDE DEF Sends
      <3> QED
        BY <2>3, <3>1
    <2>5. messagesCounter' + Cardinality(Sends') <= MaxMsgs
      <3>1. Sends' = Sends \ {r}
        <4>1. NextMessage \in Ids
          BY <1>1, <1>2, <2>4, ListedIs DEF BaseInv
        <4>2. /\ \A q \in Requests : net'[q].kind = net[q].kind
              /\ net'[r].stage = "answered"
              /\ \A q \in Requests \ {r} : net'[q] = net[q]
          BY <1>1, <1>2, <4>1, AnsweredIs
        <4> QED
          BY <4>2 DEF Sends, Is
      <3>2. messagesCounter' = messagesCounter + 1
        BY <1>2 DEF Listed
      <3> HIDE DEF Sends
      <3> QED
        BY <2>3, <2>4, <3>1, <3>2
    <2> HIDE DEF g
    <2> QED
      BY <1>1, <1>2, <2>1, <2>2, <2>4, <2>5, PostBase
  <1>3. CASE /\ Lost({r}) \/ Die
             /\ UNCHANGED <<messagesCounter, messages, content, mine>>
    <2>1. Open \in SUBSET Requests
      BY DEF Open
    <2> QED
      BY <1>1, <1>3, <2>1, LostBase DEF Die
  <1> QED
    BY <1>2, <1>3 DEF NewMessageHandle

LEMMA RoomIs ==
  ASSUME BaseInv, HasRoom
  PROVE  /\ messagesCounter < MaxMsgs
         /\ messagesCounter' = messagesCounter + 1 /\ Sends' \subseteq Sends =>
               messagesCounter' + Cardinality(Sends') <= MaxMsgs
  <1>1. Sends \in SUBSET Requests
    BY DEF Sends
  <1>2. IsFiniteSet(Sends) /\ Cardinality(Sends) \in Nat
    BY <1>1, SendsAreFinite
  <1>3. messagesCounter \in Nat /\ MaxMsgs \in Nat /\ messagesCounter + Cardinality(Sends) < MaxMsgs
    BY ConversationAssumption DEF BaseInv, TypeOK, HasRoom, Sends
  <1>4. Sends' \subseteq Sends => Cardinality(Sends') <= Cardinality(Sends) /\ Cardinality(Sends') \in Nat
    BY <1>2, FS_Subset, FS_CardinalityType
  <1> HIDE DEF Sends
  <1> QED
    BY <1>2, <1>3, <1>4

LEMMA OthersPostBase ==
  ASSUME BaseInv, NEW g \in Groups, OthersPost(g)
  PROVE  BaseInv'
  <1>1. /\ TypeOK /\ ListsInv /\ HasRoom /\ Listed(g)
        /\ content' = content \cup {NextMessage}
        /\ net' = Answered(Woken(g), {NextMessage})
        /\ pending' = IF Woken(g) = {} THEN pending ELSE NoRequest
        /\ UNCHANGED <<waiting, groupmembers, client, mine, shows, sends, broken>>
    BY DEF BaseInv, OthersPost
  <1>2. Woken(g) \in SUBSET Requests /\ (Woken(g) = {} \/ Woken(g) = {pending})
    BY <1>1 DEF Woken, Parked, TypeOK
  <1>3. pending' = IF pending \in Woken(g) THEN NoRequest ELSE pending
    BY <1>1, <1>2
  <1>4. messagesCounter < MaxMsgs
    BY <1>1, RoomIs
  <1>5. NextMessage \in Ids
    BY <1>1, <1>4, ListedIs
  <1>6. Sends' \subseteq Sends
    BY <1>1, <1>2, <1>5, AnsweredIs DEF Sends, Is
  <1>7. messagesCounter' + Cardinality(Sends') <= MaxMsgs
    BY <1>1, <1>6, RoomIs DEF Listed
  <1>8. broken' \in BOOLEAN
    BY <1>1 DEF TypeOK
  <1>9. faults' \subseteq Faults
    <2>1. Fault("elsewhere", \E r \in Woken(g) : net[r].group # g) \subseteq Faults
      BY Zenon DEF Fault, Faults
    <2> QED
      BY <1>1, <2>1 DEF OthersPost, TypeOK
  <1> HIDE DEF Sends
  <1> QED
    BY <1>1, <1>2, <1>3, <1>4, <1>7, <1>8, <1>9, PostBase

LEMMA OthersPostCutBase ==
  ASSUME BaseInv, NEW g \in Groups, OthersPostCut(g)
  PROVE  BaseInv'
  <1>1. /\ TypeOK /\ ListsInv /\ HasRoom /\ Listed(g) /\ Lost(Open) /\ Open \in SUBSET Requests
        /\ UNCHANGED <<content, waiting, groupmembers, client, mine, shows, sends>>
    BY DEF BaseInv, OthersPostCut, Die, Open
  <1>2. /\ net' = Answered(Open, {}) /\ pending' = IF pending \in Open THEN NoRequest ELSE pending
        /\ broken' \in BOOLEAN /\ faults' \subseteq Faults
    BY <1>1, LostIs
  <1>3. messagesCounter < MaxMsgs
    BY <1>1, RoomIs
  <1>4. Sends' \subseteq Sends
    BY <1>1, <1>2, AnsweredIs DEF Sends, Is
  <1>5. messagesCounter' + Cardinality(Sends') <= MaxMsgs
    BY <1>1, <1>4, RoomIs DEF Listed
  <1> HIDE DEF Sends
  <1> QED
    BY <1>1, <1>2, <1>3, <1>5, PostBase

LEMMA BaseStep == BaseInv /\ [Next]_vars => BaseInv'
  <1> SUFFICES ASSUME BaseInv, [Next]_vars
               PROVE  BaseInv'
    OBVIOUS
  <1>1. ASSUME NEW r \in Requests, Handle(r) \/ Reply(r)
        PROVE  BaseInv'
    BY <1>1, PollingBase, ContentBase, OwnPostBase, UpdatesBase, ContentsBase, DeliveredBase
       DEF Handle, Reply
  <1>2. ASSUME NEW r \in Requests, Lose(r)
        PROVE  BaseInv'
    BY <1>2, LostBase DEF Lose
  <1>3. ASSUME NEW t \in {seconds, seconds + 1}, SendMessage(t)
        PROVE  BaseInv'
    BY <1>3, SendBase
  <1>4. ASSUME NEW g \in Groups, ShowGroup(g) \/ OthersPost(g) \/ OthersPostCut(g)
        PROVE  BaseInv'
    BY <1>4, ShowBase, OthersPostBase, OthersPostCutBase
  <1>5. ASSUME NEW g \in Groups, ChangeOthers(g) \/ AddClient(g) \/ RemoveClient(g)
        PROVE  BaseInv'
    <2>1. /\ groupmembers \in SUBSET (Groups \ Owned)
          /\ groupmembers \ {g} \in SUBSET (Groups \ Owned)
      BY DEF BaseInv, TypeOK
    <2>2. AddClient(g) => groupmembers \cup {g} \in SUBSET (Groups \ Owned)
      BY <2>1 DEF AddClient, Change
    <2> QED
      BY <1>5, <2>1, <2>2, ChangeBase DEF ChangeOthers, AddClient, RemoveClient
  <1>6. CASE Crash
    <2>1. Open \in SUBSET Requests
      BY DEF Open
    <2> QED
      BY <1>6, <2>1, LostBase DEF Crash, Die
  <1>7. CASE UNCHANGED vars
    <2>1. UNCHANGED <<messagesCounter, messages, content, waiting, groupmembers, pending, group_,
                      rows, seconds, net, mine, shows, sends, broken, faults>>
      BY <1>7 DEF vars, server, client, history
    <2>2. TypeOK'
      BY <2>1 DEF BaseInv, TypeOK
    <2>3. RequestsInv'
      BY <2>1 DEF BaseInv, RequestsInv, Sends, Is, Members
    <2> QED
      BY <2>1, <2>2, <2>3, BaseOfRequests
  <1> QED
    BY <1>1, <1>2, <1>3, <1>4, <1>5, <1>6, <1>7 DEF Next

(* Every variable keeps its type, whatever is lost and whoever posts: no id*)
(* is beyond the counter's bound, no row is of an unknown group.           *)
THEOREM ReadingTypes == Spec => []TypeOK
  <1>1. BaseInv => TypeOK
    BY DEF BaseInv
  <1> QED
    BY <1>1, BaseInit, BaseStep, PTL DEF Spec


-----------------------------------------------------------------------------
(* Rows and requests while none of Faults has happened: CursorInv with     *)
(* OwnNotFetched, one action after the other.                              *)

PollIs(r) ==
  \A g \in Groups : Is(r, "poll", "sent") /\ net[r].group = g =>
     /\ Sending(g) = {}
     /\ net[r].n <= Known(g)
     /\ Unread(g, net[r].n) \cap mine = {}
BatchIs(r) ==
  net[r].kind \in {"poll", "contents"} /\ net[r].ids # {} =>
     /\ net[r].ids \cap mine = {}
     /\ \E g \in Groups : \E a \in 0 .. Known(g), b \in 0 .. Len(messages[g]) :
           net[r].ids = Batch(g, a, b)
ParkedIs(r) ==
  \A g \in Groups : Is(r, "poll", "parked") /\ net[r].group = g =>
     g \in waiting /\ Known(g) = Len(messages[g])
RequestIs(r) == PollIs(r) /\ BatchIs(r) /\ ParkedIs(r)
Cursor == RowsArePrefix /\ (\A r \in Requests : RequestIs(r)) /\ Shown \cap mine = {}

LEMMA CursorIs == Cursor <=> CursorInv /\ Shown \cap mine = {}
  BY DEF Cursor, CursorInv, RequestIs, PollIs, BatchIs, ParkedIs,
         PollsAreBehind, BatchesGoOn, WaitingHasAll

(* What a batch of g is, and how many it has. *)
LEMMA BatchesAre ==
  ASSUME TypeOK, ListsInv, NEW g \in Groups, NEW a \in Nat, NEW b \in 0 .. Len(messages[g])
  PROVE  /\ Batch(g, a, b) \subseteq Members(g)
         /\ Batch(g, a, b) # {} => a < b
         /\ a <= b => Cardinality(Batch(g, a, b)) = b - a
         /\ \A j \in 1 .. Len(messages[g]) : Place(g, j) \in Batch(g, a, b) <=> a < j /\ j <= b
  <1>1. /\ Len(messages[g]) \in Nat
        /\ \A j \in 1 .. Len(messages[g]) : Place(g, j) \in Members(g)
        /\ \A j, k \in 1 .. Len(messages[g]) : Place(g, j) = Place(g, k) => j = k
    BY PlacesAre
  <1>2. b \in Nat /\ \A j \in a + 1 .. b : j \in 1 .. Len(messages[g]) /\ a < j /\ j <= b
    BY <1>1
  <1>3. Batch(g, a, b) = {Place(g, j) : j \in a + 1 .. b}
    BY DEF Batch
  <1>4. Batch(g, a, b) # {} => a < b
    BY <1>2, <1>3
  <1>5. \A j \in 1 .. Len(messages[g]) : Place(g, j) \in Batch(g, a, b) <=> a < j /\ j <= b
    <2> SUFFICES ASSUME NEW j \in 1 .. Len(messages[g])
                 PROVE  Place(g, j) \in Batch(g, a, b) <=> a < j /\ j <= b
      OBVIOUS
    <2>1. Place(g, j) \in Batch(g, a, b) => j \in a + 1 .. b
      BY <1>1, <1>2, <1>3
    <2>2. a < j /\ j <= b => j \in a + 1 .. b
      BY <1>2
    <2> QED
      BY <1>2, <1>3, <2>1, <2>2
  <1>6. ASSUME a <= b
        PROVE  Cardinality(Batch(g, a, b)) = b - a
    <2> DEFINE D == a + 1 .. b
               place == [j \in D |-> Place(g, j)]
    <2>1. a + 1 \in Int /\ b \in Int
      BY <1>2
    <2>2. /\ IsFiniteSet(D)
          /\ Cardinality(D) = IF a + 1 > b THEN 0 ELSE b - (a + 1) + 1
      BY <2>1, FS_Interval
    <2>3. Cardinality(D) = b - a
      BY <1>2, <1>6, <2>2
    <2>4. \A j, k \in D : Place(g, j) = Place(g, k) => j = k
      BY <1>1, <1>2
    <2>5. Batch(g, a, b) = {Place(g, j) : j \in D}
      BY <1>3
    <2> HIDE DEF D
    <2>6. place \in Bijection(D, Batch(g, a, b))
      <3>1. place \in [D -> Batch(g, a, b)]
        BY <2>5
      <3>2. \A x \in Batch(g, a, b) : \E j \in D : place[j] = x
        BY <2>5
      <3>3. \A j, k \in D : place[j] = place[k] => j = k
        BY <2>4
      <3> QED
        BY <3>1, <3>2, <3>3 DEF Bijection, Injection, Surjection, IsInjective
    <2>7. Cardinality(D) = Cardinality(Batch(g, a, b))
      <3>1. ExistsBijection(D, Batch(g, a, b))
        BY <2>6 DEF ExistsBijection
      <3> QED
        BY <2>2, <3>1, FS_Bijection
    <2> QED
      BY <2>3, <2>7
  <1> QED
    BY <1>1, <1>2, <1>3, <1>4, <1>5, <1>6

(* A request that asks for no batch and carries none. *)
LEMMA IdleRequest ==
  ASSUME NEW r \in Requests, net'[r].ids = {}, net'[r].stage # "parked",
         net'[r].kind # "poll" \/ net'[r].stage = "answered"
  PROVE  RequestIs(r)'
  BY DEF RequestIs, PollIs, BatchIs, ParkedIs, Is

(* Lists and rows only grow, and what has been listed does not become the  *)
(* client's.                                                               *)
Forward ==
  /\ \A g \in Groups : /\ Len(messages[g]) \in Nat /\ Len(messages'[g]) \in Nat
                       /\ Len(messages[g]) <= Len(messages'[g])
                       /\ \A j \in 1 .. Len(messages[g]) : Place(g, j)' = Place(g, j)
                       /\ Known(g) \in Nat /\ Known(g)' \in Nat /\ Known(g) <= Known(g)'
                       /\ Members(g) \cap mine' \subseteq mine
  /\ waiting \subseteq waiting'

LEMMA BatchKept ==
  ASSUME BaseInv, Forward, NEW r \in Requests, BatchIs(r),
         net'[r].ids # {} => net'[r].ids = net[r].ids /\ net[r].kind \in {"poll", "contents"}
  PROVE  BatchIs(r)'
  <1> SUFFICES ASSUME net'[r].ids # {}
               PROVE  /\ net'[r].ids \cap mine' = {}
                      /\ \E g \in Groups : \E a \in 0 .. Known(g)', b \in 0 .. Len(messages'[g]) :
                            net'[r].ids = Batch(g, a, b)'
    BY DEF BatchIs
  <1>1. net'[r].ids = net[r].ids /\ net[r].ids # {} /\ net[r].ids \cap mine = {}
    BY DEF BatchIs
  <1>2. PICK g \in Groups : \E a \in 0 .. Known(g), b \in 0 .. Len(messages[g]) :
                               net[r].ids = Batch(g, a, b)
    BY <1>1 DEF BatchIs
  <1>3. /\ Len(messages[g]) \in Nat /\ Len(messages'[g]) \in Nat
        /\ Len(messages[g]) <= Len(messages'[g])
        /\ \A j \in 1 .. Len(messages[g]) : Place(g, j)' = Place(g, j)
        /\ Known(g) \in Nat /\ Known(g)' \in Nat /\ Known(g) <= Known(g)'
        /\ Members(g) \cap mine' \subseteq mine
    BY DEF Forward
  <1>4. PICK a \in 0 .. Known(g), b \in 0 .. Len(messages[g]) : net[r].ids = Batch(g, a, b)
    BY <1>2
  <1>5. a \in Nat /\ a \in 0 .. Known(g)' /\ b \in 0 .. Len(messages'[g])
    BY <1>3
  <1>6. Batch(g, a, b)' = Batch(g, a, b)
    <2>1. \A j \in a + 1 .. b : j \in 1 .. Len(messages[g])
      BY <1>3, <1>5
    <2> QED
      BY <1>3, <2>1 DEF Batch
  <1>7. Batch(g, a, b) \subseteq Members(g)
    BY <1>5, BatchesAre DEF BaseInv
  <1> QED
    BY <1>1, <1>3, <1>4, <1>5, <1>6, <1>7

(* Nothing is listed, sent or stored. *)
Still ==
  /\ UNCHANGED <<messages, mine>> /\ Shown' = Shown
  /\ \A g \in Groups : RowCount(g)' = RowCount(g) /\ Sending(g)' = Sending(g)
  /\ waiting \subseteq waiting'

LEMMA StillIs ==
  ASSUME BaseInv, RowsArePrefix, Still
  PROVE  /\ Forward
         /\ \A g \in Groups : /\ Len(messages[g]) \in Nat
                              /\ Known(g)' = Known(g) /\ Known(g) \in Nat
                              /\ Known(g) <= Len(messages[g])
  <1>1. \A g \in Groups : Len(messages[g]) \in Nat
    BY PlacesAre DEF BaseInv
  <1>2. \A g \in Groups : Known(g)' = Known(g)
    BY DEF Still, Known
  <1>3. \A g \in Groups : Known(g) \in 0 .. Len(messages[g])
    BY DEF RowsArePrefix
  <1>4. \A g \in Groups : \A j : Place(g, j)' = Place(g, j)
    BY DEF Still, Place
  <1>5. mine' = mine /\ messages' = messages /\ waiting \subseteq waiting'
    BY DEF Still
  <1>6. \A g \in Groups : Known(g) \in Nat /\ Known(g) <= Len(messages[g]) /\ Known(g) <= Known(g)'
    BY <1>1, <1>2, <1>3
  <1> QED
    BY <1>1, <1>2, <1>4, <1>5, <1>6 DEF Forward

LEMMA CursorStill ==
  ASSUME BaseInv, Cursor, Still,
         \A r \in Requests : net'[r] = net[r] \/ RequestIs(r)'
  PROVE  Cursor'
  <1>1. /\ Forward
        /\ \A g \in Groups : Known(g)' = Known(g)
    BY StillIs DEF Cursor
  <1>2. RowsArePrefix'
    <2>1. \A g \in Groups : \A j : Place(g, j)' = Place(g, j)
      BY DEF Still, Place
    <2>2. messages' = messages /\ mine' = mine /\ Shown' = Shown
      BY DEF Still
    <2> QED
      BY <1>1, <2>1, <2>2 DEF Cursor, RowsArePrefix
  <1>3. ASSUME NEW r \in Requests, net'[r] = net[r]
        PROVE  RequestIs(r)'
    <2>1. PollIs(r) /\ BatchIs(r) /\ ParkedIs(r)
      BY DEF Cursor, RequestIs
    <2>2. PollIs(r)'
      <3>1. \A g \in Groups : Sending(g)' = Sending(g) /\ \A n : Unread(g, n)' = Unread(g, n)
        BY DEF Still, Unread
      <3>2. mine' = mine
        BY DEF Still
      <3> QED
        BY <1>1, <1>3, <2>1, <3>1, <3>2 DEF PollIs, Is
    <2>3. ParkedIs(r)'
      <3>1. messages' = messages /\ waiting \subseteq waiting'
        BY DEF Still
      <3> QED
        BY <1>1, <1>3, <2>1, <3>1 DEF ParkedIs, Is
    <2>4. BatchIs(r)'
      <3>1. net'[r].ids # {} /\ net[r].kind \in {"poll", "contents"} => BatchIs(r)'
        BY <1>1, <1>3, <2>1, BatchKept
      <3> QED
        BY <1>3, <3>1 DEF BatchIs
    <2> QED
      BY <2>2, <2>3, <2>4 DEF RequestIs
  <1>4. (Shown \cap mine = {})'
    BY DEF Still, Cursor
  <1> QED
    BY <1>2, <1>3, <1>4 DEF Cursor

LEMMA CursorInit == Init => Cursor
  <1> SUFFICES ASSUME Init
               PROVE  Cursor
    OBVIOUS
  <1>1. \A r \in Requests : net[r] = NoCall \/ net[r] = Poll(NoGroup, 0)
    BY DEF Init
  <1>2. \A r \in Requests : net[r].ids = {} /\ net[r].stage # "parked" /\ net[r].kind # "send"
                            /\ (net[r].kind = "poll" => net[r].group = NoGroup)
    BY <1>1, CallsAre
  <1>3. \A g \in Groups : Sending(g) = {} /\ RowsOf(g) = {} /\ messages[g] = << >>
    BY <1>2 DEF Sending, Sends, Is, RowsOf, Init
  <1>4. \A g \in Groups : Known(g) = 0
    <2>1. \A g \in Groups : RowCount(g) = 0 /\ Cardinality(Sending(g)) = 0
      BY <1>3, FS_EmptySet, Zenon DEF RowCount
    <2> QED
      BY <2>1 DEF Known
  <1>5. RowsArePrefix
    BY <1>3, <1>4 DEF RowsArePrefix
  <1>6. \A r \in Requests : RequestIs(r)
    BY <1>2, ConversationAssumption DEF RequestIs, PollIs, BatchIs, ParkedIs, Is
  <1>7. mine = {}
    BY DEF Init
  <1> QED
    BY <1>5, <1>6, <1>7 DEF Cursor

(* One request changes that is not a message of the client's. *)
LEMMA StillButOne ==
  ASSUME TypeOK, NEW r \in Requests, NEW call, net' = [net EXCEPT ![r] = call],
         ~ Is(r, "send", "sent"), call.kind # "send" \/ call.stage # "sent",
         UNCHANGED <<messages, mine, waiting>>, Shown' = Shown,
         \A g \in Groups : RowCount(g)' = RowCount(g)
  PROVE  /\ Still
         /\ net'[r] = call
         /\ \A q \in Requests : q # r => net'[q] = net[q]
  <1>1. net \in [Requests -> Calls]
    BY DEF TypeOK, Calls
  <1>2. net'[r] = call /\ \A q \in Requests : q # r => net'[q] = net[q]
    BY <1>1
  <1>3. \A g \in Groups : Sending(g)' = Sending(g)
    BY <1>2 DEF Sending, Sends, Is
  <1> QED
    BY <1>2, <1>3 DEF Still

LEMMA UpdatesCursor ==
  ASSUME BaseInv, Cursor, NEW r \in Requests, UpdatesReply(r)
  PROVE  Cursor'
  <1> DEFINE next == IF net[r].ids = {} THEN NoCall ELSE Contents(net[r].ids)
  <1>1. /\ TypeOK /\ net[r] \in Calls
        /\ net[r].kind = "poll" /\ net[r].stage = "answered"
        /\ net' = [net EXCEPT ![r] = next]
        /\ UNCHANGED <<messages, waiting, rows, mine>>
    BY DEF BaseInv, UpdatesReply, Is, TypeOK, Calls, server, client, history
  <1>2. next.kind \in {"none", "contents"} /\ next.stage # "parked" /\ next.ids = net[r].ids
    <2>1. net[r].ids \in SUBSET Ids
      BY <1>1 DEF Calls
    <2> QED
      BY <2>1, CallsAre
  <1> HIDE DEF next
  <1>3. Shown' = Shown /\ \A g \in Groups : RowCount(g)' = RowCount(g)
    BY <1>1 DEF Shown, RowCount, RowsOf
  <1>4. Still /\ net'[r] = next /\ \A q \in Requests : q # r => net'[q] = net[q]
    BY <1>1, <1>2, <1>3, StillButOne DEF Is
  <1>5. Forward
    BY <1>4, StillIs DEF Cursor
  <1>6. RequestIs(r)'
    <2>1. BatchIs(r)
      BY DEF Cursor, RequestIs
    <2>2. BatchIs(r)'
      BY <1>1, <1>2, <1>4, <1>5, <2>1, BatchKept
    <2>3. PollIs(r)' /\ ParkedIs(r)'
      BY <1>2, <1>4 DEF PollIs, ParkedIs, Is
    <2> QED
      BY <2>2, <2>3 DEF RequestIs
  <1> QED
    BY <1>4, <1>6, CursorStill

LEMMA DeliveredCursor ==
  ASSUME BaseInv, Cursor, NEW r \in Requests, SendMessageReply(r)
  PROVE  Cursor'
  <1>1. /\ TypeOK /\ net[r].kind = "send" /\ net[r].stage = "answered"
        /\ net' = [net EXCEPT ![r] = NoCall]
        /\ UNCHANGED <<messages, waiting, mine>>
    BY DEF BaseInv, SendMessageReply, Is, server, history
  <1>2. /\ DOMAIN rows' = DOMAIN rows
        /\ \A i \in DOMAIN rows : rows'[i].group = rows[i].group /\ rows'[i].msg = rows[i].msg
    BY DeliveredRows
  <1>3. \A g : RowsOf(g)' = RowsOf(g)
    BY <1>2 DEF RowsOf
  <1>4. Shown' = Shown /\ \A g \in Groups : RowCount(g)' = RowCount(g)
    BY <1>2, <1>3 DEF Shown, RowCount
  <1>5. Still /\ net'[r] = NoCall /\ \A q \in Requests : q # r => net'[q] = net[q]
    <2>1. ~ Is(r, "send", "sent") /\ (NoCall.kind # "send" \/ NoCall.stage # "sent")
      BY <1>1, CallsAre DEF Is
    <2> QED
      BY <1>1, <1>4, <2>1, StillButOne
  <1>6. RequestIs(r)'
    BY <1>5, CallsAre, IdleRequest
  <1> QED
    BY <1>5, <1>6, CursorStill

(* Some requests that are no messages of the client's are answered, and    *)
(* nothing is listed.                                                      *)
LEMMA StillAnswered ==
  ASSUME BaseInv, NEW R \in SUBSET Requests, R \cap Sends = {}, NEW ids \in SUBSET Ids,
         net' = Answered(R, ids), UNCHANGED <<messages, mine, waiting, rows>>
  PROVE  /\ Still
         /\ \A r \in R : /\ net'[r].ids = ids /\ net'[r].kind = net[r].kind
                         /\ net'[r].stage = "answered"
         /\ \A r \in Requests : r \notin R => net'[r] = net[r]
  <1>1. /\ \A r \in R : /\ net'[r].ids = ids /\ net'[r].kind = net[r].kind
                        /\ net'[r].stage = "answered"
        /\ \A r \in Requests : r \notin R => net'[r] = net[r]
    BY AnsweredIs DEF BaseInv
  <1>2. Sends' = Sends
    BY <1>1 DEF Sends, Is
  <1>3. \A g \in Groups : Sending(g)' = Sending(g)
    <2>1. \A r \in Sends : net'[r] = net[r]
      BY <1>1 DEF Sends
    <2> QED
      BY <1>2, <2>1 DEF Sending
  <1>4. Shown' = Shown /\ \A g \in Groups : RowCount(g)' = RowCount(g)
    BY DEF Shown, RowCount, RowsOf
  <1> QED
    BY <1>1, <1>3, <1>4 DEF Still

LEMMA EmptyAnswers ==
  ASSUME BaseInv, Cursor, NEW R \in SUBSET Requests, R \cap Sends = {},
         net' = Answered(R, {}), UNCHANGED <<messages, mine, waiting, rows>>
  PROVE  Cursor'
  <1>1. /\ Still
        /\ \A r \in R : net'[r].ids = {} /\ net'[r].stage = "answered"
        /\ \A r \in Requests : r \notin R => net'[r] = net[r]
    BY StillAnswered
  <1>2. \A r \in Requests : net'[r] = net[r] \/ RequestIs(r)'
    BY <1>1, IdleRequest
  <1> QED
    BY <1>1, <1>2, CursorStill

LEMMA ContentCursor ==
  ASSUME BaseInv, Cursor, NEW r \in Requests, MessageContentHandle(r)
  PROVE  Cursor'
  <1> DEFINE ids == Readable(net[r].ids)
  <1>1. /\ TypeOK /\ net[r] \in Calls /\ net[r].kind = "contents" /\ net[r].stage = "sent"
        /\ net' = Answered({r}, ids)
        /\ UNCHANGED <<messages, mine, waiting, rows>>
    BY DEF BaseInv, MessageContentHandle, Is, TypeOK, Calls, server, client
  <1>2. ids \in {{}, net[r].ids} /\ ids \in SUBSET Ids
    BY <1>1 DEF Readable, Calls
  <1> HIDE DEF ids
  <1>3. {r} \cap Sends = {}
    BY <1>1 DEF Sends, Is
  <1>4. /\ Still
        /\ net'[r].ids = ids /\ net'[r].kind = "contents"
        /\ \A q \in Requests : q # r => net'[q] = net[q]
    BY <1>1, <1>2, <1>3, StillAnswered
  <1>5. Forward
    BY <1>4, StillIs DEF Cursor
  <1>6. RequestIs(r)'
    <2>1. BatchIs(r)
      BY DEF Cursor, RequestIs
    <2>2. BatchIs(r)'
      BY <1>1, <1>2, <1>4, <1>5, <2>1, BatchKept
    <2>3. PollIs(r)' /\ ParkedIs(r)'
      BY <1>4 DEF PollIs, ParkedIs, Is
    <2> QED
      BY <2>2, <2>3 DEF RequestIs
  <1> QED
    BY <1>4, <1>6, CursorStill

LEMMA LostCursor ==
  ASSUME BaseInv, Cursor, NEW R \in SUBSET Requests, Lost(R), faults' = {},
         UNCHANGED <<messages, mine, waiting, rows>>
  PROVE  Cursor'
  <1>1. net' = Answered(R, {}) /\ R \cap Sends = {}
    BY LostIs DEF BaseInv
  <1> QED
    BY <1>1, EmptyAnswers

LEMMA ChangeCursor ==
  ASSUME BaseInv, Cursor, NEW g \in Groups, NEW members, Change(g, members)
  PROVE  Cursor'
  <1> DEFINE told == IF g \in members THEN Parked ELSE {}
  <1>1. /\ net' = Answered(told, {})
        /\ UNCHANGED <<messages, mine, waiting, rows>>
    BY DEF Change, client
  <1>2. told \in SUBSET Requests /\ told \cap Sends = {}
    BY DEF BaseInv, TypeOK, RequestsInv, Parked, Sends, Is
  <1> HIDE DEF told
  <1> QED
    BY <1>1, <1>2, EmptyAnswers

LEMMA NoFault ==
  ASSUME NEW kind, NEW holds, Fault(kind, holds) = {}
  PROVE  ~ holds
  BY Zenon DEF Fault

(* Behind the messages the client has there is none of its own. *)
LEMMA NothingBehind ==
  ASSUME BaseInv, NEW g \in Groups, NEW k \in 0 .. Len(messages[g]),
         \A j \in 1 .. Len(messages[g]) : Place(g, j) \in mine => j <= k
  PROVE  Unread(g, k) \cap mine = {}
  <1>1. Len(messages[g]) \in Nat
    BY PlacesAre DEF BaseInv
  <1>2. Unread(g, k) = {Place(g, j) : j \in k + 1 .. Len(messages[g])}
    BY <1>1, UnreadAre DEF BaseInv, Batch
  <1>3. \A j \in k + 1 .. Len(messages[g]) : j \in 1 .. Len(messages[g]) /\ ~ (j <= k)
    BY <1>1
  <1> QED
    BY <1>2, <1>3

LEMMA ShowCursor ==
  ASSUME BaseInv, Cursor, NEW g \in Groups, ShowGroup(g), faults' = {}
  PROVE  Cursor'
  <1>0. PICK r \in Requests : r = NewRequest /\ net[r].kind = "none"
    BY ANewRequest DEF ShowGroup
  <1> DEFINE call == Poll(g, RowCount(g))
  <1>1. /\ TypeOK /\ r \in Requests /\ net[r].kind = "none"
        /\ net' = [net EXCEPT ![r] = call]
        /\ Fault("crossed", UnderWay("send", g)) = {}
        /\ UNCHANGED <<messages, waiting, rows, mine>>
    BY <1>0 DEF BaseInv, ShowGroup, server
  <1>2. RowCount(g) \in Nat
    BY <1>1, RowCountIs
  <1>3. call.kind = "poll" /\ call.stage = "sent" /\ call.group = g /\ call.n = RowCount(g) /\ call.ids = {}
    BY <1>2, CallsAre
  <1> HIDE DEF call
  <1>4. Shown' = Shown /\ \A h \in Groups : RowCount(h)' = RowCount(h)
    BY <1>1 DEF Shown, RowCount, RowsOf
  <1>5. Still /\ net'[r] = call /\ \A q \in Requests : q # r => net'[q] = net[q]
    BY <1>1, <1>3, <1>4, StillButOne DEF Is
  <1>6. Sending(g) = {}
    BY <1>1, NoFault DEF UnderWay, Sending, Sends
  <1>7. Known(g) = RowCount(g)
    <2>1. Cardinality(Sending(g)) = 0
      BY <1>6, FS_EmptySet, Zenon
    <2> QED
      BY <1>2, <2>1 DEF Known
  <1>8. Unread(g, RowCount(g)) \cap mine = {}
    <2>1. RowsArePrefix
      BY DEF Cursor
    <2>2. /\ RowCount(g) \in 0 .. Len(messages[g])
          /\ \A j \in 1 .. Len(messages[g]) : Place(g, j) \in mine => j <= RowCount(g)
      BY <1>7, <2>1 DEF RowsArePrefix
    <2> QED
      BY <2>2, NothingBehind
  <1>9. RequestIs(r)'
    <2>1. BatchIs(r)' /\ ParkedIs(r)'
      BY <1>3, <1>5 DEF BatchIs, ParkedIs, Is
    <2>2. \A h \in Groups : h = g => Sending(h)' = {} /\ Known(h)' = RowCount(h) /\ RowCount(h) <= Known(h)'
      BY <1>2, <1>5, <1>6, <1>7, StillIs DEF Still, Cursor
    <2>3. \A h \in Groups : \A n : Unread(h, n)' = Unread(h, n)
      BY <1>1 DEF Unread
    <2>4. PollIs(r)'
      BY <1>1, <1>3, <1>5, <1>8, <2>2, <2>3 DEF PollIs
    <2> QED
      BY <2>1, <2>4 DEF RequestIs
  <1> QED
    BY <1>5, <1>9, CursorStill

LEMMA SendCursor ==
  ASSUME BaseInv, Cursor, NEW t \in {seconds, seconds + 1}, SendMessage(t), faults' = {}
  PROVE  Cursor'
  <1>0. PICK r \in Requests : r = NewRequest /\ net[r].kind = "none"
    BY ANewRequest DEF SendMessage
  <1> DEFINE uid == IF <<"time", t>> \notin Keys THEN Len(rows) + 1 ELSE LastUid(group_)
             call == Send(group_, uid)
  <1>1. /\ TypeOK /\ net \in [Requests -> Calls] /\ r \in Requests /\ net[r].kind = "none"
        /\ group_ \in Groups /\ group_' = group_
        /\ net' = [net EXCEPT ![r] = call]
        /\ Fault("second", ~ (<<"time", t>> \notin Keys)) = {}
        /\ Fault("crossed", UnderWay("poll", group_)) = {}
        /\ UNCHANGED <<messages, waiting, mine>>
    BY <1>0 DEF BaseInv, SendMessage, TypeOK, Calls, server
  <1>2. call.kind = "send" /\ call.stage = "sent" /\ call.group = group_ /\ call.ids = {}
    BY DEF Send, NoCall
  <1> HIDE DEF uid, call
  <1>3. net'[r] = call /\ \A q \in Requests : q # r => net'[q] = net[q]
    BY <1>1
  <1>4. <<"time", t>> \notin Keys /\ ~ UnderWay("poll", group_)
    BY <1>1, NoFault
  <1>5. /\ Shown' = Shown
        /\ \A h : h = group_ => RowCount(h)' = RowCount(h) + 1
        /\ \A h : h # group_ => RowCount(h)' = RowCount(h)
    BY <1>4, SentRows
  <1>6. /\ r \notin Sends
        /\ Sends' = Sends \cup {r}
        /\ \A q \in Sends : net'[q].group = net[q].group
    BY <1>1, <1>2, <1>3 DEF Sends, Is
  <1>7. /\ \A h \in Groups : h = group_ => r \notin Sending(h) /\ Sending(h)' = Sending(h) \cup {r}
        /\ \A h \in Groups : h # group_ => Sending(h)' = Sending(h)
    BY <1>2, <1>3, <1>6 DEF Sending
  <1>8. ASSUME NEW h \in Groups
        PROVE  Known(h)' = Known(h)
    <2>1. CASE h # group_
      BY <1>5, <1>7, <2>1 DEF Known
    <2>2. CASE h = group_
      <3>1. Sending(h) \in SUBSET Requests
        BY DEF Sending, Sends
      <3>2. IsFiniteSet(Sending(h)) /\ Cardinality(Sending(h)) \in Nat
        BY <3>1, SendsAreFinite
      <3>3. Cardinality(Sending(h) \cup {r}) = Cardinality(Sending(h)) + 1
        BY <1>7, <2>2, <3>2, OneMore
      <3>4. Cardinality(Sending(h)') = Cardinality(Sending(h)) + 1
        BY <1>7, <2>2, <3>3
      <3>5. RowCount(h) \in Nat /\ RowCount(h)' = RowCount(h) + 1
        BY <1>1, <1>5, <2>2, RowCountIs
      <3> QED
        BY <3>2, <3>4, <3>5 DEF Known
    <2> QED
      BY <2>1, <2>2
  <1>9. \A h, j : Place(h, j)' = Place(h, j)
    BY <1>1 DEF Place
  <1>10. RowsArePrefix'
    BY <1>1, <1>5, <1>8, <1>9 DEF Cursor, RowsArePrefix
  <1>11. Forward
    <2>1. \A h \in Groups : Len(messages[h]) \in Nat /\ Known(h) \in 0 .. Len(messages[h])
      BY PlacesAre DEF BaseInv, Cursor, RowsArePrefix
    <2>2. \A h \in Groups : Known(h) \in Nat /\ Known(h)' \in Nat /\ Known(h) <= Known(h)'
      BY <1>8, <2>1
    <2> QED
      BY <1>1, <1>9, <2>1, <2>2 DEF Forward
  <1>12. RequestIs(r)'
    BY <1>2, <1>3, IdleRequest
  <1>13. ASSUME NEW q \in Requests, q # r
         PROVE  RequestIs(q)'
    <2>1. PollIs(q) /\ BatchIs(q) /\ ParkedIs(q) /\ net'[q] = net[q]
      BY <1>3, <1>13 DEF Cursor, RequestIs
    <2>2. \A h \in Groups : Is(q, "poll", "sent") /\ net[q].group = h => Sending(h)' = Sending(h)
      BY <1>4, <1>7 DEF UnderWay
    <2>3. \A h, n : Unread(h, n)' = Unread(h, n)
      BY <1>1 DEF Unread
    <2>4. PollIs(q)'
      BY <1>1, <1>8, <2>1, <2>2, <2>3 DEF PollIs, Is
    <2>5. ParkedIs(q)'
      BY <1>1, <1>8, <2>1 DEF ParkedIs, Is
    <2>6. BatchIs(q)'
      <3>1. net[q].kind \in {"poll", "contents"} => BatchIs(q)'
        BY <1>11, <2>1, BatchKept
      <3> QED
        BY <2>1, <3>1 DEF BatchIs
    <2> QED
      BY <2>4, <2>5, <2>6 DEF RequestIs
  <1>14. (Shown \cap mine = {})'
    BY <1>1, <1>5 DEF Cursor
  <1> QED
    BY <1>10, <1>12, <1>13, <1>14 DEF Cursor

LEMMA PollingCursor ==
  ASSUME BaseInv, Cursor, NEW r \in Requests, PollingHandle(r)
  PROVE  Cursor'
  <1> DEFINE g == net[r].group
  <1>1. /\ TypeOK /\ ListsInv /\ net \in [Requests -> Calls] /\ net[r] \in Calls
        /\ net[r].kind = "poll" /\ net[r].stage = "sent"
        /\ UNCHANGED <<messages, rows, mine>>
    BY DEF BaseInv, PollingHandle, Is, TypeOK, Calls, client, history
  <1>2. g \in Groups \cup {NoGroup} /\ net[r].n \in Nat
    BY <1>1 DEF Calls
  <1>3. /\ RowsArePrefix /\ PollIs(r) /\ BatchIs(r)
    BY DEF Cursor, RequestIs
  <1>4. g \in Groups => /\ News(r) = Unread(g, net[r].n)
                        /\ News(r) = Batch(g, net[r].n, Len(messages[g]))
                        /\ News(r) \cap mine = {}
                        /\ Len(messages[g]) \in Nat
                        /\ net[r].n <= Known(g) /\ Known(g) \in 0 .. Len(messages[g])
    <2> SUFFICES ASSUME g \in Groups
                 PROVE  /\ News(r) = Unread(g, net[r].n)
                        /\ News(r) = Batch(g, net[r].n, Len(messages[g]))
                        /\ News(r) \cap mine = {}
                        /\ Len(messages[g]) \in Nat
                        /\ net[r].n <= Known(g) /\ Known(g) \in 0 .. Len(messages[g])
      OBVIOUS
    <2>1. News(r) = Unread(g, net[r].n)
      BY ConversationAssumption DEF News
    <2>2. Unread(g, net[r].n) \cap mine = {} /\ net[r].n <= Known(g)
      BY <1>1, <1>3 DEF PollIs, Is
    <2>3. Unread(g, net[r].n) = Batch(g, net[r].n, Len(messages[g]))
      BY <1>1, <1>2, UnreadAre
    <2>4. Len(messages[g]) \in Nat /\ Known(g) \in 0 .. Len(messages[g])
      BY <1>1, <1>3, PlacesAre DEF RowsArePrefix
    <2> QED
      BY <2>1, <2>2, <2>3, <2>4
  <1>5. \A h : RowCount(h)' = RowCount(h) /\ Shown' = Shown
    BY <1>1 DEF RowCount, RowsOf, Shown
  <1>6. CASE /\ News(r) # {}
             /\ net' = [Answered({r}, News(r)) EXCEPT ![r].n = 0]
             /\ UNCHANGED <<waiting, pending>>
    <2> DEFINE f == Answered({r}, News(r))
    <2>1. /\ f \in [Requests -> Calls] /\ f[r].kind = "poll" /\ f[r].stage = "answered"
          /\ f[r].ids = News(r)
          /\ \A q \in Requests \ {r} : f[q] = net[q]
      BY <1>1, NewsAre, AnsweredIs
    <2> HIDE DEF f
    <2>2. net' = [f EXCEPT ![r] = [f[r] EXCEPT !.n = 0]]
      BY <1>6 DEF f
    <2>3. /\ net'[r].kind = "poll" /\ net'[r].stage = "answered" /\ net'[r].ids = News(r)
          /\ \A q \in Requests \ {r} : net'[q] = net[q]
      BY <2>1, <2>2 DEF Calls
    <2>4. \A h \in Groups : Sending(h)' = Sending(h)
      BY <1>1, <2>3 DEF Sending, Sends, Is
    <2>5. Still
      BY <1>1, <1>5, <1>6, <2>4 DEF Still
    <2>6. g \in Groups
      BY <1>6, NewsAre
    <2>7. \A h \in Groups : Known(h)' = Known(h)
      BY <1>3, <2>5, StillIs
    <2>8. RequestIs(r)'
      <3>1. PollIs(r)' /\ ParkedIs(r)'
        BY <2>3 DEF PollIs, ParkedIs, Is
      <3>2. net'[r].ids \cap mine' = {}
        BY <1>1, <1>4, <2>3, <2>6
      <3>3. \A h, a, b : Batch(h, a, b)' = Batch(h, a, b)
        BY <1>1 DEF Batch, Place
      <3>4. \E h \in Groups : \E a \in 0 .. Known(h)', b \in 0 .. Len(messages'[h]) :
               net'[r].ids = Batch(h, a, b)'
        <4>1. net[r].n \in 0 .. Known(g) /\ Len(messages[g]) \in 0 .. Len(messages[g])
          BY <1>2, <1>4, <2>6
        <4>2. News(r) = Batch(g, net[r].n, Len(messages[g]))
          BY <1>4, <2>6
        <4>3. \E h \in Groups : \E a \in 0 .. Known(h), b \in 0 .. Len(messages[h]) :
                 News(r) = Batch(h, a, b)
          BY <2>6, <4>1, <4>2
        <4> QED
          BY <1>1, <2>3, <2>7, <3>3, <4>3
      <3>5. BatchIs(r)'
        BY <3>2, <3>4 DEF BatchIs
      <3> QED
        BY <3>1, <3>5 DEF RequestIs
    <2> QED
      BY <2>3, <2>5, <2>8, CursorStill
  <1>7. CASE /\ News(r) = {}
             /\ waiting' = waiting \cup ({g} \ {NoGroup})
             /\ net' = [Answered(Parked, {}) EXCEPT ![r].stage = "parked", ![r].n = 0]
             /\ pending' = r
    <2> DEFINE f == Answered(Parked, {})
    <2>1. /\ f \in [Requests -> Calls]
          /\ \A q \in Parked \cap Requests :
                f[q].stage = "answered" /\ f[q].ids = {} /\ f[q].kind = net[q].kind
          /\ \A q \in Requests \ Parked : f[q] = net[q]
      BY <1>1, AnsweredIs
    <2>2. net' = [f EXCEPT ![r] = [[f[r] EXCEPT !.stage = "parked"] EXCEPT !.n = 0]]
      BY <1>7, <2>1 DEF f
    <2> HIDE DEF f
    <2>3. r \notin Parked /\ \A q \in Parked : Is(q, "poll", "parked")
      BY <1>1 DEF Parked, BaseInv, RequestsInv, Is
    <2>4. f[r] = net[r]
      BY <2>1, <2>3
    <2>5. /\ net'[r].kind = "poll" /\ net'[r].stage = "parked" /\ net'[r].ids = net[r].ids
          /\ net'[r].group = g
          /\ \A q \in Requests \ {r} : net'[q] = f[q]
      BY <1>1, <2>1, <2>2, <2>4 DEF Calls
    <2>6. \A h \in Groups : Sending(h)' = Sending(h)
      <3>1. \A q \in Requests : \/ net'[q] = net[q]
                                \/ net[q].kind = "poll" /\ net'[q].kind = "poll"
        BY <1>1, <2>1, <2>3, <2>5 DEF Is
      <3> QED
        BY <3>1 DEF Sending, Sends, Is
    <2>7. Still
      BY <1>1, <1>5, <1>7, <2>6 DEF Still
    <2>8. Forward /\ \A h \in Groups : Known(h)' = Known(h)
      BY <1>3, <2>7, StillIs
    <2>9. RequestIs(r)'
      <3>1. PollIs(r)'
        BY <2>5 DEF PollIs, Is
      <3>2. BatchIs(r)'
        BY <1>1, <1>3, <2>5, <2>8, BatchKept
      <3>3. g \in Groups => Known(g) = Len(messages[g])
        <4> SUFFICES ASSUME g \in Groups, net[r].n < Len(messages[g])
                     PROVE  FALSE
          BY <1>2, <1>4
        <4>1. /\ Len(messages[g]) \in 1 .. Len(messages[g])
              /\ Len(messages[g]) \in 0 .. Len(messages[g])
          BY <1>2, <1>4
        <4>2. Place(g, Len(messages[g])) \in Batch(g, net[r].n, Len(messages[g]))
          <5>1. Len(messages[g]) \in net[r].n + 1 .. Len(messages[g])
            BY <1>2, <1>4
          <5> QED
            BY <5>1 DEF Batch
        <4> QED
          BY <1>4, <1>7, <4>2
      <3>4. ParkedIs(r)'
        BY <1>1, <1>7, <2>5, <2>8, <3>3, ConversationAssumption DEF ParkedIs
      <3> QED
        BY <3>1, <3>2, <3>4 DEF RequestIs
    <2>10. ASSUME NEW q \in Requests, q # r
           PROVE  net'[q] = net[q] \/ RequestIs(q)'
      <3>1. CASE q \in Parked
        <4>1. net'[q].ids = {} /\ net'[q].stage = "answered"
          BY <2>1, <2>5, <2>10, <3>1
        <4> QED
          BY <4>1, IdleRequest
      <3>2. CASE q \notin Parked
        BY <2>1, <2>5, <2>10, <3>2
      <3> QED
        BY <3>1, <3>2
    <2> QED
      BY <2>7, <2>9, <2>10, CursorStill
  <1> QED
    BY <1>6, <1>7 DEF PollingHandle

(* A batch that goes on where the client is, as far as b. *)
GoesOn(g, ids, b) ==
  /\ Known(g) \in Nat /\ Known(g) < b
  /\ Cardinality(ids) = b - Known(g)
  /\ \A j \in 1 .. Len(messages[g]) : Place(g, j) \in ids <=> Known(g) < j /\ j <= b
  /\ ids \cap (mine \cup Shown) = {}
  /\ \A m \in ids : <<"id", m>> \notin Keys

(* What comes brings the client further, ... *)
LEMMA BatchGoesOn ==
  ASSUME BaseInv, Cursor, NEW r \in Requests, net[r].kind = "contents",
         NEW ids, ids = net[r].ids, ids # {},
         NEW g \in Groups, ids \in SUBSET Members(g),
         ~ \E i \in DOMAIN rows : rows[i].msg \in ids
  PROVE  \E b \in 0 .. Len(messages[g]) : GoesOn(g, ids, b)
  <1>1. TypeOK /\ ListsInv /\ RowsInv /\ RowsArePrefix /\ BatchIs(r)
    BY DEF BaseInv, Cursor, RequestIs
  <1>2. ids \cap mine = {}
    BY <1>1 DEF BatchIs
  <1>3. PICK h \in Groups : \E a \in 0 .. Known(h), b \in 0 .. Len(messages[h]) : ids = Batch(h, a, b)
    BY <1>1 DEF BatchIs
  <1>4. Len(messages[h]) \in Nat /\ Known(h) \in 0 .. Len(messages[h])
    BY <1>1, PlacesAre DEF RowsArePrefix
  <1>5. PICK a \in 0 .. Known(h), b \in 0 .. Len(messages[h]) : ids = Batch(h, a, b)
    BY <1>3
  <1>6. a \in Nat /\ b \in Nat /\ a <= Known(h)
    BY <1>4
  <1>7. /\ ids \subseteq Members(h)
        /\ a < b /\ Cardinality(ids) = b - a
        /\ \A j \in 1 .. Len(messages[h]) : Place(h, j) \in ids <=> a < j /\ j <= b
    <2>1. /\ Batch(h, a, b) \subseteq Members(h)
          /\ Batch(h, a, b) # {} => a < b
          /\ a <= b => Cardinality(Batch(h, a, b)) = b - a
          /\ \A j \in 1 .. Len(messages[h]) : Place(h, j) \in Batch(h, a, b) <=> a < j /\ j <= b
      BY <1>1, <1>6, BatchesAre
    <2>2. a < b
      BY <1>5, <2>1
    <2>3. a <= b
      BY <1>6, <2>2
    <2> QED
      BY <1>5, <2>1, <2>2, <2>3
  <1>8. h = g
    <2>1. PICK m \in ids : TRUE
      OBVIOUS
    <2>2. m \in Members(h) /\ m \in Members(g)
      BY <1>7
    <2>3. GroupOf(m) = h /\ GroupOf(m) = g
      BY <1>1, <2>2, GroupOfIs
    <2> QED
      BY <2>3
  <1>9. ids \cap Shown = {}
    BY DEF Shown
  <1>10. a = Known(g)
    <2> SUFFICES ASSUME a < Known(g)
                 PROVE  FALSE
      BY <1>4, <1>6, <1>8
    <2>1. a + 1 \in 1 .. Len(messages[g]) /\ a < a + 1 /\ a + 1 <= b /\ a + 1 <= Known(g)
      BY <1>4, <1>6, <1>7, <1>8
    <2>2. Place(g, a + 1) \in ids
      BY <1>7, <1>8, <2>1
    <2>3. Place(g, a + 1) \in mine \cup Shown
      BY <1>1, <2>1 DEF RowsArePrefix
    <2> QED
      BY <1>2, <1>9, <2>2, <2>3
  <1>11. \A m \in ids : <<"id", m>> \notin Keys
    <2>1. ids \subseteq Ids
      BY <1>1, PlacesAre
    <2>2. \A i \in DOMAIN rows : \A m \in Ids : rows[i].trueid = <<"id", m>> => rows[i].msg = m
      BY <1>1 DEF RowsInv
    <2> QED
      BY <2>1, <2>2 DEF Keys
  <1>12. b \in 0 .. Len(messages[g]) /\ Known(g) \in Nat /\ Known(g) < b
    BY <1>6, <1>7, <1>8, <1>10
  <1>13. /\ Cardinality(ids) = b - Known(g)
         /\ \A j \in 1 .. Len(messages[g]) : Place(g, j) \in ids <=> Known(g) < j /\ j <= b
    BY <1>7, <1>8, <1>10
  <1>14. ids \cap (mine \cup Shown) = {}
    BY <1>2, <1>9
  <1> QED
    BY <1>11, <1>12, <1>13, <1>14 DEF GoesOn

LEMMA SendsStay ==
  ASSUME TypeOK, NEW r \in Requests, net[r].kind = "contents", NEW call,
         net' = [net EXCEPT ![r] = call], call.kind # "send"
  PROVE  /\ net'[r] = call /\ \A q \in Requests : q # r => net'[q] = net[q]
         /\ \A g \in Groups : Sending(g)' = Sending(g)
  <1>1. net \in [Requests -> Calls]
    BY DEF TypeOK, Calls
  <1>2. net'[r] = call /\ \A q \in Requests : q # r => net'[q] = net[q]
    BY <1>1
  <1>3. \A g \in Groups : Sending(g)' = Sending(g)
    BY <1>2 DEF Sending, Sends, Is
  <1> QED
    BY <1>2, <1>3

(* ... so that what it polls for next is what it has not got. *)
LEMMA StoredCursor ==
  ASSUME BaseInv, Cursor, NEW r \in Requests, net[r].kind = "contents",
         NEW ids, ids = net[r].ids, ids # {},
         NEW g \in Groups, ids \in SUBSET Members(g), g = group_,
         ~ \E i \in DOMAIN rows : rows[i].msg \in ids,
         ~ UnderWay("send", g),
         net' = [net EXCEPT ![r] = Poll(g, NextCount(ids))],
         rows' \in Stored(ids),
         UNCHANGED <<messages, mine, waiting>>
  PROVE  Cursor'
  <1>1. TypeOK /\ ListsInv /\ RowsArePrefix
    BY DEF BaseInv, Cursor
  <1>2. PICK b \in 0 .. Len(messages[g]) : GoesOn(g, ids, b)
    BY BatchGoesOn, Zenon
  <1>a. /\ Known(g) \in Nat /\ Known(g) < b
        /\ Cardinality(ids) = b - Known(g)
        /\ \A j \in 1 .. Len(messages[g]) : Place(g, j) \in ids <=> Known(g) < j /\ j <= b
        /\ ids \cap (mine \cup Shown) = {}
        /\ \A m \in ids : <<"id", m>> \notin Keys
    BY <1>2 DEF GoesOn
  <1>3. \A h \in Groups : Len(messages[h]) \in Nat /\ Known(h) \in 0 .. Len(messages[h])
    BY <1>1, PlacesAre DEF RowsArePrefix
  <1>4. /\ RowCount(g)' = RowCount(g) + Cardinality(ids)
        /\ \A h \in Groups : h # g => RowCount(h)' = RowCount(h)
        /\ Shown' = Shown \cup ids
    BY <1>1, <1>a, StoredCounts
  <1>5. Sending(g) = {}
    BY DEF UnderWay, Sending, Sends
  <1>6. Known(g) = RowCount(g) /\ RowCount(g) \in Nat
    <2>1. Cardinality(Sending(g)) = 0
      BY <1>5, FS_EmptySet, Zenon
    <2>2. RowCount(g) \in Nat
      BY <1>1, RowCountIs
    <2> QED
      BY <2>1, <2>2 DEF Known
  <1> DEFINE call == Poll(g, NextCount(ids))
  <1>7. NextCount(ids) = b
    BY <1>a, <1>3, <1>6 DEF NextCount
  <1>8. b \in Nat
    BY <1>3
  <1>9. /\ call.kind = "poll" /\ call.stage = "sent" /\ call.group = g
        /\ call.n = b /\ call.ids = {}
    BY <1>7, <1>8, CallsAre
  <1>10. net' = [net EXCEPT ![r] = call]
    OBVIOUS
  <1> HIDE DEF call
  <1>11. /\ net'[r] = call /\ \A q \in Requests : q # r => net'[q] = net[q]
         /\ \A h \in Groups : Sending(h)' = Sending(h)
    BY <1>1, <1>9, <1>10, SendsStay
  <1>12. \A h \in Groups : h # g => Known(h)' = Known(h)
    BY <1>4, <1>11 DEF Known
  <1>13. \A h \in Groups : h = g => Known(h)' = b
    <2> SUFFICES ASSUME NEW h \in Groups, h = g
                 PROVE  Known(h)' = b
      OBVIOUS
    <2>1. RowCount(h)' = b
      BY <1>a, <1>3, <1>4, <1>6
    <2>2. Sending(h)' = {}
      BY <1>5, <1>11
    <2>3. Cardinality(Sending(h)') = 0
      BY <2>2, FS_EmptySet, Zenon
    <2> QED
      BY <1>8, <2>1, <2>3 DEF Known
  <1>14. \A h, j : Place(h, j)' = Place(h, j)
    BY DEF Place
  <1>15. RowsArePrefix'
    <2> SUFFICES ASSUME NEW h \in Groups
                 PROVE  /\ Known(h)' \in 0 .. Len(messages[h])
                        /\ \A j \in 1 .. Len(messages[h]) :
                              Place(h, j) \in mine \cup Shown \cup ids <=> j <= Known(h)'
      BY <1>4, <1>14 DEF RowsArePrefix
    <2>1. \A j \in 1 .. Len(messages[h]) : Place(h, j) \in mine \cup Shown <=> j <= Known(h)
      BY <1>1 DEF RowsArePrefix
    <2>2. CASE h # g
      <3>1. \A j \in 1 .. Len(messages[h]) : Place(h, j) \notin ids
        <4> SUFFICES ASSUME NEW j \in 1 .. Len(messages[h]), Place(h, j) \in ids
                     PROVE  FALSE
          OBVIOUS
        <4>1. Place(h, j) \in Members(h) /\ Place(h, j) \in Members(g)
          BY <1>1, PlacesAre
        <4>2. GroupOf(Place(h, j)) = h /\ GroupOf(Place(h, j)) = g
          BY <1>1, <4>1, GroupOfIs
        <4> QED
          BY <2>2, <4>2
      <3> QED
        BY <1>3, <1>12, <2>1, <2>2, <3>1
    <2>3. CASE h = g
      <3>1. Known(h)' = b
        BY <1>13, <2>3
      <3>2. \A j \in 1 .. Len(messages[g]) :
               Place(g, j) \in mine \cup Shown \cup ids <=> j <= b
        <4> SUFFICES ASSUME NEW j \in 1 .. Len(messages[g])
                     PROVE  Place(g, j) \in mine \cup Shown \cup ids <=> j <= b
          OBVIOUS
        <4>1. Place(g, j) \in mine \cup Shown <=> j <= Known(g)
          BY <2>1, <2>3
        <4>2. Place(g, j) \in ids <=> Known(g) < j /\ j <= b
          BY <1>a
        <4>3. j <= b <=> j <= Known(g) \/ (Known(g) < j /\ j <= b)
          BY <1>a, <1>3, <1>8
        <4> QED
          BY <4>1, <4>2, <4>3
      <3> QED
        BY <2>3, <3>1, <3>2
    <2> QED
      BY <2>2, <2>3
  <1>16. \A h \in Groups : Known(h) \in Nat /\ Known(h)' \in Nat /\ Known(h) <= Known(h)'
    BY <1>a, <1>3, <1>8, <1>12, <1>13
  <1>17. Forward
    BY <1>3, <1>14, <1>16 DEF Forward
  <1>18. RequestIs(r)'
    <2>1. BatchIs(r)' /\ ParkedIs(r)'
      BY <1>9, <1>11 DEF BatchIs, ParkedIs, Is
    <2>2. Unread(g, b) \cap mine = {}
      <3>1. \A j \in 1 .. Len(messages[g]) : Place(g, j) \in mine => j <= b
        BY <1>1, <1>a, <1>3, <1>8 DEF RowsArePrefix
      <3> QED
        BY <3>1, NothingBehind
    <2>3. \A h \in Groups : h = g => /\ Sending(h)' = {} /\ b <= Known(h)'
                                    /\ Unread(h, b)' = Unread(h, b)
      BY <1>5, <1>8, <1>11, <1>13 DEF Unread
    <2>4. PollIs(r)'
      <3> SUFFICES ASSUME NEW h \in Groups, net'[r].group = h
                   PROVE  /\ Sending(h)' = {} /\ net'[r].n <= Known(h)'
                          /\ Unread(h, net[r].n)' \cap mine' = {}
        BY DEF PollIs
      <3>1. h = g /\ net'[r].n = b
        BY <1>9, <1>11
      <3>2. Unread(h, net[r].n)' = Unread(g, b)
        BY <2>3, <3>1 DEF Unread
      <3> QED
        BY <2>2, <2>3, <3>1, <3>2
    <2> QED
      BY <2>1, <2>4 DEF RequestIs
  <1>19. ASSUME NEW q \in Requests, q # r
         PROVE  RequestIs(q)'
    <2>1. PollIs(q) /\ BatchIs(q) /\ ParkedIs(q) /\ net'[q] = net[q] /\ net[q] \in Calls
      BY <1>1, <1>11, <1>19 DEF Cursor, RequestIs, TypeOK, Calls
    <2>2. PollIs(q)'
      <3> SUFFICES ASSUME NEW h \in Groups, Is(q, "poll", "sent"), net[q].group = h
                   PROVE  Sending(h)' = {} /\ net[q].n <= Known(h)' /\ Unread(h, net[q].n)' \cap mine = {}
        BY <2>1 DEF PollIs, Is
      <3>1. Sending(h) = {} /\ net[q].n <= Known(h) /\ Unread(h, net[q].n) \cap mine = {}
        BY <2>1 DEF PollIs
      <3>2. net[q].n \in Nat
        BY <2>1 DEF Calls
      <3>3. Unread(h, net[q].n)' = Unread(h, net[q].n)
        BY <2>1 DEF Unread
      <3> QED
        BY <1>11, <1>16, <3>1, <3>2, <3>3
    <2>3. ParkedIs(q)'
      <3> SUFFICES ASSUME NEW h \in Groups, Is(q, "poll", "parked"), net[q].group = h
                   PROVE  h \in waiting /\ Known(h)' = Len(messages[h])
        BY <2>1 DEF ParkedIs, Is
      <3>1. h \in waiting /\ Known(h) = Len(messages[h])
        BY <2>1 DEF ParkedIs
      <3>2. h # g
        BY <1>a, <1>3, <3>1
      <3> QED
        BY <1>12, <3>1, <3>2
    <2>4. BatchIs(q)'
      <3>1. net[q].kind \in {"poll", "contents"} => BatchIs(q)'
        BY <1>17, <2>1, BatchKept
      <3> QED
        BY <2>1, <3>1 DEF BatchIs
    <2> QED
      BY <2>2, <2>3, <2>4 DEF RequestIs
  <1>20. (Shown \cap mine = {})'
    BY <1>a, <1>4 DEF Cursor
  <1> QED
    BY <1>15, <1>18, <1>19, <1>20 DEF Cursor

LEMMA ContentsCursor ==
  ASSUME BaseInv, Cursor, NEW r \in Requests, ContentsReply(r), faults' = {}
  PROVE  Cursor'
  <1>1. /\ TypeOK /\ net[r].kind = "contents" /\ net[r].stage = "answered"
        /\ UNCHANGED <<messages, waiting, mine>>
    BY DEF BaseInv, ContentsReply, Is, server
  <1>2. CASE net[r].ids = {}
    <2>1. net' = [net EXCEPT ![r] = NoCall] /\ rows' = rows
      BY <1>2 DEF ContentsReply
    <2>2. Shown' = Shown /\ \A g \in Groups : RowCount(g)' = RowCount(g)
      BY <2>1 DEF Shown, RowCount, RowsOf
    <2>3. ~ Is(r, "send", "sent") /\ (NoCall.kind # "send" \/ NoCall.stage # "sent")
      BY <1>1, CallsAre DEF Is
    <2>4. Still /\ net'[r] = NoCall /\ \A q \in Requests : q # r => net'[q] = net[q]
      BY <1>1, <2>1, <2>2, <2>3, StillButOne
    <2>5. RequestIs(r)'
      BY <2>4, CallsAre, IdleRequest
    <2> QED
      BY <2>4, <2>5, CursorStill
  <1>3. CASE net[r].ids # {}
    <2>1. PICK ids : ids = net[r].ids
      OBVIOUS
    <2>2. PICK g \in Groups : g = GroupOf(CHOOSE m \in ids : TRUE) /\ ids \in SUBSET Members(g)
      BY <1>1, <1>3, <2>1, BatchGroup
    <2>3. /\ net' = [net EXCEPT ![r] = Poll(g, NextCount(ids))]
          /\ rows' \in Stored(ids)
          /\ Fault("elsewhere", g # group_) = {}
          /\ Fault("repeated", \E i \in DOMAIN rows : rows[i].msg \in ids) = {}
          /\ Fault("crossed", UnderWay("send", g)) = {}
      BY <1>3, <2>1, <2>2 DEF ContentsReply
    <2>4. /\ g = group_ /\ ~ UnderWay("send", g)
          /\ ~ \E i \in DOMAIN rows : rows[i].msg \in ids
      BY <2>3, NoFault
    <2> QED
      BY <1>1, <1>3, <2>1, <2>2, <2>3, <2>4, StoredCursor
  <1> QED
    BY <1>2, <1>3

(* What is listed is not among the messages the client has. *)
LEMMA NewIsNotShown ==
  ASSUME BaseInv, messagesCounter < MaxMsgs, NEW g \in Groups, Listed(g)
  PROVE  /\ NextMessage \in Ids /\ NextMessage \notin Shown /\ NextMessage \notin mine
         /\ \A h \in Groups : NextMessage \notin Members(h)
  <1>1. /\ NextMessage \in Ids /\ NextMessage = messagesCounter + 1 /\ messagesCounter \in Nat
        /\ \A h \in Groups : NextMessage \notin Members(h)
    BY ListedIs DEF BaseInv, TypeOK
  <1>2. NextMessage \notin mine
    <2> SUFFICES ASSUME NextMessage \in mine
                 PROVE  FALSE
      OBVIOUS
    <2>1. NextMessage <= messagesCounter
      BY DEF BaseInv, ListsInv
    <2> QED
      BY <1>1, <2>1
  <1>3. NextMessage \notin Shown
    <2> SUFFICES ASSUME NEW i \in DOMAIN rows, rows[i].msg = NextMessage, NextMessage # 0
                 PROVE  FALSE
      BY <1>1 DEF Shown, Ids
    <2>1. rows[i].msg \in Members(rows[i].group)
      BY DEF BaseInv, RowsInv
    <2>2. rows[i].group \in Groups
      <3>1. rows \in Seq(TableRows)
        BY DEF BaseInv, TypeOK, TableRows
      <3>2. rows[i] \in TableRows
        BY <3>1
      <3> QED
        BY <3>2 DEF TableRows
    <2> QED
      BY <1>1, <2>1, <2>2
  <1> QED
    BY <1>1, <1>2, <1>3

LEMMA UnreadGrows ==
  ASSUME BaseInv, messagesCounter < MaxMsgs, NEW g \in Groups, Listed(g),
         NEW h \in Groups, NEW n \in Nat
  PROVE  Unread(h, n)' \subseteq Unread(h, n) \cup {NextMessage}
  <1>1. /\ \A k \in Groups : Len(messages[k]) \in Nat
        /\ \A k \in Groups : k # g => messages'[k] = messages[k]
        /\ Len(messages'[g]) = Len(messages[g]) + 1 /\ messages'[g][1] = NextMessage
        /\ \A i \in 1 .. Len(messages[g]) : messages'[g][i + 1] = messages[g][i]
    BY ListedIs, PlacesAre DEF BaseInv
  <1>2. CASE h # g
    BY <1>1, <1>2 DEF Unread
  <1>3. CASE h = g
    <2>1. ASSUME NEW i \in 1 .. Len(messages'[g]) - n
          PROVE  messages'[g][i] \in Unread(g, n) \cup {NextMessage}
      <3>1. CASE i = 1
        BY <1>1, <3>1
      <3>2. CASE i # 1
        <4>1. /\ i - 1 \in 1 .. Len(messages[g]) - n /\ i - 1 \in 1 .. Len(messages[g])
              /\ i = (i - 1) + 1
          BY <1>1, <3>2
        <4>2. messages'[g][i] = messages[g][i - 1]
          BY <1>1, <4>1
        <4> QED
          BY <4>1, <4>2 DEF Unread
      <3> QED
        BY <3>1, <3>2
    <2> QED
      BY <1>3, <2>1 DEF Unread
  <1> QED
    BY <1>2, <1>3

(* One more is listed, and of it the client has nothing: ... *)
LEMMA OthersListed ==
  ASSUME BaseInv, Cursor, messagesCounter < MaxMsgs, NEW g \in Groups, Listed(g),
         UNCHANGED <<rows, mine, waiting>>,
         \A h \in Groups : Sending(h)' = Sending(h)
  PROVE  /\ Forward /\ RowsArePrefix'
         /\ (Shown \cap mine = {})'
         /\ \A h \in Groups : Known(h)' = Known(h) /\ Known(h) \in 0 .. Len(messages[h])
  <1>1. TypeOK /\ ListsInv /\ RowsArePrefix
    BY DEF BaseInv, Cursor
  <1>2. /\ \A h \in Groups : Len(messages[h]) \in Nat
        /\ \A h \in Groups : h # g => messages'[h] = messages[h]
        /\ Len(messages'[g]) = Len(messages[g]) + 1
    BY <1>1, ListedIs, PlacesAre
  <1>3. /\ \A j : j = Len(messages[g]) + 1 => Place(g, j)' = NextMessage
        /\ \A h \in Groups : \A j \in 1 .. Len(messages[h]) : Place(h, j)' = Place(h, j)
    BY <1>1, PlacesStay
  <1>4. NextMessage \notin mine \cup Shown
    BY NewIsNotShown
  <1>5. Shown' = Shown /\ \A h : RowCount(h)' = RowCount(h)
    BY DEF Shown, RowCount, RowsOf
  <1>6. \A h \in Groups : Known(h)' = Known(h) /\ Known(h) \in 0 .. Len(messages[h])
    BY <1>1, <1>5 DEF Known, RowsArePrefix
  <1>7. RowsArePrefix'
    <2> SUFFICES ASSUME NEW h \in Groups
                 PROVE  /\ Known(h) \in 0 .. Len(messages'[h])
                        /\ \A j \in 1 .. Len(messages'[h]) :
                              Place(h, j)' \in mine \cup Shown <=> j <= Known(h)
      BY <1>5, <1>6 DEF RowsArePrefix
    <2>1. /\ Known(h) \in 0 .. Len(messages[h]) /\ Len(messages[h]) \in Nat
          /\ \A j \in 1 .. Len(messages[h]) : Place(h, j) \in mine \cup Shown <=> j <= Known(h)
      BY <1>1, <1>2 DEF RowsArePrefix
    <2>2. CASE h # g
      BY <1>2, <1>3, <2>1, <2>2
    <2>3. CASE h = g
      <3>1. Known(h) \in 0 .. Len(messages'[h])
        BY <1>2, <2>1, <2>3
      <3>2. ASSUME NEW j \in 1 .. Len(messages'[h])
            PROVE  Place(h, j)' \in mine \cup Shown <=> j <= Known(h)
        <4>1. CASE j = Len(messages[h]) + 1
          <5>1. ~ (j <= Known(h))
            BY <2>1, <4>1
          <5>2. Place(h, j)' = NextMessage
            BY <1>3, <2>3, <4>1
          <5> QED
            BY <1>4, <5>1, <5>2
        <4>2. CASE j # Len(messages[h]) + 1
          <5>1. j \in 1 .. Len(messages[h])
            BY <1>2, <2>1, <2>3, <4>2
          <5> QED
            BY <1>3, <2>1, <5>1
        <4> QED
          BY <4>1, <4>2
      <3> QED
        BY <3>1, <3>2
    <2> QED
      BY <2>2, <2>3
  <1>8. Forward
    <2>1. \A h \in Groups : /\ Len(messages[h]) \in Nat /\ Len(messages'[h]) \in Nat
                            /\ Len(messages[h]) <= Len(messages'[h])
      <3>1. \A h \in Groups : h # g => Len(messages'[h]) = Len(messages[h])
        BY <1>2
      <3> QED
        BY <1>2, <3>1
    <2>2. \A h \in Groups : Known(h) \in Nat /\ Known(h)' \in Nat /\ Known(h) <= Known(h)'
      BY <1>2, <1>6
    <2> QED
      BY <1>3, <2>1, <2>2 DEF Forward
  <1>9. (Shown \cap mine = {})'
    BY <1>5 DEF Cursor
  <1> QED
    BY <1>6, <1>7, <1>8, <1>9

(* ... a poll that is sent asks for it too, and a request that does not    *)
(* wait for news of its group does not notice.                             *)
LEMMA NotWoken ==
  ASSUME BaseInv, Cursor, messagesCounter < MaxMsgs, NEW g \in Groups, Listed(g),
         UNCHANGED <<rows, mine, waiting>>,
         \A h \in Groups : Sending(h)' = Sending(h),
         NEW r \in Requests, net'[r] = net[r],
         ~ (Is(r, "poll", "parked") /\ net[r].group = g)
  PROVE  RequestIs(r)'
  <1>1. /\ PollIs(r) /\ BatchIs(r) /\ ParkedIs(r)
        /\ TypeOK /\ ListsInv /\ net[r] \in Calls
    BY DEF Cursor, RequestIs, BaseInv, TypeOK, Calls
  <1>2. /\ Forward
        /\ \A h \in Groups : Known(h)' = Known(h)
    BY OthersListed
  <1>3. NextMessage \notin mine
    BY NewIsNotShown
  <1>4. PollIs(r)'
    <2> SUFFICES ASSUME NEW h \in Groups, Is(r, "poll", "sent"), net[r].group = h
                 PROVE  Sending(h)' = {} /\ net[r].n <= Known(h)' /\ Unread(h, net[r].n)' \cap mine = {}
      BY DEF PollIs, Is
    <2>1. Sending(h) = {} /\ net[r].n <= Known(h) /\ Unread(h, net[r].n) \cap mine = {}
      BY <1>1 DEF PollIs
    <2>2. PICK n \in Nat : n = net[r].n
      BY <1>1 DEF Calls
    <2>3. Unread(h, n)' \subseteq Unread(h, n) \cup {NextMessage}
      BY UnreadGrows
    <2>4. Unread(h, net[r].n)' = Unread(h, n)'
      BY <2>2 DEF Unread
    <2> QED
      BY <1>2, <1>3, <2>1, <2>2, <2>3, <2>4
  <1>5. ParkedIs(r)'
    <2> SUFFICES ASSUME NEW h \in Groups, Is(r, "poll", "parked"), net[r].group = h
                 PROVE  h \in waiting /\ Known(h)' = Len(messages'[h])
      BY DEF ParkedIs, Is
    <2>1. h # g
      OBVIOUS
    <2>2. messages'[h] = messages[h]
      BY <1>1, <2>1, ListedIs
    <2> QED
      BY <1>1, <1>2, <2>2 DEF ParkedIs
  <1>6. BatchIs(r)'
    <2>1. net[r].kind \in {"poll", "contents"} => BatchIs(r)'
      BY <1>1, <1>2, BatchKept
    <2> QED
      BY <2>1 DEF BatchIs
  <1> QED
    BY <1>4, <1>5, <1>6 DEF RequestIs

LEMMA OthersPostCutCursor ==
  ASSUME BaseInv, Cursor, NEW g \in Groups, OthersPostCut(g), faults' = {}
  PROVE  Cursor'
  <1>1. /\ Listed(g) /\ messagesCounter < MaxMsgs /\ Lost(Open) /\ Open \in SUBSET Requests
        /\ UNCHANGED <<rows, mine, waiting>>
    BY RoomIs DEF OthersPostCut, Die, Open, client
  <1>2. net' = Answered(Open, {}) /\ Open \cap Sends = {}
    BY <1>1, LostIs DEF BaseInv
  <1>3. /\ \A r \in Open : net'[r].ids = {} /\ net'[r].stage = "answered"
        /\ \A r \in Requests : r \notin Open => net'[r] = net[r]
    BY <1>1, <1>2, AnsweredIs DEF BaseInv
  <1>4. \A h \in Groups : Sending(h)' = Sending(h)
    <2>1. \A r \in Requests : net'[r] = net[r] \/ (r \notin Sends /\ net'[r].stage = "answered")
      BY <1>2, <1>3
    <2> QED
      BY <2>1 DEF Sending, Sends, Is
  <1>5. RowsArePrefix' /\ (Shown \cap mine = {})'
    BY <1>1, <1>4, OthersListed
  <1>6. ASSUME NEW r \in Requests
        PROVE  RequestIs(r)'
    <2>1. CASE r \in Open
      BY <1>3, <2>1, IdleRequest
    <2>2. CASE r \notin Open
      <3>1. ~ Is(r, "poll", "parked")
        BY <2>2 DEF Open, Free, Is
      <3> QED
        BY <1>1, <1>3, <1>4, <2>2, <3>1, NotWoken
    <2> QED
      BY <2>1, <2>2
  <1> QED
    BY <1>5, <1>6 DEF Cursor

LEMMA OthersPostCursor ==
  ASSUME BaseInv, Cursor, NEW g \in Groups, OthersPost(g), faults' = {}
  PROVE  Cursor'
  <1>1. /\ TypeOK /\ ListsInv /\ Listed(g) /\ messagesCounter < MaxMsgs
        /\ net' = Answered(Woken(g), {NextMessage})
        /\ Fault("elsewhere", \E r \in Woken(g) : net[r].group # g) = {}
        /\ UNCHANGED <<rows, mine, waiting>>
    BY RoomIs DEF BaseInv, OthersPost, client
  <1>2. NextMessage \in Ids /\ NextMessage \notin mine
    BY <1>1, NewIsNotShown
  <1>3. \A r \in Woken(g) : r \in Requests /\ Is(r, "poll", "parked") /\ net[r].group = g
    <2>1. \A r \in Woken(g) : net[r].group = g
      BY <1>1, NoFault
    <2> QED
      BY <1>1, <2>1 DEF Woken, Parked, BaseInv, RequestsInv, TypeOK
  <1>4. /\ \A r \in Woken(g) : /\ net'[r].ids = {NextMessage} /\ net'[r].stage = "answered"
        /\ \A r \in Requests : r \notin Woken(g) => net'[r] = net[r]
    BY <1>1, <1>2, <1>3, AnsweredIs
  <1>5. \A h \in Groups : Sending(h)' = Sending(h)
    <2>1. \A r \in Requests : \/ net'[r] = net[r]
                              \/ r \notin Sends /\ net'[r].stage = "answered"
      BY <1>3, <1>4 DEF Sends, Is
    <2> QED
      BY <2>1 DEF Sending, Sends, Is
  <1>6. /\ RowsArePrefix' /\ (Shown \cap mine = {})'
        /\ \A h \in Groups : Known(h)' = Known(h)
    BY <1>1, <1>5, OthersListed
  <1>7. ASSUME NEW r \in Woken(g)
        PROVE  RequestIs(r)'
    <2>1. PollIs(r)' /\ ParkedIs(r)'
      BY <1>4 DEF PollIs, ParkedIs, Is
    <2>2. Known(g) = Len(messages[g])
      BY <1>3 DEF Cursor, RequestIs, ParkedIs
    <2>3. PICK n \in Nat : n = Len(messages[g])
      BY <1>1, PlacesAre
    <2>4. Len(messages'[g]) = n + 1 /\ Place(g, n + 1)' = NextMessage
      BY <1>1, <2>3, ListedIs, PlacesStay
    <2>5. Batch(g, n, n + 1)' = {NextMessage}
      <3>1. \A j : j \in n + 1 .. n + 1 <=> j = n + 1
        BY <2>3
      <3>2. Batch(g, n, n + 1)' = {Place(g, j)' : j \in n + 1 .. n + 1}
        BY DEF Batch
      <3> QED
        BY <2>4, <3>1, <3>2
    <2>6. Known(g)' = n
      BY <1>6, <2>2, <2>3
    <2>7. n \in 0 .. Known(g)' /\ n + 1 \in 0 .. Len(messages'[g])
      BY <2>3, <2>4, <2>6
    <2>8. \E h \in Groups : \E a \in 0 .. Known(h)', b \in 0 .. Len(messages'[h]) :
             net'[r].ids = Batch(h, a, b)'
      BY <1>4, <2>5, <2>7
    <2>9. BatchIs(r)'
      BY <1>1, <1>2, <1>4, <2>8 DEF BatchIs
    <2> QED
      BY <2>1, <2>9 DEF RequestIs
  <1>8. ASSUME NEW r \in Requests, r \notin Woken(g)
        PROVE  RequestIs(r)'
    <2>1. ~ (Is(r, "poll", "parked") /\ net[r].group = g)
      <3> SUFFICES ASSUME Is(r, "poll", "parked"), net[r].group = g
                   PROVE  FALSE
        OBVIOUS
      <3>1. g \in waiting
        BY DEF Cursor, RequestIs, ParkedIs
      <3>2. r = pending
        BY DEF BaseInv, RequestsInv, Is
      <3> QED
        BY <1>8, <3>1, <3>2, ConversationAssumption DEF Woken, Parked
    <2> QED
      BY <1>1, <1>4, <1>5, <1>8, <2>1, NotWoken
  <1> QED
    BY <1>6, <1>7, <1>8 DEF Cursor

(* The client's own message, when all listed before it are there: they are *)
(* then the whole list.                                                    *)
LEMMA OwnListed ==
  ASSUME BaseInv, Cursor, messagesCounter < MaxMsgs,
         NEW r \in Requests, Is(r, "send", "sent"), NEW g \in Groups, g = net[r].group,
         Listed(g), Members(g) \subseteq mine \cup Shown,
         mine' = mine \cup {NextMessage}, net' = Answered({r}, {NextMessage}),
         UNCHANGED <<rows, waiting>>
  PROVE  Cursor'
  <1>1. TypeOK /\ ListsInv /\ RowsArePrefix
    BY DEF BaseInv, Cursor
  <1>2. /\ \A h \in Groups : /\ Len(messages[h]) \in Nat
                             /\ Known(h) \in 0 .. Len(messages[h])
                             /\ \A j \in 1 .. Len(messages[h]) : Place(h, j) \in Members(h)
        /\ \A h \in Groups : h # g => messages'[h] = messages[h]
        /\ Len(messages'[g]) = Len(messages[g]) + 1
    BY <1>1, ListedIs, PlacesAre DEF RowsArePrefix
  <1>3. /\ \A j : j = Len(messages[g]) + 1 => Place(g, j)' = NextMessage
        /\ \A h \in Groups : \A j \in 1 .. Len(messages[h]) : Place(h, j)' = Place(h, j)
    BY <1>1, PlacesStay
  <1>4. /\ NextMessage \in Ids /\ NextMessage \notin mine \cup Shown
        /\ \A h \in Groups : NextMessage \notin Members(h)
    BY NewIsNotShown
  <1>5. /\ net'[r].kind = "send" /\ net'[r].stage = "answered"
        /\ \A q \in Requests : q # r => net'[q] = net[q]
    BY <1>1, <1>4, AnsweredIs DEF Is
  <1>6. /\ r \in Sending(g) /\ \A h \in Groups : h = g => Sending(h)' = Sending(h) \ {r}
        /\ \A h \in Groups : h # g => Sending(h)' = Sending(h)
    BY <1>5 DEF Sending, Sends, Is
  <1>7. Shown' = Shown /\ \A h : RowCount(h)' = RowCount(h)
    BY DEF Shown, RowCount, RowsOf
  <1>8. \A h \in Groups : h # g => Known(h)' = Known(h)
    BY <1>6, <1>7 DEF Known
  <1>9. \A h \in Groups : h = g => Known(h)' = Known(h) + 1
    <2> SUFFICES ASSUME NEW h \in Groups, h = g
                 PROVE  Known(h)' = Known(h) + 1
      OBVIOUS
    <2>1. Sending(h) \in SUBSET Requests
      BY DEF Sending, Sends
    <2>2. IsFiniteSet(Sending(h)) /\ Cardinality(Sending(h)) \in Nat
      BY <2>1, SendsAreFinite
    <2>3. Cardinality(Sending(h) \ {r}) = Cardinality(Sending(h)) - 1
      BY <1>6, <2>2, OneMore
    <2>4. Cardinality(Sending(h)') = Cardinality(Sending(h)) - 1
      BY <1>6, <2>3
    <2>5. RowCount(h) \in Nat /\ RowCount(h)' = RowCount(h)
      BY <1>1, <1>7, RowCountIs
    <2> QED
      BY <2>2, <2>4, <2>5 DEF Known
  <1>10. Known(g) = Len(messages[g])
    <2>1. CASE Len(messages[g]) = 0
      BY <1>2, <2>1
    <2>2. CASE Len(messages[g]) # 0
      <3>1. Len(messages[g]) \in 1 .. Len(messages[g])
        BY <1>2, <2>2
      <3>2. Place(g, Len(messages[g])) \in mine \cup Shown
        BY <1>2, <3>1
      <3>3. Len(messages[g]) <= Known(g)
        BY <1>1, <3>1, <3>2 DEF RowsArePrefix
      <3> QED
        BY <1>2, <3>3
    <2> QED
      BY <2>1, <2>2
  <1>11. RowsArePrefix'
    <2> SUFFICES ASSUME NEW h \in Groups
                 PROVE  /\ Known(h)' \in 0 .. Len(messages'[h])
                        /\ \A j \in 1 .. Len(messages'[h]) :
                              Place(h, j)' \in mine \cup {NextMessage} \cup Shown <=> j <= Known(h)'
      BY <1>7 DEF RowsArePrefix
    <2>1. \A j \in 1 .. Len(messages[h]) : Place(h, j) \in mine \cup Shown <=> j <= Known(h)
      BY <1>1 DEF RowsArePrefix
    <2>2. CASE h # g
      <3>1. \A j \in 1 .. Len(messages[h]) : Place(h, j) # NextMessage
        BY <1>2, <1>4
      <3> QED
        BY <1>2, <1>3, <1>8, <2>1, <2>2, <3>1
    <2>3. CASE h = g
      <3>1. Known(h)' = Len(messages[h]) + 1 /\ Len(messages'[h]) = Len(messages[h]) + 1
        BY <1>2, <1>9, <1>10, <2>3
      <3>2. \A j \in 1 .. Len(messages[h]) + 1 :
               j = Len(messages[h]) + 1 \/ j \in 1 .. Len(messages[h])
        BY <1>2
      <3>3. \A j \in 1 .. Len(messages[h]) + 1 : Place(h, j)' \in mine \cup {NextMessage} \cup Shown
        <4> SUFFICES ASSUME NEW j \in 1 .. Len(messages[h]) + 1
                     PROVE  Place(h, j)' \in mine \cup {NextMessage} \cup Shown
          OBVIOUS
        <4>1. CASE j = Len(messages[h]) + 1
          BY <1>3, <2>3, <4>1
        <4>2. CASE j \in 1 .. Len(messages[h])
          BY <1>2, <1>3, <2>3, <4>2
        <4> QED
          BY <3>2, <4>1, <4>2
      <3> QED
        BY <1>2, <3>1, <3>3
    <2> QED
      BY <2>2, <2>3
  <1>12. Forward
    <2> SUFFICES ASSUME NEW h \in Groups
                 PROVE  /\ Len(messages[h]) \in Nat /\ Len(messages'[h]) \in Nat
                        /\ Len(messages[h]) <= Len(messages'[h])
                        /\ \A j \in 1 .. Len(messages[h]) : Place(h, j)' = Place(h, j)
                        /\ Known(h) \in Nat /\ Known(h)' \in Nat /\ Known(h) <= Known(h)'
                        /\ Members(h) \cap mine' \subseteq mine
      BY DEF Forward
    <2>1. Known(h) \in Nat /\ Known(h)' \in Nat /\ Known(h) <= Known(h)'
      BY <1>2, <1>8, <1>9
    <2>2. Len(messages'[h]) \in {Len(messages[h]), Len(messages[h]) + 1}
      BY <1>2
    <2>3. Members(h) \cap mine' \subseteq mine
      BY <1>4
    <2> QED
      BY <1>2, <1>3, <2>1, <2>2, <2>3
  <1>13. RequestIs(r)'
    BY <1>5 DEF RequestIs, PollIs, BatchIs, ParkedIs, Is
  <1>14. ASSUME NEW q \in Requests, q # r
         PROVE  RequestIs(q)'
    <2>1. /\ PollIs(q) /\ BatchIs(q) /\ ParkedIs(q) /\ net'[q] = net[q] /\ net[q] \in Calls
      BY <1>1, <1>5, <1>14 DEF Cursor, RequestIs, TypeOK, Calls
    <2>2. PollIs(q)'
      <3> SUFFICES ASSUME NEW h \in Groups, Is(q, "poll", "sent"), net[q].group = h
                   PROVE  /\ Sending(h)' = {} /\ net[q].n <= Known(h)'
                          /\ Unread(h, net[q].n)' \cap mine' = {}
        BY <2>1 DEF PollIs, Is
      <3>1. Sending(h) = {} /\ net[q].n <= Known(h) /\ Unread(h, net[q].n) \cap mine = {}
        BY <2>1 DEF PollIs
      <3>2. h # g
        BY <1>6, <3>1
      <3>3. Unread(h, net[q].n)' = Unread(h, net[q].n)
        BY <1>2, <2>1, <3>2 DEF Unread
      <3>4. Unread(h, net[q].n) \subseteq Members(h)
        <4>1. net[q].n \in Nat
          BY <2>1 DEF Calls
        <4> QED
          BY <1>1, <4>1, UnreadAre
      <3> QED
        BY <1>4, <1>6, <1>8, <3>1, <3>2, <3>3, <3>4
    <2>3. ParkedIs(q)'
      <3> SUFFICES ASSUME NEW h \in Groups, Is(q, "poll", "parked"), net[q].group = h
                   PROVE  h \in waiting /\ Known(h)' = Len(messages'[h])
        BY <2>1 DEF ParkedIs, Is
      <3>1. h \in waiting /\ Known(h) = Len(messages[h])
        BY <2>1 DEF ParkedIs
      <3>2. CASE h = g
        BY <1>2, <1>9, <3>1, <3>2
      <3>3. CASE h # g
        BY <1>2, <1>8, <3>1, <3>3
      <3> QED
        BY <3>1, <3>2, <3>3
    <2>4. BatchIs(q)'
      <3>1. net[q].kind \in {"poll", "contents"} => BatchIs(q)'
        BY <1>12, <2>1, BatchKept
      <3> QED
        BY <2>1, <3>1 DEF BatchIs
    <2> QED
      BY <2>2, <2>3, <2>4 DEF RequestIs
  <1>15. (Shown \cap mine = {})'
    BY <1>4, <1>7 DEF Cursor
  <1> QED
    BY <1>11, <1>13, <1>14, <1>15 DEF Cursor

(* A message that is sent has room for its id. *)
LEMMA SendingHasRoom ==
  ASSUME BaseInv, NEW r \in Sends
  PROVE  messagesCounter < MaxMsgs
  <1>1. Sends \in SUBSET Requests
    BY DEF Sends
  <1>2. IsFiniteSet(Sends)
    BY <1>1, SendsAreFinite
  <1>3. Cardinality(Sends) \in Nat /\ Cardinality(Sends) > 0
    BY <1>2, OneMore
  <1>4. messagesCounter \in Nat /\ MaxMsgs \in Nat /\ messagesCounter + Cardinality(Sends) <= MaxMsgs
    BY ConversationAssumption DEF BaseInv, TypeOK, RequestsInv
  <1> HIDE DEF Sends
  <1> QED
    BY <1>3, <1>4

LEMMA OwnPostCursor ==
  ASSUME BaseInv, Cursor, NEW r \in Requests, NewMessageHandle(r), faults' = {}
  PROVE  Cursor'
  <1>1. /\ RequestsInv /\ r \in Sends /\ Is(r, "send", "sent")
        /\ UNCHANGED <<waiting, rows>>
    BY DEF BaseInv, NewMessageHandle, Sends, client
  <1>2. PICK g \in Groups : g = net[r].group
    BY <1>1 DEF RequestsInv
  <1>3. CASE /\ Listed(g)
             /\ mine' = mine \cup {NextMessage}
             /\ net' = Answered({r}, {NextMessage})
             /\ faults' = faults \cup Fault("outOfTurn", ~ ToSet(messages[g]) \subseteq mine \cup Shown)
    <2>1. Members(g) \subseteq mine \cup Shown
      <3>1. Fault("outOfTurn", ~ ToSet(messages[g]) \subseteq mine \cup Shown) = {}
        BY <1>3
      <3> QED
        BY <3>1, NoFault DEF Members
    <2>2. messagesCounter < MaxMsgs
      BY <1>1, SendingHasRoom
    <2> QED
      BY <1>1, <1>2, <1>3, <2>1, <2>2, OwnListed
  <1>4. CASE /\ Lost({r}) \/ Die
             /\ UNCHANGED <<messages, mine>>
    <2>1. Open \in SUBSET Requests
      BY DEF Open
    <2> QED
      BY <1>1, <1>4, <2>1, LostCursor DEF Die
  <1> QED
    BY <1>2, <1>3, <1>4 DEF NewMessageHandle

(* No step takes a fault back. *)
LEMMA FaultsStay ==
  ASSUME [Next]_vars
  PROVE  faults \subseteq faults'
  <1>1. \A R : Lost(R) => faults \subseteq faults'
    BY DEF Lost
  <1>2. ASSUME NEW r \in Requests, Handle(r) \/ Reply(r) \/ Lose(r)
        PROVE  faults \subseteq faults'
    BY <1>1, <1>2 DEF Handle, Reply, Lose, PollingHandle, MessageContentHandle, NewMessageHandle,
                      UpdatesReply, ContentsReply, SendMessageReply, Die, history
  <1>3. ASSUME NEW t, SendMessage(t)
        PROVE  faults \subseteq faults'
    BY <1>3 DEF SendMessage
  <1>4. ASSUME NEW g \in Groups, \/ ShowGroup(g) \/ OthersPost(g) \/ OthersPostCut(g)
                                 \/ ChangeOthers(g) \/ AddClient(g) \/ RemoveClient(g)
        PROVE  faults \subseteq faults'
    BY <1>1, <1>4 DEF ShowGroup, OthersPost, OthersPostCut, ChangeOthers, AddClient, RemoveClient,
                      Change, Die
  <1>5. Crash => faults \subseteq faults'
    BY <1>1 DEF Crash, Die
  <1>6. UNCHANGED vars => faults \subseteq faults'
    BY DEF vars, history
  <1> QED
    BY <1>2, <1>3, <1>4, <1>5, <1>6 DEF Next

LEMMA CursorStep ==
  ASSUME BaseInv, Cursor, [Next]_vars, faults' = {}
  PROVE  Cursor'
  <1>1. ASSUME NEW r \in Requests, Handle(r) \/ Reply(r)
        PROVE  Cursor'
    BY <1>1, PollingCursor, ContentCursor, OwnPostCursor, UpdatesCursor, ContentsCursor, DeliveredCursor
       DEF Handle, Reply
  <1>2. ASSUME NEW r \in Requests, Lose(r)
        PROVE  Cursor'
    BY <1>2, LostCursor DEF Lose, client
  <1>3. ASSUME NEW t \in {seconds, seconds + 1}, SendMessage(t)
        PROVE  Cursor'
    BY <1>3, SendCursor
  <1>4. ASSUME NEW g \in Groups, ShowGroup(g) \/ OthersPost(g) \/ OthersPostCut(g)
        PROVE  Cursor'
    BY <1>4, ShowCursor, OthersPostCursor, OthersPostCutCursor
  <1>5. ASSUME NEW g \in Groups, ChangeOthers(g) \/ AddClient(g) \/ RemoveClient(g)
        PROVE  Cursor'
    BY <1>5, ChangeCursor DEF ChangeOthers, AddClient, RemoveClient
  <1>6. CASE Crash
    <2>1. Open \in SUBSET Requests /\ Lost(Open) /\ UNCHANGED <<messages, mine, waiting, rows>>
      BY <1>6 DEF Open, Crash, Die, client
    <2> QED
      BY <2>1, LostCursor
  <1>7. CASE UNCHANGED vars
    <2>1. UNCHANGED <<messages, mine, waiting, rows, net>>
      BY <1>7 DEF vars, server, client, history
    <2>2. Still
      BY <2>1 DEF Still, Shown, RowCount, RowsOf, Sending, Sends, Is
    <2> QED
      BY <2>1, <2>2, CursorStill
  <1> QED
    BY <1>1, <1>2, <1>3, <1>4, <1>5, <1>6, <1>7 DEF Next

LEMMA ReadingIs == ReadingInv <=> BaseInv /\ (faults = {} => Cursor)
  BY CursorIs DEF ReadingInv, OwnNotFetched

LEMMA ReadingStep == ReadingInv /\ [Next]_vars => ReadingInv'
  <1> SUFFICES ASSUME ReadingInv, [Next]_vars
               PROVE  ReadingInv'
    OBVIOUS
  <1>1. BaseInv /\ BaseInv'
    BY BaseStep DEF ReadingInv
  <1>2. ASSUME faults' = {}
        PROVE  Cursor'
    <2>1. faults = {}
      BY <1>2, FaultsStay
    <2>2. Cursor
      BY <2>1, ReadingIs
    <2> QED
      BY <1>1, <1>2, <2>2, CursorStep
  <1>3. Cursor' => CursorInv' /\ (Shown \cap mine = {})'
    BY DEF Cursor, CursorInv, RequestIs, PollIs, BatchIs, ParkedIs,
           PollsAreBehind, BatchesGoOn, WaitingHasAll
  <1> QED
    BY <1>1, <1>2, <1>3 DEF ReadingInv, OwnNotFetched

(* The invariant behind the two theorems. *)
LEMMA ReadingIsInvariant == Spec => []ReadingInv
  <1>1. Init => ReadingInv
    BY BaseInit, CursorInit, ReadingIs
  <1> QED
    BY <1>1, ReadingStep, PTL DEF Spec

(* A prefix of the list has, with each of its places, all before it. *)
LEMMA PrefixHasNoGaps == ReadingInv => NoGaps
  <1> SUFFICES ASSUME ReadingInv, faults = {}, NEW m \in Shown, NEW o \in Older(GroupOf(m), m)
               PROVE  o \in mine \cup Shown
    BY DEF NoGaps
  <1>1. /\ TypeOK /\ ListsInv /\ RowsInv /\ RowsArePrefix
    BY DEF ReadingInv, BaseInv, CursorInv
  <1>2. PICK i \in DOMAIN rows : rows[i].msg = m /\ m # 0
    BY DEF Shown
  <1>3. rows[i].group \in Groups
    <2>1. rows \in Seq(TableRows)
      BY <1>1 DEF TypeOK, TableRows
    <2>2. rows[i] \in TableRows
      BY <2>1
    <2> QED
      BY <2>2 DEF TableRows
  <1>4. PICK g \in Groups : g = rows[i].group
    BY <1>3
  <1>5. m \in Members(g)
    BY <1>1, <1>2, <1>4 DEF RowsInv
  <1>6. GroupOf(m) = g
    BY <1>1, <1>5, GroupOfIs
  <1>j. PICK j \in DOMAIN messages[g] : o = messages[g][j] /\ \E k \in 1 .. j - 1 : messages[g][k] = m
    BY <1>6 DEF Older
  <1>7. PICK k \in 1 .. j - 1 : o = messages[g][j] /\ messages[g][k] = m
    BY <1>j
  <1>8. Len(messages[g]) \in Nat /\ DOMAIN messages[g] = 1 .. Len(messages[g])
    BY <1>1 DEF TypeOK
  <1>k. j \in 1 .. Len(messages[g]) /\ k \in 1 .. Len(messages[g]) /\ k < j
    BY <1>8
  <1>9. /\ Len(messages[g]) + 1 - j \in 1 .. Len(messages[g])
        /\ Len(messages[g]) + 1 - k \in 1 .. Len(messages[g])
        /\ Len(messages[g]) + 1 - (Len(messages[g]) + 1 - j) = j
        /\ Len(messages[g]) + 1 - (Len(messages[g]) + 1 - k) = k
        /\ Len(messages[g]) + 1 - j <= Len(messages[g]) + 1 - k
    <2>1. \A l \in Nat : \A p, q \in 1 .. l : q < p =>
             /\ l + 1 - p \in 1 .. l /\ l + 1 - q \in 1 .. l
             /\ l + 1 - (l + 1 - p) = p /\ l + 1 - (l + 1 - q) = q
             /\ l + 1 - p <= l + 1 - q
      OBVIOUS
    <2> QED
      BY <1>8, <1>k, <2>1
  <1>10. Place(g, Len(messages[g]) + 1 - j) = o /\ Place(g, Len(messages[g]) + 1 - k) = m
    BY <1>7, <1>9 DEF Place
  <1>11. Known(g) \in Nat /\ \A p \in 1 .. Len(messages[g]) : Place(g, p) \in mine \cup Shown <=> p <= Known(g)
    BY <1>1, <1>8 DEF RowsArePrefix
  <1>12. Len(messages[g]) + 1 - k <= Known(g)
    BY <1>9, <1>10, <1>11
  <1>13. Len(messages[g]) + 1 - j <= Known(g)
    BY <1>8, <1>9, <1>11, <1>12
  <1> QED
    BY <1>9, <1>10, <1>11, <1>13

(* While none of Faults has happened, messagesReceived leaves out nothing: *)
(* who has a message of a group has all that were listed before it.        *)
THEOREM NothingIsLeftOut == Spec => []NoGaps
  BY ReadingIsInvariant, PrefixHasNoGaps, PTL

(* ... and nothing the client has sent comes back to it as a second row.   *)
THEOREM OwnIsNotFetched == Spec => []OwnNotFetched
  <1>1. ReadingInv => OwnNotFetched
    BY DEF ReadingInv
  <1> QED
    BY <1>1, ReadingIsInvariant, PTL

-----------------------------------------------------------------------------
(* Reader, step by step *)

(* The places of s up to k, as a set. *)
LEMMA PrefixIs ==
  ASSUME NEW s \in Seq(Ids), NEW S, NEW k \in 0 .. Len(s),
         \A j \in 1 .. Len(s) : s[Len(s) + 1 - j] \in S <=> j <= k
  PROVE  ToSet(s) \cap S = {s[i] : i \in Len(s) + 1 - k .. Len(s)}
  <1>1. Len(s) \in Nat /\ DOMAIN s = 1 .. Len(s)
    OBVIOUS
  <1>2. \A i \in 1 .. Len(s) : s[i] \in S <=> i \in Len(s) + 1 - k .. Len(s)
    <2> TAKE i \in 1 .. Len(s)
    <2>1. PICK j \in 1 .. Len(s) : j = Len(s) + 1 - i
      BY <1>1
    <2>2. Len(s) + 1 - j = i
      BY <1>1, <2>1
    <2>3. s[i] \in S <=> j <= k
      BY <2>2
    <2>4. j <= k <=> i \in Len(s) + 1 - k .. Len(s)
      BY <1>1, <2>1
    <2> QED
      BY <2>3, <2>4
  <1>3. Len(s) + 1 - k .. Len(s) \subseteq 1 .. Len(s)
    BY <1>1
  <1> QED
    BY <1>1, <1>2, <1>3 DEF ToSet

LEMMA AllAre ==
  ASSUME NEW g \in Groups
  PROVE  ReaderOf!All(g) = Members(g)
  BY DEF ReaderOf!All, Members, ToSet

LEMMA HadIs ==
  /\ DOMAIN Had = Groups
  /\ \A g \in Groups : Had[g] = Members(g) \cap (mine \cup Shown)
  BY DEF Had

LEMMA HadThen ==
  /\ DOMAIN Had' = Groups
  /\ \A g \in Groups : Had'[g] = Members(g)' \cap (mine' \cup Shown')
  BY DEF Had

(* What the user has and what there is stays as it is. *)
LEMMA ReadsStill ==
  ASSUME UNCHANGED <<messages, mine>>, Shown' = Shown, faults = {}, faults' = {}
  PROVE  UNCHANGED ReaderOf!vars
  <1>1. Had' = Had
    BY DEF Had, Members
  <1> QED
    BY <1>1 DEF ReaderOf!vars

(* One more is listed.  If it is the client's own, it had all before.      *)
LEMMA ReadsPost ==
  ASSUME BaseInv, messagesCounter < MaxMsgs, NEW g \in Groups, Listed(g),
         Shown' = Shown, faults = {}, faults' = {},
         \/ mine' = mine
         \/ mine' = mine \cup {NextMessage} /\ Members(g) \subseteq mine \cup Shown
  PROVE  ReaderOf!Keep
  <1>1. /\ NextMessage \in Ids /\ NextMessage \notin Shown /\ NextMessage \notin mine
        /\ \A h \in Groups : NextMessage \notin Members(h)
    BY NewIsNotShown
  <1>2. /\ Members(g)' = Members(g) \cup {NextMessage}
        /\ \A h \in Groups : h # g => Members(h)' = Members(h)
    BY MembersGrow DEF BaseInv
  <1>3. ReaderOf!Post(g, NextMessage)
    BY <1>1, AllAre DEF ReaderOf!Post, Listed
  <1>4. CASE mine' = mine
    <2>1. \A h \in Groups : Had'[h] = Had[h]
      BY <1>1, <1>2, <1>4, HadIs, HadThen
    <2>2. Had' = Had
      BY <2>1 DEF Had
    <2>3. ReaderOf!Others(g, NextMessage)
      BY <1>3, <2>2 DEF ReaderOf!Others
    <2> QED
      BY <1>1, <2>3 DEF ReaderOf!Keep
  <1>5. CASE mine' = mine \cup {NextMessage} /\ Members(g) \subseteq mine \cup Shown
    <2>1. Had[g] = ReaderOf!All(g)
      BY <1>5, HadIs, AllAre
    <2>2. /\ Had'[g] = Had[g] \cup {NextMessage}
          /\ \A h \in Groups : h # g => Had'[h] = Had[h]
      <3>1. Had'[g] = (Members(g) \cup {NextMessage}) \cap (mine \cup {NextMessage} \cup Shown)
        BY <1>2, <1>5, HadThen
      <3>2. Had'[g] = Had[g] \cup {NextMessage}
        BY <3>1, HadIs
      <3>3. ASSUME NEW h \in Groups, h # g
            PROVE  Had'[h] = Had[h]
        <4>1. Had'[h] = Members(h) \cap (mine \cup {NextMessage} \cup Shown)
          BY <1>2, <1>5, <3>3, HadThen
        <4> QED
          BY <1>1, <4>1, HadIs
      <3> QED
        BY <3>2, <3>3
    <2>3. Had' = [Had EXCEPT ![g] = @ \cup {NextMessage}]
      BY <2>2 DEF Had
    <2>4. ReaderOf!Own(g, NextMessage)
      BY <1>3, <2>1, <2>3 DEF ReaderOf!Own
    <2> QED
      BY <1>1, <2>4 DEF ReaderOf!Keep
  <1> QED
    BY <1>4, <1>5

(* A batch is stored: the user reads on in its group and in no other. *)
LEMMA ReadsOnBatch ==
  ASSUME BaseInv, Cursor, TypeOK', RowsArePrefix',
         NEW r \in Requests, net[r].kind = "contents",
         NEW ids, ids = net[r].ids, ids # {},
         NEW g \in Groups, ids \in SUBSET Members(g),
         ~ \E i \in DOMAIN rows : rows[i].msg \in ids,
         rows' \in Stored(ids), UNCHANGED <<messages, mine>>,
         faults = {}, faults' = {}
  PROVE  ReaderOf!Keep
  <1>1. \A m \in ids : m \in Ids /\ <<"id", m>> \notin Keys
    <2> SUFFICES ASSUME NEW m \in ids, NEW i \in DOMAIN rows, rows[i].trueid = <<"id", m>>
                 PROVE  m \in Ids /\ FALSE
      BY PlacesAre DEF BaseInv, Keys
    <2>1. m \in Ids
      BY PlacesAre DEF BaseInv
    <2> QED
      BY <2>1 DEF BaseInv, RowsInv
  <1>2. Shown' = Shown \cup ids
    BY <1>1, StoredCounts DEF BaseInv
  <1>3. \A h : Members(h)' = Members(h)
    BY DEF Members
  <1>4. \A h \in Groups : h # g => Members(h) \cap ids = {}
    BY GroupOfIs DEF BaseInv
  <1>5. \A h \in Groups : h # g => Had'[h] = Had[h]
    BY <1>2, <1>3, <1>4, HadIs, HadThen
  <1>6. Had[g] \subseteq Had'[g] /\ ids \subseteq Had'[g]
    BY <1>2, <1>3, HadIs, HadThen
  <1>7. ids \cap Had[g] = {}
    <2>1. ids \cap mine = {}
      BY DEF Cursor, RequestIs, BatchIs
    <2>2. ids \cap Shown = {}
      BY DEF Shown
    <2> QED
      BY <2>1, <2>2, HadIs
  <1>8. PICK k \in 0 .. Len(messages[g]) :
           \A j \in 1 .. Len(messages[g]) : Place(g, j) \in mine \cup Shown' <=> j <= k
    <2>1. Place(g, Known(g))' = Place(g, Known(g))' /\ \A j : Place(g, j)' = Place(g, j)
      BY DEF Place
    <2>2. /\ Known(g)' \in 0 .. Len(messages[g])
          /\ \A j \in 1 .. Len(messages[g]) : Place(g, j)' \in mine \cup Shown' <=> j <= Known(g)'
      BY DEF RowsArePrefix
    <2> QED
      BY <2>1, <2>2
  <1>9. Had'[g] = ReaderOf!Oldest(g, k)
    <2>1. messages[g] \in Seq(Ids)
      BY DEF BaseInv, TypeOK
    <2>2. Members(g) \cap (mine \cup Shown') = ReaderOf!Oldest(g, k)
      BY <1>8, <2>1, PrefixIs DEF Place, Members, ReaderOf!Oldest
    <2> QED
      BY <1>3, <2>2, HadThen
  <1>10. k \in 1 .. Len(messages[g])
    <2>1. Len(messages[g]) \in Nat
      BY PlacesAre DEF BaseInv
    <2>2. ASSUME k = 0
          PROVE  ReaderOf!Oldest(g, k) = {}
      BY <2>1, <2>2 DEF ReaderOf!Oldest
    <2>3. k # 0
      BY <1>6, <1>9, <2>2
    <2> QED
      BY <2>1, <2>3
  <1>11. Had' = [Had EXCEPT ![g] = ReaderOf!Oldest(g, k)]
    BY <1>5, <1>9 DEF Had
  <1>12. Had[g] \subseteq ReaderOf!Oldest(g, k) /\ Had[g] # ReaderOf!Oldest(g, k)
    BY <1>6, <1>7, <1>9
  <1>13. ReaderOf!Read(g, k)
    BY <1>11, <1>12 DEF ReaderOf!Read
  <1> QED
    BY <1>10, <1>13 DEF ReaderOf!Keep

LEMMA ReadsContents ==
  ASSUME BaseInv, Cursor, TypeOK', RowsArePrefix', NEW r \in Requests, ContentsReply(r),
         faults = {}, faults' = {}
  PROVE  ReaderOf!Keep \/ UNCHANGED ReaderOf!vars
  <1>1. net[r].kind = "contents" /\ UNCHANGED <<messages, mine>>
    BY DEF ContentsReply, Is, server
  <1>2. CASE net[r].ids = {}
    <2>1. Shown' = Shown
      BY <1>2 DEF ContentsReply, Shown
    <2> QED
      BY <1>1, <2>1, ReadsStill
  <1>3. CASE net[r].ids # {}
    <2>1. PICK ids : ids = net[r].ids
      OBVIOUS
    <2>2. PICK g \in Groups : g = GroupOf(CHOOSE m \in ids : TRUE) /\ ids \in SUBSET Members(g)
      BY <1>1, <1>3, <2>1, BatchGroup
    <2>3. /\ rows' \in Stored(ids)
          /\ Fault("repeated", \E i \in DOMAIN rows : rows[i].msg \in ids) = {}
      BY <1>3, <2>1 DEF ContentsReply
    <2>4. ~ \E i \in DOMAIN rows : rows[i].msg \in ids
      BY <2>3, NoFault
    <2> QED
      BY <1>1, <1>3, <2>1, <2>2, <2>3, <2>4, ReadsOnBatch
  <1> QED
    BY <1>2, <1>3

LEMMA ReadsOwn ==
  ASSUME BaseInv, NEW r \in Requests, NewMessageHandle(r), faults = {}, faults' = {}
  PROVE  ReaderOf!Keep \/ UNCHANGED ReaderOf!vars
  <1>1. RequestsInv /\ r \in Sends /\ UNCHANGED rows
    BY DEF BaseInv, NewMessageHandle, Sends, client
  <1>2. PICK g \in Groups : g = net[r].group
    BY <1>1 DEF RequestsInv
  <1>3. Shown' = Shown
    BY <1>1 DEF Shown
  <1>4. CASE /\ Listed(g)
             /\ mine' = mine \cup {NextMessage}
             /\ faults' = faults \cup Fault("outOfTurn", ~ ToSet(messages[g]) \subseteq mine \cup Shown)
    <2>1. Members(g) \subseteq mine \cup Shown
      BY <1>4, NoFault DEF Members
    <2>2. messagesCounter < MaxMsgs
      BY <1>1, SendingHasRoom
    <2> QED
      BY <1>3, <1>4, <2>1, <2>2, ReadsPost
  <1>5. CASE UNCHANGED <<messages, mine>>
    BY <1>3, <1>5, ReadsStill
  <1> QED
    BY <1>2, <1>4, <1>5 DEF NewMessageHandle

(* Each step of the client, the server and the others is one of Reader's,  *)
(* or none.                                                                *)
LEMMA ReadsStep ==
  ASSUME BaseInv, Cursor, TypeOK', RowsArePrefix', [Next]_vars, faults = {}, faults' = {}
  PROVE  ReaderOf!Keep \/ UNCHANGED ReaderOf!vars
  <1>0. ASSUME UNCHANGED <<messages, mine, rows>>
        PROVE  UNCHANGED ReaderOf!vars
    <2>1. Shown' = Shown
      BY <1>0 DEF Shown
    <2> QED
      BY <1>0, <2>1, ReadsStill
  <1>1. ASSUME NEW r \in Requests, Handle(r)
        PROVE  ReaderOf!Keep \/ UNCHANGED ReaderOf!vars
    <2>1. CASE PollingHandle(r) \/ MessageContentHandle(r)
      BY <1>0, <2>1 DEF PollingHandle, MessageContentHandle, server, client, history
    <2> QED
      BY <1>1, <2>1, ReadsOwn DEF Handle
  <1>2. ASSUME NEW r \in Requests, Reply(r)
        PROVE  ReaderOf!Keep \/ UNCHANGED ReaderOf!vars
    <2>1. CASE UpdatesReply(r)
      BY <1>0, <2>1 DEF UpdatesReply, server, client, history
    <2>2. CASE SendMessageReply(r)
      <3>1. /\ DOMAIN rows' = DOMAIN rows
            /\ \A i \in DOMAIN rows : rows'[i].msg = rows[i].msg
        BY <2>2, DeliveredRows
      <3>2. Shown' = Shown
        BY <3>1 DEF Shown
      <3> QED
        BY <2>2, <3>2, ReadsStill DEF SendMessageReply, server, history
    <2> QED
      BY <1>2, <2>1, <2>2, ReadsContents DEF Reply
  <1>3. ASSUME NEW r \in Requests, Lose(r)
        PROVE  UNCHANGED ReaderOf!vars
    BY <1>0, <1>3 DEF Lose, client
  <1>4. ASSUME NEW t \in {seconds, seconds + 1}, SendMessage(t)
        PROVE  UNCHANGED ReaderOf!vars
    <2>1. Shown' = Shown
      BY <1>4, SentRows
    <2> QED
      BY <1>4, <2>1, ReadsStill DEF SendMessage, server
  <1>5. ASSUME NEW g \in Groups, OthersPost(g) \/ OthersPostCut(g)
        PROVE  ReaderOf!Keep
    <2>1. Listed(g) /\ messagesCounter < MaxMsgs /\ UNCHANGED <<rows, mine>>
      BY <1>5, RoomIs DEF OthersPost, OthersPostCut, client
    <2>2. Shown' = Shown
      BY <2>1 DEF Shown
    <2> QED
      BY <2>1, <2>2, ReadsPost
  <1>6. ASSUME NEW g \in Groups, ShowGroup(g) \/ ChangeOthers(g) \/ AddClient(g) \/ RemoveClient(g)
        PROVE  UNCHANGED ReaderOf!vars
    BY <1>0, <1>6 DEF ShowGroup, ChangeOthers, AddClient, RemoveClient, Change, server, client
  <1>7. CASE Crash
    BY <1>0, <1>7 DEF Crash, client
  <1>8. CASE UNCHANGED vars
    BY <1>0, <1>8 DEF vars, server, client, history
  <1> QED
    BY <1>1, <1>2, <1>3, <1>4, <1>5, <1>6, <1>7, <1>8 DEF Next

(* The client, the server and the others together implement Reader: until  *)
(* one of Faults happens, every step of theirs leaves what the user has as *)
(* it is, lists one more message, or reads on in one group.                *)
THEOREM ReadsInOrder == Spec => ReadsOn
  <1>1. Init => ReaderOf!Init
    <2> SUFFICES ASSUME Init
                 PROVE  ReaderOf!Init
      OBVIOUS
    <2>1. messages = [g \in Groups |-> << >>] /\ faults = {}
      BY DEF Init
    <2>2. \A g \in Groups : Members(g) = {}
      BY <2>1 DEF Members, ToSet
    <2>3. Had = [g \in Groups |-> {}]
      BY <2>2 DEF Had
    <2> QED
      BY <2>1, <2>3 DEF ReaderOf!Init
  <1>2. ReadingInv /\ ReadingInv' /\ [Next]_vars => [ReaderOf!Next]_(ReaderOf!vars)
    <2> SUFFICES ASSUME ReadingInv, ReadingInv', [Next]_vars
                 PROVE  [ReaderOf!Next]_(ReaderOf!vars)
      OBVIOUS
    <2>1. CASE faults' # {}
      BY <2>1 DEF ReaderOf!Next, ReaderOf!GiveUp
    <2>2. CASE faults' = {}
      <3>1. faults = {}
        BY <2>2, FaultsStay
      <3>2. BaseInv /\ Cursor
        BY <3>1, ReadingIs
      <3>3. TypeOK' /\ RowsArePrefix'
        BY <2>2 DEF ReadingInv, BaseInv, CursorInv
      <3>4. ReaderOf!Keep \/ UNCHANGED ReaderOf!vars
        BY <2>2, <3>1, <3>2, <3>3, ReadsStep
      <3> QED
        BY <3>4 DEF ReaderOf!Next
    <2> QED
      BY <2>1, <2>2
  <1> QED
    BY <1>1, <1>2, ReadingIsInvariant, PTL DEF Spec, ReadsOn, ReaderOf!Spec
=============================================================================
