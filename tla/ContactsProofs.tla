--------------------------- MODULE ContactsProofs ---------------------------
(***************************************************************************)
(* Whatever is lost, crosses or comes late, a row of the client's table    *)
(* has only members and the admin of its own group; and with nothing under *)
(* way every group has its row with all of its members and no other, but   *)
(* where one of the events named in Contacts left one out or behind.       *)
(***************************************************************************)
EXTENDS Contacts, FiniteSetTheorems, TLAPS

-----------------------------------------------------------------------------
(* Bags of requests *)

(* What is open after one request has been replaced by others. *)
LEMMA InsteadIs ==
  ASSUME IsABag(net), NEW c \in BagToSet(net), NEW S, net' = Instead(c, S)
  PROVE  /\ IsABag(net')
         /\ \A d \in BagToSet(net') : d \in S \/ d \in BagToSet(net)
         /\ \A d \in S : d \in BagToSet(net')
         /\ \A d \in BagToSet(net) : d # c => d \in BagToSet(net')
         /\ Copies(c, net) = 1 => \A d \in BagToSet(net') : d \in S \/ d # c
         /\ \A d \in BagToSet(net) : d # c /\ d \notin S => Copies(d, net') = Copies(d, net)
         /\ \A d \in S : d \notin BagToSet(net) => Copies(d, net') = 1
  <1> DEFINE less == net (-) SetToBag({c})
  <1>1. \A d \in BagToSet(net) : net[d] \in Nat /\ net[d] > 0
    BY DEF IsABag, BagToSet
  <1>2. /\ DOMAIN less = {d \in DOMAIN net : d # c \/ net[d] - 1 > 0}
        /\ \A d \in DOMAIN less : less[d] = IF d = c THEN net[d] - 1 ELSE net[d]
    <2> DEFINE B == [e \in DOMAIN net |-> IF e \in {c} THEN net[e] - [x \in {c} |-> 1][e] ELSE net[e]]
    <2>1. less = [e \in {d \in DOMAIN B : B[d] > 0} |-> B[e]]
      BY DEF (-), SetToBag
    <2>2. \A d \in DOMAIN net : B[d] = IF d = c THEN net[d] - 1 ELSE net[d]
      OBVIOUS
    <2>3. DOMAIN B = DOMAIN net
      OBVIOUS
    <2> HIDE DEF B
    <2> QED
      BY <1>1, <2>1, <2>2, <2>3 DEF BagToSet
  <1>3. /\ DOMAIN net' = DOMAIN less \cup S
        /\ \A d \in DOMAIN net' : net'[d] = (IF d \in DOMAIN less THEN less[d] ELSE 0)
                                           + (IF d \in S THEN 1 ELSE 0)
    BY DEF Instead, (+), SetToBag
  <1> HIDE DEF less
  <1>4. net' = [e \in DOMAIN net' |-> net'[e]]
    BY DEF Instead, (+)
  <1>5. \A d \in DOMAIN less : less[d] \in Nat /\ less[d] > 0
    BY <1>1, <1>2 DEF BagToSet
  <1>6. \A d \in DOMAIN net' : net'[d] \in Nat /\ net'[d] > 0
    BY <1>3, <1>5
  <1>7. IsABag(net')
    BY <1>4, <1>6 DEF IsABag
  <1> QED
    BY <1>1, <1>2, <1>3, <1>7 DEF BagToSet, Copies

(* What is open after more has been asked. *)
LEMMA SentIs ==
  ASSUME IsABag(net), NEW S, net' = Sent(S)
  PROVE  /\ IsABag(net')
         /\ \A d \in BagToSet(net') : d \in S \/ d \in BagToSet(net)
         /\ \A d \in S : d \in BagToSet(net')
         /\ \A d \in BagToSet(net) : d \in BagToSet(net')
         /\ \A d \in BagToSet(net) : d \notin S => Copies(d, net') = Copies(d, net)
         /\ \A d \in S : d \notin BagToSet(net) => Copies(d, net') = 1
  <1>1. \A d \in BagToSet(net) : net[d] \in Nat /\ net[d] > 0
    BY DEF IsABag, BagToSet
  <1>2. /\ DOMAIN net' = DOMAIN net \cup S
        /\ \A d \in DOMAIN net' : net'[d] = (IF d \in DOMAIN net THEN net[d] ELSE 0)
                                           + (IF d \in S THEN 1 ELSE 0)
    BY DEF Sent, (+), SetToBag
  <1>3. net' = [e \in DOMAIN net' |-> net'[e]]
    BY DEF Sent, (+)
  <1>4. \A d \in DOMAIN net' : net'[d] \in Nat /\ net'[d] > 0
    BY <1>1, <1>2 DEF BagToSet
  <1>5. IsABag(net')
    BY <1>3, <1>4 DEF IsABag
  <1> QED
    BY <1>1, <1>2, <1>5 DEF BagToSet, Copies

LEMMA SetIsABag ==
  ASSUME NEW S
  PROVE  IsABag(SetToBag(S)) /\ BagToSet(SetToBag(S)) = S
  BY DEF IsABag, SetToBag, BagToSet

-----------------------------------------------------------------------------
(* The table *)

(* contactid is a key of t. *)
Keyed(t) ==
  /\ t \in Seq(TableRows)
  /\ \A i, j \in DOMAIN t : t[i].contactid = t[j].contactid => i = j

SameGroups(r, t) ==
  /\ Len(r) = Len(t) /\ DOMAIN r = DOMAIN t
  /\ \A i \in DOMAIN t : r[i].contactid = t[i].contactid

LEMMA NoRowIsRow == NoRow \in TableRows
  BY DEF NoRow, Row, TableRows

LEMMA RowOfIs ==
  ASSUME NEW t, Keyed(t), NEW g
  PROVE  /\ RowOf(g, t) \in TableRows
         /\ ~ HasRow(g, t) => RowOf(g, t) = NoRow
         /\ \A i \in DOMAIN t : t[i].contactid = g => RowOf(g, t) = t[i]
         /\ HasRow(g, t) => RowOf(g, t).contactid = g
  <1>1. \A i \in DOMAIN t : t[i].contactid = g => RowOf(g, t) = t[i]
    BY DEF Keyed, RowOf, HasRow
  <1>2. \A i \in DOMAIN t : t[i] \in TableRows
    BY DEF Keyed
  <1> QED
    BY <1>1, <1>2, NoRowIsRow DEF RowOf, HasRow

LEMMA FirstIs ==
  ASSUME NEW t, Keyed(t)
  PROVE  /\ First(t) \in TableRows
         /\ First(t) = NoRow \/ \E i \in DOMAIN t : First(t) = t[i]
  <1>1. CASE t = << >>
    BY <1>1, NoRowIsRow DEF First
  <1>2. CASE t # << >>
    <2>1. 1 \in DOMAIN t /\ t[1] \in TableRows
      BY <1>2 DEF Keyed
    <2> QED
      BY <1>2, <2>1 DEF First
  <1> QED
    BY <1>1, <1>2

LEMMA UpdatesAre ==
  ASSUME NEW t, Keyed(t), NEW rec \in TableRows, NEW r \in Updates(t, rec)
  PROVE  /\ Keyed(r) /\ SameGroups(r, t)
         /\ \A i \in DOMAIN t : t[i].contactid # rec.contactid => r[i] = t[i]
         /\ \A i \in DOMAIN t : t[i].contactid = rec.contactid =>
               r[i].members = rec.members /\ r[i].admin \in {rec.admin, t[i].admin}
  <1>1. \A i \in DOMAIN t : t[i] \in TableRows
    BY DEF Keyed
  <1>2. PICK whole \in BOOLEAN :
          r = [i \in DOMAIN t |-> IF t[i].contactid = rec.contactid
                                  THEN [rec EXCEPT !.admin = IF whole THEN @ ELSE t[i].admin] ELSE t[i]]
    BY DEF Updates
  <1>3. \A i \in DOMAIN t : /\ r[i] \in TableRows /\ r[i].contactid = t[i].contactid
                            /\ t[i].contactid # rec.contactid => r[i] = t[i]
                            /\ t[i].contactid = rec.contactid =>
                                 r[i].members = rec.members /\ r[i].admin \in {rec.admin, t[i].admin}
    BY <1>1, <1>2 DEF TableRows
  <1>4. DOMAIN r = DOMAIN t /\ DOMAIN t = 1 .. Len(t) /\ Len(t) \in Nat
    BY <1>2 DEF Keyed
  <1>5. r \in Seq(TableRows) /\ Len(r) = Len(t)
    BY <1>2, <1>3, <1>4
  <1> QED
    BY <1>3, <1>4, <1>5 DEF Keyed, SameGroups

(* An admin is written into the row it is of, and leaves its members. *)
LEMMA WithAdminAre ==
  ASSUME NEW t, Keyed(t), NEW g \in Groups, NEW admin \in Users, NEW r \in WithAdmin(t, g, admin)
  PROVE  /\ Keyed(r) /\ SameGroups(r, t)
         /\ \A i \in DOMAIN t : t[i].contactid # g => r[i] = t[i]
         /\ \A i \in DOMAIN t : r[i].members = t[i].members /\ r[i].admin \in {t[i].admin, admin}
  <1>1. \A i \in DOMAIN t : t[i] \in TableRows
    BY DEF Keyed
  <1>2. PICK rec \in {First(t), RowOf(g, t)} :
          r = [i \in DOMAIN t |-> IF IsOf(rec, g) /\ IsOf(t[i], rec.contactid)
                                  THEN [rec EXCEPT !.admin = admin] ELSE t[i]]
    BY DEF WithAdmin
  <1>3. \A i \in DOMAIN t : IsOf(rec, g) /\ IsOf(t[i], rec.contactid) => rec = t[i]
    <2>1. rec = NoRow \/ \E i \in DOMAIN t : rec = t[i]
      BY FirstIs, RowOfIs DEF HasRow
    <2>2. NoRow.contactid # g
      BY ContactsAssumption DEF NoRow, Row
    <2> QED
      BY <2>1, <2>2 DEF IsOf, Keyed
  <1>4. \A i \in DOMAIN t : /\ r[i] \in TableRows /\ r[i].contactid = t[i].contactid
                            /\ t[i].contactid # g => r[i] = t[i]
                            /\ r[i].members = t[i].members /\ r[i].admin \in {t[i].admin, admin}
    BY <1>1, <1>2, <1>3 DEF TableRows, IsOf
  <1>5. DOMAIN r = DOMAIN t /\ DOMAIN t = 1 .. Len(t) /\ Len(t) \in Nat
    BY <1>2 DEF Keyed
  <1>6. r \in Seq(TableRows) /\ Len(r) = Len(t)
    <2>1. r = [i \in 1 .. Len(t) |-> r[i]] /\ \A i \in 1 .. Len(t) : r[i] \in TableRows
      BY <1>2, <1>4, <1>5
    <2> QED
      BY <1>5, <2>1
  <1>7. \A i, j \in DOMAIN r : r[i].contactid = r[j].contactid => i = j
    BY <1>4, <1>5 DEF Keyed
  <1>8. Keyed(r) /\ SameGroups(r, t)
    BY <1>4, <1>5, <1>6, <1>7 DEF Keyed, SameGroups
  <1> QED
    BY <1>4, <1>8

LEMMA RowsAreKeyed == TypeOK => Keyed(rows)
  BY DEF TypeOK, Keyed, IsInjective

-----------------------------------------------------------------------------
(* What the replies write *)

LEMMA AppendedIs ==
  ASSUME NEW S, NEW s \in Seq(S), NEW t \in Seq(S), NEW r, r = s \o t
  PROVE  /\ r \in Seq(S) /\ Len(r) = Len(s) + Len(t)
         /\ \A i \in 1 .. Len(s) : r[i] = s[i]
         /\ \A i \in 1 .. Len(t) : r[Len(s) + i] = t[i]
  OBVIOUS

(* Rows for new groups are appended, one for each of them. *)
LEMMA NewGroupsWrite ==
  ASSUME TypeOK, RowsInv, NEW c \in BagToSet(net), NewGroups(c)
  PROVE  /\ c.ans \subseteq Groups \cup {NoGroup}
         /\ Keyed(rows')
         /\ \A i \in DOMAIN rows : i \in DOMAIN rows' /\ rows'[i] = rows[i]
         /\ \A i \in DOMAIN rows' : i \in DOMAIN rows \/
               (rows'[i].contactid \in c.ans /\ rows'[i] = Row(rows'[i].contactid, {Me}, NoUser))
         /\ \A g \in c.ans : HasRow(g, rows')
  <1> DEFINE ids == New(c.ans)
  <1>1. c.ans \subseteq Groups \cup {NoGroup}
    BY DEF NewGroups, Is, RowsInv, ReplyFits
  <1>2. IsFiniteSet(ids)
    <2>1. IsFiniteSet(Groups \cup {NoGroup})
      BY ContactsAssumption, FS_AddElement
    <2> QED
      BY <1>1, <2>1, FS_Subset DEF New
  <1>3. PICK order \in SetToSeqs(ids) :
          rows' = rows \o [i \in DOMAIN order |-> Row(order[i], {Me}, NoUser)]
    BY DEF NewGroups
  <1> DEFINE n == Cardinality(ids)
  <1>4. n \in Nat
    BY <1>2, FS_CardinalityType
  <1> HIDE DEF n
  <1>5. /\ order \in [1 .. n -> ids]
        /\ \A i, j \in 1 .. n : i # j => order[i] # order[j]
    BY <1>3 DEF SetToSeqs, n
  <1>6. \A g \in ids : \E i \in 1 .. n : order[i] = g
    <2>1. order \in Injection(1 .. n, ids)
      BY <1>5 DEF Injection, IsInjective
    <2>2. Cardinality(1 .. n) = n
      BY <1>4, FS_Interval
    <2>3. order \in Surjection(1 .. n, ids)
      BY <1>2, <2>1, <2>2, FS_Injection DEF n
    <2> QED
      BY <2>3 DEF Surjection
  <1>7. PICK more \in Seq(TableRows) :
          /\ rows' = rows \o more /\ Len(more) = n
          /\ \A i \in 1 .. n : more[i] = Row(order[i], {Me}, NoUser)
    <2> DEFINE m == [i \in 1 .. n |-> Row(order[i], {Me}, NoUser)]
    <2>1. \A i \in 1 .. n : Row(order[i], {Me}, NoUser) \in TableRows
      BY <1>1, <1>5, ContactsAssumption DEF Row, TableRows, New
    <2>2. /\ m \in Seq(TableRows) /\ Len(m) = n
          /\ \A i \in 1 .. n : m[i] = Row(order[i], {Me}, NoUser)
      BY <1>4, <2>1
    <2>3. rows' = rows \o m
      BY <1>3, <1>5
    <2> HIDE DEF m
    <2> QED
      BY <2>2, <2>3
  <1>8. rows \in Seq(TableRows)
    BY DEF TypeOK
  <1>9. DOMAIN rows = 1 .. Len(rows) /\ Len(rows) \in Nat
    BY <1>8
  <1>10. /\ rows' \in Seq(TableRows) /\ Len(rows') = Len(rows) + n
         /\ DOMAIN rows' = 1 .. Len(rows) + n
         /\ \A i \in 1 .. Len(rows) : rows'[i] = rows[i]
         /\ \A i \in 1 .. n : rows'[Len(rows) + i] = more[i]
    <2>1. /\ rows' \in Seq(TableRows) /\ Len(rows') = Len(rows) + Len(more)
          /\ \A i \in 1 .. Len(rows) : rows'[i] = rows[i]
          /\ \A i \in 1 .. Len(more) : rows'[Len(rows) + i] = more[i]
      <3>1. rows' = rows \o more
        BY <1>7
      <3> QED
        BY <1>8, <3>1, AppendedIs
    <2>2. DOMAIN rows' = 1 .. Len(rows')
      BY <2>1
    <2> QED
      BY <1>7, <2>1, <2>2
  <1>11. \A i \in DOMAIN rows' : i \in DOMAIN rows \/
            \E k \in 1 .. n : i = Len(rows) + k /\ rows'[i] = Row(order[k], {Me}, NoUser)
    <2> SUFFICES ASSUME NEW i \in DOMAIN rows', i \notin DOMAIN rows
                 PROVE  \E k \in 1 .. n : i = Len(rows) + k /\ rows'[i] = Row(order[k], {Me}, NoUser)
      OBVIOUS
    <2>1. i - Len(rows) \in 1 .. n /\ i = Len(rows) + (i - Len(rows))
      BY <1>4, <1>9, <1>10
    <2> QED
      BY <1>7, <1>10, <2>1
  <1>12. \A k \in 1 .. n : order[k] \in c.ans /\ \A i \in DOMAIN rows : rows[i].contactid # order[k]
    BY <1>5 DEF New, HasRow
  <1>13. \A i \in DOMAIN rows : i \in DOMAIN rows' /\ rows'[i] = rows[i]
    BY <1>4, <1>9, <1>10
  <1>14. \A i, j \in DOMAIN rows' : rows'[i].contactid = rows'[j].contactid => i = j
    <2>1. \A k \in 1 .. n : Row(order[k], {Me}, NoUser).contactid = order[k]
      BY DEF Row
    <2>2. \A k, l \in 1 .. n : order[k] = order[l] => k = l
      BY <1>5
    <2>3. \A i, j \in DOMAIN rows : rows[i].contactid = rows[j].contactid => i = j
      BY RowsAreKeyed DEF Keyed
    <2> TAKE i, j \in DOMAIN rows'
    <2> HAVE rows'[i].contactid = rows'[j].contactid
    <2>4. CASE i \in DOMAIN rows /\ j \in DOMAIN rows
      BY <1>13, <2>3, <2>4
    <2>5. \A m \in DOMAIN rows' : m \notin DOMAIN rows =>
            \E k \in 1 .. n : m = Len(rows) + k /\ rows'[m].contactid = order[k]
      BY <1>11, <2>1
    <2>6. \A m, l \in DOMAIN rows' : m \in DOMAIN rows /\ l \notin DOMAIN rows =>
            rows'[m].contactid # rows'[l].contactid
      BY <1>12, <1>13, <2>5
    <2>7. CASE i \notin DOMAIN rows /\ j \notin DOMAIN rows
      BY <2>2, <2>5, <2>7
    <2> QED
      BY <2>4, <2>6, <2>7
  <1>15. \A g \in c.ans : HasRow(g, rows')
    <2> SUFFICES ASSUME NEW g \in c.ans
                 PROVE  HasRow(g, rows')
      OBVIOUS
    <2>1. CASE HasRow(g, rows)
      BY <1>13, <2>1 DEF HasRow
    <2>2. CASE ~ HasRow(g, rows)
      <3>1. PICK k \in 1 .. n : order[k] = g
        BY <1>6, <2>2 DEF New
      <3>2. Len(rows) + k \in DOMAIN rows'
        BY <1>4, <1>9, <1>10
      <3>3. rows'[Len(rows) + k] = Row(g, {Me}, NoUser)
        BY <1>7, <1>10, <3>1
      <3> QED
        BY <3>2, <3>3 DEF HasRow, Row
    <2> QED
      BY <2>1, <2>2
  <1>16. \A i \in DOMAIN rows' : i \in DOMAIN rows \/
            (rows'[i].contactid \in c.ans /\ rows'[i] = Row(rows'[i].contactid, {Me}, NoUser))
    BY <1>11, <1>12 DEF Row
  <1> QED
    BY <1>1, <1>10, <1>13, <1>14, <1>15, <1>16 DEF Keyed

(* The members of a group are written into its row, and so is its admin. *)
LEMMA GroupUsersWrite ==
  ASSUME TypeOK, RowsInv, NEW c \in BagToSet(net), GroupUsersReply(c), c.ans # {}
  PROVE  LET g == c.group
             rec == RecordOf(g)
         IN  /\ g \in Groups /\ c.ans \subseteq ever[g] /\ HasRow(g, rows)
             /\ rec \in {listed, RowOf(g, rows)} /\ rec \in TableRows
             /\ Keyed(rows') /\ SameGroups(rows', rows)
             /\ \A i \in DOMAIN rows : rows[i].contactid # g => rows'[i] = rows[i]
             /\ \A i \in DOMAIN rows : rows[i].contactid = g =>
                   /\ rows'[i].members = IF Adds(rec, g, c.ans) THEN rec.members \cup c.ans
                                                                ELSE rows[i].members
                   /\ \/ rows'[i].admin \in {rows[i].admin, Creator[g]}
                      \/ rec.contactid = g /\ rows'[i].admin = rec.admin
  <1> DEFINE g == c.group
             rec == RecordOf(g)
             M == c.ans
  <1>1. c.kind = "members" /\ ReplyFits(c)
    BY DEF GroupUsersReply, Is, RowsInv
  <1>2. g \in Groups /\ M \subseteq ever[g] /\ HasRow(g, rows) /\ M \subseteq Users
    BY <1>1 DEF ReplyFits, TypeOK
  <1>3. Keyed(rows)
    BY RowsAreKeyed
  <1>4. rec \in {listed, RowOf(g, rows)} /\ rec \in TableRows
    BY <1>3, RowOfIs DEF RecordOf, Filtered, TypeOK
  <1>5. PICK t \in IF Adds(rec, g, M) THEN WithMembers(rows, rec, M) ELSE {rows} :
          rows' \in WithAdmin(t, g, Creator[g])
    BY DEF GroupUsersReply
  <1> HIDE DEF g, rec, M
  <1>6. /\ Keyed(t) /\ SameGroups(t, rows)
        /\ \A i \in DOMAIN rows : rows[i].contactid # g => t[i] = rows[i]
        /\ \A i \in DOMAIN rows : rows[i].contactid = g =>
              /\ t[i].members = IF Adds(rec, g, M) THEN rec.members \cup M ELSE rows[i].members
              /\ \/ t[i].admin = rows[i].admin
                 \/ rec.contactid = g /\ t[i].admin = rec.admin
    <2>1. CASE Adds(rec, g, M)
      <3> DEFINE new == [rec EXCEPT !.members = @ \cup M]
      <3>1. new \in TableRows /\ new.contactid = g /\ rec.contactid = g
            /\ new.members = rec.members \cup M /\ new.admin = rec.admin
        BY <1>2, <1>4, <2>1 DEF TableRows, Adds, IsOf
      <3>2. t \in Updates(rows, new)
        BY <1>5, <2>1 DEF WithMembers
      <3> HIDE DEF new
      <3> QED
        BY <1>3, <2>1, <3>1, <3>2, UpdatesAre
    <2>2. CASE ~ Adds(rec, g, M)
      BY <1>3, <1>5, <2>2 DEF SameGroups
    <2> QED
      BY <2>1, <2>2
  <1>7. Creator[g] \in Users
    BY <1>2, ContactsAssumption
  <1>8. /\ Keyed(rows') /\ SameGroups(rows', t)
        /\ \A i \in DOMAIN t : t[i].contactid # g => rows'[i] = t[i]
        /\ \A i \in DOMAIN t : rows'[i].members = t[i].members
                               /\ rows'[i].admin \in {t[i].admin, Creator[g]}
    BY <1>2, <1>5, <1>6, <1>7, WithAdminAre
  <1>9. SameGroups(rows', rows)
    BY <1>6, <1>8 DEF SameGroups
  <1>10. \A i \in DOMAIN rows : rows[i].contactid # g => rows'[i] = rows[i]
    BY <1>6, <1>8 DEF SameGroups
  <1>11. \A i \in DOMAIN rows : rows[i].contactid = g =>
              /\ rows'[i].members = IF Adds(rec, g, M) THEN rec.members \cup M ELSE rows[i].members
              /\ \/ rows'[i].admin \in {rows[i].admin, Creator[g]}
                 \/ rec.contactid = g /\ rows'[i].admin = rec.admin
    BY <1>6, <1>8 DEF SameGroups
  <1> QED
    BY <1>2, <1>4, <1>8, <1>9, <1>10, <1>11 DEF g, rec, M

(* A reply to a change is written into the row of the page, if that is of  *)
(* the group of the reply, or nowhere.                                     *)
LEMMA MemberReplyWrites ==
  ASSUME TypeOK, RowsInv, NEW c \in BagToSet(net), MemberReply(c)
  PROVE  LET g == c.group
             u == c.user
         IN  /\ g \in Groups /\ u \in Users \ {Me} /\ ReplyFits(c)
             /\ Keyed(rows') /\ SameGroups(rows', rows)
             /\ \A i \in DOMAIN rows : rows[i].contactid # g => rows'[i] = rows[i]
             /\ \/ /\ c.ans # {} /\ page # NoGroup /\ paged.contactid = g
                   /\ c.kind = "add" \/ u \in paged.members
                   /\ \A i \in DOMAIN rows : rows[i].contactid = g =>
                        /\ rows'[i].members = IF c.kind = "add" THEN paged.members \cup {u}
                                                                ELSE paged.members \ {u}
                        /\ rows'[i].admin \in {rows[i].admin, paged.admin}
                   /\ paged' = RowOf(page, rows')
                \/ /\ c.ans # {} /\ page # NoGroup /\ paged.contactid = g =>
                        (c.kind = "add" <=> u \in paged.members)
                   /\ rows' = rows /\ paged' = paged
  <1> DEFINE g == c.group
             u == c.user
             new == [paged EXCEPT !.members = IF c.kind = "add" THEN @ \cup {u} ELSE @ \ {u}]
  <1>1. c.kind \in {"add", "remove"} /\ ReplyFits(c)
    BY DEF MemberReply, Is, RowsInv
  <1>2. g \in Groups /\ u \in Users \ {Me}
    BY <1>1 DEF ReplyFits
  <1>3. Keyed(rows) /\ paged \in TableRows
    BY RowsAreKeyed DEF TypeOK
  <1>4. CASE /\ c.ans # {} /\ page # NoGroup /\ paged.contactid = g
             /\ c.kind = "add" \/ u \in paged.members
             /\ rows' \in Updates(rows, new) /\ paged' = RowOf(page, rows')
    <2>1. /\ new \in TableRows /\ new.contactid = g /\ new.admin = paged.admin
          /\ new.members = IF c.kind = "add" THEN paged.members \cup {u} ELSE paged.members \ {u}
      BY <1>2, <1>3, <1>4 DEF TableRows
    <2> HIDE DEF new, g, u
    <2>2. /\ Keyed(rows') /\ SameGroups(rows', rows)
          /\ \A i \in DOMAIN rows : rows[i].contactid # g => rows'[i] = rows[i]
          /\ \A i \in DOMAIN rows : rows[i].contactid = g =>
                rows'[i].members = new.members /\ rows'[i].admin \in {new.admin, rows[i].admin}
      BY <1>3, <1>4, <2>1, UpdatesAre
    <2> QED
      BY <1>1, <1>2, <1>4, <2>1, <2>2 DEF g, u
  <1>5. CASE /\ c.ans # {} /\ page # NoGroup /\ paged.contactid = g =>
                  (c.kind = "add" <=> u \in paged.members)
             /\ rows' = rows /\ paged' = paged
    BY <1>1, <1>2, <1>3, <1>5 DEF SameGroups
  <1>6. \/ /\ c.ans # {} /\ page # NoGroup /\ paged.contactid = g
           /\ c.kind = "add" \/ u \in paged.members
           /\ rows' \in Updates(rows, new) /\ paged' = RowOf(page, rows')
        \/ /\ c.ans # {} /\ page # NoGroup /\ paged.contactid = g =>
                (c.kind = "add" <=> u \in paged.members)
           /\ rows' = rows /\ paged' = paged
    <2>1. CASE c.kind = "add"
      BY <2>1 DEF MemberReply, Adds, IsOf, WithMembers, Reselected
    <2>2. CASE c.kind = "remove"
      BY <2>2 DEF MemberReply, Removes, IsOf, WithoutMember, Reselected
    <2> QED
      BY <1>1, <2>1, <2>2
  <1> QED
    BY <1>4, <1>5, <1>6

-----------------------------------------------------------------------------
(* Requests and replies *)

LEMMA CallIs ==
  ASSUME NEW kind \in Kinds, NEW g \in Groups \cup {NoGroup}, NEW u \in Users \cup {NoUser}
  PROVE  /\ Call(kind, g, u) \in Calls
         /\ Call(kind, g, u).kind = kind /\ Call(kind, g, u).stage = "sent"
         /\ Call(kind, g, u).group = g /\ Call(kind, g, u).user = u /\ Call(kind, g, u).ans = {}
  BY DEF Call, Calls

(* Groups only get more members, and the table more rows. *)
Grows ==
  /\ ever' \in [Groups -> SUBSET Users]
  /\ \A g \in Groups : ever[g] \subseteq ever'[g]
  /\ \A g : HasRow(g, rows) => HasRow(g, rows')

LEMMA ReplyFitsKept ==
  ASSUME Grows, NEW d \in Calls, ReplyFits(d)
  PROVE  ReplyFits(d)'
  <1> DEFINE was == IF d.group \in Groups THEN ever[d.group] ELSE {}
             is == IF d.group \in Groups THEN ever'[d.group] ELSE {}
  <1>1. was \subseteq is /\ (HasRow(d.group, rows) => HasRow(d.group, rows'))
    BY DEF Grows
  <1>2. d.kind \in Kinds
    BY DEF Calls
  <1>3. CASE d.kind \in {"groups", "poll", "new_group"}
    BY <1>3 DEF ReplyFits
  <1>4. CASE d.kind = "members"
    BY <1>1, <1>4 DEF ReplyFits
  <1>5. CASE d.kind \in {"add", "remove"}
    BY <1>1, <1>5 DEF ReplyFits
  <1> QED
    BY <1>2, <1>3, <1>4, <1>5 DEF Kinds

LEMMA FitsKept ==
  ASSUME Grows, NEW row \in TableRows, Fits(row)
  PROVE  Fits(row)'
  <1>1. row.contactid # NoGroup => row.contactid \in Groups
    BY DEF TableRows
  <1> QED
    BY <1>1 DEF Fits, Grows

NetFits ==
  /\ IsABag(net') /\ BagToSet(net') \subseteq Calls
  /\ \A d \in BagToSet(net') : ReplyFits(d)'

LEMMA InsteadFits ==
  ASSUME TypeOK, RowsInv, Grows, NEW c \in BagToSet(net), NEW S \in SUBSET Calls,
         net' = Instead(c, S), \A d \in S : ReplyFits(d)'
  PROVE  NetFits
  <1>1. /\ IsABag(net')
        /\ \A d \in BagToSet(net') : d \in S \/ d \in BagToSet(net)
    BY InsteadIs DEF TypeOK
  <1>2. \A d \in BagToSet(net) : d \in Calls /\ ReplyFits(d)'
    BY ReplyFitsKept DEF TypeOK, RowsInv
  <1> QED
    BY <1>1, <1>2 DEF NetFits

LEMMA SentFits ==
  ASSUME TypeOK, RowsInv, Grows, NEW S \in SUBSET Calls,
         net' = Sent(S), \A d \in S : ReplyFits(d)'
  PROVE  NetFits
  <1>1. /\ IsABag(net')
        /\ \A d \in BagToSet(net') : d \in S \/ d \in BagToSet(net)
    BY SentIs DEF TypeOK
  <1>2. \A d \in BagToSet(net) : d \in Calls /\ ReplyFits(d)'
    BY ReplyFitsKept DEF TypeOK, RowsInv
  <1> QED
    BY <1>1, <1>2 DEF NetFits

LEMMA UnchangedFits ==
  ASSUME TypeOK, RowsInv, Grows, net' = net
  PROVE  NetFits
  BY ReplyFitsKept DEF TypeOK, RowsInv, NetFits

-----------------------------------------------------------------------------
(* The type, and rows of one group *)

BaseInv == TypeOK /\ RowsInv

LEMMA BaseInit == Init => BaseInv
  <1> SUFFICES ASSUME Init
               PROVE  BaseInv
    OBVIOUS
  <1>1. PollCall \in Calls /\ GroupsCall \in Calls /\ PollCall.ans = {} /\ GroupsCall.ans = {}
        /\ PollCall.kind = "poll" /\ GroupsCall.kind = "groups"
    BY CallIs DEF PollCall, GroupsCall, Kinds
  <1>2. IsABag(net) /\ BagToSet(net) = {PollCall, GroupsCall}
    BY SetIsABag DEF Init
  <1>3. \A d \in BagToSet(net) : d \in Calls /\ ReplyFits(d)
    BY <1>1, <1>2 DEF ReplyFits
  <1>4. rows \in Seq(TableRows) /\ DOMAIN rows = {}
    BY DEF Init
  <1>5. TypeOK
    <2>1. /\ created \subseteq Groups /\ groupmembers \in [Groups -> SUBSET Users]
          /\ ever \in [Groups -> SUBSET Users]
      BY ContactsAssumption DEF Init
    <2>2. IsInjective([i \in DOMAIN rows |-> rows[i].contactid])
      BY <1>4 DEF IsInjective
    <2>3. events \in 0 .. MaxEvents /\ logins \in 1 .. MaxLogins
      BY ContactsAssumption DEF Init
    <2> QED
      BY <1>2, <1>3, <1>4, <2>1, <2>2, <2>3, NoRowIsRow DEF Init, TypeOK
  <1>6. RowsInv
    BY <1>3, <1>4 DEF Init, RowsInv, Fits, NoRow, Row
  <1> QED
    BY <1>5, <1>6 DEF BaseInv

(* Steps that change no row and nobody's membership. *)
LEMMA NetStep ==
  ASSUME BaseInv, UNCHANGED <<groupmembers, ever, rows, listed, pages>>,
         created' \subseteq Groups, contact_' \in Groups \cup {NoGroup},
         Grows => NetFits,
         events' \in 0 .. MaxEvents, logins' \in 1 .. MaxLogins,
         missed' \in BOOLEAN, left' \in BOOLEAN
  PROVE  BaseInv'
  <1>1. Grows /\ NetFits
    BY DEF Grows, BaseInv, TypeOK
  <1>2. TypeOK'
    BY <1>1 DEF BaseInv, TypeOK, NetFits, pages
  <1>3. RowsInv'
    BY <1>1 DEF BaseInv, RowsInv, NetFits, Fits, pages
  <1> QED
    BY <1>2, <1>3 DEF BaseInv

LEMMA HandleFits ==
  ASSUME BaseInv, NEW c \in BagToSet(net),
         PollingHandle(c) \/ ReadHandle(c) \/ NewGroupHandle(c) \/ Message(c) \/ Lose(c)
  PROVE  BaseInv'
  <1> USE DEF BaseInv
  <1>0. c \in Calls /\ ReplyFits(c) /\ c.kind \in Kinds
    BY DEF TypeOK, RowsInv, Calls
  <1>1. CASE PollingHandle(c)
    <2>1. Grows => NetFits
      <3> DEFINE d == [c EXCEPT !.stage = "parked"]
      <3>1. d \in Calls /\ d.kind = "poll" /\ d.ans = c.ans
        BY <1>0, <1>1 DEF PollingHandle, Is, Calls
      <3>2. ReplyFits(d)'
        BY <1>0, <1>1, <3>1 DEF ReplyFits, PollingHandle, Is
      <3>3. net' = Instead(c, {d})
        BY <1>1 DEF PollingHandle
      <3> HIDE DEF d
      <3> QED
        BY <3>1, <3>2, <3>3, InsteadFits
    <2> QED
      BY <1>1, <2>1, NetStep DEF PollingHandle, server, table, counts, TypeOK
  <1>2. CASE ReadHandle(c)
    <2>1. PICK ans : ans = IF c.kind = "groups" THEN Listed
                           ELSE IF c.group \in Groups THEN groupmembers[c.group] ELSE {}
      OBVIOUS
    <2>2. ans \in SUBSET (Groups \cup Users \cup {NoGroup})
      BY <2>1 DEF TypeOK, Listed
    <2>3. PICK d : d = [c EXCEPT !.stage = "answered", !.ans = ans]
      OBVIOUS
    <2>4. d \in Calls /\ d.kind = c.kind /\ d.group = c.group /\ d.ans = ans
      BY <1>0, <2>2, <2>3 DEF Calls
    <2>5. Grows => ReplyFits(d)'
      <3>1. CASE c.kind = "groups"
        BY <2>1, <2>4, <3>1 DEF ReplyFits, Listed, TypeOK
      <3>2. CASE c.kind = "members"
        BY <1>0, <1>2, <2>1, <2>4, <3>2 DEF ReadHandle, ReplyFits, RowsInv, server, table
      <3> QED
        BY <1>2, <3>1, <3>2 DEF ReadHandle, Is
    <2>6. net' = Instead(c, {d})
      BY <1>2, <2>1, <2>3 DEF ReadHandle, Answered
    <2>7. Grows => NetFits
      BY <2>4, <2>5, <2>6, InsteadFits
    <2> QED
      BY <1>2, <2>7, NetStep DEF ReadHandle, server, table, counts, TypeOK
  <1>3. CASE NewGroupHandle(c)
    <2>1. PICK g \in Own \ created : created' = created \cup {g} /\ net' = Answered(c, {g})
      BY <1>3 DEF NewGroupHandle
    <2>2. g \in Groups
      BY <2>1 DEF Own
    <2>3. PICK d : d = [c EXCEPT !.stage = "answered", !.ans = {g}]
      OBVIOUS
    <2>4. d \in Calls /\ d.kind = "new_group" /\ d.ans = {g}
      BY <1>0, <1>3, <2>2, <2>3 DEF NewGroupHandle, Is, Calls
    <2>5. ReplyFits(d)'
      BY <2>2, <2>4 DEF ReplyFits
    <2>6. net' = Instead(c, {d})
      BY <2>1, <2>3 DEF Answered
    <2>7. Grows => NetFits
      BY <2>4, <2>5, <2>6, InsteadFits
    <2>8. created' \subseteq Groups
      BY <2>1, <2>2 DEF TypeOK
    <2>9. UNCHANGED <<groupmembers, ever, table, pages, counts, missed, left>>
      BY <1>3 DEF NewGroupHandle
    <2>10. /\ contact_' \in Groups \cup {NoGroup}
           /\ events' \in 0 .. MaxEvents /\ logins' \in 1 .. MaxLogins
           /\ missed' \in BOOLEAN /\ left' \in BOOLEAN
      BY <2>9 DEF table, counts, TypeOK
    <2>11. UNCHANGED <<groupmembers, ever, rows, listed, pages>>
      BY <2>9 DEF table
    <2> QED
      BY <2>7, <2>8, <2>10, <2>11, NetStep
  <1>4. CASE Message(c)
    <2>1. Grows => NetFits
      BY <1>4, InsteadFits DEF Message, Gone
    <2> QED
      BY <1>4, <2>1, NetStep DEF Message, server, table, counts, TypeOK
  <1>5. CASE Lose(c)
    <2>1. Grows => NetFits
      <3>1. CASE c.kind \in {"new_group", "groups"}
        <4>1. PICK ans : ans = IF c.kind = "new_group" THEN {NoGroup} ELSE {}
          OBVIOUS
        <4>2. PICK d : d = [c EXCEPT !.stage = "answered", !.ans = ans]
          OBVIOUS
        <4>3. d \in Calls /\ d.kind = c.kind /\ d.ans = ans
          BY <1>0, <4>1, <4>2 DEF Calls
        <4>4. ReplyFits(d)'
          BY <3>1, <4>1, <4>3 DEF ReplyFits
        <4>5. net' = Instead(c, {d})
          <5>1. CASE c.kind = "new_group"
            BY <1>5, <4>1, <4>2, <5>1 DEF Lose, Answered
          <5>2. CASE c.kind = "groups"
            BY <1>5, <4>1, <4>2, <5>2 DEF Lose, Answered
          <5> QED
            BY <3>1, <5>1, <5>2
        <4> QED
          BY <4>3, <4>4, <4>5, InsteadFits
      <3>2. CASE c.kind \notin {"new_group", "groups"}
        <4>1. c.kind # "new_group" /\ c.kind # "groups"
          BY <3>2
        <4>2. net' = Gone(c)
          BY <1>5, <4>1 DEF Lose
        <4>3. net' = Instead(c, {})
          BY <4>2 DEF Gone
        <4> QED
          BY <4>3, InsteadFits
      <3> QED
        BY <3>1, <3>2
    <2>2. UNCHANGED <<groupmembers, ever, rows, listed, pages, created, contact_, logins>>
      BY <1>5 DEF Lose, server, table
    <2>3. events' \in 0 .. MaxEvents
      BY <1>5, ContactsAssumption DEF Lose, TypeOK
    <2>4. missed' \in BOOLEAN /\ left' \in BOOLEAN
      BY <1>5 DEF Lose
    <2> QED
      BY <2>1, <2>2, <2>3, <2>4, NetStep DEF TypeOK
  <1> QED
    BY <1>1, <1>2, <1>3, <1>4, <1>5

LEMMA AskFits ==
  ASSUME BaseInv, AddGroup \/ Poll \/ \E u \in Users \ {Me}, kind \in {"add", "remove"} : ChangeMember(u, kind)
  PROVE  BaseInv'
  <1> USE DEF BaseInv
  <1>1. CASE AddGroup \/ Poll
    <2>1. PICK kind \in {"new_group", "poll"} : net' = Sent({Call(kind, NoGroup, NoUser)})
      BY <1>1 DEF AddGroup, Poll, PollCall
    <2>2. PICK d : d = Call(kind, NoGroup, NoUser)
      OBVIOUS
    <2>3. d \in Calls /\ d.kind = kind /\ d.ans = {}
      BY <2>2, CallIs DEF Kinds
    <2>4. ReplyFits(d)'
      BY <2>3 DEF ReplyFits
    <2>5. Grows => NetFits
      BY <2>1, <2>2, <2>3, <2>4, SentFits
    <2> QED
      BY <1>1, <2>5, NetStep DEF AddGroup, Poll, server, table, counts, TypeOK
  <1>2. ASSUME NEW u \in Users \ {Me}, NEW kind \in {"add", "remove"}, ChangeMember(u, kind)
        PROVE  BaseInv'
    <2>1. page \in Groups
      BY <1>2 DEF ChangeMember, TypeOK
    <2>2. PICK d : d = Call(kind, page, u)
      OBVIOUS
    <2>3. d \in Calls /\ d.kind = kind /\ d.ans = {} /\ d.group = page /\ d.user = u
      BY <2>1, <2>2, CallIs DEF Kinds
    <2>4. ReplyFits(d)'
      BY <2>1, <2>3 DEF ReplyFits
    <2>5. Grows => NetFits
      BY <1>2, <2>2, <2>3, <2>4, SentFits DEF ChangeMember
    <2>6. events' \in 0 .. MaxEvents
      BY <1>2, ContactsAssumption DEF ChangeMember, TypeOK
    <2>7. missed' \in BOOLEAN /\ left' \in BOOLEAN
      BY <1>2 DEF ChangeMember, TypeOK
    <2> QED
      BY <1>2, <2>5, <2>6, <2>7, NetStep DEF ChangeMember, server, table, TypeOK
  <1> QED
    BY <1>1, <1>2

(* A change of a group's members. *)
LEMMA ChangedIs ==
  ASSUME TypeOK, NEW g \in Groups, NEW M \in SUBSET Users, Changed(g, M)
  PROVE  /\ groupmembers' \in [Groups -> SUBSET Users] /\ ever' \in [Groups -> SUBSET Users]
         /\ groupmembers'[g] = M /\ ever'[g] = ever[g] \cup M
         /\ \A h \in Groups : h # g => groupmembers'[h] = groupmembers[h] /\ ever'[h] = ever[h]
  BY DEF Changed, TypeOK

LEMMA ChangeStep ==
  ASSUME BaseInv, UNCHANGED <<created, table, pages, logins>>, Grows, NetFits,
         groupmembers' \in [Groups -> SUBSET Users],
         \A g \in Groups : groupmembers'[g] \subseteq ever'[g],
         events' \in 0 .. MaxEvents, missed' \in BOOLEAN, left' \in BOOLEAN
  PROVE  BaseInv'
  <1>1. TypeOK'
    BY DEF BaseInv, TypeOK, NetFits, pages, table, Grows
  <1>2. \A i \in DOMAIN rows : rows[i] \in TableRows
    BY DEF BaseInv, TypeOK
  <1>3. \A row \in TableRows : Fits(row) => Fits(row)'
    BY FitsKept
  <1>4. \A i \in DOMAIN rows' : Fits(rows[i])'
    BY <1>2, <1>3 DEF BaseInv, RowsInv, table, Fits
  <1>5. Fits(listed)' /\ Fits(paged)'
    BY <1>3 DEF BaseInv, RowsInv, TypeOK, table, pages, Fits
  <1>6. RowsInv'
    BY <1>4, <1>5 DEF BaseInv, RowsInv, NetFits, pages, table
  <1> QED
    BY <1>1, <1>6 DEF BaseInv

LEMMA ChangeFits ==
  ASSUME BaseInv,
         \/ \E c \in BagToSet(net) : AddMemberHandle(c)
         \/ \E g \in Groups, u \in Users : OthersChange(g, u)
  PROVE  BaseInv'
  <1> USE DEF BaseInv
  <1>1. ASSUME NEW c \in BagToSet(net), AddMemberHandle(c)
        PROVE  BaseInv'
    <2>1. c \in Calls /\ ReplyFits(c) /\ c.kind \in {"add", "remove"}
      BY <1>1 DEF TypeOK, RowsInv, AddMemberHandle, Is
    <2> DEFINE g == c.group
               u == c.user
               ok == Creator[g] = Me /\ IF c.kind = "add" THEN Joins(g, u) ELSE u \in groupmembers[g]
               M == IF c.kind = "add" THEN groupmembers[g] \cup {u} ELSE groupmembers[g] \ {u}
    <2>2. g \in Groups /\ u \in Users
      BY <2>1 DEF ReplyFits
    <2>3. PICK answer : answer = IF ok THEN {u} ELSE {}
      OBVIOUS
    <2>4. /\ net' = Answered(c, answer)
          /\ (ok /\ Changed(g, M)) \/ (~ ok /\ UNCHANGED <<groupmembers, ever>>)
      <3>1. net' = Answered(c, answer)
        <4>1. net' = Answered(c, IF ok THEN {u} ELSE {})
          BY <1>1, Zenon DEF AddMemberHandle
        <4> HIDE DEF ok, u
        <4> QED
          BY <2>3, <4>1, Zenon
      <3>2. (ok /\ Changed(g, M)) \/ (~ ok /\ UNCHANGED <<groupmembers, ever>>)
        BY <1>1 DEF AddMemberHandle
      <3> QED
        BY <3>1, <3>2
    <2>5. M \in SUBSET Users
      BY <2>2 DEF TypeOK
    <2>6. /\ groupmembers' \in [Groups -> SUBSET Users] /\ ever' \in [Groups -> SUBSET Users]
          /\ \A h \in Groups : ever[h] \subseteq ever'[h] /\ groupmembers'[h] \subseteq ever'[h]
          /\ ok => Creator[g] = Me /\ u \in ever'[g]
      <3>1. CASE ok
        <4>1. /\ groupmembers' \in [Groups -> SUBSET Users] /\ ever' \in [Groups -> SUBSET Users]
              /\ groupmembers'[g] = M /\ ever'[g] = ever[g] \cup M
              /\ \A h \in Groups : h # g => groupmembers'[h] = groupmembers[h] /\ ever'[h] = ever[h]
          BY <2>2, <2>4, <2>5, <3>1, ChangedIs
        <4>2. u \in ever[g] \cup M
          BY <2>2, <3>1 DEF RowsInv
        <4> HIDE DEF M
        <4> QED
          BY <3>1, <4>1, <4>2 DEF RowsInv, TypeOK
      <3>2. CASE ~ ok
        BY <2>4, <3>2 DEF RowsInv, TypeOK
      <3> QED
        BY <3>1, <3>2
    <2>7. UNCHANGED <<created, table, pages, counts, missed>> /\ left' \in BOOLEAN
      BY <1>1 DEF AddMemberHandle, TypeOK
    <2>8. Grows
      BY <2>6, <2>7 DEF Grows, table
    <2>9. PICK d : d = [c EXCEPT !.stage = "answered", !.ans = answer]
      OBVIOUS
    <2>10. d \in Calls /\ d.kind = c.kind /\ d.group = g /\ d.user = u /\ d.ans = answer
      BY <2>1, <2>2, <2>3, <2>9 DEF Calls
    <2>11. ReplyFits(d)'
      BY <2>1, <2>2, <2>3, <2>6, <2>10 DEF ReplyFits
    <2>12. net' = Instead(c, {d})
      BY <2>4, <2>9 DEF Answered
    <2>13. NetFits
      BY <2>8, <2>10, <2>11, <2>12, InsteadFits
    <2> QED
      BY <2>6, <2>7, <2>8, <2>13, ChangeStep DEF counts, TypeOK
  <1>2. ASSUME NEW g \in Groups, NEW u \in Users, OthersChange(g, u)
        PROVE  BaseInv'
    <2> DEFINE M == IF Joins(g, u) THEN groupmembers[g] \cup {u} ELSE groupmembers[g] \ {u}
    <2>1. Changed(g, M) /\ M \in SUBSET Users
      BY <1>2 DEF OthersChange, TypeOK
    <2>2. /\ groupmembers' \in [Groups -> SUBSET Users] /\ ever' \in [Groups -> SUBSET Users]
          /\ \A h \in Groups : ever[h] \subseteq ever'[h] /\ groupmembers'[h] \subseteq ever'[h]
      <3>1. /\ groupmembers' \in [Groups -> SUBSET Users] /\ ever' \in [Groups -> SUBSET Users]
            /\ groupmembers'[g] = M /\ ever'[g] = ever[g] \cup M
            /\ \A h \in Groups : h # g => groupmembers'[h] = groupmembers[h] /\ ever'[h] = ever[h]
        BY <2>1, ChangedIs
      <3> HIDE DEF M
      <3> QED
        BY <3>1 DEF RowsInv, TypeOK
    <2>3. UNCHANGED <<created, table, pages, logins>> /\ missed' \in BOOLEAN /\ left' \in BOOLEAN
      BY <1>2 DEF OthersChange, TypeOK
    <2>4. events' \in 0 .. MaxEvents
      BY <1>2, ContactsAssumption DEF OthersChange, TypeOK
    <2>5. Grows
      BY <2>2, <2>3 DEF Grows, table
    <2>6. NetFits
      <3>1. CASE net' = net
        BY <2>5, <3>1, UnchangedFits
      <3>2. ASSUME NEW c \in Open("poll"), net' = Answered(c, {g})
            PROVE  NetFits
        <4>1. c \in BagToSet(net) /\ c \in Calls /\ c.kind = "poll"
          BY DEF Open, TypeOK
        <4>2. PICK d : d = [c EXCEPT !.stage = "answered", !.ans = {g}]
          OBVIOUS
        <4>3. d \in Calls /\ d.kind = "poll" /\ d.ans = {g}
          BY <4>1, <4>2 DEF Calls
        <4>4. ReplyFits(d)'
          BY <4>3 DEF ReplyFits
        <4>5. net' = Instead(c, {d})
          BY <3>2, <4>2 DEF Answered
        <4> QED
          BY <2>5, <4>1, <4>3, <4>4, <4>5, InsteadFits
      <3>3. net' = net \/ \E c \in Open("poll") : net' = Answered(c, {g})
        BY <1>2 DEF OthersChange
      <3> QED
        BY <3>1, <3>2, <3>3
    <2> QED
      BY <2>2, <2>3, <2>4, <2>5, <2>6, ChangeStep
  <1> QED
    BY <1>1, <1>2

(* Steps that write rows. *)
LEMMA WriteStep ==
  ASSUME BaseInv, UNCHANGED <<server, counts, page>>, Grows, NetFits, Keyed(rows'),
         \A i \in DOMAIN rows' : Fits(rows[i])',
         listed' \in TableRows, Fits(listed)', paged' \in TableRows, Fits(paged)',
         contact_' \in Groups \cup {NoGroup}, missed' \in BOOLEAN, left' \in BOOLEAN
  PROVE  BaseInv'
  <1>1. rows' \in Seq(TableRows) /\ IsInjective([i \in DOMAIN rows' |-> rows'[i].contactid])
    BY DEF Keyed, IsInjective
  <1>2. TypeOK'
    BY <1>1 DEF BaseInv, TypeOK, NetFits, server, counts
  <1>3. RowsInv'
    BY DEF BaseInv, RowsInv, NetFits, server, Grows
  <1> QED
    BY <1>2, <1>3 DEF BaseInv

LEMMA ReplyStep ==
  ASSUME BaseInv, NEW c \in BagToSet(net), Reply(c)
  PROVE  BaseInv'
  <1> USE DEF BaseInv
  <1>0. /\ c \in Calls /\ ReplyFits(c) /\ Keyed(rows) /\ UNCHANGED <<server, counts, page>>
        /\ missed' \in BOOLEAN /\ left' \in BOOLEAN
    BY RowsAreKeyed DEF TypeOK, RowsInv, Reply, NewGroups, GroupUsersReply, MemberReply, pages
  <1>1. CASE NewGroups(c)
    <2>1. /\ c.ans \subseteq Groups \cup {NoGroup}
          /\ Keyed(rows')
          /\ \A i \in DOMAIN rows : i \in DOMAIN rows' /\ rows'[i] = rows[i]
          /\ \A i \in DOMAIN rows' : i \in DOMAIN rows \/
                (rows'[i].contactid \in c.ans /\ rows'[i] = Row(rows'[i].contactid, {Me}, NoUser))
          /\ \A g \in c.ans : HasRow(g, rows')
      BY <1>1, NewGroupsWrite
    <2>2. Grows
      BY <1>0, <2>1 DEF Grows, server, TypeOK, HasRow
    <2>3. NetFits
      <3>1. PICK S : S = Asked(c.ans)
        OBVIOUS
      <3>2. ASSUME NEW d \in S
            PROVE  d \in Calls /\ ReplyFits(d)'
        <4>1. PICK g \in c.ans : d = Call("members", g, NoUser)
          BY <3>1 DEF Asked
        <4>2. d \in Calls /\ d.kind = "members" /\ d.group = g /\ d.ans = {}
          BY <2>1, <4>1, CallIs DEF Kinds
        <4> QED
          BY <2>1, <4>2 DEF ReplyFits
      <3>3. net' = Instead(c, S)
        BY <1>1, <3>1 DEF NewGroups
      <3> QED
        BY <2>2, <3>2, <3>3, InsteadFits
    <2>4. \A i \in DOMAIN rows' : Fits(rows[i])'
      <3> SUFFICES ASSUME NEW i \in DOMAIN rows'
                   PROVE  Fits(rows[i])'
        OBVIOUS
      <3>1. CASE i \in DOMAIN rows
        BY <1>0, <2>1, <3>1 DEF RowsInv, Fits, server
      <3>2. CASE i \notin DOMAIN rows
        BY <2>1, <3>2 DEF Fits, Row
      <3> QED
        BY <3>1, <3>2
    <2>5. listed' \in TableRows /\ Fits(listed)'
      <3>1. listed' = First(rows')
        BY <1>1 DEF NewGroups
      <3>2. First(rows') \in TableRows
            /\ (First(rows') = NoRow \/ \E i \in DOMAIN rows' : First(rows') = rows'[i])
        BY <2>1, FirstIs
      <3> QED
        BY <2>4, <3>1, <3>2 DEF Fits, NoRow, Row
    <2>6. UNCHANGED pages /\ contact_' = contact_
      BY <1>1 DEF NewGroups
    <2>7. Fits(paged)' /\ paged' \in TableRows
      BY <1>0, <2>6 DEF pages, server, Fits, RowsInv, TypeOK
    <2> QED
      BY <1>0, <2>1, <2>2, <2>3, <2>4, <2>5, <2>6, <2>7, WriteStep DEF TypeOK
  <1>2. CASE GroupUsersReply(c) \/ MemberReply(c)
    <2>1. CASE Keyed(rows') /\ SameGroups(rows', rows) /\ \A i \in DOMAIN rows : Fits(rows'[i])
      <3>1. Grows
        BY <1>0, <2>1 DEF Grows, server, TypeOK, HasRow, SameGroups
      <3>2. NetFits
        <4>1. net' = Gone(c)
          BY <1>2 DEF GroupUsersReply, MemberReply
        <4> QED
          BY <3>1, <4>1, InsteadFits DEF Gone
      <3>3. \A i \in DOMAIN rows' : Fits(rows[i])'
        BY <1>0, <2>1 DEF Fits, server, SameGroups
      <3>4. listed' \in {listed, First(rows')} /\ contact_' \in Groups \cup {NoGroup}
        <4>1. CASE GroupUsersReply(c)
          BY <1>0, <4>1 DEF GroupUsersReply, ReplyFits, Is, TypeOK, table, Calls
        <4>2. CASE MemberReply(c)
          BY <4>2 DEF MemberReply, TypeOK
        <4> QED
          BY <1>2, <4>1, <4>2
      <3>5. First(rows') \in TableRows
            /\ (First(rows') = NoRow \/ \E i \in DOMAIN rows' : First(rows') = rows'[i])
        BY <2>1, FirstIs
      <3>6. listed' \in TableRows /\ Fits(listed)'
        <4>1. CASE listed' = listed
          BY <1>0, <4>1 DEF RowsInv, TypeOK, Fits, server
        <4>2. CASE listed' = First(rows')
          BY <3>3, <3>5, <4>2 DEF Fits, NoRow, Row
        <4> QED
          BY <3>4, <4>1, <4>2
      <3>7. paged' \in {paged, RowOf(page, rows')}
        BY <1>2 DEF GroupUsersReply, MemberReply, pages, Reselected
      <3>8. RowOf(page, rows') \in TableRows
            /\ (RowOf(page, rows') = NoRow \/ \E i \in DOMAIN rows' : RowOf(page, rows') = rows'[i])
        BY <2>1, RowOfIs DEF HasRow
      <3>9. paged' \in TableRows /\ Fits(paged)'
        <4>1. CASE paged' = paged
          BY <1>0, <4>1 DEF RowsInv, TypeOK, Fits, server
        <4>2. CASE paged' = RowOf(page, rows')
          BY <3>3, <3>8, <4>2 DEF Fits, NoRow, Row
        <4> QED
          BY <3>7, <4>1, <4>2
      <3> QED
        BY <1>0, <2>1, <3>1, <3>2, <3>3, <3>4, <3>6, <3>9, WriteStep
    <2>2. CASE GroupUsersReply(c) /\ c.ans # {}
      <3> DEFINE g == c.group
      <3>1. PICK rec : rec = RecordOf(g)
        OBVIOUS
      <3>2. /\ g \in Groups /\ c.ans \subseteq ever[g]
            /\ rec \in {listed, RowOf(g, rows)}
            /\ Keyed(rows') /\ SameGroups(rows', rows)
            /\ \A i \in DOMAIN rows : rows[i].contactid # g => rows'[i] = rows[i]
            /\ \A i \in DOMAIN rows : rows[i].contactid = g =>
                  /\ rows'[i].members = IF Adds(rec, g, c.ans) THEN rec.members \cup c.ans
                                                               ELSE rows[i].members
                  /\ \/ rows'[i].admin \in {rows[i].admin, Creator[g]}
                     \/ rec.contactid = g /\ rows'[i].admin = rec.admin
        BY <2>2, <3>1, GroupUsersWrite
      <3>3. Fits(rec)
        <4>1. RowOf(g, rows) = NoRow \/ \E i \in DOMAIN rows : RowOf(g, rows) = rows[i]
          BY <1>0, RowOfIs DEF HasRow
        <4> QED
          BY <3>2, <4>1 DEF RowsInv, Fits, NoRow, Row
      <3>4. \A i \in DOMAIN rows : Fits(rows'[i])
        <4> SUFFICES ASSUME NEW i \in DOMAIN rows
                     PROVE  Fits(rows'[i])
          OBVIOUS
        <4>1. CASE rows[i].contactid # g
          BY <3>2, <4>1 DEF RowsInv
        <4>2. CASE rows[i].contactid = g
          <5>1. rows'[i].contactid = g /\ Fits(rows[i]) /\ g # NoGroup
            BY <3>2, <4>2, ContactsAssumption DEF RowsInv, SameGroups
          <5>2. rec.contactid = g => Me \in rec.members /\ rec.members \subseteq ever[g] \cup {Me}
                                     /\ rec.admin \in {NoUser, Creator[g]}
            BY <3>3, <5>1 DEF Fits
          <5>3. Me \in rows'[i].members /\ rows'[i].members \subseteq ever[g] \cup {Me}
            BY <3>2, <4>2, <5>1, <5>2 DEF Fits, Adds, IsOf
          <5>4. rows'[i].admin \in {NoUser, Creator[g]}
            BY <3>2, <4>2, <5>1, <5>2 DEF Fits
          <5> QED
            BY <5>1, <5>3, <5>4 DEF Fits
        <4> QED
          BY <4>1, <4>2
      <3> QED
        BY <2>1, <3>2, <3>4
    <2>3. CASE GroupUsersReply(c) /\ c.ans = {}
      <3>1. rows' = rows
        BY <2>3 DEF GroupUsersReply, table
      <3> QED
        BY <1>0, <2>1, <3>1 DEF RowsInv, SameGroups
    <2>4. CASE MemberReply(c)
      <3> DEFINE g == c.group
                 u == c.user
      <3>1. /\ g \in Groups /\ u \in Users \ {Me}
            /\ Keyed(rows') /\ SameGroups(rows', rows)
            /\ \A i \in DOMAIN rows : rows[i].contactid # g => rows'[i] = rows[i]
            /\ \/ /\ c.ans # {} /\ paged.contactid = g
                  /\ \A i \in DOMAIN rows : rows[i].contactid = g =>
                       /\ rows'[i].members = IF c.kind = "add" THEN paged.members \cup {u}
                                                               ELSE paged.members \ {u}
                       /\ rows'[i].admin \in {rows[i].admin, paged.admin}
               \/ rows' = rows
        BY <2>4, MemberReplyWrites
      <3>2. CASE rows' = rows
        BY <2>1, <3>1, <3>2 DEF RowsInv
      <3>3. CASE rows' # rows
        <4>1. c.ans # {} => u \in ever[g]
          BY <1>0, <2>4, <3>1 DEF ReplyFits, MemberReply, Is
        <4>2. paged.contactid = g /\ g # NoGroup /\ Fits(paged) /\ c.ans # {}
          BY <3>1, <3>3, ContactsAssumption DEF RowsInv
        <4>3. \A i \in DOMAIN rows : Fits(rows'[i])
          <5> SUFFICES ASSUME NEW i \in DOMAIN rows
                       PROVE  Fits(rows'[i])
            OBVIOUS
          <5>1. CASE rows[i].contactid # g
            BY <3>1, <5>1 DEF RowsInv
          <5>2. CASE rows[i].contactid = g
            <6>1. rows'[i].contactid = g /\ Fits(rows[i])
              BY <3>1, <5>2 DEF RowsInv, SameGroups
            <6>2. Me \in rows'[i].members /\ rows'[i].members \subseteq ever[g] \cup {Me}
              BY <3>1, <3>3, <4>1, <4>2, <5>2 DEF Fits
            <6>3. rows'[i].admin \in {NoUser, Creator[g]}
              BY <3>1, <3>3, <4>2, <5>2, <6>1 DEF Fits
            <6> QED
              BY <6>1, <6>2, <6>3 DEF Fits
          <5> QED
            BY <5>1, <5>2
        <4> QED
          BY <2>1, <3>1, <4>3
      <3> QED
        BY <3>2, <3>3
    <2> QED
      BY <1>2, <2>2, <2>3, <2>4
  <1> QED
    BY <1>1, <1>2 DEF Reply

LEMMA PageFits ==
  ASSUME BaseInv, ClosePage \/ Restart \/ \E g \in Groups : OpenPage(g)
  PROVE  BaseInv'
  <1> USE DEF BaseInv
  <1>0. /\ Keyed(rows) /\ ever' = ever /\ rows' = rows /\ missed' \in BOOLEAN /\ left' \in BOOLEAN
        /\ UNCHANGED <<created, groupmembers, events>>
    BY RowsAreKeyed DEF ClosePage, Restart, OpenPage, server, table, counts, TypeOK
  <1>1. Grows
    BY <1>0 DEF Grows, TypeOK
  <1>2. \A i \in DOMAIN rows' : Fits(rows[i])'
    BY <1>0 DEF RowsInv, Fits
  <1>3. paged' \in TableRows /\ Fits(paged)' /\ page' \in Groups \cup {NoGroup}
        /\ (page' # NoGroup => HasRow(page', rows))
    <2>1. CASE ClosePage \/ Restart
      <3>1. paged' = NoRow /\ page' = NoGroup
        BY <2>1 DEF ClosePage, Restart
      <3>2. Fits(paged)'
        BY <3>1 DEF Fits, NoRow, Row
      <3> QED
        BY <3>1, <3>2, NoRowIsRow
    <2>2. ASSUME NEW g \in Groups, OpenPage(g)
          PROVE  /\ paged' \in TableRows /\ Fits(paged)' /\ page' \in Groups \cup {NoGroup}
                 /\ HasRow(page', rows)
      <3>1. page' = g /\ paged' = RowOf(g, rows) /\ HasRow(g, rows)
        BY <2>2 DEF OpenPage
      <3>2. PICK i \in DOMAIN rows : RowOf(g, rows) = rows[i]
        BY <1>0, <3>1, RowOfIs DEF HasRow
      <3>3. rows[i] \in TableRows /\ Fits(rows[i])
        BY DEF TypeOK, RowsInv
      <3> QED
        BY <1>0, <3>1, <3>2, <3>3 DEF Fits
    <2> QED
      BY <2>1, <2>2
  <1>4. listed' \in TableRows /\ Fits(listed)' /\ contact_' \in Groups \cup {NoGroup}
    <2>1. CASE listed' = NoRow /\ contact_' = NoGroup
      <3>1. Fits(listed)'
        BY <2>1 DEF Fits, NoRow, Row
      <3> QED
        BY <2>1, <3>1, NoRowIsRow
    <2>2. CASE listed' = listed /\ contact_' = contact_
      BY <1>0, <2>2 DEF Fits, TypeOK, RowsInv
    <2> QED
      BY <2>1, <2>2 DEF ClosePage, Restart, OpenPage, table
  <1>5. NetFits /\ logins' \in 1 .. MaxLogins
    <2>1. CASE net' = net /\ logins' = logins
      BY <1>1, <2>1, UnchangedFits DEF TypeOK
    <2>2. CASE Restart
      <3>1. PollCall \in Calls /\ GroupsCall \in Calls /\ PollCall.ans = {} /\ GroupsCall.ans = {}
            /\ PollCall.kind = "poll" /\ GroupsCall.kind = "groups"
        BY CallIs DEF PollCall, GroupsCall, Kinds
      <3>2. IsABag(net') /\ BagToSet(net') = {PollCall, GroupsCall}
        BY <2>2, SetIsABag DEF Restart
      <3>3. \A d \in BagToSet(net') : d \in Calls /\ ReplyFits(d)'
        BY <3>1, <3>2 DEF ReplyFits
      <3>4. logins' \in 1 .. MaxLogins
        BY <2>2, ContactsAssumption DEF Restart, TypeOK
      <3> QED
        BY <3>2, <3>3, <3>4 DEF NetFits
    <2> QED
      BY <2>1, <2>2 DEF ClosePage, OpenPage, counts
  <1>6. TypeOK'
    BY <1>0, <1>3, <1>4, <1>5 DEF TypeOK, NetFits
  <1>7. RowsInv'
    BY <1>0, <1>2, <1>3, <1>4, <1>5 DEF RowsInv, NetFits
  <1> QED
    BY <1>6, <1>7

LEMMA BaseStep == BaseInv /\ [Next]_vars => BaseInv'
  <1> SUFFICES ASSUME BaseInv, [Next]_vars
               PROVE  BaseInv'
    OBVIOUS
  <1>1. CASE Next
    <2>1. ASSUME NEW c \in BagToSet(net), Handle(c) \/ Reply(c) \/ Message(c) \/ Lose(c)
          PROVE  BaseInv'
      <3>1. \/ PollingHandle(c) \/ ReadHandle(c) \/ NewGroupHandle(c) \/ Message(c) \/ Lose(c)
            \/ AddMemberHandle(c) \/ Reply(c)
        BY <2>1 DEF Handle
      <3> QED
        BY <3>1, HandleFits, ChangeFits, ReplyStep
    <2>2. ASSUME NEW g \in Groups, OpenPage(g) \/ \E u \in Users : OthersChange(g, u)
          PROVE  BaseInv'
      BY <2>2, ChangeFits, PageFits
    <2> QED
      BY <1>1, <2>1, <2>2, AskFits, PageFits DEF Next
  <1>2. CASE UNCHANGED vars
    <2>1. UNCHANGED <<groupmembers, ever, rows, listed, pages, created, contact_, counts, missed, left, net>>
      BY <1>2 DEF vars, server, table
    <2>2. Grows => NetFits
      BY <2>1, UnchangedFits DEF BaseInv
    <2> QED
      BY <2>1, <2>2, NetStep DEF BaseInv, TypeOK, counts
  <1> QED
    BY <1>1, <1>2

LEMMA BaseHolds == Spec => []BaseInv
  BY BaseInit, BaseStep, PTL DEF Spec

(* Every variable keeps its type, and the table its key. *)
THEOREM ContactsTypes == Spec => []TypeOK
  BY BaseHolds, PTL DEF BaseInv

(* No reply about one group is written into the row of another, whatever   *)
(* crosses, is lost or is read from a stale selection: addMemberToTable    *)
(* and removeMemberFromTable compare the id of the row they have read, and *)
(* submitAll finds the row it came from.                                   *)
THEOREM RowsAreOfOneGroup == Spec => []RowsOfOneGroup
  <1>1. BaseInv => RowsOfOneGroup
    BY DEF BaseInv, RowsInv, RowsOfOneGroup, Fits
  <1> QED
    BY <1>1, BaseHolds, PTL

-----------------------------------------------------------------------------
(* The page and the table, and one change at a time *)

(* What is missed, or left, stays so until a new login. *)
LEMMA StaysMissed ==
  ASSUME BaseInv, Next, ~ Restart
  PROVE  (missed => missed') /\ (left => left')
  <1>1. ASSUME NEW c \in BagToSet(net), Handle(c) \/ Reply(c) \/ Message(c) \/ Lose(c)
        PROVE  (missed => missed') /\ (left => left')
    <2>1. CASE PollingHandle(c) \/ ReadHandle(c) \/ NewGroupHandle(c) \/ Message(c) \/ Lose(c)
      BY <2>1 DEF PollingHandle, ReadHandle, NewGroupHandle, Message, Lose
    <2>2. CASE AddMemberHandle(c)
      <3>1. \E crossed \in BOOLEAN : left' = (left \/ crossed)
        BY <2>2 DEF AddMemberHandle
      <3>2. missed' = missed
        BY <2>2 DEF AddMemberHandle
      <3> QED
        BY <3>1, <3>2
    <2>3. CASE NewGroups(c)
      BY <2>3 DEF NewGroups
    <2>4. CASE GroupUsersReply(c)
      <3>1. CASE c.ans = {}
        BY <2>4, <3>1 DEF GroupUsersReply
      <3>2. CASE c.ans # {}
        BY <2>4, <3>2 DEF GroupUsersReply
      <3> QED
        BY <3>1, <3>2
    <2>5. CASE MemberReply(c)
      BY <2>5 DEF MemberReply
    <2> QED
      BY <1>1, <2>1, <2>2, <2>3, <2>4, <2>5 DEF Handle, Reply
  <1>2. ASSUME NEW g \in Groups, OpenPage(g) \/ \E u \in Users : OthersChange(g, u)
        PROVE  (missed => missed') /\ (left => left')
    <2>1. CASE OpenPage(g)
      BY <2>1 DEF OpenPage
    <2>2. ASSUME NEW u \in Users, OthersChange(g, u)
          PROVE  (missed => missed') /\ (left => left')
      BY <2>2, Zenon DEF OthersChange
    <2> QED
      BY <1>2, <2>1, <2>2
  <1>3. ASSUME NEW u \in Users \ {Me}, NEW kind \in {"add", "remove"}, ChangeMember(u, kind)
        PROVE  (missed => missed') /\ (left => left')
    BY <1>3 DEF ChangeMember
  <1>4. CASE AddGroup \/ Poll \/ ClosePage
    BY <1>4 DEF AddGroup, Poll, ClosePage
  <1> QED
    BY <1>1, <1>2, <1>3, <1>4 DEF Next

SyncInv == PageShows /\ OneAtATime

LEMMA SyncInit == Init => SyncInv
  <1> SUFFICES ASSUME Init
               PROVE  SyncInv
    OBVIOUS
  <1>1. \A d \in BagToSet(net) : d.kind \in {"poll", "groups"}
    BY SetIsABag DEF Init, PollCall, GroupsCall, Call
  <1> QED
    BY <1>1 DEF Init, SyncInv, PageShows, OneAtATime, Single, ChangeCalls, Open

(* Requests of other kinds leave the changes as they are. *)
LEMMA SingleKept ==
  ASSUME BaseInv, Single, NEW S, \A d \in S : d.kind \notin {"add", "remove"},
         net' = Sent(S) \/ \E c \in BagToSet(net) : net' = Instead(c, S)
  PROVE  Single'
  <1>1. \A d \in ChangeCalls' :
           d \in ChangeCalls /\ (Copies(d, net) = 1 => Copies(d, net') = 1)
    <2>1. CASE net' = Sent(S)
      <3>1. /\ \A d \in BagToSet(net') : d \in S \/ d \in BagToSet(net)
            /\ \A d \in BagToSet(net) : d \notin S => Copies(d, net') = Copies(d, net)
        BY <2>1, SentIs DEF BaseInv, TypeOK
      <3> QED
        BY <3>1 DEF ChangeCalls, Open
    <2>2. ASSUME NEW c \in BagToSet(net), net' = Instead(c, S)
          PROVE  \A d \in ChangeCalls' :
                    d \in ChangeCalls /\ (Copies(d, net) = 1 => Copies(d, net') = 1)
      <3>1. /\ \A d \in BagToSet(net') : d \in S \/ d \in BagToSet(net)
            /\ Copies(c, net) = 1 => \A d \in BagToSet(net') : d \in S \/ d # c
            /\ \A d \in BagToSet(net) : d # c /\ d \notin S => Copies(d, net') = Copies(d, net)
        BY <2>2, InsteadIs DEF BaseInv, TypeOK
      <3> QED
        BY <3>1 DEF ChangeCalls, Open
    <2> QED
      BY <2>1, <2>2
  <1> QED
    BY <1>1 DEF Single

(* An answer to a change is a change of the same user. *)
LEMMA SingleAnswered ==
  ASSUME BaseInv, Single, NEW c \in BagToSet(net), c.kind \in {"add", "remove"}, c.stage = "sent",
         NEW d, d.kind = c.kind, d.group = c.group, d.user = c.user, d.stage = "answered",
         net' = Instead(c, {d})
  PROVE  Single'
  <1> DEFINE S == {d}
  <1>1. net' = Instead(c, S) /\ d \in S /\ \A e \in S : e = d
    OBVIOUS
  <1> HIDE DEF S
  <1>2. c \in ChangeCalls /\ Copies(c, net) = 1
    BY DEF ChangeCalls, Open, Single
  <1>3. d \notin BagToSet(net)
    <2>1. d \in BagToSet(net) => d \in ChangeCalls
      BY DEF ChangeCalls, Open
    <2> QED
      BY <1>2, <2>1 DEF Single
  <1>4. /\ \A e \in BagToSet(net') : e \in S \/ e \in BagToSet(net)
        /\ \A e \in BagToSet(net') : e \in S \/ e # c
        /\ \A e \in BagToSet(net) : e # c /\ e \notin S => Copies(e, net') = Copies(e, net)
        /\ \A e \in S : e \notin BagToSet(net) => Copies(e, net') = 1
    BY <1>1, <1>2, InsteadIs DEF BaseInv, TypeOK
  <1>5. \A e \in ChangeCalls' : e = d \/ (e \in ChangeCalls /\ e # c /\ e # d)
    BY <1>1, <1>3, <1>4 DEF ChangeCalls, Open
  <1>6. Copies(d, net') = 1
    BY <1>1, <1>3, <1>4
  <1>7. \A e \in ChangeCalls : e.group = d.group /\ e.user = d.user => e = c
    BY <1>2 DEF Single
  <1>8. \A e \in ChangeCalls : e # c /\ e # d => Copies(e, net') = Copies(e, net)
    BY <1>1, <1>4 DEF ChangeCalls, Open
  <1> QED
    BY <1>5, <1>6, <1>7, <1>8 DEF Single

(* A change that does not cross another. *)
LEMMA SingleAsked ==
  ASSUME BaseInv, Single, NEW d, net' = Sent({d}),
         ~ \E c \in ChangeCalls : c.group = d.group /\ c.user = d.user
  PROVE  Single'
  <1> DEFINE S == {d}
  <1>1. net' = Sent(S) /\ d \in S /\ \A e \in S : e = d
    OBVIOUS
  <1> HIDE DEF S
  <1>2. /\ \A e \in BagToSet(net') : e \in S \/ e \in BagToSet(net)
        /\ \A e \in BagToSet(net) : e \notin S => Copies(e, net') = Copies(e, net)
        /\ \A e \in S : e \notin BagToSet(net) => Copies(e, net') = 1
    BY <1>1, SentIs DEF BaseInv, TypeOK
  <1>3. \A e \in ChangeCalls' : e = d \/ (e \in ChangeCalls /\ e # d)
    BY <1>1, <1>2 DEF ChangeCalls, Open
  <1>4. d \in ChangeCalls' => Copies(d, net') = 1
    BY <1>1, <1>2 DEF ChangeCalls, Open
  <1>5. \A e \in ChangeCalls : e # d => Copies(e, net') = Copies(e, net)
    BY <1>1, <1>2 DEF ChangeCalls, Open
  <1> QED
    BY <1>3, <1>4, <1>5 DEF Single

(* Members that are not written from, or over, a stale selection are added *)
(* to what the row has.                                                    *)
LEMMA GroupUsersAdd ==
  ASSUME BaseInv, NEW c \in BagToSet(net), GroupUsersReply(c), c.ans # {}, ~ (missed' /\ left')
  PROVE  LET g == c.group
         IN  /\ g \in Groups /\ c.ans \subseteq ever[g] /\ SameGroups(rows', rows) /\ Keyed(rows')
             /\ \A i \in DOMAIN rows :
                  rows'[i].members = IF rows[i].contactid = g THEN rows[i].members \cup c.ans
                                                              ELSE rows[i].members
             /\ page = g => c.ans \subseteq RowOf(g, rows).members
  <1> DEFINE g == c.group
  <1>1. PICK rec : rec = RecordOf(g)
    OBVIOUS
  <1>2. /\ g \in Groups /\ c.ans \subseteq ever[g] /\ HasRow(g, rows)
        /\ SameGroups(rows', rows) /\ Keyed(rows')
        /\ \A i \in DOMAIN rows : rows[i].contactid # g => rows'[i] = rows[i]
        /\ \A i \in DOMAIN rows : rows[i].contactid = g =>
              rows'[i].members = IF Adds(rec, g, c.ans) THEN rec.members \cup c.ans
                                                        ELSE rows[i].members
    BY <1>1, GroupUsersWrite DEF BaseInv
  <1>3. ~ (contact_ = g /\ listed # RowOf(g, rows)) /\ (page = g => c.ans \subseteq RowOf(g, rows).members)
    <2>1. missed \in BOOLEAN /\ left \in BOOLEAN
      BY DEF BaseInv, TypeOK
    <2> QED
      BY <2>1 DEF GroupUsersReply
  <1>4. rec = RowOf(g, rows)
    BY <1>1, <1>3 DEF RecordOf, Filtered
  <1>5. Keyed(rows)
    BY RowsAreKeyed DEF BaseInv
  <1>6. \A i \in DOMAIN rows : rows[i].contactid = g => rec = rows[i]
    BY <1>4, <1>5, RowOfIs
  <1>7. rec.contactid = g
    BY <1>2, <1>4, <1>5, RowOfIs
  <1>8. \A i \in DOMAIN rows : rows[i].contactid = g => rows'[i].members = rows[i].members \cup c.ans
    BY <1>2, <1>6, <1>7 DEF Adds, IsOf
  <1> QED
    BY <1>2, <1>3, <1>8

(* A reply to a change for which the page is open is made in its row. *)
LEMMA MemberReplyMakes ==
  ASSUME BaseInv, PageShows, NEW c \in BagToSet(net), MemberReply(c), ~ (missed' /\ left')
  PROVE  LET g == c.group
             u == c.user
         IN  /\ g \in Groups /\ u \in Users \ {Me} /\ SameGroups(rows', rows) /\ Keyed(rows')
             /\ \A i \in DOMAIN rows : c.ans = {} \/ rows[i].contactid # g =>
                  rows'[i].members = rows[i].members
             /\ \A i \in DOMAIN rows : c.ans # {} /\ rows[i].contactid = g =>
                  rows'[i].members = IF c.kind = "add" THEN rows[i].members \cup {u}
                                                       ELSE rows[i].members \ {u}
  <1> DEFINE g == c.group
             u == c.user
  <1>1. /\ g \in Groups /\ u \in Users \ {Me} /\ SameGroups(rows', rows) /\ Keyed(rows')
        /\ \A i \in DOMAIN rows : rows[i].contactid # g => rows'[i] = rows[i]
        /\ \/ /\ c.ans # {} /\ paged.contactid = g
              /\ \A i \in DOMAIN rows : rows[i].contactid = g =>
                   rows'[i].members = IF c.kind = "add" THEN paged.members \cup {u}
                                                        ELSE paged.members \ {u}
           \/ /\ c.ans # {} /\ page # NoGroup /\ paged.contactid = g =>
                   (c.kind = "add" <=> u \in paged.members)
              /\ rows' = rows
    BY MemberReplyWrites DEF BaseInv
  <1>2. missed \in BOOLEAN /\ left \in BOOLEAN /\ ~ (missed /\ left) /\ (c.ans # {} => page = g)
    BY DEF MemberReply, BaseInv, TypeOK
  <1>3. g # NoGroup
    BY <1>1, ContactsAssumption
  <1>4. c.ans # {} => paged.contactid = g /\ paged.members = RowOf(g, rows).members /\ page # NoGroup
    BY <1>2, <1>3 DEF PageShows
  <1>5. \A i \in DOMAIN rows : rows[i].contactid = g => RowOf(g, rows) = rows[i]
    BY RowsAreKeyed, RowOfIs DEF BaseInv
  <1>6. CASE c.ans = {}
    BY <1>1, <1>6
  <1>7. CASE c.ans # {}
    <2>1. \A i \in DOMAIN rows : rows[i].contactid = g => paged.members = rows[i].members
      BY <1>4, <1>5, <1>7
    <2> QED
      BY <1>1, <1>4, <1>7, <2>1
  <1> QED
    BY <1>6, <1>7

LEMMA PageShowsStep ==
  ASSUME BaseInv, BaseInv', SyncInv, Next
  PROVE  PageShows'
  <1> SUFFICES ASSUME ~ (missed' /\ left'), page' # NoGroup
               PROVE  paged'.contactid = page' /\ paged'.members = RowOf(page', rows').members
    BY DEF PageShows
  <1>1. ~ Restart
    BY DEF Restart
  <1>2. ~ (missed /\ left)
    BY <1>1, StaysMissed
  <1>3. Keyed(rows) /\ Keyed(rows')
    <2>1. TypeOK' => Keyed(rows')
      BY DEF TypeOK, Keyed, IsInjective
    <2> QED
      BY <2>1, RowsAreKeyed DEF BaseInv
  <1>4. page # NoGroup => paged.contactid = page /\ paged.members = RowOf(page, rows).members
    BY <1>2 DEF SyncInv, PageShows
  <1>5. ASSUME UNCHANGED pages,
               \A i \in DOMAIN rows : rows[i].contactid = page =>
                  i \in DOMAIN rows' /\ rows'[i].contactid = page /\ rows'[i].members = rows[i].members
        PROVE  paged'.contactid = page' /\ paged'.members = RowOf(page', rows').members
    <2>1. page' = page /\ paged' = paged /\ page # NoGroup
      BY <1>5 DEF pages
    <2>2. PICK i \in DOMAIN rows : rows[i].contactid = page
      BY <2>1 DEF BaseInv, RowsInv, HasRow
    <2>3. RowOf(page, rows) = rows[i] /\ RowOf(page, rows') = rows'[i]
      BY <1>3, <1>5, <2>2, RowOfIs
    <2> QED
      BY <1>4, <1>5, <2>1, <2>2, <2>3
  <1>6. CASE rows' = rows /\ UNCHANGED pages
    BY <1>5, <1>6
  <1>7. ASSUME NEW c \in BagToSet(net), Reply(c)
        PROVE  paged'.contactid = page' /\ paged'.members = RowOf(page', rows').members
    <2>1. CASE NewGroups(c)
      <3>1. \A i \in DOMAIN rows : i \in DOMAIN rows' /\ rows'[i] = rows[i]
        BY <2>1, NewGroupsWrite DEF BaseInv
      <3> QED
        BY <1>5, <2>1, <3>1 DEF NewGroups
    <2>2. CASE GroupUsersReply(c) /\ c.ans # {}
      <3>1. /\ SameGroups(rows', rows)
            /\ \A i \in DOMAIN rows :
                 rows'[i].members = IF rows[i].contactid = c.group THEN rows[i].members \cup c.ans
                                                                   ELSE rows[i].members
            /\ page = c.group => c.ans \subseteq RowOf(c.group, rows).members
        BY <2>2, GroupUsersAdd
      <3>2. \A i \in DOMAIN rows : rows[i].contactid = page => rows'[i].members = rows[i].members
        <4> SUFFICES ASSUME NEW i \in DOMAIN rows, rows[i].contactid = page
                     PROVE  rows'[i].members = rows[i].members
          OBVIOUS
        <4>1. RowOf(page, rows) = rows[i]
          BY <1>3, RowOfIs
        <4> QED
          BY <3>1, <4>1
      <3> QED
        BY <1>5, <2>2, <3>1, <3>2 DEF GroupUsersReply, SameGroups
    <2>3. CASE GroupUsersReply(c) /\ c.ans = {}
      BY <1>6, <2>3 DEF GroupUsersReply, table
    <2>4. CASE MemberReply(c)
      <3>1. page' = page /\ ((rows' = rows /\ paged' = paged) \/ paged' = RowOf(page, rows'))
        BY <2>4 DEF MemberReply, Reselected
      <3>2. CASE paged' = RowOf(page, rows')
        <4>1. HasRow(page', rows')
          BY DEF BaseInv, RowsInv
        <4> QED
          BY <1>3, <3>1, <3>2, <4>1, RowOfIs
      <3> QED
        BY <1>6, <3>1, <3>2 DEF pages
    <2> QED
      BY <1>7, <2>1, <2>2, <2>3, <2>4 DEF Reply
  <1>8. ASSUME NEW c \in BagToSet(net), Handle(c) \/ Message(c) \/ Lose(c)
        PROVE  rows' = rows /\ UNCHANGED pages
    BY <1>8 DEF Handle, PollingHandle, ReadHandle, NewGroupHandle, AddMemberHandle, Message, Lose, table
  <1>9. ASSUME NEW g \in Groups, OpenPage(g)
        PROVE  paged'.contactid = page' /\ paged'.members = RowOf(page', rows').members
    <2>1. page' = g /\ paged' = RowOf(g, rows) /\ rows' = rows /\ HasRow(g, rows)
      BY <1>9 DEF OpenPage, table
    <2> QED
      BY <1>3, <2>1, RowOfIs
  <1>10. ASSUME NEW g \in Groups, NEW u \in Users, OthersChange(g, u)
         PROVE  rows' = rows /\ UNCHANGED pages
    BY <1>10 DEF OthersChange, table
  <1>11. ASSUME AddGroup \/ Poll \/ \E u \in Users \ {Me}, kind \in {"add", "remove"} : ChangeMember(u, kind)
         PROVE  rows' = rows /\ UNCHANGED pages
    BY <1>11 DEF AddGroup, Poll, ChangeMember, table
  <1>12. ~ ClosePage
    BY DEF ClosePage
  <1> QED
    BY <1>1, <1>6, <1>7, <1>8, <1>9, <1>10, <1>11, <1>12 DEF Next

LEMMA OneAtATimeStep ==
  ASSUME BaseInv, SyncInv, Next
  PROVE  OneAtATime'
  <1> SUFFICES ASSUME ~ (missed' /\ left')
               PROVE  Single'
    BY DEF OneAtATime
  <1>1. CASE Restart
    <2>1. \A d \in BagToSet(net') : d.kind \in {"poll", "groups"}
      BY <1>1, SetIsABag DEF Restart, PollCall, GroupsCall, Call
    <2> QED
      BY <2>1 DEF Single, ChangeCalls, Open
  <1>2. CASE ~ Restart
    <2>1. Single
      BY <1>2, StaysMissed DEF SyncInv, OneAtATime
    <2>2. CASE net' = net
      BY <2>1, <2>2 DEF Single, ChangeCalls, Open, Copies
    <2>3. ASSUME NEW c \in BagToSet(net), AddMemberHandle(c)
          PROVE  Single'
      <3>1. PICK answer : net' = Answered(c, answer)
        BY <2>3 DEF AddMemberHandle
      <3>2. PICK d : d = [c EXCEPT !.stage = "answered", !.ans = answer]
        OBVIOUS
      <3>3. c \in Calls /\ c.kind \in {"add", "remove"} /\ c.stage = "sent"
        BY <2>3 DEF BaseInv, TypeOK, AddMemberHandle, Is
      <3>4. d.kind = c.kind /\ d.group = c.group /\ d.user = c.user /\ d.stage = "answered"
        BY <3>2, <3>3 DEF Calls
      <3>5. net' = Instead(c, {d})
        BY <3>1, <3>2 DEF Answered
      <3> QED
        BY <2>1, <3>3, <3>4, <3>5, SingleAnswered
    <2>4. ASSUME NEW c \in BagToSet(net), NEW answer, net' = Answered(c, answer),
                 c.kind \notin {"add", "remove"}
          PROVE  Single'
      <3>1. PICK S : S = {[c EXCEPT !.stage = "answered", !.ans = answer]}
        OBVIOUS
      <3>2. c \in Calls
        BY DEF BaseInv, TypeOK
      <3>3. \A d \in S : d.kind \notin {"add", "remove"}
        BY <2>4, <3>1, <3>2 DEF Calls
      <3>4. net' = Instead(c, S)
        BY <2>4, <3>1 DEF Answered
      <3> QED
        BY <2>1, <3>3, <3>4, SingleKept
    <2>5. ASSUME NEW c \in BagToSet(net), net' = Gone(c)
          PROVE  Single'
      <3>1. PICK S : S = {}
        OBVIOUS
      <3>2. net' = Instead(c, S) /\ \A d \in S : d.kind \notin {"add", "remove"}
        BY <2>5, <3>1 DEF Gone
      <3> QED
        BY <2>1, <3>2, SingleKept
    <2>6. ASSUME NEW c \in BagToSet(net), PollingHandle(c)
          PROVE  Single'
      <3>1. PICK S : S = {[c EXCEPT !.stage = "parked"]}
        OBVIOUS
      <3>2. c \in Calls /\ c.kind = "poll"
        BY <2>6 DEF BaseInv, TypeOK, PollingHandle, Is
      <3>3. \A d \in S : d.kind \notin {"add", "remove"}
        BY <3>1, <3>2 DEF Calls
      <3>4. net' = Instead(c, S)
        BY <2>6, <3>1 DEF PollingHandle
      <3> QED
        BY <2>1, <3>3, <3>4, SingleKept
    <2>7. ASSUME NEW c \in BagToSet(net), ReadHandle(c) \/ NewGroupHandle(c)
          PROVE  Single'
      BY <2>4, <2>7 DEF ReadHandle, NewGroupHandle, Is
    <2>8. ASSUME NEW c \in BagToSet(net), Lose(c)
          PROVE  Single'
      BY <2>8 DEF Lose
    <2>9. ASSUME NEW c \in BagToSet(net), NewGroups(c)
          PROVE  Single'
      <3>1. PICK S : S = Asked(c.ans)
        OBVIOUS
      <3>2. \A d \in S : d.kind \notin {"add", "remove"}
        BY <3>1 DEF Asked, Call
      <3>3. net' = Instead(c, S)
        BY <2>9, <3>1 DEF NewGroups
      <3> QED
        BY <2>1, <3>2, <3>3, SingleKept
    <2>10. ASSUME NEW c \in BagToSet(net), Handle(c) \/ Reply(c) \/ Message(c) \/ Lose(c)
           PROVE  Single'
      <3>1. CASE Message(c) \/ GroupUsersReply(c) \/ MemberReply(c)
        BY <2>5, <3>1 DEF Message, GroupUsersReply, MemberReply
      <3> QED
        BY <2>3, <2>6, <2>7, <2>8, <2>9, <2>10, <3>1 DEF Handle, Reply
    <2>11. ASSUME NEW g \in Groups, NEW u \in Users, OthersChange(g, u)
           PROVE  Single'
      <3>1. net' = net \/ \E c \in Open("poll") : net' = Answered(c, {g})
        BY <2>11 DEF OthersChange
      <3> QED
        BY <2>2, <2>4, <3>1 DEF Open
    <2>12. ASSUME NEW u \in Users \ {Me}, NEW kind \in {"add", "remove"}, ChangeMember(u, kind)
           PROVE  Single'
      <3>1. PICK d : d = Call(kind, page, u)
        OBVIOUS
      <3>2. net' = Sent({d}) /\ d.group = page /\ d.user = u
        BY <2>12, <3>1 DEF ChangeMember, Call
      <3>3. ~ \E c \in ChangeCalls : c.group = page /\ c.user = u
        BY <2>12 DEF ChangeMember, ChangeCalls
      <3> QED
        BY <2>1, <3>2, <3>3, SingleAsked
    <2>13. CASE AddGroup \/ Poll
      <3>1. PICK kind \in {"new_group", "poll"} : net' = Sent({Call(kind, NoGroup, NoUser)})
        BY <2>13 DEF AddGroup, Poll, PollCall
      <3>2. PICK S : S = {Call(kind, NoGroup, NoUser)}
        OBVIOUS
      <3>3. net' = Sent(S) /\ \A d \in S : d.kind \notin {"add", "remove"}
        BY <3>1, <3>2 DEF Call
      <3> QED
        BY <2>1, <3>3, SingleKept
    <2>14. ASSUME ClosePage \/ \E g \in Groups : OpenPage(g)
           PROVE  net' = net
      BY <2>14 DEF ClosePage, OpenPage
    <2> QED
      BY <1>2, <2>2, <2>10, <2>11, <2>12, <2>13, <2>14 DEF Next
  <1> QED
    BY <1>1, <1>2

LEMMA SyncStep == BaseInv /\ BaseInv' /\ SyncInv /\ [Next]_vars => SyncInv'
  <1>1. ASSUME SyncInv, UNCHANGED vars
        PROVE  SyncInv'
    BY <1>1 DEF SyncInv, PageShows, OneAtATime, Single, ChangeCalls, Open, Copies, vars, table, pages
  <1> QED
    BY <1>1, PageShowsStep, OneAtATimeStep DEF SyncInv

-----------------------------------------------------------------------------
(* What is known, or on its way *)

LEMMA KnownInit == Init => KnownInv
  <1> SUFFICES ASSUME Init
               PROVE  AllBrought /\ RemovedAreGone
    BY DEF KnownInv
  <1>1. BagToSet(net) = {PollCall, GroupsCall}
    BY SetIsABag DEF Init
  <1>2. \A g, u : Brings(GroupsCall, g, u)
    BY DEF Brings, Is, GroupsCall, Call
  <1>3. \A d \in BagToSet(net) : \A g, u : ~ Takes(d, g, u)
    BY <1>1 DEF Takes, Is, GroupsCall, PollCall, Call
  <1> QED
    BY <1>1, <1>2, <1>3 DEF AllBrought, RemovedAreGone, Brought

LEMMA KnownInstead ==
  ASSUME BaseInv, AllBrought, RemovedAreGone, UNCHANGED <<created, groupmembers>>,
         NEW c \in BagToSet(net), NEW S, net' = Instead(c, S), \A d \in S : d.kind # "remove",
         \A g \in Listed : \A u \in groupmembers[g] \cup {Me} :
            /\ InRow(g, u) => InRow(g, u)'
            /\ Brings(c, g, u) => InRow(g, u)' \/ \E d \in S : Brings(d, g, u)
  PROVE  AllBrought' /\ RemovedAreGone'
  <1>1. /\ \A d \in BagToSet(net') : d \in S \/ d \in BagToSet(net)
        /\ \A d \in S : d \in BagToSet(net')
        /\ \A d \in BagToSet(net) : d # c => d \in BagToSet(net')
    BY InsteadIs DEF BaseInv, TypeOK
  <1>2. Listed' = Listed
    BY DEF Listed
  <1>3. AllBrought'
    <2> SUFFICES ASSUME NEW g \in Listed, NEW u \in groupmembers[g] \cup {Me}
                 PROVE  Brought(g, u)'
      BY <1>2 DEF AllBrought
    <2>1. InRow(g, u) \/ \E d \in BagToSet(net) : Brings(d, g, u)
      BY DEF AllBrought, Brought
    <2>2. InRow(g, u)' \/ \E d \in BagToSet(net') : Brings(d, g, u)
      BY <1>1, <2>1
    <2> QED
      BY <2>2 DEF Brought, Brings
  <1>4. RemovedAreGone'
    <2>1. \A d \in BagToSet(net') : \A g, u : Takes(d, g, u) => d \in BagToSet(net)
      BY <1>1 DEF Takes, Is
    <2> QED
      BY <2>1 DEF RemovedAreGone, Takes
  <1> QED
    BY <1>3, <1>4

LEMMA KnownSent ==
  ASSUME BaseInv, AllBrought, RemovedAreGone, UNCHANGED <<created, groupmembers, rows>>,
         NEW d, net' = Sent({d}), d.stage = "sent"
  PROVE  AllBrought' /\ RemovedAreGone'
  <1>1. PICK S : S = {d}
    OBVIOUS
  <1>2. /\ \A e \in BagToSet(net') : e \in S \/ e \in BagToSet(net)
        /\ \A e \in BagToSet(net) : e \in BagToSet(net')
    BY <1>1, SentIs DEF BaseInv, TypeOK
  <1>3. \A e \in BagToSet(net') : \A g, u : Takes(e, g, u) => e \in BagToSet(net)
    BY <1>1, <1>2 DEF Takes, Is
  <1>4. AllBrought'
    <2>1. \A g \in Listed : \A u \in groupmembers[g] \cup {Me} :
             InRow(g, u) \/ \E e \in BagToSet(net') : Brings(e, g, u)
      BY <1>2 DEF AllBrought, Brought
    <2>2. Listed' = Listed /\ \A g, u : InRow(g, u)' <=> InRow(g, u)
      BY DEF Listed, InRow
    <2> QED
      BY <2>1, <2>2 DEF AllBrought, Brought, Brings
  <1>5. RemovedAreGone'
    BY <1>3 DEF RemovedAreGone, Takes
  <1> QED
    BY <1>4, <1>5

(* A row of the table always has Me in it. *)
LEMMA MeInRow ==
  ASSUME BaseInv, NEW g \in Groups, HasRow(g, rows)
  PROVE  InRow(g, Me)
  BY ContactsAssumption DEF BaseInv, RowsInv, Fits, HasRow, InRow

LEMMA KnownReplied ==
  ASSUME BaseInv, SyncInv, AllBrought, RemovedAreGone, NEW c \in BagToSet(net), Reply(c), ~ missed', ~ missed
  PROVE  AllBrought' /\ RemovedAreGone'
  <1>0. c \in Calls /\ UNCHANGED <<created, groupmembers>> /\ PageShows
    BY DEF BaseInv, TypeOK, Reply, NewGroups, GroupUsersReply, MemberReply, server, SyncInv
  <1>1. CASE NewGroups(c)
    <2>1. PICK S : S = Asked(c.ans)
      OBVIOUS
    <2>2. net' = Instead(c, S)
      BY <1>1, <2>1 DEF NewGroups
    <2>3. \A d \in S : d.kind # "remove"
      BY <2>1 DEF Asked, Call
    <2>4. \A g, u : Brings(c, g, u) => \E d \in S : Brings(d, g, u)
      <3> TAKE g, u
      <3> HAVE Brings(c, g, u)
      <3>1. g \in c.ans
        BY <1>1 DEF NewGroups, Brings, Is
      <3>2. Call("members", g, NoUser) \in S
        BY <2>1, <3>1 DEF Asked
      <3>3. Brings(Call("members", g, NoUser), g, u)
        BY DEF Brings, Is, Call
      <3> QED
        BY <3>2, <3>3
    <2>5. \A g, u : InRow(g, u) => InRow(g, u)'
      <3>1. \A i \in DOMAIN rows : i \in DOMAIN rows' /\ rows'[i] = rows[i]
        BY <1>1, NewGroupsWrite DEF BaseInv
      <3> QED
        BY <3>1 DEF InRow
    <2> QED
      BY <1>0, <2>2, <2>3, <2>4, <2>5, KnownInstead
  <1>2. CASE GroupUsersReply(c) \/ MemberReply(c)
    <2>1. PICK S : S = {}
      OBVIOUS
    <2>2. net' = Instead(c, S)
      BY <1>2, <2>1 DEF GroupUsersReply, MemberReply, Gone
    <2>3. CASE \A g \in Listed : \A u \in groupmembers[g] \cup {Me} :
                  (InRow(g, u) \/ Brings(c, g, u)) => InRow(g, u)'
      BY <1>0, <2>1, <2>2, <2>3, KnownInstead
    <2>4. CASE GroupUsersReply(c) /\ c.ans = {}
      <3>1. rows' = rows
        BY <2>4 DEF GroupUsersReply, table
      <3>2. \A g, u : ~ Brings(c, g, u)
        BY <2>4 DEF Brings, Is, GroupUsersReply
      <3> QED
        BY <2>3, <3>1, <3>2 DEF InRow
    <2>5. CASE GroupUsersReply(c) /\ c.ans # {}
      <3>1. /\ c.group \in Groups /\ SameGroups(rows', rows)
            /\ \A i \in DOMAIN rows :
                  rows'[i].members = IF rows[i].contactid = c.group THEN rows[i].members \cup c.ans
                                                                    ELSE rows[i].members
        BY <2>5, GroupUsersAdd
      <3>2. HasRow(c.group, rows)
        BY <2>5 DEF BaseInv, RowsInv, ReplyFits, GroupUsersReply, Is
      <3>3. \A g, u : InRow(g, u) => InRow(g, u)'
        BY <3>1 DEF InRow, SameGroups
      <3>4. \A g, u : Brings(c, g, u) => InRow(g, u)'
        <4>1. \A g, u : Brings(c, g, u) => g = c.group /\ u \in c.ans
          BY <2>5 DEF Brings, Is, GroupUsersReply
        <4>2. PICK i \in DOMAIN rows : rows[i].contactid = c.group
          BY <3>2 DEF HasRow
        <4>3. i \in DOMAIN rows' /\ rows'[i].contactid = c.group /\ c.ans \subseteq rows'[i].members
          BY <3>1, <4>2 DEF SameGroups
        <4> QED
          BY <4>1, <4>3 DEF InRow
      <3> QED
        BY <2>3, <3>3, <3>4
    <2>6. CASE MemberReply(c)
      <3> DEFINE h == c.group
                 v == c.user
      <3>1. /\ h \in Groups /\ v \in Users \ {Me} /\ SameGroups(rows', rows)
            /\ \A i \in DOMAIN rows : c.ans = {} \/ rows[i].contactid # h =>
                  rows'[i].members = rows[i].members
            /\ \A i \in DOMAIN rows : c.ans # {} /\ rows[i].contactid = h =>
                  rows'[i].members = IF c.kind = "add" THEN rows[i].members \cup {v}
                                                       ELSE rows[i].members \ {v}
        BY <1>0, <2>6, MemberReplyMakes
      <3>2. Is(c, {"add", "remove"}, "answered")
        BY <2>6 DEF MemberReply
      <3>3. c.kind = "remove" /\ c.ans # {} => v \notin groupmembers[h]
        BY <3>1, <3>2 DEF RemovedAreGone, Takes, Is
      <3>4. \A g, u : Brings(c, g, u) => c.kind = "add" /\ g = h /\ u = v /\ c.ans # {}
        BY <3>2 DEF Brings, Is
      <3>5. \A g \in Listed : \A u \in groupmembers[g] \cup {Me} : InRow(g, u) => InRow(g, u)'
        <4> SUFFICES ASSUME NEW g \in Listed, NEW u \in groupmembers[g] \cup {Me},
                            NEW i \in DOMAIN rows, rows[i].contactid = g, u \in rows[i].members
                     PROVE  i \in DOMAIN rows' /\ rows'[i].contactid = g /\ u \in rows'[i].members
          BY DEF InRow
        <4>1. c.kind = "remove" /\ c.ans # {} /\ g = h => u # v
          BY <3>1, <3>3
        <4>2. c.kind \in {"add", "remove"}
          BY <3>2 DEF Is
        <4> QED
          BY <3>1, <4>1, <4>2 DEF SameGroups
      <3>6. \A g, u : Brings(c, g, u) => InRow(g, u)'
        <4> SUFFICES ASSUME c.kind = "add", c.ans # {}
                     PROVE  InRow(h, v)'
          BY <3>4
        <4>1. HasRow(h, rows)
          <5>1. missed \in BOOLEAN /\ left \in BOOLEAN
            BY DEF BaseInv, TypeOK
          <5>2. page = h
            BY <2>6, <5>1 DEF MemberReply
          <5> QED
            BY <3>1, <5>2, ContactsAssumption DEF BaseInv, RowsInv
        <4> QED
          BY <3>1, <4>1 DEF InRow, SameGroups, HasRow
      <3> QED
        BY <2>3, <3>5, <3>6
    <2> QED
      BY <1>2, <2>4, <2>5, <2>6
  <1> QED
    BY <1>1, <1>2 DEF Reply

LEMMA KnownHandled ==
  ASSUME BaseInv, AllBrought, RemovedAreGone, NEW c \in BagToSet(net),
         PollingHandle(c) \/ ReadHandle(c) \/ Message(c)
  PROVE  AllBrought' /\ RemovedAreGone'
  <1>0. /\ c \in Calls /\ UNCHANGED <<created, groupmembers, rows>>
        /\ \A g, u : InRow(g, u) => InRow(g, u)'
    BY DEF BaseInv, TypeOK, PollingHandle, ReadHandle, Message, server, table, InRow
  <1>1. CASE PollingHandle(c)
    <2>1. PICK S : S = {[c EXCEPT !.stage = "parked"]}
      OBVIOUS
    <2>2. net' = Instead(c, S)
      BY <1>1, <2>1 DEF PollingHandle
    <2>3. \A d \in S : d.kind # "remove"
      BY <1>0, <1>1, <2>1 DEF PollingHandle, Is, Calls
    <2>4. \A g, u : ~ Brings(c, g, u)
      BY <1>1 DEF PollingHandle, Brings, Is
    <2> QED
      BY <1>0, <2>2, <2>3, <2>4, KnownInstead
  <1>2. CASE Message(c)
    <2>1. PICK S : S = {}
      OBVIOUS
    <2>2. net' = Instead(c, S) /\ \A d \in S : d.kind # "remove"
      BY <1>2, <2>1 DEF Message, Gone
    <2>3. \A g, u : ~ Brings(c, g, u)
      BY <1>2 DEF Message, Brings, Is
    <2> QED
      BY <1>0, <2>2, <2>3, KnownInstead
  <1>3. CASE ReadHandle(c)
    <2>1. PICK ans : ans = IF c.kind = "groups" THEN Listed
                           ELSE IF c.group \in Groups THEN groupmembers[c.group] ELSE {}
      OBVIOUS
    <2>2. PICK d : d = [c EXCEPT !.stage = "answered", !.ans = ans]
      OBVIOUS
    <2>3. d.kind = c.kind /\ d.group = c.group /\ d.ans = ans /\ d.stage = "answered"
      BY <1>0, <2>2 DEF Calls
    <2>4. PICK S : S = {d}
      OBVIOUS
    <2>5. net' = Instead(c, S)
      BY <1>3, <2>1, <2>2, <2>4 DEF ReadHandle, Answered
    <2>6. \A e \in S : e.kind # "remove"
      BY <1>3, <2>3, <2>4 DEF ReadHandle, Is
    <2>7. \A g \in Listed : \A u \in groupmembers[g] \cup {Me} :
             Brings(c, g, u) => InRow(g, u)' \/ Brings(d, g, u)
      <3>1. CASE c.kind = "groups"
        BY <2>1, <2>3, <3>1 DEF Brings, Is
      <3>2. CASE c.kind = "members"
        <4> SUFFICES ASSUME NEW g \in Listed, NEW u \in groupmembers[g] \cup {Me}, Brings(c, g, u)
                     PROVE  InRow(g, u)' \/ Brings(d, g, u)
          OBVIOUS
        <4>1. c.group = g /\ g \in Groups
          BY <1>3, <3>2 DEF Brings, Is, ReadHandle, Listed, BaseInv, TypeOK
        <4>2. CASE u \in groupmembers[g]
          BY <2>1, <2>3, <3>2, <4>1, <4>2 DEF Brings, Is
        <4>3. CASE u = Me
          <5>1. HasRow(g, rows)
            BY <3>2, <4>1 DEF BaseInv, RowsInv, ReplyFits
          <5> QED
            BY <1>0, <4>1, <4>3, <5>1, MeInRow
        <4> QED
          BY <4>2, <4>3
      <3> QED
        BY <1>3, <3>1, <3>2 DEF ReadHandle, Is
    <2> QED
      BY <1>0, <2>4, <2>5, <2>6, <2>7, KnownInstead
  <1> QED
    BY <1>1, <1>2, <1>3

(* A new group is in the answer to who has made it. *)
LEMMA KnownMade ==
  ASSUME BaseInv, AllBrought, RemovedAreGone, NEW c \in BagToSet(net), NewGroupHandle(c)
  PROVE  AllBrought' /\ RemovedAreGone'
  <1>1. PICK h \in Own \ created : created' = created \cup {h} /\ net' = Answered(c, {h})
    BY DEF NewGroupHandle
  <1>2. PICK d : d = [c EXCEPT !.stage = "answered", !.ans = {h}]
    OBVIOUS
  <1>3. d.kind = "new_group" /\ d.stage = "answered" /\ d.ans = {h}
    BY <1>2 DEF NewGroupHandle, Is, BaseInv, TypeOK, Calls
  <1>4. PICK S : S = {d}
    OBVIOUS
  <1>5. net' = Instead(c, S)
    BY <1>1, <1>2, <1>4 DEF Answered
  <1>6. /\ \A e \in BagToSet(net') : e \in S \/ e \in BagToSet(net)
        /\ d \in BagToSet(net')
        /\ \A e \in BagToSet(net) : e # c => e \in BagToSet(net')
    BY <1>4, <1>5, InsteadIs DEF BaseInv, TypeOK
  <1>7. groupmembers' = groupmembers /\ rows' = rows
    BY DEF NewGroupHandle, table
  <1>8. \A g \in Listed' : g \in Listed \/ g = h
    BY <1>1, <1>7 DEF Listed
  <1>9. \A g, u : ~ Brings(c, g, u)
    BY DEF NewGroupHandle, Brings, Is
  <1>10. AllBrought'
    <2> SUFFICES ASSUME NEW g \in Listed', NEW u \in groupmembers[g] \cup {Me}
                 PROVE  Brought(g, u)'
      BY <1>7 DEF AllBrought
    <2>1. CASE g = h
      BY <1>3, <1>6, <2>1 DEF Brought, Brings, Is
    <2>2. CASE g \in Listed
      <3>1. InRow(g, u) \/ \E e \in BagToSet(net) : Brings(e, g, u)
        BY <2>2 DEF AllBrought, Brought
      <3> QED
        BY <1>6, <1>7, <1>9, <3>1 DEF Brought, Brings, InRow
    <2> QED
      BY <1>8, <2>1, <2>2
  <1>11. RemovedAreGone'
    <2>1. \A e \in BagToSet(net') : \A g, u : Takes(e, g, u) => e \in BagToSet(net)
      BY <1>3, <1>4, <1>6 DEF Takes, Is
    <2> QED
      BY <1>7, <2>1 DEF RemovedAreGone, Takes
  <1> QED
    BY <1>10, <1>11

(* What a change that is asked for does, if it is answered OK. *)
LEMMA ChangeAnswered ==
  ASSUME BaseInv, NEW c \in BagToSet(net), AddMemberHandle(c)
  PROVE  LET h == c.group
             v == c.user
         IN  /\ Is(c, {"add", "remove"}, "sent") /\ h \in Groups /\ v \in Users \ {Me}
             /\ created' = created /\ rows' = rows
             /\ \E ok \in BOOLEAN, d \in Calls :
                  /\ d.kind = c.kind /\ d.stage = "answered" /\ d.group = h /\ d.user = v
                  /\ d.ans = IF ok THEN {v} ELSE {}
                  /\ net' = Instead(c, {d})
                  /\ \A g \in Groups : ~ (ok /\ g = h) => groupmembers'[g] = groupmembers[g]
                  /\ ok => groupmembers'[h] = IF c.kind = "add" THEN groupmembers[h] \cup {v}
                                                                ELSE groupmembers[h] \ {v}
                  /\ ok /\ c.kind = "remove" /\ ~ left' =>
                       \A m \in Open("members") : m.group = h => v \notin m.ans
  <1> DEFINE h == c.group
             v == c.user
             okay == Creator[h] = Me /\ IF c.kind = "add" THEN Joins(h, v) ELSE v \in groupmembers[h]
             M == IF c.kind = "add" THEN groupmembers[h] \cup {v} ELSE groupmembers[h] \ {v}
  <1>1. /\ c \in Calls /\ Is(c, {"add", "remove"}, "sent") /\ h \in Groups /\ v \in Users \ {Me}
        /\ created' = created /\ rows' = rows
    BY DEF BaseInv, TypeOK, AddMemberHandle, Is, RowsInv, ReplyFits, table
  <1>2. PICK answer : answer = IF okay THEN {v} ELSE {}
    OBVIOUS
  <1>3. net' = Answered(c, answer)
    <2>1. net' = Answered(c, IF okay THEN {v} ELSE {})
      BY Zenon DEF AddMemberHandle
    <2> HIDE DEF okay, v
    <2> QED
      BY <1>2, <2>1, Zenon
  <1>4. (okay /\ Changed(h, M)) \/ (~ okay /\ UNCHANGED <<groupmembers, ever>>)
    BY DEF AddMemberHandle
  <1>5. PICK d : d = [c EXCEPT !.stage = "answered", !.ans = answer]
    OBVIOUS
  <1>6. /\ d \in Calls /\ d.kind = c.kind /\ d.stage = "answered" /\ d.group = h /\ d.user = v
        /\ d.ans = answer
    BY <1>1, <1>2, <1>5 DEF Calls
  <1>7. net' = Instead(c, {d})
    BY <1>3, <1>5 DEF Answered
  <1>8. okay => /\ groupmembers'[h] = M
                /\ \A g \in Groups : g # h => groupmembers'[g] = groupmembers[g]
    <2>1. M \in SUBSET Users
      BY <1>1 DEF BaseInv, TypeOK
    <2> HIDE DEF M
    <2> QED
      BY <1>1, <1>4, <2>1, ChangedIs DEF BaseInv
  <1>9. okay /\ c.kind = "remove" /\ ~ left' => \A m \in Open("members") : m.group = h => v \notin m.ans
    <2>1. left \in BOOLEAN
      BY DEF BaseInv, TypeOK
    <2> QED
      BY <2>1 DEF AddMemberHandle
  <1> HIDE DEF okay
  <1>10. PICK ok \in BOOLEAN : ok <=> okay
    OBVIOUS
  <1>11. answer = IF ok THEN {v} ELSE {}
    BY <1>2, <1>10
  <1>12. \A g \in Groups : ~ (ok /\ g = h) => groupmembers'[g] = groupmembers[g]
    BY <1>4, <1>8, <1>10
  <1> HIDE DEF h, v
  <1>13. \E o \in BOOLEAN, e \in Calls :
            /\ e.kind = c.kind /\ e.stage = "answered" /\ e.group = h /\ e.user = v
            /\ e.ans = IF o THEN {v} ELSE {}
            /\ net' = Instead(c, {e})
            /\ \A g \in Groups : ~ (o /\ g = h) => groupmembers'[g] = groupmembers[g]
            /\ o => groupmembers'[h] = IF c.kind = "add" THEN groupmembers[h] \cup {v}
                                                         ELSE groupmembers[h] \ {v}
            /\ o /\ c.kind = "remove" /\ ~ left' =>
                 \A m \in Open("members") : m.group = h => v \notin m.ans
    BY <1>6, <1>7, <1>8, <1>9, <1>10, <1>11, <1>12
  <1> QED
    BY <1>1, <1>13 DEF h, v

(* Who joins is in the answer to the admin, and who leaves has gone. *)
LEMMA KnownChanged ==
  ASSUME BaseInv, Single, AllBrought, RemovedAreGone, NEW c \in BagToSet(net), AddMemberHandle(c)
  PROVE  AllBrought' /\ RemovedAreGone'
  <1> DEFINE h == c.group
             v == c.user
  <1>1. /\ Is(c, {"add", "remove"}, "sent") /\ h \in Groups /\ v \in Users \ {Me}
        /\ created' = created /\ rows' = rows
    BY ChangeAnswered
  <1>2. PICK ok \in BOOLEAN, d \in Calls :
           /\ d.kind = c.kind /\ d.stage = "answered" /\ d.group = h /\ d.user = v
           /\ d.ans = IF ok THEN {v} ELSE {}
           /\ net' = Instead(c, {d})
           /\ \A g \in Groups : ~ (ok /\ g = h) => groupmembers'[g] = groupmembers[g]
           /\ ok => groupmembers'[h] = IF c.kind = "add" THEN groupmembers[h] \cup {v}
                                                         ELSE groupmembers[h] \ {v}
           /\ ok /\ c.kind = "remove" /\ ~ left' =>
                \A m \in Open("members") : m.group = h => v \notin m.ans
    BY ChangeAnswered
  <1>3. PICK S : S = {d}
    OBVIOUS
  <1>9. /\ \A e \in BagToSet(net') : e \in S \/ e \in BagToSet(net)
        /\ d \in BagToSet(net')
        /\ \A e \in BagToSet(net) : e # c => e \in BagToSet(net')
    BY <1>2, <1>3, InsteadIs DEF BaseInv, TypeOK
  <1>10. \A g, u : ~ Brings(c, g, u) /\ ~ Takes(c, g, u)
    BY <1>1 DEF Brings, Takes, Is
  <1>11. \A g, u : InRow(g, u) => InRow(g, u)'
    BY <1>1 DEF InRow
  <1>12. \A g \in Groups : \A u \in Users :
            /\ u \in groupmembers'[g] => u \in groupmembers[g] \/ (ok /\ c.kind = "add" /\ g = h /\ u = v)
            /\ ok /\ c.kind = "remove" => v \notin groupmembers'[h]
    BY <1>1, <1>2 DEF Is
  <1>13. groupmembers' \in [Groups -> SUBSET Users] /\ Listed' \subseteq Groups
    <2>1. BaseInv'
      BY ChangeFits
    <2> QED
      BY <2>1 DEF BaseInv, TypeOK, Listed
  <1>14. \A g \in Listed' : g \in Listed
    BY <1>1, <1>12, <1>13, ContactsAssumption DEF Listed
  <1>15. AllBrought'
    <2> SUFFICES ASSUME NEW g \in Listed', NEW u \in groupmembers'[g] \cup {Me}
                 PROVE  Brought(g, u)'
      BY DEF AllBrought
    <2>1. u \in Users /\ g \in Groups
      BY <1>13, ContactsAssumption
    <2>2. CASE u \in groupmembers[g] \cup {Me}
      <3>1. InRow(g, u) \/ \E e \in BagToSet(net) : Brings(e, g, u)
        BY <1>14, <2>2 DEF AllBrought, Brought
      <3> QED
        BY <1>9, <1>10, <1>11, <3>1 DEF Brought, Brings
    <2>3. CASE ok /\ c.kind = "add" /\ g = h /\ u = v
      BY <1>2, <1>9, <2>3 DEF Brought, Brings, Is
    <2> QED
      BY <1>12, <2>1, <2>2, <2>3
  <1>16. RemovedAreGone'
    <2> SUFFICES ASSUME NEW g \in Groups, NEW u \in Users, NEW e \in BagToSet(net'), Takes(e, g, u)
                 PROVE  u \notin groupmembers'[g]
      BY DEF RemovedAreGone, Takes
    <2>1. CASE e = d
      <3>1. e.group = g /\ e.user = u /\ e.kind = "remove" /\ e.ans # {}
        BY DEF Takes, Is
      <3> QED
        BY <1>2, <1>12, <2>1, <3>1
    <2>2. CASE e \in BagToSet(net)
      <3>1. u \notin groupmembers[g]
        BY <2>2 DEF RemovedAreGone
      <3>2. ~ (g = h /\ u = v)
        <4>1. c \in ChangeCalls /\ e \in ChangeCalls /\ e.group = g /\ e.user = u /\ e.stage # c.stage
          BY <1>1, <2>2 DEF ChangeCalls, Open, Takes, Is
        <4> QED
          BY <4>1 DEF Single
      <3> QED
        BY <1>12, <3>1, <3>2
    <2> QED
      BY <1>3, <1>9, <2>1, <2>2
  <1> QED
    BY <1>15, <1>16

(* What is open after another admin's change: what was, but for a parked   *)
(* poll that has been answered.                                            *)
LEMMA OthersTell ==
  ASSUME BaseInv, NEW h \in Groups, NEW v \in Users, OthersChange(h, v)
  PROVE  /\ created' = created /\ rows' = rows
         /\ \A g \in Groups : g # h => groupmembers'[g] = groupmembers[g]
         /\ groupmembers'[h] = IF Joins(h, v) THEN groupmembers[h] \cup {v} ELSE groupmembers[h] \ {v}
         /\ \A e \in BagToSet(net') :
               e \in BagToSet(net) \/ (e.kind = "poll" /\ e.stage = "answered" /\ e.ans = {h})
         /\ \A e \in BagToSet(net) : e \in BagToSet(net') \/ (e.kind = "poll" /\ e.stage = "parked")
         /\ Me \in groupmembers'[h] =>
               missed' \/ \E e \in BagToSet(net') : e.kind = "poll" /\ e.stage = "answered" /\ e.ans = {h}
  <1> DEFINE M == IF Joins(h, v) THEN groupmembers[h] \cup {v} ELSE groupmembers[h] \ {v}
             parked == {c \in Open("poll") : c.stage = "parked"}
             told == Me \in groupmembers'[h]
  <1>1. created' = created /\ rows' = rows
    BY DEF OthersChange, table
  <1>2. groupmembers'[h] = M /\ \A g \in Groups : g # h => groupmembers'[g] = groupmembers[g]
    <2>1. M \in SUBSET Users
      BY DEF BaseInv, TypeOK
    <2>2. Changed(h, M)
      BY DEF OthersChange
    <2> HIDE DEF M
    <2> QED
      BY <2>1, <2>2, ChangedIs DEF BaseInv
  <1> HIDE DEF M
  <1>3. ASSUME NEW c \in parked, net' = Answered(c, {h})
        PROVE  /\ \A e \in BagToSet(net') :
                     e \in BagToSet(net) \/ (e.kind = "poll" /\ e.stage = "answered" /\ e.ans = {h})
               /\ \A e \in BagToSet(net) : e \in BagToSet(net') \/ (e.kind = "poll" /\ e.stage = "parked")
               /\ \E e \in BagToSet(net') : e.kind = "poll" /\ e.stage = "answered" /\ e.ans = {h}
    <2>1. c \in BagToSet(net) /\ c \in Calls /\ c.kind = "poll" /\ c.stage = "parked"
      BY DEF Open, BaseInv, TypeOK
    <2>2. PICK d : d = [c EXCEPT !.stage = "answered", !.ans = {h}]
      OBVIOUS
    <2>3. d.kind = "poll" /\ d.stage = "answered" /\ d.ans = {h}
      BY <2>1, <2>2 DEF Calls
    <2>4. PICK S : S = {d}
      OBVIOUS
    <2>5. net' = Instead(c, S)
      BY <1>3, <2>2, <2>4 DEF Answered
    <2>6. /\ \A e \in BagToSet(net') : e \in S \/ e \in BagToSet(net)
          /\ \A e \in S : e \in BagToSet(net')
          /\ \A e \in BagToSet(net) : e # c => e \in BagToSet(net')
      BY <2>1, <2>5, InsteadIs DEF BaseInv, TypeOK
    <2> QED
      BY <2>1, <2>3, <2>4, <2>6
  <1>4. \/ \E c \in parked : told /\ net' = Answered(c, {h})
        \/ ~ (told /\ parked # {}) /\ net' = net
    BY DEF OthersChange
  <1>5. told /\ parked = {} => missed'
    <2>1. missed \in BOOLEAN
      BY DEF BaseInv, TypeOK
    <2> QED
      BY <2>1 DEF OthersChange
  <1> HIDE DEF parked
  <1>6. CASE \E c \in parked : told /\ net' = Answered(c, {h})
    BY <1>1, <1>2, <1>3, <1>6 DEF M
  <1>7. CASE ~ (told /\ parked # {}) /\ net' = net
    BY <1>1, <1>2, <1>5, <1>7 DEF M
  <1> QED
    BY <1>4, <1>6, <1>7

LEMMA KnownTold ==
  ASSUME BaseInv, AllBrought, RemovedAreGone, ~ missed',
         NEW h \in Groups, NEW v \in Users, OthersChange(h, v)
  PROVE  AllBrought' /\ RemovedAreGone'
  <1>1. /\ created' = created /\ rows' = rows
        /\ \A g \in Groups : g # h => groupmembers'[g] = groupmembers[g]
        /\ \A e \in BagToSet(net') :
              e \in BagToSet(net) \/ (e.kind = "poll" /\ e.stage = "answered" /\ e.ans = {h})
        /\ \A e \in BagToSet(net) : e \in BagToSet(net') \/ (e.kind = "poll" /\ e.stage = "parked")
        /\ Me \in groupmembers'[h] =>
              \E e \in BagToSet(net') : e.kind = "poll" /\ e.stage = "answered" /\ e.ans = {h}
    BY OthersTell
  <1>2. Creator[h] # Me
    BY DEF OthersChange, Others, Own
  <1>3. Listed' \subseteq Groups
    BY <1>1 DEF BaseInv, TypeOK, Listed
  <1>4. \A g \in Listed' : g # h => g \in Listed
    BY <1>1, <1>3 DEF Listed
  <1>5. h \in Listed' => Me \in groupmembers'[h]
    BY <1>2 DEF Listed
  <1>6. AllBrought'
    <2> SUFFICES ASSUME NEW g \in Listed', NEW u \in groupmembers'[g] \cup {Me}
                 PROVE  Brought(g, u)'
      BY DEF AllBrought
    <2>1. CASE g = h
      BY <1>1, <1>5, <2>1 DEF Brought, Brings, Is
    <2>2. CASE g # h
      <3>1. g \in Listed /\ u \in groupmembers[g] \cup {Me}
        BY <1>1, <1>3, <1>4, <2>2
      <3>2. InRow(g, u) \/ \E e \in BagToSet(net) : Brings(e, g, u)
        BY <3>1 DEF AllBrought, Brought
      <3>3. \A e \in BagToSet(net) : Brings(e, g, u) => e \in BagToSet(net')
        BY <1>1 DEF Brings, Is
      <3> QED
        BY <1>1, <3>2, <3>3 DEF Brought, Brings, InRow
    <2> QED
      BY <2>1, <2>2
  <1>7. RemovedAreGone'
    <2> SUFFICES ASSUME NEW g \in Groups, NEW u \in Users, NEW e \in BagToSet(net'), Takes(e, g, u)
                 PROVE  u \notin groupmembers'[g]
      BY DEF RemovedAreGone, Takes
    <2>1. e \in BagToSet(net)
      BY <1>1 DEF Takes, Is
    <2>2. g # h
      BY <1>2, <2>1 DEF BaseInv, RowsInv, ReplyFits, Takes, Is
    <2> QED
      BY <1>1, <2>1, <2>2 DEF RemovedAreGone
  <1> QED
    BY <1>6, <1>7

LEMMA KnownStep ==
  ASSUME BaseInv, SyncInv, KnownInv, [Next]_vars
  PROVE  KnownInv'
  <1> SUFFICES ASSUME ~ missed'
               PROVE  AllBrought' /\ RemovedAreGone'
    BY DEF KnownInv
  <1>1. CASE Restart
    <2>1. BagToSet(net') = {PollCall, GroupsCall}
      BY <1>1, SetIsABag DEF Restart
    <2>2. \A g, u : Brings(GroupsCall, g, u)
      BY DEF Brings, Is, GroupsCall, Call
    <2>3. \A d \in BagToSet(net') : \A g, u : ~ Takes(d, g, u)
      BY <2>1 DEF Takes, Is, GroupsCall, PollCall, Call
    <2>4. AllBrought'
      BY <2>1, <2>2 DEF AllBrought, Brought, Brings
    <2>5. RemovedAreGone'
      BY <2>3 DEF RemovedAreGone, Takes
    <2> QED
      BY <2>4, <2>5
  <1>2. CASE UNCHANGED <<created, groupmembers, rows, net, missed>>
    <2>1. AllBrought /\ RemovedAreGone
      BY <1>2 DEF KnownInv
    <2>2. Listed' = Listed
      BY <1>2 DEF Listed
    <2>3. AllBrought'
      BY <1>2, <2>1, <2>2 DEF AllBrought, Brought, Brings, InRow
    <2>4. RemovedAreGone'
      BY <1>2, <2>1 DEF RemovedAreGone, Takes
    <2> QED
      BY <2>3, <2>4
  <1>3. CASE Next /\ ~ Restart
    <2>1. ~ missed /\ AllBrought /\ RemovedAreGone /\ Single
      BY <1>3, StaysMissed DEF KnownInv, SyncInv, OneAtATime
    <2>2. ASSUME NEW c \in BagToSet(net), Handle(c) \/ Reply(c) \/ Message(c) \/ Lose(c)
          PROVE  AllBrought' /\ RemovedAreGone'
      <3>1. ~ Lose(c)
        BY DEF Lose
      <3> QED
        BY <2>1, <2>2, <3>1, KnownHandled, KnownMade, KnownChanged, KnownReplied DEF Handle
    <2>3. ASSUME NEW g \in Groups, NEW u \in Users, OthersChange(g, u)
          PROVE  AllBrought' /\ RemovedAreGone'
      BY <2>1, <2>3, KnownTold
    <2>4. ASSUME NEW u \in Users \ {Me}, NEW kind \in {"add", "remove"}, ChangeMember(u, kind)
          PROVE  AllBrought' /\ RemovedAreGone'
      <3>1. PICK d : d = Call(kind, page, u)
        OBVIOUS
      <3>2. d.stage = "sent" /\ net' = Sent({d}) /\ UNCHANGED <<created, groupmembers, rows>>
        BY <2>4, <3>1 DEF ChangeMember, Call, server, table
      <3> QED
        BY <2>1, <3>2, KnownSent
    <2>5. CASE AddGroup \/ Poll
      <3>1. PICK kind \in {"new_group", "poll"} : net' = Sent({Call(kind, NoGroup, NoUser)})
        BY <2>5 DEF AddGroup, Poll, PollCall
      <3>2. PICK d : d = Call(kind, NoGroup, NoUser)
        OBVIOUS
      <3>3. d.stage = "sent" /\ net' = Sent({d}) /\ UNCHANGED <<created, groupmembers, rows>>
        BY <2>5, <3>1, <3>2 DEF AddGroup, Poll, Call, server, table
      <3> QED
        BY <2>1, <3>3, KnownSent
    <2>6. CASE ClosePage \/ \E g \in Groups : OpenPage(g)
      BY <1>2, <2>6 DEF ClosePage, OpenPage, server, table
    <2> QED
      BY <1>3, <2>2, <2>3, <2>4, <2>5, <2>6 DEF Next
  <1>4. CASE UNCHANGED vars
    BY <1>2, <1>4 DEF vars, server, table
  <1> QED
    BY <1>1, <1>3, <1>4

-----------------------------------------------------------------------------
(* What is left *)

LEMMA LeftInit == Init => LeftInv
  <1> SUFFICES ASSUME Init
               PROVE  Old \subseteq created /\ NoneLeft
    BY DEF LeftInv
  <1>1. BagToSet(net) = {PollCall, GroupsCall}
    BY SetIsABag DEF Init
  <1>2. \A d \in BagToSet(net) : d.kind \in {"poll", "groups"} /\ d.ans = {}
    BY <1>1 DEF PollCall, GroupsCall, Call
  <1>3. DOMAIN rows = {}
    BY DEF Init
  <1>4. NoneLeft
    BY <1>2, <1>3 DEF NoneLeft, ReplyHolds
  <1> QED
    BY <1>4 DEF Init

(* Steps by which nobody leaves a group and no row changes. *)
LEMMA LeftGrows ==
  ASSUME BaseInv, NoneLeft, created \subseteq created', created' \subseteq Groups, rows' = rows,
         \A g \in Groups : groupmembers[g] \subseteq groupmembers'[g],
         \A e \in BagToSet(net') : e \in BagToSet(net) \/ ReplyHolds(e)',
         \A e \in BagToSet(net) : \A g, u : Takes(e, g, u) => e \in BagToSet(net')
  PROVE  NoneLeft'
  <1>1. \A i \in DOMAIN rows' : Rightly(rows[i])'
    <2> SUFFICES ASSUME NEW i \in DOMAIN rows
                 PROVE  Rightly(rows[i])'
      OBVIOUS
    <2>1. Rightly(rows[i]) /\ rows'[i] = rows[i]
      BY DEF NoneLeft
    <2>2. rows[i].contactid \in created /\ rows[i].contactid \in Groups /\ rows[i].contactid \in created'
      BY <2>1 DEF Rightly
    <2>3. \A u \in rows[i].members \ {Me} :
             u \in groupmembers'[rows[i].contactid]
               \/ \E e \in BagToSet(net') : Takes(e, rows[i].contactid, u)
      BY <2>1, <2>2 DEF Rightly
    <2> QED
      BY <2>2, <2>3 DEF Rightly, Takes
  <1>2. \A e \in BagToSet(net') : ReplyHolds(e)'
    <2> SUFFICES ASSUME NEW e \in BagToSet(net)
                 PROVE  ReplyHolds(e)'
      OBVIOUS
    <2>1. ReplyHolds(e) /\ ReplyFits(e) /\ e.kind \in Kinds
      BY DEF NoneLeft, BaseInv, RowsInv, TypeOK, Calls
    <2>2. CASE e.kind \in {"groups", "poll", "new_group"}
      BY <2>1, <2>2 DEF ReplyHolds
    <2>3. CASE e.kind = "members"
      BY <2>1, <2>3 DEF ReplyHolds, ReplyFits
    <2>4. CASE e.kind = "add"
      BY <2>1, <2>4 DEF ReplyHolds, ReplyFits
    <2>5. CASE e.kind = "remove"
      BY <2>5 DEF ReplyHolds
    <2> QED
      BY <2>1, <2>2, <2>3, <2>4, <2>5 DEF Kinds
  <1> QED
    BY <1>1, <1>2 DEF NoneLeft

(* The same where one request is replaced by others, or more are sent. *)
LEMMA LeftInstead ==
  ASSUME BaseInv, NoneLeft, created \subseteq created', created' \subseteq Groups, rows' = rows,
         \A g \in Groups : groupmembers[g] \subseteq groupmembers'[g],
         NEW c \in BagToSet(net), NEW S, net' = Instead(c, S), \A d \in S : ReplyHolds(d)',
         c.stage # "answered"
  PROVE  NoneLeft'
  <1>1. /\ \A d \in BagToSet(net') : d \in S \/ d \in BagToSet(net)
        /\ \A d \in BagToSet(net) : d # c => d \in BagToSet(net')
    BY InsteadIs DEF BaseInv, TypeOK
  <1>2. \A e \in BagToSet(net) : \A g, u : Takes(e, g, u) => e \in BagToSet(net')
    BY <1>1 DEF Takes, Is
  <1> QED
    BY <1>1, <1>2, LeftGrows

LEMMA LeftSent ==
  ASSUME BaseInv, NoneLeft, UNCHANGED <<created, groupmembers, rows>>,
         NEW d \in Calls, net' = Sent({d}), d.ans = {}
  PROVE  NoneLeft'
  <1>1. PICK S : S = {d}
    OBVIOUS
  <1>2. /\ \A e \in BagToSet(net') : e \in S \/ e \in BagToSet(net)
        /\ \A e \in BagToSet(net) : e \in BagToSet(net')
    BY <1>1, SentIs DEF BaseInv, TypeOK
  <1>3. ReplyHolds(d)'
    BY DEF ReplyHolds, Calls, Kinds
  <1>4. \A e \in BagToSet(net') : e \in BagToSet(net) \/ ReplyHolds(e)'
    BY <1>1, <1>2, <1>3
  <1>5. created \subseteq created' /\ created' \subseteq Groups
        /\ \A g \in Groups : groupmembers[g] \subseteq groupmembers'[g]
    BY DEF BaseInv, TypeOK
  <1> QED
    BY <1>2, <1>4, <1>5, LeftGrows

LEMMA LeftHandled ==
  ASSUME BaseInv, NoneLeft, NEW c \in BagToSet(net),
         PollingHandle(c) \/ ReadHandle(c) \/ NewGroupHandle(c) \/ Message(c)
  PROVE  NoneLeft'
  <1>0. /\ c \in Calls /\ rows' = rows /\ groupmembers' = groupmembers /\ c.stage # "answered"
        /\ created \subseteq Groups /\ ReplyHolds(c) /\ ReplyFits(c)
        /\ \A g \in Groups : groupmembers[g] \subseteq groupmembers'[g]
    BY DEF BaseInv, TypeOK, RowsInv, NoneLeft, PollingHandle, ReadHandle, NewGroupHandle, Message,
           server, table, Is
  <1>1. CASE PollingHandle(c)
    <2>1. PICK d : d = [c EXCEPT !.stage = "parked"]
      OBVIOUS
    <2>2. PICK S : S = {d}
      OBVIOUS
    <2>3. net' = Instead(c, S) /\ created' = created
      BY <1>1, <2>1, <2>2 DEF PollingHandle, server
    <2>4. d.kind = "poll" /\ d.ans = c.ans /\ c.kind = "poll"
      BY <1>0, <1>1, <2>1 DEF PollingHandle, Is, Calls
    <2>5. ReplyHolds(d)'
      BY <1>0, <2>3, <2>4 DEF ReplyHolds
    <2> QED
      BY <1>0, <2>2, <2>3, <2>5, LeftInstead
  <1>2. CASE Message(c)
    <2>1. PICK S : S = {}
      OBVIOUS
    <2>2. net' = Instead(c, S) /\ created' = created
      BY <1>2, <2>1 DEF Message, Gone, server
    <2> QED
      BY <1>0, <2>1, <2>2, LeftInstead
  <1>3. CASE ReadHandle(c)
    <2>1. PICK ans : ans = IF c.kind = "groups" THEN Listed
                           ELSE IF c.group \in Groups THEN groupmembers[c.group] ELSE {}
      OBVIOUS
    <2>2. PICK d : d = [c EXCEPT !.stage = "answered", !.ans = ans]
      OBVIOUS
    <2>3. d.kind = c.kind /\ d.group = c.group /\ d.ans = ans
      BY <1>0, <2>2 DEF Calls
    <2>4. PICK S : S = {d}
      OBVIOUS
    <2>5. net' = Instead(c, S) /\ created' = created
      BY <1>3, <2>1, <2>2, <2>4 DEF ReadHandle, Answered, server
    <2>6. ReplyHolds(d)'
      <3>1. CASE c.kind = "groups"
        BY <2>1, <2>3, <2>5, <3>1 DEF ReplyHolds, Listed
      <3>2. CASE c.kind = "members"
        BY <1>0, <2>1, <2>3, <3>2 DEF ReplyHolds
      <3> QED
        BY <1>3, <3>1, <3>2 DEF ReadHandle, Is
    <2> QED
      BY <1>0, <2>4, <2>5, <2>6, LeftInstead
  <1>4. CASE NewGroupHandle(c)
    <2>1. PICK h \in Own \ created : created' = created \cup {h} /\ net' = Answered(c, {h})
      BY <1>4 DEF NewGroupHandle
    <2>2. PICK d : d = [c EXCEPT !.stage = "answered", !.ans = {h}]
      OBVIOUS
    <2>3. d.kind = "new_group" /\ d.ans = {h}
      BY <1>0, <1>4, <2>2 DEF NewGroupHandle, Is, Calls
    <2>4. PICK S : S = {d}
      OBVIOUS
    <2>5. net' = Instead(c, S) /\ created \subseteq created' /\ created' \subseteq Groups
      BY <1>0, <2>1, <2>2, <2>4 DEF Answered, Own
    <2>6. ReplyHolds(d)'
      BY <2>1, <2>3 DEF ReplyHolds
    <2> QED
      BY <1>0, <2>4, <2>5, <2>6, LeftInstead
  <1> QED
    BY <1>1, <1>2, <1>3, <1>4

(* Who is removed is in a row until the reply comes, and in no reply.      *)
LEMMA LeftChanged ==
  ASSUME BaseInv, Single, NoneLeft, NEW c \in BagToSet(net), AddMemberHandle(c), ~ left'
  PROVE  NoneLeft'
  <1> DEFINE h == c.group
             v == c.user
  <1>1. /\ Is(c, {"add", "remove"}, "sent") /\ h \in Groups /\ v \in Users \ {Me}
        /\ created' = created /\ rows' = rows
    BY ChangeAnswered
  <1>2. PICK ok \in BOOLEAN, d \in Calls :
           /\ d.kind = c.kind /\ d.stage = "answered" /\ d.group = h /\ d.user = v
           /\ d.ans = IF ok THEN {v} ELSE {}
           /\ net' = Instead(c, {d})
           /\ \A g \in Groups : ~ (ok /\ g = h) => groupmembers'[g] = groupmembers[g]
           /\ ok => groupmembers'[h] = IF c.kind = "add" THEN groupmembers[h] \cup {v}
                                                         ELSE groupmembers[h] \ {v}
           /\ ok /\ c.kind = "remove" /\ ~ left' =>
                \A m \in Open("members") : m.group = h => v \notin m.ans
    BY ChangeAnswered
  <1>3. PICK S : S = {d}
    OBVIOUS
  <1>4. /\ net' = Instead(c, S) /\ created \subseteq created' /\ created' \subseteq Groups
        /\ c.stage # "answered" /\ c.kind \in {"add", "remove"}
    BY <1>1, <1>2, <1>3 DEF BaseInv, TypeOK, Is
  <1>5. CASE ~ (ok /\ c.kind = "remove")
    <2>1. \A g \in Groups : groupmembers[g] \subseteq groupmembers'[g]
      BY <1>1, <1>2, <1>4, <1>5
    <2>2. ReplyHolds(d)'
      BY <1>1, <1>2, <1>4, <1>5 DEF ReplyHolds
    <2> QED
      BY <1>1, <1>3, <1>4, <2>1, <2>2, LeftInstead
  <1>6. CASE ok /\ c.kind = "remove"
    <2>1. /\ \A e \in BagToSet(net') : e \in S \/ e \in BagToSet(net)
          /\ d \in BagToSet(net')
          /\ \A e \in BagToSet(net) : e # c => e \in BagToSet(net')
      BY <1>3, <1>4, InsteadIs DEF BaseInv, TypeOK
    <2>2. \A e \in BagToSet(net) : \A g, u : Takes(e, g, u) => e \in BagToSet(net')
      BY <1>4, <2>1 DEF Takes, Is
    <2>3. Takes(d, h, v)
      BY <1>2, <1>6 DEF Takes, Is
    <2>4. \A g \in Groups : \A u \in groupmembers[g] : u \in groupmembers'[g] \/ (g = h /\ u = v)
      BY <1>1, <1>2, <1>6
    <2>5. ASSUME NEW i \in DOMAIN rows
          PROVE  Rightly(rows[i])'
      <3>1. Rightly(rows[i]) /\ rows'[i] = rows[i] /\ rows[i].contactid \in Groups
        BY <1>1 DEF NoneLeft, Rightly, BaseInv, TypeOK
      <3>2. \A u \in rows[i].members \ {Me} :
               u \in groupmembers'[rows[i].contactid]
                 \/ \E e \in BagToSet(net') : Takes(e, rows[i].contactid, u)
        BY <2>1, <2>2, <2>3, <2>4, <3>1 DEF Rightly
      <3> QED
        BY <1>1, <3>1, <3>2 DEF Rightly, Takes
    <2>6. ASSUME NEW e \in BagToSet(net)
          PROVE  ReplyHolds(e)'
      <3>1. ReplyHolds(e) /\ ReplyFits(e) /\ e.kind \in Kinds
        BY DEF NoneLeft, BaseInv, RowsInv, TypeOK, Calls
      <3>2. CASE e.kind \in {"groups", "poll", "new_group"}
        BY <1>1, <3>1, <3>2 DEF ReplyHolds
      <3>3. CASE e.kind = "members"
        <4>1. e \in Open("members")
          BY <3>3 DEF Open
        <4>2. e.group = h => v \notin e.ans
          BY <1>2, <1>6, <4>1
        <4>3. e.ans # {} => e.group \in Groups
          BY <3>1, <3>3 DEF ReplyFits
        <4> QED
          BY <2>4, <3>1, <3>3, <4>2, <4>3 DEF ReplyHolds
      <3>4. CASE e.kind = "add"
        <4>1. ~ (e.group = h /\ e.user = v)
          <5>1. c \in ChangeCalls /\ e \in ChangeCalls /\ e.kind # c.kind
            BY <1>4, <1>6, <3>4 DEF ChangeCalls, Open
          <5> QED
            BY <5>1 DEF Single
        <4>2. e.group \in Groups
          BY <3>1, <3>4 DEF ReplyFits
        <4> QED
          BY <2>4, <3>1, <3>4, <4>1, <4>2 DEF ReplyHolds
      <3>5. CASE e.kind = "remove"
        BY <3>5 DEF ReplyHolds
      <3> QED
        BY <3>1, <3>2, <3>3, <3>4, <3>5 DEF Kinds
    <2>7. ReplyHolds(d)'
      BY <1>2, <1>6 DEF ReplyHolds
    <2> QED
      BY <1>1, <1>3, <2>1, <2>5, <2>6, <2>7 DEF NoneLeft
  <1> QED
    BY <1>5, <1>6

(* What the client writes of a reply is as right as the reply. *)
LEMMA LeftWritten ==
  ASSUME BaseInv, NoneLeft, UNCHANGED <<created, groupmembers>>,
         NEW c \in BagToSet(net), NEW S, net' = Instead(c, S), \A d \in S : ReplyHolds(d)',
         \A i \in DOMAIN rows' :
            /\ rows'[i].contactid \in created
            /\ \A u \in rows'[i].members \ {Me} :
                  \/ u \in groupmembers[rows'[i].contactid]
                  \/ \E e \in BagToSet(net) : e # c /\ Takes(e, rows'[i].contactid, u)
  PROVE  NoneLeft'
  <1>1. /\ \A d \in BagToSet(net') : d \in S \/ d \in BagToSet(net)
        /\ \A d \in BagToSet(net) : d # c => d \in BagToSet(net')
    BY InsteadIs DEF BaseInv, TypeOK
  <1>2. \A i \in DOMAIN rows' : Rightly(rows[i])'
    BY <1>1 DEF Rightly, Takes
  <1>3. \A e \in BagToSet(net) : ReplyHolds(e)'
    BY DEF NoneLeft, ReplyHolds
  <1> QED
    BY <1>1, <1>2, <1>3 DEF NoneLeft

LEMMA LeftReplied ==
  ASSUME BaseInv, SyncInv, NoneLeft, NEW c \in BagToSet(net), Reply(c), ~ left'
  PROVE  NoneLeft'
  <1>0. /\ UNCHANGED <<created, groupmembers>> /\ PageShows /\ ReplyHolds(c) /\ ReplyFits(c)
        /\ left \in BOOLEAN /\ created \subseteq Groups
    BY DEF BaseInv, TypeOK, RowsInv, NoneLeft, Reply, NewGroups, GroupUsersReply, MemberReply, server, SyncInv
  <1>1. CASE NewGroups(c)
    <2>1. PICK S : S = Asked(c.ans)
      OBVIOUS
    <2>2. net' = Instead(c, S)
      BY <1>1, <2>1 DEF NewGroups
    <2>3. \A d \in S : ReplyHolds(d)'
      <3>1. \A d \in S : d.kind = "members" /\ d.ans = {}
        BY <2>1 DEF Asked, Call
      <3> QED
        BY <3>1 DEF ReplyHolds
    <2>4. Is(c, {"groups", "poll", "new_group"}, "answered")
      BY <1>1 DEF NewGroups
    <2>5. c.ans \subseteq created
      BY <1>0, <2>4 DEF ReplyHolds, Is
    <2>6. \A g, u : ~ Takes(c, g, u)
      BY <2>4 DEF Takes, Is
    <2>7. /\ \A i \in DOMAIN rows : i \in DOMAIN rows' /\ rows'[i] = rows[i]
          /\ \A i \in DOMAIN rows' : i \in DOMAIN rows \/
                (rows'[i].contactid \in c.ans /\ rows'[i] = Row(rows'[i].contactid, {Me}, NoUser))
      BY <1>1, NewGroupsWrite DEF BaseInv
    <2>8. ASSUME NEW i \in DOMAIN rows'
          PROVE  /\ rows'[i].contactid \in created
                 /\ \A u \in rows'[i].members \ {Me} :
                       \/ u \in groupmembers[rows'[i].contactid]
                       \/ \E e \in BagToSet(net) : e # c /\ Takes(e, rows'[i].contactid, u)
      <3>1. CASE i \in DOMAIN rows
        BY <2>6, <2>7, <3>1 DEF NoneLeft, Rightly
      <3>2. CASE i \notin DOMAIN rows
        <4>1. rows'[i].contactid \in c.ans /\ rows'[i].members = {Me}
          BY <2>7, <3>2 DEF Row
        <4> QED
          BY <2>5, <4>1
      <3> QED
        BY <3>1, <3>2
    <2> QED
      BY <1>0, <2>2, <2>3, <2>8, LeftWritten
  <1>2. CASE GroupUsersReply(c) \/ MemberReply(c)
    <2>1. PICK S : S = {}
      OBVIOUS
    <2>2. net' = Instead(c, S) /\ \A d \in S : ReplyHolds(d)'
      BY <1>2, <2>1 DEF GroupUsersReply, MemberReply, Gone
    <2>3. \A i \in DOMAIN rows :
             /\ rows[i].contactid \in created
             /\ \A u \in rows[i].members \ {Me} :
                   \/ u \in groupmembers[rows[i].contactid]
                   \/ \E e \in BagToSet(net) : Takes(e, rows[i].contactid, u)
      BY DEF NoneLeft, Rightly
    <2>4. CASE GroupUsersReply(c) /\ c.ans = {}
      <3>1. rows' = rows
        BY <2>4 DEF GroupUsersReply, table
      <3>2. \A g, u : ~ Takes(c, g, u)
        BY <2>4 DEF Takes, Is, GroupUsersReply
      <3> QED
        BY <1>0, <2>2, <2>3, <3>1, <3>2, LeftWritten
    <2>5. CASE GroupUsersReply(c) /\ c.ans # {}
      <3>1. /\ SameGroups(rows', rows)
            /\ \A i \in DOMAIN rows :
                  rows'[i].members = IF rows[i].contactid = c.group THEN rows[i].members \cup c.ans
                                                                    ELSE rows[i].members
        BY <2>5, GroupUsersAdd
      <3>2. \A g, u : ~ Takes(c, g, u)
        BY <2>5 DEF Takes, Is, GroupUsersReply
      <3>3. c.ans \subseteq groupmembers[c.group]
        BY <1>0, <2>5 DEF ReplyHolds, GroupUsersReply, Is
      <3>4. \A i \in DOMAIN rows' :
               /\ rows'[i].contactid \in created
               /\ \A u \in rows'[i].members \ {Me} :
                     \/ u \in groupmembers[rows'[i].contactid]
                     \/ \E e \in BagToSet(net) : e # c /\ Takes(e, rows'[i].contactid, u)
        BY <2>3, <3>1, <3>2, <3>3 DEF SameGroups
      <3> QED
        BY <1>0, <2>2, <3>4, LeftWritten
    <2>6. CASE MemberReply(c)
      <3> DEFINE h == c.group
                 v == c.user
      <3>1. /\ SameGroups(rows', rows)
            /\ \A i \in DOMAIN rows : c.ans = {} \/ rows[i].contactid # h =>
                  rows'[i].members = rows[i].members
            /\ \A i \in DOMAIN rows : c.ans # {} /\ rows[i].contactid = h =>
                  rows'[i].members = IF c.kind = "add" THEN rows[i].members \cup {v}
                                                       ELSE rows[i].members \ {v}
        BY <1>0, <2>6, MemberReplyMakes
      <3>2. c.kind \in {"add", "remove"}
        BY <2>6 DEF MemberReply, Is
      <3>3. \A g, u : Takes(c, g, u) => c.kind = "remove" /\ c.ans # {} /\ g = h /\ u = v
        BY DEF Takes, Is
      <3>4. c.kind = "add" /\ c.ans # {} => v \in groupmembers[h]
        BY <1>0 DEF ReplyHolds
      <3>5. ASSUME NEW i \in DOMAIN rows'
            PROVE  /\ rows'[i].contactid \in created
                   /\ \A u \in rows'[i].members \ {Me} :
                         \/ u \in groupmembers[rows'[i].contactid]
                         \/ \E e \in BagToSet(net) : e # c /\ Takes(e, rows'[i].contactid, u)
        <4>1. i \in DOMAIN rows /\ rows'[i].contactid = rows[i].contactid
          BY <3>1 DEF SameGroups
        <4>2. \A u \in rows'[i].members :
                 /\ u \in rows[i].members \/ (c.kind = "add" /\ c.ans # {} /\ rows[i].contactid = h /\ u = v)
                 /\ ~ Takes(c, rows[i].contactid, u)
          BY <3>1, <3>2, <3>3, <4>1
        <4> QED
          BY <2>3, <3>4, <4>1, <4>2
      <3> QED
        BY <1>0, <2>2, <3>5, LeftWritten
    <2> QED
      BY <1>2, <2>4, <2>5, <2>6
  <1> QED
    BY <1>1, <1>2 DEF Reply

(* Who joins by another admin's hand is added where nobody is removed.     *)
LEMMA LeftTold ==
  ASSUME BaseInv, Old \subseteq created, NoneLeft, ~ left',
         NEW h \in Groups, NEW v \in Users, OthersChange(h, v)
  PROVE  NoneLeft'
  <1>1. /\ created' = created /\ rows' = rows
        /\ \A g \in Groups : g # h => groupmembers'[g] = groupmembers[g]
        /\ groupmembers'[h] = IF Joins(h, v) THEN groupmembers[h] \cup {v} ELSE groupmembers[h] \ {v}
        /\ \A e \in BagToSet(net') :
              e \in BagToSet(net) \/ (e.kind = "poll" /\ e.stage = "answered" /\ e.ans = {h})
        /\ \A e \in BagToSet(net) : e \in BagToSet(net') \/ (e.kind = "poll" /\ e.stage = "parked")
    BY OthersTell
  <1>2. Joins(h, v)
    <2>1. left \in BOOLEAN
      BY DEF BaseInv, TypeOK
    <2> QED
      BY <2>1 DEF OthersChange
  <1>3. \A g \in Groups : groupmembers[g] \subseteq groupmembers'[g]
    BY <1>1, <1>2
  <1>4. created' \subseteq Groups /\ h \in created'
    BY <1>1, ContactsAssumption DEF OthersChange, Others, Own, BaseInv, TypeOK
  <1>5. \A e \in BagToSet(net') : e \in BagToSet(net) \/ ReplyHolds(e)'
    BY <1>1, <1>4 DEF ReplyHolds
  <1>6. \A e \in BagToSet(net) : \A g, u : Takes(e, g, u) => e \in BagToSet(net')
    BY <1>1 DEF Takes, Is
  <1> QED
    BY <1>1, <1>3, <1>4, <1>5, <1>6, LeftGrows

LEMMA LeftStep ==
  ASSUME BaseInv, BaseInv', SyncInv, LeftInv, [Next]_vars
  PROVE  LeftInv'
  <1>1. created \subseteq created' /\ created' \subseteq Groups
    <2>1. created' \subseteq Groups
      BY DEF BaseInv, TypeOK
    <2>2. ASSUME NEW c \in BagToSet(net), Handle(c) \/ Reply(c) \/ Message(c) \/ Lose(c)
          PROVE  created \subseteq created'
      BY <2>2 DEF Handle, PollingHandle, ReadHandle, NewGroupHandle, AddMemberHandle,
                  Reply, NewGroups, GroupUsersReply, MemberReply, Message, Lose, server
    <2>3. ASSUME NEW g \in Groups, OpenPage(g) \/ \E u \in Users : OthersChange(g, u)
          PROVE  created \subseteq created'
      BY <2>3 DEF OpenPage, OthersChange, server
    <2>4. ASSUME NEW u \in Users \ {Me}, NEW kind \in {"add", "remove"}, ChangeMember(u, kind)
          PROVE  created \subseteq created'
      BY <2>4 DEF ChangeMember, server
    <2>5. AddGroup \/ Poll \/ ClosePage \/ Restart => created' = created
      BY DEF AddGroup, Poll, ClosePage, Restart, server
    <2>6. UNCHANGED vars => created' = created
      BY DEF vars, server
    <2> QED
      BY <2>1, <2>2, <2>3, <2>4, <2>5, <2>6 DEF Next
  <1>2. SUFFICES ASSUME ~ left'
                 PROVE  NoneLeft'
    BY <1>1 DEF LeftInv
  <1>3. CASE Restart
    <2>1. ~ left /\ Open("remove") = {}
      <3>1. left \in BOOLEAN
        BY DEF BaseInv, TypeOK
      <3> QED
        BY <1>2, <1>3, <3>1 DEF Restart
    <2>2. BagToSet(net') = {PollCall, GroupsCall}
      BY <1>3, SetIsABag DEF Restart
    <2>3. \A d \in BagToSet(net') : d.kind \in {"poll", "groups"} /\ d.ans = {}
      BY <2>2 DEF GroupsCall, PollCall, Call
    <2>4. \A d \in BagToSet(net') : ReplyHolds(d)'
      BY <2>3 DEF ReplyHolds
    <2>5. \A e \in BagToSet(net) : \A g, u : ~ Takes(e, g, u)
      BY <2>1 DEF Open, Takes, Is
    <2>6. rows' = rows /\ groupmembers' = groupmembers
      BY <1>3 DEF Restart, server
    <2> QED
      BY <1>1, <2>1, <2>4, <2>5, <2>6, LeftGrows DEF LeftInv
  <1>4. CASE UNCHANGED <<created, groupmembers, rows, net, left>>
    <2>1. NoneLeft
      BY <1>2, <1>4 DEF LeftInv
    <2> QED
      BY <1>1, <1>4, <2>1, LeftGrows
  <1>5. CASE Next /\ ~ Restart
    <2>1. NoneLeft /\ Old \subseteq created /\ Single
      BY <1>2, <1>5, StaysMissed DEF LeftInv, SyncInv, OneAtATime
    <2>2. ASSUME NEW c \in BagToSet(net), Handle(c) \/ Reply(c) \/ Message(c) \/ Lose(c)
          PROVE  NoneLeft'
      <3>1. ~ Lose(c)
        BY <1>2 DEF Lose
      <3> QED
        BY <1>2, <2>1, <2>2, <3>1, LeftHandled, LeftChanged, LeftReplied DEF Handle
    <2>3. ASSUME NEW g \in Groups, NEW u \in Users, OthersChange(g, u)
          PROVE  NoneLeft'
      BY <1>2, <2>1, <2>3, LeftTold
    <2>4. ASSUME NEW kind \in Kinds, NEW g \in Groups \cup {NoGroup}, NEW u \in Users \cup {NoUser},
                 net' = Sent({Call(kind, g, u)}), UNCHANGED <<created, groupmembers, rows>>
          PROVE  NoneLeft'
      <3>1. PICK d : d = Call(kind, g, u)
        OBVIOUS
      <3>2. d \in Calls /\ d.ans = {} /\ net' = Sent({d})
        BY <2>4, <3>1, CallIs
      <3> QED
        BY <2>1, <2>4, <3>2, LeftSent
    <2>5. ASSUME NEW u \in Users \ {Me}, NEW kind \in {"add", "remove"}, ChangeMember(u, kind)
          PROVE  NoneLeft'
      <3>1. kind \in Kinds /\ page \in Groups \cup {NoGroup} /\ u \in Users \cup {NoUser}
        BY DEF Kinds, BaseInv, TypeOK
      <3>2. net' = Sent({Call(kind, page, u)}) /\ UNCHANGED <<created, groupmembers, rows>>
        BY <2>5 DEF ChangeMember, server, table
      <3> QED
        BY <2>4, <3>1, <3>2
    <2>6. CASE AddGroup \/ Poll
      <3>1. PICK kind \in {"new_group", "poll"} : net' = Sent({Call(kind, NoGroup, NoUser)})
        BY <2>6 DEF AddGroup, Poll, PollCall
      <3>2. kind \in Kinds /\ UNCHANGED <<created, groupmembers, rows>>
        BY <2>6 DEF Kinds, AddGroup, Poll, server, table
      <3> QED
        BY <2>4, <3>1, <3>2
    <2>7. CASE ClosePage \/ \E g \in Groups : OpenPage(g)
      BY <1>4, <2>7 DEF ClosePage, OpenPage, server, table
    <2> QED
      BY <1>5, <2>2, <2>3, <2>5, <2>6, <2>7 DEF Next
  <1>6. CASE UNCHANGED vars
    BY <1>4, <1>6 DEF vars, server, table
  <1> QED
    BY <1>3, <1>5, <1>6

-----------------------------------------------------------------------------
Inv == BaseInv /\ SyncInv /\ KnownInv /\ LeftInv

LEMMA InvHolds == Spec => []Inv
  <1>1. Init => Inv
    BY BaseInit, SyncInit, KnownInit, LeftInit DEF Inv
  <1>2. Inv /\ [Next]_vars => Inv'
    BY BaseStep, SyncStep, KnownStep, LeftStep DEF Inv
  <1> QED
    BY <1>1, <1>2, PTL DEF Spec

(* A client that misses nothing after its login has, once nothing is under *)
(* way, a row for each of its groups with all of the group's members, for  *)
(* any users and groups and however requests, replies and the changes of   *)
(* others cross (sqlcontactmodel.cpp 51-118, RequestFunctions.cpp 185-241).*)
THEOREM TableIsComplete == Spec => []Complete
  <1>1. Inv => Complete
    <2> SUFFICES ASSUME Inv, Quiet, ~ missed, NEW g \in Listed
                 PROVE  \E i \in DOMAIN rows :
                           rows[i].contactid = g /\ groupmembers[g] \cup {Me} \subseteq rows[i].members
      BY DEF Complete, KnowsAll
    <2>1. \A c \in BagToSet(net) : \A u : ~ Brings(c, g, u)
      BY DEF Quiet, Brings, Is
    <2>2. \A u \in groupmembers[g] \cup {Me} : InRow(g, u)
      BY <2>1 DEF Inv, KnownInv, AllBrought, Brought
    <2>3. PICK i \in DOMAIN rows : rows[i].contactid = g
      BY <2>2 DEF InRow
    <2>4. Keyed(rows)
      BY RowsAreKeyed DEF Inv, BaseInv
    <2>5. \A u \in groupmembers[g] \cup {Me} : u \in rows[i].members
      BY <2>2, <2>3, <2>4 DEF InRow, Keyed
    <2> QED
      BY <2>3, <2>5
  <1> QED
    BY <1>1, InvHolds, PTL

(* Unless somebody was left behind in one of the named ways, nobody is in  *)
(* a row who is not in the group any more once nothing is under way, and   *)
(* there is no row of no group (sqlcontactmodel.cpp 51-118).               *)
THEOREM TableHasNoLeftovers == Spec => []NoLeftovers
  <1>1. Inv => NoLeftovers
    <2> SUFFICES ASSUME Inv, Quiet, ~ left, NEW i \in DOMAIN rows
                 PROVE  /\ rows[i].contactid \in created
                        /\ rows[i].members \subseteq groupmembers[rows[i].contactid] \cup {Me}
      BY DEF NoLeftovers
    <2>1. \A c \in BagToSet(net) : \A g, u : ~ Takes(c, g, u)
      BY DEF Quiet, Takes, Is
    <2>2. Rightly(rows[i])
      BY DEF Inv, LeftInv, NoneLeft
    <2> QED
      BY <2>1, <2>2 DEF Rightly
  <1> QED
    BY <1>1, InvHolds, PTL
=============================================================================
