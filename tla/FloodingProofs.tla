---------------------------- MODULE FloodingProofs ----------------------------
(* Theorems about packets and trackers, for any topology, any losses and any *)
(* number of nodes and messages.                                             *)
EXTENDS Flooding, SequenceTheorems, FiniteSetTheorems, TLAPS

Entry == Messages \X {0, 1, 2}

(* No identifier is in a tracker twice.                                      *)
Distinct(t) == \A i, j \in 1 .. Len(t) : t[i][1] = t[j][1] => i = j

Trackers == {t \in Seq(Entry) : Distinct(t) /\ Len(t) <= Capacity}

(* A packet on the air: its message was sent, and an application message is  *)
(* encrypted.                                                                *)
WaitingOf(S) == {p \in Packet : p.id \in S /\ (p.id \notin Reserved => p.layers = 1)}
Waiting == WaitingOf(sent)

(* The CRC of an application message as it is sent.                          *)
Sealed(m) == IF <<m, 1>> \in ZeroCrc THEN 0 ELSE 2

(* A node that sent a message on sent it once and takes every copy for seen. *)
SentIsSeen ==
  \A n \in Nodes, m \in Messages \ Reserved :
    \/ transmitted[n][m] = 0
    \/ transmitted[n][m] = 1 /\ FindOrDefault(tracker[n], m) = Sealed(m)

Counts == [Nodes -> [Messages -> 0 .. 2]]

(* The inductive invariant.                                                  *)
Types ==
  /\ mesh \in Meshes
  /\ tracker \in [Nodes -> Trackers]
  /\ rx \in [Nodes -> Seq(Waiting)]
  /\ sent \subseteq Messages
  /\ transmitted \in Counts /\ delivered \in Counts
Unsent == \A n \in Nodes, m \in Messages \ sent : transmitted[n][m] = 0
IInv == Types /\ Unsent /\ (Cardinality(Messages) <= Capacity => SentIsSeen)

-----------------------------------------------------------------------------
(* Trackers as sequences.                                                    *)

LEMMA IdsOf ==
  ASSUME NEW t \in Seq(Entry)
  PROVE  /\ Len(t) \in Nat /\ DOMAIN t = 1 .. Len(t)
         /\ \A i \in 1 .. Len(t) : t[i] \in Entry /\ t[i][1] \in Messages /\ t[i][2] \in {0, 1, 2}
         /\ \A id : id \in Ids(t) <=> \E i \in 1 .. Len(t) : t[i][1] = id
         /\ Ids(t) \subseteq Messages
<1>1. Len(t) \in Nat /\ DOMAIN t = 1 .. Len(t) /\ \A i \in 1 .. Len(t) : t[i] \in Entry
  BY LenProperties, ElementOfSeq
<1>. QED
  BY <1>1 DEF Ids, Entry

(* The position of an identifier is the one at which it is.                  *)
LEMMA Positions ==
  ASSUME NEW t \in Seq(Entry), Distinct(t), NEW i \in 1 .. Len(t)
  PROVE  /\ t[i][1] \in Ids(t) /\ Position(t, t[i][1]) = i
         /\ FindOrDefault(t, t[i][1]) = t[i][2]
BY IdsOf DEF Distinct, Position, FindOrDefault

LEMMA Removed ==
  ASSUME NEW t \in Seq(Entry), NEW k \in 1 .. Len(t)
  PROVE  /\ RemoveAt(t, k) \in Seq(Entry)
         /\ Len(RemoveAt(t, k)) = Len(t) - 1
         /\ \A i \in 1 .. Len(t) - 1 : RemoveAt(t, k)[i] = IF i < k THEN t[i] ELSE t[i + 1]
<1>. DEFINE a == SubSeq(t, 1, k - 1)
            b == SubSeq(t, k + 1, Len(t))
<1>1. Len(t) \in Nat /\ k \in Nat /\ \A i \in 1 .. Len(t) : t[i] \in Entry
  BY IdsOf
<1>2. /\ a \in Seq(Entry) /\ Len(a) = k - 1
      /\ \A i \in 1 .. k - 1 : a[i] = t[i]
  <2>1. \A i \in 1 .. k - 1 : t[i] \in Entry
    BY <1>1
  <2>. QED
    BY <1>1, <2>1, SubSeqProperties
<1>3. /\ b \in Seq(Entry) /\ Len(b) = Len(t) - k
      /\ \A i \in 1 .. Len(t) - k : b[i] = t[k + i]
  <2>1. \A i \in k + 1 .. Len(t) : t[i] \in Entry
    BY <1>1
  <2>2. /\ b \in Seq(Entry) /\ Len(b) = IF k + 1 <= Len(t) THEN Len(t) - (k + 1) + 1 ELSE 0
        /\ \A i \in 1 .. Len(t) - (k + 1) + 1 : b[i] = t[(k + 1) + i - 1]
    BY <1>1, <2>1, SubSeqProperties
  <2>. QED
    BY <1>1, <2>2
<1>. HIDE DEF a, b
<1>4. /\ a \o b \in Seq(Entry) /\ Len(a \o b) = Len(a) + Len(b)
      /\ \A i \in 1 .. Len(a) + Len(b) : (a \o b)[i] = IF i <= Len(a) THEN a[i] ELSE b[i - Len(a)]
  BY <1>2, <1>3, ConcatProperties
<1>5. ASSUME NEW i \in 1 .. Len(t) - 1 PROVE (a \o b)[i] = IF i < k THEN t[i] ELSE t[i + 1]
  <2>1. CASE i < k
    <3>1. i \in 1 .. k - 1 /\ i \in 1 .. Len(a) + Len(b) /\ i <= Len(a)
      BY <1>1, <1>2, <1>3, <2>1
    <3>. QED
      BY <1>2, <1>4, <2>1, <3>1
  <2>2. CASE ~(i < k)
    <3>1. /\ i - (k - 1) \in 1 .. Len(t) - k /\ i \in 1 .. Len(a) + Len(b) /\ ~(i <= Len(a))
          /\ k + (i - (k - 1)) = i + 1
      BY <1>1, <1>2, <1>3, <2>2
    <3>2. (a \o b)[i] = b[i - (k - 1)]
      BY <1>2, <1>4, <3>1
    <3>. QED
      BY <1>3, <2>2, <3>1, <3>2
  <2>. QED
    BY <2>1, <2>2
<1>6. Len(a) + Len(b) = Len(t) - 1
  BY <1>1, <1>2, <1>3
<1>7. RemoveAt(t, k) = a \o b
  BY DEF RemoveAt, a, b
<1>. QED
  BY <1>4, <1>5, <1>6, <1>7

(* Everything else stays, at its place or one further on.                    *)
LEMMA Withouts ==
  ASSUME NEW t \in Seq(Entry), Distinct(t), NEW id \in Messages
  PROVE  LET w == Without(t, id)
         IN  /\ w \in Seq(Entry) /\ Distinct(w)
             /\ Len(w) = IF id \in Ids(t) THEN Len(t) - 1 ELSE Len(t)
             /\ id \notin Ids(w)
             /\ \A m \in Messages \ {id} : (m \in Ids(w) <=> m \in Ids(t))
                                           /\ FindOrDefault(w, m) = FindOrDefault(t, m)
<1>1. CASE id \notin Ids(t)
  BY <1>1 DEF Without
<1>2. CASE id \in Ids(t)
  <2>1. PICK k \in 1 .. Len(t) : t[k][1] = id
    BY <1>2, IdsOf
  <2>. DEFINE w == RemoveAt(t, k)
  <2>2. Without(t, id) = w
    BY <1>2, <2>1, Positions DEF Without
  <2>3. /\ w \in Seq(Entry) /\ Len(w) = Len(t) - 1 /\ Len(t) \in Nat /\ Len(w) \in Nat
        /\ \A i \in 1 .. Len(w) : w[i] = IF i < k THEN t[i] ELSE t[i + 1]
    BY Removed, IdsOf
  <2>. HIDE DEF w
  <2>4. Distinct(w)
    <3>. SUFFICES ASSUME NEW i \in 1 .. Len(w), NEW j \in 1 .. Len(w), w[i][1] = w[j][1] PROVE i = j
      BY DEF Distinct
    <3>. DEFINE x == IF i < k THEN i ELSE i + 1
                y == IF j < k THEN j ELSE j + 1
    <3>1. x \in 1 .. Len(t) /\ y \in 1 .. Len(t) /\ w[i] = t[x] /\ w[j] = t[y]
      BY <2>3
    <3>2. x = y
      BY <3>1 DEF Distinct
    <3>. QED
      BY <2>3, <3>2
  <2>5. id \notin Ids(w)
    <3>. SUFFICES ASSUME NEW i \in 1 .. Len(w), w[i][1] = id PROVE FALSE
      BY <2>3, IdsOf
    <3>. DEFINE x == IF i < k THEN i ELSE i + 1
    <3>1. x \in 1 .. Len(t) /\ w[i] = t[x] /\ x # k
      BY <2>3
    <3>. QED
      BY <2>1, <3>1 DEF Distinct
  <2>6. ASSUME NEW m \in Messages \ {id}
        PROVE  (m \in Ids(w) <=> m \in Ids(t)) /\ FindOrDefault(w, m) = FindOrDefault(t, m)
    <3>1. ASSUME m \in Ids(w)
          PROVE  m \in Ids(t) /\ FindOrDefault(w, m) = FindOrDefault(t, m)
      <4>1. PICK i \in 1 .. Len(w) : w[i][1] = m
        BY <2>3, <3>1, IdsOf
      <4>. DEFINE x == IF i < k THEN i ELSE i + 1
      <4>2. x \in 1 .. Len(t) /\ w[i] = t[x]
        BY <2>3
      <4>. QED
        BY <2>3, <2>4, <4>1, <4>2, Positions
    <3>2. ASSUME m \in Ids(t) PROVE m \in Ids(w)
      <4>1. PICK x \in 1 .. Len(t) : t[x][1] = m
        BY <3>2, IdsOf
      <4>. DEFINE i == IF x < k THEN x ELSE x - 1
      <4>2. x # k
        BY <2>1, <4>1
      <4>3. i \in 1 .. Len(w) /\ w[i] = t[x]
        BY <2>3, <4>2
      <4>. QED
        BY <2>3, <4>1, <4>3, IdsOf
    <3>3. ASSUME m \notin Ids(t) PROVE FindOrDefault(w, m) = FindOrDefault(t, m)
      BY <3>1, <3>3 DEF FindOrDefault
    <3>. QED
      BY <3>1, <3>2, <3>3
  <2>. QED
    BY <1>2, <2>2, <2>3, <2>4, <2>5, <2>6
<1>. QED
  BY <1>1, <1>2

(* The entry comes first, and nothing else changes.                          *)
LEMMA Moved ==
  ASSUME NEW t \in Seq(Entry), Distinct(t), NEW id \in Messages, NEW crc \in {0, 1, 2}
  PROVE  LET r == MoveToFront(t, id, crc)
         IN  /\ r \in Seq(Entry) /\ Distinct(r)
             /\ Len(r) = IF id \in Ids(t) THEN Len(t) ELSE Len(t) + 1
             /\ FindOrDefault(r, id) = crc
             /\ \A m \in Messages \ {id} : FindOrDefault(r, m) = FindOrDefault(t, m)
<1>. DEFINE w == Without(t, id)
            e == <<id, crc>>
            r == <<e>> \o w
<1>1. /\ w \in Seq(Entry) /\ Distinct(w) /\ id \notin Ids(w)
      /\ Len(w) = IF id \in Ids(t) THEN Len(t) - 1 ELSE Len(t)
      /\ \A m \in Messages \ {id} : FindOrDefault(w, m) = FindOrDefault(t, m)
  BY Withouts
<1>2. Len(t) \in Nat /\ Len(w) \in Nat
  BY <1>1, IdsOf
<1>. HIDE DEF w
<1>3. e \in Entry /\ e[1] = id /\ e[2] = crc
  BY DEF Entry
<1>. HIDE DEF e
<1>4. <<e>> \in Seq(Entry) /\ Len(<<e>>) = 1 /\ <<e>>[1] = e
  BY <1>3
<1>5. /\ r \in Seq(Entry) /\ Len(r) = 1 + Len(w)
      /\ \A i \in 1 .. 1 + Len(w) : r[i] = IF i <= 1 THEN <<e>>[i] ELSE w[i - 1]
  BY <1>1, <1>4, ConcatProperties
<1>. HIDE DEF r
<1>6. r[1] = e /\ \A i \in 2 .. Len(r) : i - 1 \in 1 .. Len(w) /\ r[i] = w[i - 1]
  BY <1>2, <1>4, <1>5
<1>7. Distinct(r)
  <2>. SUFFICES ASSUME NEW i \in 1 .. Len(r), NEW j \in 1 .. Len(r), r[i][1] = r[j][1] PROVE i = j
    BY DEF Distinct
  <2>1. \A x \in 1 .. Len(w) : w[x][1] # id
    BY <1>1, IdsOf
  <2>2. \A x \in 2 .. Len(r) : r[x][1] # id /\ x - 1 \in 1 .. Len(w) /\ r[x] = w[x - 1]
    BY <1>6, <2>1
  <2>3. r[1][1] = id
    BY <1>3, <1>6
  <2>4. i \in {1} \cup 2 .. Len(r) /\ j \in {1} \cup 2 .. Len(r)
    BY <1>2, <1>5
  <2>5. CASE i = 1 \/ j = 1
    BY <2>2, <2>3, <2>4, <2>5
  <2>6. CASE i # 1 /\ j # 1
    <3>1. i \in 2 .. Len(r) /\ j \in 2 .. Len(r)
      BY <2>4, <2>6
    <3>2. i - 1 \in 1 .. Len(w) /\ j - 1 \in 1 .. Len(w) /\ w[i - 1][1] = w[j - 1][1]
      BY <2>2, <3>1
    <3>3. i - 1 = j - 1
      BY <1>1, <3>2 DEF Distinct
    <3>. QED
      BY <3>3
  <2>. QED
    BY <2>5, <2>6
<1>8. FindOrDefault(r, id) = crc
  BY <1>2, <1>3, <1>5, <1>6, <1>7, Positions
<1>9. ASSUME NEW m \in Messages \ {id} PROVE FindOrDefault(r, m) = FindOrDefault(w, m)
  <2>1. CASE m \in Ids(w)
    <3>1. PICK x \in 1 .. Len(w) : w[x][1] = m
      BY <1>1, <2>1, IdsOf
    <3>2. x + 1 \in 1 .. Len(r) /\ r[x + 1] = w[x]
      BY <1>2, <1>5, <1>6
    <3>3. FindOrDefault(w, m) = w[x][2]
      BY <1>1, <3>1, Positions
    <3>4. FindOrDefault(r, m) = r[x + 1][2]
      BY <1>5, <1>7, <3>1, <3>2, Positions
    <3>. QED
      BY <3>2, <3>3, <3>4
  <2>2. CASE m \notin Ids(w)
    <3>1. m \notin Ids(r)
      <4>. SUFFICES ASSUME NEW i \in 1 .. Len(r), r[i][1] = m PROVE FALSE
        BY <1>5, IdsOf
      <4>1. i # 1
        BY <1>3, <1>6
      <4>2. i - 1 \in 1 .. Len(w) /\ w[i - 1][1] = m
        BY <1>2, <1>5, <1>6, <4>1
      <4>. QED
        BY <1>1, <2>2, <4>2, IdsOf
    <3>. QED
      BY <2>2, <3>1 DEF FindOrDefault
  <2>. QED
    BY <2>1, <2>2
<1>10. Len(r) = IF id \in Ids(t) THEN Len(t) ELSE Len(t) + 1
  BY <1>1, <1>2, <1>5
<1>11. MoveToFront(t, id, crc) = r
  BY DEF MoveToFront, r, e, w
<1>. QED
  BY <1>1, <1>5, <1>7, <1>8, <1>9, <1>10, <1>11

-----------------------------------------------------------------------------
(* Trackers as maps.                                                         *)

(* An identifier stands for an entry.                                        *)
LEMMA IdsCount ==
  ASSUME NEW t \in Seq(Entry), Distinct(t)
  PROVE  IsFiniteSet(Ids(t)) /\ Cardinality(Ids(t)) = Len(t)
<1>. DEFINE f == [i \in 1 .. Len(t) |-> t[i][1]]
<1>1. Len(t) \in Nat
  BY IdsOf
<1>2. f \in Bijection(1 .. Len(t), Ids(t))
  <2>1. f \in Injection(1 .. Len(t), Ids(t))
    BY IdsOf DEF Distinct, Injection, IsInjective
  <2>2. f \in Surjection(1 .. Len(t), Ids(t))
    BY IdsOf DEF Surjection
  <2>. QED
    BY <2>1, <2>2 DEF Bijection
<1>3. ExistsBijection(1 .. Len(t), Ids(t))
  BY <1>2 DEF ExistsBijection
<1>4. IsFiniteSet(1 .. Len(t)) /\ Cardinality(1 .. Len(t)) = Len(t)
  BY <1>1, FS_Interval
<1>. QED
  BY <1>3, <1>4, FS_Bijection

LEMMA CapacityType == ASSUME mesh \in Meshes PROVE Capacity \in Nat \ {0}
BY MeshesAssumption DEF Capacity

LEMMA DefaultType ==
  ASSUME NEW t \in Trackers, NEW m \in Messages
  PROVE  FindOrDefault(t, m) \in {0, 1, 2}
<1>1. t \in Seq(Entry) /\ Distinct(t)
  BY DEF Trackers
<1>2. CASE m \in Ids(t)
  BY <1>1, <1>2, IdsOf, Positions
<1>3. CASE m \notin Ids(t)
  BY <1>3 DEF FindOrDefault
<1>. QED
  BY <1>2, <1>3

(* A lookup changes the order only.                                          *)
LEMMA Touching ==
  ASSUME NEW t \in Trackers, NEW id \in Messages
  PROVE  /\ Touched(t, id) \in Trackers
         /\ \A m \in Messages : FindOrDefault(Touched(t, id), m) = FindOrDefault(t, m)
<1>1. t \in Seq(Entry) /\ Distinct(t) /\ Len(t) <= Capacity /\ FindOrDefault(t, id) \in {0, 1, 2}
  BY DefaultType DEF Trackers
<1>2. CASE id \in Ids(t)
  <2>. DEFINE r == MoveToFront(t, id, FindOrDefault(t, id))
  <2>1. /\ r \in Seq(Entry) /\ Distinct(r) /\ Len(r) = Len(t)
        /\ FindOrDefault(r, id) = FindOrDefault(t, id)
        /\ \A m \in Messages \ {id} : FindOrDefault(r, m) = FindOrDefault(t, m)
    BY <1>1, <1>2, Moved
  <2>. QED
    BY <1>1, <1>2, <2>1 DEF Touched, Trackers
<1>3. CASE id \notin Ids(t)
  BY <1>3 DEF Touched
<1>. QED
  BY <1>2, <1>3

LEMMA Fronts ==
  ASSUME NEW t \in Seq(Entry), Distinct(t), Len(t) > 0
  PROVE  Front(t) \in Seq(Entry) /\ Distinct(Front(t)) /\ Len(Front(t)) = Len(t) - 1
<1>1. Len(t) \in Nat /\ \A i \in 1 .. Len(t) - 1 : t[i] \in Entry
  BY IdsOf
<1>2. /\ Front(t) \in Seq(Entry)
      /\ Len(Front(t)) = IF 1 <= Len(t) - 1 THEN Len(t) - 1 - 1 + 1 ELSE 0
      /\ \A i \in 1 .. Len(t) - 1 - 1 + 1 : Front(t)[i] = t[1 + i - 1]
  BY <1>1, SubSeqProperties DEF Front
<1>3. Len(Front(t)) = Len(t) - 1
  <2>1. CASE Len(t) = 1
    BY <1>2, <2>1
  <2>2. CASE Len(t) # 1
    <3>1. ASSUME NEW k \in Nat, k > 0, k # 1 PROVE 1 <= k - 1 /\ k - 1 - 1 + 1 = k - 1
      BY <3>1
    <3>2. Len(t) \in Nat
      BY <1>1
    <3>3. 1 <= Len(t) - 1 /\ Len(t) - 1 - 1 + 1 = Len(t) - 1
      BY <2>2, <3>1, <3>2
    <3>. QED
      BY <1>2, <3>3
  <2>. QED
    BY <2>1, <2>2
<1>4. ASSUME NEW i \in 1 .. Len(Front(t)) PROVE i \in 1 .. Len(t) /\ Front(t)[i] = t[i]
  <2>1. i \in 1 .. Len(t) - 1 - 1 + 1 /\ 1 + i - 1 = i /\ i \in 1 .. Len(t)
    BY <1>1, <1>3
  <2>. QED
    BY <1>2, <2>1
<1>. QED
  BY <1>2, <1>3, <1>4 DEF Distinct

(* A new entry keeps the tracker within its capacity.  None of the others is *)
(* evicted if there is room for every message.                               *)
LEMMA Adding ==
  ASSUME mesh \in Meshes, NEW t \in Trackers, NEW id \in Messages, NEW crc \in {0, 1, 2}
  PROVE  /\ AddEntry(t, id, crc) \in Trackers
         /\ FindOrDefault(AddEntry(t, id, crc), id) = crc
         /\ Cardinality(Messages) <= Capacity =>
              \A m \in Messages \ {id} : FindOrDefault(AddEntry(t, id, crc), m) = FindOrDefault(t, m)
<1>1. /\ t \in Seq(Entry) /\ Distinct(t) /\ Len(t) <= Capacity
      /\ Len(t) \in Nat /\ Capacity \in Nat \ {0}
  BY IdsOf, CapacityType DEF Trackers
<1>2. CASE id \notin Ids(t) /\ Len(t) = Capacity
  <2>1. Front(t) \in Seq(Entry) /\ Distinct(Front(t)) /\ Len(Front(t)) = Capacity - 1
    BY <1>1, <1>2, Fronts
  <2>. DEFINE r == MoveToFront(Front(t), id, crc)
  <2>2. /\ r \in Seq(Entry) /\ Distinct(r) /\ FindOrDefault(r, id) = crc
        /\ Len(r) = IF id \in Ids(Front(t)) THEN Len(Front(t)) ELSE Len(Front(t)) + 1
    BY <2>1, Moved
  <2>3. AddEntry(t, id, crc) = r
    BY <1>2 DEF AddEntry
  <2>4. r \in Trackers
    BY <1>1, <2>1, <2>2 DEF Trackers
  <2>5. ~(Cardinality(Messages) <= Capacity)
    <3>1. IsFiniteSet(Messages) /\ IsFiniteSet(Ids(t)) /\ Cardinality(Ids(t)) = Capacity
      BY <1>1, <1>2, IdsCount, FloodingAssumption
    <3>2. IsFiniteSet(Ids(t) \cup {id}) /\ Cardinality(Ids(t) \cup {id}) = Capacity + 1
      BY <1>2, <3>1, FS_AddElement
    <3>3. Ids(t) \cup {id} \in SUBSET Messages
      BY <1>1, IdsOf
    <3>4. Cardinality(Ids(t) \cup {id}) <= Cardinality(Messages) /\ Cardinality(Messages) \in Nat
      BY <3>1, <3>3, FS_Subset, FS_CardinalityType
    <3>. QED
      BY <1>1, <3>2, <3>4
  <2>. QED
    BY <2>2, <2>3, <2>4, <2>5
<1>3. CASE ~(id \notin Ids(t) /\ Len(t) = Capacity)
  <2>. DEFINE r == MoveToFront(t, id, crc)
  <2>1. /\ r \in Seq(Entry) /\ Distinct(r) /\ FindOrDefault(r, id) = crc
        /\ Len(r) = IF id \in Ids(t) THEN Len(t) ELSE Len(t) + 1
        /\ \A m \in Messages \ {id} : FindOrDefault(r, m) = FindOrDefault(t, m)
    <3>1. t \in Seq(Entry) /\ Distinct(t)
      BY <1>1
    <3>. HIDE <1>3
    <3>. QED
      BY <3>1, Moved
  <2>2. AddEntry(t, id, crc) = r
    BY <1>3 DEF AddEntry
  <2>3. Len(r) <= Capacity
    BY <1>1, <1>3, <2>1
  <2>. QED
    BY <2>1, <2>2, <2>3 DEF Trackers
<1>. QED
  BY <1>2, <1>3

-----------------------------------------------------------------------------
(* Sending.                                                                  *)

LEMMA Counting == ASSUME NEW k \in 0 .. 2 PROVE AtMostTwo(k + 1) \in 0 .. 2 /\ (k = 0 => AtMostTwo(k + 1) = 1)
BY DEF AtMostTwo

(* A packet that is put on the air waits in the radios it reaches.           *)
LEMMA OnTheAir ==
  ASSUME NEW S, NEW R, R \subseteq S, NEW radio \in [Nodes -> Seq(R)], NEW q \in S,
         NEW n \in Nodes, Air(n, q, radio)
  PROVE  rx' \in [Nodes -> Seq(S)]
<1>1. ASSUME NEW m \in Nodes PROVE radio[m] \in Seq(S) /\ Arrives(radio[m], q) \in Seq(S)
  <2>1. radio[m] \in Seq(S)
    BY SeqMonotonic
  <2>2. Append(radio[m], q) \in Seq(S) /\ <<q>> \in Seq(S)
    BY <2>1, AppendProperties
  <2>. QED
    BY <2>1, <2>2 DEF Arrives
<1>. QED
  BY <1>1 DEF Air

(* Packets by their fields.                                                  *)
LEMMA ToggledIs ==
  ASSUME NEW p \in Packet
  PROVE  Toggled(p) = [id |-> p.id, hopCount |-> p.hopCount, lastHopId |-> p.lastHopId, layers |-> 1 - p.layers]
<1>1. p = [id |-> p.id, hopCount |-> p.hopCount, lastHopId |-> p.lastHopId, layers |-> p.layers]
  BY DEF Packet
<1>. QED
  BY <1>1 DEF Toggled

LEMMA HopIs ==
  ASSUME NEW n, NEW p \in Packet
  PROVE  Hop(n, p) = [id |-> p.id, hopCount |-> p.hopCount + 1, lastHopId |-> n, layers |-> 1 - p.layers]
<1>1. [Toggled(p) EXCEPT !.lastHopId = n]
        = [id |-> p.id, hopCount |-> p.hopCount, lastHopId |-> n, layers |-> 1 - p.layers]
  BY ToggledIs
<1>2. Hop(n, p) = [[Toggled(p) EXCEPT !.lastHopId = n] EXCEPT !.hopCount = p.hopCount + 1]
  <2>1. Toggled(p).hopCount = p.hopCount
    BY ToggledIs
  <2>. QED
    BY <2>1 DEF Hop
<1>. QED
  BY <1>1, <1>2

(* What a node hands on is clear text, unless its topic is reserved.         *)
LEMMA OpenedIs ==
  ASSUME NEW p \in Packet
  PROVE  /\ Opened(p) \in Packet /\ Opened(p).id = p.id /\ Opened(p).hopCount = p.hopCount
         /\ p.id \notin Reserved => Opened(p).layers = 1 - p.layers
<1>1. CASE p.id \in Reserved
  BY <1>1 DEF Opened
<1>2. CASE p.id \notin Reserved
  <2>1. 1 - p.layers \in {0, 1} /\ p.id \in Messages /\ p.hopCount \in Nat /\ p.lastHopId \in Nodes
    BY DEF Packet
  <2>. QED
    BY <1>2, <2>1, ToggledIs DEF Opened, Packet
<1>. QED
  BY <1>1, <1>2

LEMMA HopWaits ==
  ASSUME NEW n \in Nodes, NEW p \in Packet, NEW S, p.id \in S, p.id \notin Reserved => p.layers = 0
  PROVE  /\ Hop(n, p) \in WaitingOf(S)
         /\ Crc(Hop(n, p)) \in {0, 1, 2}
         /\ p.id \notin Reserved => Crc(Hop(n, p)) = Sealed(p.id)
<1>. DEFINE q == [id |-> p.id, hopCount |-> p.hopCount + 1, lastHopId |-> n, layers |-> 1 - p.layers]
<1>1. /\ p.id \in Messages /\ p.hopCount \in Nat /\ p.lastHopId \in Nodes /\ p.layers \in {0, 1}
      /\ Hop(n, p) = q
  BY HopIs DEF Packet
<1>2. 1 - p.layers \in {0, 1} /\ (p.layers = 0 => 1 - p.layers = 1)
  BY <1>1
<1>3. Hop(n, p) \in WaitingOf(S)
  BY <1>1, <1>2 DEF Packet, WaitingOf
<1>4. Crc(Hop(n, p)) = IF <<p.id, 1 - p.layers>> \in ZeroCrc THEN 0 ELSE 1 + (1 - p.layers)
  BY <1>1 DEF Crc
<1>. QED
  BY <1>1, <1>2, <1>3, <1>4 DEF Sealed

(* What routePacket does: types are kept, and nothing else is forgotten.     *)
LEMMA Routing ==
  ASSUME Types, NEW n \in Nodes, NEW p \in Packet, NEW S, p.id \in S, sent \subseteq S,
         p.id \notin Reserved => p.layers = 0,
         NEW radio \in [Nodes -> Seq(WaitingOf(sent))], RoutePacket(n, p, radio)
  PROVE  /\ rx' \in [Nodes -> Seq(WaitingOf(S))]
         /\ tracker' \in [Nodes -> Trackers]
         /\ transmitted' \in Counts
         /\ \A x \in Nodes, m \in Messages :
              x # n \/ m # p.id =>
                /\ transmitted'[x][m] = transmitted[x][m]
                /\ Cardinality(Messages) <= Capacity =>
                     FindOrDefault(tracker'[x], m) = FindOrDefault(tracker[x], m)
         /\ \/ /\ transmitted'[n][p.id] = transmitted[n][p.id]
               /\ FindOrDefault(tracker'[n], p.id) = FindOrDefault(tracker[n], p.id)
            \/ /\ transmitted'[n][p.id] = AtMostTwo(transmitted[n][p.id] + 1)
               /\ FindOrDefault(tracker'[n], p.id) = Crc(Hop(n, p))
<1>1. /\ mesh \in Meshes /\ tracker \in [Nodes -> Trackers] /\ transmitted \in Counts
      /\ p.id \in Messages /\ WaitingOf(sent) \subseteq WaitingOf(S)
  BY DEF Types, Packet, WaitingOf
<1>2. /\ Touched(tracker[n], p.id) \in Trackers
      /\ \A m \in Messages : FindOrDefault(Touched(tracker[n], p.id), m) = FindOrDefault(tracker[n], m)
  BY <1>1, Touching
<1>3. CASE /\ Air(n, Hop(n, p), radio)
           /\ tracker' = [tracker EXCEPT ![n] = AddEntry(Touched(@, p.id), p.id, Crc(Hop(n, p)))]
           /\ transmitted' = [transmitted EXCEPT ![n][p.id] = AtMostTwo(@ + 1)]
  <2>. DEFINE t == AddEntry(Touched(tracker[n], p.id), p.id, Crc(Hop(n, p)))
  <2>1. rx' \in [Nodes -> Seq(WaitingOf(S))]
    BY <1>1, <1>3, HopWaits, OnTheAir
  <2>2. /\ t \in Trackers /\ FindOrDefault(t, p.id) = Crc(Hop(n, p))
        /\ Cardinality(Messages) <= Capacity =>
             \A m \in Messages \ {p.id} : FindOrDefault(t, m) = FindOrDefault(Touched(tracker[n], p.id), m)
    BY <1>1, <1>2, HopWaits, Adding
  <2>3. tracker' = [tracker EXCEPT ![n] = t]
    BY <1>3
  <2>. HIDE DEF t
  <2>4. transmitted[n][p.id] \in 0 .. 2 /\ AtMostTwo(transmitted[n][p.id] + 1) \in 0 .. 2
    BY <1>1, Counting DEF Counts
  <2>5. /\ transmitted' \in Counts
        /\ transmitted'[n][p.id] = AtMostTwo(transmitted[n][p.id] + 1)
        /\ \A x \in Nodes, m \in Messages : x # n \/ m # p.id => transmitted'[x][m] = transmitted[x][m]
    BY <1>1, <1>3, <2>4 DEF Counts
  <2>. QED
    BY <1>1, <1>2, <2>1, <2>2, <2>3, <2>5
<1>4. CASE /\ rx' = radio
           /\ tracker' = [tracker EXCEPT ![n] = Touched(@, p.id)]
           /\ UNCHANGED transmitted
  <2>1. rx' \in [Nodes -> Seq(WaitingOf(S))]
    BY <1>1, <1>4, SeqMonotonic
  <2>. QED
    BY <1>1, <1>2, <1>4, <2>1
<1>. QED
  BY <1>3, <1>4 DEF RoutePacket

(* With it a node that has not sent the message before keeps to SentIsSeen.  *)
LEMMA RoutingIsSeen ==
  ASSUME IInv, NEW n \in Nodes, NEW p \in Packet, NEW S, p.id \in S, sent \subseteq S,
         p.id \notin Reserved => p.layers = 0,
         NEW radio \in [Nodes -> Seq(WaitingOf(sent))], RoutePacket(n, p, radio),
         Cardinality(Messages) <= Capacity,
         p.id \notin Reserved => transmitted[n][p.id] = 0
  PROVE  SentIsSeen'
<1>1. SUFFICES ASSUME NEW x \in Nodes, NEW m \in Messages \ Reserved
               PROVE  \/ transmitted'[x][m] = 0
                      \/ transmitted'[x][m] = 1 /\ FindOrDefault(tracker'[x], m) = Sealed(m)
  BY DEF SentIsSeen
<1>2. Types /\ SentIsSeen
  BY DEF IInv
<1>3. /\ \A y \in Nodes, k \in Messages :
           y # n \/ k # p.id =>
             /\ transmitted'[y][k] = transmitted[y][k]
             /\ FindOrDefault(tracker'[y], k) = FindOrDefault(tracker[y], k)
      /\ \/ transmitted'[n][p.id] = transmitted[n][p.id]
         \/ /\ transmitted'[n][p.id] = AtMostTwo(transmitted[n][p.id] + 1)
            /\ FindOrDefault(tracker'[n], p.id) = Crc(Hop(n, p))
  BY <1>2, Routing
<1>4. CASE x # n \/ m # p.id
  BY <1>2, <1>3, <1>4 DEF SentIsSeen
<1>5. CASE x = n /\ m = p.id
  <2>1. transmitted[n][p.id] = 0 /\ Crc(Hop(n, p)) = Sealed(p.id)
    BY <1>5, HopWaits
  <2>2. AtMostTwo(transmitted[n][p.id] + 1) = 1
    BY <2>1, Counting
  <2>. QED
    BY <1>3, <1>5, <2>1, <2>2
<1>. QED
  BY <1>4, <1>5

-----------------------------------------------------------------------------
(* The inductive invariant.                                                  *)

LEMMA Initially == Init => IInv
<1>. SUFFICES ASSUME Init PROVE IInv
  OBVIOUS
<1>1. \A n \in Nodes, m \in Messages : transmitted[n][m] = 0
  BY DEF Init
<1>2. <<>> \in Seq(Entry) /\ Len(<<>>) = 0 /\ <<>> \in Seq(Waiting)
  BY EmptySeq
<1>3. <<>> \in Trackers
  BY <1>2, CapacityType DEF Trackers, Distinct, Init
<1>4. Types
  BY <1>2, <1>3 DEF Init, Types, Counts
<1>. QED
  BY <1>1, <1>4 DEF IInv, Unsent, SentIsSeen

(* The circumstances stay, and what is defined by them.                      *)
LEMMA Frame == ASSUME mesh' = mesh PROVE Capacity' = Capacity /\ Trackers' = Trackers
<1>1. Capacity' = Capacity
  BY DEF Capacity
<1>. QED
  BY <1>1 DEF Trackers

LEMMA SendDataKeeps ==
  ASSUME IInv, NEW n \in Nodes, NEW m \in Messages, SendData(n, m)
  PROVE  IInv'
<1>. DEFINE p == [id |-> m, hopCount |-> 0, lastHopId |-> n, layers |-> 0]
            S == sent \cup {m}
<1>1. /\ m \notin sent /\ sent' = S /\ RoutePacket(n, p, rx)
      /\ mesh' = mesh /\ delivered' = delivered
  BY DEF SendData
<1>2. p \in Packet /\ p.id = m /\ p.layers = 0
  BY DEF Packet
<1>3. Types /\ Unsent /\ rx \in [Nodes -> Seq(WaitingOf(sent))] /\ sent \subseteq S /\ p.id \in S
  BY <1>2 DEF IInv, Types, Waiting
<1>. HIDE DEF p
<1>4. /\ rx' \in [Nodes -> Seq(WaitingOf(S))] /\ tracker' \in [Nodes -> Trackers]
      /\ transmitted' \in Counts
      /\ \A x \in Nodes, k \in Messages :
           x # n \/ k # p.id => transmitted'[x][k] = transmitted[x][k]
  <2>. HIDE DEF S
  <2>. QED
    BY <1>1, <1>2, <1>3, Routing
<1>5. Types'
  BY <1>1, <1>3, <1>4, Frame DEF Types, Waiting
<1>6. Unsent'
  <2>. SUFFICES ASSUME NEW x \in Nodes, NEW k \in Messages \ S PROVE transmitted'[x][k] = 0
    BY <1>1 DEF Unsent
  <2>1. k # m /\ k \in Messages \ sent
    OBVIOUS
  <2>2. transmitted[x][k] = 0
    BY <1>3, <2>1 DEF Unsent
  <2>. QED
    BY <1>2, <1>4, <2>1, <2>2
<1>7. transmitted[n][m] = 0
  BY <1>1, <1>3 DEF Unsent
<1>8. ASSUME Cardinality(Messages) <= Capacity PROVE SentIsSeen'
  BY <1>1, <1>2, <1>3, <1>7, <1>8, RoutingIsSeen
<1>. QED
  BY <1>1, <1>5, <1>6, <1>8, Frame DEF IInv

(* When all that a step does is to look an identifier up and to take packets *)
(* from the air.                                                             *)
LEMMA Skipping ==
  ASSUME IInv, mesh' = mesh, rx' \in [Nodes -> Seq(Waiting)], sent' = sent,
         transmitted' = transmitted, delivered' \in Counts,
         NEW n \in Nodes, NEW id \in Messages,
         tracker' = tracker \/ tracker' = [tracker EXCEPT ![n] = Touched(@, id)]
  PROVE  IInv'
<1>1. Types /\ Unsent
  BY DEF IInv
<1>2. /\ tracker' \in [Nodes -> Trackers]
      /\ \A x \in Nodes, m \in Messages : FindOrDefault(tracker'[x], m) = FindOrDefault(tracker[x], m)
  <2>1. tracker \in [Nodes -> Trackers]
    BY <1>1 DEF Types
  <2>2. /\ Touched(tracker[n], id) \in Trackers
        /\ \A m \in Messages : FindOrDefault(Touched(tracker[n], id), m) = FindOrDefault(tracker[n], m)
    BY <2>1, Touching
  <2>. QED
    BY <2>1, <2>2
<1>3. Types'
  BY <1>1, <1>2, Frame DEF Types, Waiting
<1>4. Unsent' /\ (SentIsSeen => SentIsSeen')
  BY <1>1, <1>2 DEF Unsent, SentIsSeen
<1>. QED
  BY <1>3, <1>4, Frame DEF IInv

LEMMA Receiving ==
  ASSUME Types, NEW n \in Nodes, rx[n] # <<>>
  PROVE  /\ Head(rx[n]) \in Waiting
         /\ [rx EXCEPT ![n] = Tail(@)] \in [Nodes -> Seq(Waiting)]
<1>1. rx \in [Nodes -> Seq(Waiting)]
  BY DEF Types
<1>2. Head(rx[n]) \in Waiting /\ Tail(rx[n]) \in Seq(Waiting)
  BY <1>1, HeadTailProperties
<1>. QED
  BY <1>1, <1>2

LEMMA HandleReceivedDataKeeps ==
  ASSUME IInv, NEW n \in Nodes, HandleReceivedData(n)
  PROVE  IInv'
<1>. DEFINE p     == Head(rx[n])
            radio == [rx EXCEPT ![n] = Tail(@)]
<1>1. Types /\ Unsent /\ rx[n] # <<>> /\ mesh' = mesh /\ sent' = sent
  BY DEF IInv, HandleReceivedData
<1>2. p \in Waiting /\ radio \in [Nodes -> Seq(Waiting)]
  BY <1>1, Receiving
<1>3. p \in Packet /\ p.id \in Messages /\ p.id \in sent /\ (p.id \notin Reserved => p.layers = 1)
  BY <1>2 DEF Waiting, WaitingOf, Packet
<1>4. \/ /\ rx' = radio /\ tracker' = [tracker EXCEPT ![n] = Touched(@, p.id)]
         /\ transmitted' = transmitted
      \/ ~Seen(tracker[n], p) /\ RoutePacket(n, Opened(p), radio)
  BY DEF HandleReceivedData
<1>5. delivered' = delivered \/ delivered' = [delivered EXCEPT ![n][p.id] = AtMostTwo(@ + 1)]
  BY DEF HandleReceivedData
<1>. HIDE DEF p, radio
<1>6. delivered' \in Counts
  <2>1. delivered \in Counts /\ delivered[n][p.id] \in 0 .. 2
    BY <1>1, <1>3 DEF Types, Counts
  <2>2. AtMostTwo(delivered[n][p.id] + 1) \in 0 .. 2
    BY <2>1, Counting
  <2>. QED
    BY <1>3, <1>5, <2>1, <2>2 DEF Counts
<1>7. CASE /\ rx' = radio /\ tracker' = [tracker EXCEPT ![n] = Touched(@, p.id)]
           /\ transmitted' = transmitted
  BY <1>1, <1>2, <1>3, <1>6, <1>7, Skipping
<1>8. CASE ~Seen(tracker[n], p) /\ RoutePacket(n, Opened(p), radio)
  <2>. DEFINE o == Opened(p)
  <2>1. o \in Packet /\ o.id = p.id /\ (o.id \notin Reserved => o.layers = 0)
    <3>1. p.id \notin Reserved => 1 - p.layers = 0
      BY <1>3
    <3>. QED
      BY <1>3, <3>1, OpenedIs
  <2>. HIDE DEF o
  <2>2. RoutePacket(n, o, radio) /\ radio \in [Nodes -> Seq(WaitingOf(sent))] /\ o.id \in sent
    BY <1>2, <1>3, <1>8, <2>1 DEF o, Waiting
  <2>3. /\ rx' \in [Nodes -> Seq(WaitingOf(sent))] /\ tracker' \in [Nodes -> Trackers]
        /\ transmitted' \in Counts
        /\ \A x \in Nodes, k \in Messages :
             x # n \/ k # o.id => transmitted'[x][k] = transmitted[x][k]
    BY <1>1, <2>1, <2>2, Routing
  <2>4. Types'
    BY <1>1, <1>6, <2>3, Frame DEF Types, Waiting
  <2>5. Unsent'
    BY <1>1, <2>2, <2>3 DEF Unsent
  <2>6. ASSUME Cardinality(Messages) <= Capacity PROVE SentIsSeen'
    <3>1. ASSUME p.id \notin Reserved PROVE transmitted[n][p.id] = 0
      <4>1. Crc(p) = Sealed(p.id)
        BY <1>3, <3>1 DEF Crc, Sealed
      <4>2. FindOrDefault(tracker[n], p.id) # Sealed(p.id)
        BY <1>8, <4>1 DEF Seen
      <4>. QED
        BY <1>3, <2>6, <3>1, <4>2 DEF IInv, SentIsSeen
    <3>. QED
      BY <2>1, <2>2, <2>6, <3>1, RoutingIsSeen
  <2>. QED
    BY <1>1, <2>4, <2>5, <2>6, Frame DEF IInv
<1>. QED
  BY <1>4, <1>7, <1>8

LEMMA LosePacketKeeps ==
  ASSUME IInv, NEW n \in Nodes, LosePacket(n)
  PROVE  IInv'
<1>1. Types /\ rx[n] # <<>> /\ rx' = [rx EXCEPT ![n] = Tail(@)] /\ mesh' = mesh
  BY DEF IInv, LosePacket
<1>2. rx' \in [Nodes -> Seq(Waiting)] /\ delivered \in Counts
  BY <1>1, Receiving DEF Types
<1>3. Head(rx[n]) \in Waiting
  BY <1>1, Receiving
<1>4. Head(rx[n]).id \in Messages
  BY <1>3 DEF Waiting, WaitingOf, Packet
<1>. QED
  BY <1>1, <1>2, <1>4, Skipping DEF LosePacket

(* A node that restarts has sent nothing since.                              *)
LEMMA RestartKeeps ==
  ASSUME IInv, NEW n \in Nodes, Restart(n)
  PROVE  IInv'
<1>1. Types /\ Unsent /\ mesh' = mesh /\ sent' = sent
  BY DEF IInv, Restart
<1>2. <<>> \in Seq(Entry) /\ Len(<<>>) = 0 /\ <<>> \in Seq(Waiting)
  BY EmptySeq
<1>3. <<>> \in Trackers
  BY <1>1, <1>2, CapacityType DEF Trackers, Distinct, Types
<1>4. Types'
  BY <1>1, <1>2, <1>3, Frame DEF Types, Restart, Counts, Waiting
<1>5. /\ \A m \in Messages : transmitted'[n][m] = 0
      /\ \A x \in Nodes \ {n} : transmitted'[x] = transmitted[x] /\ tracker'[x] = tracker[x]
  BY <1>1 DEF Restart, Types, Counts
<1>6. Unsent' /\ (SentIsSeen => SentIsSeen')
  BY <1>1, <1>5 DEF Unsent, SentIsSeen
<1>. QED
  BY <1>1, <1>4, <1>6, Frame DEF IInv

(* Packets, trackers and counts keep their shape; a message that was not     *)
(* sent was not sent on; and with room for all messages a tracker holds the  *)
(* CRC of every one the node has sent on: the invariant of the handler.      *)
THEOREM Invariance == Spec => []IInv
<1>1. ASSUME IInv, [Next]_vars PROVE IInv'
  <2>1. CASE UNCHANGED vars
    <3>1. Capacity' = Capacity /\ Trackers' = Trackers
      BY <2>1, Frame DEF vars
    <3>. QED
      BY <1>1, <2>1, <3>1 DEF vars, IInv, Types, Waiting, Unsent, SentIsSeen
  <2>2. CASE Next
    <3>1. PICK n \in Nodes :
            \/ HandleReceivedData(n) \/ LosePacket(n) \/ Restart(n)
            \/ \E m \in Messages : SendData(n, m)
      BY <2>2 DEF Next
    <3>2. CASE HandleReceivedData(n)
      BY <1>1, <3>2, HandleReceivedDataKeeps
    <3>3. CASE LosePacket(n)
      BY <1>1, <3>3, LosePacketKeeps
    <3>4. CASE Restart(n)
      BY <1>1, <3>4, RestartKeeps
    <3>5. CASE \E m \in Messages : SendData(n, m)
      BY <1>1, <3>5, SendDataKeeps
    <3>. QED
      BY <3>1, <3>2, <3>3, <3>4, <3>5
  <2>. QED
    BY <1>1, <2>1, <2>2
<1>. QED
  BY <1>1, Initially, PTL DEF Spec

(* Packets, trackers and counts keep their shape, and a tracker its capacity *)
(* with one entry per identifier.                                            *)
THEOREM TypeCorrect == Spec => []TypeOK
<1>1. ASSUME IInv PROVE TypeOK
  <2>1. Types
    BY <1>1 DEF IInv
  <2>2. ASSUME NEW n \in Nodes
        PROVE  /\ rx[n] \in Seq(Packet) /\ tracker[n] \in Seq(Messages \X {0, 1, 2})
               /\ Len(tracker[n]) <= Capacity
               /\ Len(tracker[n]) = Cardinality(Ids(tracker[n]))
    <3>1. tracker[n] \in Trackers /\ rx[n] \in Seq(Waiting) /\ Waiting \subseteq Packet
      BY <2>1 DEF Types, Waiting, WaitingOf
    <3>2. rx[n] \in Seq(Packet)
      BY <3>1, SeqMonotonic
    <3>3. tracker[n] \in Seq(Entry) /\ Distinct(tracker[n]) /\ Len(tracker[n]) <= Capacity
      BY <3>1 DEF Trackers
    <3>4. Cardinality(Ids(tracker[n])) = Len(tracker[n])
      BY <3>3, IdsCount
    <3>. QED
      BY <3>2, <3>3, <3>4 DEF Entry
  <2>. QED
    BY <2>1, <2>2 DEF TypeOK, Types, Counts
<1>. QED
  BY <1>1, Invariance, PTL

(* However many copies of a message arrive, in whatever order, through       *)
(* whatever topology: a node sends it on at most once as long as trackers    *)
(* have room for all messages.                                               *)
THEOREM SendsOnce == Spec => []TransmitsOnce
<1>1. ASSUME IInv PROVE TransmitsOnce
  <2>. SUFFICES ASSUME Cardinality(Messages) <= Capacity, NEW n \in Nodes,
                       NEW m \in Messages \ Reserved
                PROVE  transmitted[n][m] <= 1
    BY DEF TransmitsOnce
  <2>1. transmitted[n][m] = 0 \/ transmitted[n][m] = 1
    BY <1>1 DEF IInv, SentIsSeen
  <2>. QED
    BY <2>1
<1>. QED
  BY <1>1, Invariance, PTL

-----------------------------------------------------------------------------
(* Hops.                                                                     *)

(* Induction, from the pigeonhole principle: otherwise k |-> k + 1 would map *)
(* a finite set into a proper part of it.                                    *)
LEMMA Induction ==
  ASSUME NEW T, 0 \in T, \A k \in Nat : k \in T => k + 1 \in T
  PROVE  Nat \subseteq T
<1>. SUFFICES ASSUME NEW n \in Nat, n \notin T PROVE FALSE
  OBVIOUS
<1>. DEFINE U == {k \in 0 .. n : \A j \in 0 .. k : j \in T}
            f == [k \in U |-> k + 1]
<1>1. 0 \in U /\ \A k \in U : k + 1 \in U
  <2>1. 0 \in U
    OBVIOUS
  <2>2. ASSUME NEW k \in U PROVE k + 1 \in U
    <3>1. k + 1 \in T /\ k # n
      OBVIOUS
    <3>. QED
      BY <3>1
  <2>. QED
    BY <2>1, <2>2
<1>2. IsFiniteSet(U) /\ U \subseteq Nat
  <2>1. U \in SUBSET Nat /\ \A k \in U : k <= n
    OBVIOUS
  <2>. QED
    BY <2>1, FS_BoundedSetOfNaturals
<1>. HIDE DEF U
<1>3. IsFiniteSet(U \ {0}) /\ Cardinality(U \ {0}) = Cardinality(U) - 1 /\ Cardinality(U) \in Nat
  BY <1>1, <1>2, FS_RemoveElement, FS_CardinalityType
<1>4. f \in [U -> U \ {0}] /\ Cardinality(U \ {0}) < Cardinality(U)
  BY <1>1, <1>2, <1>3
<1>. HIDE DEF f
<1>5. PICK x, y \in U : x # y /\ f[x] = f[y]
  BY <1>2, <1>3, <1>4, FS_PigeonHole
<1>. QED
  BY <1>2, <1>5 DEF f

(* A step function can be iterated.                                          *)
Iterates(f, F, x, n) == f[0] = x /\ \A k \in 1 .. n : f[k] = F[f[k - 1]]

LEMMA Iteration ==
  ASSUME NEW S, NEW x \in S, NEW F \in [S -> S], NEW n \in Nat
  PROVE  \E f \in [0 .. n -> S] : Iterates(f, F, x, n)
<1>. USE DEF Iterates
<1>. DEFINE T == {k \in Nat : \E f \in [0 .. k -> S] : Iterates(f, F, x, k)}
<1>1. 0 \in T
  <2>. DEFINE f == [j \in 0 .. 0 |-> x]
  <2>1. f \in [0 .. 0 -> S] /\ Iterates(f, F, x, 0)
    OBVIOUS
  <2>. QED
    BY <2>1
<1>2. ASSUME NEW k \in Nat, k \in T PROVE k + 1 \in T
  <2>1. PICK f \in [0 .. k -> S] : Iterates(f, F, x, k)
    BY <1>2
  <2>. DEFINE g == [j \in 0 .. k + 1 |-> IF j = k + 1 THEN F[f[k]] ELSE f[j]]
  <2>2. f[k] \in S
    OBVIOUS
  <2>3. g \in [0 .. k + 1 -> S]
    BY <2>2
  <2>4. g[0] = x
    BY <2>1
  <2>5. ASSUME NEW j \in 1 .. k + 1 PROVE g[j] = F[g[j - 1]]
    <3>1. CASE j = k + 1
      BY <3>1
    <3>2. CASE j # k + 1
      <4>1. j \in 1 .. k /\ j \in 0 .. k + 1 /\ j - 1 \in 0 .. k + 1 /\ j - 1 # k + 1
        BY <3>2
      <4>. QED
        BY <2>1, <3>2, <4>1
    <3>. QED
      BY <3>1, <3>2
  <2>6. Iterates(g, F, x, k + 1)
    BY <2>4, <2>5
  <2>. HIDE DEF g, Iterates
  <2>. QED
    BY <2>3, <2>6
<1>. HIDE DEF T
<1>3. n \in T
  BY <1>1, <1>2, Induction
<1>. QED
  BY <1>3 DEF T

(* The first nodes reached are the source, the next ones those who hear a    *)
(* relay (or the source) among them.                                         *)
LEMMA ReachStep ==
  ASSUME mesh \in Meshes, NEW m \in Messages, NEW F \in SUBSET Nodes
  PROVE  /\ Reach(m, F)[0] = {Source[m]}
         /\ \A k \in 1 .. MAX_HOPS :
              Reach(m, F)[k]
                = UNION {Neighbours[n] : n \in Reach(m, F)[k - 1] \cap (F \cup {Source[m]})}
<1>. DEFINE Hears(N) == UNION {Neighbours[n] : n \in N \cap (F \cup {Source[m]})}
            H == [N \in SUBSET Nodes |-> Hears(N)]
            IsReach(f) == f = [k \in 0 .. MAX_HOPS |-> IF k = 0 THEN {Source[m]} ELSE Hears(f[k - 1])]
<1>1. MAX_HOPS \in Nat /\ {Source[m]} \in SUBSET Nodes /\ \A n \in Nodes : Neighbours[n] \subseteq Nodes
  BY FloodingAssumption, MeshesAssumption DEF Neighbours
<1>2. H \in [SUBSET Nodes -> SUBSET Nodes]
  BY <1>1
<1>. HIDE DEF H
<1>3. PICK f \in [0 .. MAX_HOPS -> SUBSET Nodes] :
        f[0] = {Source[m]} /\ \A k \in 1 .. MAX_HOPS : f[k] = H[f[k - 1]]
  <2>. DEFINE S == SUBSET Nodes
              x == {Source[m]}
  <2>1. x \in S /\ H \in [S -> S] /\ MAX_HOPS \in Nat
    BY <1>1, <1>2
  <2>. HIDE DEF S, x
  <2>2. \E f \in [0 .. MAX_HOPS -> S] : Iterates(f, H, x, MAX_HOPS)
    BY <2>1, Iteration
  <2>. QED
    BY <2>2 DEF S, x, Iterates
<1>4. ASSUME NEW k \in 0 .. MAX_HOPS
      PROVE  f[k] = IF k = 0 THEN {Source[m]} ELSE Hears(f[k - 1])
  <2>1. CASE k = 0
    BY <1>3, <2>1
  <2>2. CASE k # 0
    <3>1. k \in 1 .. MAX_HOPS /\ f[k - 1] \in SUBSET Nodes
      BY <1>1, <2>2
    <3>. QED
      BY <1>3, <2>2, <3>1 DEF H
  <2>. QED
    BY <2>1, <2>2
<1>. HIDE DEF Hears
<1>5. IsReach(f)
  BY <1>4
<1>6. Reach(m, F) = CHOOSE g : IsReach(g)
  BY DEF Reach, Hears
<1>. HIDE DEF IsReach
<1>7. IsReach(Reach(m, F))
  BY <1>5, <1>6
<1>8. \A k \in 0 .. MAX_HOPS :
        Reach(m, F)[k] = IF k = 0 THEN {Source[m]} ELSE Hears(Reach(m, F)[k - 1])
  BY <1>7 DEF IsReach
<1>9. Reach(m, F)[0] = {Source[m]}
  BY <1>1, <1>8
<1>10. ASSUME NEW k \in 1 .. MAX_HOPS PROVE Reach(m, F)[k] = Hears(Reach(m, F)[k - 1])
  <2>1. k \in 0 .. MAX_HOPS /\ k # 0
    BY <1>1
  <2>. QED
    BY <1>8, <2>1
<1>. QED
  BY <1>9, <1>10 DEF Hears

(* A copy that a node hears came as far as it says, from a node that may     *)
(* send it on.                                                               *)
Senders(m) == RELAYS \ {Target[m]}
Faithful(n) ==
  {p \in Packet :
     /\ n \in Neighbours[p.lastHopId]
     /\ p.hopCount \in 1 .. MAX_HOPS
     /\ p.lastHopId \in Reach(p.id, Senders(p.id))[p.hopCount - 1]
     /\ p.lastHopId \in Senders(p.id) \cup {Source[p.id]}}
Hops == \A n \in Nodes : rx[n] \in Seq(Faithful(n))

(* Who hears a copy is reached one hop further on.                           *)
LEMMA HearerIsReached ==
  ASSUME mesh \in Meshes, NEW n \in Nodes, NEW p \in Faithful(n)
  PROVE  n \in Reach(p.id, Senders(p.id))[p.hopCount]
<1>1. /\ p.id \in Messages /\ p.hopCount \in 1 .. MAX_HOPS /\ n \in Neighbours[p.lastHopId]
      /\ p.lastHopId \in Reach(p.id, Senders(p.id))[p.hopCount - 1]
      /\ p.lastHopId \in Senders(p.id) \cup {Source[p.id]}
      /\ Senders(p.id) \in SUBSET Nodes
  BY FloodingAssumption DEF Faithful, Packet, Senders
<1>2. Reach(p.id, Senders(p.id))[p.hopCount]
        = UNION {Neighbours[x] : x \in Reach(p.id, Senders(p.id))[p.hopCount - 1]
                                         \cap (Senders(p.id) \cup {Source[p.id]})}
  BY <1>1, ReachStep
<1>. QED
  BY <1>1, <1>2

(* The next copy is faithful where it is heard.                              *)
LEMMA NextHop ==
  ASSUME mesh \in Meshes, NEW n \in Nodes, NEW p \in Packet, p.hopCount < MAX_HOPS,
         n \in Reach(p.id, Senders(p.id))[p.hopCount],
         n \in Senders(p.id) \cup {Source[p.id]},
         NEW x \in Neighbours[n]
  PROVE  Hop(n, p) \in Faithful(x)
<1>. DEFINE q == [id |-> p.id, hopCount |-> p.hopCount + 1, lastHopId |-> n, layers |-> 1 - p.layers]
<1>1. /\ p.id \in Messages /\ p.hopCount \in Nat /\ p.layers \in {0, 1} /\ MAX_HOPS \in Nat
      /\ Hop(n, p) = q
  BY HopIs, FloodingAssumption DEF Packet
<1>2. 1 - p.layers \in {0, 1} /\ p.hopCount + 1 \in 1 .. MAX_HOPS /\ p.hopCount + 1 - 1 = p.hopCount
  BY <1>1
<1>3. q \in Packet
  BY <1>1, <1>2 DEF Packet
<1>. QED
  BY <1>1, <1>2, <1>3 DEF Faithful

(* What routePacket puts on the air.                                         *)
LEMMA RoutingHops ==
  ASSUME mesh \in Meshes, mesh' = mesh, NEW n \in Nodes, NEW p \in Packet,
         n \in Reach(p.id, Senders(p.id))[p.hopCount],
         n \in Senders(p.id) \cup {Source[p.id]},
         NEW radio, \A x \in Nodes : radio[x] \in Seq(Faithful(x)),
         RoutePacket(n, p, radio)
  PROVE  Hops'
<1>1. \A x : Faithful(x)' = Faithful(x)
  BY DEF Faithful, Neighbours, Senders, Target, Reach
<1>2. CASE HopsLeft(p) /\ Air(n, Hop(n, p), radio)
  <2>1. PICK reached \in SUBSET Neighbours[n] :
          rx' = [x \in Nodes |-> IF x \in reached THEN Arrives(radio[x], Hop(n, p)) ELSE radio[x]]
    BY <1>2 DEF Air
  <2>2. ASSUME NEW x \in Nodes PROVE rx'[x] \in Seq(Faithful(x))
    <3>1. CASE x \in reached
      <4>1. Hop(n, p) \in Faithful(x)
        BY <1>2, <3>1, NextHop DEF HopsLeft
      <4>2. Append(radio[x], Hop(n, p)) \in Seq(Faithful(x)) /\ <<Hop(n, p)>> \in Seq(Faithful(x))
        BY <4>1, AppendProperties
      <4>. QED
        BY <2>1, <3>1, <4>2 DEF Arrives
    <3>2. CASE x \notin reached
      BY <2>1, <3>2
    <3>. QED
      BY <3>1, <3>2
  <2>. QED
    BY <1>1, <2>2 DEF Hops
<1>3. CASE rx' = radio
  BY <1>1, <1>3 DEF Hops
<1>. QED
  BY <1>2, <1>3 DEF RoutePacket

(* Every step keeps the packets that wait faithful.                          *)
LEMMA HopsStep ==
  ASSUME Types, Hops, [Next]_vars
  PROVE  Hops'
<1>1. mesh \in Meshes /\ mesh' = mesh
  BY DEF Types, Next, vars, HandleReceivedData, LosePacket, Restart, SendData
<1>2. \A x : Faithful(x)' = Faithful(x)
  BY <1>1 DEF Faithful, Neighbours, Senders, Target, Reach
<1>3. rx \in [Nodes -> Seq(Waiting)] /\ \A n \in Nodes : rx[n] \in Seq(Faithful(n))
  BY DEF Types, Hops
<1>4. CASE UNCHANGED vars
  BY <1>2, <1>4 DEF vars, Hops
<1>5. ASSUME NEW n \in Nodes, NEW m \in Messages, SendData(n, m)
      PROVE  Hops'
  <2>. DEFINE p == [id |-> m, hopCount |-> 0, lastHopId |-> n, layers |-> 0]
  <2>1. p \in Packet /\ p.id = m /\ p.hopCount = 0
    BY DEF Packet
  <2>2. Source[m] = n /\ RoutePacket(n, p, rx)
    BY <1>5 DEF SendData
  <2>. HIDE DEF p
  <2>3. Senders(m) \in SUBSET Nodes
    BY FloodingAssumption DEF Senders
  <2>4. n \in Reach(m, Senders(m))[0]
    BY <1>1, <2>2, <2>3, ReachStep
  <2>. QED
    BY <1>1, <1>3, <2>1, <2>2, <2>4, RoutingHops
<1>6. ASSUME NEW n \in Nodes, rx[n] # <<>>
      PROVE  /\ Head(rx[n]) \in Faithful(n)
             /\ \A x \in Nodes : [rx EXCEPT ![n] = Tail(@)][x] \in Seq(Faithful(x))
  <2>1. Head(rx[n]) \in Faithful(n) /\ Tail(rx[n]) \in Seq(Faithful(n))
    BY <1>3, <1>6, HeadTailProperties
  <2>. QED
    BY <1>3, <2>1
<1>7. ASSUME NEW n \in Nodes, HandleReceivedData(n)
      PROVE  Hops'
  <2>. DEFINE p     == Head(rx[n])
              radio == [rx EXCEPT ![n] = Tail(@)]
  <2>1. p \in Faithful(n) /\ \A x \in Nodes : radio[x] \in Seq(Faithful(x))
    BY <1>6, <1>7 DEF HandleReceivedData
  <2>2. rx' = radio \/ (Forwards(n, p) /\ RoutePacket(n, Opened(p), radio))
    BY <1>7 DEF HandleReceivedData
  <2>. HIDE DEF p, radio
  <2>3. CASE rx' = radio
    BY <1>2, <2>1, <2>3 DEF Hops
  <2>4. CASE Forwards(n, p) /\ RoutePacket(n, Opened(p), radio)
    <3>1. p \in Packet /\ n \in Senders(p.id) /\ n \in Reach(p.id, Senders(p.id))[p.hopCount]
      BY <1>1, <2>1, <2>4, HearerIsReached DEF Forwards, Senders, Faithful
    <3>2. Opened(p) \in Packet /\ Opened(p).id = p.id /\ Opened(p).hopCount = p.hopCount
      BY <3>1, OpenedIs
    <3>. QED
      BY <1>1, <2>1, <2>4, <3>1, <3>2, RoutingHops
  <2>. QED
    BY <2>2, <2>3, <2>4
<1>8. ASSUME NEW n \in Nodes, LosePacket(n) \/ Restart(n)
      PROVE  Hops'
  <2>1. CASE LosePacket(n)
    BY <1>2, <1>6, <2>1 DEF LosePacket, Hops
  <2>2. CASE Restart(n)
    <3>1. \A S : <<>> \in Seq(S)
      BY EmptySeq
    <3>. QED
      BY <1>2, <1>3, <2>2, <3>1 DEF Restart, Hops
  <2>. QED
    BY <1>8, <2>1, <2>2
<1>. QED
  BY <1>4, <1>5, <1>7, <1>8 DEF Next

(* Through any topology a packet on the air has come as many hops as it      *)
(* says, over relays that are not its destination and no more than MAX_HOPS, *)
(* with its payload encrypted once.                                          *)
THEOREM CopiesStayFaithful == Spec => []CopiesAreFaithful
<1>1. Init => Hops
  <2>1. \A S : <<>> \in Seq(S)
    BY EmptySeq
  <2>. QED
    BY <2>1 DEF Init, Hops
<1>2. IInv => Types
  BY DEF IInv
<1>3. ASSUME Types, Hops PROVE CopiesAreFaithful
  <2>. SUFFICES ASSUME NEW n \in Nodes, NEW p \in Range(rx[n])
                PROVE  p \in Faithful(n) /\ p \in Waiting
    BY DEF CopiesAreFaithful, Faithful, Senders, Waiting, WaitingOf
  <2>1. rx[n] \in Seq(Waiting) /\ rx[n] \in Seq(Faithful(n))
    BY <1>3 DEF Types, Hops
  <2>. QED
    BY <2>1, ElementOfSeq, LenProperties DEF Range
<1>. QED
  BY <1>1, <1>2, <1>3, Invariance, HopsStep, PTL DEF Spec
=============================================================================
