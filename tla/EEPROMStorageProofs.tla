-------------------------- MODULE EEPROMStorageProofs --------------------------
(* Theorems about the byte storage, for any size, any keys and any values:   *)
(* the log of entries stays sound and implements a map with explicit save.   *)
EXTENDS EEPROMStorage, FiniteSetTheorems, SequenceTheorems, TLAPS

-----------------------------------------------------------------------------
(* Loops.                                                                    *)

(* Induction, from the pigeonhole principle: otherwise k |-> k + 1 would map *)
(* a finite set into a proper part of it.                                    *)
LEMMA Induction ==
  ASSUME NEW T, 0 \in T, \A k \in Nat : k \in T => k + 1 \in T
  PROVE  Nat \subseteq T
<1>. SUFFICES ASSUME NEW n \in Nat, n \notin T PROVE FALSE
  OBVIOUS
<1>. DEFINE U == {k \in 0 .. n : \A j \in 0 .. k : j \in T}
            f == [k \in U |-> k + 1]
<1>1. 0 \in U /\ \A k \in U : k + 1 \in U
  <2>1. 0 \in U
    OBVIOUS
  <2>2. ASSUME NEW k \in U PROVE k + 1 \in U
    <3>1. k + 1 \in T /\ k # n
      OBVIOUS
    <3>. QED
      BY <3>1
  <2>. QED
    BY <2>1, <2>2
<1>2. IsFiniteSet(U) /\ U \subseteq Nat
  <2>1. U \in SUBSET Nat /\ \A k \in U : k <= n
    OBVIOUS
  <2>. QED
    BY <2>1, FS_BoundedSetOfNaturals
<1>. HIDE DEF U
<1>3. IsFiniteSet(U \ {0}) /\ Cardinality(U \ {0}) = Cardinality(U) - 1 /\ Cardinality(U) \in Nat
  BY <1>1, <1>2, FS_RemoveElement, FS_CardinalityType
<1>4. f \in [U -> U \ {0}] /\ Cardinality(U \ {0}) < Cardinality(U)
  BY <1>1, <1>2, <1>3
<1>. HIDE DEF f
<1>5. PICK x, y \in U : x # y /\ f[x] = f[y]
  BY <1>2, <1>3, <1>4, FS_PigeonHole
<1>. QED
  BY <1>2, <1>5 DEF f

(* A loop over 1 .. n has a result after every turn.                         *)
Iterates(f, F, x, n) == f[0] = x /\ \A k \in 1 .. n : f[k] = F[k][f[k - 1]]

LEMMA Iteration ==
  ASSUME NEW S, NEW x \in S, NEW n \in Nat, NEW F \in [1 .. n -> [S -> S]]
  PROVE  \E f \in [0 .. n -> S] : Iterates(f, F, x, n)
<1>. USE DEF Iterates
<1>. DEFINE T == {k \in Nat : k <= n => \E f \in [0 .. k -> S] : Iterates(f, F, x, k)}
<1>1. 0 \in T
  <2>. DEFINE f == [j \in 0 .. 0 |-> x]
  <2>1. f \in [0 .. 0 -> S] /\ Iterates(f, F, x, 0)
    OBVIOUS
  <2>. QED
    BY <2>1
<1>2. ASSUME NEW k \in Nat, k \in T, k + 1 <= n
      PROVE  \E g \in [0 .. k + 1 -> S] : Iterates(g, F, x, k + 1)
  <2>1. PICK f \in [0 .. k -> S] : Iterates(f, F, x, k)
    BY <1>2
  <2>. DEFINE g == [j \in 0 .. k + 1 |-> IF j = k + 1 THEN F[k + 1][f[k]] ELSE f[j]]
  <2>2. k + 1 \in 1 .. n /\ f[k] \in S
    BY <1>2
  <2>3. F[k + 1][f[k]] \in S
    BY <2>2
  <2>4. g \in [0 .. k + 1 -> S]
    BY <2>3
  <2>5. g[0] = x
    BY <2>1
  <2>6. ASSUME NEW j \in 1 .. k + 1 PROVE g[j] = F[j][g[j - 1]]
    <3>1. CASE j = k + 1
      BY <3>1
    <3>2. CASE j # k + 1
      <4>1. j \in 1 .. k /\ j \in 0 .. k + 1 /\ j - 1 \in 0 .. k + 1 /\ j - 1 # k + 1
        BY <3>2
      <4>. QED
        BY <2>1, <3>2, <4>1
    <3>. QED
      BY <3>1, <3>2
  <2>7. Iterates(g, F, x, k + 1)
    BY <2>5, <2>6
  <2>. HIDE DEF g, Iterates
  <2>. QED
    BY <2>4, <2>7
<1>3. \A k \in Nat : k \in T => k + 1 \in T
  BY <1>2
<1>. HIDE DEF T
<1>4. n \in T
  BY <1>1, <1>3, Induction
<1>. QED
  BY <1>4 DEF T

-----------------------------------------------------------------------------
(* Cells.                                                                    *)

LEMMA CellType ==
  ASSUME NEW m \in Memory, NEW a
  PROVE  CellAt(m, a) \in Nat
BY DEF Memory, CellAt

(* r is m with the cells s from a on.                                        *)
Overwritten(r, m, a, s) ==
  /\ r \in Memory /\ r.valid = m.valid /\ r.numEntries = m.numEntries
  /\ \A x \in Int :
       CellAt(r, x) = IF x \in a .. a + Len(s) - 1 /\ x \in Cells
                        THEN s[x - a + 1] ELSE CellAt(m, x)

(* PutCells writes what is inside the memory.                                *)
LEMMA Putting ==
  ASSUME NEW m \in Memory, NEW a \in Nat, NEW s \in Seq(Nat)
  PROVE  Overwritten(PutCells(m, a, s), m, a, s)
<1>. DEFINE c == [x \in Cells |-> IF x \in a .. a + Len(s) - 1 THEN s[x - a + 1] ELSE m.cells[x]]
            r == PutCells(m, a, s)
<1>1. Len(s) \in Nat /\ \A i \in 1 .. Len(s) : s[i] \in Nat
  BY LenProperties, ElementOfSeq
<1>2. Cells \subseteq Int
  BY StorageAssumption DEF Cells
<1>3. ASSUME NEW x \in Cells, x \in a .. a + Len(s) - 1 PROVE s[x - a + 1] \in Nat
  <2>1. x - a + 1 \in 1 .. Len(s)
    BY <1>1, <1>2, <1>3
  <2>. QED
    BY <1>1, <2>1
<1>4. c \in [Cells -> Nat]
  BY <1>3 DEF Memory
<1>. HIDE DEF c
<1>5. r = [m EXCEPT !.cells = c]
  BY DEF PutCells, c
<1>6. r \in Memory /\ r.valid = m.valid /\ r.numEntries = m.numEntries /\ r.cells = c
  BY <1>4, <1>5 DEF Memory
<1>. HIDE DEF r
<1>7. ASSUME NEW x \in Int
      PROVE  CellAt(r, x) = IF x \in a .. a + Len(s) - 1 /\ x \in Cells
                              THEN s[x - a + 1] ELSE CellAt(m, x)
  BY <1>6 DEF CellAt, c
<1>. QED
  BY <1>6, <1>7 DEF Overwritten, r

-----------------------------------------------------------------------------
(* Addresses.                                                                *)

SizeAt(m, a) == HeaderSize + CellAt(m, a) + CellAt(m, a + 1)

LEMMA SizeType ==
  ASSUME NEW m \in Memory, NEW a
  PROVE  SizeAt(m, a) \in Nat /\ SizeAt(m, a) >= 3 /\ EntrySize(EntryHeader(m, a)) = SizeAt(m, a)
BY CellType DEF SizeAt, HeaderSize, EntrySize, EntryHeader

(* Entries follow one another.                                               *)
LEMMA AddressesFollow ==
  ASSUME NEW m \in Memory
  PROVE  /\ m.numEntries \in Nat /\ Addresses(m) \in [1 .. m.numEntries + 1 -> Nat]
         /\ Addresses(m)[1] = 0
         /\ \A i \in 1 .. m.numEntries :
              Addresses(m)[i + 1] = Addresses(m)[i] + SizeAt(m, Addresses(m)[i])
<1>. DEFINE n == m.numEntries
            N == [a \in Nat |-> a + SizeAt(m, a)]
            F == [k \in 1 .. n |-> N]
            IsAt(g) == g = [i \in 1 .. n + 1 |->
                              IF i = 1 THEN 0
                              ELSE LET a == g[i - 1] IN a + EntrySize(EntryHeader(m, a))]
<1>1. n \in Nat /\ N \in [Nat -> Nat]
  BY SizeType DEF Memory
<1>. HIDE DEF n, N
<1>2. F \in [1 .. n -> [Nat -> Nat]]
  BY <1>1
<1>. HIDE DEF F
<1>3. PICK f \in [0 .. n -> Nat] : Iterates(f, F, 0, n)
  BY <1>1, <1>2, Iteration
<1>. DEFINE g == [i \in 1 .. n + 1 |-> f[i - 1]]
<1>4. g \in [1 .. n + 1 -> Nat]
  BY <1>1
<1>5. ASSUME NEW i \in 1 .. n + 1
      PROVE  g[i] = IF i = 1 THEN 0 ELSE g[i - 1] + EntrySize(EntryHeader(m, g[i - 1]))
  <2>1. CASE i = 1
    BY <1>3, <2>1 DEF Iterates
  <2>2. CASE i # 1
    <3>0. i - 1 \in 1 .. n /\ i - 1 \in 1 .. n + 1
      BY <1>1, <2>2
    <3>1. i - 1 \in 1 .. n /\ g[i - 1] \in Nat
      <4>. HIDE DEF g
      <4>. QED
        BY <1>4, <3>0
    <3>2. g[i] = F[i - 1][f[i - 1 - 1]] /\ g[i - 1] = f[i - 1 - 1]
      BY <1>3, <3>0 DEF Iterates
    <3>3. F[i - 1] = N
      BY <3>1 DEF F
    <3>4. g[i] = N[g[i - 1]]
      BY <3>2, <3>3
    <3>. HIDE DEF g
    <3>5. g[i] = g[i - 1] + SizeAt(m, g[i - 1])
      BY <3>1, <3>4 DEF N
    <3>. QED
      BY <2>2, <3>5, SizeType
  <2>. QED
    BY <2>1, <2>2
<1>. HIDE DEF g
<1>6. IsAt(g)
  BY <1>4, <1>5
<1>7. Addresses(m) = CHOOSE h : IsAt(h)
  BY DEF Addresses, n
<1>. HIDE DEF IsAt
<1>8. IsAt(Addresses(m))
  BY <1>6, <1>7
<1>. DEFINE A == Addresses(m)
<1>. HIDE DEF A
<1>9. A = [j \in 1 .. n + 1 |->
            IF j = 1 THEN 0 ELSE A[j - 1] + EntrySize(EntryHeader(m, A[j - 1]))]
  BY <1>8 DEF IsAt, A
<1>13. ASSUME NEW j \in 1 .. n + 1, j # 1
       PROVE  A[j] = A[j - 1] + EntrySize(EntryHeader(m, A[j - 1]))
  BY <1>9, <1>13
<1>10. A[1] = 0
  BY <1>1, <1>9
<1>11. ASSUME NEW i \in 1 .. n PROVE A[i + 1] = A[i] + SizeAt(m, A[i])
  <2>1. i + 1 \in 1 .. n + 1 /\ i + 1 # 1 /\ i + 1 - 1 = i
    BY <1>1
  <2>2. A[i + 1] = A[i + 1 - 1] + EntrySize(EntryHeader(m, A[i + 1 - 1]))
    BY <1>13, <2>1
  <2>. QED
    BY <2>1, <2>2, SizeType
<1>12. A \in [1 .. n + 1 -> Nat]
  <2>. DEFINE T == {k \in Nat : k <= n => A[k + 1] \in Nat}
  <2>1. 0 \in T
    BY <1>10
  <2>2. ASSUME NEW k \in Nat, k \in T, k + 1 <= n PROVE A[k + 1 + 1] \in Nat
    <3>1. k + 1 \in 1 .. n /\ A[k + 1] \in Nat
      BY <1>1, <2>2
    <3>2. A[k + 1 + 1] = A[k + 1] + SizeAt(m, A[k + 1]) /\ SizeAt(m, A[k + 1]) \in Nat
      BY <1>11, <3>1, SizeType
    <3>. QED
      BY <3>1, <3>2
  <2>3. \A k \in Nat : k \in T => k + 1 \in T
    BY <2>2
  <2>. HIDE DEF T
  <2>4. \A k \in Nat : k \in T
    BY <2>1, <2>3, Induction
  <2>5. ASSUME NEW i \in 1 .. n + 1 PROVE A[i] \in Nat
    <3>1. i - 1 \in Nat /\ i - 1 <= n /\ i - 1 + 1 = i
      BY <1>1
    <3>. QED
      BY <2>4, <3>1 DEF T
  <2>. QED
    BY <1>9, <2>5
<1>. QED
  BY <1>1, <1>10, <1>11, <1>12 DEF A, n

(* An entry ends before the next ones begin.                                 *)
LEMMA AddressesGrow ==
  ASSUME NEW m \in Memory, NEW i \in 1 .. m.numEntries, NEW j \in 1 .. m.numEntries + 1, i < j
  PROVE  Addresses(m)[i] + SizeAt(m, Addresses(m)[i]) <= Addresses(m)[j]
<1>. DEFINE A == Addresses(m)
            n == m.numEntries
            T == {d \in Nat : i + 1 + d <= n + 1 => A[i + 1] <= A[i + 1 + d]}
<1>1. /\ n \in Nat /\ A \in [1 .. n + 1 -> Nat]
      /\ \A k \in 1 .. n : A[k + 1] = A[k] + SizeAt(m, A[k]) /\ SizeAt(m, A[k]) \in Nat
  BY AddressesFollow, SizeType
<1>. HIDE DEF A, n
<1>2. i \in 1 .. n /\ j \in 1 .. n + 1
  BY DEF n
<1>3. 0 \in T
  BY <1>1, <1>2
<1>4. ASSUME NEW d \in Nat, d \in T PROVE d + 1 \in T
  <2>. SUFFICES ASSUME i + 1 + (d + 1) <= n + 1 PROVE A[i + 1] <= A[i + 1 + (d + 1)]
    OBVIOUS
  <2>1. i + 1 + d \in 1 .. n /\ i + 1 \in 1 .. n + 1 /\ i + 1 + d \in 1 .. n + 1
    BY <1>1, <1>2
  <2>2. A[i + 1 + d + 1] = A[i + 1 + d] + SizeAt(m, A[i + 1 + d]) /\ SizeAt(m, A[i + 1 + d]) \in Nat
    BY <1>1, <2>1
  <2>3. A[i + 1] \in Nat /\ A[i + 1 + d] \in Nat /\ A[i + 1] <= A[i + 1 + d]
    BY <1>1, <1>4, <2>1
  <2>4. i + 1 + d + 1 = i + 1 + (d + 1)
    BY <1>2
  <2>. QED
    BY <2>2, <2>3, <2>4
<1>. HIDE DEF T
<1>5. j - i - 1 \in T
  <2>1. \A d \in Nat : d \in T
    BY <1>3, <1>4, Induction
  <2>2. j - i - 1 \in Nat
    BY <1>1, <1>2
  <2>. QED
    BY <2>1, <2>2
<1>6. i + 1 + (j - i - 1) = j /\ A[i + 1] = A[i] + SizeAt(m, A[i])
  BY <1>1, <1>2
<1>. QED
  BY <1>1, <1>2, <1>5, <1>6 DEF T, A

(* Where the sizes of n entries agree, so do their addresses.                *)
LEMMA SameAddresses ==
  ASSUME NEW m \in Memory, NEW r \in Memory,
         NEW n \in Nat, n <= m.numEntries, n <= r.numEntries,
         \A i \in 1 .. n : SizeAt(r, Addresses(m)[i]) = SizeAt(m, Addresses(m)[i])
  PROVE  \A i \in 1 .. n + 1 : Addresses(r)[i] = Addresses(m)[i]
<1>. DEFINE A == Addresses(m)
            B == Addresses(r)
            T == {k \in Nat : k <= n => B[k + 1] = A[k + 1]}
<1>1. /\ A[1] = 0 /\ B[1] = 0
      /\ \A i \in 1 .. n : A[i + 1] = A[i] + SizeAt(m, A[i]) /\ B[i + 1] = B[i] + SizeAt(r, B[i])
  BY AddressesFollow
<1>2. \A i \in 1 .. n : SizeAt(r, A[i]) = SizeAt(m, A[i])
  OBVIOUS
<1>. HIDE DEF A, B
<1>3. 0 \in T
  BY <1>1
<1>4. ASSUME NEW k \in Nat, k \in T, k + 1 <= n PROVE B[k + 1 + 1] = A[k + 1 + 1]
  <2>1. k + 1 \in 1 .. n /\ B[k + 1] = A[k + 1]
    BY <1>4
  <2>. QED
    BY <1>1, <1>2, <2>1
<1>5. \A k \in Nat : k \in T => k + 1 \in T
  BY <1>4
<1>. HIDE DEF T
<1>6. \A k \in Nat : k \in T
  BY <1>3, <1>5, Induction
<1>7. ASSUME NEW i \in 1 .. n + 1 PROVE B[i] = A[i]
  <2>1. i - 1 \in Nat /\ i - 1 <= n /\ i - 1 + 1 = i
    OBVIOUS
  <2>. QED
    BY <1>6, <2>1 DEF T
<1>. QED
  BY <1>7 DEF A, B

-----------------------------------------------------------------------------
(* Entries.                                                                  *)

(* The entry at a is that of key k and value v; it is valid when f is 1.     *)
Holds(m, a, f, k, v) ==
  /\ CellAt(m, a) = 1 /\ CellAt(m, a + 1) = Len(v) /\ CellAt(m, a + 2) = f /\ CellAt(m, a + 3) = k
  /\ \A j \in 1 .. Len(v) : CellAt(m, a + 3 + j) = v[j]

Data(k) == Values[k] \ {<<>>}

EntryOK(m, a) == \E f \in {0, 1}, k \in Keys : \E v \in Data(k) : Holds(m, a, f, k, v)

LEMMA DataType ==
  ASSUME NEW k \in Keys, NEW v \in Data(k)
  PROVE  /\ v \in Seq(Nat) /\ Len(v) \in Nat /\ Len(v) > 0 /\ k \in Nat /\ v # Absent
         /\ v \in Values[k]
<1>1. v \in Seq(Nat) /\ v # <<>> /\ k \in Nat /\ v # Absent /\ v \in Values[k]
  BY StorageAssumption DEF Data
<1>. QED
  BY <1>1, LenProperties, EmptySeq

(* What write() lays down.                                                   *)
LEMMA EntryIs ==
  ASSUME NEW k \in Keys, NEW v \in Data(k)
  PROVE  /\ Entry(k, v) \in Seq(Nat) /\ Len(Entry(k, v)) = 4 + Len(v)
         /\ Entry(k, v)[1] = 1 /\ Entry(k, v)[2] = Len(v) /\ Entry(k, v)[3] = 1 /\ Entry(k, v)[4] = k
         /\ \A j \in 1 .. Len(v) : Entry(k, v)[4 + j] = v[j]
<1>. DEFINE h == <<1, Len(v), 1, k>>
<1>1. v \in Seq(Nat) /\ Len(v) \in Nat /\ k \in Nat
  BY DataType
<1>2. h \in Seq(Nat) /\ Len(h) = 4 /\ h[1] = 1 /\ h[2] = Len(v) /\ h[3] = 1 /\ h[4] = k
  BY <1>1
<1>3. Entry(k, v) = h \o v
  BY DEF Entry
<1>. HIDE DEF h
<1>4. /\ h \o v \in Seq(Nat) /\ Len(h \o v) = Len(h) + Len(v)
      /\ \A i \in 1 .. Len(h) + Len(v) : (h \o v)[i] = IF i <= Len(h) THEN h[i] ELSE v[i - Len(h)]
  BY <1>1, <1>2, ConcatProperties
<1>5. \A i \in 1 .. 4 : (h \o v)[i] = h[i]
  BY <1>1, <1>2, <1>4
<1>6. ASSUME NEW j \in 1 .. Len(v) PROVE (h \o v)[4 + j] = v[j]
  <2>1. 4 + j \in 1 .. Len(h) + Len(v) /\ ~(4 + j <= Len(h)) /\ 4 + j - Len(h) = j
    BY <1>1, <1>2
  <2>. QED
    BY <1>4, <2>1
<1>. QED
  BY <1>2, <1>3, <1>4, <1>5, <1>6

(* It is read back.                                                          *)
LEMMA HoldsIs ==
  ASSUME NEW m \in Memory, NEW a \in Nat, NEW f \in {0, 1}, NEW k \in Keys, NEW v \in Data(k),
         Holds(m, a, f, k, v)
  PROVE  /\ SizeAt(m, a) = 4 + Len(v)
         /\ IsValid(EntryHeader(m, a)) <=> f = 1
         /\ \A x \in Keys : Matches(m, a, x) <=> f = 1 /\ x = k
         /\ DataAt(m, a) = v
<1>1. v \in Seq(Nat) /\ Len(v) \in Nat /\ v = [j \in 1 .. Len(v) |-> v[j]]
  BY DataType, LenProperties
<1>2. SizeAt(m, a) = 4 + Len(v)
  BY <1>1 DEF Holds, SizeAt, HeaderSize
<1>3. IsValid(EntryHeader(m, a)) <=> f = 1
  BY DEF Holds, IsValid, EntryHeader
<1>4. \A x \in Keys : Matches(m, a, x) <=> f = 1 /\ x = k
  BY <1>3 DEF Matches, Holds, EntryHeader, HeaderSize
<1>5. DataAt(m, a) = [j \in 1 .. Len(v) |-> v[j]]
  BY DEF DataAt, EntryHeader, HeaderSize, Holds
<1>. QED
  BY <1>1, <1>2, <1>3, <1>4, <1>5

(* One place holds one entry.                                                *)
LEMMA HoldsOne ==
  ASSUME NEW m \in Memory, NEW a \in Nat,
         NEW f \in {0, 1}, NEW k \in Keys, NEW v \in Data(k), Holds(m, a, f, k, v),
         NEW g \in {0, 1}, NEW l \in Keys, NEW w \in Data(l), Holds(m, a, g, l, w)
  PROVE  g = f /\ l = k /\ w = v
<1>1. DataAt(m, a) = v /\ DataAt(m, a) = w
  BY HoldsIs
<1>. QED
  BY <1>1 DEF Holds

(* It depends on its own cells only.                                         *)
LEMMA HoldsFrame ==
  ASSUME NEW m, NEW r, NEW a \in Nat, NEW f, NEW k \in Keys, NEW v \in Data(k),
         Holds(m, a, f, k, v),
         \A x \in a .. a + 3 + Len(v) : CellAt(r, x) = CellAt(m, x)
  PROVE  Holds(r, a, f, k, v)
<1>1. Len(v) \in Nat
  BY DataType
<1>2. /\ a \in a .. a + 3 + Len(v) /\ a + 1 \in a .. a + 3 + Len(v)
      /\ a + 2 \in a .. a + 3 + Len(v) /\ a + 3 \in a .. a + 3 + Len(v)
      /\ \A j \in 1 .. Len(v) : a + 3 + j \in a .. a + 3 + Len(v)
  BY <1>1
<1>. QED
  BY <1>2 DEF Holds

-----------------------------------------------------------------------------
(* The log.                                                                  *)

(* Its entries are those of keys and values, within the memory, and at most  *)
(* one of them is valid for each key.                                        *)
Sound(m) ==
  /\ UsedSpace(m) <= Size
  /\ \A i \in 1 .. m.numEntries : EntryOK(m, Addresses(m)[i])
  /\ \A k \in Keys : \A v, w \in Data(k) : \A i, j \in 1 .. m.numEntries :
       Holds(m, Addresses(m)[i], 1, k, v) /\ Holds(m, Addresses(m)[j], 1, k, w) => i = j

(* A valid entry of key k holds v.                                           *)
Has(m, k, v) == \E i \in 1 .. m.numEntries : Holds(m, Addresses(m)[i], 1, k, v)

LEMMA AddressType ==
  ASSUME NEW m \in Memory
  PROVE  /\ m.numEntries \in Nat /\ UsedSpace(m) \in Nat
         /\ UsedSpace(m) = Addresses(m)[m.numEntries + 1]
         /\ \A i \in 1 .. m.numEntries + 1 : Addresses(m)[i] \in Nat
BY AddressesFollow DEF UsedSpace

(* The scans find it.                                                        *)
LEMMA Present ==
  ASSUME NEW m \in Memory, Sound(m), NEW k \in Keys, NEW v \in Data(k),
         NEW i \in 1 .. m.numEntries, Holds(m, Addresses(m)[i], 1, k, v)
  PROVE  /\ Found(m, k) = {Addresses(m)[i]} /\ Exists(m, k)
         /\ First(m, k) = Addresses(m)[i] /\ Read(m, k) = v
<1>. DEFINE A == Addresses(m)
            n == m.numEntries
<1>1. \A j \in 1 .. n : A[j] \in Nat
  BY AddressType
<1>2. Matches(m, A[i], k) /\ DataAt(m, A[i]) = v
  BY <1>1, HoldsIs
<1>3. ASSUME NEW j \in 1 .. n, Matches(m, A[j], k) PROVE A[j] = A[i]
  <2>1. PICK f \in {0, 1}, l \in Keys : \E w \in Data(l) : Holds(m, A[j], f, l, w)
    BY DEF Sound, EntryOK
  <2>2. PICK w \in Data(l) : Holds(m, A[j], f, l, w)
    BY <2>1
  <2>3. f = 1 /\ l = k
    BY <1>1, <1>3, <2>2, HoldsIs
  <2>. QED
    BY <2>2, <2>3 DEF Sound
<1>4. Found(m, k) = {A[i]}
  BY <1>2, <1>3 DEF Found
<1>5. First(m, k) = A[i]
  BY <1>1, <1>4 DEF First
<1>. QED
  BY <1>2, <1>4, <1>5 DEF Exists, Read

LEMMA Missing ==
  ASSUME NEW m \in Memory, Sound(m), NEW k \in Keys, \A v \in Data(k) : ~Has(m, k, v)
  PROVE  Found(m, k) = {} /\ ~Exists(m, k) /\ Read(m, k) = Absent
<1>. DEFINE A == Addresses(m)
            n == m.numEntries
<1>1. \A j \in 1 .. n : A[j] \in Nat
  BY AddressType
<1>2. ASSUME NEW j \in 1 .. n, Matches(m, A[j], k) PROVE FALSE
  <2>1. PICK f \in {0, 1}, l \in Keys : \E w \in Data(l) : Holds(m, A[j], f, l, w)
    BY DEF Sound, EntryOK
  <2>2. PICK w \in Data(l) : Holds(m, A[j], f, l, w)
    BY <2>1
  <2>3. f = 1 /\ l = k
    BY <1>1, <1>2, <2>2, HoldsIs
  <2>. QED
    BY <2>2, <2>3 DEF Has
<1>3. Found(m, k) = {}
  BY <1>2 DEF Found
<1>. QED
  BY <1>3 DEF Exists, Read

(* What is read is what the valid entry holds.                               *)
LEMMA ReadIs ==
  ASSUME NEW m \in Memory, Sound(m), NEW k \in Keys
  PROVE  /\ \A v \in Data(k) : Has(m, k, v) <=> Read(m, k) = v
         /\ Exists(m, k) <=> \E v \in Data(k) : Has(m, k, v)
         /\ (\A v \in Data(k) : ~Has(m, k, v)) => Read(m, k) = Absent
<1>1. \A v \in Data(k) : Has(m, k, v) => Exists(m, k) /\ Read(m, k) = v
  BY Present DEF Has
<1>2. (\A v \in Data(k) : ~Has(m, k, v)) => ~Exists(m, k) /\ Read(m, k) = Absent
  BY Missing
<1>3. \A v \in Data(k) : v # Absent
  BY DataType
<1>. QED
  BY <1>1, <1>2, <1>3

(* An entry depends on its own cells only.                                   *)
LEMMA SameEntry ==
  ASSUME NEW m \in Memory, NEW r \in Memory, NEW a \in Nat,
         \A x \in a .. a + SizeAt(m, a) - 1 : CellAt(r, x) = CellAt(m, x)
  PROVE  /\ SizeAt(r, a) = SizeAt(m, a)
         /\ \A f \in {0, 1}, k \in Keys : \A v \in Data(k) :
              Holds(r, a, f, k, v) <=> Holds(m, a, f, k, v)
         /\ EntryOK(r, a) <=> EntryOK(m, a)
<1>1. SizeAt(m, a) \in Nat /\ SizeAt(m, a) >= 3
  BY SizeType
<1>2. SizeAt(r, a) = SizeAt(m, a)
  <2>1. a \in a .. a + SizeAt(m, a) - 1 /\ a + 1 \in a .. a + SizeAt(m, a) - 1
    BY <1>1
  <2>2. CellAt(r, a) = CellAt(m, a) /\ CellAt(r, a + 1) = CellAt(m, a + 1)
    BY <2>1
  <2>. QED
    BY <2>2 DEF SizeAt
<1>3. ASSUME NEW f \in {0, 1}, NEW k \in Keys, NEW v \in Data(k)
      PROVE  Holds(r, a, f, k, v) <=> Holds(m, a, f, k, v)
  <2>0. Len(v) \in Nat
    BY DataType
  <2>1. ASSUME SizeAt(m, a) = 4 + Len(v)
        PROVE  \A x \in a .. a + 3 + Len(v) : CellAt(r, x) = CellAt(m, x)
    <3>1. a + SizeAt(m, a) - 1 = a + 3 + Len(v)
      BY <2>0, <2>1
    <3>. QED
      BY <3>1
  <2>2. ASSUME Holds(m, a, f, k, v) PROVE Holds(r, a, f, k, v)
    BY <2>1, <2>2, HoldsIs, HoldsFrame
  <2>3. ASSUME Holds(r, a, f, k, v) PROVE Holds(m, a, f, k, v)
    <3>1. SizeAt(m, a) = 4 + Len(v)
      BY <1>2, <2>3, HoldsIs
    <3>. QED
      BY <2>1, <2>3, <3>1, HoldsFrame
  <2>. QED
    BY <2>2, <2>3
<1>. QED
  BY <1>2, <1>3 DEF EntryOK

-----------------------------------------------------------------------------
(* What the calls do to the log.                                             *)

(* An entry with the data v fits behind the others.                          *)
HasRoom(m, v) == UsedSpace(m) + 4 + Len(v) <= Size

(* An entry put behind the others: those are kept, and so are the cells      *)
(* behind it.                                                                *)
LEMMA Appending ==
  ASSUME NEW m \in Memory, Sound(m), NEW k \in Keys, NEW v \in Data(k),
         \A w \in Data(k) : ~Has(m, k, w),
         HasRoom(m, v),
         NEW r, r = Appended(m, Entry(k, v))
  PROVE  /\ r \in Memory /\ r.valid = m.valid /\ Sound(r)
         /\ UsedSpace(r) = UsedSpace(m) + 4 + Len(v)
         /\ \A l \in Keys : \A w \in Data(l) :
              Has(r, l, w) <=> Has(m, l, w) \/ (l = k /\ w = v)
         /\ \A x \in Int : x >= UsedSpace(r) => CellAt(r, x) = CellAt(m, x)
<1>. DEFINE A == Addresses(m)
            B == Addresses(r)
            n == m.numEntries
            u == UsedSpace(m)
            L == 4 + Len(v)
<1>1. /\ n \in Nat /\ u \in Nat /\ u = A[n + 1] /\ u <= Size
      /\ \A i \in 1 .. n + 1 : A[i] \in Nat
  BY AddressType DEF Sound
<1>2. L \in Nat /\ L >= 4 /\ u + L <= Size /\ Size \in Nat
  BY <1>1, DataType, StorageAssumption DEF HasRoom
<1>17. u + L = u + 4 + Len(v)
  <2>1. Len(v) \in Nat /\ u \in Nat
    BY <1>1, DataType
  <2>. HIDE DEF u
  <2>. QED
    BY <2>1
<1>0. Entry(k, v) \in Seq(Nat) /\ Len(Entry(k, v)) = L
  BY EntryIs
<1>. DEFINE p == PutCells(m, u, Entry(k, v))
<1>4. r = [p EXCEPT !.numEntries = @ + 1]
  BY DEF Appended
<1>. HIDE DEF A, B, n, u, L
<1>3. /\ p \in Memory /\ p.valid = m.valid /\ p.numEntries = n
      /\ \A x \in Int : CellAt(p, x) = IF x \in u .. u + L - 1 /\ x \in Cells
                                         THEN Entry(k, v)[x - u + 1] ELSE CellAt(m, x)
  <2>1. /\ p \in Memory /\ p.valid = m.valid /\ p.numEntries = m.numEntries
        /\ \A x \in Int : CellAt(p, x) = IF x \in u .. u + Len(Entry(k, v)) - 1 /\ x \in Cells
                                           THEN Entry(k, v)[x - u + 1] ELSE CellAt(m, x)
    <3>1. Overwritten(p, m, u, Entry(k, v))
      BY <1>1, <1>0, Putting
    <3>. HIDE DEF p
    <3>. QED
      BY <3>1 DEF Overwritten
  <2>2. p.numEntries = m.numEntries => p.numEntries = n
    BY DEF n
  <2>. QED
    BY <1>0, <2>1, <2>2
<1>. HIDE DEF p
<1>5. r \in Memory /\ r.valid = m.valid /\ r.numEntries = n + 1 /\ r.cells = p.cells
  BY <1>1, <1>3, <1>4 DEF Memory
<1>6. \A x \in Int : CellAt(r, x) = IF x \in u .. u + L - 1
                                      THEN Entry(k, v)[x - u + 1] ELSE CellAt(m, x)
  <2>1. \A x \in Int : CellAt(r, x) = CellAt(p, x)
    BY <1>5 DEF CellAt
  <2>2. ASSUME NEW x \in Int PROVE x \in u .. u + L - 1 <=> x \in u .. u + L - 1 /\ x \in Cells
    BY <1>1, <1>2 DEF Cells
  <2>. QED
    BY <1>3, <2>1, <2>2
<1>7. Holds(r, u, 1, k, v)
  <2>1. /\ CellAt(r, u) = Entry(k, v)[1] /\ CellAt(r, u + 1) = Entry(k, v)[2]
        /\ CellAt(r, u + 2) = Entry(k, v)[3] /\ CellAt(r, u + 3) = Entry(k, v)[4]
    <3>1. ASSUME NEW d \in 0 .. 3 PROVE CellAt(r, u + d) = Entry(k, v)[d + 1]
      <4>1. u + d \in Int /\ u + d \in u .. u + L - 1 /\ u + d - u + 1 = d + 1
        BY <1>1, <1>2
      <4>2. CellAt(r, u + d) = Entry(k, v)[u + d - u + 1]
        BY <1>1, <1>2, <1>6, <4>1
      <4>. QED
        BY <4>1, <4>2
    <3>2. CellAt(r, u + 0) = Entry(k, v)[0 + 1] /\ u + 0 = u
      BY <1>1, <3>1
    <3>3. CellAt(r, u + 1) = Entry(k, v)[1 + 1] /\ CellAt(r, u + 2) = Entry(k, v)[2 + 1] /\ CellAt(r, u + 3) = Entry(k, v)[3 + 1]
      BY <3>1
    <3>. QED
      BY <3>2, <3>3
  <2>2. ASSUME NEW j \in 1 .. Len(v) PROVE CellAt(r, u + 3 + j) = Entry(k, v)[4 + j]
    <3>0. j \in 1 .. L - 4
      BY DataType DEF L
    <3>1. u + 3 + j \in Int /\ u + 3 + j \in u .. u + L - 1 /\ u + 3 + j - u + 1 = 4 + j
      BY <1>1, <1>2, <3>0
    <3>2. CellAt(r, u + 3 + j) = Entry(k, v)[u + 3 + j - u + 1]
      BY <1>1, <1>6, <3>1
    <3>. QED
      BY <3>1, <3>2
  <2>. QED
    BY <2>1, <2>2, EntryIs DEF Holds
<1>8. ASSUME NEW i \in 1 .. n
      PROVE  /\ SizeAt(r, A[i]) = SizeAt(m, A[i])
             /\ \A f \in {0, 1}, l \in Keys : \A w \in Data(l) :
                  Holds(r, A[i], f, l, w) <=> Holds(m, A[i], f, l, w)
             /\ EntryOK(r, A[i])
  <2>1. A[i] \in Nat /\ A[i] + SizeAt(m, A[i]) <= u /\ SizeAt(m, A[i]) \in Nat
    <3>1. n + 1 \in 1 .. n + 1 /\ i < n + 1 /\ i \in 1 .. n + 1
      BY <1>1
    <3>2. A[i] + SizeAt(m, A[i]) <= A[n + 1]
      BY <3>1, AddressesGrow DEF A, n
    <3>. QED
      BY <1>1, <3>1, <3>2, SizeType
  <2>2. ASSUME NEW x \in A[i] .. A[i] + SizeAt(m, A[i]) - 1 PROVE CellAt(r, x) = CellAt(m, x)
    <3>1. x \in Int /\ x \notin u .. u + L - 1
      BY <1>1, <1>2, <2>1
    <3>. QED
      BY <1>6, <3>1
  <2>3. EntryOK(m, A[i])
    BY DEF Sound, A, n
  <2>. QED
    BY <1>5, <2>1, <2>2, <2>3, SameEntry
<1>9. \A i \in 1 .. n + 1 : B[i] = A[i]
  <2>1. n <= m.numEntries /\ n <= r.numEntries /\ \A i \in 1 .. n : SizeAt(r, Addresses(m)[i]) = SizeAt(m, Addresses(m)[i])
    BY <1>1, <1>5, <1>8 DEF n, A
  <2>. QED
    BY <1>1, <1>5, <2>1, SameAddresses DEF A, B
<1>10. B[n + 1] = u /\ \A i \in 1 .. n : B[i] = A[i]
  <2>1. n + 1 \in 1 .. n + 1 /\ \A i \in 1 .. n : i \in 1 .. n + 1
    BY <1>1
  <2>. QED
    BY <1>1, <1>9, <2>1
<1>11. UsedSpace(r) = u + L
  <2>1. n + 1 \in 1 .. r.numEntries
    BY <1>1, <1>5
  <2>2. B[n + 1 + 1] = B[n + 1] + SizeAt(r, B[n + 1])
    BY <1>5, <2>1, AddressesFollow DEF B
  <2>3. SizeAt(r, u) = L
    BY <1>1, <1>5, <1>7, HoldsIs DEF L
  <2>4. UsedSpace(r) = B[n + 1 + 1]
    BY <1>5, AddressType DEF B
  <2>. QED
    BY <1>10, <2>2, <2>3, <2>4
<1>12. ASSUME NEW i \in 1 .. n + 1, NEW f \in {0, 1}, NEW l \in Keys, NEW w \in Data(l)
       PROVE  Holds(r, B[i], f, l, w) <=> IF i = n + 1 THEN f = 1 /\ l = k /\ w = v
                                                     ELSE Holds(m, A[i], f, l, w)
  <2>1. CASE i = n + 1
    BY <1>1, <1>5, <1>7, <1>10, <2>1, HoldsOne
  <2>2. CASE i # n + 1
    <3>1. i \in 1 .. n
      BY <1>1, <2>2
    <3>. QED
      BY <1>8, <1>10, <2>2, <3>1
  <2>. QED
    BY <2>1, <2>2
<1>13. \A l \in Keys : \A w \in Data(l) : Has(r, l, w) <=> Has(m, l, w) \/ (l = k /\ w = v)
  <2>. SUFFICES ASSUME NEW l \in Keys, NEW w \in Data(l)
                PROVE  Has(r, l, w) <=> Has(m, l, w) \/ (l = k /\ w = v)
    OBVIOUS
  <2>1. Has(r, l, w) <=> \E i \in 1 .. n + 1 : Holds(r, B[i], 1, l, w)
    BY <1>5 DEF Has, B
  <2>2. Has(m, l, w) <=> \E i \in 1 .. n : Holds(m, A[i], 1, l, w)
    BY DEF Has, A, n
  <2>3. /\ \A i \in 1 .. n : i \in 1 .. n + 1 /\ i # n + 1
        /\ \A i \in 1 .. n + 1 : i # n + 1 => i \in 1 .. n
        /\ n + 1 \in 1 .. n + 1
    BY <1>1
  <2>. QED
    BY <1>12, <2>1, <2>2, <2>3
<1>14. Sound(r)
  <2>1. UsedSpace(r) <= Size
    BY <1>1, <1>2, <1>11
  <2>2. ASSUME NEW i \in 1 .. n + 1 PROVE EntryOK(r, B[i])
    <3>1. CASE i = n + 1
      BY <1>7, <1>10, <3>1 DEF EntryOK
    <3>2. CASE i # n + 1
      <4>1. i \in 1 .. n
        BY <1>1, <3>2
      <4>. QED
        BY <1>8, <1>10, <4>1
    <3>. QED
      BY <3>1, <3>2
  <2>3. ASSUME NEW l \in Keys, NEW w \in Data(l), NEW x \in Data(l),
               NEW i \in 1 .. n + 1, NEW j \in 1 .. n + 1,
               Holds(r, B[i], 1, l, w), Holds(r, B[j], 1, l, x)
        PROVE  i = j
    <3>0. /\ IF i = n + 1 THEN l = k ELSE Holds(m, A[i], 1, l, w) /\ i \in 1 .. n
          /\ IF j = n + 1 THEN l = k ELSE Holds(m, A[j], 1, l, x) /\ j \in 1 .. n
      BY <1>1, <1>12, <2>3
    <3>1. i \in 1 .. n /\ Holds(m, A[i], 1, l, w) => l # k
      BY DEF Has, A, n
    <3>2. j \in 1 .. n /\ Holds(m, A[j], 1, l, x) => l # k
      BY DEF Has, A, n
    <3>3. i \in 1 .. n /\ j \in 1 .. n /\ Holds(m, A[i], 1, l, w) /\ Holds(m, A[j], 1, l, x) => i = j
      BY DEF Sound, A, n
    <3>. QED
      BY <3>0, <3>1, <3>2, <3>3
  <2>. QED
    BY <1>5, <2>1, <2>2, <2>3 DEF Sound, B
<1>15. ASSUME NEW x \in Int, x >= UsedSpace(r) PROVE CellAt(r, x) = CellAt(m, x)
  <2>1. x \notin u .. u + L - 1
    BY <1>1, <1>2, <1>11, <1>15
  <2>. QED
    BY <1>6, <2>1
<1>16. UsedSpace(r) = u + 4 + Len(v)
  BY <1>11, <1>17
<1>. QED
  BY <1>5, <1>13, <1>14, <1>15, <1>16 DEF u

(* An entry changed in its place, to one of the same size: the others stay   *)
(* where and what they are.                                                  *)
LEMMA Patching ==
  ASSUME NEW m \in Memory, Sound(m), NEW r \in Memory, r.numEntries = m.numEntries,
         NEW i \in 1 .. m.numEntries, NEW k \in Keys, NEW v \in Data(k), NEW f \in {0, 1},
         \E w \in Data(k) : Holds(m, Addresses(m)[i], 1, k, w),
         SizeAt(m, Addresses(m)[i]) = SizeAt(r, Addresses(m)[i]),
         Holds(r, Addresses(m)[i], f, k, v),
         \A x \in Int : x \notin Addresses(m)[i] .. Addresses(m)[i] + SizeAt(m, Addresses(m)[i]) - 1
                          => CellAt(r, x) = CellAt(m, x)
  PROVE  /\ Sound(r) /\ UsedSpace(r) = UsedSpace(m)
         /\ \A l \in Keys : \A w \in Data(l) :
              Has(r, l, w) <=> IF l = k THEN f = 1 /\ w = v ELSE Has(m, l, w)
<1>. DEFINE A == Addresses(m)
            B == Addresses(r)
            n == m.numEntries
            S == SizeAt(m, A[i])
<1>1. /\ n \in Nat /\ \A j \in 1 .. n + 1 : A[j] \in Nat
      /\ \A j \in 1 .. n : SizeAt(m, A[j]) \in Nat
      /\ i \in 1 .. n /\ \A j \in 1 .. n : j \in 1 .. n + 1
  BY AddressType, SizeType
<1>2. ASSUME NEW j \in 1 .. n, NEW h \in 1 .. n, j < h PROVE A[j] + SizeAt(m, A[j]) <= A[h]
  <2>1. j \in 1 .. m.numEntries /\ h \in 1 .. m.numEntries + 1 /\ j < h
    BY <1>1, <1>2
  <2>. QED
    BY <2>1, AddressesGrow
<1>3. \A x \in Int : x \notin A[i] .. A[i] + S - 1 => CellAt(r, x) = CellAt(m, x)
  OBVIOUS
<1>4. Holds(r, A[i], f, k, v) /\ SizeAt(r, A[i]) = S /\ r.numEntries = n
  OBVIOUS
<1>5. PICK o \in Data(k) : Holds(m, A[i], 1, k, o)
  OBVIOUS
<1>6. /\ UsedSpace(m) = A[n + 1] /\ UsedSpace(m) <= Size
      /\ \A j \in 1 .. n : EntryOK(m, A[j])
      /\ \A l \in Keys : \A w, y \in Data(l) : \A j, h \in 1 .. n :
           Holds(m, A[j], 1, l, w) /\ Holds(m, A[h], 1, l, y) => j = h
  BY AddressType DEF Sound
<1>. HIDE DEF A, B, n, S
<1>7. ASSUME NEW j \in 1 .. n, j # i
      PROVE  /\ SizeAt(r, A[j]) = SizeAt(m, A[j])
             /\ \A g \in {0, 1}, l \in Keys : \A w \in Data(l) :
                  Holds(r, A[j], g, l, w) <=> Holds(m, A[j], g, l, w)
             /\ EntryOK(r, A[j])
  <2>1. A[j] \in Nat /\ A[i] \in Nat /\ SizeAt(m, A[j]) \in Nat /\ S \in Nat
    BY <1>1 DEF S
  <2>2. A[j] + SizeAt(m, A[j]) <= A[i] \/ A[i] + S <= A[j]
    <3>1. j < i \/ i < j
      BY <1>1, <1>7
    <3>. QED
      BY <1>1, <1>2, <3>1 DEF S
  <2>3. ASSUME NEW x \in A[j] .. A[j] + SizeAt(m, A[j]) - 1 PROVE CellAt(r, x) = CellAt(m, x)
    <3>1. x \in Int /\ x \notin A[i] .. A[i] + S - 1
      BY <2>1, <2>2
    <3>. QED
      BY <1>3, <3>1
  <2>. QED
    BY <1>6, <2>1, <2>3, SameEntry
<1>8. \A j \in 1 .. n : SizeAt(r, A[j]) = SizeAt(m, A[j])
  BY <1>4, <1>7 DEF S
<1>9. \A j \in 1 .. n + 1 : B[j] = A[j]
  <2>1. /\ n <= m.numEntries /\ n <= r.numEntries
        /\ \A j \in 1 .. n : SizeAt(r, Addresses(m)[j]) = SizeAt(m, Addresses(m)[j])
    <3>1. n = m.numEntries /\ A = Addresses(m)
      BY DEF n, A
    <3>. QED
      BY <1>1, <1>4, <1>8, <3>1
  <2>. QED
    BY <1>1, <2>1, SameAddresses DEF A, B
<1>10. UsedSpace(r) = UsedSpace(m)
  <2>1. UsedSpace(r) = B[n + 1] /\ n + 1 \in 1 .. n + 1
    BY <1>1, <1>4, AddressType DEF B
  <2>. QED
    BY <1>6, <1>9, <2>1
<1>11. ASSUME NEW j \in 1 .. n, NEW g \in {0, 1}, NEW l \in Keys, NEW w \in Data(l)
       PROVE  Holds(r, B[j], g, l, w) <=> IF j = i THEN g = f /\ l = k /\ w = v
                                                  ELSE Holds(m, A[j], g, l, w)
  <2>1. B[j] = A[j] /\ A[j] \in Nat
    BY <1>1, <1>9
  <2>2. CASE j = i
    BY <1>4, <2>1, <2>2, HoldsOne
  <2>3. CASE j # i
    BY <1>7, <2>1, <2>3
  <2>. QED
    BY <2>2, <2>3
<1>12. ASSUME NEW l \in Keys, NEW w \in Data(l)
       PROVE  Has(r, l, w) <=> IF l = k THEN f = 1 /\ w = v ELSE Has(m, l, w)
  <2>1. Has(r, l, w) <=> \E j \in 1 .. n : Holds(r, B[j], 1, l, w)
    BY <1>4 DEF Has, B
  <2>2. Has(m, l, w) <=> \E j \in 1 .. n : Holds(m, A[j], 1, l, w)
    BY DEF Has, A, n
  <2>3. CASE l = k
    <3>1. \A j \in 1 .. n : Holds(m, A[j], 1, l, w) => j = i
      BY <1>1, <1>5, <1>6, <2>3
    <3>2. \A j \in 1 .. n : Holds(r, B[j], 1, l, w) <=> j = i /\ 1 = f /\ w = v
      BY <1>11, <2>3, <3>1
    <3>. QED
      BY <1>1, <2>1, <2>3, <3>2
  <2>4. CASE l # k
    <3>1. ~Holds(m, A[i], 1, l, w)
      BY <1>1, <1>5, <2>4, HoldsOne
    <3>2. \A j \in 1 .. n : Holds(r, B[j], 1, l, w) <=> Holds(m, A[j], 1, l, w)
      BY <1>11, <2>4, <3>1
    <3>. QED
      BY <2>1, <2>2, <2>4, <3>2
  <2>. QED
    BY <2>3, <2>4
<1>13. ASSUME NEW l \in Keys, NEW w \in Data(l), NEW x \in Data(l),
              NEW j \in 1 .. n, NEW h \in 1 .. n,
              Holds(r, B[j], 1, l, w), Holds(r, B[h], 1, l, x)
       PROVE  j = h
  <2>1. Holds(m, A[j], 1, l, w) \/ (j = i /\ l = k)
    BY <1>11, <1>13
  <2>2. Holds(m, A[h], 1, l, x) \/ (h = i /\ l = k)
    BY <1>11, <1>13
  <2>. QED
    BY <1>1, <1>5, <1>6, <2>1, <2>2
<1>14. \A j \in 1 .. n : EntryOK(r, B[j])
  <2>1. EntryOK(r, A[i])
    BY <1>4 DEF EntryOK
  <2>. QED
    BY <1>1, <1>7, <1>9, <2>1
<1>15. Sound(r)
  BY <1>4, <1>6, <1>10, <1>13, <1>14 DEF Sound, B
<1>. QED
  BY <1>10, <1>12, <1>15

(* defragment() works in the memory it reads: after i entries, those that    *)
(* were valid lie in front of the next one to be read, which is untouched.   *)
Compacting(m, c, i) ==
  /\ c \in Memory /\ c.valid = m.valid /\ Sound(c)
  /\ UsedSpace(c) <= Addresses(m)[i + 1]
  /\ \A x \in Int : x >= Addresses(m)[i + 1] => CellAt(c, x) = CellAt(m, x)
  /\ \A k \in Keys : \A v \in Data(k) :
       Has(c, k, v) <=> \E j \in 1 .. i : Holds(m, Addresses(m)[j], 1, k, v)

(* One turn of its loop.                                                     *)
LEMMA Moving ==
  ASSUME NEW m \in Memory, Sound(m), NEW i \in 1 .. m.numEntries,
         NEW c, Compacting(m, c, i - 1)
  PROVE  Compacting(m, Moved(c, Addresses(m)[i]), i)
<1>. DEFINE A == Addresses(m)
            n == m.numEntries
            a == A[i]
            r == Moved(c, a)
<1>1. /\ n \in Nat /\ i \in 1 .. n /\ \A j \in 1 .. n + 1 : A[j] \in Nat
      /\ i \in 1 .. n + 1 /\ i + 1 \in 1 .. n + 1 /\ n + 1 \in 1 .. n + 1
      /\ i - 1 + 1 = i /\ i - 1 \in Nat
  BY AddressType
<1>2. /\ c \in Memory /\ c.valid = m.valid /\ Sound(c) /\ UsedSpace(c) <= a
      /\ \A x \in Int : x >= a => CellAt(c, x) = CellAt(m, x)
      /\ \A l \in Keys : \A w \in Data(l) :
           Has(c, l, w) <=> \E j \in 1 .. i - 1 : Holds(m, A[j], 1, l, w)
  BY <1>1 DEF Compacting
<1>3. a \in Nat /\ SizeAt(m, a) \in Nat /\ A[i + 1] = a + SizeAt(m, a) /\ A[i + 1] \in Nat
  BY <1>1, AddressesFollow, SizeType
<1>4. A[i + 1] <= Size /\ Size \in Nat
  <2>1. UsedSpace(m) = A[n + 1] /\ UsedSpace(m) <= Size /\ A[n + 1] \in Nat /\ Size \in Nat
    BY <1>1, AddressType, StorageAssumption DEF Sound
  <2>2. A[i + 1] <= A[n + 1]
    <3>1. CASE i = n
      BY <1>1, <3>1
    <3>2. CASE i # n
      <4>1. n + 1 \in 1 .. m.numEntries + 1 /\ i < n + 1
        BY <1>1
      <4>2. a + SizeAt(m, a) <= A[n + 1]
        BY <4>1, AddressesGrow
      <4>. QED
        BY <1>3, <4>2
    <3>. QED
      BY <3>1, <3>2
  <2>. HIDE DEF A, n
  <2>. QED
    BY <1>3, <2>1, <2>2
<1>5. PICK f \in {0, 1}, k \in Keys : \E v \in Data(k) : Holds(m, a, f, k, v)
  BY DEF Sound, EntryOK
<1>6. PICK v \in Data(k) : Holds(m, a, f, k, v)
  BY <1>5
<1>7. \A j \in 1 .. i - 1, l \in Keys : \A w, y \in Data(l) :
        ~(Holds(m, A[j], 1, l, w) /\ Holds(m, a, 1, l, y))
  <2>1. ASSUME NEW j \in 1 .. i - 1, NEW l \in Keys, NEW w \in Data(l), NEW y \in Data(l),
               Holds(m, A[j], 1, l, w), Holds(m, a, 1, l, y)
        PROVE  FALSE
    <3>1. j \in 1 .. n /\ j # i
      BY <1>1
    <3>. QED
      BY <2>1, <3>1 DEF Sound
  <2>. QED
    BY <2>1
<1>. HIDE DEF A, n, a, r
<1>8. SizeAt(m, a) = 4 + Len(v) /\ Len(v) \in Nat /\ Len(v) > 0
  BY <1>3, <1>6, HoldsIs, DataType
<1>9. Holds(c, a, f, k, v)
  <2>1. ASSUME NEW x \in a .. a + SizeAt(m, a) - 1 PROVE CellAt(c, x) = CellAt(m, x)
    <3>1. x \in Int /\ x >= a
      BY <1>3
    <3>. QED
      BY <1>2, <3>1
  <2>. QED
    BY <1>2, <1>3, <1>6, <2>1, SameEntry
<1>10. \A l \in Keys : \A w \in Data(l) :
         (\E j \in 1 .. i : Holds(m, A[j], 1, l, w))
           <=> Has(c, l, w) \/ (f = 1 /\ l = k /\ w = v)
  <2>1. \A l \in Keys : \A w \in Data(l) : Holds(m, a, 1, l, w) <=> f = 1 /\ l = k /\ w = v
    BY <1>3, <1>6, HoldsOne
  <2>2. \A j \in 1 .. i : j \in 1 .. i - 1 \/ j = i
    BY <1>1
  <2>3. i \in 1 .. i /\ \A j \in 1 .. i - 1 : j \in 1 .. i
    BY <1>1
  <2>. QED
    BY <1>2, <2>1, <2>2, <2>3 DEF a
<1>11. UsedSpace(c) \in Nat
  BY <1>2, AddressType
<1>12. CASE f = 0
  <2>1. r = c
    BY <1>3, <1>2, <1>9, <1>12, HoldsIs DEF Moved, r
  <2>2. UsedSpace(c) <= A[i + 1] /\ \A x \in Int : x >= A[i + 1] => x >= a
    BY <1>2, <1>3, <1>11
  <2>3. \A l \in Keys : \A w \in Data(l) :
          Has(c, l, w) <=> \E j \in 1 .. i : Holds(m, A[j], 1, l, w)
    BY <1>10, <1>12
  <2>. QED
    BY <1>2, <2>1, <2>2, <2>3 DEF Compacting, A, a, r
<1>13. CASE f = 1
  <2>1. EntryCells(c, a) = Entry(k, v)
    <3>. DEFINE N == 4 + Len(v)
                e == Entry(k, v)
    <3>1. e \in Seq(Nat) /\ Len(e) = N /\ N \in Nat /\ e = [x \in 1 .. N |-> e[x]]
      BY <1>8, EntryIs, LenProperties
    <3>2. EntryCells(c, a) = [x \in 1 .. N |-> CellAt(c, a + x - 1)]
      BY <1>2, <1>3, <1>9, HoldsIs, SizeType DEF EntryCells
    <3>3. ASSUME NEW x \in 1 .. N PROVE CellAt(c, a + x - 1) = e[x]
      <4>1. CASE x \in 5 .. N
        <5>1. x - 4 \in 1 .. Len(v) /\ 4 + (x - 4) = x /\ a + 3 + (x - 4) = a + x - 1
          BY <1>3, <1>8, <4>1
        <5>2. CellAt(c, a + 3 + (x - 4)) = v[x - 4] /\ e[4 + (x - 4)] = v[x - 4]
          BY <1>9, <5>1, EntryIs DEF Holds
        <5>. QED
          BY <5>1, <5>2
      <4>2. CASE x \in {1, 2, 3, 4}
        <5>1. /\ CellAt(c, a) = e[1] /\ CellAt(c, a + 1) = e[2]
              /\ CellAt(c, a + 2) = e[3] /\ CellAt(c, a + 3) = e[4]
          BY <1>9, <1>13, EntryIs DEF Holds
        <5>2. a + 1 - 1 = a /\ a + 2 - 1 = a + 1 /\ a + 3 - 1 = a + 2 /\ a + 4 - 1 = a + 3
          BY <1>3
        <5>. HIDE DEF e
        <5>. QED
          BY <4>2, <5>1, <5>2
      <4>3. x \in 5 .. N \/ x \in {1, 2, 3, 4}
        BY <1>8
      <4>. QED
        BY <4>1, <4>2, <4>3
    <3>. HIDE DEF N, e
    <3>4. [x \in 1 .. N |-> CellAt(c, a + x - 1)] = [x \in 1 .. N |-> e[x]]
      BY <3>3
    <3>. QED
      BY <3>1, <3>2, <3>4 DEF e
  <2>2. r = Appended(c, Entry(k, v))
    BY <1>2, <1>3, <1>9, <1>13, <2>1, HoldsIs DEF Moved, r
  <2>3. \A w \in Data(k) : ~Has(c, k, w)
    BY <1>2, <1>6, <1>7, <1>13
  <2>4. HasRoom(c, v)
    <3>1. UsedSpace(c) + 4 + Len(v) <= A[i + 1]
      BY <1>2, <1>3, <1>8, <1>11
    <3>. QED
      BY <1>3, <1>4, <1>8, <1>11, <3>1 DEF HasRoom
  <2>5. /\ r \in Memory /\ r.valid = c.valid /\ Sound(r)
        /\ UsedSpace(r) = UsedSpace(c) + 4 + Len(v)
        /\ \A l \in Keys : \A w \in Data(l) :
             Has(r, l, w) <=> Has(c, l, w) \/ (l = k /\ w = v)
        /\ \A x \in Int : x >= UsedSpace(r) => CellAt(r, x) = CellAt(c, x)
    BY <1>2, <2>2, <2>3, <2>4, Appending
  <2>6. UsedSpace(r) <= A[i + 1] /\ UsedSpace(r) \in Nat
    BY <1>2, <1>3, <1>8, <1>11, <2>5
  <2>7. ASSUME NEW x \in Int, x >= A[i + 1] PROVE CellAt(r, x) = CellAt(m, x)
    <3>1. x >= UsedSpace(r) /\ x >= a
      BY <1>3, <2>6, <2>7
    <3>. QED
      BY <1>2, <2>5, <3>1
  <2>8. \A l \in Keys : \A w \in Data(l) :
          Has(r, l, w) <=> \E j \in 1 .. i : Holds(m, A[j], 1, l, w)
    BY <1>10, <1>13, <2>5
  <2>. QED
    BY <1>2, <2>5, <2>6, <2>7, <2>8 DEF Compacting, A, a, r
<1>. QED
  BY <1>12, <1>13

LEMMA MovedType ==
  ASSUME NEW c \in Memory, NEW a
  PROVE  Moved(c, a) \in Memory
<1>. DEFINE s == EntryCells(c, a)
            p == PutCells(c, UsedSpace(c), s)
<1>1. EntrySize(EntryHeader(c, a)) \in Nat /\ UsedSpace(c) \in Nat
  BY SizeType, AddressType
<1>2. s \in Seq(Nat)
  <2>. DEFINE N == EntrySize(EntryHeader(c, a))
  <2>1. \A j : CellAt(c, a + j - 1) \in Nat
    BY CellType
  <2>2. s = [j \in 1 .. N |-> CellAt(c, a + j - 1)] /\ N \in Nat
    BY <1>1 DEF EntryCells
  <2>. HIDE DEF N, s
  <2>3. s \in [1 .. N -> Nat]
    BY <2>1, <2>2
  <2>. QED
    BY <2>2, <2>3, SeqDef
<1>. HIDE DEF s
<1>3. p \in Memory
  BY <1>1, <1>2, Putting DEF Overwritten
<1>. HIDE DEF p
<1>4. [p EXCEPT !.numEntries = @ + 1] \in Memory
  BY <1>3 DEF Memory
<1>. QED
  BY <1>4 DEF Moved, Appended, p, s

(* A memory without entries.                                                 *)
LEMMA NoEntries ==
  ASSUME NEW m \in Memory, m.numEntries = 0
  PROVE  UsedSpace(m) = 0 /\ Sound(m) /\ \A k, v : ~Has(m, k, v)
<1>1. UsedSpace(m) = 0 /\ 1 .. m.numEntries = {}
  BY AddressType, AddressesFollow
<1>2. 0 <= Size
  BY StorageAssumption
<1>3. \A i \in 1 .. m.numEntries : FALSE
  BY <1>1
<1>. QED
  BY <1>1, <1>2, <1>3 DEF Sound, Has

(* The loop of defragment().                                                 *)
LEMMA CompactionLoop ==
  ASSUME NEW m \in Memory
  PROVE  \E h \in [0 .. m.numEntries -> Memory] :
           /\ Compacted(m) = h[m.numEntries]
           /\ h[0] = [m EXCEPT !.numEntries = 0]
           /\ \A i \in 1 .. m.numEntries : h[i] = Moved(h[i - 1], Addresses(m)[i])
<1>. DEFINE n == m.numEntries
            A == Addresses(m)
            z == [m EXCEPT !.numEntries = 0]
            G(i) == [c \in Memory |-> Moved(c, A[i])]
            F == [i \in 1 .. n |-> G(i)]
            IsAfter(g) == g = [i \in 0 .. n |-> IF i = 0 THEN z ELSE Moved(g[i - 1], A[i])]
            h == CHOOSE g : IsAfter(g)
<1>1. n \in Nat /\ z \in Memory /\ z.numEntries = 0 /\ z.valid = m.valid /\ z.cells = m.cells
  BY DEF Memory
<1>2. Compacted(m) = h[n]
  BY DEF Compacted
<1>. HIDE DEF n, z, h
<1>3. \A i : G(i) \in [Memory -> Memory]
  BY MovedType
<1>. HIDE DEF G
<1>4. F \in [1 .. n -> [Memory -> Memory]]
  BY <1>3
<1>. HIDE DEF F
<1>5. PICK f \in [0 .. n -> Memory] : Iterates(f, F, z, n)
  BY <1>1, <1>4, Iteration
<1>6. ASSUME NEW i \in 0 .. n PROVE f[i] = IF i = 0 THEN z ELSE Moved(f[i - 1], A[i])
  <2>1. CASE i = 0
    BY <1>5, <2>1 DEF Iterates
  <2>2. CASE i # 0
    <3>1. i \in 1 .. n /\ i - 1 \in 0 .. n
      BY <1>1, <2>2
    <3>2. f[i] = F[i][f[i - 1]] /\ f[i - 1] \in Memory
      BY <1>5, <3>1 DEF Iterates
    <3>3. F[i] = G(i)
      BY <3>1 DEF F
    <3>. QED
      BY <2>2, <3>2, <3>3 DEF G
  <2>. QED
    BY <2>1, <2>2
<1>. HIDE DEF A
<1>7. IsAfter(f)
  <2>1. f = [i \in 0 .. n |-> f[i]]
    BY <1>5
  <2>. QED
    BY <1>6, <2>1
<1>8. IsAfter(h)
  <2>. HIDE DEF IsAfter
  <2>. QED
    BY <1>7 DEF h
<1>9. /\ h[0] = z
      /\ \A i \in 1 .. n : h[i] = Moved(h[i - 1], A[i])
  BY <1>1, <1>8
<1>. HIDE DEF IsAfter
<1>10. h \in [0 .. n -> Memory]
  <2>. DEFINE T == {i \in Nat : i <= n => h[i] \in Memory}
  <2>1. 0 \in T
    BY <1>1, <1>9
  <2>2. ASSUME NEW i \in Nat, i \in T, i + 1 <= n PROVE h[i + 1] \in Memory
    <3>1. i + 1 \in 1 .. n /\ i + 1 - 1 = i /\ h[i] \in Memory
      BY <1>1, <2>2
    <3>2. h[i + 1] = Moved(h[i], A[i + 1])
      BY <1>9, <3>1
    <3>. QED
      BY <3>1, <3>2, MovedType
  <2>3. \A i \in Nat : i \in T => i + 1 \in T
    BY <2>2
  <2>. HIDE DEF T
  <2>4. \A i \in Nat : i \in T
    BY <2>1, <2>3, Induction
  <2>5. \A i \in 0 .. n : h[i] \in Memory
    BY <1>1, <2>4 DEF T
  <2>. QED
    BY <1>8, <2>5 DEF IsAfter
<1>. QED
  BY <1>2, <1>9, <1>10 DEF n, z, A

(* defragment() keeps exactly the valid entries.                             *)
LEMMA Compaction ==
  ASSUME NEW m \in Memory, Sound(m)
  PROVE  /\ Compacted(m) \in Memory /\ Compacted(m).valid = m.valid /\ Sound(Compacted(m))
         /\ \A k \in Keys : \A v \in Data(k) : Has(Compacted(m), k, v) <=> Has(m, k, v)
<1>. DEFINE n == m.numEntries
            A == Addresses(m)
            z == [m EXCEPT !.numEntries = 0]
<1>1. n \in Nat /\ z \in Memory /\ z.numEntries = 0 /\ z.valid = m.valid /\ z.cells = m.cells
  BY DEF Memory
<1>2. PICK h \in [0 .. n -> Memory] :
        /\ Compacted(m) = h[n] /\ h[0] = z
        /\ \A i \in 1 .. n : h[i] = Moved(h[i - 1], A[i])
  BY CompactionLoop
<1>. HIDE DEF n, z, A
<1>3. Compacting(m, z, 0)
  <2>1. Sound(z) /\ UsedSpace(z) = 0 /\ \A k, v : ~Has(z, k, v)
    BY <1>1, NoEntries
  <2>2. Addresses(m)[0 + 1] = 0 /\ 1 .. 0 = {}
    BY AddressesFollow
  <2>3. \A x \in Int : CellAt(z, x) = CellAt(m, x)
    BY <1>1 DEF CellAt
  <2>. QED
    BY <1>1, <2>1, <2>2, <2>3 DEF Compacting
<1>4. ASSUME NEW i \in Nat, i + 1 <= n, Compacting(m, h[i], i)
       PROVE  Compacting(m, h[i + 1], i + 1)
  <2>1. i + 1 \in 1 .. n /\ i + 1 - 1 = i
    BY <1>1, <1>4
  <2>2. h[i + 1] = Moved(h[i], A[i + 1])
    BY <1>2, <2>1
  <2>. QED
    BY <1>4, <2>1, <2>2, Moving DEF n, A
<1>5. Compacting(m, h[n], n)
  <2>. DEFINE T == {i \in Nat : i <= n => Compacting(m, h[i], i)}
  <2>1. 0 \in T
    BY <1>2, <1>3
  <2>2. ASSUME NEW i \in Nat, i \in T, i + 1 <= n PROVE Compacting(m, h[i + 1], i + 1)
    <3>1. i <= n
      BY <1>1, <2>2
    <3>. QED
      BY <1>4, <2>2, <3>1
  <2>3. \A i \in Nat : i \in T => i + 1 \in T
    BY <2>2
  <2>. HIDE DEF T
  <2>4. n \in T
    BY <1>1, <2>1, <2>3, Induction
  <2>. QED
    BY <1>1, <2>4 DEF T
<1>. QED
  BY <1>2, <1>5 DEF Compacting, Has, n

-----------------------------------------------------------------------------
(* write() and remove().                                                     *)

(* The space check: what is left never wraps around below zero.              *)
LEMMA Fitting ==
  ASSUME NEW m \in Memory, Sound(m), NEW k \in Keys, NEW v \in Values[k], Fits(m, v)
  PROVE  v \in Data(k) /\ HasRoom(m, v)
<1>1. v \in Data(k)
  BY DEF Fits, Data
<1>2. Len(v) \in Nat /\ UsedSpace(m) \in Nat /\ UsedSpace(m) <= Size
  BY <1>1, DataType, AddressType DEF Sound
<1>. DEFINE d == Size - UsedSpace(m)
<1>3. d \in 0 .. SIZE_MODULUS - 1 /\ SIZE_MODULUS \in Nat
  BY <1>2, StorageAssumption
<1>. HIDE DEF d
<1>4. d % SIZE_MODULUS = d
  BY <1>3
<1>5. d >= 4 + Len(v)
  BY <1>2, <1>3, <1>4 DEF Fits, Available, HeaderSize, d
<1>. QED
  BY <1>1, <1>2, <1>5, StorageAssumption DEF HasRoom, d

(* r is m with the value v under key k.                                      *)
Updated(r, m, k, v) ==
  /\ r \in Memory /\ r.valid = m.valid /\ Sound(r)
  /\ \A l \in Keys : \A w \in Data(l) :
       Has(r, l, w) <=> IF l = k THEN w = v ELSE Has(m, l, w)

(* With values of one size, write() sets its key and leaves the others.      *)
LEMMA Writing ==
  ASSUME SameSizes, NEW m \in Memory, Sound(m),
         NEW k \in Keys, NEW v \in Data(k), HasRoom(m, v), NEW r, r = Written(m, k, v)
  PROVE  Updated(r, m, k, v)
<1>1. CASE ~Exists(m, k)
  <2>1. \A w \in Data(k) : ~Has(m, k, w)
    BY <1>1, ReadIs
  <2>2. r = Appended(m, Entry(k, v))
    BY <1>1 DEF Written
  <2>3. /\ r \in Memory /\ r.valid = m.valid /\ Sound(r)
        /\ \A l \in Keys : \A w \in Data(l) :
             Has(r, l, w) <=> Has(m, l, w) \/ (l = k /\ w = v)
    BY <2>1, <2>2, Appending
  <2>. QED
    BY <2>1, <2>3 DEF Updated
<1>2. CASE Exists(m, k)
  <2>1. PICK w \in Data(k) : Has(m, k, w)
    BY <1>2, ReadIs
  <2>2. PICK i \in 1 .. m.numEntries : Holds(m, Addresses(m)[i], 1, k, w)
    BY <2>1 DEF Has
  <2>. DEFINE a == Addresses(m)[i]
              e == Entry(k, v)
              L == 4 + Len(v)
  <2>3. /\ First(m, k) = a /\ a \in Nat /\ L \in Nat /\ L >= 4 /\ Len(v) \in Nat
        /\ SizeAt(m, a) = L
    <3>1. Len(w) = Len(v)
      BY DEF SameSizes, Data
    <3>2. i \in 1 .. m.numEntries + 1
      BY AddressType
    <3>. QED
      BY <2>2, <3>1, <3>2, Present, AddressType, HoldsIs, DataType
  <2>4. e \in Seq(Nat) /\ Len(e) = L
    BY EntryIs
  <2>5. r = PutCells(m, a, e)
    BY <1>2, <2>3 DEF Written
  <2>. HIDE DEF a, e, L
  <2>6. /\ r \in Memory /\ r.valid = m.valid /\ r.numEntries = m.numEntries
        /\ \A x \in Int : CellAt(r, x) = IF x \in a .. a + L - 1 /\ x \in Cells
                                           THEN e[x - a + 1] ELSE CellAt(m, x)
    <3>1. /\ r \in Memory /\ r.valid = m.valid /\ r.numEntries = m.numEntries
          /\ \A x \in Int : CellAt(r, x) = IF x \in a .. a + Len(e) - 1 /\ x \in Cells
                                             THEN e[x - a + 1] ELSE CellAt(m, x)
      <4>1. Overwritten(r, m, a, e)
        BY <2>3, <2>4, <2>5, Putting
      <4>. QED
        BY <4>1 DEF Overwritten
    <3>. QED
      BY <2>4, <3>1
  <2>7. \A x \in Int : x \in a .. a + L - 1 => x \in Cells
    <3>1. a + L <= UsedSpace(m) /\ UsedSpace(m) <= Size /\ UsedSpace(m) \in Nat /\ Size \in Nat
      <4>1. m.numEntries + 1 \in 1 .. m.numEntries + 1 /\ i < m.numEntries + 1
        BY AddressType
      <4>. QED
        BY <2>3, <4>1, AddressesGrow, AddressType, StorageAssumption DEF Sound, a
    <3>. QED
      BY <2>3, <3>1 DEF Cells
  <2>8. ASSUME NEW d \in 0 .. L - 1 PROVE CellAt(r, a + d) = e[d + 1]
    <3>1. a + d \in Int /\ a + d \in a .. a + L - 1 /\ a + d - a + 1 = d + 1
      BY <2>3
    <3>. QED
      BY <2>3, <2>6, <2>7, <3>1
  <2>9. Holds(r, a, 1, k, v)
    <3>1. CellAt(r, a + 0) = e[0 + 1] /\ a + 0 = a
      <4>1. 0 \in 0 .. L - 1 /\ a + 0 = a
        BY <2>3
      <4>. QED
        BY <2>8, <4>1
    <3>2. CellAt(r, a + 1) = e[1 + 1] /\ CellAt(r, a + 2) = e[2 + 1] /\ CellAt(r, a + 3) = e[3 + 1]
      BY <2>3, <2>8
    <3>3. ASSUME NEW j \in 1 .. Len(v) PROVE CellAt(r, a + 3 + j) = v[j]
      <4>1. 3 + j \in 0 .. L - 1 /\ a + (3 + j) = a + 3 + j /\ 3 + j + 1 = 4 + j
        BY <2>3 DEF L
      <4>2. CellAt(r, a + (3 + j)) = e[3 + j + 1]
        BY <2>8, <4>1
      <4>3. e[4 + j] = v[j]
        BY EntryIs DEF e
      <4>. QED
        BY <4>1, <4>2, <4>3
    <3>4. e[1] = 1 /\ e[2] = Len(v) /\ e[3] = 1 /\ e[4] = k
      BY EntryIs DEF e
    <3>. QED
      BY <3>1, <3>2, <3>3, <3>4 DEF Holds
  <2>10. SizeAt(r, a) = L
    BY <2>3, <2>6, <2>9, HoldsIs DEF L
  <2>11. \A x \in Int : x \notin a .. a + L - 1 => CellAt(r, x) = CellAt(m, x)
    BY <2>6
  <2>12. /\ Sound(r)
         /\ \A l \in Keys : \A y \in Data(l) :
              Has(r, l, y) <=> IF l = k THEN 1 = 1 /\ y = v ELSE Has(m, l, y)
    <3>1. /\ SizeAt(m, Addresses(m)[i]) = SizeAt(r, Addresses(m)[i])
          /\ \A x \in Int :
               x \notin Addresses(m)[i] .. Addresses(m)[i] + SizeAt(m, Addresses(m)[i]) - 1
                 => CellAt(r, x) = CellAt(m, x)
          /\ Holds(r, Addresses(m)[i], 1, k, v)
      BY <2>3, <2>9, <2>10, <2>11 DEF a
    <3>. QED
      BY <2>2, <2>6, <3>1, Patching
  <2>. QED
    BY <2>6, <2>12 DEF Updated
<1>. QED
  BY <1>1, <1>2

(* remove() deletes its key and leaves the others.                           *)
LEMMA Removing ==
  ASSUME NEW m \in Memory, Sound(m), NEW k \in Keys, Exists(m, k), NEW r, r = Removed(m, k)
  PROVE  /\ r \in Memory /\ r.valid = m.valid /\ Sound(r)
         /\ \A l \in Keys : \A w \in Data(l) : Has(r, l, w) <=> l # k /\ Has(m, l, w)
<1>1. PICK w \in Data(k) : Has(m, k, w)
  BY ReadIs
<1>2. PICK i \in 1 .. m.numEntries : Holds(m, Addresses(m)[i], 1, k, w)
  BY <1>1 DEF Has
<1>. DEFINE a == Addresses(m)[i]
            S == SizeAt(m, a)
            s == <<0>>
<1>3. First(m, k) = a /\ a \in Nat /\ S = 4 + Len(w) /\ Len(w) \in Nat
  <2>1. i \in 1 .. m.numEntries + 1
    BY AddressType
  <2>. QED
    BY <1>2, <2>1, Present, AddressType, HoldsIs, DataType
<1>4. r = PutCells(m, a + 2, s)
  BY <1>2, <1>3 DEF Removed, EntryHeader, Holds
<1>5. s \in Seq(Nat) /\ Len(s) = 1 /\ s[1] = 0
  OBVIOUS
<1>. HIDE DEF a, s, S
<1>6. /\ r \in Memory /\ r.valid = m.valid /\ r.numEntries = m.numEntries
      /\ \A x \in Int : CellAt(r, x) = IF x \in a + 2 .. a + 2 + Len(s) - 1 /\ x \in Cells
                                         THEN s[x - (a + 2) + 1] ELSE CellAt(m, x)
  <2>. DEFINE b == a + 2
  <2>1. b \in Nat
    BY <1>3
  <2>2. r = PutCells(m, b, s)
    BY <1>4
  <2>. HIDE DEF b
  <2>3. /\ r \in Memory /\ r.valid = m.valid /\ r.numEntries = m.numEntries
        /\ \A x \in Int : CellAt(r, x) = IF x \in b .. b + Len(s) - 1 /\ x \in Cells
                                           THEN s[x - b + 1] ELSE CellAt(m, x)
    <3>1. Overwritten(r, m, b, s)
      BY <1>5, <2>1, <2>2, Putting
    <3>. QED
      BY <3>1 DEF Overwritten
  <2>. QED
    BY <2>3 DEF b
<1>7. \A x \in Int : CellAt(r, x) = IF x = a + 2 THEN 0 ELSE CellAt(m, x)
  <2>1. a + 2 \in Cells
    <3>1. a + S <= UsedSpace(m) /\ UsedSpace(m) <= Size /\ UsedSpace(m) \in Nat /\ Size \in Nat
      <4>1. m.numEntries + 1 \in 1 .. m.numEntries + 1 /\ i < m.numEntries + 1
        BY AddressType
      <4>. QED
        BY <4>1, AddressesGrow, AddressType, StorageAssumption DEF Sound, a, S
    <3>. QED
      BY <1>3, <3>1 DEF Cells
  <2>2. \A x \in Int : x \in a + 2 .. a + 2 + Len(s) - 1 <=> x = a + 2
    BY <1>3, <1>5
  <2>3. a + 2 - (a + 2) + 1 = 1
    BY <1>3
  <2>. QED
    BY <1>5, <1>6, <2>1, <2>2, <2>3
<1>8. Holds(r, a, 0, k, w)
  <2>1. /\ a \in Int /\ a + 1 \in Int /\ a + 2 \in Int /\ a + 3 \in Int
        /\ a # a + 2 /\ a + 1 # a + 2 /\ a + 3 # a + 2
        /\ \A j \in 1 .. Len(w) : a + 3 + j \in Int /\ a + 3 + j # a + 2
    BY <1>3
  <2>. QED
    BY <1>2, <1>7, <2>1 DEF Holds, a
<1>9. SizeAt(r, a) = S
  BY <1>3, <1>6, <1>8, HoldsIs
<1>10. \A x \in Int : x \notin a .. a + S - 1 => CellAt(r, x) = CellAt(m, x)
  <2>1. a + 2 \in a .. a + S - 1
    BY <1>3
  <2>. QED
    BY <1>7, <2>1
<1>11. /\ Sound(r)
       /\ \A l \in Keys : \A y \in Data(l) :
            Has(r, l, y) <=> IF l = k THEN 0 = 1 /\ y = w ELSE Has(m, l, y)
  <2>1. /\ SizeAt(m, Addresses(m)[i]) = SizeAt(r, Addresses(m)[i])
        /\ \A x \in Int :
             x \notin Addresses(m)[i] .. Addresses(m)[i] + SizeAt(m, Addresses(m)[i]) - 1
               => CellAt(r, x) = CellAt(m, x)
        /\ Holds(r, Addresses(m)[i], 0, k, w)
    BY <1>8, <1>9, <1>10 DEF a, S
  <2>. QED
    BY <1>2, <1>6, <2>1, Patching
<1>. QED
  BY <1>6, <1>11

-----------------------------------------------------------------------------
(* The memory keeps its shape, whatever the sizes of the values.             *)

(* Each set of numbers has a least element.                                  *)
LEMMA Least ==
  ASSUME NEW S \in SUBSET Nat, S # {}
  PROVE  \E a \in S : \A b \in S : a <= b
<1>. SUFFICES ASSUME \A a \in S : \E b \in S : ~(a <= b) PROVE FALSE
  OBVIOUS
<1>. DEFINE T == {n \in Nat : \A b \in S : n <= b}
<1>1. 0 \in T
  OBVIOUS
<1>2. ASSUME NEW n \in Nat, n \in T PROVE n + 1 \in T
  <2>1. n \notin S
    BY <1>2
  <2>2. ASSUME NEW b \in S PROVE n + 1 <= b
    <3>1. b \in Nat /\ n <= b /\ b # n
      BY <1>2, <2>1
    <3>. QED
      BY <3>1
  <2>. QED
    BY <2>2
<1>3. PICK b : b \in S
  OBVIOUS
<1>4. b \in Nat /\ b + 1 \in Nat
  BY <1>3
<1>5. \A n \in T : n <= b
  BY <1>3
<1>. HIDE DEF T
<1>6. b + 1 \in T
  BY <1>1, <1>2, <1>4, Induction
<1>. QED
  BY <1>4, <1>5, <1>6

LEMMA FirstType ==
  ASSUME NEW m \in Memory, NEW k, Exists(m, k)
  PROVE  First(m, k) \in Nat /\ First(m, k) \in Found(m, k)
<1>1. \A i \in 1 .. m.numEntries : Addresses(m)[i] \in Nat
  <2>1. m.numEntries \in Nat /\ \A i \in 1 .. m.numEntries : i \in 1 .. m.numEntries + 1
    BY AddressType
  <2>. QED
    BY <2>1, AddressType
<1>2. Found(m, k) \in SUBSET Nat /\ Found(m, k) # {}
  BY <1>1 DEF Found, Exists
<1>. QED
  BY <1>2, Least DEF First

LEMMA WrittenType ==
  ASSUME NEW m \in Memory, NEW k \in Keys, NEW v \in Data(k)
  PROVE  Written(m, k, v) \in Memory /\ Written(m, k, v).valid = m.valid
<1>1. Entry(k, v) \in Seq(Nat)
  BY EntryIs
<1>2. ASSUME NEW a \in Nat
      PROVE  /\ PutCells(m, a, Entry(k, v)) \in Memory
             /\ PutCells(m, a, Entry(k, v)).valid = m.valid
  BY <1>1, Putting DEF Overwritten
<1>3. Exists(m, k) => First(m, k) \in Nat
  BY FirstType
<1>4. UsedSpace(m) \in Nat
  BY AddressType
<1>5. Appended(m, Entry(k, v)) \in Memory /\ Appended(m, Entry(k, v)).valid = m.valid
  <2>. DEFINE p == PutCells(m, UsedSpace(m), Entry(k, v))
  <2>1. p \in Memory /\ p.valid = m.valid
    BY <1>2, <1>4
  <2>2. Appended(m, Entry(k, v)) = [p EXCEPT !.numEntries = @ + 1]
    BY DEF Appended
  <2>. HIDE DEF p
  <2>. QED
    BY <2>1, <2>2 DEF Memory
<1>. QED
  BY <1>2, <1>3, <1>5 DEF Written

LEMMA RemovedType ==
  ASSUME NEW m \in Memory, NEW k, Exists(m, k)
  PROVE  Removed(m, k) \in Memory /\ Removed(m, k).valid = m.valid
<1>. DEFINE a == First(m, k)
            b == a + 2
            g == EntryHeader(m, a).flags
<1>1. a \in Nat /\ IsValid(EntryHeader(m, a))
  BY FirstType DEF Found, Matches
<1>2. g \in Nat /\ g % 2 = 1
  BY <1>1, CellType DEF IsValid, EntryHeader
<1>3. Removed(m, k) = PutCells(m, b, <<g - 1>>)
  BY DEF Removed
<1>. HIDE DEF a, g
<1>4. g - 1 \in Nat /\ b \in Nat
  BY <1>1, <1>2
<1>. HIDE DEF b
<1>5. <<g - 1>> \in Seq(Nat)
  BY <1>4
<1>6. Overwritten(Removed(m, k), m, b, <<g - 1>>)
  BY <1>3, <1>4, <1>5, Putting
<1>. QED
  BY <1>6 DEF Overwritten

LEMMA CompactedType ==
  ASSUME NEW m \in Memory
  PROVE  Compacted(m) \in Memory
<1>1. m.numEntries \in 0 .. m.numEntries
  BY DEF Memory
<1>2. PICK h \in [0 .. m.numEntries -> Memory] : Compacted(m) = h[m.numEntries]
  BY CompactionLoop
<1>. QED
  BY <1>1, <1>2

LEMMA FormattedType ==
  /\ Erased \in Memory /\ Erased.valid = TRUE /\ Erased.numEntries = 0
  /\ \A m \in Memory : /\ WithHeader(m) \in Memory /\ WithHeader(m).valid = TRUE
                       /\ WithHeader(m).numEntries = 0
BY StorageAssumption DEF Erased, WithHeader, Memory

-----------------------------------------------------------------------------
(* What a reader sees after each call.                                       *)

LEMMA ViewIs ==
  ASSUME NEW m \in Memory
  PROVE  /\ m.valid => View(m) = [k \in Keys |-> Read(m, k)]
         /\ ~m.valid => View(m) = Map!Empty
BY DEF View, Map!Empty

LEMMA ViewEmpty ==
  ASSUME NEW m \in Memory, m.valid, m.numEntries = 0
  PROVE  Sound(m) /\ View(m) = Map!Empty
<1>1. Sound(m) /\ \A k \in Keys : Read(m, k) = Absent
  BY NoEntries, ReadIs
<1>. QED
  BY <1>1, ViewIs DEF Map!Empty

(* Two sound memories with the same valid entries of a key read alike.       *)
LEMMA SameRead ==
  ASSUME NEW m \in Memory, Sound(m), NEW r \in Memory, Sound(r), NEW k \in Keys,
         \A v \in Data(k) : Has(r, k, v) <=> Has(m, k, v)
  PROVE  Read(r, k) = Read(m, k)
<1>1. CASE \E v \in Data(k) : Has(m, k, v)
  BY <1>1, ReadIs
<1>2. CASE \A v \in Data(k) : ~Has(m, k, v)
  BY <1>2, ReadIs
<1>. QED
  BY <1>1, <1>2

LEMMA ViewCompacted ==
  ASSUME NEW m \in Memory, m.valid, Sound(m)
  PROVE  /\ Compacted(m) \in Memory /\ Compacted(m).valid /\ Sound(Compacted(m))
         /\ View(Compacted(m)) = View(m)
<1>1. /\ Compacted(m) \in Memory /\ Compacted(m).valid = m.valid /\ Sound(Compacted(m))
      /\ \A k \in Keys : \A v \in Data(k) : Has(Compacted(m), k, v) <=> Has(m, k, v)
  BY Compaction
<1>2. \A k \in Keys : Read(Compacted(m), k) = Read(m, k)
  BY <1>1, SameRead
<1>. QED
  BY <1>1, <1>2, ViewIs

LEMMA ViewWritten ==
  ASSUME SameSizes, NEW m \in Memory, m.valid, Sound(m),
         NEW k \in Keys, NEW v \in Values[k], Fits(m, v)
  PROVE  /\ Written(m, k, v) \in Memory /\ Written(m, k, v).valid /\ Sound(Written(m, k, v))
         /\ View(Written(m, k, v)) = [View(m) EXCEPT ![k] = v]
<1>. DEFINE r == Written(m, k, v)
<1>1. v \in Data(k) /\ HasRoom(m, v)
  BY Fitting
<1>2. /\ r \in Memory /\ r.valid = m.valid /\ Sound(r)
      /\ \A l \in Keys : \A w \in Data(l) :
           Has(r, l, w) <=> IF l = k THEN w = v ELSE Has(m, l, w)
  <2>1. Updated(r, m, k, v)
    BY <1>1, Writing
  <2>. HIDE DEF r
  <2>. QED
    BY <2>1 DEF Updated
<1>. HIDE DEF r
<1>3. Read(r, k) = v
  BY <1>1, <1>2, ReadIs
<1>4. ASSUME NEW l \in Keys, l # k PROVE Read(r, l) = Read(m, l)
  BY <1>2, <1>4, SameRead
<1>5. View(r) = [View(m) EXCEPT ![k] = v]
  <2>1. View(m) = [l \in Keys |-> Read(m, l)] /\ View(r) = [l \in Keys |-> Read(r, l)]
    BY <1>2, ViewIs
  <2>. QED
    BY <2>1, <1>3, <1>4
<1>. QED
  BY <1>2, <1>5 DEF r

LEMMA ViewRemoved ==
  ASSUME NEW m \in Memory, m.valid, Sound(m), NEW k \in Keys, Exists(m, k)
  PROVE  /\ Removed(m, k) \in Memory /\ Removed(m, k).valid /\ Sound(Removed(m, k))
         /\ View(Removed(m, k)) = [View(m) EXCEPT ![k] = Absent]
<1>. DEFINE r == Removed(m, k)
<1>1. /\ r \in Memory /\ r.valid = m.valid /\ Sound(r)
      /\ \A l \in Keys : \A w \in Data(l) : Has(r, l, w) <=> l # k /\ Has(m, l, w)
  BY Removing
<1>. HIDE DEF r
<1>2. Read(r, k) = Absent
  BY <1>1, ReadIs
<1>3. ASSUME NEW l \in Keys, l # k PROVE Read(r, l) = Read(m, l)
  BY <1>1, <1>3, SameRead
<1>4. View(r) = [View(m) EXCEPT ![k] = Absent]
  <2>1. View(m) = [l \in Keys |-> Read(m, l)] /\ View(r) = [l \in Keys |-> Read(r, l)]
    BY <1>1, ViewIs
  <2>. QED
    BY <2>1, <1>2, <1>3
<1>. QED
  BY <1>1, <1>4 DEF r

-----------------------------------------------------------------------------
(* The memory keeps its shape.                                               *)

LEMMA Outcomes == ASSUME NEW c \in CommitOutcomes PROVE c \in BOOLEAN
BY DEF CommitOutcomes

LEMMA InitialType == Init => TypeOK /\ ~initialized /\ ~flash.valid /\ ~ram.valid
<1>. DEFINE z == [Erased EXCEPT !.valid = FALSE, !.numEntries = Blank]
<1>1. z \in Memory /\ ~z.valid
  BY FormattedType, StorageAssumption DEF Memory
<1>. HIDE DEF z
<1>2. Init => initialized = FALSE /\ rc = TRUE /\ flash = z /\ ram = z
  BY DEF Init, z
<1>. QED
  BY <1>1, <1>2 DEF TypeOK

LEMMA FitsType == \A m, v : Fits(m, v) \in BOOLEAN
BY DEF Fits

LEMMA FitsData ==
  ASSUME NEW k \in Keys, NEW v \in Values[k], NEW m, Fits(m, v)
  PROVE  v \in Data(k)
BY DEF Fits, Data

LEMMA TypeStep == TypeOK /\ [Next]_vars => TypeOK'
<1>. SUFFICES ASSUME TypeOK, [Next]_vars PROVE TypeOK'
  OBVIOUS
<1>. USE DEF TypeOK
<1>1. CASE Begin
  BY <1>1, FormattedType, Outcomes DEF Begin, CommitTo
<1>2. CASE BeginAgain
  BY <1>2 DEF BeginAgain
<1>3. CASE End
  BY <1>3, Outcomes DEF End, CommitTo
<1>4. CASE Commit
  BY <1>4, Outcomes DEF Commit, CommitTo
<1>5. CASE Defragment
  BY <1>5, CompactedType DEF Defragment
<1>6. CASE Clear
  BY <1>6, FormattedType, Outcomes DEF Clear, CommitTo
<1>7. CASE Restart
  BY <1>7 DEF Restart
<1>8. ASSUME NEW k \in Keys, RemoveEntry(k) PROVE TypeOK'
  BY <1>8, RemovedType DEF RemoveEntry, Exists
<1>9. ASSUME NEW k \in Keys, NEW v \in Values[k], Write(k, v) PROVE TypeOK'
  BY <1>9, FitsData, WrittenType, FitsType DEF Write
<1>10. ASSUME NEW k \in Keys, NEW v \in Values[k], WriteAndCommit(k, v) PROVE TypeOK'
  <2>1. PICK c \in CommitOutcomes :
          /\ rc' = (Fits(ram, v) /\ c)
          /\ IF Fits(ram, v)
               THEN ram' = Written(ram, k, v) /\ CommitTo(ram', c)
               ELSE UNCHANGED <<ram, flash>>
          /\ UNCHANGED initialized
    BY <1>10 DEF WriteAndCommit
  <2>2. rc' \in BOOLEAN
    BY <2>1, FitsType
  <2>3. ram' \in Memory /\ flash' \in Memory
    BY <2>1, FitsData, WrittenType DEF CommitTo
  <2>. QED
    BY <2>1, <2>2, <2>3
<1>11. CASE UNCHANGED vars
  BY <1>11 DEF vars
<1>. QED
  BY <1>1, <1>2, <1>3, <1>4, <1>5, <1>6, <1>7, <1>8, <1>9, <1>10, <1>11 DEF Next

(* The memory keeps its shape and no call of EEPROMStorage writes outside    *)
(* it, whatever values are written under a key.                              *)
THEOREM TypeCorrect == Spec => []TypeOK
<1>1. Init => TypeOK
  BY InitialType
<1>2. TypeOK /\ [Next]_vars => TypeOK'
  BY TypeStep
<1>. QED
  BY <1>1, <1>2, PTL DEF Spec

-----------------------------------------------------------------------------
(* The invariant, when the values of each key have one size.                 *)

Usable(m) == m \in Memory /\ (m.valid => Sound(m))

(* Both copies hold a sound log or no log at all, and an open storage has    *)
(* one.                                                                      *)
IInv ==
  /\ TypeOK
  /\ Usable(ram) /\ Usable(flash)
  /\ initialized => ram.valid

LEMMA InitialInv == Init => IInv
BY InitialType DEF IInv, Usable, TypeOK

(* What commit() leaves in the EEPROM.                                       *)
LEMMA Committing ==
  ASSUME NEW b \in Memory, Usable(b), Usable(flash), NEW c \in CommitOutcomes, CommitTo(b, c)
  PROVE  Usable(flash') /\ flash' \in {flash, b}
BY DEF CommitTo

LEMMA OpenIs ==
  ASSUME IInv, initialized
  PROVE  ram \in Memory /\ ram.valid /\ Sound(ram) /\ Usable(ram) /\ Usable(flash)
BY DEF IInv, Usable

LEMMA BeginStep ==
  ASSUME IInv, Begin
  PROVE  Usable(ram') /\ Usable(flash') /\ ram'.valid /\ Map!Next
<1>1. PICK c \in CommitOutcomes :
        /\ ~initialized /\ initialized' = TRUE
        /\ IF flash.valid
             THEN ram' = flash /\ UNCHANGED flash /\ rc' = TRUE
             ELSE ram' = WithHeader(flash) /\ CommitTo(ram', c) /\ rc' = ~c
  BY DEF Begin
<1>2. flash \in Memory /\ Usable(flash)
  BY DEF IInv, Usable
<1>3. CASE flash.valid
  BY <1>1, <1>2, <1>3 DEF Map!Next, Map!Open, Map!Reload
<1>4. CASE ~flash.valid
  <2>1. /\ ram' \in Memory /\ ram'.valid /\ ram'.numEntries = 0 /\ CommitTo(ram', c)
        /\ flash' \in {flash, ram'}
    BY <1>1, <1>2, <1>4, FormattedType DEF CommitTo
  <2>2. Sound(ram') /\ View(ram') = Map!Empty /\ View(flash) = Map!Empty
    BY <1>2, <1>4, <2>1, ViewEmpty, ViewIs
  <2>. QED
    BY <1>1, <1>2, <2>1, <2>2 DEF Usable, Map!Next, Map!Open, Map!Reload
<1>. QED
  BY <1>3, <1>4

LEMMA EndStep ==
  ASSUME IInv, End
  PROVE  Usable(ram') /\ Usable(flash') /\ Map!Next
<1>1. PICK c \in CommitOutcomes :
        initialized /\ initialized' = FALSE /\ CommitTo(ram, c) /\ ram' = ram
  BY DEF End
<1>2. Usable(flash') /\ flash' \in {flash, ram} /\ Usable(ram)
  BY <1>1, OpenIs, Committing
<1>. QED
  BY <1>1, <1>2 DEF Map!Next, Map!Close, Map!Saves

LEMMA CommitStep ==
  ASSUME IInv, Commit
  PROVE  Usable(ram') /\ Usable(flash') /\ ram'.valid /\ Map!Next
<1>1. PICK c \in CommitOutcomes :
        initialized /\ initialized' = initialized /\ CommitTo(ram, c) /\ ram' = ram
  BY DEF Commit
<1>2. Usable(flash') /\ flash' \in {flash, ram} /\ Usable(ram) /\ ram.valid
  BY <1>1, OpenIs, Committing
<1>. QED
  BY <1>1, <1>2 DEF Map!Next, Map!Save, Map!Saves

LEMMA ClearStep ==
  ASSUME IInv, Clear
  PROVE  Usable(ram') /\ Usable(flash') /\ ram'.valid /\ Map!Next
<1>1. PICK c \in CommitOutcomes :
        initialized /\ initialized' = initialized /\ CommitTo(ram', c) /\ ram' = Erased
  BY DEF Clear
<1>2. ram' \in Memory /\ ram'.valid /\ Sound(ram') /\ View(ram') = Map!Empty
  BY <1>1, FormattedType, ViewEmpty
<1>3. Usable(ram') /\ Usable(flash)
  BY <1>1, <1>2, OpenIs DEF Usable
<1>4. Usable(flash') /\ flash' \in {flash, ram'}
  BY <1>1, <1>2, <1>3, Committing
<1>. QED
  BY <1>1, <1>2, <1>3, <1>4 DEF Map!Next, Map!Wipe, Map!Saves

LEMMA DefragmentStep ==
  ASSUME IInv, Defragment
  PROVE  Usable(ram') /\ Usable(flash') /\ ram'.valid /\ UNCHANGED Map!vars
<1>1. initialized /\ initialized' = initialized /\ ram' = Compacted(ram) /\ flash' = flash
  BY DEF Defragment
<1>. QED
  BY <1>1, OpenIs, ViewCompacted DEF Usable, Map!vars

LEMMA RestartStep ==
  ASSUME IInv, Restart
  PROVE  Usable(ram') /\ Usable(flash') /\ Map!Next
BY DEF Restart, IInv, Map!Next, Map!Crash, Map!Reload

LEMMA RemoveStep ==
  ASSUME IInv, NEW k \in Keys, RemoveEntry(k)
  PROVE  Usable(ram') /\ Usable(flash') /\ ram'.valid /\ [Map!Next]_Map!vars
<1>1. /\ initialized /\ initialized' = initialized /\ flash' = flash
      /\ ram' = IF Exists(ram, k) THEN Removed(ram, k) ELSE ram
  BY DEF RemoveEntry
<1>2. CASE ~Exists(ram, k)
  BY <1>1, <1>2, OpenIs DEF Map!vars
<1>3. CASE Exists(ram, k)
  <2>1. /\ ram' \in Memory /\ ram'.valid /\ Sound(ram')
        /\ View(ram') = [View(ram) EXCEPT ![k] = Absent]
    BY <1>1, <1>3, OpenIs, ViewRemoved
  <2>2. View(ram')[k] = Absent
    BY <2>1 DEF View
  <2>3. Map!Change(k)
    BY <1>1, <2>1, <2>2 DEF Map!Change, Map!Saves
  <2>. QED
    BY <1>1, <2>1, <2>3, OpenIs DEF Usable, Map!Next
<1>. QED
  BY <1>2, <1>3

(* write() and writeAndCommit(), which may or may not reach the EEPROM.      *)
LEMMA PutStep ==
  ASSUME SameSizes, IInv, NEW k \in Keys, NEW v \in Values[k], Fits(ram, v),
         initialized, initialized' = initialized,
         ram' = Written(ram, k, v), flash' \in {flash, ram'}
  PROVE  Usable(ram') /\ Usable(flash') /\ ram'.valid /\ View(ram')[k] = v /\ Map!Next
<1>1. ram \in Memory /\ ram.valid /\ Sound(ram) /\ Usable(flash)
  BY OpenIs
<1>2. /\ ram' \in Memory /\ ram'.valid /\ Sound(ram')
      /\ View(ram') = [View(ram) EXCEPT ![k] = v]
  BY <1>1, ViewWritten
<1>3. View(ram')[k] = v /\ v \in Values[k] /\ v # Absent
  BY <1>2, FitsData, DataType DEF View
<1>4. Map!Change(k)
  BY <1>2, <1>3 DEF Map!Change, Map!Saves
<1>. QED
  BY <1>1, <1>2, <1>3, <1>4 DEF Usable, Map!Next

LEMMA WriteStep ==
  ASSUME SameSizes, IInv, NEW k \in Keys, NEW v \in Values[k], Write(k, v)
  PROVE  Usable(ram') /\ Usable(flash') /\ ram'.valid /\ [Map!Next]_Map!vars
<1>1. /\ initialized /\ initialized' = initialized /\ flash' = flash
      /\ ram' = IF Fits(ram, v) THEN Written(ram, k, v) ELSE ram
  BY DEF Write
<1>2. CASE Fits(ram, v)
  BY <1>1, <1>2, PutStep
<1>3. CASE ~Fits(ram, v)
  BY <1>1, <1>3, OpenIs DEF Map!vars
<1>. QED
  BY <1>2, <1>3

LEMMA WriteAndCommitStep ==
  ASSUME SameSizes, IInv, NEW k \in Keys, NEW v \in Values[k], WriteAndCommit(k, v)
  PROVE  /\ Usable(ram') /\ Usable(flash') /\ ram'.valid /\ [Map!Next]_Map!vars
         /\ rc' => View(flash')[k] = v
<1>1. PICK c \in CommitOutcomes :
        /\ initialized /\ initialized' = initialized
        /\ rc' = (Fits(ram, v) /\ c)
        /\ IF Fits(ram, v)
             THEN ram' = Written(ram, k, v) /\ CommitTo(ram', c)
             ELSE UNCHANGED <<ram, flash>>
  BY DEF WriteAndCommit
<1>2. CASE Fits(ram, v)
  <2>1. /\ ram' = Written(ram, k, v) /\ flash' \in {flash, ram'}
        /\ rc' => flash' = ram'
    BY <1>1, <1>2 DEF CommitTo
  <2>2. Usable(ram') /\ Usable(flash') /\ ram'.valid /\ View(ram')[k] = v /\ Map!Next
    BY <1>1, <1>2, <2>1, PutStep
  <2>. QED
    BY <2>1, <2>2
<1>3. CASE ~Fits(ram, v)
  <2>1. ram' = ram /\ flash' = flash /\ ~rc'
    BY <1>1, <1>3
  <2>. QED
    BY <1>1, <2>1, OpenIs DEF Map!vars
<1>. QED
  BY <1>2, <1>3

LEMMA Step ==
  ASSUME SameSizes, IInv, [Next]_vars
  PROVE  IInv' /\ [Map!Next]_Map!vars
<1>0. TypeOK'
  BY TypeStep DEF IInv
<1>1. CASE Begin
  BY <1>0, <1>1, BeginStep DEF IInv
<1>2. CASE BeginAgain
  BY <1>0, <1>2 DEF IInv, Usable, BeginAgain, Map!vars
<1>3. CASE End
  BY <1>0, <1>3, EndStep DEF IInv, End
<1>4. CASE Commit
  BY <1>0, <1>4, CommitStep DEF IInv
<1>5. CASE Defragment
  BY <1>0, <1>5, DefragmentStep DEF IInv
<1>6. CASE Clear
  BY <1>0, <1>6, ClearStep DEF IInv
<1>7. CASE Restart
  BY <1>0, <1>7, RestartStep DEF IInv, Restart
<1>8. ASSUME NEW k \in Keys, RemoveEntry(k) PROVE IInv' /\ [Map!Next]_Map!vars
  BY <1>0, <1>8, RemoveStep DEF IInv
<1>9. ASSUME NEW k \in Keys, NEW v \in Values[k], Write(k, v)
      PROVE  IInv' /\ [Map!Next]_Map!vars
  BY <1>0, <1>9, WriteStep DEF IInv
<1>10. ASSUME NEW k \in Keys, NEW v \in Values[k], WriteAndCommit(k, v)
       PROVE  IInv' /\ [Map!Next]_Map!vars
  BY <1>0, <1>10, WriteAndCommitStep DEF IInv
<1>11. CASE UNCHANGED vars
  BY <1>11 DEF vars, IInv, TypeOK, Usable, Map!vars
<1>. QED
  BY <1>1, <1>2, <1>3, <1>4, <1>5, <1>6, <1>7, <1>8, <1>9, <1>10, <1>11 DEF Next

(* Both copies of the memory hold a sound log or none, through every call,   *)
(* failing commit and restart.                                               *)
THEOREM Invariance == SameSizes => (Spec => []IInv)
<1>. SUFFICES ASSUME SameSizes PROVE Spec => []IInv
  OBVIOUS
<1>1. Init => IInv
  BY InitialInv
<1>2. IInv /\ [Next]_vars => IInv'
  BY Step
<1>. QED
  BY <1>1, <1>2, PTL DEF Spec

LEMMA SoundLog == IInv => LogIsSound
<1>. SUFFICES ASSUME IInv, ram.valid
              PROVE  UsedSpace(ram) <= Size /\ \A k \in Keys : Cardinality(Found(ram, k)) <= 1
  BY DEF LogIsSound
<1>1. ram \in Memory /\ Sound(ram)
  BY DEF IInv, Usable
<1>2. ASSUME NEW k \in Keys PROVE Cardinality(Found(ram, k)) <= 1
  <2>1. CASE \E v \in Data(k) : Has(ram, k, v)
    <3>1. PICK v \in Data(k), i \in 1 .. ram.numEntries : Holds(ram, Addresses(ram)[i], 1, k, v)
      BY <2>1 DEF Has
    <3>2. Found(ram, k) = {Addresses(ram)[i]}
      BY <1>1, <3>1, Present
    <3>3. \A S, a : S = {a} => Cardinality(S) = 1
      BY FS_Singleton
    <3>4. Cardinality(Found(ram, k)) = 1
      BY <3>2, <3>3
    <3>. QED
      BY <3>4
  <2>2. CASE \A v \in Data(k) : ~Has(ram, k, v)
    <3>1. Found(ram, k) = {}
      BY <1>1, <2>2, Missing
    <3>. QED
      BY <3>1, FS_EmptySet
  <2>. QED
    BY <2>1, <2>2
<1>. QED
  BY <1>1, <1>2 DEF Sound

(* The log stays within the memory, so that the space check of write() never *)
(* wraps around below zero, and no key has two valid entries.                *)
THEOREM LogStaysSound == SameSizes => (Spec => []LogIsSound)
BY Invariance, SoundLog, PTL

(* The entries, their scans and the compaction implement the map that        *)
(* IByteStorage promises, whose committed part survives a restart.           *)
THEOREM Implementation == SameSizes => (Spec => ImplementsMap)
<1>. SUFFICES ASSUME SameSizes PROVE Spec => ImplementsMap
  OBVIOUS
<1>1. Init => Map!Init
  BY InitialType, ViewIs DEF Init, TypeOK, Map!Init
<1>2. IInv /\ [Next]_vars => [Map!Next]_Map!vars
  BY Step
<1>. QED
  BY <1>1, <1>2, Invariance, PTL DEF Spec, ImplementsMap, Map!Spec

(* A writeAndCommit() that returns RM_E_NONE is what a restart reads.        *)
THEOREM Durability == SameSizes => (Spec => AcknowledgedIsDurable)
<1>. SUFFICES ASSUME SameSizes PROVE Spec => AcknowledgedIsDurable
  OBVIOUS
<1>1. IInv /\ [Next]_vars =>
        [\A k \in Keys : \A v \in Values[k] :
           WriteAndCommit(k, v) /\ rc' => View(flash')[k] = v]_vars
  BY WriteAndCommitStep
<1>. QED
  BY <1>1, Invariance, PTL DEF Spec, AcknowledgedIsDurable
=============================================================================
