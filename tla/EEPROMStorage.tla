----------------------------- MODULE EEPROMStorage -----------------------------
(***************************************************************************)
(* The byte storage of a device: a header, then entries one after another, *)
(* each with its own header, in a RAM copy of the EEPROM that commit()     *)
(* writes back.  A cell is one field of an entry header, one key or one    *)
(* unit of data, so that an entry whose size changes shifts what follows   *)
(* it exactly as in the code.                                              *)
(***************************************************************************)
EXTENDS Integers, Sequences, FiniteSets

CONSTANTS
  Keys,         \* the keys, as the numbers their cells hold
  Values,       \* per key: the values the program writes under it
  Absent,       \* no value
  Size,         \* cells after the storage header
  Blank,        \* an erased cell, 0xFF
  SIZE_MODULUS, \* 2^32 in the code: size_t
  CommitFaults  \* may EEPROM.commit() fail?

VARIABLES
  initialized,  \* begin() was called
  ram,          \* the buffer of the EEPROM library
  flash,        \* what a restart finds
  rc            \* did the last call return RM_E_NONE?

vars == <<initialized, ram, flash, rc>>

Cells == 0 .. Size - 1
ASSUME StorageAssumption ==
  /\ Keys \subseteq Nat
  /\ \A k \in Keys : Values[k] \subseteq Seq(Nat) /\ Absent \notin Values[k]
  /\ Size \in Nat \ {0} /\ Blank \in Nat
  /\ SIZE_MODULUS \in Nat /\ SIZE_MODULUS > Size
  /\ CommitFaults \in BOOLEAN

(* The size of an EntryHeader, and the number of its first key cell.       *)
HeaderSize == 3

-----------------------------------------------------------------------------
(* Layout.  valid stands for the magic number and the version.             *)

Memory == [valid : BOOLEAN, numEntries : Nat, cells : [Cells -> Nat]]

(* An address beyond the end reads as 0; a write there is dropped.         *)
CellAt(m, a) == IF a \in Cells THEN m.cells[a] ELSE 0

PutCells(m, a, s) ==
  [m EXCEPT !.cells =
     [x \in Cells |-> IF x \in a .. a + Len(s) - 1 THEN s[x - a + 1] ELSE m.cells[x]]]

EntryHeader(m, a) ==
  [keyLength |-> CellAt(m, a), dataLength |-> CellAt(m, a + 1), flags |-> CellAt(m, a + 2)]

IsValid(h) == h.flags % 2 = 1
EntrySize(h) == HeaderSize + h.keyLength + h.dataLength

(* The address of each entry, in order, and of the first cell after them.  *)
Addresses(m) ==
  LET at[i \in 1 .. m.numEntries + 1] ==
        IF i = 1 THEN 0
        ELSE LET a == at[i - 1] IN a + EntrySize(EntryHeader(m, a))
  IN  at

UsedSpace(m) == Addresses(m)[m.numEntries + 1]

(* size_t arithmetic.                                                      *)
Available(m) == (Size - UsedSpace(m)) % SIZE_MODULUS

(* Variant: an entry that was removed still counts as found.               *)
MatchesRemoved(m, a, k) ==
  EntryHeader(m, a).keyLength = 1 /\ CellAt(m, a + HeaderSize) = k

(* Variant: the keys are compared by their length only.                    *)
MatchesLength(m, a, k) ==
  IsValid(EntryHeader(m, a)) /\ EntryHeader(m, a).keyLength = 1 /\ k \in Keys

Matches(m, a, k) ==
  /\ IsValid(EntryHeader(m, a))
  /\ EntryHeader(m, a).keyLength = 1
  /\ CellAt(m, a + HeaderSize) = k

(* Where the valid entries of key k are; the scans take the first.         *)
Found(m, k) == {a \in {Addresses(m)[i] : i \in 1 .. m.numEntries} : Matches(m, a, k)}
Exists(m, k) == Found(m, k) # {}
First(m, k) == CHOOSE a \in Found(m, k) : \A b \in Found(m, k) : a <= b

DataAt(m, a) == [j \in 1 .. EntryHeader(m, a).dataLength |-> CellAt(m, a + HeaderSize + j)]

Read(m, k) == IF Exists(m, k) THEN DataAt(m, First(m, k)) ELSE Absent

-----------------------------------------------------------------------------
(* What each call leaves in the RAM copy.                                  *)

(* Variant: the free space is not looked at.                               *)
FitsAlways(m, v) == v # <<>>

(* The conditions under which write() goes ahead: the space is needed even *)
(* when the value replaces one of the same size.                           *)
Fits(m, v) == v # <<>> /\ Available(m) >= HeaderSize + 1 + Len(v)

Entry(k, v) == <<1, Len(v), 1, k>> \o v

(* The entry s behind the others, counted.                                 *)
Appended(m, s) == [PutCells(m, UsedSpace(m), s) EXCEPT !.numEntries = @ + 1]

(* Variant: a rewritten key is appended, and the old entry stays valid.    *)
WrittenAtEnd(m, k, v) == Appended(m, Entry(k, v))

(* A key that is found is rewritten in its place, whatever the new size:   *)
(* its entry is invalidated, uncounted, overwritten and counted again.     *)
Written(m, k, v) ==
  IF Exists(m, k)
    THEN PutCells(m, First(m, k), Entry(k, v))
    ELSE Appended(m, Entry(k, v))

(* Clears the valid flag; the entry keeps its space and its count.         *)
Removed(m, k) ==
  LET a == First(m, k)
  IN  PutCells(m, a + 2, <<EntryHeader(m, a).flags - 1>>)

EntryCells(m, a) == [j \in 1 .. EntrySize(EntryHeader(m, a)) |-> CellAt(m, a + j - 1)]

(* One turn of the loop of defragment(): the entry at a, if it is valid, is  *)
(* copied behind those that m, in which it works, has kept so far.           *)
Moved(m, a) ==
  IF IsValid(EntryHeader(m, a)) THEN Appended(m, EntryCells(m, a)) ELSE m

Compacted(m) ==
  LET after[i \in 0 .. m.numEntries] ==
        IF i = 0 THEN [m EXCEPT !.numEntries = 0]
        ELSE Moved(after[i - 1], Addresses(m)[i])
  IN  after[m.numEntries]

WithHeader(m) == [m EXCEPT !.valid = TRUE, !.numEntries = 0]
Erased == [valid |-> TRUE, numEntries |-> 0, cells |-> [a \in Cells |-> Blank]]

-----------------------------------------------------------------------------
(* The calls.                                                              *)

(* A chip that was never used.                                             *)
Init ==
  /\ initialized = FALSE
  /\ flash = [Erased EXCEPT !.valid = FALSE, !.numEntries = Blank]
  /\ ram = flash
  /\ rc = TRUE

CommitOutcomes == IF CommitFaults THEN BOOLEAN ELSE {TRUE}

(* commit() of the buffer b.                                               *)
CommitTo(b, committed) == flash' = IF committed THEN b ELSE flash

(* The header is written only when it is missing, and the result of that   *)
(* commit is taken the wrong way round.                                    *)
Begin ==
  \E committed \in CommitOutcomes :
    /\ ~initialized
    /\ initialized' = TRUE
    /\ IF flash.valid
         THEN ram' = flash /\ UNCHANGED flash /\ rc' = TRUE
         ELSE ram' = WithHeader(flash) /\ CommitTo(ram', committed) /\ rc' = ~committed

BeginAgain == initialized /\ rc' = FALSE /\ UNCHANGED <<initialized, ram, flash>>

(* EEPROM.end() commits what is left.                                      *)
End ==
  \E committed \in CommitOutcomes :
    /\ initialized
    /\ initialized' = FALSE
    /\ CommitTo(ram, committed)
    /\ rc' = TRUE
    /\ UNCHANGED ram

Write(k, v) ==
  /\ initialized
  /\ rc' = Fits(ram, v)
  /\ ram' = IF Fits(ram, v) THEN Written(ram, k, v) ELSE ram
  /\ UNCHANGED <<initialized, flash>>

WriteAndCommit(k, v) ==
  \E committed \in CommitOutcomes :
    /\ initialized
    /\ rc' = (Fits(ram, v) /\ committed)
    /\ IF Fits(ram, v)
         THEN ram' = Written(ram, k, v) /\ CommitTo(ram', committed)
         ELSE UNCHANGED <<ram, flash>>
    /\ UNCHANGED initialized

Commit ==
  \E committed \in CommitOutcomes :
    /\ initialized
    /\ CommitTo(ram, committed)
    /\ rc' = committed
    /\ UNCHANGED <<initialized, ram>>

RemoveEntry(k) ==
  /\ initialized
  /\ rc' = Exists(ram, k)
  /\ ram' = IF Exists(ram, k) THEN Removed(ram, k) ELSE ram
  /\ UNCHANGED <<initialized, flash>>

Defragment ==
  /\ initialized
  /\ rc' = TRUE
  /\ ram' = Compacted(ram)
  /\ UNCHANGED <<initialized, flash>>

Clear ==
  \E committed \in CommitOutcomes :
    /\ initialized
    /\ ram' = Erased
    /\ CommitTo(ram', committed)
    /\ rc' = committed
    /\ UNCHANGED initialized

(* A restart: the buffer is read again by the next begin().                *)
Restart ==
  /\ initialized' = FALSE
  /\ ram' = flash
  /\ rc' = TRUE
  /\ UNCHANGED flash

Next ==
  \/ Begin \/ BeginAgain \/ End \/ Commit \/ Defragment \/ Clear \/ Restart
  \/ \E k \in Keys :
       \/ RemoveEntry(k)
       \/ \E v \in Values[k] : Write(k, v) \/ WriteAndCommit(k, v)

Spec == Init /\ [][Next]_vars

-----------------------------------------------------------------------------
(* Properties.                                                             *)

(* The memory keeps its shape and no call writes outside it.               *)
TypeOK ==
  /\ initialized \in BOOLEAN /\ rc \in BOOLEAN
  /\ ram \in Memory /\ flash \in Memory

(* What a reader of m sees.                                                *)
View(m) == [k \in Keys |-> IF m.valid THEN Read(m, k) ELSE Absent]

(* All values of a key have the same size, as for all keys of             *)
(* DeviceStorage; an empty value is refused.                               *)
SameSizes ==
  \A k \in Keys : \A v, w \in Values[k] \ {<<>>} : Len(v) = Len(w)

(* As long as every value of a key has the same size, the entries and      *)
(* their scans implement a map whose committed part survives a restart: a  *)
(* refused write changes nothing, an update or a removal touches one key,  *)
(* defragmentation none.                                                   *)
Map == INSTANCE KeyValueStore WITH
  open <- initialized, live <- View(ram), durable <- View(flash)
ImplementsMap == Map!Spec

(* The log stays sound: its entries lie inside the memory, also when it    *)
(* fills up, so the space that is left never wraps around below zero; and  *)
(* a key has at most one valid entry, so an old value cannot come back     *)
(* when the new one is removed.                                            *)
LogIsSound ==
  ram.valid =>
    /\ UsedSpace(ram) <= Size
    /\ \A k \in Keys : Cardinality(Found(ram, k)) <= 1

(* A writeAndCommit() that returns RM_E_NONE is what a restart will read.  *)
AcknowledgedIsDurable ==
  [][\A k \in Keys : \A v \in Values[k] :
       WriteAndCommit(k, v) /\ rc' => View(flash')[k] = v]_vars
=============================================================================
