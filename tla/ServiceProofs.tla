--------------------------- MODULE ServiceProofs ---------------------------
(***************************************************************************)
(* Proofs about the keys of projects: the rotation of the vault's          *)
(* password, for every set of passwords, every number of rows, of          *)
(* rotations and of makers, and the deletion of a project, for every       *)
(* number of requests and of errors.  With WebhookProofs and NonceProofs   *)
(* they give what holds of the four components together.                   *)
(***************************************************************************)
EXTENDS ServiceSystem, WebhookProofs, NonceProofs

-----------------------------------------------------------------------------
(* The forms of what a rotation and a maker keep *)

Listing == [pc : {"list"}, table : 1..4, old : Password, new : Password, errors : BOOLEAN]
Going == [pc : {"rows"}, table : 1..4, old : Password, new : Password, errors : BOOLEAN,
          left : SUBSET (Record \X Password)]
Rotated == [pc : {"done"}, new : Password]
Making == [pc : {"store"}, table : {"derived_keys", "shamir_shares"}]

VaultStateOK ==
    /\ rotation \in [Rotation -> {Asleep} \cup Listing \cup Going \cup Rotated]
    /\ maker \in [Maker -> {Asleep} \cup Making]
    /\ storedLate \subseteq Record
    /\ partial \in BOOLEAN /\ crossed \in BOOLEAN

\* rows that a rotation has still to read or to write
Ahead(q, r) ==
    \E k \in rotation[q].table .. 4 :
        /\ TableOrder[k] = r[1]
        /\ \/ k > rotation[q].table
           \/ rotation[q].pc = "list"
           \/ rotation[q].pc = "rows" /\ \E w \in Password : <<r, w>> \in rotation[q].left

\* the only master seed is the first row of its table
OneSeed ==
    \A r \in Record : r[1] = "master_seeds" =>
        /\ vault[r] # NoRecord <=> r[2] = 1
        /\ r \notin storedLate

\* a row that was listed exists, and is one of the table that is read
ListedExists ==
    \A q \in Rotation : rotation[q].pc = "rows" =>
        \A x \in rotation[q].left :
            vault[x[1]] # NoRecord /\ x[1][1] = TableOrder[rotation[q].table]

OneRotation ==
    \A p, q \in Rotation : rotation[p] # Asleep /\ rotation[q] # Asleep => p = q

\* what a single rotation has listed is what the vault has
ListedIsCurrent ==
    \A q \in Rotation : rotation[q].pc = "rows" =>
        \A x \in rotation[q].left : x[2] = vault[x[1]]

\* rows ahead have the old password, which is the one of the process, the
\* others the new one
HalfWay ==
    \A q \in Rotation : rotation[q].pc \in {"list", "rows"} /\ ~rotation[q].errors =>
        /\ rotation[q].old = masterPassword
        /\ \A r \in Record \ storedLate : vault[r] # NoRecord =>
            vault[r] = IF Ahead(q, r) THEN rotation[q].old ELSE rotation[q].new

AllRotated ==
    \A q \in Rotation : rotation[q].pc = "done" =>
        \A r \in Record \ storedLate : vault[r] \in {rotation[q].new, NoRecord}

VaultInv ==
    /\ VaultStateOK /\ VaultTypeOK
    /\ OneSeed
    /\ ListedExists
    /\ ~crossed => OneRotation /\ ListedIsCurrent
    /\ ~crossed /\ ~partial => HalfWay /\ AllRotated
    /\ VaultIsReadable

-----------------------------------------------------------------------------
(* Tables and rows *)

\* the four tables, in the order of the rotation
LEMMA TableNames ==
    /\ Len(TableOrder) = 4
    /\ TableOrder[1] = "master_seeds" /\ TableOrder[2] = "project_seeds"
    /\ TableOrder[3] = "derived_keys" /\ TableOrder[4] = "shamir_shares"
    /\ Tables = {"master_seeds", "project_seeds", "derived_keys", "shamir_shares"}
  <1>1. /\ Len(TableOrder) = 4
        /\ TableOrder[1] = "master_seeds" /\ TableOrder[2] = "project_seeds"
        /\ TableOrder[3] = "derived_keys" /\ TableOrder[4] = "shamir_shares"
    BY DEF TableOrder
  <1>2. 1..4 = {1, 2, 3, 4}
    OBVIOUS
  <1> QED BY <1>1, <1>2 DEF Tables

\* a row is a table and a number
LEMMA RecordForm ==
    ASSUME NEW r \in Record
    PROVE  /\ r[1] \in Tables /\ r[2] \in Nat \ {0}
           /\ r = <<r[1], r[2]>>
  BY VaultAssumption DEF Record

\* the row of the master seed
LEMMA SeedIsRecord == <<"master_seeds", 1>> \in Record
  BY VaultAssumption, TableNames DEF Record

\* each table is in the order of the rotation once
LEMMA TableOf ==
    ASSUME NEW r \in Record
    PROVE  /\ \E k \in 1..4 : TableOrder[k] = r[1]
           /\ \A j, k \in 1..4 : TableOrder[j] = r[1] /\ TableOrder[k] = r[1] => j = k
  BY RecordForm, TableNames

\* there is a next row as long as rows are left
LEMMA NextIsLeft ==
    ASSUME VaultStateOK, NEW q \in Rotation, rotation[q].pc = "rows", rotation[q].left # {}
    PROVE  NextListed(q) \in rotation[q].left
  <1>1. rotation[q] \in Going
    BY DEF VaultStateOK, Listing, Going, Rotated, Asleep
  <1> DEFINE T == {x[1][2] : x \in rotation[q].left}
             L == OpToRel(<, Nat)
  <1>2. T \subseteq Nat /\ T # {}
    BY <1>1, RecordForm DEF Going
  <1>3. \E n \in T : \A m \in T : ~ (<<m, n>> \in L)
    BY <1>2, NatLessThanWellFounded, WFMin
  <1>4. \A m, n \in Nat : m < n => <<m, n>> \in L
    BY DEF OpToRel
  <1> HIDE DEF L, T
  <1>5. \E n \in T : \A m \in T : n <= m
    <2>1. PICK n \in T : \A m \in T : ~ (<<m, n>> \in L)
      BY <1>3
    <2>2. ASSUME NEW m \in T PROVE n <= m
      <3>1. m \in Nat /\ n \in Nat
        BY <1>2
      <3>2. ~ (m < n)
        BY <1>4, <2>1, <3>1
      <3> QED BY <3>1, <3>2
    <2> QED BY <2>2
  <1> QED BY <1>5 DEF NextListed, T

\* the form of a rotation follows from its pc
LEMMA Forms ==
    ASSUME VaultStateOK, NEW q \in Rotation
    PROVE  /\ rotation[q].pc = "idle" <=> rotation[q] = Asleep
           /\ rotation[q].pc = "list" <=> rotation[q] \in Listing
           /\ rotation[q].pc = "rows" <=> rotation[q] \in Going
           /\ rotation[q].pc = "done" <=> rotation[q] \in Rotated
           /\ rotation[q].pc \in {"idle", "list", "rows", "done"}
  BY DEF VaultStateOK, Listing, Going, Rotated, Asleep

-----------------------------------------------------------------------------
(* Steps *)

\* A new vault has one password.
LEMMA InitKeepsInv ==
    ASSUME VaultInit
    PROVE  VaultInv
  <1>1. VaultStateOK /\ VaultTypeOK
    BY VaultAssumption DEF VaultInit, VaultStateOK, VaultTypeOK
  <1>2. \A q \in Rotation : rotation[q] = Asleep /\ rotation[q].pc = "idle"
    BY DEF VaultInit, Asleep
  <1>3. OneSeed
    BY VaultAssumption DEF VaultInit, OneSeed
  <1>4. \A r \in Record : vault[r] \in {masterPassword, NoRecord}
    BY DEF VaultInit
  <1> QED BY <1>1, <1>2, <1>3, <1>4
          DEF VaultInv, ListedExists, OneRotation, ListedIsCurrent, HalfWay, AllRotated,
              VaultIsReadable

\* A row is stored: it is ahead of every rotation, or too late.
LEMMA StoreKeepsInv ==
    ASSUME VaultInv, NEW t \in Tables, t # "master_seeds", Store(t),
           UNCHANGED <<masterPassword, rotation, partial, crossed>>,
           maker' \in [Maker -> {Asleep} \cup Making]
    PROVE  VaultInv'
  <1>1. PICK n \in Record :
            /\ n[1] = t /\ vault[n] = NoRecord
            /\ vault' = [vault EXCEPT ![n] = masterPassword]
            /\ storedLate' = IF Listed(t) THEN storedLate \cup {n} ELSE storedLate
    BY DEF Store
  <1>2. VaultStateOK' /\ VaultTypeOK'
    BY <1>1 DEF VaultInv, VaultStateOK, VaultTypeOK
  <1>3. OneSeed'
    BY <1>1 DEF VaultInv, OneSeed, VaultTypeOK
  <1>4. /\ masterPassword # NoRecord
        /\ vault'[n] = masterPassword
        /\ \A r \in Record : r # n => vault'[r] = vault[r]
    BY <1>1, VaultAssumption DEF VaultInv, VaultTypeOK
  <1>5. ListedExists'
    BY <1>4, Forms DEF VaultInv, ListedExists, Going
  <1>6. ASSUME ~crossed
        PROVE  OneRotation' /\ ListedIsCurrent'
    <2>1. ASSUME NEW q \in Rotation, rotation[q].pc = "rows", NEW x \in rotation[q].left
          PROVE  x[2] = vault'[x[1]]
      <3>1. x[1] \in Record /\ vault[x[1]] # NoRecord /\ x[2] = vault[x[1]]
        BY <1>6, <2>1, Forms DEF VaultInv, ListedExists, ListedIsCurrent, Going
      <3> QED BY <3>1, <1>1, <1>4
    <2> QED BY <1>6, <2>1 DEF VaultInv, OneRotation, ListedIsCurrent
  <1>7. \A q \in Rotation, r \in Record : Ahead(q, r)' <=> Ahead(q, r)
    BY DEF Ahead
  <1>8. ASSUME NEW q \in Rotation, rotation[q].pc \in {"list", "rows"}, n \notin storedLate'
        PROVE  Ahead(q, n)
    <2>1. PICK k \in 1..4 : TableOrder[k] = t
      BY <1>1, TableOf
    <2>2. rotation[q].table \in 1..4
      BY <1>8, Forms DEF VaultInv, Listing, Going
    <2>3. ~Listed(t)
      BY <1>1, <1>8
    <2>4. k > rotation[q].table \/ (k = rotation[q].table /\ rotation[q].pc = "list")
      BY <1>8, <2>1, <2>2, <2>3, Forms DEF Listed, VaultInv
    <2> QED BY <1>1, <2>1, <2>2, <2>4 DEF Ahead
  <1>9. ASSUME ~crossed, ~partial
        PROVE  HalfWay' /\ AllRotated'
    <2>1. ASSUME NEW q \in Rotation, rotation[q].pc \in {"list", "rows"}, ~rotation[q].errors
          PROVE  /\ rotation[q].old = masterPassword
                 /\ \A r \in Record \ storedLate' : vault'[r] # NoRecord =>
                     vault'[r] = IF Ahead(q, r) THEN rotation[q].old ELSE rotation[q].new
      BY <1>1, <1>4, <1>8, <1>9, <2>1 DEF VaultInv, HalfWay
    <2>2. HalfWay'
      BY <1>7, <2>1 DEF HalfWay
    <2>3. ASSUME NEW q \in Rotation, rotation[q].pc = "done"
          PROVE  \A r \in Record \ storedLate' : vault'[r] \in {rotation[q].new, NoRecord}
      <3>1. Listed(t)
        BY <2>3 DEF Listed
      <3> QED BY <1>1, <1>4, <1>9, <2>3, <3>1 DEF VaultInv, AllRotated
    <2> QED BY <2>2, <2>3 DEF AllRotated
  <1>10. VaultIsReadable'
    BY <1>1, <1>4 DEF VaultInv, VaultIsReadable
  <1> QED BY <1>2, <1>3, <1>5, <1>6, <1>9, <1>10 DEF VaultInv

\* What the invariant speaks of stays as it is.
LEMMA RestKeepsInv ==
    ASSUME VaultInv,
           UNCHANGED <<vault, masterPassword, rotation, vaultHistory>>,
           maker' \in [Maker -> {Asleep} \cup Making]
    PROVE  VaultInv'
  <1>1. VaultStateOK' /\ VaultTypeOK' /\ OneSeed' /\ ListedExists'
    BY DEF VaultInv, VaultStateOK, VaultTypeOK, OneSeed, ListedExists, vaultHistory
  <1>2. OneRotation' = OneRotation /\ ListedIsCurrent' = ListedIsCurrent
    BY DEF OneRotation, ListedIsCurrent
  <1>3. HalfWay' = HalfWay /\ AllRotated' = AllRotated /\ VaultIsReadable' = VaultIsReadable
    BY DEF HalfWay, AllRotated, VaultIsReadable, Ahead, vaultHistory
  <1> QED BY <1>1, <1>2, <1>3 DEF VaultInv, vaultHistory

\* Makers change what they hold, nothing else of the invariant.
LEMMA MakerKeepsInv ==
    ASSUME VaultInv, NEW m \in Maker,
           LoadSource(m) \/ StoreDerived(m) \/ MakerStops(m)
    PROVE  VaultInv'
  <1> USE DEF VaultInv, VaultStateOK
  <1>1. CASE StoreDerived(m)
    <2>1. maker[m].table \in {"derived_keys", "shamir_shares"}
      BY <1>1 DEF StoreDerived, Making, Asleep
    <2>2. maker' \in [Maker -> {Asleep} \cup Making]
      BY <1>1 DEF StoreDerived
    <2> QED BY <1>1, <2>1, <2>2, StoreKeepsInv, TableNames DEF StoreDerived
  <1>2. CASE LoadSource(m) \/ MakerStops(m)
    <2>1. maker' \in [Maker -> {Asleep} \cup Making]
      BY <1>2 DEF LoadSource, MakerStops, Making
    <2>2. UNCHANGED <<vault, masterPassword, rotation, vaultHistory>>
      BY <1>2 DEF LoadSource, MakerStops
    <2> QED BY <2>1, <2>2, RestKeepsInv
  <1> QED BY <1>1, <1>2

\* A rotation starts with every row ahead, all under the password that it
\* tried on the master seed.
LEMMA RequestKeepsInv ==
    ASSUME VaultInv, NEW q \in Rotation, NEW old \in Password, NEW new \in Password,
           RequestRotation(q, old, new)
    PROVE  VaultInv'
  <1> DEFINE started == [pc |-> "list", table |-> 1, old |-> old, new |-> new, errors |-> FALSE]
  <1>1. /\ rotation[q] = Asleep
        /\ rotation' = [rotation EXCEPT ![q] = started]
        /\ crossed' = (crossed \/ \E p \in Rotation : rotation[p] # Asleep)
        /\ UNCHANGED <<vault, masterPassword, maker, storedLate, partial>>
    BY DEF RequestRotation
  <1>2. started \in Listing
    BY DEF Listing
  <1>3. VaultStateOK'
    BY <1>1, <1>2 DEF VaultInv, VaultStateOK
  <1>4. rotation'[q] = started /\ \A p \in Rotation : p # q => rotation'[p] = rotation[p]
    BY <1>1 DEF VaultInv, VaultStateOK
  <1>5. VaultTypeOK' /\ OneSeed'
    BY <1>1 DEF VaultInv, VaultTypeOK, OneSeed
  <1>6. ListedExists'
    BY <1>1, <1>4 DEF VaultInv, ListedExists
  <1>7. ASSUME ~crossed'
        PROVE  /\ ~crossed
               /\ \A p \in Rotation : rotation[p] = Asleep
               /\ \A p \in Rotation : p # q => rotation'[p] = Asleep
    BY <1>1, <1>4, <1>7
  <1>8. ASSUME ~crossed'
        PROVE  OneRotation' /\ ListedIsCurrent'
    BY <1>4, <1>7, <1>8 DEF OneRotation, ListedIsCurrent, Asleep
  <1>9. ASSUME ~crossed', ~partial'
        PROVE  HalfWay' /\ AllRotated'
    <2>1. VaultIsReadable /\ ~partial /\ ~crossed
      BY <1>1, <1>7, <1>9 DEF VaultInv
    <2>2. \A r \in Record : vault[r] \in {masterPassword, NoRecord} \/ r \in storedLate
      BY <1>7, <1>9, <2>1 DEF VaultIsReadable
    <2>3. old = masterPassword
      <3> DEFINE s == <<"master_seeds", 1>>
      <3>1. s \in Record /\ s[1] = "master_seeds" /\ s[2] = 1
        BY SeedIsRecord
      <3>2. s \in RecordsOf("master_seeds") /\ s \notin storedLate
        BY <3>1 DEF VaultInv, OneSeed, RecordsOf
      <3>3. \A r \in RecordsOf("master_seeds") : r[2] <= s[2]
        BY <3>1 DEF VaultInv, OneSeed, RecordsOf
      <3>4. vault[s] = old
        BY <3>2, <3>3 DEF RequestRotation, Verified
      <3> QED BY <2>2, <3>1, <3>2, <3>4 DEF RecordsOf
    <2>4. \A r \in Record : Ahead(q, r)'
      <3> TAKE r \in Record
      <3>1. PICK k \in 1..4 : TableOrder[k] = r[1]
        BY TableOf
      <3> QED BY <1>4, <3>1 DEF Ahead
    <2> QED BY <1>1, <1>4, <1>7, <1>9, <2>2, <2>3, <2>4 DEF HalfWay, AllRotated, Asleep
  <1>10. VaultIsReadable'
    BY <1>4 DEF VaultIsReadable, Asleep
  <1> QED BY <1>3, <1>5, <1>6, <1>8, <1>9, <1>10 DEF VaultInv

\* What is listed are the rows of the table as they are.
LEMMA ListKeepsInv ==
    ASSUME VaultInv, NEW q \in Rotation, ListRows(q)
    PROVE  VaultInv'
  <1> DEFINE rot == rotation[q]
             listed == {<<r, vault[r]>> : r \in RecordsOf(CurrentTable(q))}
             going == [pc |-> "rows", table |-> rot.table, old |-> rot.old, new |-> rot.new,
                       errors |-> rot.errors, left |-> listed]
  <1>1. /\ rot.pc = "list"
        /\ rotation' = [rotation EXCEPT ![q] = going]
        /\ UNCHANGED <<vault, masterPassword, maker, vaultHistory>>
    BY DEF ListRows
  <1>2. rot \in Listing
    BY <1>1, Forms DEF VaultInv
  <1>3. listed \subseteq Record \X Password
    BY DEF VaultInv, VaultTypeOK, RecordsOf
  <1>4. going \in Going
    BY <1>2, <1>3 DEF Listing, Going
  <1>5. VaultStateOK'
    BY <1>1, <1>4 DEF VaultInv, VaultStateOK, vaultHistory
  <1>6. rotation'[q] = going /\ \A p \in Rotation : p # q => rotation'[p] = rotation[p]
    BY <1>1 DEF VaultInv, VaultStateOK
  <1>7. VaultTypeOK' /\ OneSeed'
    BY <1>1 DEF VaultInv, VaultTypeOK, OneSeed, vaultHistory
  <1>8. \A x \in listed : /\ x[2] = vault[x[1]] /\ vault[x[1]] # NoRecord
                          /\ x[1][1] = TableOrder[rot.table]
    BY DEF RecordsOf, CurrentTable
  <1> HIDE DEF listed
  <1>9. ListedExists'
    BY <1>1, <1>6, <1>8 DEF VaultInv, ListedExists
  <1>10. ASSUME ~crossed
         PROVE  OneRotation' /\ ListedIsCurrent'
    BY <1>1, <1>6, <1>8, <1>10 DEF VaultInv, OneRotation, ListedIsCurrent, Asleep
  <1>11. \A r \in Record : vault[r] # NoRecord => (Ahead(q, r)' <=> Ahead(q, r))
    <2> TAKE r \in Record
    <2> HAVE vault[r] # NoRecord
    <2>1. rot.table \in 1..4
      BY <1>2 DEF Listing
    <2>2. r[1] = TableOrder[rot.table] => <<r, vault[r]>> \in listed /\ vault[r] \in Password
      BY DEF listed, RecordsOf, CurrentTable, VaultInv, VaultTypeOK
    <2> QED BY <1>1, <1>6, <2>1, <2>2 DEF Ahead
  <1>12. \A p \in Rotation, r \in Record : p # q => (Ahead(p, r)' <=> Ahead(p, r))
    BY <1>6 DEF Ahead
  <1>13. ASSUME ~crossed, ~partial
         PROVE  HalfWay' /\ AllRotated'
    BY <1>1, <1>6, <1>11, <1>12, <1>13 DEF VaultInv, HalfWay, AllRotated, vaultHistory
  <1>14. VaultIsReadable'
    BY <1>6 DEF VaultIsReadable, Asleep
  <1> QED BY <1>1, <1>5, <1>7, <1>9, <1>10, <1>13, <1>14 DEF VaultInv, vaultHistory

\* One row is taken off the list, and written or not.
LEMMA RowKeepsInv ==
    ASSUME VaultInv, NEW q \in Rotation, RotateRow(q) \/ RowFails(q)
    PROVE  VaultInv'
  <1> DEFINE rot == rotation[q]
             x == NextListed(q)
             opens == x[2] = rot.old
             rest == rot.left \ {x}
  <1>1. /\ rot.pc = "rows" /\ rot.left # {}
        /\ \/ vault' = vault
           \/ opens /\ vault' = [vault EXCEPT ![x[1]] = rot.new]
        /\ UNCHANGED <<masterPassword, maker, vaultHistory>>
    BY DEF RotateRow, RowFails
  <1>2. PICK e \in BOOLEAN :
            /\ rotation' = [rotation EXCEPT ![q].left = rest, ![q].errors = e]
            /\ ~e => ~rot.errors /\ opens /\ vault' = [vault EXCEPT ![x[1]] = rot.new]
    <2>1. rot.errors \in BOOLEAN
      BY <1>1, Forms DEF VaultInv, Going
    <2>2. CASE RotateRow(q)
      <3>1. (rot.errors \/ ~opens) \in BOOLEAN
        OBVIOUS
      <3>2. rotation' = [rotation EXCEPT ![q].left = rest, ![q].errors = rot.errors \/ ~opens]
        BY <2>2 DEF RotateRow
      <3>3. opens => vault' = [vault EXCEPT ![x[1]] = rot.new]
        BY <2>2 DEF RotateRow
      <3> QED BY <2>1, <3>1, <3>2, <3>3
    <2>3. CASE RowFails(q)
      BY <2>3 DEF RowFails
    <2> QED BY <2>2, <2>3
  <1>3. rot \in Going /\ x \in rot.left
    BY <1>1, Forms, NextIsLeft DEF VaultInv
  <1>4. x[1] \in Record /\ x[2] \in Password /\ x = <<x[1], x[2]>> /\ vault[x[1]] # NoRecord
    BY <1>1, <1>3 DEF Going, VaultInv, ListedExists
  <1> PICK n \in Record : n = x[1]
    BY <1>4
  <1> DEFINE now == [rot EXCEPT !.left = rest, !.errors = e]
  <1>5. now \in Going
    BY <1>3 DEF Going
  <1>6. rotation'[q] = now /\ \A p \in Rotation : p # q => rotation'[p] = rotation[p]
    BY <1>2 DEF VaultInv, VaultStateOK
  <1>7. /\ now.pc = "rows" /\ now.table = rot.table /\ now.old = rot.old /\ now.new = rot.new
        /\ now.left = rest /\ now.errors = e
    BY <1>1, <1>3 DEF Going
  <1> HIDE DEF now, x
  <1>8. VaultStateOK'
    <2>1. rotation' \in [Rotation -> {Asleep} \cup Listing \cup Going \cup Rotated]
      BY <1>2, <1>5, <1>6 DEF VaultInv, VaultStateOK
    <2> QED BY <1>1, <2>1 DEF VaultInv, VaultStateOK, vaultHistory
  <1>9. /\ VaultTypeOK'
        /\ \A r \in Record : r # x[1] => vault'[r] = vault[r]
        /\ \A r \in Record : vault'[r] # NoRecord <=> vault[r] # NoRecord
    <2>1. rot.new \in Password
      BY <1>3 DEF Going
    <2> QED BY <1>1, <1>4, <2>1, VaultAssumption DEF VaultInv, VaultTypeOK
  <1>10. OneSeed'
    BY <1>1, <1>9 DEF VaultInv, OneSeed, vaultHistory
  <1>11. ListedExists'
    <2>1. ASSUME NEW p \in Rotation, rotation'[p].pc = "rows", NEW y \in rotation'[p].left
          PROVE  vault'[y[1]] # NoRecord /\ y[1][1] = TableOrder[rotation'[p].table]
      <3>1. rotation[p].pc = "rows" /\ y \in rotation[p].left
        BY <1>1, <1>6, <1>7, <2>1
      <3>2. y[1] \in Record /\ vault[y[1]] # NoRecord
        BY <3>1, Forms DEF VaultInv, ListedExists, Going
      <3>3. y[1][1] = TableOrder[rotation'[p].table]
        BY <1>6, <1>7, <3>1 DEF VaultInv, ListedExists
      <3> QED BY <3>2, <3>3, <1>9
    <2> QED BY <2>1 DEF ListedExists
  <1>12. ASSUME ~crossed
         PROVE  OneRotation' /\ ListedIsCurrent'
    <2>1. OneRotation'
      BY <1>1, <1>6, <1>7, <1>12 DEF VaultInv, OneRotation, Asleep
    <2>2. ASSUME NEW p \in Rotation, rotation'[p].pc = "rows", NEW y \in rotation'[p].left
          PROVE  y[2] = vault'[y[1]]
      <3>1. p = q
        BY <1>1, <1>6, <1>12, <2>2 DEF VaultInv, OneRotation, Asleep
      <3>2. y \in rot.left /\ y # x
        BY <1>6, <1>7, <2>2, <3>1
      <3>3. y[2] = vault[y[1]] /\ x[2] = vault[x[1]] /\ y \in Record \X Password
        BY <1>1, <1>3, <1>12, <3>2 DEF VaultInv, ListedIsCurrent, Going
      <3>4. y[1] # x[1] /\ y[1] \in Record
        BY <1>4, <3>2, <3>3
      <3> QED BY <1>9, <3>3, <3>4
    <2> QED BY <2>1, <2>2 DEF ListedIsCurrent
  <1>13. ASSUME ~crossed, ~partial
         PROVE  HalfWay' /\ AllRotated'
    <2>1. \A p \in Rotation : p # q => rotation'[p].pc = "idle"
      BY <1>1, <1>6, <1>13 DEF VaultInv, OneRotation, Asleep
    <2>2. ASSUME ~e
          PROVE  /\ rot.old = masterPassword
                 /\ \A r \in Record \ storedLate : vault'[r] # NoRecord =>
                     vault'[r] = IF Ahead(q, r)' THEN rot.old ELSE rot.new
      <3>1. /\ rot.old = masterPassword
            /\ \A r \in Record \ storedLate : vault[r] # NoRecord =>
                vault[r] = IF Ahead(q, r) THEN rot.old ELSE rot.new
        BY <1>1, <1>2, <1>13, <2>2 DEF VaultInv, HalfWay
      <3>2. \A r \in Record : r # n => (Ahead(q, r)' <=> Ahead(q, r))
        <4> TAKE r \in Record
        <4> HAVE r # n
        <4>1. \A w \in Password : <<r, w>> # x
          BY <1>4
        <4>2. \A w \in Password : <<r, w>> \in rest <=> <<r, w>> \in rot.left
          BY <4>1
        <4> HIDE DEF rest
        <4> QED BY <1>1, <1>6, <1>7, <4>2 DEF Ahead
      <3>3. ~Ahead(q, n)'
        <4>1. \A w \in Password : <<n, w>> \notin rest
          <5> SUFFICES ASSUME NEW w \in Password, <<n, w>> \in rot.left, w # x[2]
                       PROVE  FALSE
            BY <1>4
          <5> DEFINE y == <<n, w>>
          <5>1. y[2] = vault[y[1]] /\ x[2] = vault[x[1]]
            BY <1>1, <1>3, <1>13 DEF VaultInv, ListedIsCurrent
          <5> QED BY <5>1
        <4>2. TableOrder[rot.table] = n[1]
          BY <1>1, <1>3 DEF VaultInv, ListedExists
        <4>3. \A k \in 1..4 : TableOrder[k] = n[1] => k = rot.table
          BY <1>3, <1>4, <4>2, TableOf DEF Going
        <4>4. rot.table \in 1..4
          BY <1>3 DEF Going
        <4>5. /\ rotation'[q].table = rot.table /\ rotation'[q].pc = "rows"
              /\ rotation'[q].left = rest
          BY <1>6, <1>7
        <4>6. \A k \in rot.table .. 4 : TableOrder[k] = n[1] => ~ (k > rot.table)
          BY <4>3, <4>4
        <4> HIDE DEF rest
        <4> QED BY <4>1, <4>5, <4>6 DEF Ahead
      <3>4. vault'[n] = rot.new
        BY <1>2, <1>4, <2>2 DEF VaultInv, VaultTypeOK
      <3>5. ASSUME NEW r \in Record \ storedLate, vault'[r] # NoRecord
            PROVE  vault'[r] = IF Ahead(q, r)' THEN rot.old ELSE rot.new
        <4>1. CASE r = n
          BY <3>3, <3>4, <4>1
        <4>2. CASE r # n
          <5>1. vault'[r] = vault[r] /\ (Ahead(q, r)' <=> Ahead(q, r))
            BY <1>9, <3>2, <4>2
          <5>2. vault[r] = IF Ahead(q, r) THEN rot.old ELSE rot.new
            BY <3>1, <3>5, <5>1
          <5>3. CASE Ahead(q, r)
            BY <5>1, <5>2, <5>3
          <5>4. CASE ~Ahead(q, r)
            BY <5>1, <5>2, <5>4
          <5> QED BY <5>3, <5>4
        <4> QED BY <4>1, <4>2
      <3> QED BY <3>1, <3>5
    <2> QED BY <1>1, <1>6, <1>7, <2>1, <2>2 DEF HalfWay, AllRotated, vaultHistory
  <1>14. VaultIsReadable'
    BY <1>6, <1>7 DEF VaultIsReadable, Asleep
  <1> QED BY <1>1, <1>8, <1>9, <1>10, <1>11, <1>12, <1>13, <1>14 DEF VaultInv, vaultHistory

\* The next table: a table whose rows are done is behind.
LEMMA TableKeepsInv ==
    ASSUME VaultInv, NEW q \in Rotation, NextTable(q)
    PROVE  VaultInv'
  <1> DEFINE rot == rotation[q]
             next == [pc |-> "list", table |-> rot.table + 1, old |-> rot.old, new |-> rot.new,
                      errors |-> rot.errors]
  <1>1. /\ rot.pc = "rows" /\ rot.left = {}
        /\ rot.table < 4
        /\ rotation' = [rotation EXCEPT ![q] = next]
        /\ UNCHANGED <<vault, masterPassword, maker, vaultHistory>>
    BY TableNames DEF NextTable
  <1>2. rot \in Going
    BY <1>1, Forms DEF VaultInv
  <1>3. next \in Listing
    BY <1>1, <1>2 DEF Listing, Going
  <1>4. VaultStateOK'
    BY <1>1, <1>3 DEF VaultInv, VaultStateOK, vaultHistory
  <1>5. rotation'[q] = next /\ \A p \in Rotation : p # q => rotation'[p] = rotation[p]
    BY <1>1 DEF VaultInv, VaultStateOK
  <1>6. VaultTypeOK' /\ OneSeed'
    BY <1>1 DEF VaultInv, VaultTypeOK, OneSeed, vaultHistory
  <1>7. ListedExists'
    BY <1>1, <1>5 DEF VaultInv, ListedExists
  <1>8. ASSUME ~crossed
        PROVE  OneRotation' /\ ListedIsCurrent'
    BY <1>1, <1>5, <1>8 DEF VaultInv, OneRotation, ListedIsCurrent, Asleep
  <1>9. \A r \in Record : Ahead(q, r)' <=> Ahead(q, r)
    <2>1. rot.table \in 1..3
      BY <1>1, <1>2 DEF Going
    <2> QED BY <1>1, <1>5, <2>1 DEF Ahead
  <1>10. \A p \in Rotation, r \in Record : p # q => (Ahead(p, r)' <=> Ahead(p, r))
    BY <1>5 DEF Ahead
  <1>11. ASSUME ~crossed, ~partial
         PROVE  HalfWay' /\ AllRotated'
    BY <1>1, <1>5, <1>9, <1>10, <1>11 DEF VaultInv, HalfWay, AllRotated, vaultHistory
  <1>12. VaultIsReadable'
    BY <1>5 DEF VaultIsReadable, Asleep
  <1> QED BY <1>1, <1>4, <1>6, <1>7, <1>8, <1>11, <1>12 DEF VaultInv, vaultHistory

\* A rotation ends: with no row ahead, or with errors.
LEMMA FinishKeepsInv ==
    ASSUME VaultInv, NEW q \in Rotation, FinishRotation(q)
    PROVE  VaultInv'
  <1> DEFINE rot == rotation[q]
             ended == IF rot.errors THEN Asleep ELSE [pc |-> "done", new |-> rot.new]
  <1>1. /\ rot.pc = "rows" /\ rot.left = {}
        /\ rot.table = 4
        /\ rotation' = [rotation EXCEPT ![q] = ended]
        /\ partial' = (partial \/ rot.errors)
        /\ UNCHANGED <<vault, masterPassword, maker, storedLate, crossed>>
    BY TableNames DEF FinishRotation
  <1>2. rot \in Going
    BY <1>1, Forms DEF VaultInv
  <1>3. ended \in {Asleep} \cup Rotated
    BY <1>2 DEF Going, Rotated
  <1>4. VaultStateOK'
    <2>1. partial' \in BOOLEAN
      BY <1>1
    <2> QED BY <1>1, <1>3, <2>1 DEF VaultInv, VaultStateOK
  <1>5. rotation'[q] = ended /\ \A p \in Rotation : p # q => rotation'[p] = rotation[p]
    BY <1>1 DEF VaultInv, VaultStateOK
  <1>6. VaultTypeOK' /\ OneSeed'
    BY <1>1 DEF VaultInv, VaultTypeOK, OneSeed
  <1>7. ended.pc # "rows" /\ ended.pc # "list"
    BY DEF Asleep
  <1>8. ListedExists'
    BY <1>1, <1>5, <1>7 DEF VaultInv, ListedExists
  <1>9. ASSUME ~crossed
        PROVE  OneRotation' /\ ListedIsCurrent'
    BY <1>1, <1>5, <1>7, <1>9 DEF VaultInv, OneRotation, ListedIsCurrent, Asleep
  <1>10. ASSUME ~crossed, ~partial'
         PROVE  HalfWay' /\ AllRotated'
    <2>1. ~partial /\ ~rot.errors /\ ended = [pc |-> "done", new |-> rot.new]
      BY <1>1, <1>10
    <2>2. \A p \in Rotation : p # q => rotation'[p].pc = "idle"
      BY <1>1, <1>5, <1>10 DEF VaultInv, OneRotation, Asleep
    <2>3. \A r \in Record : ~Ahead(q, r)
      BY <1>1 DEF Ahead
    <2>4. \A r \in Record \ storedLate : vault[r] \in {rot.new, NoRecord}
      BY <1>1, <1>10, <2>1, <2>3 DEF VaultInv, HalfWay
    <2> QED BY <1>1, <1>5, <2>1, <2>2, <2>4 DEF HalfWay, AllRotated
  <1>11. VaultIsReadable'
    <2> SUFFICES ASSUME \A p \in Rotation : rotation'[p] = Asleep, ~partial', ~crossed'
                 PROVE  FALSE
      BY DEF VaultIsReadable
    <2>1. ended = [pc |-> "done", new |-> rot.new]
      BY <1>1
    <2> QED BY <1>5, <2>1 DEF Asleep
  <1> QED BY <1>1, <1>4, <1>6, <1>8, <1>9, <1>10, <1>11 DEF VaultInv

\* A process that starts has no rotations; after a crash it has lost one.
LEMMA StartKeepsInv ==
    ASSUME VaultInv,
           \/ \E q \in Rotation : RestartWithNew(q)
           \/ VaultCrashes
    PROVE  VaultInv'
  <1>1. PICK password \in Password :
            /\ StartsWith(password)
            /\ \/ partial'
               \/ /\ UNCHANGED partial
                  /\ \E q \in Rotation : rotation[q].pc = "done" /\ password = rotation[q].new
    <2>1. CASE VaultCrashes
      BY <2>1 DEF VaultCrashes, VaultInv, VaultTypeOK
    <2>2. CASE \E q \in Rotation : RestartWithNew(q)
      BY <2>2, Forms DEF RestartWithNew, VaultInv, Rotated
    <2> QED BY <2>1, <2>2
  <1>2. /\ masterPassword' = password
        /\ rotation' = [q \in Rotation |-> Asleep] /\ maker' = [m \in Maker |-> Asleep]
        /\ UNCHANGED <<vault, storedLate, crossed>>
    BY <1>1 DEF StartsWith
  <1>3. partial' \in BOOLEAN
    BY DEF RestartWithNew, VaultCrashes, VaultInv, VaultStateOK
  <1>4. VaultStateOK' /\ VaultTypeOK' /\ OneSeed'
    BY <1>2, <1>3 DEF VaultInv, VaultStateOK, VaultTypeOK, OneSeed
  <1>5. \A q \in Rotation : rotation'[q] = Asleep /\ rotation'[q].pc = "idle"
    BY <1>2 DEF Asleep
  <1>6. ListedExists' /\ OneRotation' /\ ListedIsCurrent' /\ HalfWay' /\ AllRotated'
    BY <1>5 DEF ListedExists, OneRotation, ListedIsCurrent, HalfWay, AllRotated
  <1>7. VaultIsReadable'
    BY <1>1, <1>2 DEF VaultInv, AllRotated, VaultIsReadable
  <1> QED BY <1>4, <1>6, <1>7 DEF VaultInv

-----------------------------------------------------------------------------
\* rotateMasterPassword: the vault's rows and the password of the process keep
\* their types, and the process can decrypt every row when no rotation is under
\* way, but for the rows that were stored late and for what a partial, a crashed or
\* a second rotation has left behind.
THEOREM VaultStaysReadable == VaultSpec => [](VaultTypeOK /\ VaultIsReadable)
  <1>1. VaultInit => VaultInv
    BY InitKeepsInv
  <1>2. VaultInv /\ [VaultNext]_vaultVars => VaultInv'
    <2> SUFFICES ASSUME VaultInv, [VaultNext]_vaultVars
                 PROVE  VaultInv'
      OBVIOUS
    <2>1. CASE CreateProjectSeed
      <3>1. maker' \in [Maker -> {Asleep} \cup Making]
        BY <2>1 DEF CreateProjectSeed, VaultInv, VaultStateOK
      <3> QED BY <2>1, <3>1, StoreKeepsInv, TableNames DEF CreateProjectSeed
    <2>2. CASE \E m \in Maker : LoadSource(m) \/ StoreDerived(m) \/ MakerStops(m)
      BY <2>2, MakerKeepsInv
    <2>3. ASSUME NEW q \in Rotation, NEW old \in Password, NEW new \in Password,
                 RequestRotation(q, old, new)
          PROVE  VaultInv'
      BY <2>3, RequestKeepsInv
    <2>4. ASSUME NEW q \in Rotation, ListRows(q) PROVE VaultInv'
      BY <2>4, ListKeepsInv
    <2>5. ASSUME NEW q \in Rotation, RotateRow(q) \/ RowFails(q) PROVE VaultInv'
      BY <2>5, RowKeepsInv
    <2>6. ASSUME NEW q \in Rotation, NextTable(q) PROVE VaultInv'
      BY <2>6, TableKeepsInv
    <2>7. ASSUME NEW q \in Rotation, FinishRotation(q) PROVE VaultInv'
      BY <2>7, FinishKeepsInv
    <2>8. CASE (\E q \in Rotation : RestartWithNew(q)) \/ VaultCrashes
      BY <2>8, StartKeepsInv
    <2>9. CASE UNCHANGED vaultVars
      BY <2>9, RestKeepsInv DEF vaultVars, vaultHistory, VaultInv, VaultStateOK
    <2> QED BY <2>1, <2>2, <2>3, <2>4, <2>5, <2>6, <2>7, <2>8, <2>9 DEF VaultNext
  <1>3. VaultInv => VaultTypeOK /\ VaultIsReadable
    BY DEF VaultInv
  <1> QED BY <1>1, <1>2, <1>3, PTL DEF VaultSpec

-----------------------------------------------------------------------------
(* Deletion of a project *)

CallerState ==
    {Off} \cup [pc : {"impact", "withdrawals", "balance", "schedule", "cancel"}]
          \cup [pc : {"clean"}, next : 1..4]
JobState ==
    {Off} \cup [pc : {"deposits", "withdrawals", "soft"}] \cup [pc : {"clean"}, next : 1..4]

DeletionStateOK ==
    /\ caller \in [Caller -> CallerState]
    /\ job \in JobState
    /\ {deposits, withdrawals, late, uncounted, interrupted, lateCancel} \subseteq BOOLEAN

\* the wallets go first, the keys after them
WalletsFirst ==
    ~late =>
        /\ "keys" \notin parts => "wallets" \notin parts
        /\ Cleaning(job) /\ job.next \in 2..3 => "wallets" \notin parts
        /\ \A c \in Caller :
            Cleaning(caller[c]) /\ caller[c].next \in 2..3 => "wallets" \notin parts

\* nothing is deleted, nor counted as missing, by one who counted before it was
\* recorded
NoneDeletes ==
    (deposits \/ withdrawals) /\ ~late /\ ~uncounted =>
        /\ ~Cleaning(job)
        /\ \A c \in Caller : ~Cleaning(caller[c]) /\ caller[c].pc # "balance"
        /\ job.pc = "withdrawals" => ~deposits
        /\ \A c \in Caller : caller[c].pc = "withdrawals" => ~deposits

\* the job works on projects that are not active
JobIsDue == job # Off /\ projectStatus = "active" => lateCancel

DeletionInv ==
    /\ DeletionTypeOK /\ DeletionStateOK
    /\ WalletsFirst /\ NoneDeletes /\ JobIsDue
    /\ ActiveIsWhole /\ KeysOutliveUse

\* the parts, in the order of the cleanup
LEMMA PartNames ==
    /\ Len(Cleanup) = 3
    /\ Cleanup[1] = "wallets" /\ Cleanup[2] = "chains" /\ Cleanup[3] = "keys"
    /\ Parts = {"wallets", "chains", "keys"}
  <1>1. /\ Len(Cleanup) = 3
        /\ Cleanup[1] = "wallets" /\ Cleanup[2] = "chains" /\ Cleanup[3] = "keys"
    BY DEF Cleanup
  <1>2. 1..3 = {1, 2, 3}
    OBVIOUS
  <1> QED BY <1>1, <1>2 DEF Parts

\* A request of client-api keeps the invariant.
LEMMA CallerKeepsInv ==
    ASSUME DeletionInv, NEW c \in Caller,
           \/ RequestDeletion(c)
           \/ ImpactDeposits(c)
           \/ ImpactWithdrawals(c)
           \/ Decide(c)
           \/ Schedule(c)
           \/ CleanNow(c)
           \/ CleanupFails(c)
           \/ DeleteNow(c)
           \/ CancelDeletion(c)
           \/ Restore(c)
           \/ CallerFails(c)
    PROVE  DeletionInv'
  <1> USE DEF DeletionInv, DeletionTypeOK, DeletionStateOK, CallerState, deletionHistory, StepTo, Off
  <1>0. UNCHANGED job
    BY DEF RequestDeletion, ImpactDeposits, ImpactWithdrawals, Decide, Schedule, CleanNow, CleanupFails, DeleteNow, CancelDeletion,
           Restore, CallerFails
  <1>1. CASE RequestDeletion(c)
    BY <1>0, <1>1 DEF RequestDeletion, WalletsFirst, NoneDeletes, JobIsDue, ActiveIsWhole,
                KeysOutliveUse, Cleaning
  <1>10. CASE ImpactDeposits(c)
    BY <1>0, <1>10 DEF ImpactDeposits, WalletsFirst, NoneDeletes, JobIsDue, ActiveIsWhole,
                KeysOutliveUse, Cleaning
  <1>11. CASE ImpactWithdrawals(c)
    BY <1>0, <1>11 DEF ImpactWithdrawals, WalletsFirst, NoneDeletes, JobIsDue, ActiveIsWhole,
                KeysOutliveUse, Cleaning
  <1>2. CASE Decide(c)
    BY <1>0, <1>2 DEF Decide, WalletsFirst, NoneDeletes, JobIsDue, ActiveIsWhole,
                KeysOutliveUse, Cleaning, FromFirst
  <1>3. CASE Schedule(c)
    BY <1>0, <1>3 DEF Schedule, Scheduled, WalletsFirst, NoneDeletes, JobIsDue, ActiveIsWhole,
                KeysOutliveUse, Cleaning
  <1>4. CASE CleanNow(c)
    BY <1>0, <1>4, PartNames DEF CleanNow, WalletsFirst, NoneDeletes, JobIsDue, ActiveIsWhole,
                KeysOutliveUse, Cleaning
  <1>5. CASE CleanupFails(c)
    BY <1>0, <1>5, PartNames DEF CleanupFails, WalletsFirst, NoneDeletes, JobIsDue, ActiveIsWhole,
                KeysOutliveUse, Cleaning
  <1>6. CASE DeleteNow(c)
    BY <1>0, <1>6 DEF DeleteNow, WalletsFirst, NoneDeletes, JobIsDue, ActiveIsWhole,
                KeysOutliveUse, Cleaning
  <1>7. CASE CancelDeletion(c)
    BY <1>0, <1>7 DEF CancelDeletion, WalletsFirst, NoneDeletes, JobIsDue, ActiveIsWhole,
                KeysOutliveUse, Cleaning
  <1>8. CASE Restore(c)
    BY <1>0, <1>8 DEF Restore, Begun, WalletsFirst, NoneDeletes, JobIsDue, ActiveIsWhole,
                KeysOutliveUse, Cleaning
  <1>9. CASE CallerFails(c)
    BY <1>0, <1>9 DEF CallerFails, WalletsFirst, NoneDeletes, JobIsDue, ActiveIsWhole,
                KeysOutliveUse, Cleaning
  <1> QED BY <1>1, <1>2, <1>3, <1>4, <1>5, <1>6, <1>7, <1>8, <1>9, <1>10, <1>11

\* The daily job keeps the invariant.
LEMMA JobKeepsInv ==
    ASSUME DeletionInv,
           \/ ListDue
           \/ CountDeposits
           \/ CountWithdrawals
           \/ CleanDue
           \/ DeleteDue
           \/ SoftDelete
           \/ JobFails
    PROVE  DeletionInv'
  <1> USE DEF DeletionInv, DeletionTypeOK, DeletionStateOK, JobState, deletionHistory, Off
  <1>1. CASE ListDue
    BY <1>1 DEF ListDue, WalletsFirst, NoneDeletes, JobIsDue, ActiveIsWhole,
                KeysOutliveUse, Cleaning
  <1>2. CASE CountDeposits
    BY <1>2 DEF CountDeposits, WalletsFirst, NoneDeletes, JobIsDue, ActiveIsWhole,
                KeysOutliveUse, Cleaning
  <1>3. CASE CountWithdrawals
    BY <1>3 DEF CountWithdrawals, WalletsFirst, NoneDeletes, JobIsDue, ActiveIsWhole,
                KeysOutliveUse, Cleaning, FromFirst
  <1>4. CASE CleanDue
    BY <1>4, PartNames DEF CleanDue, WalletsFirst, NoneDeletes, JobIsDue, ActiveIsWhole,
                KeysOutliveUse, Cleaning
  <1>5. CASE DeleteDue
    BY <1>5, PartNames DEF DeleteDue, WalletsFirst, NoneDeletes, JobIsDue, ActiveIsWhole,
                KeysOutliveUse, Cleaning
  <1>6. CASE SoftDelete
    BY <1>6 DEF SoftDelete, WalletsFirst, NoneDeletes, JobIsDue, ActiveIsWhole,
                KeysOutliveUse, Cleaning
  <1>7. CASE JobFails
    BY <1>7 DEF JobFails, WalletsFirst, NoneDeletes, JobIsDue, ActiveIsWhole,
                KeysOutliveUse, Cleaning
  <1> QED BY <1>1, <1>2, <1>3, <1>4, <1>5, <1>6, <1>7

\* The setup and the administrator keep the invariant.
LEMMA OthersKeepInv ==
    ASSUME DeletionInv,
           \/ \E p \in Parts : SetUp(p)
           \/ \E status \in {"active", "inactive"} : AdminSetsStatus(status)
    PROVE  DeletionInv'
  <1> USE DEF DeletionInv, DeletionTypeOK, DeletionStateOK, deletionHistory
  <1>1. ASSUME NEW p \in Parts, SetUp(p)
        PROVE  DeletionInv'
    <2>1. /\ p \notin parts /\ (p = "wallets" => "keys" \in made)
          /\ parts' = parts \cup {p} /\ made' = made \cup {p}
          /\ late' = (late \/ Counted \/ parts # made)
          /\ UNCHANGED <<projectStatus, deposits, withdrawals, caller, job, uncounted,
                         interrupted, lateCancel>>
      BY <1>1 DEF SetUp
    <2>2. DeletionTypeOK' /\ DeletionStateOK'
      BY <2>1
    <2>3. ASSUME ~late'
          PROVE  /\ ~late /\ parts = made /\ ~Cleaning(job)
                 /\ \A c \in Caller : ~Cleaning(caller[c])
      <3>1. ~late /\ ~Counted /\ parts = made
        BY <2>1, <2>3
      <3>2. job = Off /\ \A c \in Caller : ~Cleaning(caller[c])
        BY <3>1 DEF Counted
      <3> QED BY <3>1, <3>2 DEF Off, Cleaning
    <2>4. WalletsFirst'
      BY <2>1, <2>3 DEF WalletsFirst, Cleaning
    <2>5. NoneDeletes' /\ JobIsDue' /\ ActiveIsWhole' /\ KeysOutliveUse'
      BY <2>1, <2>3 DEF NoneDeletes, JobIsDue, ActiveIsWhole, KeysOutliveUse, Cleaning
    <2> QED BY <2>2, <2>4, <2>5
  <1>2. ASSUME NEW status \in {"active", "inactive"}, AdminSetsStatus(status)
        PROVE  DeletionInv'
    BY <1>2 DEF AdminSetsStatus, Begun, WalletsFirst, NoneDeletes, JobIsDue, ActiveIsWhole,
                KeysOutliveUse, Cleaning
  <1> QED BY <1>1, <1>2

\* Deposits and withdrawals, and the passing of time, keep the invariant.
LEMMA UseKeepsInv ==
    ASSUME DeletionInv, Use \/ GraceEnds
    PROVE  DeletionInv'
  <1> USE DEF DeletionInv, DeletionTypeOK, DeletionStateOK, deletionHistory
  <1>1. CASE Use
    <2>1. /\ "wallets" \in parts
          /\ UNCHANGED <<projectStatus, parts, made, caller, job, uncounted, interrupted,
                         lateCancel>>
          /\ late' = (late \/ Counted)
      BY <1>1 DEF Use
    <2>2. deposits' \in BOOLEAN /\ withdrawals' \in BOOLEAN /\ late' \in BOOLEAN
      BY <1>1, <2>1 DEF Use
    <2>3. DeletionTypeOK' /\ DeletionStateOK'
      BY <2>1, <2>2
    <2>4. WalletsFirst' /\ JobIsDue' /\ ActiveIsWhole'
      BY <2>1 DEF WalletsFirst, JobIsDue, ActiveIsWhole, Cleaning
    <2>5. ASSUME ~late'
          PROVE  /\ job.pc = "idle" /\ ~Cleaning(job)
                 /\ \A c \in Caller : ~Cleaning(caller[c]) /\ caller[c].pc \notin Counting
      <3>1. ~Counted
        BY <2>1, <2>5
      <3>2. job = Off /\ \A c \in Caller : ~Cleaning(caller[c]) /\ caller[c].pc \notin Counting
        BY <3>1 DEF Counted
      <3> QED BY <3>2 DEF Off, Cleaning
    <2>6. NoneDeletes'
      BY <2>1, <2>5 DEF NoneDeletes, Cleaning, Counting
    <2>7. KeysOutliveUse'
      BY <2>1 DEF KeysOutliveUse, WalletsFirst
    <2> QED BY <2>3, <2>4, <2>6, <2>7
  <1>2. CASE GraceEnds
    BY <1>2 DEF GraceEnds, Scheduled, WalletsFirst, NoneDeletes, JobIsDue, ActiveIsWhole,
                KeysOutliveUse, Cleaning
  <1> QED BY <1>1, <1>2

-----------------------------------------------------------------------------
\* What the setup, requests, the administrator, the daily job and failures do to a project
\* keeps the invariant.
LEMMA DeletionInvHolds == DeletionSpec => []DeletionInv
  <1>1. DeletionInit => DeletionInv
    <2> SUFFICES ASSUME DeletionInit PROVE DeletionInv
      OBVIOUS
    <2>1. /\ job = Off /\ ~Cleaning(job) /\ job.pc = "idle"
          /\ \A c \in Caller : caller[c] = Off /\ ~Cleaning(caller[c])
      BY DEF DeletionInit, Off, Cleaning
    <2>2. DeletionTypeOK /\ DeletionStateOK
      BY <2>1 DEF DeletionInit, DeletionTypeOK, DeletionStateOK, CallerState, JobState
    <2>3. WalletsFirst /\ NoneDeletes /\ JobIsDue /\ ActiveIsWhole /\ KeysOutliveUse
      BY <2>1, PartNames
         DEF DeletionInit, WalletsFirst, NoneDeletes, JobIsDue, ActiveIsWhole, KeysOutliveUse
    <2> QED BY <2>2, <2>3 DEF DeletionInv
  <1>2. DeletionInv /\ [DeletionNext]_deletionVars => DeletionInv'
    <2> SUFFICES ASSUME DeletionInv, [DeletionNext]_deletionVars
                 PROVE  DeletionInv'
      OBVIOUS
    <2>1. CASE DeletionNext
      BY <2>1, CallerKeepsInv, JobKeepsInv, UseKeepsInv, OthersKeepInv DEF DeletionNext
    <2>2. CASE UNCHANGED deletionVars
      BY <2>2 DEF deletionVars, deletionHistory, DeletionInv, DeletionTypeOK, DeletionStateOK,
                  WalletsFirst, NoneDeletes, JobIsDue, ActiveIsWhole, KeysOutliveUse, Cleaning
    <2> QED BY <2>1, <2>2
  <1> QED BY <1>1, <1>2, PTL DEF DeletionSpec

\* requestDeletion and processPendingDeletions: the project, its parts, the requests and
\* the daily job keep their types.
THEOREM DeletionTypes == DeletionSpec => []DeletionTypeOK
  <1>1. DeletionInv => DeletionTypeOK
    BY DEF DeletionInv
  <1> QED BY <1>1, DeletionInvHolds, PTL

\* cancelDeletion, admin-api's update and a deletion that failed: a project that can be used
\* has all that was set up of it, but for the cases that the property names.
THEOREM ProjectIsWhole == DeletionSpec => []ActiveIsWhole
  <1>1. DeletionInv => ActiveIsWhole
    BY DEF DeletionInv
  <1> QED BY <1>1, DeletionInvHolds, PTL

\* The counts of deposits and withdrawals before a deletion: the keys of a project that has
\* some stay, but for the cases that the property names.
THEOREM KeysStay == DeletionSpec => []KeysOutliveUse
  <1>1. DeletionInv => KeysOutliveUse
    BY DEF DeletionInv
  <1> QED BY <1>1, DeletionInvHolds, PTL

-----------------------------------------------------------------------------
(* The four components in one behaviour *)

\* A step of the composition is a step of one component and leaves the others alone, so
\* what is proved of each component holds in the composition.
THEOREM PartsKeepTheirSpecs == Spec => WebhookSpec /\ DeploySpec /\ DeletionSpec /\ VaultSpec
  <1>1. Init => WebhookInit /\ DeployInit /\ DeletionInit /\ VaultInit
    BY DEF Init
  <1>2. [Next]_vars => /\ [WebhookNext]_webhookVars /\ [DeployNext]_deployVars
                       /\ [DeletionNext]_deletionVars /\ [VaultNext]_vaultVars
    BY DEF Next, vars, Webhooks, Deploy, Deletion, Vault
  <1> QED BY <1>1, <1>2, PTL DEF Spec, WebhookSpec, DeploySpec, DeletionSpec, VaultSpec

\* Deliveries, deployments, deletions and rotations keep their rows, jobs and counters
\* within their types.
THEOREM ServiceTypes == Spec => []TypeOK
  <1>1. VaultSpec => []VaultTypeOK
    BY VaultStaysReadable, PTL
  <1>2. WebhookTypeOK /\ DeployTypeOK /\ DeletionTypeOK /\ VaultTypeOK => TypeOK
    BY DEF TypeOK
  <1> QED BY <1>1, <1>2, PartsKeepTheirSpecs, WebhookTypes, DeployTypes, DeletionTypes, PTL
=============================================================================
