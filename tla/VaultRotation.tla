--------------------------- MODULE VaultRotation ---------------------------
(***************************************************************************)
(* key-vault-service: key-rotation.service.ts encrypts every row of the    *)
(* vault anew, table by table and each row in a transaction of its own,    *)
(* while key-generation, project-key and shamir go on adding rows under    *)
(* the password the process was started with.                              *)
(***************************************************************************)
EXTENDS Integers, Sequences

CONSTANTS
    Password,
    FirstPassword,  \* the password of a new vault
    NoRecord,       \* no such row
    Rows,           \* bound: rows of each table, [Tables -> Nat]
    Rotation,       \* calls of rotateMasterPassword under way at a time
    Maker,          \* calls that derive keys or split them, under way at a time
    MaxRotations,   \* bound: calls of rotateMasterPassword
    MaxGlitches     \* bound: errors of the database and restarts

VARIABLES
    vault,          \* the password of each row, or NoRecord
    masterPassword, \* VAULT_MASTER_PASSWORD of the running process
    rotation,       \* what each rotation is doing
    maker,          \* the table for which each maker has something to store
    rotationsLeft, glitchesLeft,
    storedLate,     \* history: rows stored after a rotation had listed their table
    partial,        \* history: a rotation ended without saying it was complete
    crossed         \* history: a rotation began beside another

vaultVars == <<vault, masterPassword, rotation, maker, rotationsLeft, glitchesLeft,
               storedLate, partial, crossed>>

\* in the order of the rotation
TableOrder == <<"master_seeds", "project_seeds", "derived_keys", "shamir_shares">>
Tables == {TableOrder[k] : k \in 1 .. Len(TableOrder)}
Seeds == {"master_seeds", "project_seeds"}

\* there is room for a master seed
ASSUME VaultAssumption ==
    /\ FirstPassword \in Password /\ NoRecord \notin Password
    /\ Rows \in [Tables -> Nat] /\ Rows["master_seeds"] > 0

Record == UNION {{t} \X (1 .. Rows[t]) : t \in Tables}
RecordsOf(t) == {r \in Record : r[1] = t /\ vault[r] # NoRecord}
Asleep == [pc |-> "idle"]

VaultInit ==
    /\ vault = [r \in Record |-> IF r[2] = 1 /\ r[1] # "project_seeds" THEN FirstPassword
                                 ELSE NoRecord]
    /\ masterPassword = FirstPassword
    /\ rotation = [q \in Rotation |-> Asleep]
    /\ maker = [m \in Maker |-> Asleep]
    /\ rotationsLeft = MaxRotations /\ glitchesLeft = MaxGlitches
    /\ storedLate = {} /\ partial = FALSE /\ crossed = FALSE

Glitch == glitchesLeft > 0 /\ glitchesLeft' = glitchesLeft - 1
vaultHistory == <<storedLate, partial, crossed>>

-----------------------------------------------------------------------------
\* a rotation that has not been followed by a restart has read this table
Listed(t) ==
    \E q \in Rotation :
        \/ rotation[q].pc = "done"
        \/ /\ rotation[q] # Asleep
           /\ \E k \in 1 .. rotation[q].table :
                /\ TableOrder[k] = t
                /\ k = rotation[q].table => rotation[q].pc = "rows"

\* encrypted with the password of the process
Store(t) ==
    \E r \in Record :
        /\ r[1] = t /\ vault[r] = NoRecord
        /\ \A s \in Record : s[1] = t /\ s[2] < r[2] => vault[s] # NoRecord
        /\ vault' = [vault EXCEPT ![r] = masterPassword]
        /\ storedLate' = IF Listed(t) THEN storedLate \cup {r} ELSE storedLate

\* a vault has one master seed; the seed of a project is drawn from nothing
CreateProjectSeed ==
    /\ Store("project_seeds")
    /\ UNCHANGED <<masterPassword, rotation, maker, rotationsLeft, glitchesLeft,
                   partial, crossed>>

\* a seed is read and decrypted for keys, a key for its shares
LoadSource(m) ==
    /\ maker[m] = Asleep
    /\ \E r \in Record :
        /\ vault[r] = masterPassword
        /\ r[1] # "shamir_shares"
        /\ maker' = [maker EXCEPT ![m] =
                        [pc |-> "store", table |-> IF r[1] \in Seeds THEN "derived_keys"
                                                   ELSE "shamir_shares"]]
    /\ UNCHANGED <<vault, masterPassword, rotation, rotationsLeft, glitchesLeft, vaultHistory>>

StoreDerived(m) ==
    /\ maker[m] # Asleep
    /\ Store(maker[m].table)
    /\ maker' = [maker EXCEPT ![m] = Asleep]
    /\ UNCHANGED <<masterPassword, rotation, rotationsLeft, glitchesLeft, partial, crossed>>

\* the call ends without storing: there are keys or shares already
MakerStops(m) ==
    /\ maker[m] # Asleep
    /\ maker' = [maker EXCEPT ![m] = Asleep]
    /\ UNCHANGED <<vault, masterPassword, rotation, rotationsLeft, glitchesLeft, vaultHistory>>

-----------------------------------------------------------------------------
\* the old password is tried on the newest master seed
Verified(old) ==
    \A r \in RecordsOf("master_seeds") :
        (\A s \in RecordsOf("master_seeds") : s[2] <= r[2]) => vault[r] = old

RequestRotation(q, old, new) ==
    /\ rotation[q] = Asleep
    /\ rotationsLeft > 0 /\ rotationsLeft' = rotationsLeft - 1
    /\ old # new
    /\ Verified(old)
    /\ rotation' = [rotation EXCEPT ![q] =
                        [pc |-> "list", table |-> 1, old |-> old, new |-> new, errors |-> FALSE]]
    /\ crossed' = (crossed \/ \E p \in Rotation : rotation[p] # Asleep)
    /\ UNCHANGED <<vault, masterPassword, maker, glitchesLeft, storedLate, partial>>

CurrentTable(q) == TableOrder[rotation[q].table]

\* findMany
ListRows(q) ==
    /\ rotation[q].pc = "list"
    /\ rotation' = [rotation EXCEPT ![q] =
                        [pc |-> "rows", table |-> @.table, old |-> @.old, new |-> @.new,
                         errors |-> @.errors,
                         left |-> {<<r, vault[r]>> : r \in RecordsOf(CurrentTable(q))}]]
    /\ UNCHANGED <<vault, masterPassword, maker, rotationsLeft, glitchesLeft, vaultHistory>>

NextListed(q) ==
    CHOOSE x \in rotation[q].left : \A y \in rotation[q].left : x[1][2] <= y[1][2]

\* a row that the old password does not open is an error; the row is written by
\* its id, whatever became of it since it was listed
RotateRow(q) ==
    /\ rotation[q].pc = "rows" /\ rotation[q].left # {}
    /\ LET x == NextListed(q)
           opens == x[2] = rotation[q].old
       IN  /\ vault' = IF opens THEN [vault EXCEPT ![x[1]] = rotation[q].new] ELSE vault
           /\ rotation' = [rotation EXCEPT ![q].left = @ \ {x},
                                           ![q].errors = @ \/ ~opens]
    /\ UNCHANGED <<masterPassword, maker, rotationsLeft, glitchesLeft, vaultHistory>>

\* the database fails before or after the row was written: the next row
RowFails(q) ==
    /\ rotation[q].pc = "rows" /\ rotation[q].left # {}
    /\ Glitch
    /\ LET x == NextListed(q)
       IN  /\ \/ UNCHANGED vault
              \/ x[2] = rotation[q].old /\ vault' = [vault EXCEPT ![x[1]] = rotation[q].new]
           /\ rotation' = [rotation EXCEPT ![q].left = @ \ {x}, ![q].errors = TRUE]
    /\ UNCHANGED <<masterPassword, maker, rotationsLeft, vaultHistory>>

NextTable(q) ==
    /\ rotation[q].pc = "rows" /\ rotation[q].left = {}
    /\ rotation[q].table < Len(TableOrder)
    /\ rotation' = [rotation EXCEPT ![q] =
                        [pc |-> "list", table |-> @.table + 1, old |-> @.old, new |-> @.new,
                         errors |-> @.errors]]
    /\ UNCHANGED <<vault, masterPassword, maker, rotationsLeft, glitchesLeft, vaultHistory>>

\* fault: the answer counts the rows and not the errors
FinishRegardless(q) ==
    /\ rotation[q].pc = "rows" /\ rotation[q].left = {}
    /\ rotation[q].table = Len(TableOrder)
    /\ rotation' = [rotation EXCEPT ![q] = [pc |-> "done", new |-> @.new]]
    /\ UNCHANGED <<vault, masterPassword, maker, rotationsLeft, glitchesLeft, vaultHistory>>

\* the answer: success without errors
FinishRotation(q) ==
    /\ rotation[q].pc = "rows" /\ rotation[q].left = {}
    /\ rotation[q].table = Len(TableOrder)
    /\ rotation' = [rotation EXCEPT ![q] = IF rotation[q].errors THEN Asleep
                                           ELSE [pc |-> "done", new |-> @.new]]
    /\ partial' = (partial \/ rotation[q].errors)
    /\ UNCHANGED <<vault, masterPassword, maker, rotationsLeft, glitchesLeft, storedLate, crossed>>

\* the process starts again with a password
StartsWith(password) ==
    /\ masterPassword' = password
    /\ rotation' = [q \in Rotation |-> Asleep]
    /\ maker' = [m \in Maker |-> Asleep]
    /\ UNCHANGED <<vault, rotationsLeft, storedLate, crossed>>

\* as the controller asks for: VAULT_MASTER_PASSWORD is set after a success
RestartWithNew(q) ==
    /\ rotation[q].pc = "done"
    /\ StartsWith(rotation[q].new)
    /\ UNCHANGED <<glitchesLeft, partial>>

VaultCrashes ==
    /\ Glitch
    /\ \E q \in Rotation : rotation[q] # Asleep
    /\ StartsWith(masterPassword)
    /\ partial' = TRUE

VaultNext ==
    \/ CreateProjectSeed
    \/ \E m \in Maker : LoadSource(m) \/ StoreDerived(m) \/ MakerStops(m)
    \/ \E q \in Rotation :
        \/ \E old, new \in Password : RequestRotation(q, old, new)
        \/ ListRows(q)
        \/ RotateRow(q)
        \/ RowFails(q)
        \/ NextTable(q)
        \/ FinishRotation(q)
        \/ RestartWithNew(q)
    \/ VaultCrashes

VaultSpec == VaultInit /\ [][VaultNext]_vaultVars

-----------------------------------------------------------------------------
VaultTypeOK ==
    /\ vault \in [Record -> Password \cup {NoRecord}]
    /\ masterPassword \in Password

\* While no rotation is under way or waits for its restart, the process can
\* decrypt every row: rotateMasterPassword reports success only when every table
\* was re-encrypted.  A row stored after its table was listed, a rotation that
\* did not report success, and two rotations at a time leave rows behind that the
\* password of the process does not open.
VaultIsReadable ==
    (\A q \in Rotation : rotation[q] = Asleep) /\ ~partial /\ ~crossed
    => \A r \in Record : vault[r] \in {masterPassword, NoRecord} \/ r \in storedLate
=============================================================================
