--------------------------- MODULE DepositRecords ---------------------------
(***************************************************************************)
(* chain-indexer-service: deposit-persistence.handler.ts turns the entries *)
(* of deposits:detected into rows of cvh_wallets.deposits, one for each    *)
(* hash and forwarder, and confirmation-tracker.service.ts counts their    *)
(* confirmations and publishes the milestones to deposits:confirmation     *)
(* before it updates the row.                                              *)
(***************************************************************************)
EXTENDS DepositDetection

CONSTANTS
    Track,          \* calls of checkDeposit under way at a time
    Milestones,     \* [1, 3, 6, 12]
    Required        \* confirmations_required

ASSUME RecordsAssumption ==
    IsFiniteSet(Track) /\ Milestones \subseteq Nat \ {0} /\ Required \in Nat

VARIABLES
    deposit,        \* the rows, NoRow where there is none
    track,          \* what each call of checkDeposit has read
    told            \* how often an event of a transfer was published

records == <<deposit, track, told>>

NoRow == [status |-> "none", amount |-> 0, source |-> "none", confirmations |-> 0]
NoTrack == [pc |-> "idle"]

Milestone(m) == <<"milestone", m>>
Final(s) == <<s, 0>>
Event == {Milestone(m) : m \in Milestones} \cup {Final("confirmed"), Final("reverted")}

RecordsInit ==
    /\ deposit = [h \in Hash |-> NoRow]
    /\ track = [c \in Track |-> NoTrack]
    /\ told = [t \in Transfer |-> [e \in Event |-> 0]]

\* the row an entry is inserted as: a polled balance counts as confirmed
RowOf(m) ==
    [status |-> IF m.source = "polling" THEN "confirmed" ELSE "pending",
     amount |-> m.amount,
     source |-> m.source,
     confirmations |-> IF m.source = "polling" THEN Required ELSE 0]

\* fault: ON DUPLICATE KEY UPDATE also sets the status
UpsertOverwrites(m) == deposit' = [deposit EXCEPT ![m.hash] = RowOf(m)]

\* ON DUPLICATE KEY UPDATE changes neither amount nor status
Upsert(m) ==
    deposit' = IF deposit[m.hash] = NoRow THEN [deposit EXCEPT ![m.hash] = RowOf(m)]
                                          ELSE deposit

\* handleEntry; an entry that is not acknowledged is recovered later
HandleEntry(m, acknowledged) ==
    /\ m \in stream
    /\ Upsert(m)
    /\ stream' = IF acknowledged THEN stream \ {m} ELSE stream
    /\ UNCHANGED <<track, told>>
    /\ UNCHANGED <<mode, poll, balanceCache, announced>>

\* an address or a token without a row in the registry: acknowledged, and nothing written
SkipEntry(m) ==
    /\ m \in stream
    /\ stream' = stream \ {m}
    /\ UNCHANGED <<records, mode, poll, balanceCache, announced>>

\* fault: a deposit is looked at until its first confirmation
OpenIfPending(t) == deposit[t].status = "pending"

Open(t) == deposit[t].status \in {"pending", "confirming"}

\* processChain reads the row and the head; a synthetic hash is left out.  Which idle
\* check it is makes no difference
LoadDeposit(c, t) ==
    /\ track[c] = NoTrack /\ c = CHOOSE d \in Track : track[d] = NoTrack
    /\ Open(t)
    /\ track' = [track EXCEPT ![c] = [pc |-> "receipt", t |-> t, head |-> head,
                                      prev |-> deposit[t].confirmations]]
    /\ UNCHANGED <<deposit, told>>

\* fault: the milestone of the count that is stored is crossed again
CrossedAgain(prev, now) == {m \in Milestones : prev <= m /\ m <= now}

Crossed(prev, now) == {m \in Milestones : prev < m /\ m <= now}

\* what a check will write, from the receipt and the head it has read
Outcome(t, b) ==
    LET count == IF b > blockOf[t] THEN b - blockOf[t] ELSE 0
    IN  IF t \notin Mined THEN [status |-> "reverted", confirmations |-> 0]
        ELSE [status |-> IF count >= Required THEN "confirmed" ELSE "confirming",
              confirmations |-> count]

FinalOf(row) == IF row.status = "confirming" THEN {} ELSE {Final(row.status)}

\* fault: only the highest milestone that was crossed is an event
EventsHighest(prev, row) ==
    {Milestone(m) : m \in {n \in Crossed(prev, row.confirmations) :
                             \A k \in Crossed(prev, row.confirmations) : k <= n}} \cup FinalOf(row)

Events(prev, row) == {Milestone(m) : m \in Crossed(prev, row.confirmations)} \cup FinalOf(row)

Publish(t, E) == told' = [told EXCEPT ![t] = [e \in Event |-> IF e \in E THEN @[e] + 1 ELSE @[e]]]

\* checkDeposit up to the update
ReadReceipt(c) ==
    /\ track[c].pc = "receipt"
    /\ LET t == track[c].t
           row == Outcome(t, track[c].head)
       IN  /\ Publish(t, Events(track[c].prev, row))
           /\ track' = [track EXCEPT ![c] = [pc |-> "update", t |-> t, row |-> row]]
    /\ UNCHANGED deposit

\* the events are published one after the other, the milestones first
PublishFails(c) ==
    /\ track[c].pc = "receipt"
    /\ LET t == track[c].t
           crossed == Crossed(track[c].prev, Outcome(t, track[c].head).confirmations)
       IN  \E m \in crossed : Publish(t, {Milestone(n) : n \in {k \in crossed : k <= m}})
    /\ track' = [track EXCEPT ![c] = NoTrack]
    /\ UNCHANGED deposit

UpdateDeposit(c) ==
    /\ track[c].pc = "update"
    /\ LET t == track[c].t
       IN  deposit' = [deposit EXCEPT ![t].status = track[c].row.status,
                                      ![t].confirmations = track[c].row.confirmations]
    /\ track' = [track EXCEPT ![c] = NoTrack]
    /\ UNCHANGED told

\* an error of the node or the database, or a restart
TrackFails(c) ==
    /\ track[c] # NoTrack
    /\ track' = [track EXCEPT ![c] = NoTrack]
    /\ UNCHANGED <<deposit, told>>
=============================================================================
