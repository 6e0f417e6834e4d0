----------------------------- MODULE BlockIndex -----------------------------
(***************************************************************************)
(* chain-indexer-service: block-processor.service.ts reads one block and   *)
(* stores the transfers of monitored addresses; the addresses are cached   *)
(* for a minute.  address-registration.handler.ts adds an address.         *)
(***************************************************************************)
EXTENDS Integers, FiniteSets

CONSTANTS
    Address,
    Known,          \* addresses registered in block 1
    Transfer,       \* records [block, address, log, key]; log: an ERC-20 log
    MaxBlock,       \* bound: number of the last block
    NoCache         \* addrCache without an entry for the chain

Block == 1 .. MaxBlock

\* a block has a number, and a transfer belongs to a block and to an address
ASSUME BlockAssumption ==
    /\ MaxBlock \in Nat \ {0}
    /\ \A t \in Transfer : t.block \in Block /\ t.address \in Address /\ t.log \in BOOLEAN

VARIABLES
    head,           \* the newest block
    cursor,         \* sync_cursors.last_block, 0 without a row
    entry,          \* the registration of each address
    startBlock,     \* monitored_addresses.start_block, 0 without a row
    addrCache,      \* addresses held in memory, or NoCache
    indexed,        \* indexed_events
    blockRows,      \* indexed_blocks
    scanned,        \* blocks with a key scanned:<chain>:<block>
    task            \* what processBlock has read for each block

index == <<head, cursor, entry, startBlock, addrCache, indexed, blockRows, scanned, task>>

NoTask == [pc |-> "none"]
Loaded(addresses) == [pc |-> "scan", map |-> addresses]

Active == {a \in Address : startBlock[a] > 0}
Examined == scanned \cup blockRows

IndexInit ==
    /\ head = 1 /\ cursor = 0
    /\ entry = [a \in Address |-> IF a \in Known THEN "done" ELSE "new"]
    /\ startBlock = [a \in Address |-> IF a \in Known THEN 1 ELSE 0]
    /\ addrCache = NoCache
    /\ indexed = {} /\ blockRows = {} /\ scanned = {}
    /\ task = [b \in Block |-> NoTask]

Mine ==
    /\ head < MaxBlock
    /\ head' = head + 1
    /\ UNCHANGED <<cursor, entry, startBlock, addrCache, indexed, blockRows, scanned, task>>

\* fault: a tick moves the cursor on by one block
MoveCursorByOne(b) ==
    /\ Active # {}
    /\ b \in 1 .. head
    /\ cursor' = cursor + 1
    /\ UNCHANGED <<head, entry, startBlock, addrCache, indexed, blockRows, scanned, task>>

\* the polling detector writes the head or a head that was cached, the realtime
\* detector the block it has handled
MoveCursor(b) ==
    /\ Active # {}
    /\ b \in 1 .. head
    /\ cursor' = b
    /\ UNCHANGED <<head, entry, startBlock, addrCache, indexed, blockRows, scanned, task>>

-----------------------------------------------------------------------------
\* getBlockNumber and the upsert: a row that exists keeps its start block
RegisterRow(a) ==
    /\ entry[a] = "new"
    /\ entry' = [entry EXCEPT ![a] = "row"]
    /\ startBlock' = [startBlock EXCEPT ![a] = IF @ = 0 THEN head ELSE @]
    /\ UNCHANGED <<head, cursor, addrCache, indexed, blockRows, scanned, task>>

\* fault: the cached addresses stay
RegisterKeepsCache(a) ==
    /\ entry[a] = "row"
    /\ entry' = [entry EXCEPT ![a] = "done"]
    /\ cursor' = IF cursor = 0 THEN startBlock[a] - 1 ELSE cursor
    /\ UNCHANGED <<head, startBlock, addrCache, indexed, blockRows, scanned, task>>

\* the cursor of a new chain, and invalidateCache
RegisterDone(a) ==
    /\ entry[a] = "row"
    /\ entry' = [entry EXCEPT ![a] = "done"]
    /\ cursor' = IF cursor = 0 THEN startBlock[a] - 1 ELSE cursor
    /\ addrCache' = NoCache
    /\ UNCHANGED <<head, startBlock, indexed, blockRows, scanned, task>>

\* the entry is not acknowledged and comes again
RegisterFails(a) ==
    /\ entry[a] = "row"
    /\ entry' = [entry EXCEPT ![a] = "new"]
    /\ UNCHANGED <<head, cursor, startBlock, addrCache, indexed, blockRows, scanned, task>>

-----------------------------------------------------------------------------
\* getMonitoredAddresses with a cached map
LoadCached(b) ==
    /\ task[b].pc = "start"
    /\ addrCache # NoCache
    /\ task' = [task EXCEPT ![b] = Loaded(addrCache)]
    /\ UNCHANGED <<head, cursor, entry, startBlock, addrCache, indexed, blockRows, scanned>>

\* getMonitoredAddresses: the query
LoadRows(b) ==
    /\ task[b].pc = "start"
    /\ addrCache = NoCache
    /\ task' = [task EXCEPT ![b] = [pc |-> "fill", map |-> Active]]
    /\ UNCHANGED <<head, cursor, entry, startBlock, addrCache, indexed, blockRows, scanned>>

\* getMonitoredAddresses: what the query returned becomes the cached map
FillCache(b) ==
    /\ task[b].pc = "fill"
    /\ addrCache' = task[b].map
    /\ task' = [task EXCEPT ![b] = Loaded(@.map)]
    /\ UNCHANGED <<head, cursor, entry, startBlock, indexed, blockRows, scanned>>

CacheEnds ==
    /\ addrCache # NoCache
    /\ addrCache' = NoCache
    /\ UNCHANGED <<head, cursor, entry, startBlock, indexed, blockRows, scanned, task>>

\* relevantEvents of a block; without logs when their query failed
Relevant(b, logs) ==
    {t \in Transfer : t.block = b /\ t.address \in task[b].map /\ (t.log => logs)}

\* upsert with an empty update: a key that is taken keeps its event
Stored(found) ==
    indexed \cup {t \in found : \A u \in indexed : u.key # t.key}

\* the events one after the other: of two with one key the first stays
Outcomes(found) ==
    {s \in SUBSET Stored(found) :
        /\ indexed \subseteq s
        /\ \A t \in s \ indexed, u \in s \ indexed : t.key = u.key => t = u
        /\ \A t \in found : \E u \in s : u.key = t.key}

\* the events, the block if it has any, and the key written by the backfill
Scan(b, logs) ==
    /\ task[b].pc = "scan"
    /\ indexed' \in Outcomes(Relevant(b, logs))
    /\ blockRows' = IF Relevant(b, logs) = {} THEN blockRows ELSE blockRows \cup {b}
    /\ scanned' = scanned \cup {b}
    /\ task' = [task EXCEPT ![b] = NoTask]
    /\ UNCHANGED <<head, cursor, entry, startBlock, addrCache>>

\* no monitored address, or the node does not have the block
ScanNothing(b) ==
    /\ task[b].pc = "scan"
    /\ scanned' = scanned \cup {b}
    /\ task' = [task EXCEPT ![b] = NoTask]
    /\ UNCHANGED <<head, cursor, entry, startBlock, addrCache, indexed, blockRows>>

\* the node or the database throws; the events stored before stay
ScanFails(b) ==
    /\ task[b].pc = "scan"
    /\ \E found \in SUBSET Relevant(b, TRUE) : indexed' \in Outcomes(found)
    /\ task' = [task EXCEPT ![b] = NoTask]
    /\ UNCHANGED <<head, cursor, entry, startBlock, addrCache, blockRows, scanned>>

\* the key ends after 24 hours
ForgetScanned(b) ==
    /\ b \in scanned
    /\ scanned' = scanned \ {b}
    /\ UNCHANGED <<head, cursor, entry, startBlock, addrCache, indexed, blockRows, task>>
=============================================================================
