----------------------------- MODULE IndexProofs -----------------------------
(***************************************************************************)
(* Proofs about the index of transfers, for every set of addresses and of  *)
(* transfers, every number of blocks, of gaps and of failures.             *)
(***************************************************************************)
EXTENDS IndexSystem, WellFoundedInduction, TLAPS

-----------------------------------------------------------------------------
(* The invariant: of what was read from the chain, and of the gaps *)

IndexTyping ==
    /\ head \in Block /\ cursor \in 0 .. MaxBlock
    /\ entry \in [Address -> {"new", "row", "done"}]
    /\ startBlock \in [Address -> 0 .. MaxBlock]
    /\ addrCache = NoCache \/ addrCache \subseteq Address
    /\ indexed \subseteq Transfer /\ blockRows \subseteq Block /\ scanned \subseteq Block
    /\ task \in [Block -> {NoTask} \cup Pending]

\* the row is there before the entry is acknowledged
RowFirst == \A a \in Address : entry[a] # "new" => startBlock[a] > 0

\* the map in memory has every registered address, but those it has missed
MapIsComplete ==
    addrCache # NoCache =>
        \A a \in Address : entry[a] = "done" => a \in addrCache \/ a \in raced

\* and so has the map a block is scanned with, but for those that came too late
TaskIsComplete ==
    \A b \in Block : Scanning(b) =>
        \A a \in Address : entry[a] = "done" =>
            a \in task[b].map \/ <<a, b>> \in late \/ a \in raced

BlocksInv == IndexTyping /\ RowFirst /\ MapIsComplete /\ TaskIsComplete /\ ExaminedIsIndexed

Row == [status : {"detected", "backfilling", "resolved", "failed"}, range : Range,
        attempts : 0 .. MaxAttempts]
Window == [pc : {"batch"}, at : Nat \ {0}, end : Block, ranges : SUBSET Range]
Creation == [pc : {"enqueue"}, gap : Gap, at : Nat \ {0}, end : Block, ranges : SUBSET Range]
Job == [state : {"waiting", "active"}, made : Nat, stalled : BOOLEAN]
Hold == [gap : Gap, next : Nat \ {0}]

BackfillTyping ==
    /\ gap \in [Gap -> {NoRow} \cup Row]
    /\ detect \in {Idle} \cup Window \cup Creation
    /\ job \in [Gap -> {NoJob} \cup Job]
    /\ active \in {Idle} \cup Hold

\* a job has its row, also while it waits
JobHasRow == \A g \in Gap : job[g] # NoJob => gap[g] # NoRow

\* between the row and its job nobody touches the row
CreatedHasNoJob ==
    detect.pc = "enqueue" => gap[detect.gap].status = "detected" /\ job[detect.gap] = NoJob

HeldIsActive == active # Idle => job[active.gap].state = "active"

GapsInv == BackfillTyping /\ JobHasRow /\ CreatedHasNoJob /\ HeldIsActive /\ OpenHasJob

IndexInv == BlocksInv /\ GapsInv

-----------------------------------------------------------------------------
(* Lemmas about the numbers of blocks *)

\* A set of numbers that is not empty has a least one.
LEMMA LeastNumber ==
    ASSUME NEW S \in SUBSET Nat, S # {}
    PROVE  \E n \in S : \A m \in S : n <= m
  <1> DEFINE L == OpToRel(<, Nat)
  <1>1. PICK n \in S : \A m \in S : ~ (<<m, n>> \in L)
    BY NatLessThanWellFounded, WFMin
  <1>2. \A m \in S : ~ (m < n)
    BY <1>1 DEF OpToRel
  <1> QED BY <1>2

\* The earliest start block (getEarliestStartBlock) is that of a row.
LEMMA EarliestIsStart ==
    ASSUME IndexTyping, Active # {}
    PROVE  Earliest \in Block
  <1> DEFINE S == {startBlock[a] : a \in Active}
  <1>1. S \subseteq Block /\ S # {} /\ S \subseteq Nat
    BY BlockAssumption DEF IndexTyping, Active, Block
  <1>2. \E n \in S : \A m \in S : n <= m
    BY <1>1, LeastNumber
  <1>3. Lowest(S) \in S
    BY <1>2 DEF Lowest
  <1> QED BY <1>1, <1>3 DEF Earliest

\* coalesceGaps stays within the batch it is given.
LEMMA RangesOfBatch ==
    ASSUME NEW from \in Nat \ {0}, NEW to \in Int, to <= MaxBlock
    PROVE  Ranges(Missing(from, to)) \subseteq Range
  <1>1. Missing(from, to) \subseteq Block
    BY BlockAssumption DEF Missing, Block
  <1> QED BY <1>1 DEF Ranges, Range

\* The next range of a batch is one of its ranges.
LEMMA NextOfRanges ==
    ASSUME detect.ranges \in SUBSET Range, detect.ranges # {}
    PROVE  NextRange \in detect.ranges
  <1> DEFINE S == {r[1] : r \in detect.ranges}
  <1>1. S \subseteq Nat /\ S # {}
    BY BlockAssumption DEF Range, Block
  <1>2. \E n \in S : \A m \in S : n <= m
    BY <1>1, LeastNumber
  <1>3. \E r \in detect.ranges : \A q \in detect.ranges : r[1] <= q[1]
    BY <1>2
  <1> QED BY <1>3 DEF NextRange

-----------------------------------------------------------------------------
(* The blocks that were read *)

\* Nothing was read yet in the first state, and the registered addresses are
\* those of block 1.
LEMMA InitBlocksInv ==
    ASSUME Init
    PROVE  BlocksInv
  <1> USE BlockAssumption DEF Init, IndexInit
  <1>1. IndexTyping
    BY DEF IndexTyping, Block
  <1>2. RowFirst
    BY DEF RowFirst
  <1>3. MapIsComplete
    BY DEF MapIsComplete
  <1>4. TaskIsComplete
    BY DEF TaskIsComplete, Scanning, NoTask
  <1>5. ExaminedIsIndexed
    BY DEF ExaminedIsIndexed, Examined
  <1> QED BY <1>1, <1>2, <1>3, <1>4, <1>5 DEF BlocksInv

\* What depends on the tables and maps alone stays when they stay.
LEMMA BlocksStutter ==
    ASSUME BlocksInv, UNCHANGED <<index, unread, late, raced>>
    PROVE  BlocksInv'
  <1> USE DEF BlocksInv, index
  <1>1. IndexTyping'
    BY DEF IndexTyping
  <1>2. RowFirst'
    BY DEF RowFirst
  <1>3. MapIsComplete'
    BY DEF MapIsComplete
  <1>4. TaskIsComplete'
    BY DEF TaskIsComplete, Scanning
  <1>5. ExaminedIsIndexed'
    BY DEF ExaminedIsIndexed, Examined
  <1> QED BY <1>1, <1>2, <1>3, <1>4, <1>5

\* The chain and the cursor touch neither the maps nor the events.
LEMMA ChainKeepsBlocks ==
    ASSUME BlocksInv, Chain
    PROVE  BlocksInv'
  <1> USE DEF BlocksInv, history
  <1>1. /\ UNCHANGED <<entry, startBlock, addrCache, indexed, blockRows, scanned, task>>
        /\ UNCHANGED <<unread, late, raced>>
        /\ head' \in Block /\ cursor' \in 0 .. MaxBlock
    <2>1. CASE Mine
      BY <2>1, BlockAssumption DEF Chain, Mine, IndexTyping, Block
    <2>2. CASE \E b \in Block : MoveCursor(b)
      BY <2>2, BlockAssumption DEF Chain, MoveCursor, IndexTyping, Block
    <2> QED BY <2>1, <2>2 DEF Chain
  <1>2. IndexTyping'
    BY <1>1 DEF IndexTyping
  <1>3. RowFirst'
    BY <1>1 DEF RowFirst
  <1>4. MapIsComplete'
    BY <1>1 DEF MapIsComplete
  <1>5. TaskIsComplete'
    BY <1>1 DEF TaskIsComplete, Scanning
  <1>6. ExaminedIsIndexed'
    BY <1>1 DEF ExaminedIsIndexed, Examined
  <1> QED BY <1>2, <1>3, <1>4, <1>5, <1>6

\* Registration: the map in memory goes when the entry is acknowledged, and
\* what was examined or under way by then counts as late for the address.
LEMMA RegistrationKeepsBlocks ==
    ASSUME BlocksInv, NEW a \in Address, Registration(a)
    PROVE  BlocksInv'
  <1> USE DEF BlocksInv
  <1>1. UNCHANGED <<unread, raced, indexed, blockRows, scanned, task>>
    BY DEF Registration, RegisterRow, RegisterDone, RegisterFails
  <1>2. CASE RegisterRow(a) /\ UNCHANGED late
    <2> USE <1>1, <1>2 DEF RegisterRow
    <2>1. IndexTyping'
      BY BlockAssumption DEF IndexTyping, Block
    <2>2. RowFirst'
      BY BlockAssumption DEF RowFirst, IndexTyping, Block
    <2>3. \A c \in Address : entry'[c] = "done" =>
            entry[c] = "done" /\ startBlock'[c] = startBlock[c]
      BY DEF IndexTyping
    <2>4. MapIsComplete'
      BY <2>3 DEF MapIsComplete
    <2>5. TaskIsComplete'
      BY <2>3 DEF TaskIsComplete, Scanning
    <2>6. ExaminedIsIndexed'
      BY <2>3, BlockAssumption DEF ExaminedIsIndexed, Examined
    <2> QED BY <2>1, <2>2, <2>4, <2>5, <2>6
  <1>3. CASE /\ RegisterDone(a)
             /\ late' = late \cup ({a} \X (Examined \cup UnderWay))
    <2> USE <1>1, <1>3 DEF RegisterDone
    <2>1. startBlock[a] \in 1 .. MaxBlock
      BY BlockAssumption DEF RowFirst, IndexTyping
    <2>2. IndexTyping'
      BY <2>1, BlockAssumption DEF IndexTyping
    <2>3. RowFirst'
      BY <2>1 DEF RowFirst, IndexTyping
    <2>4. MapIsComplete'
      BY DEF MapIsComplete
    <2>5. TaskIsComplete'
      <3> SUFFICES ASSUME NEW b \in Block, Scanning(b)', NEW c \in Address, entry'[c] = "done"
                   PROVE  c \in task'[b].map \/ <<c, b>> \in late' \/ c \in raced'
        BY DEF TaskIsComplete
      <3>1. CASE c = a
        BY <3>1 DEF UnderWay, Scanning, NoTask
      <3>2. CASE c # a
        BY <3>2 DEF TaskIsComplete, Scanning, IndexTyping
      <3> QED BY <3>1, <3>2
    <2>6. ExaminedIsIndexed'
      <3> SUFFICES ASSUME NEW t \in Transfer, entry'[t.address] = "done",
                          t.block >= startBlock'[t.address], t.block \in Examined'
                   PROVE  \/ t \in indexed'
                          \/ t.block \in unread'
                          \/ <<t.address, t.block>> \in late'
                          \/ t.address \in raced'
                          \/ \E u \in indexed' : u.key = t.key
        BY DEF ExaminedIsIndexed
      <3>1. CASE t.address = a
        BY <3>1 DEF Examined
      <3>2. CASE t.address # a
        BY <3>2, BlockAssumption DEF ExaminedIsIndexed, Examined, IndexTyping
      <3> QED BY <3>1, <3>2
    <2> QED BY <2>2, <2>3, <2>4, <2>5, <2>6
  <1>4. CASE RegisterFails(a) /\ UNCHANGED late
    <2> USE <1>1, <1>4 DEF RegisterFails
    <2>1. IndexTyping'
      BY DEF IndexTyping
    <2>2. RowFirst'
      BY DEF RowFirst, IndexTyping
    <2>3. \A c \in Address : entry'[c] = "done" => entry[c] = "done"
      BY DEF IndexTyping
    <2>4. MapIsComplete'
      BY <2>3 DEF MapIsComplete
    <2>5. TaskIsComplete'
      BY <2>3 DEF TaskIsComplete, Scanning
    <2>6. ExaminedIsIndexed'
      BY <2>3, BlockAssumption DEF ExaminedIsIndexed, Examined
    <2> QED BY <2>1, <2>2, <2>4, <2>5, <2>6
  <1> QED BY <1>2, <1>3, <1>4 DEF Registration

\* Of the events of a block that are stored one after the other, each leaves an
\* event with its key, and none that was there goes.
LEMMA OutcomeHasKeys ==
    ASSUME NEW found \in SUBSET Transfer, NEW s \in Outcomes(found), indexed \subseteq Transfer
    PROVE  /\ s \subseteq Transfer /\ indexed \subseteq s
           /\ \A t \in found : \E u \in s : u.key = t.key
  <1>1. s \in SUBSET Stored(found) /\ indexed \subseteq s
    BY DEF Outcomes
  <1>2. \A t \in found : \E u \in s : u.key = t.key
    BY DEF Outcomes
  <1>3. Stored(found) \subseteq Transfer
    BY DEF Stored
  <1> QED BY <1>1, <1>2, <1>3

\* A step that ends the work on a block and changes nothing of the registration
\* keeps the maps as they are.
LEMMA EndedTaskKeepsMaps ==
    ASSUME BlocksInv, NEW b \in Block, task' = [task EXCEPT ![b] = NoTask],
           UNCHANGED <<head, cursor, entry, startBlock, addrCache, late, raced>>,
           indexed' \subseteq Transfer, blockRows' \subseteq Block, scanned' \subseteq Block
    PROVE  IndexTyping' /\ RowFirst' /\ MapIsComplete' /\ TaskIsComplete'
  <1> USE DEF BlocksInv
  <1>1. IndexTyping'
    BY DEF IndexTyping
  <1>2. RowFirst'
    BY DEF RowFirst
  <1>3. MapIsComplete'
    BY DEF MapIsComplete
  <1>4. \A c \in Block : Scanning(c)' => Scanning(c) /\ task'[c] = task[c]
    BY DEF Scanning, NoTask, IndexTyping
  <1>5. TaskIsComplete'
    BY <1>4 DEF TaskIsComplete
  <1> QED BY <1>1, <1>2, <1>3, <1>5

\* A step that only reads addresses for a block keeps what was examined.
LEMMA ReadingKeepsExamined ==
    ASSUME ExaminedIsIndexed,
           UNCHANGED <<entry, startBlock, indexed, blockRows, scanned, unread, late>>,
           raced \subseteq raced'
    PROVE  ExaminedIsIndexed'
  BY DEF ExaminedIsIndexed, Examined

\* What was examined stays accounted for when the events and the blocks read
\* without logs grow and only block b is examined on top, if that one is.
LEMMA MoreIsExamined ==
    ASSUME ExaminedIsIndexed, NEW b \in Block,
           UNCHANGED <<entry, startBlock, late, raced>>,
           indexed \subseteq indexed', unread \subseteq unread',
           Examined' \subseteq Examined \cup {b},
           \A t \in Transfer :
                entry[t.address] = "done" /\ t.block = b /\ b \in Examined' =>
                    \/ b \in unread'
                    \/ <<t.address, b>> \in late
                    \/ t.address \in raced
                    \/ \E u \in indexed' : u.key = t.key
    PROVE  ExaminedIsIndexed'
  <1> SUFFICES ASSUME NEW t \in Transfer, entry'[t.address] = "done",
                      t.block >= startBlock'[t.address], t.block \in Examined'
               PROVE  \/ t \in indexed'
                      \/ t.block \in unread'
                      \/ <<t.address, t.block>> \in late'
                      \/ t.address \in raced'
                      \/ \E u \in indexed' : u.key = t.key
    BY DEF ExaminedIsIndexed
  <1>1. CASE t.block = b
    BY <1>1
  <1>2. CASE t.block # b
    <2>1. \/ t \in indexed
          \/ t.block \in unread
          \/ <<t.address, t.block>> \in late
          \/ t.address \in raced
          \/ \E u \in indexed : u.key = t.key
      BY <1>2 DEF ExaminedIsIndexed
    <2> QED BY <2>1
  <1> QED BY <1>1, <1>2

\* getMonitoredAddresses: a block is scanned with the cached map, or with the
\* rows; addresses added while these were read count as raced.
LEMMA ReadingKeepsBlocks ==
    ASSUME BlocksInv, NEW b \in Block,
           \/ LoadCached(b) /\ UNCHANGED raced
           \/ LoadRows(b) /\ UNCHANGED raced
           \/ FillCache(b) /\ raced' = raced \cup (Active \ addrCache'),
           UNCHANGED <<unread, late>>
    PROVE  BlocksInv'
  <1> USE DEF BlocksInv
  <1>0. ExaminedIsIndexed'
    BY ReadingKeepsExamined DEF LoadCached, LoadRows, FillCache
  <1>1. CASE LoadCached(b) /\ UNCHANGED raced
    <2> USE <1>1 DEF LoadCached, Loaded
    <2>1. IndexTyping'
      BY DEF IndexTyping, Pending
    <2>2. RowFirst' /\ MapIsComplete'
      BY DEF RowFirst, MapIsComplete
    <2>3. TaskIsComplete'
      BY DEF TaskIsComplete, MapIsComplete, Scanning, IndexTyping
    <2> QED BY <1>0, <2>1, <2>2, <2>3
  <1>2. CASE LoadRows(b) /\ UNCHANGED raced
    <2> USE <1>2 DEF LoadRows
    <2>1. IndexTyping'
      BY DEF IndexTyping, Pending, Active
    <2>2. RowFirst' /\ MapIsComplete'
      BY DEF RowFirst, MapIsComplete
    <2>3. TaskIsComplete'
      BY DEF TaskIsComplete, Scanning, IndexTyping
    <2> QED BY <1>0, <2>1, <2>2, <2>3
  <1>3. CASE FillCache(b) /\ raced' = raced \cup (Active \ addrCache')
    <2> USE <1>3 DEF FillCache, Loaded
    <2>1. task[b] \in Pending /\ task[b].map \subseteq Address
      BY DEF IndexTyping, Pending, NoTask
    <2>2. IndexTyping'
      BY <2>1 DEF IndexTyping, Pending
    <2>3. RowFirst'
      BY DEF RowFirst
    <2>4. \A a \in Address : entry[a] = "done" => a \in task[b].map \/ a \in raced'
      BY DEF RowFirst, Active
    <2>5. MapIsComplete'
      BY <2>4 DEF MapIsComplete
    <2>6. TaskIsComplete'
      BY <2>4 DEF TaskIsComplete, Scanning, IndexTyping
    <2> QED BY <1>0, <2>2, <2>3, <2>5, <2>6
  <1> QED BY <1>1, <1>2, <1>3

\* processBlock: the events of the addresses of the map are stored; of the
\* other addresses the map was allowed to miss each.
LEMMA ScanKeepsBlocks ==
    ASSUME BlocksInv, NEW b \in Block, Scanning(b),
           IF task[b].map = {} THEN ScanNothing(b) ELSE Scan(b, TRUE),
           UNCHANGED <<unread, late, raced>>
    PROVE  BlocksInv'
  <1> USE DEF BlocksInv
  <1>1. \A t \in Transfer : entry[t.address] = "done" =>
            t.address \in task[b].map \/ <<t.address, b>> \in late \/ t.address \in raced
    BY BlockAssumption DEF TaskIsComplete
  <1>2. CASE task[b].map = {}
    <2> USE <1>2 DEF ScanNothing
    <2>1. IndexTyping' /\ RowFirst' /\ MapIsComplete' /\ TaskIsComplete'
      BY EndedTaskKeepsMaps DEF IndexTyping
    <2>2. Examined' \subseteq Examined \cup {b}
      BY DEF Examined
    <2>3. ExaminedIsIndexed'
      BY <1>1, <2>2, MoreIsExamined
    <2> QED BY <2>1, <2>3
  <1>3. CASE task[b].map # {}
    <2> DEFINE found == Relevant(b, TRUE)
    <2> USE <1>3
    <2>1. found \in SUBSET Transfer /\ indexed' \in Outcomes(found) /\ indexed \subseteq Transfer
      BY DEF Scan, Relevant, IndexTyping
    <2>2. \A t \in Transfer : t.block = b /\ t.address \in task[b].map => t \in found
      BY DEF Relevant
    <2> HIDE DEF found
    <2>3. /\ indexed' \subseteq Transfer /\ indexed \subseteq indexed'
          /\ \A t \in found : \E u \in indexed' : u.key = t.key
      BY <2>1, OutcomeHasKeys
    <2>4. /\ task' = [task EXCEPT ![b] = NoTask]
          /\ UNCHANGED <<head, cursor, entry, startBlock, addrCache, late, raced>>
          /\ scanned' = scanned \cup {b} /\ blockRows' \subseteq blockRows \cup {b}
      BY DEF Scan
    <2>5. IndexTyping' /\ RowFirst' /\ MapIsComplete' /\ TaskIsComplete'
      BY <2>3, <2>4, EndedTaskKeepsMaps DEF IndexTyping
    <2>6. Examined' \subseteq Examined \cup {b}
      BY <2>4 DEF Examined
    <2>7. \A t \in Transfer : entry[t.address] = "done" /\ t.block = b =>
            \/ <<t.address, b>> \in late
            \/ t.address \in raced
            \/ \E u \in indexed' : u.key = t.key
      BY <1>1, <2>2, <2>3
    <2>8. ExaminedIsIndexed'
      BY <2>3, <2>4, <2>6, <2>7, MoreIsExamined
    <2> QED BY <2>5, <2>8
  <1> QED BY <1>2, <1>3

\* A scan that goes on without the logs, or without the block, is known by its
\* block; one that throws keeps the events it has stored and examines nothing.
LEMMA PartScanKeepsBlocks ==
    ASSUME BlocksInv, NEW b \in Block,
           \/ ScanPartly(b) /\ unread' = unread \cup {b}
           \/ ScanFails(b) /\ UNCHANGED unread,
           UNCHANGED <<late, raced>>
    PROVE  BlocksInv'
  <1> USE DEF BlocksInv
  <1>1. PICK found \in SUBSET Transfer : indexed' \in Outcomes(found) \/ indexed' = indexed
    BY DEF ScanPartly, Scan, ScanNothing, ScanFails, Relevant
  <1>2. indexed' \subseteq Transfer /\ indexed \subseteq indexed'
    BY <1>1, OutcomeHasKeys DEF IndexTyping
  <1>3. /\ task' = [task EXCEPT ![b] = NoTask]
        /\ UNCHANGED <<head, cursor, entry, startBlock, addrCache>>
        /\ scanned' \subseteq scanned \cup {b} /\ blockRows' \subseteq blockRows \cup {b}
        /\ unread \subseteq unread'
    BY DEF ScanPartly, Scan, ScanNothing, ScanFails
  <1>4. IndexTyping' /\ RowFirst' /\ MapIsComplete' /\ TaskIsComplete'
    BY <1>2, <1>3, EndedTaskKeepsMaps DEF IndexTyping
  <1>5. CASE b \in unread'
    <2>1. Examined' \subseteq Examined \cup {b}
      BY <1>3 DEF Examined
    <2> QED BY <1>2, <1>3, <1>4, <1>5, <2>1, MoreIsExamined
  <1>6. CASE ScanFails(b) /\ UNCHANGED unread
    <2>1. Examined' = Examined
      BY <1>6 DEF ScanFails, Examined
    <2>2. ExaminedIsIndexed'
      BY <1>2, <1>3, <1>6, <2>1 DEF ExaminedIsIndexed
    <2> QED BY <1>4, <2>2
  <1> QED BY <1>5, <1>6

\* processBlock keeps the invariant.
LEMMA ProcessingKeepsBlocks ==
    ASSUME BlocksInv, NEW b \in Block, Processing(b)
    PROVE  BlocksInv'
  <1>0. UNCHANGED late
    BY DEF Processing
  <1>1. CASE /\ \/ LoadCached(b) /\ UNCHANGED raced
                \/ LoadRows(b) /\ UNCHANGED raced
                \/ FillCache(b) /\ raced' = raced \cup (Active \ addrCache')
             /\ UNCHANGED unread
    BY <1>0, <1>1, ReadingKeepsBlocks
  <1>2. CASE /\ Scanning(b)
             /\ IF task[b].map = {} THEN ScanNothing(b) ELSE Scan(b, TRUE)
             /\ UNCHANGED <<unread, raced>>
    BY <1>0, <1>2, ScanKeepsBlocks
  <1>3. CASE /\ \/ ScanPartly(b) /\ unread' = unread \cup {b}
                \/ ScanFails(b) /\ UNCHANGED unread
             /\ UNCHANGED raced
    BY <1>0, <1>3, PartScanKeepsBlocks
  <1>4. CASE ForgetScanned(b) /\ UNCHANGED <<unread, raced>>
    <2> USE <1>0, <1>4 DEF ForgetScanned, BlocksInv
    <2>1. IndexTyping'
      BY DEF IndexTyping
    <2>2. RowFirst' /\ MapIsComplete' /\ TaskIsComplete'
      BY DEF RowFirst, MapIsComplete, TaskIsComplete, Scanning
    <2>3. Examined' \subseteq Examined
      BY DEF Examined
    <2>4. ExaminedIsIndexed'
      BY <2>3 DEF ExaminedIsIndexed
    <2> QED BY <2>1, <2>2, <2>4
  <1> QED BY <1>1, <1>2, <1>3, <1>4 DEF Processing

\* The map in memory ends after a minute.
LEMMA ExpiryKeepsBlocks ==
    ASSUME BlocksInv, CacheExpiry
    PROVE  BlocksInv'
  <1> USE DEF BlocksInv, CacheExpiry, CacheEnds
  <1>1. IndexTyping'
    BY DEF IndexTyping
  <1>2. RowFirst' /\ MapIsComplete' /\ TaskIsComplete' /\ ExaminedIsIndexed'
    BY DEF RowFirst, MapIsComplete, TaskIsComplete, Scanning, ExaminedIsIndexed, Examined
  <1> QED BY <1>1, <1>2

\* The worker begins the next blocks of a gap, and a restart ends those under
\* way and forgets the map in memory.
LEMMA WorkKeepsBlocks ==
    ASSUME BlocksInv, Worker \/ WorkerFails
    PROVE  BlocksInv'
  <1> USE DEF BlocksInv
  <1>0. UNCHANGED <<unread, late, raced>>
    BY DEF Worker, WorkerFails, history
  <1>1. CASE StartBlocks
    <2>1. task' \in [Block -> {[pc |-> "start"], NoTask}]
      BY <1>1 DEF StartBlocks
    <2>2. UNCHANGED <<head, cursor, entry, startBlock, addrCache, indexed, blockRows, scanned>>
      BY <1>1 DEF StartBlocks
    <2>3. IndexTyping'
      BY <2>1, <2>2 DEF IndexTyping, Pending
    <2>4. RowFirst' /\ MapIsComplete' /\ ExaminedIsIndexed'
      BY <1>0, <2>2 DEF RowFirst, MapIsComplete, ExaminedIsIndexed, Examined
    <2>5. TaskIsComplete'
      BY <2>1 DEF TaskIsComplete, Scanning, NoTask
    <2> QED BY <2>3, <2>4, <2>5
  <1>2. CASE BackfillCrashes
    <2> USE <1>0, <1>2 DEF BackfillCrashes
    <2>1. IndexTyping'
      BY DEF IndexTyping
    <2>2. RowFirst' /\ MapIsComplete' /\ ExaminedIsIndexed'
      BY DEF RowFirst, MapIsComplete, ExaminedIsIndexed, Examined
    <2>3. TaskIsComplete'
      BY DEF TaskIsComplete, Scanning, NoTask
    <2> QED BY <2>1, <2>2, <2>3
  <1>3. CASE UNCHANGED index
    BY <1>0, <1>3, BlocksStutter
  <1> QED BY <1>1, <1>2, <1>3 DEF Worker, WorkerFails, TakeJob, DropJob, Resolve, Complete,
                  BackfillFails, RecordFails, TakeFails, AttemptFails

-----------------------------------------------------------------------------
(* The gaps and their jobs *)

\* No row and no job in the first state.
LEMMA InitGapsInv ==
    ASSUME Init
    PROVE  GapsInv
  <1> USE DEF Init, BackfillInit
  <1>1. BackfillTyping
    BY DEF BackfillTyping
  <1>2. JobHasRow /\ CreatedHasNoJob /\ HeldIsActive
    BY DEF JobHasRow, CreatedHasNoJob, HeldIsActive, Idle
  <1>3. OpenHasJob
    BY DEF OpenHasJob, NoRow, Open
  <1> QED BY <1>1, <1>2, <1>3 DEF GapsInv

\* What depends on rows, jobs, detector and worker stays when they stay.
LEMMA GapsStutter ==
    ASSUME GapsInv, UNCHANGED <<backfill, abandoned>>
    PROVE  GapsInv'
  <1> USE DEF GapsInv, backfill
  <1>1. BackfillTyping'
    BY DEF BackfillTyping
  <1>2. JobHasRow' /\ CreatedHasNoJob' /\ HeldIsActive'
    BY DEF JobHasRow, CreatedHasNoJob, HeldIsActive
  <1>3. OpenHasJob'
    BY DEF OpenHasJob
  <1> QED BY <1>1, <1>2, <1>3

\* A detector that is at work has a window, and one that writes a row a row.
LEMMA DetectorStates ==
    ASSUME BackfillTyping
    PROVE  /\ detect.pc = "batch" => detect \in Window
           /\ detect.pc = "enqueue" => detect \in Creation
           /\ active # Idle => active \in Hold
           /\ \A g \in Gap : gap[g].status # "none" => gap[g] \in Row
           /\ \A g \in Gap : gap[g] # NoRow => gap[g] \in Row
           /\ \A g \in Gap : job[g] # NoJob => job[g] \in Job
           /\ \A g \in Gap : job[g].state # "none" => job[g] \in Job
  BY DEF BackfillTyping, Window, Creation, Idle, NoRow, NoJob

\* A step of the detector that leaves the rows and the jobs alone and after
\* which it is not between a row and its job keeps what is said of them.
LEMMA DetectorMoves ==
    ASSUME GapsInv, UNCHANGED <<gap, job, active>>,
           detect' \in {Idle} \cup Window,
           abandoned \subseteq abandoned',
           detect.pc = "enqueue" => detect.gap \in abandoned'
    PROVE  GapsInv'
  <1> USE DEF GapsInv
  <1>1. BackfillTyping'
    BY DEF BackfillTyping
  <1>2. detect'.pc # "enqueue"
    BY DEF Idle, Window
  <1>3. JobHasRow' /\ CreatedHasNoJob' /\ HeldIsActive'
    BY <1>2 DEF JobHasRow, CreatedHasNoJob, HeldIsActive
  <1>4. OpenHasJob'
    BY DEF OpenHasJob
  <1> QED BY <1>1, <1>3, <1>4

\* The window begins at a block, for every look-back.
LEMMA BeginKeepsGaps ==
    ASSUME GapsInv, IndexTyping, BeginDetect, UNCHANGED abandoned
    PROVE  GapsInv'
  <1> USE DEF BeginDetect
  <1>1. Earliest \in Nat \ {0} /\ cursor \in Block /\ cursor - Lookback \in Int
    BY EarliestIsStart, BlockAssumption, BackfillAssumption DEF IndexTyping, Block
  <1>2. Greater(Earliest, cursor - Lookback) \in Nat \ {0}
    BY <1>1 DEF Greater
  <1>3. detect' \in Window
    BY <1>1, <1>2 DEF Window
  <1>4. detect.pc # "enqueue"
    BY DEF Idle
  <1> QED BY <1>3, <1>4, DetectorMoves

\* A batch ends within the window, and so do its ranges.
LEMMA BatchKeepsGaps ==
    ASSUME GapsInv, DetectBatch, UNCHANGED abandoned
    PROVE  GapsInv'
  <1> USE DEF DetectBatch
  <1> DEFINE last == Lesser(detect.at + BatchSize - 1, detect.end)
             ranges == Ranges(Missing(detect.at, last))
  <1>1. detect \in Window
    BY DetectorStates DEF GapsInv
  <1>2. detect.at \in Nat \ {0} /\ detect.end \in Block /\ BatchSize \in Nat
    BY <1>1, BackfillAssumption DEF Window
  <1>3. last \in Int /\ last <= MaxBlock /\ detect.at + BatchSize \in Nat \ {0}
    BY <1>2, BlockAssumption DEF Lesser, Block
  <1> HIDE DEF last
  <1>4. ranges \subseteq Range
    BY <1>2, <1>3, RangesOfBatch
  <1>5. detect' \in {Idle, [detect EXCEPT !.at = detect.at + BatchSize, !.ranges = ranges]}
    BY DEF last
  <1> HIDE DEF ranges
  <1>6. detect' \in {Idle} \cup Window
    BY <1>1, <1>3, <1>4, <1>5 DEF Window
  <1> QED BY <1>6, DetectorMoves

\* A range that is known is left out.
LEMMA SkipKeepsGaps ==
    ASSUME GapsInv, SkipRange, UNCHANGED abandoned
    PROVE  GapsInv'
  <1> USE DEF SkipRange
  <1>1. detect \in Window
    BY DetectorStates DEF GapsInv
  <1>2. detect' \in Window
    BY <1>1 DEF Window
  <1> QED BY <1>2, DetectorMoves

\* The row of a new gap has no job, since a job that is there has its row.
LEMMA CreateKeepsGaps ==
    ASSUME GapsInv, NEW g \in Gap, CreateGap(g), UNCHANGED abandoned
    PROVE  GapsInv'
  <1> USE DEF CreateGap, GapsInv
  <1>1. detect \in Window
    BY DetectorStates
  <1>2. NextRange \in detect.ranges /\ detect.ranges \subseteq Range
    BY <1>1, NextOfRanges DEF Window
  <1> DEFINE row == [status |-> "detected", range |-> NextRange, attempts |-> 0]
  <1>3. row \in Row
    BY <1>2, BackfillAssumption DEF Row
  <1>4. gap' = [gap EXCEPT ![g] = row] /\ row.status = "detected"
    OBVIOUS
  <1>5. detect' \in Creation /\ detect'.pc = "enqueue" /\ detect'.gap = g
    BY <1>1 DEF Window, Creation
  <1> HIDE DEF row
  <1>6. job[g] = NoJob /\ UNCHANGED <<job, active>>
    BY DEF JobHasRow
  <1>7. BackfillTyping'
    BY <1>3, <1>4, <1>5, <1>6 DEF BackfillTyping
  <1>8. row # NoRow
    BY <1>4 DEF NoRow
  <1>9. JobHasRow'
    BY <1>4, <1>6, <1>8 DEF JobHasRow, BackfillTyping
  <1>10. CreatedHasNoJob'
    BY <1>4, <1>5, <1>6 DEF CreatedHasNoJob, BackfillTyping
  <1>11. HeldIsActive'
    BY <1>6 DEF HeldIsActive
  <1>12. \A h \in Gap : h # g => gap'[h] = gap[h]
    BY <1>4 DEF BackfillTyping
  <1>13. OpenHasJob'
    BY <1>5, <1>6, <1>12 DEF OpenHasJob
  <1> QED BY <1>7, <1>9, <1>10, <1>11, <1>13

\* The job of a new row; the worker's job is another one.
LEMMA EnqueueKeepsGaps ==
    ASSUME GapsInv, Enqueue, UNCHANGED abandoned
    PROVE  GapsInv'
  <1> USE DEF Enqueue, GapsInv
  <1>1. detect \in Creation
    BY DetectorStates
  <1>2. PICK g \in Gap : g = detect.gap
    BY <1>1 DEF Creation
  <1> DEFINE new == [state |-> "waiting", made |-> 0, stalled |-> FALSE]
  <1>3. new \in Job /\ new # NoJob
    BY DEF Job, NoJob
  <1>4. job' = [job EXCEPT ![g] = new]
    BY <1>2
  <1>5. detect' \in Window /\ detect'.pc = "batch"
    BY <1>1 DEF Creation, Window
  <1> HIDE DEF new
  <1>6. gap[g].status = "detected" /\ job[g] = NoJob
    BY <1>2 DEF CreatedHasNoJob
  <1>7. UNCHANGED <<gap, active>>
    OBVIOUS
  <1>8. BackfillTyping'
    BY <1>3, <1>4, <1>5, <1>7 DEF BackfillTyping
  <1>9. \A h \in Gap : job'[h] = IF h = g THEN new ELSE job[h]
    BY <1>4 DEF BackfillTyping
  <1>10. JobHasRow'
    BY <1>6, <1>7, <1>9 DEF JobHasRow, NoRow
  <1>11. CreatedHasNoJob'
    BY <1>5 DEF CreatedHasNoJob
  <1>12. HeldIsActive'
    <2> SUFFICES ASSUME active # Idle
                 PROVE  job'[active.gap].state = "active"
      BY <1>7 DEF HeldIsActive
    <2>1. active.gap \in Gap
      BY DetectorStates DEF Hold
    <2>2. active.gap # g
      BY <1>6 DEF HeldIsActive, NoJob
    <2> QED BY <1>9, <2>1, <2>2 DEF HeldIsActive
  <1>13. OpenHasJob'
    BY <1>2, <1>3, <1>5, <1>7, <1>9 DEF OpenHasJob
  <1> QED BY <1>8, <1>10, <1>11, <1>12, <1>13

\* The detector keeps the invariant.
LEMMA DetectorKeepsGaps ==
    ASSUME GapsInv, IndexTyping, Detector
    PROVE  GapsInv'
  <1>1. UNCHANGED abandoned
    BY DEF Detector, history
  <1>2. CASE BeginDetect
    BY <1>1, <1>2, BeginKeepsGaps
  <1>3. CASE DetectBatch
    BY <1>1, <1>3, BatchKeepsGaps
  <1>4. CASE SkipRange
    BY <1>1, <1>4, SkipKeepsGaps
  <1>5. CASE \E g \in Gap : CreateGap(g)
    BY <1>1, <1>5, CreateKeepsGaps
  <1>6. CASE Enqueue
    BY <1>1, <1>6, EnqueueKeepsGaps
  <1> QED BY <1>2, <1>3, <1>4, <1>5, <1>6 DEF Detector

\* A tick that ends before it has queued the job of its row abandons the row.
LEMMA DetectorFailsKeepsGaps ==
    ASSUME GapsInv, DetectorFails
    PROVE  GapsInv'
  BY DetectorMoves DEF DetectorFails, DetectFails

\* What the worker does to row g and its job keeps the invariant if a job that
\* is left has a row, an open row that is left has its job or is abandoned, and
\* the row is not one the detector has yet to queue.
LEMMA RowStep ==
    ASSUME GapsInv, NEW g \in Gap, NEW row \in {NoRow} \cup Row, NEW work \in {NoJob} \cup Job,
           job[g] # NoJob,
           gap' = [gap EXCEPT ![g] = row], job' = [job EXCEPT ![g] = work],
           work # NoJob => row # NoRow,
           row.status \in Open => work # NoJob \/ g \in abandoned',
           active' \in {Idle} \cup Hold,
           active' # Idle => active'.gap = g /\ work.state = "active",
           \/ UNCHANGED detect
           \/ detect' = Idle /\ (detect.pc = "enqueue" => detect.gap \in abandoned'),
           abandoned \subseteq abandoned'
    PROVE  GapsInv'
  <1> USE DEF GapsInv
  <1>1. BackfillTyping'
    BY DEF BackfillTyping
  <1>2. /\ \A h \in Gap : gap'[h] = IF h = g THEN row ELSE gap[h]
        /\ \A h \in Gap : job'[h] = IF h = g THEN work ELSE job[h]
    BY DEF BackfillTyping
  <1>3. JobHasRow'
    BY <1>2 DEF JobHasRow
  <1>4. HeldIsActive'
    BY <1>2 DEF HeldIsActive
  <1>5. detect'.pc = "enqueue" =>
            /\ UNCHANGED detect
            /\ detect.gap \in Gap /\ detect.gap # g
    BY DetectorStates DEF CreatedHasNoJob, Creation, Idle
  <1>6. CreatedHasNoJob'
    BY <1>2, <1>5 DEF CreatedHasNoJob
  <1>7. OpenHasJob'
    <2> SUFFICES ASSUME NEW h \in Gap, gap'[h].status \in Open
                 PROVE  \/ job'[h] # NoJob
                        \/ detect'.pc = "enqueue" /\ detect'.gap = h
                        \/ h \in abandoned'
      BY DEF OpenHasJob
    <2>1. CASE h = g
      BY <1>2, <2>1
    <2>2. CASE h # g
      BY <1>2, <2>2 DEF OpenHasJob
    <2> QED BY <2>1, <2>2
  <1> QED BY <1>1, <1>3, <1>4, <1>6, <1>7

\* A job is taken for the row it has, which is worked on from then on.
LEMMA TakeKeepsGaps ==
    ASSUME GapsInv, NEW g \in Gap, TakeJob(g), UNCHANGED abandoned
    PROVE  GapsInv'
  <1>1. job[g] \in Job /\ job[g] # NoJob /\ gap[g] \in Row
    BY DetectorStates DEF TakeJob, GapsInv, JobHasRow, NoJob
  <1>2. gap[g].attempts + 1 \in 0 .. MaxAttempts
    BY <1>1, BackfillAssumption DEF TakeJob, Row
  <1> DEFINE row == [gap[g] EXCEPT !.status = "backfilling", !.attempts = @ + 1]
             work == [job[g] EXCEPT !.state = "active", !.made = @ + 1]
  <1>3. row \in Row /\ row.status = "backfilling"
    BY <1>1, <1>2 DEF Row
  <1>4. work \in Job /\ work.state = "active"
    <2>1. job[g].made + 1 \in Nat
      BY <1>1 DEF Job
    <2> QED BY <1>1, <2>1 DEF Job
  <1>5. gap' = [gap EXCEPT ![g] = row] /\ job' = [job EXCEPT ![g] = work]
    BY DEF TakeJob, GapsInv, BackfillTyping
  <1>6. active' \in Hold /\ active'.gap = g
    BY <1>1, BlockAssumption DEF TakeJob, Row, Range, Block, Hold
  <1>7. UNCHANGED detect
    BY DEF TakeJob
  <1> HIDE DEF row, work
  <1>8. row # NoRow /\ work # NoJob
    BY <1>3, <1>4 DEF NoRow, NoJob
  <1> QED BY <1>1, <1>3, <1>4, <1>5, <1>6, <1>7, <1>8, RowStep

\* The job in hand has a row.
LEMMA HeldHasRow ==
    ASSUME GapsInv, active # Idle
    PROVE  /\ active \in Hold /\ active.gap \in Gap
           /\ gap[active.gap] \in Row /\ job[active.gap] \in Job
           /\ job[active.gap] # NoJob
  BY DetectorStates DEF GapsInv, HeldIsActive, JobHasRow, Hold, NoJob

\* A job that is dropped or complete takes its row along.
LEMMA EndKeepsGaps ==
    ASSUME GapsInv, (\E g \in Gap : DropJob(g)) \/ Complete, UNCHANGED abandoned
    PROVE  GapsInv'
  <1>1. PICK g \in Gap : /\ job[g] # NoJob
                         /\ gap' = [gap EXCEPT ![g] = NoRow]
                         /\ job' = [job EXCEPT ![g] = NoJob]
                         /\ active' = Idle /\ UNCHANGED detect
    <2>1. CASE \E g \in Gap : DropJob(g)
      <3>1. PICK g \in Gap : DropJob(g)
        BY <2>1
      <3>2. job[g] # NoJob
        BY <3>1 DEF DropJob, NoJob
      <3> QED BY <3>1, <3>2 DEF DropJob
    <2>2. CASE Complete
      <3>1. active.gap \in Gap /\ job[active.gap] # NoJob
        BY <2>2, HeldHasRow DEF Complete
      <3> QED BY <2>2, <3>1 DEF Complete
    <2> QED BY <2>1, <2>2
  <1>2. NoRow.status \notin Open
    BY DEF NoRow, Open
  <1> QED BY <1>1, <1>2, RowStep

\* The next blocks: the job goes on with the same row.
LEMMA BlocksKeepGaps ==
    ASSUME GapsInv, StartBlocks, UNCHANGED abandoned
    PROVE  GapsInv'
  <1> USE DEF StartBlocks
  <1> DEFINE last == Lesser(active.next + Parallel - 1, gap[active.gap].range[2])
  <1>1. /\ active.next \in Nat \ {0} /\ gap[active.gap].range[2] \in Block
        /\ Parallel \in Nat \ {0}
    BY HeldHasRow, BackfillAssumption DEF Row, Range, Hold
  <1>2. last + 1 \in Nat \ {0}
    BY <1>1, BlockAssumption DEF Lesser, Block
  <1>3. active' = [active EXCEPT !.next = last + 1]
    OBVIOUS
  <1> HIDE DEF last
  <1>4. active' \in Hold /\ active'.gap = active.gap
    BY <1>2, <1>3, HeldHasRow DEF Hold
  <1>5. UNCHANGED <<gap, detect, job>>
    OBVIOUS
  <1> USE DEF GapsInv
  <1>6. BackfillTyping'
    BY <1>4, <1>5 DEF BackfillTyping
  <1>7. JobHasRow' /\ CreatedHasNoJob'
    BY <1>5 DEF JobHasRow, CreatedHasNoJob
  <1>8. HeldIsActive'
    BY <1>4, <1>5 DEF HeldIsActive
  <1>9. OpenHasJob'
    BY <1>5 DEF OpenHasJob
  <1> QED BY <1>6, <1>7, <1>8, <1>9

\* A row that is resolved is closed and keeps its job until that is complete.
LEMMA ResolveKeepsGaps ==
    ASSUME GapsInv, Resolve, UNCHANGED abandoned
    PROVE  GapsInv'
  <1> USE DEF Resolve
  <1>1. PICK g \in Gap : g = active.gap
    BY HeldHasRow
  <1>2. gap[g] \in Row /\ job[g] \in Job /\ job[g] # NoJob /\ active \in Hold
    BY <1>1, HeldHasRow
  <1> DEFINE row == [gap[g] EXCEPT !.status = "resolved"]
  <1>3. row \in Row /\ row # NoRow
    BY <1>2 DEF Row, NoRow
  <1>4. /\ gap' = [gap EXCEPT ![g] = row]
        /\ job' = [job EXCEPT ![g] = job[g]]
        /\ UNCHANGED <<active, detect>>
    BY <1>1 DEF GapsInv, BackfillTyping
  <1>5. job[g].state = "active"
    BY <1>1 DEF GapsInv, HeldIsActive
  <1> HIDE DEF row, Resolve
  <1> QED BY <1>1, <1>2, <1>3, <1>4, <1>5, RowStep

\* An attempt that failed: the job waits for another one, or is gone, and then the
\* row is closed or abandoned.
LEMMA AttemptKeepsGaps ==
    ASSUME GapsInv, NEW g \in Gap, NEW made \in Nat, NEW row \in Row,
           job[g] # NoJob, AttemptFails(g, made, row),
           abandoned \subseteq abandoned',
           row.status \in Open /\ ~Retried(made) => g \in abandoned'
    PROVE  GapsInv'
  <1> DEFINE work == [job[g] EXCEPT !.state = "waiting", !.made = made]
  <1>1. work \in Job /\ work # NoJob /\ row # NoRow
    <2>1. job[g] \in Job
      BY DetectorStates DEF GapsInv
    <2>2. work \in Job
      BY <2>1 DEF Job
    <2>3. row # NoRow
      BY DEF Row, NoRow
    <2> QED BY <2>2, <2>3 DEF Job, NoJob
  <1>2. NoRow.status \notin Open
    BY DEF NoRow, Open
  <1>3. active' = Idle /\ UNCHANGED detect
    BY DEF AttemptFails
  <1>4. CASE Retried(made)
    <2>1. gap' = [gap EXCEPT ![g] = row] /\ job' = [job EXCEPT ![g] = work]
      BY <1>4 DEF AttemptFails, GapsInv, BackfillTyping
    <2> HIDE DEF work
    <2> QED BY <1>1, <1>3, <2>1, RowStep
  <1>5. CASE ~Retried(made) /\ row.status \in Open
    <2>1. gap' = [gap EXCEPT ![g] = row] /\ job' = [job EXCEPT ![g] = NoJob]
      BY <1>5 DEF AttemptFails
    <2> QED BY <1>3, <1>5, <2>1, RowStep
  <1>6. CASE ~Retried(made) /\ row.status \notin Open
    <2>1. gap' = [gap EXCEPT ![g] = NoRow] /\ job' = [job EXCEPT ![g] = NoJob]
      BY <1>6 DEF AttemptFails
    <2> QED BY <1>2, <1>3, <2>1, RowStep
  <1> QED BY <1>4, <1>5, <1>6

\* An error in process: the row is marked failed, or stays as it was and is abandoned
\* with the last attempt.
LEMMA FailureKeepsGaps ==
    ASSUME GapsInv,
           \/ BackfillFails /\ UNCHANGED abandoned
           \/ \E g \in Gap : TakeFails(g) /\ GivesUp(g, job[g].made + 1)
           \/ RecordFails /\ GivesUp(active.gap, job[active.gap].made)
    PROVE  GapsInv'
  <1>1. ASSUME NEW g \in Gap, job[g] # NoJob
        PROVE  gap[g] \in Row /\ job[g] \in Job /\ job[g].made \in Nat
    BY <1>1, DetectorStates DEF GapsInv, JobHasRow, Job
  <1>2. CASE BackfillFails /\ UNCHANGED abandoned
    <2> DEFINE row == [gap[active.gap] EXCEPT !.status = "failed"]
    <2>1. active.gap \in Gap /\ job[active.gap] # NoJob
      BY <1>2, HeldHasRow DEF BackfillFails, Working
    <2>2. row \in Row /\ row.status \notin Open
      BY <1>1, <2>1 DEF Row, Open
    <2>3. AttemptFails(active.gap, job[active.gap].made, row)
      BY <1>2 DEF BackfillFails
    <2> HIDE DEF row
    <2> QED BY <1>1, <1>2, <2>1, <2>2, <2>3, AttemptKeepsGaps
  <1>3. ASSUME NEW g \in Gap, TakeFails(g), GivesUp(g, job[g].made + 1)
        PROVE  GapsInv'
    <2>1. job[g] # NoJob
      BY <1>3 DEF TakeFails, NoJob
    <2>2. job[g].made + 1 \in Nat
      BY <1>1, <2>1
    <2> QED BY <1>1, <1>3, <2>1, <2>2, AttemptKeepsGaps DEF TakeFails, GivesUp
  <1>4. CASE RecordFails /\ GivesUp(active.gap, job[active.gap].made)
    <2>1. active.gap \in Gap /\ job[active.gap] # NoJob
      BY <1>4, HeldHasRow DEF RecordFails, Working
    <2> QED BY <1>1, <1>4, <2>1, AttemptKeepsGaps DEF RecordFails, GivesUp
  <1> QED BY <1>2, <1>3, <1>4

\* A restart: the job waits again, or is gone if it had stalled before, and its
\* row and the one the detector was about to queue are abandoned.
LEMMA CrashKeepsGaps ==
    ASSUME GapsInv, BackfillCrashes,
           abandoned' = abandoned \cup (IF detect.pc = "enqueue" THEN {detect.gap} ELSE {})
                                  \cup (IF job[active.gap].stalled THEN {active.gap} ELSE {})
    PROVE  GapsInv'
  <1> USE DEF BackfillCrashes
  <1>1. PICK g \in Gap : g = active.gap
    BY HeldHasRow
  <1>2. gap[g] \in Row /\ job[g] \in Job /\ job[g] # NoJob /\ gap[g] # NoRow
    BY <1>1, HeldHasRow DEF Row, NoRow
  <1> DEFINE work == [job[g] EXCEPT !.state = "waiting", !.stalled = TRUE]
  <1>3. work \in Job /\ work # NoJob
    BY <1>2 DEF Job, NoJob
  <1>4. /\ gap' = [gap EXCEPT ![g] = gap[g]]
        /\ active' = Idle /\ detect' = Idle
        /\ abandoned \subseteq abandoned'
        /\ detect.pc = "enqueue" => detect.gap \in abandoned'
    BY DEF GapsInv, BackfillTyping
  <1>5. CASE job[g].stalled
    <2>1. job' = [job EXCEPT ![g] = NoJob] /\ g \in abandoned'
      BY <1>1, <1>5
    <2> HIDE DEF work, BackfillCrashes
    <2> QED BY <1>2, <1>4, <2>1, RowStep
  <1>6. CASE ~job[g].stalled
    <2>1. job' = [job EXCEPT ![g] = work]
      BY <1>1, <1>6 DEF GapsInv, BackfillTyping
    <2> HIDE DEF work, BackfillCrashes
    <2> QED BY <1>2, <1>3, <1>4, <2>1, RowStep
  <1> QED BY <1>5, <1>6

\* The worker keeps the invariant, also when it fails.
LEMMA WorkKeepsGaps ==
    ASSUME GapsInv, Worker \/ WorkerFails
    PROVE  GapsInv'
  <1>1. CASE Worker
    <2>1. UNCHANGED abandoned
      BY <1>1 DEF Worker, history
    <2> QED BY <1>1, <2>1, TakeKeepsGaps, EndKeepsGaps, BlocksKeepGaps, ResolveKeepsGaps DEF Worker
  <1>2. CASE WorkerFails
    BY <1>2, FailureKeepsGaps, CrashKeepsGaps DEF WorkerFails
  <1> QED BY <1>1, <1>2

-----------------------------------------------------------------------------
(* The theorems *)

\* Every step keeps both parts of the invariant.
LEMMA NextKeepsInv ==
    ASSUME IndexInv, [Next]_vars
    PROVE  IndexInv'
  <1> USE DEF IndexInv
  <1>1. CASE Chain
    <2>1. UNCHANGED <<backfill, abandoned>>
      BY <1>1 DEF Chain, history
    <2> QED BY <1>1, <2>1, ChainKeepsBlocks, GapsStutter
  <1>2. CASE \E a \in Address : Registration(a)
    <2>1. UNCHANGED <<backfill, abandoned>>
      BY <1>2 DEF Registration
    <2> QED BY <1>2, <2>1, RegistrationKeepsBlocks, GapsStutter
  <1>3. CASE \E b \in Block : Processing(b)
    <2>1. UNCHANGED <<backfill, abandoned>>
      BY <1>3 DEF Processing
    <2> QED BY <1>3, <2>1, ProcessingKeepsBlocks, GapsStutter
  <1>4. CASE CacheExpiry
    <2>1. UNCHANGED <<backfill, abandoned>>
      BY <1>4 DEF CacheExpiry
    <2> QED BY <1>4, <2>1, ExpiryKeepsBlocks, GapsStutter
  <1>5. CASE Detector
    <2>1. UNCHANGED <<index, unread, late, raced>>
      BY <1>5 DEF Detector, history
    <2> QED BY <1>5, <2>1, BlocksStutter, DetectorKeepsGaps DEF BlocksInv
  <1>6. CASE DetectorFails
    <2>1. UNCHANGED <<index, unread, late, raced>>
      BY <1>6 DEF DetectorFails
    <2> QED BY <1>6, <2>1, BlocksStutter, DetectorFailsKeepsGaps
  <1>7. CASE Worker \/ WorkerFails
    BY <1>7, WorkKeepsBlocks, WorkKeepsGaps
  <1>8. CASE UNCHANGED vars
    BY <1>8, BlocksStutter, GapsStutter DEF vars, history
  <1> QED BY <1>1, <1>2, <1>3, <1>4, <1>5, <1>6, <1>7, <1>8 DEF Next

\* The invariant holds in every behaviour.
LEMMA IndexInvariant == Spec => []IndexInv
  <1>1. Init => IndexInv
    BY InitBlocksInv, InitGapsInv DEF IndexInv
  <1>2. IndexInv /\ [Next]_vars => IndexInv'
    BY NextKeepsInv
  <1> QED BY <1>1, <1>2, PTL DEF Spec

\* The rows, the jobs and the progress of each block have the form the code
\* gives them, and the worker holds an active job.
THEOREM IndexTypes == Spec => []TypeOK
  <1>1. IndexInv => TypeOK
    <2> SUFFICES ASSUME IndexInv PROVE TypeOK
      OBVIOUS
    <2> USE DEF IndexInv, BlocksInv, GapsInv
    <2>1. \A b \in Block : task[b] = NoTask \/ task[b] \in Pending
      BY DEF IndexTyping
    <2>2. \A g \in Gap : gap[g] = NoRow \/ (gap[g].range \in Range /\ gap[g].attempts <= MaxAttempts)
      <3>1. \A g \in Gap : gap[g] \in {NoRow} \cup Row
        BY DEF BackfillTyping
      <3> QED BY <3>1, BackfillAssumption DEF Row
    <2>3. active = Idle \/ job[active.gap].state = "active"
      BY DEF HeldIsActive
    <2> QED BY <2>1, <2>2, <2>3 DEF TypeOK, IndexTyping
  <1> QED BY <1>1, IndexInvariant, PTL

\* A block that counts as examined has every transfer of a registered address
\* in indexed_events, but for the cases in which block-processor goes on without
\* its logs or the address came too late or into a stale map: this is what
\* allows the gap detector to leave the block out for ever.
THEOREM ExaminedBlocks == Spec => []ExaminedIsIndexed
  <1>1. IndexInv => ExaminedIsIndexed
    BY DEF IndexInv, BlocksInv
  <1> QED BY <1>1, IndexInvariant, PTL

\* An open row of sync_gaps has a job, so that the range it keeps from being
\* queued again is worked on, unless the row was abandoned: by a crash or an error before
\* its job was queued, by a second stall, or by a last attempt that could not write it.
THEOREM OpenGapsHaveJobs == Spec => []OpenHasJob
  <1>1. IndexInv => OpenHasJob
    BY DEF IndexInv, GapsInv
  <1> QED BY <1>1, IndexInvariant, PTL

=============================================================================
