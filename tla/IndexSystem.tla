---------------------------- MODULE IndexSystem ----------------------------
(***************************************************************************)
(* Chain, registration of addresses, sync cursor, gap detector and         *)
(* backfill worker: how the transfers of monitored addresses reach         *)
(* indexed_events.                                                         *)
(***************************************************************************)
EXTENDS GapBackfill

CONSTANTS
    MaxFails,       \* bound: failures, restarts and ended cache entries
    MaxWorkFails,   \* bound: the same, with failures of the worker at the end
    CursorLag       \* bound: how far the cursor may be behind the head

ASSUME IndexAssumption == {MaxFails, MaxWorkFails, CursorLag} \subseteq Nat

VARIABLES
    unread,     \* history: blocks scanned without their logs or not found
    late,       \* history: blocks examined or under way when an address was registered
    raced,      \* history: addresses added while a map without them was being read
    abandoned,  \* history: open rows whose job was never queued, or given up
    fails       \* how often something failed

history == <<unread, late, raced, abandoned, fails>>
vars == <<index, backfill, history>>

Init ==
    /\ IndexInit /\ BackfillInit
    /\ unread = {} /\ late = {} /\ raced = {} /\ abandoned = {} /\ fails = 0

Fails == fails < MaxFails /\ fails' = fails + 1

UnderWay == {b \in Block : task[b] # NoTask}

Chain ==
    /\ \/ Mine
       \/ \E b \in Block : b + CursorLag >= head /\ MoveCursor(b)
    /\ UNCHANGED <<backfill, history>>

Registration(a) ==
    /\ \/ RegisterRow(a) /\ UNCHANGED <<late, fails>>
       \/ /\ RegisterDone(a)
          /\ late' = late \cup ({a} \X (Examined \cup UnderWay))
          /\ UNCHANGED fails
       \/ RegisterFails(a) /\ Fails /\ UNCHANGED late
    /\ UNCHANGED <<backfill, unread, raced, abandoned>>

Scanning(b) == task[b].pc = "scan"

\* blocks that were read without their logs, or not at all
ScanPartly(b) == Scan(b, FALSE) \/ ScanNothing(b)

Processing(b) ==
    /\ \/ LoadCached(b) /\ UNCHANGED <<unread, raced, fails>>
       \/ LoadRows(b) /\ UNCHANGED <<unread, raced, fails>>
       \/ /\ FillCache(b)
          /\ raced' = raced \cup (Active \ addrCache')
          /\ UNCHANGED <<unread, fails>>
       \/ /\ Scanning(b)
          /\ IF task[b].map = {} THEN ScanNothing(b) ELSE Scan(b, TRUE)
          /\ UNCHANGED <<unread, raced, fails>>
       \/ /\ Scanning(b) /\ task[b].map # {}
          /\ ScanPartly(b) /\ Fails
          /\ unread' = unread \cup {b}
          /\ UNCHANGED raced
       \/ ScanFails(b) /\ Fails /\ UNCHANGED <<unread, raced>>
       \/ /\ detect = Idle /\ active = Idle
          /\ ForgetScanned(b) /\ Fails
          /\ UNCHANGED <<unread, raced>>
    /\ UNCHANGED <<backfill, late, abandoned>>

CacheExpiry ==
    /\ CacheEnds /\ Fails
    /\ UNCHANGED <<backfill, unread, late, raced, abandoned>>

Detector ==
    /\ \/ BeginDetect
       \/ DetectBatch
       \/ SkipRange
       \/ \E g \in Gap : CreateGap(g)
       \/ Enqueue
    /\ UNCHANGED <<index, history>>

DetectorFails ==
    /\ DetectFails /\ Fails
    /\ abandoned' = abandoned \cup (IF detect.pc = "enqueue" THEN {detect.gap} ELSE {})
    /\ UNCHANGED <<index, unread, late, raced>>

Worker ==
    /\ \/ \E g \in Gap : TakeJob(g) \/ DropJob(g)
       \/ StartBlocks
       \/ Resolve
       \/ Complete
    /\ UNCHANGED history

\* an open row whose job has had its last attempt
GivesUp(g, made) ==
    abandoned' = abandoned \cup (IF Retried(made) \/ gap[g].status \notin Open THEN {} ELSE {g})

WorkerFails ==
    /\ fails < MaxWorkFails /\ fails' = fails + 1
    /\ \/ BackfillFails /\ UNCHANGED abandoned
       \/ \E g \in Gap : TakeFails(g) /\ GivesUp(g, job[g].made + 1)
       \/ RecordFails /\ GivesUp(active.gap, job[active.gap].made)
       \/ /\ BackfillCrashes
          /\ abandoned' = abandoned \cup (IF detect.pc = "enqueue" THEN {detect.gap} ELSE {})
                                    \cup (IF job[active.gap].stalled THEN {active.gap} ELSE {})
    /\ UNCHANGED <<unread, late, raced>>

Next ==
    \/ Chain
    \/ \E a \in Address : Registration(a)
    \/ \E b \in Block : Processing(b)
    \/ CacheExpiry
    \/ Detector
    \/ DetectorFails
    \/ Worker
    \/ WorkerFails

\* a poll every 30 s writes the head, the detector runs every five minutes, the
\* queue hands out each job, and what has begun goes on
Fairness ==
    /\ WF_vars(Chain /\ cursor' = head')
    /\ WF_vars(Detector)
    /\ \A g \in Gap : SF_vars(Worker /\ (TakeJob(g) \/ DropJob(g)))
    /\ WF_vars(Worker)
    /\ WF_vars((\E b \in Block : Processing(b)) /\ fails' = fails)

Spec == Init /\ [][Next]_vars /\ Fairness

-----------------------------------------------------------------------------
Range == Block \X Block
Pending == [pc : {"start"}] \cup [pc : {"fill", "scan"}, map : SUBSET Address]

\* Rows, jobs and the progress of each block have the form the code gives them.
TypeOK ==
    /\ head \in Block /\ cursor \in 0 .. MaxBlock
    /\ startBlock \in [Address -> 0 .. MaxBlock]
    /\ addrCache = NoCache \/ addrCache \subseteq Address
    /\ indexed \subseteq Transfer /\ blockRows \subseteq Block /\ scanned \subseteq Block
    /\ \A b \in Block : task[b] = NoTask \/ task[b] \in Pending
    /\ \A g \in Gap : gap[g] = NoRow \/ (gap[g].range \in Range /\ gap[g].attempts <= MaxAttempts)
    /\ active = Idle \/ job[active.gap].state = "active"

\* A block that counts as examined, by a row or by its key, has every transfer
\* of a registered address in indexed_events, unless the log query failed or the
\* node did not have the block (block-processor goes on), the address came too
\* late or into a stale map, or another event has the same transaction and log.
ExaminedIsIndexed ==
    \A t \in Transfer :
        entry[t.address] = "done" /\ t.block >= startBlock[t.address] /\ t.block \in Examined
        => \/ t \in indexed
           \/ t.block \in unread
           \/ <<t.address, t.block>> \in late
           \/ t.address \in raced
           \/ \E u \in indexed : u.key = t.key

\* An open row of sync_gaps keeps its range from being queued again, so it must
\* have a job.  It is left without one by a crash or an error between the row and
\* the job, by a job that stalled twice, and by a last attempt in which a statement
\* outside the try, or the update in the catch, throws (backfill.worker.ts).
OpenHasJob ==
    \A g \in Gap : gap[g].status \in Open =>
        \/ job[g] # NoJob
        \/ detect.pc = "enqueue" /\ detect.gap = g
        \/ g \in abandoned

\* the blocks the detector looks at when the chain has come to its last block
LookedAt == {b \in Block : b + CursorLag < MaxBlock /\ b + Lookback >= MaxBlock}

Wanted(b) == head = MaxBlock /\ \E a \in Address : startBlock[a] > 0 /\ startBlock[a] <= b

\* gap-detector: every block of the window is examined in the end, whatever
\* failed before; a row left open without a job may hold it for ever.
WindowIsExamined ==
    \A b \in LookedAt : Wanted(b) ~> b \in Examined \/ abandoned # {}
=============================================================================
