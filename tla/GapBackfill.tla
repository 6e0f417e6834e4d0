---------------------------- MODULE GapBackfill ----------------------------
(***************************************************************************)
(* chain-indexer-service: gap-detector.service.ts looks for blocks that    *)
(* were never examined and queues jobs; backfill.worker.ts works on one    *)
(* job at a time and calls the block processor for each block of the gap.  *)
(***************************************************************************)
EXTENDS BlockIndex

CONSTANTS
    MaxGaps,        \* bound: rows of sync_gaps that are open or have a job
    Lookback,       \* MAX_GAP_LOOKBACK
    BatchSize,      \* BATCH_SIZE of the detector
    Parallel,       \* BATCH_CONCURRENCY of the worker
    JobAttempts,    \* attempts of a backfill job
    MaxAttempts     \* sync_gaps.max_attempts

\* each of these is a positive constant in the code or a column's default
ASSUME BackfillAssumption ==
    {Lookback, BatchSize, Parallel, JobAttempts, MaxAttempts} \subseteq Nat \ {0}

Gap == 1 .. MaxGaps

VARIABLES
    gap,            \* rows of sync_gaps that are open or have a job
    detect,         \* what the detector is doing
    job,            \* the backfill job of each row
    active          \* the job the worker holds

backfill == <<gap, detect, job, active>>

NoRow == [status |-> "none"]
NoJob == [state |-> "none"]
Idle == [pc |-> "idle"]

Open == {"detected", "backfilling"}
Lowest(S) == CHOOSE n \in S : \A m \in S : n <= m
Lesser(m, n) == IF m < n THEN m ELSE n
Greater(m, n) == IF m > n THEN m ELSE n

BackfillInit ==
    /\ gap = [g \in Gap |-> NoRow]
    /\ detect = Idle
    /\ job = [g \in Gap |-> NoJob]
    /\ active = Idle

Earliest == Lowest({startBlock[a] : a \in Active})

\* detectAndEnqueueGaps: the window
BeginDetect ==
    /\ detect = Idle
    /\ Active # {} /\ cursor > 0 /\ Earliest < cursor
    /\ detect' = [pc |-> "batch", at |-> Greater(Earliest, cursor - Lookback),
                  end |-> cursor, ranges |-> {}]
    /\ UNCHANGED <<gap, job, active>>

Missing(from, to) == (from .. to) \ Examined

\* fault: the range under way at the end of the loop is not kept
RangesButLast(M) ==
    {r \in M \X M : r[1] .. r[2] \subseteq M /\ r[1] - 1 \notin M /\ r[2] + 1 \notin M
                    /\ \E m \in M : m > r[2]}

\* coalesceGaps
Ranges(M) ==
    {r \in M \X M : r[1] .. r[2] \subseteq M /\ r[1] - 1 \notin M /\ r[2] + 1 \notin M}

\* the next batch of the window; a batch never starts at its last block
DetectBatch ==
    /\ detect.pc = "batch" /\ detect.ranges = {}
    /\ LET last == Lesser(detect.at + BatchSize - 1, detect.end)
       IN detect' = IF detect.at >= detect.end THEN Idle
                    ELSE [detect EXCEPT !.at = detect.at + BatchSize,
                                        !.ranges = Ranges(Missing(detect.at, last))]
    /\ UNCHANGED <<gap, job, active>>

NextRange == CHOOSE r \in detect.ranges : \A q \in detect.ranges : r[1] <= q[1]

AlreadyKnown(r) == \E g \in Gap : gap[g].status \in Open /\ gap[g].range = r

\* an open row with this range: nothing to do
SkipRange ==
    /\ detect.pc = "batch" /\ detect.ranges # {}
    /\ AlreadyKnown(NextRange)
    /\ detect' = [detect EXCEPT !.ranges = @ \ {NextRange}]
    /\ UNCHANGED <<gap, job, active>>

\* the row; an id is taken again when nothing refers to it
CreateGap(g) ==
    /\ detect.pc = "batch" /\ detect.ranges # {}
    /\ ~AlreadyKnown(NextRange)
    /\ gap[g] = NoRow /\ \A h \in Gap : h < g => gap[h] # NoRow
    /\ gap' = [gap EXCEPT ![g] = [status |-> "detected", range |-> NextRange, attempts |-> 0]]
    /\ detect' = [pc |-> "enqueue", gap |-> g, at |-> detect.at, end |-> detect.end,
                  ranges |-> detect.ranges \ {NextRange}]
    /\ UNCHANGED <<job, active>>

Enqueue ==
    /\ detect.pc = "enqueue"
    /\ job' = [job EXCEPT ![detect.gap] = [state |-> "waiting", made |-> 0, stalled |-> FALSE]]
    /\ detect' = [pc |-> "batch", at |-> detect.at, end |-> detect.end,
                  ranges |-> detect.ranges]
    /\ UNCHANGED <<gap, active>>

\* an error ends the tick, and so does a restart
DetectFails ==
    /\ detect # Idle
    /\ detect' = Idle
    /\ UNCHANGED <<gap, job, active>>

-----------------------------------------------------------------------------
\* process: a row that is resolved, or was tried too often (and is marked
\* failed), ends the job
DropJob(g) ==
    /\ active = Idle
    /\ job[g].state = "waiting"
    /\ gap[g].status = "resolved" \/ gap[g].attempts >= MaxAttempts
    /\ job' = [job EXCEPT ![g] = NoJob]
    /\ gap' = [gap EXCEPT ![g] = NoRow]
    /\ UNCHANGED <<index, detect, active>>

TakeJob(g) ==
    /\ active = Idle
    /\ job[g].state = "waiting"
    /\ gap[g].status # "resolved" /\ gap[g].attempts < MaxAttempts
    /\ job' = [job EXCEPT ![g].state = "active", ![g].made = @ + 1]
    /\ gap' = [gap EXCEPT ![g].status = "backfilling", ![g].attempts = @ + 1]
    /\ active' = [gap |-> g, next |-> gap[g].range[1]]
    /\ UNCHANGED <<index, detect>>

NoTasks == \A b \in Block : task[b] = NoTask
Finished == active.next > gap[active.gap].range[2]

\* the next blocks, a few at a time
StartBlocks ==
    /\ active # Idle /\ NoTasks /\ ~Finished
    /\ LET last == Lesser(active.next + Parallel - 1, gap[active.gap].range[2])
       IN  /\ task' = [b \in Block |-> IF b \in active.next .. last THEN [pc |-> "start"]
                                       ELSE NoTask]
           /\ active' = [active EXCEPT !.next = last + 1]
    /\ UNCHANGED <<head, cursor, entry, startBlock, addrCache, indexed, blockRows, scanned,
                   gap, detect, job>>

Resolve ==
    /\ active # Idle /\ NoTasks /\ Finished
    /\ gap[active.gap].status = "backfilling"
    /\ gap' = [gap EXCEPT ![active.gap].status = "resolved"]
    /\ UNCHANGED <<index, detect, job, active>>

Complete ==
    /\ active # Idle /\ gap[active.gap].status = "resolved"
    /\ gap' = [gap EXCEPT ![active.gap] = NoRow]
    /\ job' = [job EXCEPT ![active.gap] = NoJob]
    /\ active' = Idle
    /\ UNCHANGED <<index, detect>>

Retried(made) == made < JobAttempts

\* the queue hands the job out again while it has attempts; a closed row without a job
\* is of no further interest
AttemptFails(g, made, row) ==
    /\ job' = [job EXCEPT ![g] = IF Retried(made) THEN [@ EXCEPT !.state = "waiting", !.made = made]
                                 ELSE NoJob]
    /\ gap' = [gap EXCEPT ![g] = IF Retried(made) \/ row.status \in Open THEN row ELSE NoRow]
    /\ active' = Idle
    /\ UNCHANGED <<index, detect>>

\* process: the query of the row or an update before the loop throws
TakeFails(g) ==
    /\ active = Idle
    /\ job[g].state = "waiting"
    /\ AttemptFails(g, job[g].made + 1, gap[g])

Working == active # Idle /\ NoTasks /\ gap[active.gap].status = "backfilling"

\* fault: the error is logged and the row stays as it is
BackfillFailsSilently ==
    /\ Working
    /\ job' = [job EXCEPT ![active.gap] = NoJob]
    /\ active' = Idle
    /\ UNCHANGED <<index, gap, detect>>

\* Redis fails for the progress or the database for the row: the catch marks it failed
BackfillFails ==
    /\ Working
    /\ AttemptFails(active.gap, job[active.gap].made, [gap[active.gap] EXCEPT !.status = "failed"])

\* the update in the catch throws as well
RecordFails ==
    /\ Working
    /\ AttemptFails(active.gap, job[active.gap].made, gap[active.gap])

\* the process restarts: the queue hands a stalled job out once more
BackfillCrashes ==
    /\ active # Idle
    /\ job' = [job EXCEPT ![active.gap] =
                    IF @.stalled THEN NoJob
                    ELSE [@ EXCEPT !.state = "waiting", !.stalled = TRUE]]
    /\ active' = Idle
    /\ detect' = Idle
    /\ task' = [b \in Block |-> NoTask]
    /\ addrCache' = NoCache
    /\ UNCHANGED <<head, cursor, entry, startBlock, indexed, blockRows, scanned, gap>>
=============================================================================
