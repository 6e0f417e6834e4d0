-------------------------- MODULE WithdrawalWorker --------------------------
(***************************************************************************)
(* cron-worker-service: the jobs that execute approved withdrawals         *)
(* (withdrawal-worker.service.ts) and follow their transactions            *)
(* (withdrawal-confirm.service.ts).                                        *)
(*                                                                         *)
(* The BullMQ queue is modelled from how the services use it: a job has an *)
(* id and a job with an existing id is not added, also when the existing   *)
(* one has ended and is retained; a job that throws is retried until its   *)
(* attempts are used up; a job whose lock expires, because its worker died *)
(* or was cut off, goes to another worker, MaxStalled times.               *)
(***************************************************************************)
EXTENDS WithdrawalTable, HotWalletChain

CONSTANTS
    Worker,         \* concurrent jobs of the 'withdrawal' queue
    MaxAttempts,    \* attempts of an 'execute' job
    MaxStalled,     \* maxStalledCount of BullMQ
    Outages         \* whether workers die or lose the locks of their jobs, and
                    \* the database refuses calls

ASSUME WorkerAssumption ==
    MaxAttempts \in Nat \ {0} /\ MaxStalled \in Nat /\ MaxTxs \in Nat

VARIABLES
    polled,     \* approved withdrawals a poll read and has not enqueued yet
    job,        \* 'execute-withdrawal-<id>' jobs
    exec,       \* what each worker is executing
    txHash,     \* the tx_hash column, as an index of txs; 0 when NULL
    confirm,    \* 'confirm-withdrawal-<id>' jobs and what they have read
    late        \* history: an attempt failed after its broadcast was accepted

workerVars == <<polled, job, exec, txHash, confirm, late, txs>>

Free == [pc |-> "free"]

ExecPc == {"claim", "load", "sequence", "nonce", "broadcast", "record", "track", "publish"}

\* where a transaction of the attempt may be on its way
Broadcasted == {"record", "track", "publish"}

NoJob == [state |-> "none", made |-> 0, stalls |-> 0]

\* completed or failed, and retained: nobody reads more of it than its id
EndedJob == [state |-> "ended", made |-> 0, stalls |-> 0]

NotFollowed == [state |-> "none", tx |-> 0]

\* states of a check whose receipt tells of a revert, or of a transaction mined,
\* whose block may be orphaned before the height is read
Checking == {"reverted", "mined", "orphaned"}

\* the sender: the hot wallet is called with the platform key
AccountOf(w) == IF source[w] = "gas_tank" THEN "gas_tank" ELSE "platform"

Busy(k, pc) == exec[k].pc = pc

Goto(k, pc) == exec' = [exec EXCEPT ![k].pc = pc]

Leave(k) == exec' = [exec EXCEPT ![k] = Free]

\* worker k, which holds the lock or not, reports the end of its job
JobEnds(k) ==
    job' = IF exec[k].lock THEN [job EXCEPT ![exec[k].w] = EndedJob] ELSE job

LastAttempt(k) == exec[k].made + 1 >= MaxAttempts

WorkerInit ==
    /\ polled = {}
    /\ job = [w \in Withdrawal |-> NoJob]
    /\ exec = [k \in Worker |-> Free]
    /\ txHash = [w \in Withdrawal |-> 0]
    /\ confirm = [w \in Withdrawal |-> NotFollowed]
    /\ late = [w \in Withdrawal |-> FALSE]
    /\ txs = <<>>

-----------------------------------------------------------------------------
(* pollApprovedWithdrawals *)

PollRead ==
    /\ polled' = polled \union {w \in Withdrawal : status[w] = "approved"}
    /\ UNCHANGED <<source, status, job, exec, txHash, confirm, late, txs>>

Enqueue(w) ==
    /\ w \in polled
    /\ polled' = polled \ {w}
    /\ job' = IF job[w] = NoJob THEN [job EXCEPT ![w].state = "waiting"] ELSE job
    /\ UNCHANGED <<source, status, exec, txHash, confirm, late, txs>>

-----------------------------------------------------------------------------
(* The queue *)

Take(k, w) ==
    /\ exec[k] = Free
    /\ job[w].state = "waiting"
    /\ job' = [job EXCEPT ![w].state = "active"]
    /\ exec' = [exec EXCEPT ![k] = [pc |-> "claim", w |-> w, seq |-> 0, nonce |-> 0,
                                    tx |-> 0, made |-> job[w].made, lock |-> TRUE]]
    /\ UNCHANGED <<source, status, polled, txHash, confirm, late, txs>>

\* fault: the count of stalls is compared after it was raised
StallOnceMore(w) ==
    /\ Outages
    /\ job[w].state = "active"
    /\ job' = [job EXCEPT ![w] = IF job[w].stalls <= MaxStalled
                                 THEN [job[w] EXCEPT !.state = "waiting", !.stalls = @ + 1]
                                 ELSE EndedJob]
    /\ UNCHANGED <<source, status, polled, exec, txHash, confirm, late, txs>>

\* the lock of an active job expires: its worker may still be running
Stall(w) ==
    /\ Outages
    /\ job[w].state = "active"
    /\ job' = [job EXCEPT
                ![w] = IF job[w].stalls < MaxStalled
                       THEN [job[w] EXCEPT !.state = "waiting", !.stalls = @ + 1]
                       ELSE EndedJob]
    /\ exec' = [k \in Worker |-> IF exec[k] # Free /\ exec[k].w = w
                                 THEN [exec[k] EXCEPT !.lock = FALSE] ELSE exec[k]]
    /\ UNCHANGED <<source, status, polled, txHash, confirm, late, txs>>

\* a worker that lost its lock turns out to have died
Die(k) ==
    /\ exec[k] # Free
    /\ ~exec[k].lock
    /\ Leave(k)
    /\ UNCHANGED <<source, status, polled, job, txHash, confirm, late, txs>>

\* enough other jobs ended that a retained one is removed
RemoveJob(w) ==
    /\ job[w] = EndedJob
    /\ job' = [job EXCEPT ![w] = NoJob]
    /\ UNCHANGED <<source, status, polled, exec, txHash, confirm, late, txs>>

-----------------------------------------------------------------------------
(* executeWithdrawal and executeGasTankWithdrawal *)

\* fault: the claim does not look at the status
ClaimAnyStatus(k) ==
    /\ Busy(k, "claim")
    /\ SetStatus(exec[k].w, "broadcasting")
    /\ Goto(k, "load")
    /\ UNCHANGED <<source, polled, job, txHash, confirm, late, txs>>

\* fault: a withdrawal an earlier attempt claimed is claimed again
ClaimAgain(k) ==
    LET w == exec[k].w IN
    /\ Busy(k, "claim")
    /\ IF status[w] \in {"approved", "broadcasting"}
       THEN /\ SetStatus(w, "broadcasting")
            /\ Goto(k, "load")
            /\ UNCHANGED job
       ELSE Leave(k) /\ JobEnds(k) /\ UNCHANGED status
    /\ UNCHANGED <<source, polled, txHash, confirm, late, txs>>

Claim(k) ==
    LET w == exec[k].w IN
    /\ Busy(k, "claim")
    /\ CompareAndSet(w, "approved", "broadcasting")
    /\ IF status[w] = "approved"
       THEN Goto(k, "load") /\ UNCHANGED job
       ELSE Leave(k) /\ JobEnds(k)
    /\ UNCHANGED <<source, polled, txHash, confirm, late, txs>>

\* the row is fetched: the payer decides how it goes on
Load(k) ==
    /\ Busy(k, "load")
    /\ Goto(k, IF source[exec[k].w] = "gas_tank" THEN "nonce" ELSE "sequence")
    /\ UNCHANGED <<source, status, polled, job, txHash, confirm, late, txs>>

ReadSequence(k) ==
    /\ Busy(k, "sequence")
    /\ \E s \in 1..MaxTxs+1 :
        /\ IsNextSequenceId(s)
        /\ exec' = [exec EXCEPT ![k].seq = s, ![k].pc = "nonce"]
    /\ UNCHANGED <<source, status, polled, job, txHash, confirm, late, txs>>

ReadNonce(k) ==
    /\ Busy(k, "nonce")
    /\ \E n \in 0..MaxTxs :
        /\ IsPendingNonce(AccountOf(exec[k].w), n)
        /\ exec' = [exec EXCEPT ![k].nonce = n, ![k].pc = "broadcast"]
    /\ UNCHANGED <<source, status, polled, job, txHash, confirm, late, txs>>

\* (an answer that is lost is a failure of the next step)
Broadcast(k) ==
    /\ Busy(k, "broadcast")
    /\ Submit([w |-> exec[k].w, account |-> AccountOf(exec[k].w), seq |-> exec[k].seq,
               nonce |-> exec[k].nonce, state |-> "pending", deep |-> FALSE])
    /\ exec' = [exec EXCEPT ![k].tx = Len(txs) + 1, ![k].pc = "record"]
    /\ UNCHANGED <<source, status, polled, job, txHash, confirm, late>>

\* fault: the hash is not stored
RecordNothing(k) ==
    /\ Busy(k, "record")
    /\ Goto(k, "track")
    /\ UNCHANGED <<source, status, polled, job, txHash, confirm, late, txs>>

Record(k) ==
    /\ Busy(k, "record")
    /\ txHash' = [txHash EXCEPT ![exec[k].w] = exec[k].tx]
    /\ Goto(k, "track")
    /\ UNCHANGED <<source, status, polled, job, confirm, late, txs>>

Track(k) ==
    LET w == exec[k].w IN
    /\ Busy(k, "track")
    /\ confirm' = IF confirm[w].state = "none"
                  THEN [confirm EXCEPT ![w] = [state |-> "tracking", tx |-> exec[k].tx]]
                  ELSE confirm
    /\ Goto(k, "publish")
    /\ UNCHANGED <<source, status, polled, job, txHash, late, txs>>

Publish(k) ==
    /\ Busy(k, "publish")
    /\ JobEnds(k)
    /\ Leave(k)
    /\ UNCHANGED <<source, status, polled, txHash, confirm, late, txs>>

\* BullMQ retries a job that throws while attempts remain
Throw(k) ==
    /\ late' = [late EXCEPT ![exec[k].w] = @ \/ exec[k].pc \in Broadcasted]
    /\ job' = IF exec[k].lock
              THEN [job EXCEPT ![exec[k].w] =
                        IF LastAttempt(k) THEN EndedJob
                        ELSE [@ EXCEPT !.state = "waiting", !.made = exec[k].made + 1]]
              ELSE job
    /\ Leave(k)
    /\ UNCHANGED <<source, polled, txHash, confirm, txs>>

\* steps inside the try of executeWithdrawal
Guarded(k) ==
    /\ source[exec[k].w] = "hot"
    /\ exec[k].pc \in ExecPc \ {"claim", "load"}

\* fault: an attempt that is not the last leaves the withdrawal claimed
FailStaysClaimed(k) ==
    /\ exec[k] # Free /\ Guarded(k)
    /\ IF LastAttempt(k) THEN SetStatus(exec[k].w, "failed") ELSE UNCHANGED status
    /\ Throw(k)

\* an awaited call throws: the catch gives the withdrawal to the next
\* attempt, or marks it failed
Fail(k) ==
    /\ exec[k] # Free /\ Guarded(k)
    /\ SetStatus(exec[k].w, IF LastAttempt(k) THEN "failed" ELSE "approved")
    /\ Throw(k)

\* a call throws that no catch encloses, or the update of the catch itself;
\* executeGasTankWithdrawal is called outside the try and has none
FailUncaught(k) ==
    /\ exec[k] # Free
    /\ \/ Outages
       \/ source[exec[k].w] = "gas_tank" /\ exec[k].pc \notin {"claim", "load"}
    /\ UNCHANGED status
    /\ Throw(k)

-----------------------------------------------------------------------------
(* checkConfirmation: the receipt is read, then the height of the chain,   *)
(* then the status is written.  A transaction deep enough stays so, and the *)
(* block of an orphaned receipt gets no younger: the height and the write  *)
(* are one step                                                            *)

ReadReceipt(w) ==
    LET t == txs[confirm[w].tx] IN
    /\ confirm[w].state = "tracking"
    /\ \/ t.state = "reverted" /\ confirm' = [confirm EXCEPT ![w].state = "reverted"]
       \/ t.state = "ok" /\ confirm' = [confirm EXCEPT ![w].state = "mined"]
    /\ UNCHANGED <<source, status, polled, job, exec, txHash, late, txs>>

\* fault: one confirmation is enough
WriteShallowOutcome(w) ==
    /\ \/ confirm[w].state = "reverted" /\ SetStatus(w, "failed")
       \/ confirm[w].state \in {"mined", "orphaned"} /\ SetStatus(w, "confirmed")
    /\ \E s \in {"done", "tracking"} : confirm' = [confirm EXCEPT ![w].state = s]
    /\ UNCHANGED <<source, polled, job, exec, txHash, late, txs>>

\* the height is compared with the block of the receipt, which may be gone; the
\* event that follows may fail, and then the check runs again
WriteOutcome(w) ==
    /\ \/ confirm[w].state = "reverted" /\ SetStatus(w, "failed")
       \/ confirm[w].state = "mined" /\ txs[confirm[w].tx].deep /\ SetStatus(w, "confirmed")
       \/ confirm[w].state = "orphaned" /\ SetStatus(w, "confirmed")
    /\ \E s \in {"done", "tracking"} : confirm' = [confirm EXCEPT ![w].state = s]
    /\ UNCHANGED <<source, polled, job, exec, txHash, late, txs>>

\* too few confirmations, or an awaited call throws: the job is retried
CheckThrows(w) ==
    /\ confirm[w].state \in Checking
    /\ confirm' = [confirm EXCEPT ![w].state = "tracking"]
    /\ UNCHANGED <<source, status, polled, job, exec, txHash, late, txs>>

\* the 60 attempts are used up
GiveUp(w) ==
    /\ confirm[w].state = "tracking"
    /\ confirm' = [confirm EXCEPT ![w].state = "done"]
    /\ UNCHANGED <<source, status, polled, job, exec, txHash, late, txs>>

\* its confirmation job is no longer retained either
RemoveConfirmJob(w) ==
    /\ confirm[w].state = "done"
    /\ confirm' = [confirm EXCEPT ![w] = NotFollowed]
    /\ UNCHANGED <<source, status, polled, job, exec, txHash, late, txs>>

\* the chain goes on, and leaves behind the receipt of an orphaned block
ChainMoves ==
    /\ ChainNext
    /\ confirm' = [w \in Withdrawal |->
                    IF confirm[w].state = "mined" /\ ~Mined(txs'[confirm[w].tx])
                    THEN [confirm[w] EXCEPT !.state = "orphaned"] ELSE confirm[w]]
    /\ UNCHANGED <<source, status, polled, job, exec, txHash, late>>

-----------------------------------------------------------------------------

Execute(k) ==
    \/ Claim(k) \/ Load(k) \/ ReadSequence(k) \/ ReadNonce(k) \/ Broadcast(k)
    \/ Record(k) \/ Track(k) \/ Publish(k)
    \/ Fail(k) \/ FailUncaught(k)

WorkerNext ==
    \/ PollRead
    \/ \E w \in Withdrawal :
        \/ Enqueue(w) \/ Stall(w) \/ RemoveJob(w)
        \/ ReadReceipt(w) \/ WriteOutcome(w)
        \/ CheckThrows(w) \/ GiveUp(w) \/ RemoveConfirmJob(w)
    \/ \E k \in Worker : Execute(k) \/ Die(k) \/ \E w \in Withdrawal : Take(k, w)
    \/ ChainMoves
=============================================================================
