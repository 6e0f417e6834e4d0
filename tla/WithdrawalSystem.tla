-------------------------- MODULE WithdrawalSystem --------------------------
(***************************************************************************)
(* The withdrawal path from the API request to the confirmed transaction:  *)
(* the handlers of core-wallet-service and the jobs of cron-worker-service *)
(* meet in the status column, and nowhere else.                            *)
(***************************************************************************)
EXTENDS WithdrawalApi, WithdrawalWorker

vars == <<status, source, apiVars, workerVars>>

Init ==
    /\ status = [w \in Withdrawal |-> "none"]
    /\ source = [w \in Withdrawal |-> "hot"]
    /\ ApiInit
    /\ WorkerInit

Next ==
    \/ ApiNext /\ UNCHANGED workerVars
    \/ WorkerNext /\ UNCHANGED apiVars

\* The poll is a repeated job, BullMQ serves waiting jobs in order, and a
\* worker that neither dies nor is cut off goes on; requests, the chain and
\* the removal of old jobs are not relied upon.
Fairness ==
    /\ WF_vars(PollRead /\ UNCHANGED apiVars)
    /\ \A w \in Withdrawal :
        /\ WF_vars(Enqueue(w) /\ UNCHANGED apiVars)
        /\ SF_vars((\E k \in Worker : Take(k, w)) /\ UNCHANGED apiVars)
    /\ \A k \in Worker : WF_vars(Execute(k) /\ UNCHANGED apiVars)

Spec == Init /\ [][Next]_vars
FairSpec == Spec /\ Fairness

-----------------------------------------------------------------------------
(* Vocabulary of the properties *)

Executing(k, w) == exec[k] # Free /\ exec[k].w = w /\ exec[k].pc # "claim"

Paid(w) == {i \in DOMAIN txs : txs[i].w = w /\ txs[i].state = "ok"}

Sent(w) == {i \in DOMAIN txs : txs[i].w = w}

\* approved by one request alone and not co-signed, so that nothing but the
\* worker itself can put it back to 'approved'
PlainlyApproved(w) == w \notin CoSigned /\ approvals[w] <= 1

-----------------------------------------------------------------------------
(* Properties *)

\* The tables, the queue and the handlers have the shapes the code gives them.
TypeOK ==
    /\ status \in [Withdrawal -> Statuses]
    /\ source \in [Withdrawal -> Wallets]
    /\ request \in [Request -> {Idle} \union
                        [pc : RequestPc, w : Withdrawal, op : Nat]]
    /\ ops \in Seq(Operation)
    /\ approvals \in [Withdrawal -> Nat]
    /\ polled \subseteq Withdrawal
    /\ job \in [Withdrawal ->
                  [state : {"none", "waiting", "active", "ended"},
                   made : 0..MaxAttempts, stalls : 0..MaxStalled]]
    /\ exec \in [Worker -> {Free} \union
                  [pc : ExecPc, w : Withdrawal, seq : Nat, nonce : Nat, tx : Nat,
                   made : 0..MaxAttempts-1, lock : BOOLEAN]]
    /\ txHash \in [Withdrawal -> 0..Len(txs)]
    /\ confirm \in [Withdrawal ->
                      [state : {"none", "tracking", "done"} \union Checking,
                       tx : 0..Len(txs)]]
    /\ late \in [Withdrawal -> BOOLEAN]
    /\ txs \in Seq([w : Withdrawal, account : Account, seq : Nat, nonce : Nat,
                    state : TxState, deep : BOOLEAN])

\* A withdrawal is reported confirmed when a transaction of its own has paid it
\* and can no longer be orphaned, whatever was retried or replaced before; unless
\* the block of the receipt was orphaned between the two reads of the check.
ConfirmedMeansPaid ==
    [][\A w \in Withdrawal :
          /\ status[w] # "confirmed" /\ status'[w] = "confirmed"
          /\ confirm[w].state # "orphaned"
          => \E i \in Paid(w) : txs[i].deep]_vars

\* The claim of executeWithdrawal keeps two workers from executing the same
\* withdrawal, also when the lock of a job is lost and the job runs twice.
OneExecutor ==
    \A w \in Withdrawal : PlainlyApproved(w) =>
        \A j, k \in Worker : Executing(j, w) /\ Executing(k, w) => j = k

\* Retries send twice only if an attempt from the hot wallet failed after its
\* broadcast: failures before it, dead workers, lost locks and removed jobs
\* never do, and from the gas tank nothing does.
OnlyLateFailuresSendTwice ==
    \A w \in Withdrawal :
        PlainlyApproved(w) /\ (source[w] = "gas_tank" \/ ~late[w]) =>
            Cardinality(Sent(w)) <= 1

\* The path as a whole: while nothing but the worker puts a withdrawal back and
\* no attempt from the hot wallet fails after its broadcast, it is a PayOnce
\* whose orders are the withdrawals, whatever else fails, dies or runs again.
SentOrders == [i \in DOMAIN txs |-> txs[i].w]
Orders == INSTANCE PayOnce WITH Order <- Withdrawal, paid <- SentOrders
NoLateFailure ==
    \A w \in Withdrawal : PlainlyApproved(w) /\ (source[w] = "gas_tank" \/ ~late[w])
PaysOnce == []NoLateFailure => Orders!Spec

\* The transaction a confirmation job follows is the one the row records, so
\* the status and the tx_hash of a withdrawal tell of the same transaction.
TrackedIsRecorded ==
    \A w \in Withdrawal :
        PlainlyApproved(w) /\ ~late[w] /\ confirm[w].state # "none" =>
            confirm[w].tx = txHash[w]

\* A withdrawal suspended for co-signing is not resumed while all its
\* operations still wait for the client, unless a worker had claimed it, or a
\* second approval had read it, before it was suspended.  (A signature that
\* races the expiry may leave the operation 'expired'.)
ResumedWhenAnswered ==
    [][\A w \in Withdrawal :
          /\ status[w] = "pending_cosign" /\ status'[w] = "approved"
          /\ \A k \in Worker : ~Executing(k, w)
          /\ \A r \in Request : request[r] # Idle /\ request[r].w = w => ~At(r, "approve")
          => \E o \in DOMAIN ops : ops[o].w = w /\ ops[o].state # "pending"]_vars

\* An approved withdrawal from the hot wallet ends up failed, with its
\* transaction being followed or, by a cancellation that had read it before its
\* approval, cancelled, however often its attempts fail; unless a second approval
\* writes 'approved' once more, when its job may have ended and be retained.
HotIsExecuted ==
    \A w \in Withdrawal :
        status[w] = "approved" /\ source[w] = "hot" /\ PlainlyApproved(w)
            ~> \/ status[w] \in {"failed", "cancelled"}
               \/ confirm[w].state # "none"
               \/ ~PlainlyApproved(w)
-----------------------------------------------------------------------------
(* What the repository says and the code does not keep *)

\* "The co-sign flow requires clients to cryptographically sign the
\* operationHash before a withdrawal can proceed."
SignedBeforeSent ==
    \A w \in CoSigned : Sent(w) # {} => SignedFor(w)

\* "On success: marks as 'broadcasting' and enqueues confirmation tracking",
\* "On failure: marks as 'failed'", whichever wallet pays.
ApprovedIsExecuted ==
    \A w \in Withdrawal :
        status[w] = "approved" ~> status[w] = "failed" \/ confirm[w].state # "none"
=============================================================================
