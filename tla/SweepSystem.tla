----------------------------- MODULE SweepSystem -----------------------------
(***************************************************************************)
(* The way of a deposit from its transfer to the hot wallet: tracker,      *)
(* deployer, sweep and reconciler run on timers of their own and meet in   *)
(* the deposits table, which each updates without looking at what the      *)
(* others did since it read.                                               *)
(***************************************************************************)
EXTENDS DepositTracker, ForwarderDeploy, ReceiptReconciler

vars == <<tables, chain, check, deploy, lock, sweep, recon>>

Init ==
    /\ TablesInit
    /\ ChainInit
    /\ TrackerInit
    /\ DeployInit
    /\ SweepInit
    /\ ReconInit

Next ==
    \/ ChainNext /\ UNCHANGED <<check, deploy, lock, sweep, recon>>
    \/ TrackerNext /\ UNCHANGED <<deploy, lock, sweep, recon>>
    \/ DeployNext /\ UNCHANGED <<check, lock, sweep, recon>>
    \/ SweepNext /\ UNCHANGED <<check, deploy, recon>>
    \/ ReconNext /\ UNCHANGED <<check, deploy>>

\* The four jobs are repeated every 30 seconds, and a run ends; the chain
\* mines what was sent.  Transfers need not happen.
Fairness ==
    /\ WF_vars(MineNext /\ UNCHANGED <<tables, check, deploy, lock, sweep, recon>>)
    /\ WF_vars((\E q \in Deployer : Deploy(q)) /\ UNCHANGED <<check, lock, sweep, recon>>)
    /\ WF_vars((\E s \in Sweeper : Sweep(s)) /\ UNCHANGED <<check, deploy, recon>>)
    /\ \A r \in Reconciler : WF_vars(Reconcile(r) /\ UNCHANGED <<check, deploy>>)

Spec == Init /\ [][Next]_vars
FairSpec == Spec /\ Fairness

-----------------------------------------------------------------------------
(* Properties *)

\* The tables, the chain and the jobs have the shapes the code gives them.
TypeOK ==
    /\ status \in [Deposit -> Statuses]
    /\ sweepTxHash \in [Deposit -> 0..Len(txs)]
    /\ isDeployed \in BOOLEAN
    /\ gasTx \in [1..MaxTxs -> {"none", "submitted", "confirmed", "failed"}]
    /\ place \in [Deposit -> Places]
    /\ txs \in Seq([kind : {"deploy", "flush"}, call : SUBSET Tokens,
                    rows : SUBSET Deposit, state : TxState])
    /\ check \in [Check -> {NoCheck} \union
                    [pc : {"write"}, d : Deposit, status : Statuses]]
    /\ deploy \in [Deployer -> [pc : {"idle", "submit", "mark", "balance", "reconcile"},
                                tx : 0..MaxTxs]]
    /\ lock \in Sweeper \union {Nobody}
    /\ sweep \in [Sweeper -> [pc : SweepPc, rows : SUBSET Deposit,
                              todo : SUBSET SUBSET Tokens, call : SUBSET Tokens,
                              tx : 0..Len(txs)]]
    /\ recon \in [Reconciler -> [pc : ReconPc, tx : 0..Len(txs), outcome : Outcomes,
                                 rows : SUBSET Deposit, emptied : SUBSET Tokens]]

\* A deposit whose sweep is pending becomes 'swept' only when its funds are in
\* the hot wallet, also when a reorganisation made its transaction a call of
\* an empty address that succeeded.
SweptHasMoved ==
    [][\A d \in Deposit :
          status[d] = "sweep_pending" /\ status'[d] = "swept" => place[d] = "wallet"]_vars

\* The reconciler fails a pending deposit only for a transaction that did
\* revert: one that is slow, lost or not seen leaves it pending.
FailedHasReverted ==
    [][\A d \in Deposit :
          /\ status[d] = "sweep_pending" /\ status'[d] = "sweep_failed"
          /\ \A s \in Sweeper : d \notin sweep[s].rows
          => txs[sweepTxHash[d]].state = "reverted"]_vars

CheckedRows == [c \in Check |-> IF check[c] = NoCheck THEN {} ELSE {check[c].d}]
SelectedRows == [s \in Sweeper |-> sweep[s].rows]

\* Tracker, deployer, sweep and reconciler together keep what DepositRow promises of
\* a row, although each updates it without looking at what the others did since.
Promise == INSTANCE DepositRow WITH checked <- CheckedRows, selected <- SelectedRows
RowsAsPromised == Promise!Spec

\* While no process dies or outlives the lock, two runs of the sweep never
\* send a transaction for the same deposit.
OneFlushPerDeposit ==
    \A i, j \in DOMAIN txs : i # j => txs[i].rows \intersect txs[j].rows = {}

Followed(d) == status[d] = "sweep_pending" /\ gasTx[sweepTxHash[d]] = "submitted"

\* another deposit of the same token is there when the receipt of d's
\* transaction is dealt with
Refilled(d) ==
    /\ sweepTxHash[d] # 0 /\ gasTx[sweepTxHash[d]] = "confirmed"
    /\ \E e \in Deposit \ {d} : TokenOf[e] = TokenOf[d] /\ place[e] = "forwarder"

\* Without outages a deposit with a logged transaction does not stay
\* 'sweep_pending', unless the forwarder was refilled before the reconciler
\* read its balance.
SettledUnlessRefilled ==
    \A d \in Deposit : Followed(d) ~> status[d] # "sweep_pending" \/ Refilled(d)

\* Without outages a confirmed deposit that is on the forwarder and has no
\* hash is swept or flushed along, whoever holds the lock and whether or not
\* the forwarder is deployed by then.
ConfirmedIsFlushed ==
    \A d \in Deposit \ Gated :
        d \in Selectable /\ place[d] = "forwarder" ~> d \notin Selectable \/ place[d] = "wallet"

-----------------------------------------------------------------------------
(* What the repository says and the code does not keep *)

\* "The sweep transaction failed [...] The system will automatically retry the
\* sweep."
FailedIsRetried ==
    \A d \in Deposit : status[d] = "sweep_failed" ~> status[d] # "sweep_failed"
=============================================================================
