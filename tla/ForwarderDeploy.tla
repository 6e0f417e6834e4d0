--------------------------- MODULE ForwarderDeploy ---------------------------
(***************************************************************************)
(* forwarder-deploy.service.ts of cron-worker-service: deploys a forwarder *)
(* with deposits and takes an empty one for flushed by its deployment.  A  *)
(* cycle waits for the one before it (cycleInFlight), but no longer than   *)
(* two minutes: a slower one goes on beside the next.                      *)
(***************************************************************************)
EXTENDS ForwarderChain

CONSTANT Deployer   \* cycles under way at a time

VARIABLE deploy     \* where each deployPendingForwarders is, and its transaction

DeployIdle == [pc |-> "idle", tx |-> 0]

DeployInit == deploy = [q \in Deployer |-> DeployIdle]

DeployStep(q, e) == deploy' = [deploy EXCEPT ![q] = e]
DeployGoto(q, pc) == DeployStep(q, [deploy[q] EXCEPT !.pc = pc])

\* the address has deposits, no flag, and perhaps already code; the cycles before
\* are over, or took too long
FindUndeployed(q) ==
    /\ deploy[q] = DeployIdle
    /\ Outages \/ \A r \in Deployer : deploy[r] = DeployIdle
    /\ ~isDeployed
    /\ \E d \in Deposit : status[d] \in Unswept \union {"sweep_pending"}
    /\ IF Deployed
       THEN isDeployed' = TRUE /\ UNCHANGED deploy
       ELSE DeployGoto(q, "submit") /\ UNCHANGED isDeployed
    /\ UNCHANGED <<status, sweepTxHash, gasTx, chain>>

SubmitDeploy(q) ==
    /\ deploy[q].pc = "submit"
    /\ Send([kind |-> "deploy", call |-> {}, rows |-> {}, state |-> "pending"])
    /\ DeployStep(q, [pc |-> "mark", tx |-> Len(txs) + 1])
    /\ UNCHANGED <<tables, place>>

\* the flag is set when the transaction was sent, not when it was mined
MarkDeployed(q) ==
    /\ deploy[q].pc = "mark"
    /\ isDeployed' = TRUE
    /\ DeployGoto(q, "balance")
    /\ UNCHANGED <<status, sweepTxHash, gasTx, chain>>

ReadCoinBalance(q) ==
    /\ deploy[q].pc = "balance"
    /\ IF \E t \in Native : HasBalance(t)
       THEN DeployStep(q, DeployIdle)
       ELSE DeployGoto(q, "reconcile")
    /\ UNCHANGED <<tables, chain>>

\* "the deploy tx itself is the sweep"
ReconcileDeploy(q) ==
    /\ deploy[q].pc = "reconcile"
    /\ LET D == {d \in OfTokens(Deposit, Native) :
                    status[d] \in Unswept /\ sweepTxHash[d] = 0}
       IN  SetStatus(D, "swept") /\ SetHash(D, deploy[q].tx)
    /\ DeployStep(q, DeployIdle)
    /\ UNCHANGED <<isDeployed, gasTx, chain>>

DeployFails(q) ==
    /\ Outages
    /\ deploy[q] # DeployIdle
    /\ DeployStep(q, DeployIdle)
    /\ UNCHANGED <<tables, chain>>

Deploy(q) ==
    \/ FindUndeployed(q)
    \/ SubmitDeploy(q)
    \/ MarkDeployed(q)
    \/ ReadCoinBalance(q)
    \/ ReconcileDeploy(q)

DeployNext == \E q \in Deployer : Deploy(q) \/ DeployFails(q)
=============================================================================
