-------------------------- MODULE ReceiptReconciler --------------------------
(***************************************************************************)
(* gas-tank-receipt-reconciler.service.ts of cron-worker-service: follows  *)
(* the logged transactions and carries their outcome over to the deposits. *)
(* It is started by a timer that does not wait for the last run to end.    *)
(***************************************************************************)
EXTENDS SweepService

CONSTANT Reconciler     \* runs of reconcileBatch

VARIABLE recon          \* the row each has in hand

ReconIdle == [pc |-> "idle", tx |-> 0, outcome |-> "none", rows |-> {}, emptied |-> {}]

ReconPc == {"idle", "update", "fail", "pending", "balances", "cascade", "orphans"}

Outcomes == {"success", "reverted", "none"}

ReconInit == recon = [r \in Reconciler |-> ReconIdle]

ReconAt(r, pc) == recon[r].pc = pc

EndRecon(r) == recon' = [recon EXCEPT ![r] = ReconIdle]

\* only rows older than 15 seconds are read, by when the sweep that sent the
\* transaction has updated its deposits, if nothing delays it
Aged(h) ==
    Outages \/ \A s \in Sweeper : sweep[s].tx = h => SweepAt(s, "publish")

-----------------------------------------------------------------------------

\* the outcome "none": no receipt after ten minutes
ReadReceipt(r, h) ==
    /\ recon[r] = ReconIdle
    /\ gasTx[h] = "submitted"
    /\ Aged(h)
    /\ \E o \in Outcomes :
        /\ IF o = "none" THEN Outages ELSE txs[h].state = o
        /\ recon' = [recon EXCEPT ![r] = [ReconIdle EXCEPT !.pc = "update", !.tx = h,
                                                           !.outcome = o]]
    /\ UNCHANGED <<tables, chain, lock, sweep>>

\* fault: the deposits of a transaction without a receipt fail with it
UpdateGasTxAndFail(r) ==
    /\ ReconAt(r, "update")
    /\ gasTx' = [gasTx EXCEPT ![recon[r].tx] =
                   IF recon[r].outcome = "success" THEN "confirmed" ELSE "failed"]
    /\ recon' = [recon EXCEPT ![r].pc =
                   IF recon[r].outcome = "success" THEN "pending" ELSE "fail"]
    /\ UNCHANGED <<status, sweepTxHash, isDeployed, chain, lock, sweep>>

\* fault: a transaction that reverted is not carried over to its deposits
UpdateGasTxOnly(r) ==
    /\ ReconAt(r, "update")
    /\ gasTx' = [gasTx EXCEPT ![recon[r].tx] =
                   IF recon[r].outcome = "success" THEN "confirmed" ELSE "failed"]
    /\ IF recon[r].outcome = "success" THEN recon' = [recon EXCEPT ![r].pc = "pending"]
                                       ELSE EndRecon(r)
    /\ UNCHANGED <<status, sweepTxHash, isDeployed, chain, lock, sweep>>

UpdateGasTx(r) ==
    /\ ReconAt(r, "update")
    /\ gasTx' = [gasTx EXCEPT ![recon[r].tx] =
                   IF recon[r].outcome = "success" THEN "confirmed" ELSE "failed"]
    /\ CASE recon[r].outcome = "success"  -> recon' = [recon EXCEPT ![r].pc = "pending"]
         [] recon[r].outcome = "reverted" -> recon' = [recon EXCEPT ![r].pc = "fail"]
         [] recon[r].outcome = "none"     -> EndRecon(r)
    /\ UNCHANGED <<status, sweepTxHash, isDeployed, chain, lock, sweep>>

PendingOf(h) == {d \in Deposit : sweepTxHash[d] = h /\ status[d] = "sweep_pending"}

CascadeFailed(r) ==
    /\ ReconAt(r, "fail")
    /\ SetStatus(PendingOf(recon[r].tx), "sweep_failed")
    /\ EndRecon(r)
    /\ UNCHANGED <<sweepTxHash, isDeployed, gasTx, chain, lock, sweep>>

ReadPending(r) ==
    /\ ReconAt(r, "pending")
    /\ LET D == PendingOf(recon[r].tx)
       IN  IF D = {} THEN EndRecon(r)
           ELSE recon' = [recon EXCEPT ![r].pc = "balances", ![r].rows = D]
    /\ UNCHANGED <<tables, chain, lock, sweep>>

\* fault: the receipt is enough
TrustReceipt(r) ==
    /\ ReconAt(r, "balances")
    /\ recon' = [recon EXCEPT ![r].pc = "cascade",
                              ![r].emptied = {TokenOf[d] : d \in recon[r].rows}]
    /\ UNCHANGED <<tables, chain, lock, sweep>>

\* the tokens of which the forwarder holds nothing; a balance that cannot be
\* read counts as held
ReadBalances(r) ==
    /\ ReconAt(r, "balances")
    /\ LET empty == {t \in {TokenOf[d] : d \in recon[r].rows} : ~HasBalance(t)}
       IN  \E T \in SUBSET empty :
             /\ T = empty \/ Outages
             /\ IF T = {} THEN EndRecon(r)
                ELSE recon' = [recon EXCEPT ![r].pc = "cascade", ![r].emptied = T]
    /\ UNCHANGED <<tables, chain, lock, sweep>>

Cascade(r) ==
    /\ ReconAt(r, "cascade")
    /\ SetStatus({d \in OfTokens(recon[r].rows, recon[r].emptied) :
                    status[d] = "sweep_pending"}, "swept")
    /\ recon' = [recon EXCEPT ![r].pc = "orphans", ![r].rows = {}]
    /\ UNCHANGED <<sweepTxHash, isDeployed, gasTx, chain, lock, sweep>>

\* all other deposits of these tokens count as swept by the same transaction
ReconcileOrphans(r) ==
    /\ ReconAt(r, "orphans")
    /\ LET D == {d \in OfTokens(Deposit, recon[r].emptied) : status[d] \in Unswept}
       IN  SetStatus(D, "swept") /\ SetHash(D, recon[r].tx)
    /\ EndRecon(r)
    /\ UNCHANGED <<isDeployed, gasTx, chain, lock, sweep>>

ReconFails(r) ==
    /\ Outages
    /\ recon[r] # ReconIdle
    /\ EndRecon(r)
    /\ UNCHANGED <<tables, chain, lock, sweep>>

Reconcile(r) ==
    \/ \E h \in DOMAIN txs : ReadReceipt(r, h)
    \/ UpdateGasTx(r) \/ CascadeFailed(r) \/ ReadPending(r)
    \/ ReadBalances(r) \/ Cascade(r) \/ ReconcileOrphans(r)

ReconNext == \E r \in Reconciler : Reconcile(r) \/ ReconFails(r)
=============================================================================
