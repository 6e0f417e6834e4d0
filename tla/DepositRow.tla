----------------------------- MODULE DepositRow -----------------------------
(***************************************************************************)
(* What the services that write the status column of cvh_wallets.deposits  *)
(* promise of a row.  None of them locks it: the confirmation tracker and  *)
(* the sweep write rows they read some time ago, whatever they are by then *)
(* (checked, selected); the deployer and the reconciler, in one statement, *)
(* those they find in a status that allows it.                             *)
(***************************************************************************)
CONSTANTS
    Deposit,        \* the rows
    Check,          \* calls of the tracker
    Sweeper         \* runs of the sweep

VARIABLES
    status,         \* "none" when there is no row
    checked,        \* what each call of the tracker will write
    selected        \* what each run of the sweep may write

vars == <<status, checked, selected>>

In(S) == {d \in Deposit : status[d] \in S}

\* UPDATE deposits SET status = st WHERE id IN D, for some rows D of those in R
Write(R, st) ==
    /\ status' = [d \in Deposit |-> status'[d]]
    /\ \A d \in Deposit : status'[d] = status[d] \/ (d \in R /\ status'[d] = st)

Init ==
    /\ status = [d \in Deposit |-> "none"]
    /\ checked = [c \in Check |-> {}]
    /\ selected = [s \in Sweeper |-> {}]

\* a row is inserted once: what is delivered again leaves it alone
Insert(d) ==
    /\ status[d] = "none"
    /\ Write({d}, "pending") \/ Write({d}, "confirmed")
    /\ UNCHANGED <<checked, selected>>

StartCheck(c) ==
    /\ checked[c] = {}
    /\ \E d \in In({"pending", "confirming"}) : checked' = [checked EXCEPT ![c] = {d}]
    /\ UNCHANGED <<status, selected>>

EndCheck(c) ==
    /\ \E st \in {"confirming", "confirmed", "reverted"} : Write(checked[c], st)
    /\ checked' = [checked EXCEPT ![c] = {}]
    /\ UNCHANGED selected

Select(s) ==
    /\ \E D \in SUBSET In({"confirmed"}) : selected' = [selected EXCEPT ![s] = D]
    /\ UNCHANGED <<status, checked>>

\* a part is written, a part given up
WriteSelected(s) ==
    /\ Write(selected[s], "sweep_pending") \/ Write(selected[s], "sweep_failed")
    /\ \E D \in SUBSET selected[s] : selected' = [selected EXCEPT ![s] = D]
    /\ UNCHANGED checked

\* by the receipt of their own transaction
Settle ==
    /\ Write(In({"sweep_pending"}), "swept") \/ Write(In({"sweep_pending"}), "sweep_failed")
    /\ UNCHANGED <<checked, selected>>

\* by that of another one, which emptied the forwarder
TakeAlong ==
    /\ Write(In({"pending", "confirming", "confirmed"}), "swept")
    /\ UNCHANGED <<checked, selected>>

Next ==
    \/ \E d \in Deposit : Insert(d)
    \/ \E c \in Check : StartCheck(c) \/ EndCheck(c)
    \/ \E s \in Sweeper : Select(s) \/ WriteSelected(s)
    \/ Settle
    \/ TakeAlong

Spec == Init /\ [][Next]_vars

-----------------------------------------------------------------------------
InHand(d) == (\E c \in Check : d \in checked[c]) \/ (\E s \in Sweeper : d \in selected[s])

LeavesClosed ==
    \A d \in Deposit :
        status[d] \in {"reverted", "swept", "sweep_failed"} /\ ~InHand(d) => status'[d] = status[d]

\* A row that is reverted, swept or failed keeps this status, unless a call of the tracker
\* or a run of the sweep has had it in hand since before: none that starts later
\* touches it.
ClosedUnlessInHand == [][LeavesClosed]_vars
=============================================================================
