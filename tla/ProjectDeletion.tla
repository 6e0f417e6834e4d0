--------------------------- MODULE ProjectDeletion ---------------------------
(***************************************************************************)
(* The setup and the deletion of one project.  client-api's                *)
(* project-setup.service.ts makes its chains, keys and wallets, deletes it *)
(* at once or schedules that, and takes a schedule back; admin-api's       *)
(* project-management.service.ts sets its status; cron-worker's            *)
(* project-deletion.service.ts deletes what is due.  Each table is cleared *)
(* by a statement of its own, without a transaction.                       *)
(***************************************************************************)
EXTENDS Integers, Sequences

CONSTANTS
    Caller,         \* requests to client-api under way at a time
    MaxUpsets       \* bound: database errors and restarts

\* wallets and addresses, project chains, keys (derived keys, shares, seeds), in
\* the order in which both services clear them
Cleanup == <<"wallets", "chains", "keys">>
Parts == {Cleanup[k] : k \in 1 .. Len(Cleanup)}

VARIABLES
    projectStatus,  \* projects.status; "due": pending_deletion whose
                    \* deletion_scheduled_for is past; "inactive": archived or
                    \* suspended; "gone": no row
    parts,          \* what the other tables hold of the project
    withdrawals,    \* there are rows in cvh_transactions.withdrawals
    deposits,       \* there are rows in cvh_transactions.deposits, or in
                    \* cvh_wallets.deposits, which is a view of them
    caller,         \* what each request is doing
    job,            \* what the daily job is doing
    upsetsLeft,
    made,           \* history: the parts that the setup has made
    late,           \* history: a deposit, a withdrawal or a part was added when a
                    \* deletion had begun to count, or to delete
    uncounted,      \* history: client-api could not count what there was
    interrupted,    \* history: a request stopped while it deleted
    lateCancel      \* history: the project was set active again, by a cancellation
                    \* or by an administrator, when its deletion had begun

deletionHistory == <<made, late, uncounted, interrupted, lateCancel>>
deletionVars == <<projectStatus, parts, withdrawals, deposits, caller, job,
                  upsetsLeft, deletionHistory>>

Off == [pc |-> "idle"]
Scheduled == {"pending_deletion", "due"}

DeletionInit ==
    /\ projectStatus = "active"
    /\ parts = {} /\ made = {}
    /\ withdrawals = FALSE /\ deposits = FALSE
    /\ caller = [c \in Caller |-> Off] /\ job = Off
    /\ upsetsLeft = MaxUpsets
    /\ late = FALSE /\ uncounted = FALSE /\ interrupted = FALSE /\ lateCancel = FALSE

Upset == upsetsLeft > 0 /\ upsetsLeft' = upsetsLeft - 1
StepTo(c, pc) == caller' = [caller EXCEPT ![c] = [pc |-> pc]]
Cleaning(actor) == actor.pc = "clean"
FromFirst == [pc |-> "clean", next |-> 1]
Counting == {"withdrawals", "balance"}

\* somebody has begun to count, or deletes
Counted ==
    \/ job # Off
    \/ \E c \in Caller : caller[c].pc \in Counting \/ Cleaning(caller[c])

\* the daily job is at it, or something has been deleted
Begun == job # Off \/ parts # made

-----------------------------------------------------------------------------
\* createProject inserts an active project; its chains (buildCreatedProjectResponse),
\* keys and then wallets (initializeKeys) follow one by one, and again when the
\* setup is repeated.  The project is looked up when a request begins, never later.
SetUp(p) ==
    /\ p \notin parts
    /\ p = "wallets" => "keys" \in made
    /\ parts' = parts \cup {p} /\ made' = made \cup {p}
    /\ late' = (late \/ Counted \/ parts # made)
    /\ UNCHANGED <<projectStatus, withdrawals, deposits, caller, job, upsetsLeft,
                   uncounted, interrupted, lateCancel>>

\* requestDeletion: the status is read
RequestDeletion(c) ==
    /\ caller[c] = Off
    /\ projectStatus = "active"
    /\ StepTo(c, "impact")
    /\ UNCHANGED <<projectStatus, parts, withdrawals, deposits, job, upsetsLeft,
                   deletionHistory>>

\* getDeletionImpact: deposits and then withdrawals are counted; a count that fails
\* is 0
ImpactDeposits(c) ==
    /\ caller[c].pc = "impact"
    /\ \/ StepTo(c, IF deposits THEN "schedule" ELSE "withdrawals")
          /\ UNCHANGED <<uncounted, upsetsLeft>>
       \/ Upset /\ StepTo(c, "withdrawals") /\ uncounted' = (uncounted \/ deposits)
    /\ UNCHANGED <<projectStatus, parts, withdrawals, deposits, job,
                   made, late, interrupted, lateCancel>>

ImpactWithdrawals(c) ==
    /\ caller[c].pc = "withdrawals"
    /\ \/ StepTo(c, IF withdrawals THEN "schedule" ELSE "balance")
          /\ UNCHANGED <<uncounted, upsetsLeft>>
       \/ Upset /\ StepTo(c, "balance") /\ uncounted' = (uncounted \/ withdrawals)
    /\ UNCHANGED <<projectStatus, parts, withdrawals, deposits, job,
                   made, late, interrupted, lateCancel>>

\* the native balance of the wallets may be anything, and is 0 when it cannot be read
Decide(c) ==
    /\ caller[c].pc = "balance"
    /\ \/ StepTo(c, "schedule")
       \/ caller' = [caller EXCEPT ![c] = FromFirst]
    /\ UNCHANGED <<projectStatus, parts, withdrawals, deposits, job, upsetsLeft,
                   deletionHistory>>

Schedule(c) ==
    /\ caller[c].pc = "schedule"
    /\ projectStatus' = IF projectStatus = "gone" THEN "gone" ELSE "pending_deletion"
    /\ caller' = [caller EXCEPT ![c] = Off]
    /\ UNCHANGED <<parts, withdrawals, deposits, job, upsetsLeft, deletionHistory>>

CleanNow(c) ==
    /\ Cleaning(caller[c]) /\ caller[c].next <= Len(Cleanup)
    /\ parts' = parts \ {Cleanup[caller[c].next]}
    /\ caller' = [caller EXCEPT ![c].next = @ + 1]
    /\ UNCHANGED <<projectStatus, withdrawals, deposits, job, upsetsLeft,
                   deletionHistory>>

\* the rest of the cleanup is skipped and the project deleted nevertheless
CleanupFails(c) ==
    /\ Cleaning(caller[c]) /\ caller[c].next <= Len(Cleanup)
    /\ Upset
    /\ caller' = [caller EXCEPT ![c].next = Len(Cleanup) + 1]
    /\ UNCHANGED <<projectStatus, parts, withdrawals, deposits, job, deletionHistory>>

DeleteNow(c) ==
    /\ Cleaning(caller[c]) /\ caller[c].next > Len(Cleanup)
    /\ projectStatus' = "gone"
    /\ caller' = [caller EXCEPT ![c] = Off]
    /\ UNCHANGED <<parts, withdrawals, deposits, job, upsetsLeft, deletionHistory>>

\* cancelDeletion: the status is read, and set without a look at it
CancelDeletion(c) ==
    /\ caller[c] = Off
    /\ projectStatus \in Scheduled
    /\ StepTo(c, "cancel")
    /\ UNCHANGED <<projectStatus, parts, withdrawals, deposits, job, upsetsLeft,
                   deletionHistory>>

Restore(c) ==
    /\ caller[c].pc = "cancel"
    /\ projectStatus' = IF projectStatus = "gone" THEN "gone" ELSE "active"
    /\ caller' = [caller EXCEPT ![c] = Off]
    /\ lateCancel' = (lateCancel \/ Begun)
    /\ UNCHANGED <<parts, withdrawals, deposits, job, upsetsLeft,
                   made, late, uncounted, interrupted>>

\* an error of a statement outside the cleanup, or a restart
CallerFails(c) ==
    /\ caller[c] # Off
    /\ Upset
    /\ caller' = [caller EXCEPT ![c] = Off]
    /\ interrupted' = (interrupted \/ Cleaning(caller[c]))
    /\ UNCHANGED <<projectStatus, parts, withdrawals, deposits, job,
                   made, late, uncounted, lateCancel>>

\* admin-api's update and archive: no look at the status; a schedule that stays is
\* read for no status but pending_deletion
AdminSetsStatus(status) ==
    /\ projectStatus # "gone"
    /\ projectStatus' = status
    /\ lateCancel' = (lateCancel \/ (status = "active" /\ Begun))
    /\ UNCHANGED <<parts, withdrawals, deposits, caller, job, upsetsLeft,
                   made, late, uncounted, interrupted>>

-----------------------------------------------------------------------------
GraceEnds ==
    /\ projectStatus = "pending_deletion"
    /\ projectStatus' = "due"
    /\ UNCHANGED <<parts, withdrawals, deposits, caller, job, upsetsLeft,
                   deletionHistory>>

\* processPendingDeletions: the projects whose time is over are listed once
ListDue ==
    /\ job = Off
    /\ projectStatus = "due"
    /\ job' = [pc |-> "deposits"]
    /\ UNCHANGED <<projectStatus, parts, withdrawals, deposits, caller, upsetsLeft,
                   deletionHistory>>

\* projectHasTransactions
CountDeposits ==
    /\ job.pc = "deposits"
    /\ job' = [pc |-> IF deposits THEN "soft" ELSE "withdrawals"]
    /\ UNCHANGED <<projectStatus, parts, withdrawals, deposits, caller, upsetsLeft,
                   deletionHistory>>

\* fault: only deposits count as transactions
CountNoWithdrawals ==
    /\ job.pc = "withdrawals"
    /\ job' = FromFirst
    /\ UNCHANGED <<projectStatus, parts, withdrawals, deposits, caller, upsetsLeft,
                   deletionHistory>>

CountWithdrawals ==
    /\ job.pc = "withdrawals"
    /\ job' = IF withdrawals THEN [pc |-> "soft"] ELSE FromFirst
    /\ UNCHANGED <<projectStatus, parts, withdrawals, deposits, caller, upsetsLeft,
                   deletionHistory>>

\* hardDeleteProject
CleanDue ==
    /\ Cleaning(job) /\ job.next <= Len(Cleanup)
    /\ parts' = parts \ {Cleanup[job.next]}
    /\ job' = [job EXCEPT !.next = @ + 1]
    /\ UNCHANGED <<projectStatus, withdrawals, deposits, caller, upsetsLeft,
                   deletionHistory>>

DeleteDue ==
    /\ Cleaning(job) /\ job.next > Len(Cleanup)
    /\ projectStatus' = "gone"
    /\ job' = Off
    /\ UNCHANGED <<parts, withdrawals, deposits, caller, upsetsLeft, deletionHistory>>

\* softDeleteProject: everything but the status stays
SoftDelete ==
    /\ job.pc = "soft"
    /\ projectStatus' = IF projectStatus = "gone" THEN "gone" ELSE "deleted"
    /\ job' = Off
    /\ UNCHANGED <<parts, withdrawals, deposits, caller, upsetsLeft, deletionHistory>>

\* fault: a deletion that failed is taken back
JobFailsRestoring ==
    /\ job # Off
    /\ Upset
    /\ job' = Off
    /\ projectStatus' = IF projectStatus = "gone" THEN "gone" ELSE "active"
    /\ UNCHANGED <<parts, withdrawals, deposits, caller, deletionHistory>>

\* an error ends the run of the day; what was deleted stays deleted
JobFails ==
    /\ job # Off
    /\ Upset
    /\ job' = Off
    /\ UNCHANGED <<projectStatus, parts, withdrawals, deposits, caller,
                   deletionHistory>>

-----------------------------------------------------------------------------
\* deposits and withdrawals are recorded as long as there are wallets, whatever
\* the status of the project
Use ==
    /\ "wallets" \in parts
    /\ \/ ~deposits /\ deposits' = TRUE /\ UNCHANGED withdrawals
       \/ ~withdrawals /\ withdrawals' = TRUE /\ UNCHANGED deposits
    /\ late' = (late \/ Counted)
    /\ UNCHANGED <<projectStatus, parts, caller, job, upsetsLeft,
                   made, uncounted, interrupted, lateCancel>>

DeletionNext ==
    \/ \E p \in Parts : SetUp(p)
    \/ \E c \in Caller :
        \/ RequestDeletion(c)
        \/ ImpactDeposits(c)
        \/ ImpactWithdrawals(c)
        \/ Decide(c)
        \/ Schedule(c)
        \/ CleanNow(c)
        \/ CleanupFails(c)
        \/ DeleteNow(c)
        \/ CancelDeletion(c)
        \/ Restore(c)
        \/ CallerFails(c)
    \/ \E status \in {"active", "inactive"} : AdminSetsStatus(status)
    \/ GraceEnds
    \/ ListDue
    \/ CountDeposits
    \/ CountWithdrawals
    \/ CleanDue
    \/ DeleteDue
    \/ SoftDelete
    \/ JobFails
    \/ Use

DeletionSpec == DeletionInit /\ [][DeletionNext]_deletionVars

-----------------------------------------------------------------------------
DeletionTypeOK ==
    /\ projectStatus \in {"active", "inactive", "deleted", "gone"} \cup Scheduled
    /\ parts \subseteq made /\ made \subseteq Parts
    /\ job.pc \in {"idle", "deposits", "withdrawals", "clean", "soft"}

\* A project that can be used is whole: outside a request that is deleting it, an
\* active project has all that its setup has made of it.  Only a request that stopped
\* while it deleted, and one who sets the project active again when a deletion has
\* begun (cancelDeletion and admin-api's update, which do not look at what the daily
\* job does or has left), leave an active project in pieces.
ActiveIsWhole ==
    projectStatus = "active" =>
        \/ parts = made
        \/ \E c \in Caller : Cleaning(caller[c])
        \/ interrupted
        \/ lateCancel

\* The keys of a project with deposits or withdrawals stay, since its wallets may
\* hold money: requestDeletion and the daily job count both before they delete.
\* Only what is recorded, or set up, once a count has begun, and what client-api
\* fails to count, is left without keys.
KeysOutliveUse ==
    (deposits \/ withdrawals) /\ ~late /\ ~uncounted => "keys" \in parts
=============================================================================
