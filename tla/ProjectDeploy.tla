---------------------------- MODULE ProjectDeploy ----------------------------
(***************************************************************************)
(* core-wallet-service: project-deploy.service.ts deploys the contracts of *)
(* a project on a chain one after the other and records them in            *)
(* project_chains and project_contracts.  The caller in client-api gives   *)
(* up after five minutes and may call again while the first call goes on.  *)
(***************************************************************************)
EXTENDS NonceService, Sequences

CONSTANTS
    Steps,          \* contracts of a project, the last is the hot wallet
    MaxCalls,       \* bound: calls of deployProjectChain
    MaxTrouble      \* bound: failures, ended locks and transactions of others

ASSUME DeployAssumption == Steps \in Nat \ {0}

VARIABLES
    chainRow,       \* the row of project_chains
    contractRows,   \* addresses in project_contracts, by step; 0 without a row
    run,            \* what each call is doing
    callsLeft, troubleLeft,
    overlapped,     \* history: a call began beside another
    unfinished,     \* history: the last call to record contracts did not end
    unowned         \* history: a lock ended while its owner read the counter, or
                    \* the counter was reset below a nonce handed out

deployVars == <<nonceVars, chainRow, contractRows, run, callsLeft, troubleLeft,
                overlapped, unfinished, unowned>>

NotCalled == [pc |-> "idle"]

DeployInit ==
    /\ NonceInit
    /\ chainRow = [status |-> "pending", addresses |-> << >>]
    /\ contractRows = [k \in 1 .. Steps - 1 |-> 0]
    /\ run = [r \in Run |-> NotCalled]
    /\ callsLeft = MaxCalls /\ troubleLeft = MaxTrouble
    /\ overlapped = FALSE /\ unfinished = FALSE /\ unowned = FALSE

DeployTrouble == troubleLeft > 0 /\ troubleLeft' = troubleLeft - 1
At(r, pc) == run[r].pc = pc
Goes(r, pc) == run' = [run EXCEPT ![r].pc = pc]
deployHistory == <<callsLeft, overlapped, unfinished, unowned>>

\* fault: a row that is ready is started over by any call
CallAlways(r) ==
    /\ At(r, "idle") /\ callsLeft > 0
    /\ callsLeft' = callsLeft - 1
    /\ run' = [run EXCEPT ![r] = [pc |-> "mark", done |-> << >>]]
    /\ overlapped' = (overlapped \/ \E q \in Run : ~At(q, "idle"))
    /\ UNCHANGED <<nonceVars, chainRow, contractRows, troubleLeft, unfinished, unowned>>

\* the row is read: a project that is ready is returned as it is
Call(r) ==
    /\ At(r, "idle") /\ callsLeft > 0
    /\ chainRow.status # "ready"
    /\ callsLeft' = callsLeft - 1
    /\ run' = [run EXCEPT ![r] = [pc |-> "mark", done |-> << >>]]
    /\ overlapped' = (overlapped \/ \E q \in Run : ~At(q, "idle"))
    /\ UNCHANGED <<nonceVars, chainRow, contractRows, troubleLeft, unfinished, unowned>>

MarkDeploying(r) ==
    /\ At(r, "mark")
    /\ chainRow' = [chainRow EXCEPT !.status = "deploying"]
    /\ Goes(r, "lock")
    /\ UNCHANGED <<nonceVars, contractRows, deployHistory, troubleLeft>>

AcquireLock(r) ==
    /\ At(r, "lock")
    /\ TakeLock(r)
    /\ Goes(r, "read")
    /\ UNCHANGED <<chainRow, contractRows, deployHistory, troubleLeft>>

\* waitForLock gives up, or preparing the transaction fails
NotSent(r) ==
    /\ At(r, "lock")
    /\ DeployTrouble
    /\ Goes(r, "fail")
    /\ UNCHANGED <<nonceVars, chainRow, contractRows, deployHistory>>

AcquireRead(r) ==
    /\ At(r, "read")
    /\ Current <= MaxNonce
    /\ run' = [run EXCEPT ![r] = [pc |-> "store", done |-> @.done, nonce |-> Current]]
    /\ UNCHANGED <<nonceVars, chainRow, contractRows, deployHistory, troubleLeft>>

AcquireStore(r) ==
    /\ At(r, "store")
    /\ StoreNonce(run[r].nonce)
    /\ Goes(r, "send")
    /\ UNCHANGED <<chainRow, contractRows, deployHistory, troubleLeft>>

\* the transaction is sent, or refused for its nonce; the lock is released
Send(r) ==
    /\ At(r, "send")
    /\ IF Takes(run[r].nonce)
       THEN Broadcast(run[r].nonce) /\ Goes(r, "wait")
       ELSE UNCHANGED <<nextNonce, pool>> /\ Goes(r, "fail")
    /\ nonceLock' = Released(r)
    /\ UNCHANGED <<nonceCache, chainRow, contractRows, deployHistory, troubleLeft>>

\* the signature or the node fails: the nonce is used up, nothing is sent
SendNothing(r) ==
    /\ At(r, "send")
    /\ DeployTrouble
    /\ Goes(r, "fail")
    /\ nonceLock' = Released(r)
    /\ UNCHANGED <<nonceCache, nextNonce, pool, chainRow, contractRows, deployHistory>>

\* fault: the hot wallet is not waited for
DeployedButHotWallet(r) ==
    /\ At(r, "wait") /\ run[r].nonce < nextNonce
    /\ LET done == Append(run[r].done, run[r].nonce + 1)
       IN run' = [run EXCEPT ![r] = [pc |-> IF Len(done) = Steps - 1 THEN "ready" ELSE "lock",
                                     done |-> done]]
    /\ UNCHANGED <<nonceVars, chainRow, contractRows, deployHistory, troubleLeft>>

\* waitForTransaction: the address follows from the gas tank and the nonce
Deployed(r) ==
    /\ At(r, "wait") /\ run[r].nonce < nextNonce
    /\ LET done == Append(run[r].done, run[r].nonce + 1)
       IN run' = [run EXCEPT ![r] = [pc |-> IF Len(done) = Steps THEN "ready" ELSE "lock",
                                     done |-> done]]
    /\ UNCHANGED <<nonceVars, chainRow, contractRows, deployHistory, troubleLeft>>

\* no receipt for two minutes, or a reverted transaction
NotDeployed(r) ==
    /\ At(r, "wait")
    /\ run[r].nonce < nextNonce => troubleLeft > 0
    /\ troubleLeft' = IF run[r].nonce < nextNonce THEN troubleLeft - 1 ELSE troubleLeft
    /\ Goes(r, "fail")
    /\ UNCHANGED <<nonceVars, chainRow, contractRows, deployHistory>>

RecordReady(r) ==
    /\ At(r, "ready")
    /\ chainRow' = [status |-> "ready", addresses |-> run[r].done]
    /\ run' = [run EXCEPT ![r] = [pc |-> "contracts", done |-> @.done, next |-> 1]]
    /\ UNCHANGED <<nonceVars, contractRows, deployHistory, troubleLeft>>

\* fault: a row that is there is left as it is
RecordContractOnce(r) ==
    /\ At(r, "contracts") /\ run[r].next < Steps
    /\ contractRows' = [contractRows EXCEPT ![run[r].next] =
                            IF @ = 0 THEN run[r].done[run[r].next] ELSE @]
    /\ run' = [run EXCEPT ![r].next = @ + 1]
    /\ UNCHANGED <<nonceVars, chainRow, deployHistory, troubleLeft>>

\* upsertProjectContract: not for the hot wallet
RecordContract(r) ==
    /\ At(r, "contracts") /\ run[r].next < Steps
    /\ contractRows' = [contractRows EXCEPT ![run[r].next] = run[r].done[run[r].next]]
    /\ run' = [run EXCEPT ![r].next = @ + 1]
    /\ UNCHANGED <<nonceVars, chainRow, deployHistory, troubleLeft>>

\* project:contracts_deployed is published
Return(r) ==
    /\ At(r, "contracts") /\ run[r].next = Steps
    /\ run' = [run EXCEPT ![r] = NotCalled]
    /\ unfinished' = FALSE
    /\ UNCHANGED <<nonceVars, chainRow, contractRows, callsLeft, overlapped, unowned, troubleLeft>>

\* an error after the contracts were recorded as ready
FinishFails(r) ==
    /\ At(r, "contracts")
    /\ DeployTrouble
    /\ Goes(r, "fail")
    /\ unfinished' = TRUE
    /\ UNCHANGED <<nonceVars, chainRow, contractRows, callsLeft, overlapped, unowned>>

\* the catch: the row fails, its addresses stay
RecordFailed(r) ==
    /\ At(r, "fail")
    /\ chainRow' = [chainRow EXCEPT !.status = "failed"]
    /\ run' = [run EXCEPT ![r] = NotCalled]
    /\ UNCHANGED <<nonceVars, contractRows, deployHistory, troubleLeft>>

\* the process restarts: the call is gone, the row says deploying
DeployCrashes(r) ==
    /\ ~At(r, "idle")
    /\ DeployTrouble
    /\ run' = [run EXCEPT ![r] = NotCalled]
    /\ unfinished' = (unfinished \/ At(r, "contracts"))
    /\ UNCHANGED <<nonceVars, chainRow, contractRows, callsLeft, overlapped, unowned>>

\* a nonce was handed out that the account has not reached
Unmined(r) == run[r].pc \in {"store", "send", "wait"} /\ run[r].nonce >= nextNonce

Surroundings ==
    /\ DeployTrouble
    /\ \/ LockEnds /\ unowned' = (unowned \/ \E r \in Run : nonceLock = r /\ ~At(r, "send"))
       \/ OutsideTransaction /\ UNCHANGED unowned
       \/ CacheReset /\ unowned' = (unowned \/ \E r \in Run : Unmined(r))
    /\ UNCHANGED <<chainRow, contractRows, run, callsLeft, overlapped, unfinished>>

DeployNext ==
    \/ \E r \in Run :
        \/ Call(r)
        \/ MarkDeploying(r)
        \/ AcquireLock(r)
        \/ NotSent(r)
        \/ AcquireRead(r)
        \/ AcquireStore(r)
        \/ Send(r)
        \/ SendNothing(r)
        \/ Deployed(r)
        \/ NotDeployed(r)
        \/ RecordReady(r)
        \/ RecordContract(r)
        \/ Return(r)
        \/ FinishFails(r)
        \/ RecordFailed(r)
        \/ DeployCrashes(r)
    \/ Surroundings

DeploySpec == DeployInit /\ [][DeployNext]_deployVars

-----------------------------------------------------------------------------
DeployTypeOK ==
    /\ chainRow.status \in {"pending", "deploying", "ready", "failed"}
    /\ chainRow.status = "ready" => Len(chainRow.addresses) = Steps
    /\ nonceCache = NoNonce \/ nonceCache \in 0 .. MaxNonce + 1
    /\ nextNonce \in 0 .. MaxNonce + 1

\* A project that is ready has the same contracts in project_chains and in
\* project_contracts, which other services read, once no call is under way;
\* overlapping calls and a call that ended in between may leave them apart, until
\* a later call comes to its end.
ContractsAgree ==
    /\ chainRow.status = "ready" /\ \A r \in Run : At(r, "idle")
    /\ ~overlapped /\ ~unfinished
    => \A k \in 1 .. Steps - 1 : contractRows[k] = chainRow.addresses[k]

\* The contracts of a project that is ready stay, with the hot wallet that holds
\* the money: only a call that began before, or failed after it was ready, has
\* them deployed and recorded again.
ReadyIsKept ==
    [][chainRow.status = "ready" /\ ~overlapped /\ ~unfinished'
       => chainRow' = chainRow]_chainRow

\* Two calls never send with one nonce, unless a lock ended between reading and
\* writing the counter, or the counter was reset below a nonce handed out.
NonceNotShared ==
    \A q, r \in Run :
        q # r /\ run[q].pc \in {"send", "wait"} /\ run[r].pc \in {"send", "wait"} /\ ~unowned
        => run[q].nonce # run[r].nonce
=============================================================================
