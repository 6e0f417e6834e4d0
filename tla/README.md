# Formal model of CryptoVaultHub

TLA+ modules, TLC configurations and TLAPS proofs for the parts of
CryptoVaultHub that move money. Paths below are relative to the repository.
`PROJECT.json` maps every definition to the lines it models and lists the
runs, the theorems, the hazards and the disagreements found.

## 1. The system

A custody platform for EVM chains: NestJS services around MySQL, Redis
(streams, locks, BullMQ queues) and RPC nodes, and Solidity contracts.

| Component | State | Operations | Talks to |
|---|---|---|---|
| `contracts/CvhWalletSimple` (hot wallet) | signers, safe mode, window of 10 sequence ids | `init`, `sendMultiSig`, `sendMultiSigToken`, `sendMultiSigBatch`, `activateSafeMode`, `flushForwarderTokens` | called by the platform key with a second signature |
| withdrawal API, co-signing (`core-wallet-service`) | `withdrawals`, `co_sign_operations` | create, approve, cancel, open / sign / expire a co-sign operation | the worker, through the status column |
| withdrawal worker, confirmation (`cron-worker-service`) | BullMQ jobs, `withdrawals.status`, `tx_hash` | poll, claim, sign, broadcast, retry, confirm | key vault, RPC node, wallet contract |
| deposit detection (`chain-indexer-service`: polling and realtime detectors) | Redis balance cache, block cache, WebSocket subscriptions | compare a balance with the cached one, scan each new block, publish to `deposits:detected` | persistence handler |
| deposit records (persistence handler, confirmation tracker) | `deposits`, stream `deposits:confirmation` | insert a row, recover entries, count confirmations, publish milestones, confirm, revert | notification service, sweep |
| block indexing (`address-registration`, `block-processor`, `gap-detector`, `backfill`) | `monitored_addresses`, `indexed_blocks`, `indexed_events`, `sync_gaps`, scanned keys, BullMQ jobs | register an address, scan a block, detect and fill gaps | the polling detector, through the cursor |
| reorganisations, balances (`reorg`, `finality`, `balance`) | `reorg_log`, `materialized_balances` | see section 6: not reached | block indexing |
| forwarder deployment (`cron-worker-service`) | `deposit_addresses.is_deployed` | deploy a forwarder that has deposits, settle the coin its deployment forwards | forwarder contracts, deposits |
| sweep and reconciler (`cron-worker-service`) | `deposits`, `gas_tank_transactions`, a Redis lock per (chain, client) | select, flush forwarders, reconcile receipts | forwarder contracts, deposits |
| webhook delivery (`notification-service`) | `webhook_deliveries`, attempts, BullMQ jobs | create, deliver, retry, resend | stream consumers |
| project deployment, nonce service (`core-wallet-service`) | `project_chains`, `project_contracts`, a lock and a counter in Redis per gas tank | deploy five contracts one after the other, record them, hand out nonces | RPC node, client API |
| project setup and deletion (`client-api`, `admin-api`, `cron-worker-service`) | `projects.status`, rows of a project in four databases | create, make chains, keys and wallets, delete at once, schedule, cancel, set the status, delete what is due | all tables of the project |
| key vault (`key-vault-service`) | encrypted seeds, keys, shares; the password of the process | derive, sign, split, rotate the master password | worker, sweep |
| RPC gateway (`rpc-gateway-service`) | circuit state, rate limits | route, open and close circuits | all services that read a chain |
| job client (`packages/job-client`) | `jobs`, `job_locks` | create, update, cancel, retry, lock | admin API |
| auth service | sessions, API keys, invites | login, refresh, lockout | client and admin APIs |
| admin and client APIs, web applications | - | forward requests; chain lifecycle | services above |

What is hard here, and what makes each component correct:

* **Wallet contract.** A signed call must not be replayed although the
  contract forgets all but ten ids; gaps between ids must not wedge it; safe
  mode must hold for every way of sending.
* **Withdrawals.** Two services write one status column; every handler awaits
  between its reads and writes. A withdrawal must be paid at most once, be
  paid only when approved (and signed by the client where co-signing is on),
  and its final status must say what happened on chain, with workers that
  die, jobs that stall and run twice, calls that fail after they took effect,
  dropped and replaced transactions and reorganisations.
* **Deposits.** A detector that knows only balances, a cache written before the
  publication, overlapping polls, entries that come again, reorganised blocks: each
  transfer should be credited once, and each milestone told once.
* **Block indexing.** Errors are swallowed at several places, an open gap keeps
  its range from being queued, the addresses are cached: a block must not count as
  examined when it was not, and every missing block must be looked at in the end.
* **Sweep.** A lock with a time limit, transactions that fail after they were
  sent, a reconciler that runs beside it: every confirmed deposit is swept,
  none is marked swept while its forwarder holds the funds.
* **Webhooks.** A delivery that was created is sent until it is accepted or
  dead-lettered; a manual retry beside a queued one does not lose attempts.
* **Project deployment.** Calls overlap after a timeout, nonces are shared with
  other senders: a project that is ready must keep its contracts, above all its hot
  wallet, and two calls must not send with one nonce.
* **Project deletion.** Two services delete without transactions while a request
  cancels and an administrator sets the status: an active project must be whole, and
  keys must not go while money may be under them.
* **Key vault.** A rotation goes row by row while rows are added: after it the
  vault must be readable with one password.

`PROJECT.json` lists the hazards at their lines. A note tells what of a hazard its
properties leave out; where the code is simply exposed to one, no property is named, and
section 5 or a history variable (section 2) tells what happens.

## 2. Modules

```
PayOnce            abstract: an order is paid at most once
WalletSimple       the contract; implements PayOnce over sequence ids
WalletSimpleProofs its theorems
MCWalletSimple     instance for TLC

WithdrawalTable    the withdrawals table: status, source wallet
WithdrawalApi      handlers of core-wallet-service        (extends WithdrawalTable)
HotWalletChain     the chain as the worker sees it        (external)
WithdrawalWorker   jobs of cron-worker-service            (extends WithdrawalTable, HotWalletChain)
WithdrawalSystem   API and worker together; properties    (extends WithdrawalApi, WithdrawalWorker);
                   implements PayOnce over withdrawals when no attempt fails late
WithdrawalProofs   its theorems
MCWithdrawal       instances for TLC

DepositRow         abstract: the ways a deposit row may go, whoever writes it
DepositTables      deposits, the deployed flag, gas_tank_transactions
ForwarderChain     forwarder contract, transfers, transactions (extends DepositTables)
DepositTracker     persistence and confirmation of deposits    (extends ForwarderChain)
ForwarderDeploy    the deployment job                           (extends ForwarderChain)
SweepService       the sweep job and its lock                   (extends ForwarderChain)
ReceiptReconciler  the receipt job                              (extends SweepService)
SweepSystem        the four jobs together; properties; implements DepositRow
SweepProofs        its theorems
MCSweep            instances for TLC

DepositChain       blocks, transfers and flushes as the detectors see them (external)
DepositDetection   polling and realtime detectors               (extends DepositChain)
DepositRecords     persistence handler, confirmation tracker    (extends DepositDetection)
DepositSystem      the way of a transfer to a confirmed row; properties; implements DepositRow
DepositProofs      its theorems, and lemmas on sums over finite sets
MCDeposits         instance for TLC

BlockIndex         block processor and address registration
GapBackfill        gap detector and backfill worker             (extends BlockIndex)
IndexSystem        all four with cursor and chain; properties
IndexProofs        its theorems
MCIndex            instance for TLC

WebhookDelivery    event consumer, delivery, retries, resends; properties
WebhookProofs      its theorems
NonceService       lock and counter of a gas tank
ProjectDeploy      deployment of a project; properties          (extends NonceService)
NonceProofs        theorems on its nonces and recorded contracts
ProjectDeletion    setup and deletion: client-api, admin-api, daily job; properties
VaultRotation      rotation of the master password; properties
ServiceSystem      the four components above, one in each behaviour
ServiceProofs      theorems on deletion and vault, and on all four together (extends
                   ServiceSystem, WebhookProofs, NonceProofs)
MCServices         instance for TLC
```

**WalletSimple.** One action per external call; a call that reverts is no
step. `recentSequenceIds` is the storage array, `log` the list of `Transacted`
and `BatchTransacted` events, from which the properties are stated. The
recovered signer is an input, because any signer may have signed any arguments
off chain; hashing, `ecrecover` and the transfer itself are left out, a transfer
that fails reverts the call. `flushForwarderTokens` changes no storage of the
wallet. The window size and the maximal increase are constants.

**WithdrawalApi.** `request[r]` is a request between two database calls: each
action is one call, so the requests interleave as they do in the service.
`CreateInsert` relies on the unique key of `idempotency_key` as the table does;
the whitelist, token and balance checks only decide whether a request is
abandoned. `ApproveWrite`, `OpenOperation` and `SuspendWithdrawal` are the
three writes of approving a withdrawal of a `co_sign` project. Co-sign updates
by primary key are unconditional and those of the withdrawal are compare-and-set, as in
the SQL. `Abandon` ends a request anywhere: a call throws or the process dies.
`approvals` is a history variable.

**WithdrawalWorker.** `PollRead` and `Enqueue` are the select and the loop of
`pollApprovedWithdrawals`; `Take`, `Stall`, `Die`, `RemoveJob` are the queue,
modelled from its use: a job id is taken as long as the job is retained, also
after it ended. `exec[k]` walks through `executeWithdrawal`: `Claim`, `Load`,
`ReadSequence`, `ReadNonce`, `Broadcast`, `Record`, `Track`, `Publish`. `Fail`
is a throw inside the `try`, `FailUncaught` one outside it, which is all of
the gas tank path. A job that has ended (`EndedJob`) is the same whether it completed or
failed: its id is taken until `RemoveJob`. `ReadReceipt` and `WriteOutcome` are the
confirmation job: the receipt, then the height and the write. The height and the write can be
one step, because a transaction that is deep stays deep and the block of an orphaned receipt
gets no younger. Between the receipt and the height the block may be orphaned (`ChainMoves`);
the job is then `orphaned`, and confirms by the height all the same.
`late` is a history variable: an attempt failed after its broadcast.

**HotWalletChain.** Transactions of an account are mined in nonce order, may
be replaced by one with the same nonce, evicted, or reorganised while they are
not deep. A hot wallet call succeeds only when its sequence id is unused: this
is theorem `ReplayProtection` of the wallet. Transactions that sweeps send
from the same key are not modelled.

**DepositTables, ForwarderChain.** One forwarder of one client: the jobs treat
forwarders one by one. Amounts are abstracted: `place[d]` says whether the
funds of a deposit are still with the sender, on the forwarder or in the hot
wallet, and a balance is not zero when some deposit of the token is on the
forwarder. `txs` lists what was broadcast; a flush mined while the forwarder has
no code succeeds without an effect, except for a single ERC-20 token, whose
wrapper in the wallet reverts. Blocks are orphaned back to before the deployment
(`Undeploy`) only while no flush is mined; transfers are not orphaned.

**DepositTracker.** `Persist` is the upsert, which leaves an existing row as it
is. A member of `Check` is a row that `processChain` has loaded and not yet
written: the update is by id and tests nothing. Confirmation counts are
reduced to the status they lead to; milestones and streams are left out.

**ForwarderDeploy.** One action per awaited call. The flag is set when the
deployment was sent, the coin is taken for flushed when the balance is zero. `Deployer` are the
cycles: the next one begins when the one before it is over or, with outages, has
taken more than the 120 seconds, and then both go on and may deploy twice.

**SweepService.** `sweep[s]` walks through `executeSweep`: `Acquire`, `Select`,
`Inspect`, then `Submit`, `Log`, `Mark`, `Publish` for each call (one for the coin, one for
all the ERC-20 tokens), `ReadLock`, `DeleteLock`. `Inspect` takes flag, code and
balances at one moment. `CallFails` is the `catch` of a call, before or after its
broadcast took effect; `SweepDies` a process that ends, `LockExpires` the five
minutes. A policy may hold back any of the deposits in `Gated`.

**ReceiptReconciler.** `recon[r]` is a row of `gas_tank_transactions` in hand:
`ReadReceipt`, `UpdateGasTx`, then either `CascadeFailed`, or `ReadPending`,
`ReadBalances`, `Cascade`, `ReconcileOrphans`. `Aged` is the 15 seconds for
which a row is left alone: without outages they are enough for the sweep to
mark its deposits.

**DepositDetection.** A poll is three awaited steps: `ReadBalances`, `ReadCaches`, then
`WriteCache`, which compares, and `PublishIncrease`. `TimesOut` is the lost race with the
120 seconds, after which the next cycle may read while this poll goes on. The block a poll
works with may be `HeadLag` old. A hash is the transaction that `resolveTxHash` finds, or
the block number in place of the synthetic hash. The cached balance ends only when no poll
is under way (it lives an hour). `ProcessBlock` handles one announced block, all or nothing,
and is not repeated; a block may be missed while the socket is down.

**DepositRecords.** `HandleEntry` inserts a row, or leaves the one with the hash as it is,
and acknowledges or not. `SkipEntry` acknowledges without a row: a field is missing, or the
address or the token is unknown when the entry is read. A polled row is `confirmed` at once.
`track[c]` is `checkDeposit`: `LoadDeposit`, `ReadReceipt` (which publishes),
`UpdateDeposit` (which tests nothing). A check may fail after any number of its milestones.
A row with a synthetic hash is never checked. The deposits of the sweep are modelled apart,
in `DepositTables` and `DepositTracker`, with statuses only.

**BlockIndex, GapBackfill.** `task[b]` is `processBlock` between its awaits: the cached
addresses or the query, the assignment of the cache, the scan. A scan may lose its logs (a
swallowed error), store some of its events and throw, or find no block. Events with one key
(transaction and log index, where a native transfer has index 0) keep the first. `detect` is
one tick of the gap detector, batch by batch and range by range; `job` and `gap` are removed
when nothing refers to them, so their ids are taken again. `BackfillFails` is an attempt
that throws and is recorded by the catch. In `TakeFails` a statement outside the `try`
throws, in `RecordFails` the update of the catch itself: the row keeps its status, and after
the last attempt is open without a job. Blocks near the head are examined like others: the
code knows no finality. Reorganisations are not modelled, as nothing reacts to them.

**WebhookDelivery.** One event, its row for each webhook, and runners that are
worker slots or API calls: `ReadDelivery`, `Post`, `RecordAttempt`, then
`MarkSent`, `MarkFailed` or `MarkRetry` and `EnqueueRetry`. A job is a number per
row, because jobs of one row differ in nothing. `Post` may reach the endpoint
and lose the answer. `RunStalls` is a restart: a stalled job runs again once. `StartFails` and
`RunFails` are errors of the database before and after the post: a job has a single
attempt, so it is gone and its row stays as it was.

**ProjectDeploy, NonceService.** A call deploys `Steps` contracts one after the
other: lock, read and store of the nonce, sending, waiting. A contract is the nonce that made it,
from which its address follows. The transaction is mined when the nonces below
it were sent. `LockEnds`, `CacheReset` and `OutsideTransaction` are what goes on around the
gas tank. `DeployCrashes` leaves the row in `deploying`; the next call goes on from there.

**ProjectDeletion.** `createProject` inserts an active project, `SetUp` makes the other
tables (`parts`, in the order of the cleanup; the statements on keys are one step). `made`
is a history of what it made. `ImpactDeposits`, `ImpactWithdrawals` and `Decide` count as
client-api does: a failed count is zero. Deposits are counted where they are written,
because `cvh_wallets.deposits` is a view of `cvh_transactions.deposits`
(`database/044-deploy-traces-cross-db-view.sql:12-16`). `AdminSetsStatus` is admin-api's
update and archive, which look at nothing; `inactive` is archived or suspended, which nobody
tells apart, and `due` is `pending_deletion` with its time past. `Use` records a deposit or
a withdrawal as long as there is a wallet.

**VaultRotation.** Every row has the password it was encrypted with. A rotation lists a table, then
writes its rows one after the other, each by its id; errors are counted and
skipped. The makers load and decrypt a row, and store a derived one later. The
answer of a rotation without errors is followed by a restart with the new
password, as the controller asks for; a crash in between starts with the old one.

History variables. Properties of code that is not safe against every fault say which
faults they leave out, by history variables that no action reads: `repeated`, `missed`, `retold`
(deposits), `unread`, `late`, `raced`, `abandoned` (index), `orders`, `mishaps`,
`unqueued` (webhooks), `overlapped`, `unfinished`, `unowned` (deployment), `late`,
`uncounted`, `interrupted`, `lateCancel` (deletion), `storedLate`, `partial`, `crossed`
(vault). So is `orphaned` (withdrawals), a state of the confirmation job that only a
reorganisation between its two reads leads to. Without any one of them its property fails in
the same run, so each is a fault the code does not survive; what remains is what it does
survive.

## 3. Runs

| Run | Instance | Shows |
|---|---|---|
| `wallet_simple` | window 3, increase 4, ids to 5, 4 addresses, 2 timestamps | type, safe mode, no wedging, `PayOnce` |
| `withdrawal_execution` | 1 withdrawal from either wallet, 2 workers, 2 attempts, 2 transactions, outages | `ConfirmedMeansPaid`, `OneExecutor`, `OnlyLateFailuresSendTwice`, `TrackedIsRecorded` |
| `withdrawal_requests` | 1 co-signed withdrawal, 2 requests at a time, 1 worker, outages, nothing broadcast | `ResumedWhenAnswered` |
| `withdrawal_live` | 1 withdrawal, 2 requests at a time, 1 worker, 2 attempts, no outages, fairness | `HotIsExecuted` |
| `withdrawal_gas_tank`, `withdrawal_unsigned` | 1 withdrawal | each violates one statement of the repository (section 5) |
| `sweep_safety` | 2 deposits of different tokens, both gated, 1 sweep and 1 reconciler, 2 deployer cycles, 1 check, 2 transactions, outages | `SweptHasMoved`, `FailedHasReverted`, `RowsAsPromised` (the refinement of `DepositRow`) |
| `sweep_live` | 1 deposit of the coin, 2 of a token, 2 sweep runs, 4 transactions, no tracker, no outages, fairness | `OneFlushPerDeposit`, `SettledUnlessRefilled`, `ConfirmedIsFlushed` |
| `sweep_failed` | 1 deposit, no outages, fairness | violates one statement of the repository (section 5) |
| `deposits` | 2 transfers of one amount, 3 blocks, 1 flush (polling mode), 1 reorganisation (realtime mode), 2 polls, 2 checks, milestones 1 and 2, 2 confirmations, 1 failure, fairness | `PolledOnce`, `AllAccountedFor`, `MilestonesTold`, `ToldOnce`, `RowsAsPromised`, `RealtimeIsFinal` |
| `index` | 2 addresses, 3 transfers in one block, 3 blocks, 1 gap at a time, batches of 2, 2 job attempts, 1 failure (2 with those of the worker), fairness | `ExaminedIsIndexed`, `OpenHasJob`, `WindowIsExamined` |
| `services` | webhooks: 1 webhook, 2 runners, 2 rows, 2 attempts, 1 order, 1 mishap; deployment: 2 calls at a time, 3 in all, 2 contracts, 2 troubles; setup and deletion: 2 requests, 1 upset; vault: 2 passwords, 2 rotations, 2 derived keys, 1 row of each other table, 1 glitch; fairness for webhooks | `AcceptedAsOrdered`, `QueuedIsCarried`, `DeliveryEnds`; `ContractsAgree`, `ReadyIsKept`, `NonceNotShared`; `ActiveIsWhole`, `KeysOutliveUse`; `VaultIsReadable` |

Bounds. A window of 3 with ids up to 5 is filled, wraps, has gaps and reaches the upper
limit of the increase; ids beyond repeat these cases (and the theorems cover all sizes). Two
workers are the concurrency of the queue, and two are needed for a stalled job to run beside
its first worker. `MaxTxs = 2` allows a second transaction of one withdrawal: what
`OnlyLateFailuresSendTwice` and the nonce replacement need. Two attempts contain a first, a
retried and a last one. Two requests at a time suffice for every pair of handlers to race; a
request slot is used again, so there may be any number of requests. `withdrawal_requests`
keeps `MaxTxs` at 0, every execution fails before its broadcast: what follows a broadcast is
in `withdrawal_execution`. BullMQ's `maxStalledCount` is 1, its default. `CHECK_DEADLOCK
FALSE` is set because a finished withdrawal whose jobs are removed leaves nothing to do.

`sweep_safety` needs two tokens, since only a flush of several is a call that succeeds
without code, and two transactions: the deployment, which may be orphaned or sent twice, and
a flush. What follows a flush beside two deployments needs a third one, which makes the run
too long; the theorems hold for every `MaxTxs`. `sweep_live` has room for the deployment and
a flush of every deposit, so the bound never stops it; two sweep runs are two replicas, and
two deposits of one token refill the forwarder. There the tracker is left out (rows come
confirmed from polling, or stay pending and are flushed along); it takes part in the other
two. The sweep runs set `CHECK_DEADLOCK FALSE`: transfers end, and then the jobs have
nothing to do.

`deposits` runs in polling or realtime mode, chosen at the start; in hybrid mode, the
default, both detectors credit (section 5), so it is left out. Two transfers and a flush are
enough for an increase that joins two, one that hides a flush and one that is not resolved
to its transaction. With two poll slots a poll that lost its race goes on beside the next
one. Two checks are two replicas that may look at one row (`Overlaps`). A flush changes
nothing for the realtime detector, so it is left to the polling mode. Three blocks let a row
reach its second confirmation after a reorganisation of one block. The poll may work with a
head that is one block old. A failure is a lost or slow poll, an old block number, a second
check of a row beside the first, an ended cache entry, an entry that is not acknowledged or
is acknowledged without a row, or a check that stops half way.

In `index` block 2 has a native transfer and a log of one transaction, which collide in
their key, and a log with a key of its own; one address is registered while blocks are
scanned. With the cursor at block 3 the window is blocks 1 to 3, and one batch of two is
read: the loop starts no batch at the last block of its window. `MaxFails` bounds what fails
elsewhere; `MaxWorkFails` bounds all failures, when one of the worker is among them, so that
both attempts of a job can fail. A gap row is removed when it is final and its job gone, so
one at a time is a bound on open gaps, not on how many there are in a run.

`services` is the sum of four components that share no state: the first step of `Init`
chooses one, the others rest. The number of states is the sum of theirs, not the
product. Two rows are those of an event that is handled again after an error; two calls of the
deployment and a third one after them let a project be deployed anew after it was
ready; two contracts are the hot wallet and one that is in `project_contracts`.

Fairness (`FairSpec`). Weak fairness of the poll (a repeated job), of each enqueue in its
loop and of each worker's next step (in which failing is a choice); strong fairness of
taking a waiting job, because the queue is first in first out. Nothing is assumed of
requests, of the chain or of removing retained jobs. In two cases the property does not
hold, and an approved withdrawal waits beside its retained job, which keeps the poll from
enqueuing it until enough other jobs have ended. With a lost lock the second worker ends the
job at its claim, the first one then throws and sets the withdrawal back to `approved`;
`withdrawal_live` therefore sets `Outages = FALSE`. And of two overlapping approvals
(`withdrawal.service.ts:284-286` reads and then writes) the second can write `approved`
after the attempts are used up; `HotIsExecuted` therefore ends when a withdrawal is approved
a second time. The two requests of the run race a cancellation with the approval as well. A
remark in `confirmation-tracker.service.ts:40-46` reports that repeated jobs with a `jobId`
stopped after their first tick; the poll of the worker is such a job, so the fairness of
`PollRead` is only as good as the BullMQ version that is deployed.

For the sweep, weak fairness of mining and of each of the three jobs: they are timers of 30
seconds, and a run ends because its calls have time limits. Two replicas of the sweep are
fair together, not each. A deployer cycle of more than two minutes is an outage, so the runs
without outages have one. Nothing is assumed of transfers and of the insertion of their
rows. With outages the liveness properties fail: a lost deployment is not repeated (the flag
is set), and a reconciler that dies after it updated the transaction's row never reads it
again.

For the deposits: blocks go on, each open row is looked at again and again (strong fairness,
as a check of another row may be under way), and the calls of a check return.
Nothing is assumed of polls or of the subscription: the property starts with a row.
For the index: the cursor comes to the head (the polling detector writes it every 30
seconds), the detector goes on (every five minutes), the queue hands out each job, and
what has begun goes on; nothing of the transfers or registrations. For the webhooks: the
consumer loop and the runners go on and each waiting row is started; nothing of operators.

The properties in `WithdrawalSystem` say for which histories they hold
(`PlainlyApproved`, `late`, `orphaned`). The conditions are not conveniences: outside
them the code does pay twice, confirm what was orphaned or stop halfway.

## 4. Proofs

`WalletSimpleProofs` proves for every window size, increase, set of addresses
and length of history:

* `TypeCorrect`: `Spec => []TypeOK`.
* `SafeModeSafety`: `Spec => []SafeModeConfinesFunds`. The invariant needs that
  a safe entry in the log implies that safe mode is on (it is never left).
* `ReplayProtection`: `Spec => NoReplay`, that is `Abstract!Spec`. The
  inductive invariant `ReplayInv` says that each id in the log is in the window
  or at most as large as every id in it (`Remembered`). An inserted id is above the lowest one
  and not in the window, hence was never used; what leaves the window was the
  lowest. `InsertRemembers` is the lemma on one insertion.
* `NeverWedged`: `Spec => []SomeIdIsInsertable`. By the pigeonhole principle
  (`FS_PigeonHole`) the window cannot hold all of the `MaxIncrease` ids above its
  lowest one, because one of its slots holds the lowest itself
  (`RoomInWindow`); the lowest slot exists by `LowestExists`. It uses
  `WindowSize <= MaxIncrease` from `WindowAssumption`.

The assumptions are those of `WindowAssumption`; the contract has 10 and 10000.

`ServiceProofs`, `VaultStaysReadable`: `VaultSpec => [](VaultTypeOK /\ VaultIsReadable)`
for every set of passwords, number of rows in each table, of rotations and of makers.
The property speaks of moments without a rotation; the inductive `VaultInv`
says what holds during one. As long as no second rotation crossed it, the rows ahead
of it have the old password, which is that of the process, and all others the
new one, but for rows that were stored late (`HalfWay`); what it has listed is what
the vault holds (`ListedIsCurrent`), since makers only add rows. The one master seed
tells a rotation whether its old password is right (`OneSeed`). It assumes
`VaultAssumption`: the first password is one, and there is a master seed.

On setup and deletion `ServiceProofs` has `DeletionTypes` (`[]DeletionTypeOK`),
`ProjectIsWhole` (`[]ActiveIsWhole`) and `KeysStay` (`[]KeysOutliveUse`), for every number
of requests and errors. `DeletionInv` adds that wallets go before keys, so nothing can be
recorded between the two (`WalletsFirst`), that nobody who counted after a deposit or
withdrawal was recorded is deleting (`NoneDeletes`), and that the daily job has no active
project in hand unless it was made active after its deletion had begun (`JobIsDue`). What an
administrator does needs no more than that history.

Its last section joins the components of the run `services`. `PartsKeepTheirSpecs`: a step
of `ServiceSystem` is a step of one component that leaves the variables of the others alone,
so its `Spec` implies the specification of each, and every theorem of `WebhookProofs`,
`NonceProofs` and `ServiceProofs` holds of the run. `ServiceTypes` (`Spec => []TypeOK`)
follows from the four type theorems.

`NonceProofs`, for every number of calls, contracts and troubles:

* `NoncesAreDistinct`: `DeploySpec => []NonceNotShared`. `NonceInv` adds that only the
  holder of the lock is between reading and storing the counter (`LockHeld`), and that
  nonces in use are below the counter and below the one being handed out (`BelowCounter`).
  `SentBounds`, by the well-founded order of the naturals, shows that the account's own
  count does not go back.
* `DeployTypes`, `ContractsAreAgreed` (`[]ContractsAgree`) and `ReadyStays` (`ReadyIsKept`).
  `DeployInv` adds that unless calls overlapped there is one call (`OneCall`), that a call which
  records has all the contracts of its own deployment (`AllDeployed`, `RecordsItsOwn`), and
  that a project is not ready while one is under way (`NotReadyBefore`).

`MaxNonce` is a constant, the bound of the nonces that are sent. Assumed are
`NonceAssumption` (the absent nonce is no number, the free lock no call) and
`DeployAssumption` (there is a contract to deploy).

`WithdrawalProofs`, for every set of withdrawals, requests, operations, workers and jobs, every
number of attempts and transactions, with outages, dropped and replaced transactions and
reorganisations. `WithdrawalTypes` is `Spec => []TypeOK`; of the same `WithdrawalInv` follow:

* `ConfirmedIsPaid` (`ConfirmedMeansPaid`, of the step that writes the status). Between the
  reading of the receipt and the write the job has the state `mined` only as long as the
  block of the receipt is there (`ReceiptIsCurrent`, kept by `ReceiptStaysCurrent`): it is
  orphaned by the chain alone, a deep one never, and the mined transactions of an account are
  those with its lowest nonces, so a transaction that replaces another never has the nonce of
  a mined one (`SubmitSparesMined`).
* `SingleExecution` (`[]OneExecutor`) and `SentOnce` (`[]OnlyLateFailuresSendTwice`). While
  an execution is past its claim, the status it wrote keeps others from claiming; what an
  execution may still send was not sent before. Both speak of histories that are
  `PlainlyApproved`, and the invariant carries those conditions with it.
* `PaidOnce` (`Spec => PaysOnce`): the path as a whole implements `PayOnce`, with the
  withdrawals as orders and the transactions as payments, in every behaviour in which
  nothing but the worker resumes a withdrawal and no attempt from the hot wallet fails after
  its broadcast (`NoLateFailure`). Workers may die, locks be lost, jobs run again,
  transactions be evicted or replaced. `OrdersGrow` shows that a step adds nothing to the
  list or the withdrawal of one broadcast; at the next state `SendsOnce` says that it is the
  only one of that withdrawal. The implication is not in TLC's reach, its step was checked
  as an action property of the run `withdrawal_execution`.
* `TrackedRecorded` (`[]TrackedIsRecorded`): a worker records the hash before it adds the
  confirmation job.
* `AnsweredFirst` (`ResumedWhenAnswered`): who resumes a withdrawal has an operation in
  hand, and that was answered.

They assume `WorkerAssumption` and `WithdrawalAssumption`: absent values are different from
present ones, and bounds are numbers.

`SweepProofs`, for every set of deposits and tokens, every number of checks, runs and transactions,
from `DepositAssumption` and `SweepAssumption` (the free lock is no run):

* `SweepTypes` (`[]TypeOK`), `SweptIsMoved` (`SweptHasMoved`) and `FailedIsReverted`
  (`FailedHasReverted`), with outages. `SweepInv` says that nothing is known of a transfer
  before it arrives (`ArrivedFirst`), that the log has flushes alone (`LoggedIsFlush`), that
  the receipt the reconciler has in hand is still that of its transaction (`ReceiptStays`: a
  deployment is orphaned only while no flush is mined), and that what it found emptied has
  moved (`EmptiedHasMoved`). `WhoChanges` names for each change of a status the step that
  made it.
* `SweepKeepsRows` (`Spec => RowsAsPromised`): the four jobs together implement
  `DepositRow`, step by step: `TrackerKeepsPromise`, `RunKeepsPromise` and
  `SweepKeepsPromise` for the writers that hold rows they read before, `OthersKeepPromise`
  for the deployer, the reconciler and the chain, whose writes test the status they change.
  `ClosedStays` (`Spec => Promise!ClosedUnlessInHand`) is what the promise is for: a swept,
  failed or reverted row changes only by a check or a sweep that has had it in hand since
  before. It follows from the abstract specification alone.
* `FlushedOnce`: `Spec => [](~Outages => OneFlushPerDeposit)`. `FlushInv` adds that a run
  which is not idle holds the lock (`LockHeld`), that a deposit a transaction was sent for
  has its hash or gets it in the next steps of that run (`FlushedIsMarked`), and that the
  calls a run has yet to send are for deposits apart from each other and from all that were
  sent for (`Apart`).

`WebhookProofs`, for every set of webhooks, finite set of runners and number of rows,
retries, orders and mishaps:

* `AcceptedOnce` (`[]AcceptedAsOrdered`). `deliverWebhook` does not look at the status of a
  row, so any number of runners may post it at one time; what bounds them is an account.
  `Spare` is what was ordered or went wrong, less the jobs and runners that may still post
  the row (`Carriers`, counted with the theorems on finite sets), and it never goes down;
  every post raises it (`Ledger`, `RunnerLedger`).
* `WebhookTypes` (`[]WebhookTypeOK`), from the same account: an attempt beyond the last
  retry ends what its runner carries, so the attempts of a row are at most its retries and
  what is spare.
* `QueuedGoesOn` (`[]QueuedIsCarried`): of all errors only those that take the one job of a
  row with them (`unqueued`) leave it queued with nobody carrying it.

Assumed is `WebhookAssumption`: runners are finitely many, the bounds are numbers, and a webhook has
an attempt (5 by default).

`DepositProofs`, for every finite set of transfers, polls and checks, all amounts,
milestones, numbers of blocks and failures, and each monitoring mode. `DepositInv` is
inductive:

* `DepositTypes` (`[]TypeOK`): a poll reads a part of the transfers, and a part of a set has
  no larger sum (`SumGrows`).
* `PolledIsOnce` (`[]PolledOnce`). `Coming` is what will be published if the polls go on:
  from the cached balance to the one a poll has read, and from there to the one on chain. It
  is never more than what arrived. What the chain adds arrives with it (`GainsArrive`); a
  poll moves it along.
* `NothingIsLost` (`[]AllAccountedFor`). `Recorded` sums what each hash is worth (its row,
  or its only entry in the stream) and the increases that are in the cache and not yet
  published. `Accounts` says that what arrived is recorded or exceeds the cached balance,
  and that what the polls have seen is recorded, so that a flush of it hides nothing. An
  entry keeps its worth when it becomes a row (`PersistenceKeepsAccounts`); a published
  increase passes from the poll to a hash (`RecordedMoves`).
* `RowsAreTold` (`[]MilestonesTold`). What a check read was told, and what it will write too
  (`ToldBefore`), as it publishes before it updates.
* `EventsAreToldOnce` (`[]ToldOnce`), by an account for each transfer and milestone
  (`MilestoneBound`) and each final status (`FinalBound`): how often it was told, the checks
  that will tell it (`Crossing`, `InReceipt`), and one if the row is or may be left so that
  it is told again (`Below`, `Unsettled`) are together at most one more than the checks that
  may be repeated.

* `DepositKeepsRows` (`Spec => RowsAsPromised`) and `ClosedStays`: the long model of
  persistence and confirmation implements the same `DepositRow` as the short one in
  `SweepSystem`. So what the sweep is proved to rely on is what the tracker, with
  redelivered entries, overlapping checks and reorganisations, is proved to do
  (`InsertKeepsPromise`, `CheckKeepsPromise`).

The sums are folds over finite sets. `SumSplits` shows that any element may be taken out
first, by a smallest part for which it is not so (`SmallestSet`), which needs no induction
theorem. Assumed are `ChainAssumption` (transfers are finitely many and pay something),
`DetectionAssumption` (polls are finitely many, an absent cache entry is no number),
`RecordsAssumption` (checks are finitely many, milestones are positive) and
`SystemAssumption` (bounds are numbers).

`IndexProofs`, for every number of blocks and gaps, and every set of addresses and transfers:

* `ExaminedBlocks` (`[]ExaminedIsIndexed`). The map in memory has every registered address
  but those that came while it was being loaded (`MapIsComplete`), and so has the map a task
  scans its block with, but for those registered since it was read (`TaskIsComplete`),
  whichever of the realtime, polling and backfill scans it is.
* `OpenGapsHaveJobs` (`[]OpenHasJob`). Whatever fails in the worker either leaves an
  attempt, or closes the row, or gives the row up (`abandoned`). A job has its row
  (`JobHasRow`), nobody touches a row between its creation and that of its job
  (`CreatedHasNoJob`), and the worker holds an active job.
* `IndexTypes` (`[]TypeOK`), of the same `IndexInv`.

Assumed are `BlockAssumption` (transfers are in blocks and to addresses) and `BackfillAssumption`
(window, batch and attempts are positive).

The inductive invariants were checked by TLC before they were proved, on the instances of section 3.

Every safety property of a passing run is stated by a theorem; those of section 5 fail, and
have none. Out of reach of the prover and left to TLC: the liveness properties
(`HotIsExecuted`, `SettledUnlessRefilled`, `ConfirmedIsFlushed`, `RealtimeIsFinal`,
`WindowIsExamined`, `DeliveryEnds`).

## 5. Where the code and its texts disagree

* `withdrawal_gas_tank`: a gas tank withdrawal whose attempt throws stays in
  `broadcasting` for ever; the worker's comment says it is marked `failed`.
* `withdrawal_unsigned`: a withdrawal of a `co_sign` project can be executed
  without the client's signature, because it is `approved` before it is
  `pending_cosign`; the worker signs with keys the platform holds, those of the gas tank or, for
  the hot wallet, the platform and the backup key.
* `sweep_failed`: a deposit that is `sweep_failed` is never selected again; the
  API documentation and a comment say that the sweep is retried.

Seen while modelling, without a run:

* Withdrawals. `approveWithdrawal` overwrites a concurrent cancellation, as both test the
  status before they write; the lifecycle test lists `cancelled` as terminal, so that a
  terminal status stays is no property here. "Confirmed with enough confirmations"
  (`withdrawal-confirm.service.ts:141`) does not hold when the receipt's block is orphaned
  between the reading of the receipt (`:78`) and that of the height (`:117`). `failed` is
  written from a receipt that can still be reorganised, or after a broadcast that was
  accepted; the API calls it a terminal failure. The co-sign operation can be signed before
  the withdrawal is suspended, which then stays suspended. `getNextSequenceId` after a gap
  of more than 10000 ids returns one that is refused.
* Sweep. When a further transfer arrives between a flush and the reading of the balance, the
  flushed deposits stay `sweep_pending`; the comment leaves them "for the next sweep cycle",
  which does not select them. A coin deposit to a forwarder with code is forwarded by
  `receive()` at once; the sweep finds no balance and the row stays `confirmed`
  (`ConfirmedIsFlushed` therefore speaks of funds on the forwarder). A deposit whose row the
  orphan pass takes along may have arrived after the balance was read.
* Deposits. The comment at `deposit-persistence.handler.ts:235-238` relies on a synthetic
  hash that is stable; the hash has the block number, and after the cached balance ended the
  whole balance is published with another one. In hybrid mode a transfer that is not
  resolved to its hash has two rows. Polled rows are `confirmed` when they are inserted, so
  neither milestones nor `confirmed` are published for them. "Exactly once"
  (`confirmation-tracker.service.ts:66`, `:332`) does not hold when a check fails between
  the events and the update (`ToldOnce` counts these). Of two transfers to one forwarder in
  one transaction the unique key keeps one row. The realtime detector loads its addresses
  once: `refreshMonitoredAddresses` has no caller. An entry whose address or token is not
  (yet) known is acknowledged without a row (`deposit-persistence.handler.ts:256-262`,
  `:296-301`), and nothing brings it back. The tracker's query joins `cvh_indexer.tokens`;
  it is modelled as a query that works.
* Index. A block whose log query failed, but which had a native transfer, has a row and is
  never read again. An open `sync_gaps` row without a job holds its range for ever; a failed
  update in the `catch` of the last attempt (`backfill.worker.ts:144`) or a failed statement
  before its `try` is enough. The comment at `gap-detector.service.ts:66-73` says each tick
  advances by another 10000 blocks: the window is always the last 10000 before the cursor,
  and never goes back to older ones.
* Webhooks. `deliverWebhook` does not look at the status of the row: a bulk retry beside a
  queued job posts twice. A row whose job was lost stays `queued`; a job has a single
  attempt, so one error of the database before its post
  (`webhook-delivery.service.ts:141-168`) loses it. `ManualResendService` creates a row
  without the `projectId` that `schema.prisma:76` requires: the create throws, so there is
  no copy to model.
* Deployment. Nothing keeps a second call from a project that is `deploying`, though
  client-api gives up after five minutes. An error after the row was `ready` makes it
  `failed`, and the next call replaces the hot wallet. A counter is advanced also when
  nothing was sent; the hole is filled only by another sender or after an hour.
* Deletion. `project-setup.controller.ts:596` tells of a grace period of 7 days, the code
  deletes at once or after 30. A count of client-api that fails is zero, so that a project
  with deposits and no balance can be deleted at once. A deletion that failed half way
  leaves a pending project, which its cancellation, or admin-api's update
  (`project-management.service.ts:139-183`), makes active. A new project is `active` before
  it has chains or keys (`project-setup.service.ts:151-155`): `ActiveIsWhole` is about what
  its setup has made.
* Vault. After a partial rotation another one with the old password is refused when the
  newest master seed was rotated, and reports an error for every rotated row otherwise.
  Until the restart the process cannot read the rotated rows.
* Circuit breaker. `circuit-breaker.service.ts:16-17` tells of a state that replicas share
  through Redis; `isAllowed` reads the map of the process only. A half-open circuit lets
  every request through; the comment at `:113` tells of a single probe.

## 6. Not modelled

* Reorganisations of the index, finality and balances: `checkForReorg` has no caller,
  `indexed_events.processed_at` is set by nothing although the materializer selects by it,
  and finality reads an unqualified table `chains`: no state of interest is reached.
* Circuit breaker: what decides is one process's map, changed without awaits. Job client:
  nothing takes its jobs. Chain lifecycle: one read followed by a patch.
* Of the sweep: several forwarders in one run, how policies decide, gas prices and an
  insufficient gas tank (a call that fails), reorganisations of flushes and of transfers,
  NFTs. Of the withdrawals: nonces taken by the transactions of the sweep. (Two withdrawals
  that share a nonce or a sequence id are in the model and the theorems, but in no run.)
* Of the deposits: several forwarders and currencies, which the code handles one by one;
  Kafka copies. Of the webhooks: payloads, signatures, the test call. Of the projects: the
  checks of gas, exports and e-mails of their setup.
* Signing, hashing, Shamir sharing and key derivation are cryptography; the APIs mostly
  forward and validate; the web applications and shared packages, which are most of the
  repository's lines, keep no state of interest. `withdrawal-executor.service.ts` is reached
  from no controller or job.
* Amounts and balances of withdrawals: an underfunded call is one that reverts.

## 7. Plan

The parts of the system that move money, or keep what moves it, are modelled, and the safety
properties of their runs are proved. Next would be:

1. Model: withdrawals and sweeps that send from one key and share its nonces, which needs
   one model of the account for `HotWalletChain` and `ForwarderChain`, and a run with two
   withdrawals.
2. Model: the parts section 6 names, where their state is more than a cache of the chain.
3. Proofs: that a sweep settles what it sent, when the prover handles fairness.
