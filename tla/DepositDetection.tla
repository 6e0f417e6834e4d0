-------------------------- MODULE DepositDetection --------------------------
(***************************************************************************)
(* chain-indexer-service: polling-detector.service.ts takes a growing      *)
(* balance for a deposit, realtime-detector.service.ts scans each block.   *)
(* Both publish to the stream deposits:detected.  The polling detector     *)
(* compares with a balance cached in Redis; a poll that outlives the       *)
(* timeout of its cycle goes on beside the next one.                       *)
(***************************************************************************)
EXTENDS DepositChain, Integers

CONSTANTS
    Modes,          \* monitoring modes: polling, realtime, hybrid
    Poll,           \* calls of pollChain under way at a time
    HeadLag,        \* bound: how old the block number a poll works with may be
    LookBack,       \* blocks searched for the transaction of an increase
    NoEntry         \* a cache without the key

ASSUME DetectionAssumption ==
    /\ IsFiniteSet(Poll) /\ NoEntry \notin Nat
    /\ {HeadLag, LookBack} \subseteq Nat

VARIABLES
    mode,           \* monitoring_mode of the client's address
    poll,           \* what each poll has read
    balanceCache,   \* balance:<chain>:<address>:<token>, or NoEntry
    announced,      \* blocks whose number the subscription still has to handle
    stream          \* entries of deposits:detected that are not acknowledged

detectors == <<mode, poll, balanceCache, announced, stream>>

Idle == [pc |-> "idle"]

\* a transaction, or the block number in the hash polling:<block>:...
Hash == Transfer \cup (0 .. MaxBlock)
Message == [hash : Hash, amount : Nat, source : {"polling", "realtime"}]

DetectionInit ==
    /\ mode \in Modes
    /\ poll = [p \in Poll |-> Idle]
    /\ balanceCache = NoEntry
    /\ announced = {}
    /\ stream = {}

\* cycleInFlight
InFlight(p) == poll[p] # Idle /\ poll[p].awaited

\* the balances of one Multicall3 call; which of the idle slots takes it makes
\* no difference
ReadBalances(p) ==
    /\ mode # "realtime"
    /\ poll[p] = Idle /\ p = CHOOSE q \in Poll : poll[q] = Idle
    /\ \A q \in Poll : ~InFlight(q)
    /\ poll' = [poll EXCEPT ![p] =
                    [pc |-> "read", awaited |-> TRUE, balance |-> Balance]]
    /\ UNCHANGED <<mode, balanceCache, announced, stream>>

\* the block: the head, one that was cached less than 25 s ago, or the sync
\* cursor when the node does not answer; then the cached balance
ReadCaches(p) ==
    /\ poll[p].pc = "read"
    /\ \E b \in {n \in 0 .. head : n + HeadLag >= head} :
        poll' = [poll EXCEPT ![p] = [pc |-> "write", awaited |-> @.awaited,
                                     balance |-> @.balance, block |-> b,
                                     prev |-> balanceCache]]
    /\ UNCHANGED <<mode, balanceCache, announced, stream>>

Prev(p) == IF poll[p].prev = NoEntry THEN 0 ELSE poll[p].prev

\* fault: the whole balance is taken for the deposit
IncreaseIsBalance(p) == poll[p].balance

Increase(p) == poll[p].balance - Prev(p)
Increased(p) == poll[p].balance > Prev(p)

\* fault: the first observation only fills the cache
WriteCacheFirstSilent(p) ==
    /\ poll[p].pc = "write"
    /\ balanceCache' = poll[p].balance
    /\ poll' = [poll EXCEPT ![p] = IF Increased(p) /\ poll[p].prev # NoEntry
                                   THEN [@ EXCEPT !.pc = "publish"] ELSE Idle]
    /\ UNCHANGED <<mode, announced, stream>>

\* fault: any change of the balance is published
WriteCacheIfChanged(p) ==
    /\ poll[p].pc = "write"
    /\ balanceCache' = poll[p].balance
    /\ poll' = [poll EXCEPT ![p] = IF poll[p].balance # Prev(p) THEN [@ EXCEPT !.pc = "publish"]
                                   ELSE Idle]
    /\ UNCHANGED <<mode, announced, stream>>

WriteCache(p) ==
    /\ poll[p].pc = "write"
    /\ balanceCache' = poll[p].balance
    /\ poll' = [poll EXCEPT ![p] = IF Increased(p) THEN [@ EXCEPT !.pc = "publish"] ELSE Idle]
    /\ UNCHANGED <<mode, announced, stream>>

\* resolveTxHash: the newest transfer in the blocks looked at
IsResolved(t, b) ==
    /\ t \in Mined
    /\ blockOf[t] + LookBack >= b /\ blockOf[t] <= b
    /\ \A u \in Mined : blockOf[u] <= b => blockOf[u] <= blockOf[t]

\* a first observation is not looked up, and a lookup may fail
IsHashOf(h, p) ==
    \/ h = poll[p].block
    \/ /\ poll[p].prev # NoEntry
       /\ h \in Transfer
       /\ IsResolved(h, poll[p].block)

PublishIncrease(p) ==
    /\ poll[p].pc = "publish"
    /\ \E h \in Hash :
        /\ IsHashOf(h, p)
        /\ stream' = stream \cup {[hash |-> h, amount |-> Increase(p), source |-> "polling"]}
    /\ poll' = [poll EXCEPT ![p] = Idle]
    /\ UNCHANGED <<mode, balanceCache, announced>>

\* the race with the timeout of 120 s is lost; the poll itself goes on
TimesOut(p) ==
    /\ InFlight(p)
    /\ poll' = [poll EXCEPT ![p].awaited = FALSE]
    /\ UNCHANGED <<mode, balanceCache, announced, stream>>

\* the node or the database fails a poll, or the process restarts
PollFails(p) ==
    /\ poll[p] # Idle
    /\ poll' = [poll EXCEPT ![p] = Idle]
    /\ UNCHANGED <<mode, balanceCache, announced, stream>>

\* the entry ends after an hour without a poll
BalanceExpires ==
    /\ balanceCache # NoEntry
    /\ \A p \in Poll : poll[p] = Idle
    /\ balanceCache' = NoEntry
    /\ UNCHANGED <<mode, poll, announced, stream>>

\* the subscription announces the block that is mined, when it is connected
Announce ==
    /\ announced' \in {announced, announced \cup {head'}}
    /\ mode = "polling" => announced' = announced
    /\ UNCHANGED <<mode, poll, balanceCache, stream>>

\* processBlock: an error is logged and the block is not tried again
ProcessBlock(b) ==
    /\ b \in announced
    /\ announced' = announced \ {b}
    /\ \/ stream' = stream \cup {[hash |-> t, amount |-> Amount[t], source |-> "realtime"] :
                                  t \in {u \in Mined : blockOf[u] = b}}
       \/ UNCHANGED stream
    /\ UNCHANGED <<mode, poll, balanceCache>>
=============================================================================
