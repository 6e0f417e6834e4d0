---------------------------- MODULE DepositSystem ----------------------------
(***************************************************************************)
(* The way of a transfer to a confirmed row: chain, detectors, stream,     *)
(* persistence and confirmation tracker.                                   *)
(***************************************************************************)
EXTENDS DepositRecords

CONSTANTS
    MaxFails,       \* bound: failed, slow or outdated polls, failed or second checks, ended cache
                    \* entries, entries skipped or not acknowledged
    MaxFlushes,     \* bound: flushes of the forwarder, by monitoring mode
    MaxOrphans      \* bound: transfers orphaned, by monitoring mode

ASSUME SystemAssumption == MaxFails \in Nat /\ {MaxFlushes, MaxOrphans} \subseteq [Modes -> Nat]

VARIABLES
    arrived,    \* history: what all mined transfers pay
    polled,     \* history: what the polls have published
    seen,       \* history: transfers in a balance that a poll has written to the cache
    repeated,   \* history: the cached balance ended, or a poll overlapped another
    missed,     \* history: an increase was lost, skipped, or hidden by a flush or a reorganisation
    retold,     \* history: checks of a transfer that may be repeated
    fails       \* how often something failed

history == <<arrived, polled, seen, repeated, missed, retold, fails>>
vars == <<eth, detectors, records, history>>

Init ==
    /\ ChainInit /\ DetectionInit /\ RecordsInit
    /\ arrived = 0 /\ polled = 0 /\ seen = {}
    /\ repeated = FALSE /\ missed = FALSE
    /\ retold = [t \in Transfer |-> 0] /\ fails = 0

\* the polls still compare with a balance from before a flush
FlushUnseen ==
    \/ balanceCache # NoEntry /\ balanceCache > Balance
    \/ \E p \in Poll : poll[p] # Idle /\ poll[p].balance > Balance

Mining ==
    /\ MineOther /\ Announce
    /\ UNCHANGED <<records, history>>

Chain ==
    /\ \/ \E t \in Transfer :
            /\ MineTransfer(t) /\ Announce
            /\ arrived' = arrived + Amount[t]
            /\ missed' = (missed \/ FlushUnseen)
            /\ UNCHANGED retold
       \/ /\ Cardinality(flushes) < MaxFlushes[mode]
          /\ MineFlush /\ Announce
          /\ missed' = (missed \/ Held \ seen # {})
          /\ UNCHANGED <<arrived, retold>>
       \/ \E t \in Transfer :
            /\ orphans < MaxOrphans[mode]
            /\ Orphan(t)
            /\ missed' = TRUE
            /\ retold' = [retold EXCEPT ![t] = @ + 1]
            /\ UNCHANGED <<detectors, arrived>>
    /\ UNCHANGED <<records, polled, seen, repeated, fails>>

\* an entry with this hash inserts no row
Known(h) == deposit[h] # NoRow \/ \E m \in stream : m.hash = h

Fails == fails < MaxFails /\ fails' = fails + 1

Polling(p) ==
    /\ \/ /\ ReadBalances(p)
          /\ repeated' = (repeated \/ \E q \in Poll : poll[q] # Idle)
          /\ UNCHANGED <<polled, seen, missed, fails>>
       \/ /\ WriteCache(p)
          /\ seen' = IF poll[p].balance = Balance THEN seen \cup Held ELSE seen
          /\ UNCHANGED <<polled, repeated, missed, fails>>
       \/ /\ ReadCaches(p)
          /\ IF poll'[p].block = head THEN UNCHANGED fails ELSE Fails
          /\ UNCHANGED <<polled, seen, repeated, missed>>
       \/ /\ PublishIncrease(p)
          /\ polled' = polled + Increase(p)
          /\ missed' = (missed \/ \A m \in stream' \ stream : Known(m.hash))
          /\ UNCHANGED <<seen, repeated, fails>>
    /\ UNCHANGED <<eth, records, arrived, retold>>

PollTrouble(p) ==
    /\ Fails
    /\ \/ TimesOut(p) /\ UNCHANGED missed
       \/ PollFails(p) /\ missed' = (missed \/ poll[p].pc = "publish")
    /\ UNCHANGED <<eth, records, arrived, polled, seen, repeated, retold>>

Expiry ==
    /\ Fails
    /\ BalanceExpires
    /\ repeated' = (repeated \/ balanceCache # 0)
    /\ UNCHANGED <<eth, records, arrived, polled, seen, missed, retold>>

Subscription ==
    /\ \E b \in Block : ProcessBlock(b)
    /\ UNCHANGED <<eth, records, history>>

Persistence ==
    /\ \E m \in stream :
        \/ HandleEntry(m, TRUE) /\ UNCHANGED <<missed, fails>>
        \/ HandleEntry(m, FALSE) /\ Fails /\ UNCHANGED missed
        \/ SkipEntry(m) /\ Fails /\ missed' = TRUE
    /\ UNCHANGED <<eth, arrived, polled, seen, repeated, retold>>

Overlaps(c, t) == \E d \in Track \ {c} : track[d] # NoTrack /\ track[d].t = t

tracking == <<eth, detectors, arrived, polled, seen, repeated, missed>>

StartCheck(c, t) ==
    /\ LoadDeposit(c, t)
    /\ IF Overlaps(c, t)
       THEN Fails /\ retold' = [retold EXCEPT ![t] = @ + 1]
       ELSE UNCHANGED <<retold, fails>>
    /\ UNCHANGED tracking

GoOn(c) ==
    /\ ReadReceipt(c) \/ UpdateDeposit(c)
    /\ UNCHANGED <<tracking, retold, fails>>

CheckTrouble(c) ==
    /\ TrackFails(c) \/ PublishFails(c)
    /\ Fails
    /\ retold' = [retold EXCEPT ![track[c].t] = @ + 1]
    /\ UNCHANGED tracking

Next ==
    \/ Mining
    \/ Chain
    \/ \E p \in Poll : Polling(p) \/ PollTrouble(p)
    \/ Expiry
    \/ Subscription
    \/ Persistence
    \/ \E c \in Track : (\E t \in Transfer : StartCheck(c, t)) \/ GoOn(c) \/ CheckTrouble(c)

\* blocks go on, a cycle looks at every open row, and the calls a check has begun
\* return
Fairness ==
    /\ WF_vars(Mining)
    /\ \A t \in Transfer : SF_vars(\E c \in Track : StartCheck(c, t))
    /\ \A c \in Track : WF_vars(GoOn(c))

Spec == Init /\ [][Next]_vars /\ Fairness

-----------------------------------------------------------------------------
\* Polls, rows and stream entries have the form the code gives them: a row has a
\* positive amount, a poll never reads more than all transfers pay.
TypeOK ==
    /\ head \in 0 .. MaxBlock
    /\ blockOf \in [Transfer -> 0 .. MaxBlock]
    /\ flushes \subseteq Block /\ announced \subseteq Block
    /\ balanceCache \in Nat \cup {NoEntry}
    /\ stream \subseteq Message
    /\ \A h \in Hash : deposit[h] = NoRow \/ deposit[h].amount > 0
    /\ \A p \in Poll : poll[p] # Idle => poll[p].balance <= Total(Transfer)

Credited == SumFunction([h \in Hash |-> deposit[h].amount])

\* What the polls publish is what arrived, never more, unless the cached
\* balance had ended or a poll overlapped another (polling-detector writes
\* the cache before it publishes).  Realtime rows come on top of it.
PolledOnce == ~repeated => polled <= arrived

\* When the polls alone watch an address and have caught up, everything
\* that arrived is in a row, unless a failed poll, a flush between two polls, a
\* reorganisation or a hash that was already taken hid it, or the handler skipped
\* its entry because it found no row of the address or the token.
AllAccountedFor ==
    /\ mode = "polling" /\ ~missed
    /\ balanceCache = Balance /\ stream = {}
    /\ \A p \in Poll : poll[p] = Idle
    => Credited >= arrived

\* The count of a row made by the realtime detector never runs ahead of its
\* events: each milestone up to the count, and the final status, were published,
\* although checks overlap, stop half way and follow reorganisations.
MilestonesTold ==
    \A t \in Transfer : deposit[t].source = "realtime" =>
        /\ \A m \in Milestones : m <= deposit[t].confirmations => told[t][Milestone(m)] > 0
        /\ deposit[t].status \in {"confirmed", "reverted"} => told[t][Final(deposit[t].status)] > 0

\* confirmation-tracker: an event is published once, and once more only for
\* a check that failed, overlapped another or followed a reorganisation.
ToldOnce ==
    \A t \in Transfer : \A e \in Event : told[t][e] <= 1 + retold[t]

RowStatus == [h \in Hash |-> deposit[h].status]
CheckedRows == [c \in Track |-> IF track[c] = NoTrack THEN {} ELSE {track[c].t}]

\* Persistence and tracker keep what DepositRow promises of a row, with entries that
\* are delivered again and checks that overlap; there is no sweep here.
Promise == INSTANCE DepositRow WITH
    Deposit <- Hash, Check <- Track, Sweeper <- {},
    status <- RowStatus, checked <- CheckedRows, selected <- [s \in {} |-> {}]
RowsAsPromised == Promise!Spec

\* A row the realtime detector made is eventually final, as blocks are mined.
RealtimeIsFinal ==
    \A t \in Transfer :
        deposit[t].source = "realtime" /\ blockOf[t] <= MaxBlock - Required
            ~> deposit[t].status \in {"confirmed", "reverted"} \/ blockOf[t] > MaxBlock - Required
=============================================================================
