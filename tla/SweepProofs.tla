----------------------------- MODULE SweepProofs -----------------------------
(***************************************************************************)
(* Proofs about the way of deposits to the hot wallet, for every set of    *)
(* deposits, tokens, checks, runs of the sweep and of the reconciler, and  *)
(* every number of transactions.                                           *)
(***************************************************************************)
EXTENDS SweepSystem, TLAPS

-----------------------------------------------------------------------------
(* The invariants *)

Transaction == [kind : {"deploy", "flush"}, call : SUBSET Tokens, rows : SUBSET Deposit,
                state : TxState]
ACheck == [pc : {"write"}, d : Deposit, status : {"confirming", "confirmed", "reverted"}]
ADeploy == [pc : {"idle", "submit", "mark", "balance", "reconcile"}, tx : Nat]
ASweep == [pc : SweepPc, rows : SUBSET Deposit, todo : SUBSET SUBSET Tokens,
           call : SUBSET Tokens, tx : Nat]
ARecon == [pc : ReconPc, tx : Nat, outcome : Outcomes, rows : SUBSET Deposit,
           emptied : SUBSET Tokens]

TablesTyping ==
    /\ status \in [Deposit -> Statuses]
    /\ sweepTxHash \in [Deposit -> Nat]
    /\ isDeployed \in BOOLEAN
    /\ gasTx \in [1..MaxTxs -> {"none", "submitted", "confirmed", "failed"}]

ChainTyping ==
    /\ place \in [Deposit -> Places]
    /\ txs \in Seq(Transaction)

JobsTyping ==
    /\ check \in [Check -> {NoCheck} \cup ACheck]
    /\ deploy \in [Deployer -> ADeploy]
    /\ lock \in Sweeper \cup {Nobody}
    /\ sweep \in [Sweeper -> ASweep]
    /\ recon \in [Reconciler -> ARecon]

\* whatever names a transaction names one that was sent
Known ==
    /\ Len(txs) <= MaxTxs
    /\ \A d \in Deposit : sweepTxHash[d] <= Len(txs)
    /\ \A q \in Deployer : deploy[q].tx <= Len(txs)
    /\ \A s \in Sweeper : sweep[s].tx <= Len(txs)
    /\ \A r \in Reconciler : recon[r].tx <= Len(txs)

Typing == TablesTyping /\ ChainTyping /\ JobsTyping /\ Known

\* nothing is known of a transfer before it arrives
ArrivedFirst ==
    /\ \A d \in Deposit : status[d] # "none" => place[d] # "sender"
    /\ \A c \in Check : check[c] # NoCheck => place[check[c].d] # "sender"
    /\ \A s \in Sweeper : \A d \in sweep[s].rows : place[d] # "sender"

\* the log has flushes alone
LoggedIsFlush ==
    /\ \A s \in Sweeper : SweepAt(s, "log") =>
        sweep[s].tx \in DOMAIN txs /\ txs[sweep[s].tx].kind = "flush"
    /\ \A h \in 1..MaxTxs : gasTx[h] # "none" => h \in DOMAIN txs /\ txs[h].kind = "flush"

\* the receipt that is carried over is that of a flush and stays
ReceiptStays ==
    \A r \in Reconciler : recon[r].pc # "idle" =>
        /\ recon[r].tx \in DOMAIN txs /\ txs[recon[r].tx].kind = "flush"
        /\ recon[r].outcome # "none" => txs[recon[r].tx].state = recon[r].outcome
        /\ recon[r].pc = "fail" => recon[r].outcome = "reverted"
        /\ recon[r].pc \in {"pending", "balances", "cascade", "orphans"} =>
             recon[r].outcome = "success"

\* what the reconciler is about to mark swept has moved, and does not come back
EmptiedHasMoved ==
    \A r \in Reconciler : \A d \in recon[r].rows :
        /\ place[d] # "sender"
        /\ recon[r].pc = "cascade" /\ TokenOf[d] \in recon[r].emptied => place[d] = "wallet"

SweepInv == Typing /\ ArrivedFirst /\ LoggedIsFlush /\ ReceiptStays /\ EmptiedHasMoved

\* deposits a transaction was sent for
Flushed == UNION {txs[i].rows : i \in DOMAIN txs}

LockHeld == \A s \in Sweeper : ~SweepAt(s, "idle") => lock = s

\* a deposit a transaction was sent for has its hash, or soon will
FlushedIsMarked ==
    \A d \in Flushed :
        \/ sweepTxHash[d] # 0
        \/ \E s \in Sweeper : sweep[s].pc \in {"log", "mark"} /\ d \in RowsOf(s, sweep[s].call)

\* a run e of the sweep has no two calls for one token, and no transaction was sent
\* for the deposits of a call that is still to be sent
Apart(e) ==
    /\ e.pc \in {"submit", "log", "mark", "publish"} =>
        \A T, U \in e.todo : T # U => T \cap U = {}
    /\ e.pc = "inspect" => e.rows \cap Flushed = {}
    /\ e.pc = "submit" => \A T \in e.todo : OfTokens(e.rows, T) \cap Flushed = {}
    /\ e.pc \in {"log", "mark", "publish"} =>
        /\ e.call \in e.todo
        /\ \A T \in e.todo \ {e.call} : OfTokens(e.rows, T) \cap Flushed = {}
    /\ e.pc \in {"log", "mark"} => e.tx # 0

DeployHasSent ==
    \A q \in Deployer : deploy[q].pc \in {"mark", "balance", "reconcile"} => deploy[q].tx # 0

FlushInv ==
    /\ LockHeld /\ FlushedIsMarked /\ \A s \in Sweeper : Apart(sweep[s])
    /\ DeployHasSent /\ OneFlushPerDeposit

-----------------------------------------------------------------------------
(* The chain and the tables *)

\* what is sent stays, and so does the receipt of a flush
Extends ==
    /\ Len(txs) <= Len(txs')
    /\ \A i \in DOMAIN txs :
        /\ i \in DOMAIN txs'
        /\ txs'[i].kind = txs[i].kind /\ txs'[i].rows = txs[i].rows
        /\ txs[i].kind = "flush" /\ Mined(i) => txs'[i] = txs[i]

\* A transaction that is sent comes after those that were.
LEMMA SendExtends ==
    ASSUME ChainTyping, NEW t \in Transaction, Send(t)
    PROVE  /\ txs' \in Seq(Transaction) /\ Extends
           /\ Len(txs') = Len(txs) + 1 /\ Len(txs') <= MaxTxs
           /\ DOMAIN txs' = DOMAIN txs \cup {Len(txs) + 1}
           /\ \A i \in DOMAIN txs : txs'[i] = txs[i]
           /\ txs'[Len(txs) + 1] = t
  <1>1. txs \in Seq(Transaction) /\ Len(txs) \in Nat /\ DOMAIN txs = 1..Len(txs)
    BY DEF ChainTyping
  <1>2. Len(txs) < MaxTxs /\ txs' = Append(txs, t)
    BY DEF Send
  <1>3. /\ txs' \in Seq(Transaction) /\ Len(txs') = Len(txs) + 1
        /\ \A i \in DOMAIN txs : txs'[i] = txs[i]
        /\ txs'[Len(txs) + 1] = t
    BY <1>1, <1>2
  <1>4. DOMAIN txs' = DOMAIN txs \cup {Len(txs) + 1}
    BY <1>1, <1>3
  <1>5. Len(txs') <= MaxTxs
    BY <1>1, <1>2, <1>3, DepositAssumption
  <1>6. Extends
    BY <1>1, <1>3, <1>4 DEF Extends
  <1> QED BY <1>3, <1>4, <1>5, <1>6

\* A transaction that is settled differs in its state alone.
LEMMA SettleForm ==
    ASSUME ChainTyping, NEW i \in DOMAIN txs, NEW s \in TxState, Settle(i, s)
    PROVE  /\ txs' \in Seq(Transaction) /\ Len(txs') = Len(txs) /\ DOMAIN txs' = DOMAIN txs
           /\ \A j \in DOMAIN txs : j # i => txs'[j] = txs[j]
           /\ txs'[i].kind = txs[i].kind /\ txs'[i].rows = txs[i].rows
           /\ ~ (txs[i].kind = "flush" /\ Mined(i)) => Extends
  <1> DEFINE t == [txs[i] EXCEPT !.state = s]
  <1>1. txs \in Seq(Transaction) /\ Len(txs) \in Nat /\ i \in 1..Len(txs)
    BY DEF ChainTyping
  <1>2. txs[i] \in Transaction
    BY <1>1
  <1>3. t \in Transaction /\ t.kind = txs[i].kind /\ t.rows = txs[i].rows
    BY <1>2 DEF Transaction
  <1>4. txs' = [txs EXCEPT ![i] = t]
    BY DEF Settle
  <1> HIDE DEF t
  <1>5. /\ txs' \in Seq(Transaction) /\ Len(txs') = Len(txs) /\ DOMAIN txs' = DOMAIN txs
        /\ txs'[i] = t /\ \A j \in DOMAIN txs : j # i => txs'[j] = txs[j]
    BY <1>1, <1>3, <1>4
  <1>6. ~ (txs[i].kind = "flush" /\ Mined(i)) => Extends
    BY <1>1, <1>3, <1>5 DEF Extends
  <1> QED BY <1>3, <1>5, <1>6

\* an update of some rows
LEMMA StatusUpdate ==
    ASSUME TablesTyping, NEW D, NEW s \in Statuses, SetStatus(D, s)
    PROVE  /\ status' \in [Deposit -> Statuses]
           /\ \A d \in Deposit : status'[d] = IF d \in D THEN s ELSE status[d]
  BY DEF TablesTyping, SetStatus

\* an update of the hashes of some rows
LEMMA HashUpdate ==
    ASSUME TablesTyping, NEW D, NEW h \in Nat, SetHash(D, h)
    PROVE  /\ sweepTxHash' \in [Deposit -> Nat]
           /\ \A d \in Deposit : sweepTxHash'[d] = IF d \in D THEN h ELSE sweepTxHash[d]
  BY DEF TablesTyping, SetHash

-----------------------------------------------------------------------------
(* Steps *)

\* A receipt that was read stays that of its transaction.
LEMMA ReceiptLasts ==
    ASSUME Typing, ReceiptStays, Extends, UNCHANGED recon
    PROVE  ReceiptStays'
  <1> SUFFICES ASSUME NEW r \in Reconciler, recon[r].pc # "idle"
               PROVE  /\ recon[r].tx \in DOMAIN txs' /\ txs'[recon[r].tx].kind = "flush"
                      /\ recon[r].outcome # "none" => txs'[recon[r].tx].state = recon[r].outcome
                      /\ recon[r].pc = "fail" => recon[r].outcome = "reverted"
                      /\ recon[r].pc \in {"pending", "balances", "cascade", "orphans"} =>
                           recon[r].outcome = "success"
    BY DEF ReceiptStays
  <1>1. recon[r].outcome \in {"success", "reverted", "none"}
    BY DEF Typing, JobsTyping, ARecon, Outcomes
  <1>2. recon[r].outcome # "none" => Mined(recon[r].tx)
    BY <1>1 DEF ReceiptStays, Mined
  <1> QED BY <1>2 DEF ReceiptStays, Extends

\* Funds go on, and a flush that was mined stays mined.
LEMMA SettledKeepsInv ==
    ASSUME SweepInv, UNCHANGED <<tables, check, deploy, lock, sweep, recon>>,
           ChainTyping', Len(txs') = Len(txs), Extends,
           \A d \in Deposit : place[d] # "sender" => place'[d] # "sender",
           \/ \A d \in Deposit : place[d] = "wallet" => place'[d] = "wallet"
           \/ \A i \in DOMAIN txs : txs[i].kind = "flush" => ~Mined(i)
    PROVE  SweepInv'
  <1>1. Typing'
    BY DEF SweepInv, Typing, TablesTyping, JobsTyping, Known, tables
  <1>2. ArrivedFirst'
    <2>1. \A c \in Check : check[c] # NoCheck => check[c].d \in Deposit
      BY DEF SweepInv, Typing, JobsTyping, ACheck
    <2>2. \A s \in Sweeper : sweep[s].rows \subseteq Deposit
      BY DEF SweepInv, Typing, JobsTyping, ASweep
    <2> QED BY <2>1, <2>2 DEF SweepInv, ArrivedFirst, tables
  <1>3. LoggedIsFlush'
    BY DEF SweepInv, LoggedIsFlush, Extends, SweepAt, tables
  <1>4. ReceiptStays'
    BY ReceiptLasts DEF SweepInv
  <1>5. EmptiedHasMoved'
    <2> SUFFICES ASSUME NEW r \in Reconciler, NEW d \in recon[r].rows
                 PROVE  /\ place'[d] # "sender"
                        /\ recon[r].pc = "cascade" /\ TokenOf[d] \in recon[r].emptied
                           => place'[d] = "wallet"
      BY DEF EmptiedHasMoved
    <2>1. d \in Deposit
      BY DEF SweepInv, Typing, JobsTyping, ARecon
    <2>2. recon[r].pc = "cascade" =>
            recon[r].tx \in DOMAIN txs /\ txs[recon[r].tx].kind = "flush" /\ Mined(recon[r].tx)
      BY DEF SweepInv, ReceiptStays, Mined
    <2> QED BY <2>1, <2>2 DEF SweepInv, EmptiedHasMoved
  <1> QED BY <1>1, <1>2, <1>3, <1>4, <1>5 DEF SweepInv

\* Transfers, blocks and orphaned deployments.
LEMMA ChainKeepsInv ==
    ASSUME SweepInv, ChainNext, UNCHANGED <<check, deploy, lock, sweep, recon>>
    PROVE  SweepInv'
  <1>1. ChainTyping /\ UNCHANGED tables
    BY DEF SweepInv, Typing, ChainNext
  <1>2. ASSUME NEW d \in Deposit, Transfer(d)
        PROVE  SweepInv'
    <2>1. txs' = txs /\ place[d] = "sender"
          /\ \E p \in {"wallet", "forwarder"} : place' = [place EXCEPT ![d] = p]
      BY <1>2 DEF Transfer
    <2>2. ChainTyping' /\ Len(txs') = Len(txs) /\ Extends
      BY <1>1, <2>1 DEF ChainTyping, Places, Extends
    <2>3. \A e \in Deposit : (place[e] # "sender" => place'[e] # "sender")
                              /\ (place[e] = "wallet" => place'[e] = "wallet")
      BY <1>1, <2>1 DEF ChainTyping
    <2> QED BY <1>1, <2>2, <2>3, SettledKeepsInv
  <1>3. ASSUME NEW T, UNCHANGED place \/ Flush(T)
        PROVE  /\ place' \in [Deposit -> Places]
               /\ \A e \in Deposit : (place[e] # "sender" => place'[e] # "sender")
                                      /\ (place[e] = "wallet" => place'[e] = "wallet")
    BY <1>1, <1>3 DEF Flush, ChainTyping, Places
  <1>4. ASSUME NEW i \in DOMAIN txs, MineDeploy(i) \/ MineFlush(i) \/ Lose(i)
        PROVE  SweepInv'
    <2>1. PICK s \in TxState : Settle(i, s)
      BY <1>4 DEF MineDeploy, MineFlush, Lose, TxState
    <2>2. ~Mined(i)
      BY <1>4 DEF MineDeploy, MineFlush, Lose, Mined
    <2>3. \E T : UNCHANGED place \/ Flush(T)
      BY <1>4 DEF MineDeploy, MineFlush, Lose
    <2>4. ChainTyping' /\ Len(txs') = Len(txs) /\ Extends
      BY <1>1, <1>3, <2>1, <2>2, <2>3, SettleForm DEF ChainTyping
    <2> QED BY <1>1, <1>3, <2>3, <2>4, SettledKeepsInv
  <1>5. ASSUME NEW i \in DOMAIN txs, Undeploy(i)
        PROVE  SweepInv'
    <2>1. /\ Settle(i, "pending") /\ "pending" \in TxState /\ txs[i].kind # "flush"
          /\ \A j \in DOMAIN txs : txs[j].kind = "flush" => ~Mined(j)
      BY <1>5 DEF Undeploy, TxState
    <2>2. /\ place' \in [Deposit -> Places]
          /\ \A e \in Deposit : place[e] # "sender" => place'[e] # "sender"
      BY <1>1, <1>5 DEF Undeploy, ChainTyping, Places
    <2>3. ChainTyping' /\ Len(txs') = Len(txs) /\ Extends
      BY <1>1, <2>1, <2>2, SettleForm DEF ChainTyping
    <2> QED BY <1>1, <2>1, <2>2, <2>3, SettledKeepsInv
  <1> QED BY <1>2, <1>4, <1>5 DEF ChainNext, MineNext

\* New rows, and checks.
LEMMA TrackerKeepsInv ==
    ASSUME SweepInv, TrackerNext, UNCHANGED <<deploy, lock, sweep, recon>>
    PROVE  SweepInv'
  <1>1. UNCHANGED <<sweepTxHash, isDeployed, gasTx, chain>>
    BY DEF TrackerNext, Persist, Track, ReadConfirmations, WriteConfirmations, CheckFails, tables
  <1>2. ASSUME status' \in [Deposit -> Statuses],
               \A d \in Deposit : status'[d] # "none" => place[d] # "sender",
               check' \in [Check -> {NoCheck} \cup ACheck],
               \A c \in Check : check'[c] # NoCheck => place[check'[c].d] # "sender"
        PROVE  SweepInv'
    <2>1. Typing'
      BY <1>1, <1>2 DEF SweepInv, Typing, TablesTyping, ChainTyping, JobsTyping, Known, chain
    <2>2. ArrivedFirst'
      BY <1>1, <1>2 DEF SweepInv, ArrivedFirst, chain
    <2>3. LoggedIsFlush' /\ ReceiptStays' /\ EmptiedHasMoved'
      BY <1>1 DEF SweepInv, LoggedIsFlush, ReceiptStays, EmptiedHasMoved, SweepAt, chain
    <2> QED BY <2>1, <2>2, <2>3 DEF SweepInv
  <1>3. /\ TablesTyping /\ check \in [Check -> {NoCheck} \cup ACheck]
        /\ \A d \in Deposit : status[d] # "none" => place[d] # "sender"
        /\ \A c \in Check : check[c] # NoCheck => place[check[c].d] # "sender"
    BY DEF SweepInv, Typing, JobsTyping, ArrivedFirst
  <1>4. ASSUME NEW d \in Deposit, Persist(d)
        PROVE  SweepInv'
    <2>1. PICK s \in {"pending", "confirmed"} : SetStatus({d}, s)
      BY <1>4 DEF Persist
    <2>2. /\ status' \in [Deposit -> Statuses]
          /\ \A e \in Deposit : status'[e] = IF e \in {d} THEN s ELSE status[e]
      <3>1. s \in Statuses
        BY DEF Statuses
      <3> QED BY <1>3, <2>1, <3>1, StatusUpdate
    <2> QED BY <1>2, <1>3, <1>4, <2>2 DEF Persist
  <1>5. ASSUME NEW c \in Check, NEW d \in Deposit, ReadConfirmations(c, d)
        PROVE  SweepInv'
    <2>1. PICK s \in {"confirming", "confirmed", "reverted"} :
            check' = [check EXCEPT ![c] = [pc |-> "write", d |-> d, status |-> s]]
      BY <1>5 DEF ReadConfirmations
    <2> DEFINE e == [pc |-> "write", d |-> d, status |-> s]
    <2>2. e \in ACheck /\ e.d = d
      BY DEF ACheck
    <2> HIDE DEF e
    <2>3. check' = [check EXCEPT ![c] = e]
      BY <2>1 DEF e
    <2>4. UNCHANGED status /\ place[d] # "sender"
      BY <1>3, <1>5 DEF ReadConfirmations, tables
    <2>5. status \in [Deposit -> Statuses]
      BY <1>3 DEF TablesTyping
    <2> QED BY <1>2, <1>3, <2>2, <2>3, <2>4, <2>5
  <1>6. ASSUME NEW c \in Check, WriteConfirmations(c) \/ CheckFails(c)
        PROVE  SweepInv'
    <2>1. check[c] # NoCheck /\ check' = [check EXCEPT ![c] = NoCheck]
      BY <1>6 DEF WriteConfirmations, CheckFails, EndCheck
    <2>2. check[c] \in ACheck /\ place[check[c].d] # "sender"
      BY <1>3, <2>1
    <2>3. /\ status' \in [Deposit -> Statuses]
          /\ \A d \in Deposit : status'[d] # "none" => place[d] # "sender"
      <3>1. CASE WriteConfirmations(c)
        <4>1. check[c].status \in Statuses
          BY <2>2 DEF ACheck, Statuses
        <4>2. /\ status' \in [Deposit -> Statuses]
              /\ \A d \in Deposit : status'[d] = IF d \in {check[c].d} THEN check[c].status
                                                 ELSE status[d]
          BY <1>3, <3>1, <4>1, StatusUpdate DEF WriteConfirmations
        <4> QED BY <1>3, <2>2, <4>2
      <3>2. CASE CheckFails(c)
        BY <1>3, <3>2 DEF CheckFails, TablesTyping, tables
      <3> QED BY <1>6, <3>1, <3>2
    <2> QED BY <1>2, <1>3, <2>1, <2>3
  <1> QED BY <1>4, <1>5, <1>6 DEF TrackerNext, Track

\* The deployment sends transactions of its own and settles the coin.
LEMMA DeployKeepsInv ==
    ASSUME SweepInv, DeployNext, UNCHANGED <<check, lock, sweep, recon>>
    PROVE  SweepInv'
  <1>1. TablesTyping /\ ChainTyping /\ JobsTyping /\ Known /\ Len(txs) \in Nat
    BY DEF SweepInv, Typing, ChainTyping
  <1>10. PICK q \in Deployer : Deploy(q) \/ DeployFails(q)
    BY DEF DeployNext
  <1>11. deploy[q] \in ADeploy
    BY <1>1 DEF JobsTyping
  <1>2. gasTx' = gasTx /\ place' = place
    BY <1>10 DEF Deploy, FindUndeployed, SubmitDeploy, MarkDeployed, ReadCoinBalance,
           ReconcileDeploy, DeployFails, tables, chain
  <1>3. ASSUME txs' \in Seq(Transaction), Extends, Len(txs') <= MaxTxs,
               status' \in [Deposit -> Statuses], sweepTxHash' \in [Deposit -> Nat],
               isDeployed' \in BOOLEAN,
               \A d \in Deposit : status'[d] # "none" => status[d] # "none",
               \A d \in Deposit : sweepTxHash'[d] <= Len(txs'),
               NEW e \in ADeploy, e.tx <= Len(txs'), deploy' = [deploy EXCEPT ![q] = e]
        PROVE  SweepInv'
    <2>1. Len(txs') \in Nat
      BY <1>3
    <2>8. /\ deploy' \in [Deployer -> ADeploy]
          /\ \A r \in Deployer : deploy'[r].tx <= Len(txs')
      <3>1. \A r \in Deployer : deploy[r].tx \in Nat
        BY <1>1 DEF JobsTyping, ADeploy
      <3> QED BY <1>1, <1>3, <2>1, <3>1 DEF JobsTyping, Known, Extends
    <2>2. Known'
      <3>1. \A s \in Sweeper : sweep[s].tx \in Nat
        BY <1>1 DEF JobsTyping, ASweep
      <3>2. \A r \in Reconciler : recon[r].tx \in Nat
        BY <1>1 DEF JobsTyping, ARecon
      <3> QED BY <1>1, <1>3, <2>1, <2>8, <3>1, <3>2 DEF Known, Extends
    <2>3. Typing'
      BY <1>1, <1>2, <1>3, <2>2, <2>8 DEF Typing, TablesTyping, ChainTyping, JobsTyping
    <2>4. ArrivedFirst'
      BY <1>2, <1>3 DEF SweepInv, ArrivedFirst
    <2>5. LoggedIsFlush'
      BY <1>2, <1>3 DEF SweepInv, LoggedIsFlush, Extends, SweepAt
    <2>6. ReceiptStays'
      BY <1>3, ReceiptLasts DEF SweepInv
    <2>7. EmptiedHasMoved'
      BY <1>2 DEF SweepInv, EmptiedHasMoved
    <2> QED BY <2>3, <2>4, <2>5, <2>6, <2>7 DEF SweepInv
  <1>4. UNCHANGED txs => Extends /\ txs' \in Seq(Transaction) /\ Len(txs') <= MaxTxs
    BY <1>1 DEF Extends, ChainTyping, Known
  <1>5. /\ status \in [Deposit -> Statuses] /\ sweepTxHash \in [Deposit -> Nat]
        /\ \A d \in Deposit : sweepTxHash[d] <= Len(txs)
    BY <1>1 DEF TablesTyping, Known
  <1>6. DeployIdle \in ADeploy /\ DeployIdle.tx = 0
    BY DEF DeployIdle, ADeploy
  <1>7. CASE SubmitDeploy(q)
    <2> DEFINE t == [kind |-> "deploy", call |-> {}, rows |-> {}, state |-> "pending"]
               e == [pc |-> "mark", tx |-> Len(txs) + 1]
    <2>1. t \in Transaction
      BY DEF Transaction, TxState
    <2>2. Send(t) /\ deploy' = [deploy EXCEPT ![q] = e] /\ UNCHANGED tables
      BY <1>7 DEF SubmitDeploy, DeployStep
    <2> HIDE DEF t
    <2>3. /\ txs' \in Seq(Transaction) /\ Extends
          /\ Len(txs') = Len(txs) + 1 /\ Len(txs') <= MaxTxs
      BY <1>1, <2>1, <2>2, SendExtends
    <2>4. e \in ADeploy /\ e.tx <= Len(txs')
      BY <1>1, <2>3 DEF ADeploy
    <2>5. isDeployed' \in BOOLEAN
      BY <1>1, <2>2 DEF TablesTyping, tables
    <2>6. \A d \in Deposit : sweepTxHash'[d] <= Len(txs')
      BY <1>1, <1>5, <2>2, <2>3 DEF tables
    <2> HIDE DEF e
    <2> QED BY <1>3, <1>5, <2>2, <2>3, <2>4, <2>5, <2>6 DEF tables
  <1>8. CASE ReconcileDeploy(q)
    <2>1. PICK D : /\ SetStatus(D, "swept") /\ SetHash(D, deploy[q].tx)
                   /\ \A d \in D : status[d] \in Unswept
      BY <1>8 DEF ReconcileDeploy
    <2>2. deploy[q].tx \in Nat /\ deploy[q].tx <= Len(txs)
      BY <1>1, <1>11 DEF ADeploy, Known
    <2>3. /\ status' \in [Deposit -> Statuses]
          /\ \A d \in Deposit : status'[d] = IF d \in D THEN "swept" ELSE status[d]
      <3>1. "swept" \in Statuses
        BY DEF Statuses
      <3> QED BY <1>1, <2>1, <3>1, StatusUpdate
    <2>4. /\ sweepTxHash' \in [Deposit -> Nat]
          /\ \A d \in Deposit : sweepTxHash'[d] = IF d \in D THEN deploy[q].tx ELSE sweepTxHash[d]
      BY <1>1, <2>1, <2>2, HashUpdate
    <2>5. UNCHANGED <<isDeployed, txs>> /\ deploy' = [deploy EXCEPT ![q] = DeployIdle]
      BY <1>8 DEF ReconcileDeploy, DeployStep, chain
    <2>6. \A d \in Deposit : status'[d] # "none" => status[d] # "none"
      BY <2>1, <2>3 DEF Unswept
    <2>7. isDeployed' \in BOOLEAN
      BY <1>1, <2>5 DEF TablesTyping
    <2>8. \A d \in Deposit : sweepTxHash'[d] <= Len(txs')
      BY <1>5, <2>2, <2>4, <2>5
    <2>9. DeployIdle.tx <= Len(txs')
      BY <1>1, <1>6, <2>5
    <2> QED BY <2>9, <1>3, <1>4, <1>6, <2>3, <2>4, <2>5, <2>6, <2>7, <2>8
  <1>9. CASE FindUndeployed(q) \/ MarkDeployed(q) \/ ReadCoinBalance(q) \/ DeployFails(q)
    <2>1. UNCHANGED <<status, sweepTxHash, txs>>
      BY <1>9 DEF FindUndeployed, MarkDeployed, ReadCoinBalance, DeployFails, tables, chain
    <2>2. isDeployed' \in BOOLEAN
      BY <1>1, <1>9 DEF FindUndeployed, MarkDeployed, ReadCoinBalance, DeployFails, tables,
                        TablesTyping
    <2>3. PICK e \in {deploy[q], DeployIdle, [deploy[q] EXCEPT !.pc = "submit"],
                       [deploy[q] EXCEPT !.pc = "balance"], [deploy[q] EXCEPT !.pc = "reconcile"]} :
            deploy' = [deploy EXCEPT ![q] = e]
      BY <1>1, <1>9 DEF FindUndeployed, MarkDeployed, ReadCoinBalance, DeployFails, DeployGoto,
                        DeployStep, JobsTyping
    <2>4. e \in ADeploy /\ e.tx <= Len(txs')
      BY <1>1, <1>6, <1>11, <2>1, <2>3 DEF ADeploy, Known
    <2> QED BY <1>3, <1>4, <1>5, <2>1, <2>2, <2>3, <2>4
  <1> QED BY <1>7, <1>8, <1>9, <1>10 DEF Deploy

\* A run of the sweep goes on, ends, or changes rows of which it knows.
LEMMA SweeperKeepsInv ==
    ASSUME SweepInv, NEW s \in Sweeper, NEW e \in ASweep, sweep' = [sweep EXCEPT ![s] = e],
           UNCHANGED <<place, check, deploy, recon>>,
           TablesTyping', txs' \in Seq(Transaction), Extends, Len(txs') <= MaxTxs,
           lock' \in Sweeper \cup {Nobody},
           e.tx <= Len(txs'),
           \A d \in e.rows : place[d] # "sender",
           e.pc = "log" => e.tx \in DOMAIN txs' /\ txs'[e.tx].kind = "flush",
           \A d \in Deposit : status'[d] # "none" => status[d] # "none" \/ place[d] # "sender",
           \A d \in Deposit : sweepTxHash'[d] <= Len(txs'),
           \A h \in 1..MaxTxs : gasTx'[h] # "none" =>
                gasTx[h] # "none" \/ (h \in DOMAIN txs' /\ txs'[h].kind = "flush")
    PROVE  SweepInv'
  <1>1. /\ Typing /\ JobsTyping /\ Known /\ sweep \in [Sweeper -> ASweep]
        /\ Len(txs) \in Nat /\ Len(txs') \in Nat
    BY DEF SweepInv, Typing, JobsTyping, ChainTyping
  <1>2. /\ sweep' \in [Sweeper -> ASweep]
        /\ sweep'[s] = e /\ \A q \in Sweeper : q # s => sweep'[q] = sweep[q]
    BY <1>1
  <1>3. Known'
    <2>1. \A q \in Sweeper : sweep[q].tx \in Nat
      BY <1>1 DEF ASweep
    <2>2. \A r \in Reconciler : recon[r].tx \in Nat
      BY <1>1 DEF JobsTyping, ARecon
    <2>3. \A q \in Deployer : deploy[q].tx \in Nat
      BY <1>1 DEF JobsTyping, ADeploy
    <2> QED BY <1>1, <1>2, <2>1, <2>2, <2>3 DEF Known, Extends
  <1>4. Typing'
    BY <1>1, <1>2, <1>3 DEF Typing, ChainTyping, JobsTyping
  <1>5. ArrivedFirst'
    BY <1>2 DEF SweepInv, ArrivedFirst
  <1>6. LoggedIsFlush'
    BY <1>2 DEF SweepInv, LoggedIsFlush, Extends, SweepAt
  <1>7. ReceiptStays'
    BY ReceiptLasts DEF SweepInv
  <1>8. EmptiedHasMoved'
    BY DEF SweepInv, EmptiedHasMoved
  <1> QED BY <1>4, <1>5, <1>6, <1>7, <1>8 DEF SweepInv

\* The next call, or the end.
LEMMA EndCallForm ==
    ASSUME JobsTyping, NEW s \in Sweeper, NEW T, EndCall(s, T)
    PROVE  \E e \in ASweep :
              /\ sweep' = [sweep EXCEPT ![s] = e]
              /\ e.pc \in {"release", "submit"} /\ e.tx = 0 /\ e.rows \subseteq sweep[s].rows
              /\ e.todo = sweep[s].todo \ {T}
  <1> DEFINE rest == sweep[s].todo \ {T}
             f == [SweepIdle EXCEPT !.pc = "release"]
             g == [SweepIdle EXCEPT !.pc = "submit", !.rows = sweep[s].rows, !.todo = rest]
  <1>1. /\ sweep[s].rows \subseteq Deposit /\ sweep[s].todo \subseteq SUBSET Tokens
        /\ sweep' = [sweep EXCEPT ![s] = IF rest = {} THEN f ELSE g]
    BY DEF JobsTyping, ASweep, EndCall
  <1>2. f \in ASweep /\ f.pc = "release" /\ f.tx = 0 /\ f.rows = {} /\ f.todo = {}
    BY DEF SweepIdle, ASweep, SweepPc
  <1>3. /\ g \in ASweep /\ g.pc = "submit" /\ g.tx = 0 /\ g.rows = sweep[s].rows
        /\ g.todo = rest
    BY <1>1 DEF SweepIdle, ASweep, SweepPc
  <1> HIDE DEF f, g
  <1>4. CASE rest = {}
    BY <1>1, <1>2, <1>4
  <1>5. CASE rest # {}
    BY <1>1, <1>3, <1>5
  <1> QED BY <1>4, <1>5

\* Every step of a run of the sweep.
LEMMA SweepKeepsInv ==
    ASSUME SweepInv, SweepNext, UNCHANGED <<check, deploy, recon>>
    PROVE  SweepInv'
  <1>1. /\ Typing /\ TablesTyping /\ ChainTyping /\ JobsTyping /\ Known
        /\ sweep \in [Sweeper -> ASweep] /\ Len(txs) \in Nat
        /\ status \in [Deposit -> Statuses]
        /\ \A d \in Deposit : sweepTxHash[d] <= Len(txs)
        /\ \A d \in Deposit : status[d] # "none" => place[d] # "sender"
    BY DEF SweepInv, Typing, TablesTyping, ChainTyping, JobsTyping, Known, ArrivedFirst
  <1>2. /\ Extends \/ txs' # txs
        /\ 0 <= Len(txs)
    BY <1>1 DEF Extends, ChainTyping
  <1>3. ASSUME NEW s \in Sweeper
        PROVE  /\ sweep[s] \in ASweep /\ sweep[s].tx <= Len(txs)
               /\ \A d \in sweep[s].rows : d \in Deposit /\ place[d] # "sender"
    BY <1>1 DEF SweepInv, ArrivedFirst, Known, ASweep
  <1>4. SweepIdle \in ASweep
    BY DEF SweepIdle, ASweep, SweepPc
  <1>5. ASSUME NEW s \in Sweeper, NEW e \in ASweep, sweep' = [sweep EXCEPT ![s] = e],
               UNCHANGED <<tables, chain>>, lock' \in Sweeper \cup {Nobody},
               e.tx <= Len(txs), e.pc # "log", \A d \in e.rows : place[d] # "sender"
        PROVE  SweepInv'
    <2>1. UNCHANGED <<place, txs, status, sweepTxHash, isDeployed, gasTx>>
      BY <1>5 DEF tables, chain
    <2>2. TablesTyping' /\ txs' \in Seq(Transaction) /\ Extends /\ Len(txs') <= MaxTxs
      BY <1>1, <1>2, <2>1 DEF TablesTyping, ChainTyping, Known
    <2> QED BY <1>1, <1>5, <2>1, <2>2, SweeperKeepsInv
  <1>6. ASSUME NEW s \in Sweeper, Acquire(s) \/ ReadLock(s) \/ DeleteLock(s) \/ SweepDies(s)
        PROVE  SweepInv'
    <2> DEFINE a == [sweep[s] EXCEPT !.pc = "select"]
               b == [SweepIdle EXCEPT !.pc = "delete"]
    <2>1. /\ a \in ASweep /\ a.pc = "select" /\ a.tx = sweep[s].tx /\ a.rows = sweep[s].rows
          /\ b \in ASweep /\ b.pc = "delete" /\ b.tx = 0 /\ b.rows = {}
          /\ SweepIdle.pc = "idle" /\ SweepIdle.tx = 0 /\ SweepIdle.rows = {}
      BY <1>3 DEF SweepIdle, ASweep, SweepPc
    <2>2. lock' \in Sweeper \cup {Nobody} /\ UNCHANGED <<tables, chain>>
      BY <1>1, <1>6 DEF Acquire, ReadLock, DeleteLock, SweepDies, JobsTyping
    <2>3. \E e \in {a, b, SweepIdle} : sweep' = [sweep EXCEPT ![s] = e]
      BY <1>6 DEF Acquire, ReadLock, DeleteLock, SweepDies, SweepGoto
    <2> HIDE DEF a, b
    <2>4. \A e \in {a, b, SweepIdle} :
            /\ e \in ASweep /\ e.tx <= Len(txs) /\ e.pc # "log"
            /\ \A d \in e.rows : place[d] # "sender"
      BY <1>2, <1>3, <1>4, <2>1
    <2> QED BY <1>5, <2>2, <2>3, <2>4
  <1>7. ASSUME NEW s \in Sweeper, Select(s)
        PROVE  SweepInv'
    <2>1. PICK D \in SUBSET Selectable :
            sweep' = [sweep EXCEPT ![s].rows = D,
                                   ![s].pc = IF D = {} THEN "release" ELSE "inspect"]
      BY <1>7 DEF Select
    <2> DEFINE pc == IF D = {} THEN "release" ELSE "inspect"
               e == [sweep[s] EXCEPT !.rows = D, !.pc = pc]
    <2>2. D \subseteq Deposit /\ \A d \in D : place[d] # "sender"
      BY <1>1 DEF Selectable
    <2>3. pc \in {"release", "inspect"} /\ pc \in SweepPc
      BY DEF SweepPc
    <2>4. sweep' = [sweep EXCEPT ![s] = e]
      BY <2>1
    <2> HIDE DEF pc
    <2>5. e \in ASweep /\ e.pc = pc /\ e.rows = D /\ e.tx = sweep[s].tx
      BY <1>3, <2>2, <2>3 DEF ASweep
    <2> HIDE DEF e
    <2>6. lock' \in Sweeper \cup {Nobody} /\ UNCHANGED <<tables, chain>>
      BY <1>1, <1>7 DEF Select, JobsTyping
    <2> QED BY <1>3, <1>5, <2>2, <2>3, <2>4, <2>5, <2>6
  <1>8. ASSUME NEW s \in Sweeper, Inspect(s)
        PROVE  SweepInv'
    <2> DEFINE T == {TokenOf[d] : d \in sweep[s].rows}
               funded == {t \in T : HasBalance(t)}
               e == [sweep[s] EXCEPT !.todo = Calls(funded), !.pc = "submit"]
               f == [SweepIdle EXCEPT !.pc = "release"]
    <2>1. sweep' = [sweep EXCEPT ![s] = e] \/ sweep' = [sweep EXCEPT ![s] = f]
      BY <1>8 DEF Inspect
    <2>2. funded \subseteq Tokens
      BY <1>3 DEF Tokens
    <2> HIDE DEF funded
    <2>3. Calls(funded) \subseteq SUBSET Tokens
      BY <2>2 DEF Calls
    <2>4. /\ e \in ASweep /\ e.pc = "submit" /\ e.rows = sweep[s].rows /\ e.tx = sweep[s].tx
          /\ f \in ASweep /\ f.pc = "release" /\ f.rows = {} /\ f.tx = 0
      <3>1. sweep[s] \in ASweep /\ Calls(funded) \in SUBSET SUBSET Tokens /\ "submit" \in SweepPc
        BY <1>3, <2>3 DEF SweepPc
      <3>2. e \in ASweep /\ e.pc = "submit" /\ e.rows = sweep[s].rows /\ e.tx = sweep[s].tx
        BY <3>1 DEF ASweep
      <3>3. f \in ASweep /\ f.pc = "release" /\ f.rows = {} /\ f.tx = 0
        BY DEF ASweep, SweepIdle, SweepPc
      <3> QED BY <3>2, <3>3
    <2> HIDE DEF e, f
    <2>5. lock' \in Sweeper \cup {Nobody} /\ UNCHANGED <<tables, chain>>
      BY <1>1, <1>8 DEF Inspect, JobsTyping
    <2> QED BY <1>1, <1>3, <1>5, <2>1, <2>4, <2>5
  <1>9. ASSUME NEW s \in Sweeper, Publish(s)
        PROVE  SweepInv'
    <2>1. EndCall(s, sweep[s].call) /\ UNCHANGED <<tables, chain, lock>>
      BY <1>9 DEF Publish
    <2>2. PICK e \in ASweep :
              /\ sweep' = [sweep EXCEPT ![s] = e]
              /\ e.pc \in {"release", "submit"} /\ e.tx = 0 /\ e.rows \subseteq sweep[s].rows
      BY <1>1, <2>1, EndCallForm
    <2>3. lock' \in Sweeper \cup {Nobody}
      BY <1>1, <2>1 DEF JobsTyping
    <2> QED BY <1>2, <1>3, <1>5, <2>1, <2>2, <2>3
  <1>10. ASSUME NEW s \in Sweeper, Submit(s)
         PROVE  SweepInv'
    <2> DEFINE flush(T) == [kind |-> "flush", call |-> T, rows |-> RowsOf(s, T),
                            state |-> "pending"]
    <2>1. PICK T \in sweep[s].todo :
            /\ Send(flush(T))
            /\ sweep' = [sweep EXCEPT ![s].call = T, ![s].tx = Len(txs) + 1, ![s].pc = "log"]
      BY <1>10 DEF Submit
    <2> DEFINE e == [sweep[s] EXCEPT !.call = T, !.tx = Len(txs) + 1, !.pc = "log"]
    <2>2. T \subseteq Tokens /\ RowsOf(s, T) \subseteq Deposit
      BY <1>3 DEF ASweep, RowsOf, OfTokens
    <2>3. flush(T) \in Transaction /\ flush(T).kind = "flush"
      BY <2>2 DEF Transaction, TxState
    <2>4. sweep' = [sweep EXCEPT ![s] = e]
      BY <2>1
    <2>5. e \in ASweep /\ e.pc = "log" /\ e.rows = sweep[s].rows /\ e.tx = Len(txs) + 1
      <3>1. sweep[s] \in ASweep /\ T \in SUBSET Tokens /\ Len(txs) + 1 \in Nat /\ "log" \in SweepPc
        BY <1>1, <1>3, <2>2 DEF SweepPc
      <3> HIDE DEF flush
      <3> QED BY <3>1 DEF ASweep
    <2> HIDE DEF e, flush
    <2>6. /\ txs' \in Seq(Transaction) /\ Extends
          /\ Len(txs') = Len(txs) + 1 /\ Len(txs') <= MaxTxs
          /\ e.tx \in DOMAIN txs' /\ txs'[e.tx].kind = "flush"
      BY <1>1, <2>1, <2>3, <2>5, SendExtends
    <2>7. UNCHANGED <<place, status, sweepTxHash, isDeployed, gasTx, lock>>
      BY <1>10 DEF Submit, tables
    <2>8. TablesTyping' /\ lock' \in Sweeper \cup {Nobody}
      BY <1>1, <2>7 DEF TablesTyping, JobsTyping
    <2>9. \A d \in Deposit : sweepTxHash'[d] <= Len(txs')
      <3>1. \A d \in Deposit : sweepTxHash[d] \in Nat
        BY <1>1 DEF TablesTyping
      <3> QED BY <1>1, <2>6, <2>7, <3>1 DEF Extends
    <2>10. e.tx <= Len(txs') /\ \A d \in e.rows : place[d] # "sender"
      BY <1>1, <1>3, <2>5, <2>6
    <2>11. /\ UNCHANGED <<place, check, deploy, recon>>
           /\ \A d \in Deposit : status'[d] # "none" => status[d] # "none" \/ place[d] # "sender"
           /\ \A h \in 1..MaxTxs : gasTx'[h] # "none" =>
                gasTx[h] # "none" \/ (h \in DOMAIN txs' /\ txs'[h].kind = "flush")
      BY <2>7
    <2> QED BY <2>4, <2>5, <2>6, <2>8, <2>9, <2>10, <2>11, SweeperKeepsInv
  <1>11. ASSUME NEW s \in Sweeper, NEW e \in ASweep, sweep' = [sweep EXCEPT ![s] = e],
                e.pc # "log", e.tx <= Len(txs), e.rows \subseteq sweep[s].rows,
                NEW T, NEW st \in Statuses, SetStatus(RowsOf(s, T), st),
                UNCHANGED <<isDeployed, gasTx, chain, lock>>,
                sweepTxHash' \in [Deposit -> Nat],
                \A d \in Deposit : sweepTxHash'[d] <= Len(txs)
         PROVE  SweepInv'
    <2>1. /\ status' \in [Deposit -> Statuses]
          /\ \A d \in Deposit : status'[d] = IF d \in RowsOf(s, T) THEN st ELSE status[d]
      BY <1>1, <1>11, StatusUpdate
    <2>2. UNCHANGED <<place, txs>>
      BY <1>11 DEF chain
    <2>3. \A d \in Deposit : status'[d] # "none" => status[d] # "none" \/ place[d] # "sender"
      BY <1>3, <2>1 DEF RowsOf, OfTokens
    <2>4. TablesTyping' /\ lock' \in Sweeper \cup {Nobody}
      BY <1>1, <1>11, <2>1 DEF TablesTyping, JobsTyping
    <2>5. txs' \in Seq(Transaction) /\ Extends /\ Len(txs') <= MaxTxs
      BY <1>1, <1>2, <2>2 DEF ChainTyping, Known
    <2>6. \A d \in e.rows : place[d] # "sender"
      BY <1>3, <1>11
    <2> QED BY <1>11, <2>2, <2>3, <2>4, <2>5, <2>6, SweeperKeepsInv
  <1>12. ASSUME NEW s \in Sweeper, Log(s)
         PROVE  SweepInv'
    <2> DEFINE e == [sweep[s] EXCEPT !.pc = "mark"]
    <2>1. sweep' = [sweep EXCEPT ![s] = e]
      BY <1>12 DEF Log, SweepGoto
    <2>2. e \in ASweep /\ e.pc = "mark" /\ e.rows = sweep[s].rows /\ e.tx = sweep[s].tx
      BY <1>3 DEF ASweep, SweepPc
    <2> HIDE DEF e
    <2>3. UNCHANGED <<place, txs, status, sweepTxHash, isDeployed, lock>>
      BY <1>12 DEF Log, chain
    <2>4. gasTx' = gasTx \/ gasTx' = [gasTx EXCEPT ![sweep[s].tx] = "submitted"]
      BY <1>12 DEF Log
    <2>5. gasTx \in [1..MaxTxs -> {"none", "submitted", "confirmed", "failed"}]
      BY <1>1 DEF TablesTyping
    <2>6. /\ gasTx' \in [1..MaxTxs -> {"none", "submitted", "confirmed", "failed"}]
          /\ \A h \in 1..MaxTxs : gasTx'[h] # "none" => gasTx[h] # "none" \/ h = sweep[s].tx
      BY <2>4, <2>5
    <2>7. sweep[s].tx \in DOMAIN txs /\ txs[sweep[s].tx].kind = "flush"
      BY <1>12 DEF Log, SweepInv, LoggedIsFlush
    <2>8. TablesTyping' /\ lock' \in Sweeper \cup {Nobody}
      BY <1>1, <2>3, <2>6 DEF TablesTyping, JobsTyping
    <2>9. txs' \in Seq(Transaction) /\ Extends /\ Len(txs') <= MaxTxs
      BY <1>1, <1>2, <2>3 DEF ChainTyping, Known
    <2> QED BY <1>1, <1>3, <2>1, <2>2, <2>3, <2>6, <2>7, <2>8, <2>9, SweeperKeepsInv
  <1>13. ASSUME NEW s \in Sweeper, Mark(s)
         PROVE  SweepInv'
    <2> DEFINE e == [sweep[s] EXCEPT !.pc = "publish"]
    <2>1. sweep' = [sweep EXCEPT ![s] = e]
      BY <1>13 DEF Mark, SweepGoto
    <2>2. e \in ASweep /\ e.pc = "publish" /\ e.rows = sweep[s].rows /\ e.tx = sweep[s].tx
      BY <1>3 DEF ASweep, SweepPc
    <2> HIDE DEF e
    <2>3. sweep[s].tx \in Nat /\ sweep[s].tx <= Len(txs)
      BY <1>3 DEF ASweep
    <2>4. /\ sweepTxHash' \in [Deposit -> Nat]
          /\ \A d \in Deposit : sweepTxHash'[d] = IF d \in RowsOf(s, sweep[s].call)
                                                  THEN sweep[s].tx ELSE sweepTxHash[d]
      BY <1>1, <1>13, <2>3, HashUpdate DEF Mark
    <2>5. \A d \in Deposit : sweepTxHash'[d] <= Len(txs)
      BY <1>1, <2>3, <2>4
    <2>6. "sweep_pending" \in Statuses
      BY DEF Statuses
    <2>7. /\ SetStatus(RowsOf(s, sweep[s].call), "sweep_pending")
          /\ UNCHANGED <<isDeployed, gasTx, chain, lock>>
      BY <1>13 DEF Mark
    <2> QED BY <1>11, <2>1, <2>2, <2>3, <2>4, <2>5, <2>6, <2>7
  <1>14. ASSUME NEW s \in Sweeper, CallFails(s)
         PROVE  SweepInv'
    <2>1. PICK T : /\ SetStatus(RowsOf(s, T), "sweep_failed") /\ EndCall(s, T)
                   /\ UNCHANGED <<sweepTxHash, isDeployed, gasTx, chain, lock>>
      BY <1>14 DEF CallFails
    <2>2. PICK e \in ASweep :
              /\ sweep' = [sweep EXCEPT ![s] = e]
              /\ e.pc \in {"release", "submit"} /\ e.tx = 0 /\ e.rows \subseteq sweep[s].rows
      BY <1>1, <2>1, EndCallForm
    <2>3. "sweep_failed" \in Statuses
      BY DEF Statuses
    <2>4. sweepTxHash' \in [Deposit -> Nat] /\ \A d \in Deposit : sweepTxHash'[d] <= Len(txs)
      BY <1>1, <2>1 DEF TablesTyping
    <2> QED BY <1>2, <1>11, <2>1, <2>2, <2>3, <2>4
  <1>15. ASSUME LockExpires
         PROVE  SweepInv'
    <2>1. UNCHANGED <<place, txs, status, sweepTxHash, isDeployed, gasTx, sweep>> /\ lock' = Nobody
      BY <1>15 DEF LockExpires, tables, chain
    <2>2. Typing'
      BY <1>1, <2>1 DEF Typing, TablesTyping, ChainTyping, JobsTyping, Known
    <2> QED BY <2>1, <2>2 DEF SweepInv, ArrivedFirst, LoggedIsFlush, ReceiptStays,
                              EmptiedHasMoved, SweepAt, Mined
  <1> QED BY <1>6, <1>7, <1>8, <1>9, <1>10, <1>12, <1>13, <1>14, <1>15 DEF SweepNext, Sweep

\* A run of the reconciler goes on, ends, or changes rows of which it knows.
LEMMA ReconcilerKeepsInv ==
    ASSUME SweepInv, NEW r \in Reconciler, NEW e \in ARecon, recon' = [recon EXCEPT ![r] = e],
           UNCHANGED <<place, txs, check, deploy, lock, sweep>>, TablesTyping',
           e.tx <= Len(txs),
           e.pc # "idle" =>
                /\ e.tx \in DOMAIN txs /\ txs[e.tx].kind = "flush"
                /\ e.outcome # "none" => txs[e.tx].state = e.outcome
                /\ e.pc = "fail" => e.outcome = "reverted"
                /\ e.pc \in {"pending", "balances", "cascade", "orphans"} => e.outcome = "success",
           \A d \in e.rows :
                /\ place[d] # "sender"
                /\ e.pc = "cascade" /\ TokenOf[d] \in e.emptied => place[d] = "wallet",
           \A d \in Deposit : status'[d] # "none" => status[d] # "none",
           \A d \in Deposit : sweepTxHash'[d] <= Len(txs),
           \A h \in 1..MaxTxs : gasTx'[h] # "none" =>
                gasTx[h] # "none" \/ (h \in DOMAIN txs /\ txs[h].kind = "flush")
    PROVE  SweepInv'
  <1>1. recon \in [Reconciler -> ARecon]
    BY DEF SweepInv, Typing, JobsTyping
  <1>2. /\ recon' \in [Reconciler -> ARecon]
        /\ recon'[r] = e /\ \A q \in Reconciler : q # r => recon'[q] = recon[q]
    BY <1>1
  <1>3. Typing'
    BY <1>2 DEF SweepInv, Typing, ChainTyping, JobsTyping, Known
  <1>4. ArrivedFirst'
    BY DEF SweepInv, ArrivedFirst
  <1>5. LoggedIsFlush'
    BY DEF SweepInv, LoggedIsFlush, SweepAt
  <1>6. ReceiptStays'
    BY <1>2 DEF SweepInv, ReceiptStays
  <1>7. EmptiedHasMoved'
    BY <1>2 DEF SweepInv, EmptiedHasMoved
  <1> QED BY <1>3, <1>4, <1>5, <1>6, <1>7 DEF SweepInv

\* Every step of a run of the reconciler.
LEMMA ReconKeepsInv ==
    ASSUME SweepInv, NEW r \in Reconciler, Reconcile(r) \/ ReconFails(r),
           UNCHANGED <<check, deploy>>
    PROVE  SweepInv'
  <1>1. /\ TablesTyping /\ ChainTyping /\ Known /\ Len(txs) \in Nat /\ 0 <= Len(txs)
        /\ recon[r] \in ARecon /\ recon[r].tx \in Nat /\ recon[r].tx <= Len(txs)
        /\ status \in [Deposit -> Statuses] /\ sweepTxHash \in [Deposit -> Nat]
        /\ isDeployed \in BOOLEAN
        /\ gasTx \in [1..MaxTxs -> {"none", "submitted", "confirmed", "failed"}]
    BY DEF SweepInv, Typing, TablesTyping, ChainTyping, JobsTyping, Known, ARecon
  <1>2. /\ \A d \in Deposit : sweepTxHash[d] <= Len(txs)
        /\ \A d \in Deposit : status[d] # "none" => place[d] # "sender"
        /\ \A d \in recon[r].rows : d \in Deposit /\ place[d] # "sender"
    BY <1>1 DEF SweepInv, Known, ArrivedFirst, EmptiedHasMoved, ARecon
  <1>3. UNCHANGED <<place, txs, lock, sweep, isDeployed>>
    BY DEF Reconcile, ReadReceipt, UpdateGasTx, CascadeFailed, ReadPending, ReadBalances,
           Cascade, ReconcileOrphans, ReconFails, tables, chain
  <1>4. recon[r].pc # "idle" =>
          /\ recon[r].tx \in DOMAIN txs /\ txs[recon[r].tx].kind = "flush"
          /\ recon[r].outcome # "none" => txs[recon[r].tx].state = recon[r].outcome
          /\ recon[r].pc \in {"pending", "balances", "cascade", "orphans"} =>
               recon[r].outcome = "success"
    BY DEF SweepInv, ReceiptStays
  <1>5. /\ ReconIdle \in ARecon /\ ReconIdle.pc = "idle" /\ ReconIdle.tx = 0
        /\ ReconIdle.rows = {} /\ ReconIdle.tx <= Len(txs)
    BY <1>1 DEF ReconIdle, ARecon, ReconPc, Outcomes
  <1>6. ASSUME EndRecon(r), TablesTyping',
               \A d \in Deposit : status'[d] # "none" => status[d] # "none",
               \A d \in Deposit : sweepTxHash'[d] <= Len(txs),
               \A h \in 1..MaxTxs : gasTx'[h] # "none" =>
                    gasTx[h] # "none" \/ (h \in DOMAIN txs /\ txs[h].kind = "flush")
        PROVE  SweepInv'
    <2>1. recon' = [recon EXCEPT ![r] = ReconIdle]
      BY <1>6 DEF EndRecon
    <2>2. UNCHANGED <<place, txs, check, deploy, lock, sweep>>
      BY <1>3
    <2> QED BY <1>5, <1>6, <2>1, <2>2, ReconcilerKeepsInv
  <1>7. ASSUME UNCHANGED tables
        PROVE  /\ TablesTyping' /\ UNCHANGED <<status, sweepTxHash, gasTx>>
               /\ \A d \in Deposit : sweepTxHash'[d] <= Len(txs)
    BY <1>1, <1>2, <1>7 DEF TablesTyping, tables
  <1>8. ASSUME NEW e \in ARecon, recon' = [recon EXCEPT ![r] = e], UNCHANGED tables,
               e.tx = recon[r].tx, e.outcome = recon[r].outcome,
               recon[r].pc \in {"pending", "balances"}, e.pc \in {"balances", "cascade"},
               \A d \in e.rows :
                    /\ place[d] # "sender"
                    /\ e.pc = "cascade" /\ TokenOf[d] \in e.emptied => place[d] = "wallet"
        PROVE  SweepInv'
    <2>1. /\ UNCHANGED <<place, txs, check, deploy, lock, sweep>>
          /\ UNCHANGED <<status, sweepTxHash, gasTx>> /\ TablesTyping'
          /\ \A d \in Deposit : sweepTxHash'[d] <= Len(txs)
      BY <1>3, <1>7, <1>8
    <2> QED BY <1>1, <1>4, <1>8, <2>1, ReconcilerKeepsInv
  <1>9. ASSUME NEW h \in DOMAIN txs, ReadReceipt(r, h)
        PROVE  SweepInv'
    <2>1. PICK o \in Outcomes :
            /\ o = "none" \/ txs[h].state = o
            /\ recon' = [recon EXCEPT ![r] = [ReconIdle EXCEPT !.pc = "update", !.tx = h,
                                                               !.outcome = o]]
      BY <1>9 DEF ReadReceipt
    <2> DEFINE e == [ReconIdle EXCEPT !.pc = "update", !.tx = h, !.outcome = o]
    <2>2. h \in Nat /\ h <= Len(txs) /\ h \in 1..MaxTxs
      BY <1>1, DepositAssumption DEF ChainTyping, Known
    <2>3. /\ e \in ARecon /\ e.pc = "update" /\ e.tx = h /\ e.outcome = o /\ e.rows = {}
      BY <2>2 DEF ReconIdle, ARecon, ReconPc, Outcomes
    <2> HIDE DEF e
    <2>4. recon' = [recon EXCEPT ![r] = e]
      BY <2>1 DEF e
    <2>5. gasTx[h] = "submitted" /\ UNCHANGED tables
      BY <1>9 DEF ReadReceipt
    <2>6. txs[h].kind = "flush"
      BY <2>2, <2>5 DEF SweepInv, LoggedIsFlush
    <2>7. /\ UNCHANGED <<place, txs, check, deploy, lock, sweep>>
          /\ UNCHANGED <<status, sweepTxHash, gasTx>> /\ TablesTyping'
          /\ \A d \in Deposit : sweepTxHash'[d] <= Len(txs)
      BY <1>3, <1>7, <2>5
    <2> QED BY <2>1, <2>2, <2>3, <2>4, <2>6, <2>7, ReconcilerKeepsInv
  <1>10. CASE UpdateGasTx(r)
    <2>1. /\ recon[r].pc = "update" /\ UNCHANGED <<status, sweepTxHash>>
          /\ \E s \in {"confirmed", "failed"} : gasTx' = [gasTx EXCEPT ![recon[r].tx] = s]
      BY <1>10 DEF UpdateGasTx, ReconAt
    <2>2. /\ gasTx' \in [1..MaxTxs -> {"none", "submitted", "confirmed", "failed"}]
          /\ \A h \in 1..MaxTxs : gasTx'[h] # "none" => gasTx[h] # "none" \/ h = recon[r].tx
      BY <1>1, <2>1
    <2>3. TablesTyping'
      BY <1>1, <1>3, <2>1, <2>2 DEF TablesTyping
    <2>4. /\ \A d \in Deposit : status'[d] # "none" => status[d] # "none"
          /\ \A d \in Deposit : sweepTxHash'[d] <= Len(txs)
          /\ \A h \in 1..MaxTxs : gasTx'[h] # "none" =>
                gasTx[h] # "none" \/ (h \in DOMAIN txs /\ txs[h].kind = "flush")
      BY <1>2, <1>4, <2>1, <2>2
    <2>5. recon[r].outcome \in {"success", "reverted", "none"}
      BY <1>1 DEF ARecon, Outcomes
    <2>6. CASE recon[r].outcome = "none"
      BY <1>6, <1>10, <2>3, <2>4, <2>6 DEF UpdateGasTx
    <2>7. CASE recon[r].outcome # "none"
      <3> DEFINE pc == IF recon[r].outcome = "success" THEN "pending" ELSE "fail"
                 e == [recon[r] EXCEPT !.pc = pc]
      <3>1. recon' = [recon EXCEPT ![r] = e]
        BY <1>10, <2>5, <2>7 DEF UpdateGasTx
      <3>2. /\ pc \in {"pending", "fail"} /\ pc \in ReconPc
            /\ pc = "fail" => recon[r].outcome = "reverted"
            /\ pc = "pending" => recon[r].outcome = "success"
        BY <2>5, <2>7 DEF ReconPc
      <3> HIDE DEF pc
      <3>3. /\ e \in ARecon /\ e.pc = pc /\ e.tx = recon[r].tx
            /\ e.outcome = recon[r].outcome /\ e.rows = recon[r].rows
        BY <1>1, <3>2 DEF ARecon
      <3> HIDE DEF e
      <3>4. UNCHANGED <<place, txs, check, deploy, lock, sweep>>
        BY <1>3
      <3> QED BY <1>1, <1>2, <1>4, <2>1, <2>3, <2>4, <3>1, <3>2, <3>3, <3>4, ReconcilerKeepsInv
    <2> QED BY <2>6, <2>7
  <1>11. CASE CascadeFailed(r)
    <2>1. /\ SetStatus(PendingOf(recon[r].tx), "sweep_failed") /\ EndRecon(r)
          /\ UNCHANGED <<sweepTxHash, gasTx>>
      BY <1>11 DEF CascadeFailed
    <2>2. "sweep_failed" \in Statuses
      BY DEF Statuses
    <2>3. /\ status' \in [Deposit -> Statuses]
          /\ \A d \in Deposit : status'[d] # "none" => status[d] # "none"
      BY <1>1, <2>1, <2>2, StatusUpdate DEF PendingOf
    <2>4. TablesTyping'
      BY <1>1, <1>3, <2>1, <2>3 DEF TablesTyping
    <2> QED BY <1>2, <1>6, <2>1, <2>3, <2>4
  <1>12. CASE ReadPending(r)
    <2> DEFINE D == PendingOf(recon[r].tx)
               e == [recon[r] EXCEPT !.pc = "balances", !.rows = D]
    <2>1. /\ recon[r].pc = "pending" /\ UNCHANGED tables
          /\ EndRecon(r) \/ recon' = [recon EXCEPT ![r] = e]
      BY <1>12 DEF ReadPending, ReconAt
    <2>2. D \subseteq Deposit /\ \A d \in D : place[d] # "sender"
      BY <1>2 DEF PendingOf
    <2> HIDE DEF D
    <2>3. "balances" \in ReconPc
      BY DEF ReconPc
    <2>4. /\ e \in ARecon /\ e.pc = "balances" /\ e.tx = recon[r].tx
          /\ e.outcome = recon[r].outcome /\ e.rows = D
      BY <1>1, <2>2, <2>3 DEF ARecon
    <2> HIDE DEF e
    <2>5. CASE EndRecon(r)
      BY <1>6, <1>7, <2>1, <2>5
    <2>6. CASE recon' = [recon EXCEPT ![r] = e]
      BY <1>8, <2>1, <2>2, <2>4, <2>6
    <2> QED BY <2>1, <2>5, <2>6
  <1>13. CASE ReadBalances(r)
    <2>1. PICK T \in SUBSET {t \in {TokenOf[d] : d \in recon[r].rows} : ~HasBalance(t)} :
            EndRecon(r) \/ recon' = [recon EXCEPT ![r].pc = "cascade", ![r].emptied = T]
      BY <1>13 DEF ReadBalances
    <2> DEFINE e == [recon[r] EXCEPT !.pc = "cascade", !.emptied = T]
    <2>2. recon[r].pc = "balances" /\ UNCHANGED tables
      BY <1>13 DEF ReadBalances, ReconAt
    <2>3. T \subseteq Tokens
      BY <1>2 DEF Tokens
    <2>4. "cascade" \in ReconPc
      BY DEF ReconPc
    <2>5. /\ e \in ARecon /\ e.pc = "cascade" /\ e.tx = recon[r].tx /\ e.emptied = T
          /\ e.outcome = recon[r].outcome /\ e.rows = recon[r].rows
      BY <1>1, <2>3, <2>4 DEF ARecon
    <2>6. \A d \in recon[r].rows : TokenOf[d] \in T => place[d] = "wallet"
      <3> SUFFICES ASSUME NEW d \in recon[r].rows, TokenOf[d] \in T
                   PROVE  place[d] = "wallet"
        OBVIOUS
      <3>1. place[d] # "forwarder" /\ place[d] # "sender" /\ d \in Deposit
        BY <1>2, <2>1 DEF HasBalance
      <3>2. place[d] \in {"sender", "forwarder", "wallet"}
        BY <1>1, <3>1 DEF ChainTyping, Places
      <3> QED BY <3>1, <3>2
    <2>7. CASE EndRecon(r)
      BY <1>6, <1>7, <2>2, <2>7
    <2>8. CASE recon' = [recon EXCEPT ![r] = e]
      <3> HIDE DEF e
      <3> QED BY <1>2, <1>8, <2>2, <2>5, <2>6, <2>8
    <2> QED BY <2>1, <2>7, <2>8
  <1>14. CASE Cascade(r)
    <2> DEFINE e == [recon[r] EXCEPT !.pc = "orphans", !.rows = {}]
               D == {d \in OfTokens(recon[r].rows, recon[r].emptied) : status[d] = "sweep_pending"}
    <2>1. /\ SetStatus(D, "swept") /\ \A d \in D : status[d] = "sweep_pending"
          /\ recon' = [recon EXCEPT ![r] = e]
          /\ UNCHANGED <<sweepTxHash, gasTx>> /\ recon[r].pc = "cascade"
      BY <1>14 DEF Cascade, ReconAt
    <2> HIDE DEF D
    <2>2. "swept" \in Statuses /\ "orphans" \in ReconPc
      BY DEF Statuses, ReconPc
    <2>3. /\ status' \in [Deposit -> Statuses]
          /\ \A d \in Deposit : status'[d] # "none" => status[d] # "none"
      BY <1>1, <2>1, <2>2, StatusUpdate
    <2>4. TablesTyping'
      BY <1>1, <1>3, <2>1, <2>3 DEF TablesTyping
    <2>5. /\ e \in ARecon /\ e.pc = "orphans" /\ e.tx = recon[r].tx
          /\ e.outcome = recon[r].outcome /\ e.rows = {}
      BY <1>1, <2>2 DEF ARecon
    <2> HIDE DEF e
    <2>6. UNCHANGED <<place, txs, check, deploy, lock, sweep>>
      BY <1>3
    <2> QED BY <1>1, <1>2, <1>4, <2>1, <2>3, <2>4, <2>5, <2>6, ReconcilerKeepsInv
  <1>15. CASE ReconcileOrphans(r)
    <2>1. PICK D : /\ SetStatus(D, "swept") /\ SetHash(D, recon[r].tx)
                   /\ \A d \in D : status[d] \in Unswept
                   /\ EndRecon(r) /\ UNCHANGED gasTx
      BY <1>15 DEF ReconcileOrphans
    <2>2. "swept" \in Statuses
      BY DEF Statuses
    <2>3. /\ status' \in [Deposit -> Statuses]
          /\ \A d \in Deposit : status'[d] # "none" => status[d] # "none"
      BY <1>1, <2>1, <2>2, StatusUpdate DEF Unswept
    <2>4. /\ sweepTxHash' \in [Deposit -> Nat]
          /\ \A d \in Deposit : sweepTxHash'[d] <= Len(txs)
      BY <1>1, <1>2, <2>1, HashUpdate
    <2>5. TablesTyping'
      BY <1>1, <1>3, <2>1, <2>3, <2>4 DEF TablesTyping
    <2> QED BY <1>6, <2>1, <2>3, <2>4, <2>5
  <1>16. CASE ReconFails(r)
    BY <1>6, <1>7, <1>16 DEF ReconFails
  <1> QED BY <1>9, <1>10, <1>11, <1>12, <1>13, <1>14, <1>15, <1>16 DEF Reconcile

\* Every step of the system.
LEMMA StepKeepsInv == SweepInv /\ [Next]_vars => SweepInv'
  <1> SUFFICES ASSUME SweepInv, [Next]_vars PROVE SweepInv'
    OBVIOUS
  <1>1. CASE UNCHANGED vars
    BY <1>1 DEF vars, tables, chain, SweepInv, Typing, TablesTyping, ChainTyping, JobsTyping,
                Known, ArrivedFirst, LoggedIsFlush, ReceiptStays, EmptiedHasMoved, SweepAt
  <1> QED BY <1>1, ChainKeepsInv, TrackerKeepsInv, DeployKeepsInv, SweepKeepsInv, ReconKeepsInv
          DEF Next, ReconNext

\* Nothing is sent or read at first.
LEMMA InitInv == Init => SweepInv
  <1> SUFFICES ASSUME Init PROVE SweepInv
    OBVIOUS
  <1>1. /\ status = [d \in Deposit |-> "none"] /\ sweepTxHash = [d \in Deposit |-> 0]
        /\ isDeployed = FALSE /\ gasTx = [h \in 1..MaxTxs |-> "none"]
        /\ place = [d \in Deposit |-> "sender"] /\ txs = << >>
        /\ check = [c \in Check |-> NoCheck] /\ lock = Nobody
        /\ deploy = [q \in Deployer |-> DeployIdle]
        /\ sweep = [s \in Sweeper |-> SweepIdle] /\ recon = [r \in Reconciler |-> ReconIdle]
    BY DEF Init, TablesInit, ChainInit, TrackerInit, DeployInit, SweepInit, ReconInit
  <1>2. TablesTyping /\ ChainTyping
    <2>1. status \in [Deposit -> Statuses]
      BY <1>1 DEF Statuses
    <2>2. sweepTxHash \in [Deposit -> Nat]
      BY <1>1
    <2>3. gasTx \in [1..MaxTxs -> {"none", "submitted", "confirmed", "failed"}]
      BY <1>1
    <2>4. place \in [Deposit -> Places]
      BY <1>1 DEF Places
    <2>5. << >> \in Seq(Transaction)
      OBVIOUS
    <2>6. txs \in Seq(Transaction)
      BY <1>1, <2>5
    <2>7. isDeployed \in BOOLEAN
      BY <1>1
    <2> QED BY <2>1, <2>2, <2>3, <2>4, <2>6, <2>7 DEF TablesTyping, ChainTyping
  <1>3. /\ DeployIdle \in ADeploy /\ SweepIdle \in ASweep /\ ReconIdle \in ARecon
        /\ DeployIdle.tx = 0 /\ SweepIdle.tx = 0 /\ ReconIdle.tx = 0
        /\ SweepIdle.rows = {} /\ ReconIdle.rows = {}
        /\ SweepIdle.pc = "idle" /\ ReconIdle.pc = "idle"
    BY DEF DeployIdle, ADeploy, SweepIdle, ASweep, SweepPc, ReconIdle, ARecon, ReconPc, Outcomes
  <1>4. JobsTyping
    BY <1>1, <1>3 DEF JobsTyping
  <1>5. Known
    BY <1>1, <1>3, DepositAssumption DEF Known
  <1> QED BY <1>1, <1>2, <1>3, <1>4, <1>5
          DEF SweepInv, Typing, ArrivedFirst, LoggedIsFlush, ReceiptStays, EmptiedHasMoved, SweepAt

-----------------------------------------------------------------------------
(* Who changes a status *)

StatusChange(d) ==
    \/ status'[d] = status[d]
    \/ status[d] = "none" /\ status'[d] \in {"pending", "confirmed"}
    \/ \E c \in Check : /\ check[c] # NoCheck /\ check[c].d = d
                        /\ status'[d] \in {"confirming", "confirmed", "reverted"}
    \/ status[d] \in Unswept /\ status'[d] = "swept"
    \/ \E s \in Sweeper : d \in sweep[s].rows /\ status'[d] \in {"sweep_pending", "sweep_failed"}
    \/ \E r \in Reconciler :
          /\ recon[r].pc = "fail" /\ sweepTxHash[d] = recon[r].tx
          /\ status[d] = "sweep_pending" /\ status'[d] = "sweep_failed"
    \/ \E r \in Reconciler :
          /\ recon[r].pc = "cascade" /\ d \in recon[r].rows /\ TokenOf[d] \in recon[r].emptied
          /\ status[d] = "sweep_pending" /\ status'[d] = "swept"

\* The tracker changes new rows and those it checks, the deployment unswept ones, the
\* sweep its own, the reconciler pending ones of its transaction, and unswept ones.
LEMMA WhoChanges ==
    ASSUME SweepInv, Next, NEW d \in Deposit
    PROVE  StatusChange(d)
  <1>1. TablesTyping
    BY DEF SweepInv, Typing
  <1>2. CASE UNCHANGED tables
    BY <1>2 DEF tables, StatusChange
  <1>3. ASSUME NEW e \in Deposit, Persist(e)
        PROVE  StatusChange(d)
    BY <1>3 DEF Persist, SetStatus, StatusChange
  <1>4. ASSUME NEW c \in Check, WriteConfirmations(c)
        PROVE  StatusChange(d)
    <2>1. check[c] \in ACheck
      BY <1>4 DEF SweepInv, Typing, JobsTyping, WriteConfirmations
    <2> QED BY <1>4, <2>1 DEF WriteConfirmations, SetStatus, StatusChange, ACheck
  <1>5. CASE UNCHANGED status
    BY <1>5 DEF StatusChange
  <1>6. ASSUME NEW q \in Deployer, ReconcileDeploy(q)
        PROVE  StatusChange(d)
    BY <1>6 DEF ReconcileDeploy, SetStatus, StatusChange
  <1>7. ASSUME NEW s \in Sweeper, Mark(s) \/ CallFails(s)
        PROVE  StatusChange(d)
    <2>1. ASSUME NEW T, NEW st \in {"sweep_pending", "sweep_failed"}, SetStatus(RowsOf(s, T), st)
          PROVE  StatusChange(d)
      BY <2>1 DEF SetStatus, RowsOf, OfTokens, StatusChange
    <2>2. CASE Mark(s)
      BY <2>1, <2>2 DEF Mark
    <2>3. CASE CallFails(s)
      BY <2>1, <2>3 DEF CallFails
    <2> QED BY <1>7, <2>2, <2>3
  <1>8. ASSUME NEW r \in Reconciler, CascadeFailed(r)
        PROVE  StatusChange(d)
    BY <1>8 DEF CascadeFailed, ReconAt, SetStatus, PendingOf, StatusChange
  <1>9. ASSUME NEW r \in Reconciler, Cascade(r)
        PROVE  StatusChange(d)
    BY <1>9 DEF Cascade, ReconAt, SetStatus, OfTokens, StatusChange
  <1>10. ASSUME NEW r \in Reconciler, ReconcileOrphans(r)
         PROVE  StatusChange(d)
    BY <1>10 DEF ReconcileOrphans, SetStatus, StatusChange
  <1>11. ChainNext => UNCHANGED tables
    BY DEF ChainNext
  <1>12. TrackerNext => \/ UNCHANGED tables
                        \/ \E e \in Deposit : Persist(e)
                        \/ \E c \in Check : WriteConfirmations(c)
    BY DEF TrackerNext, Track, ReadConfirmations, CheckFails
  <1>13. DeployNext => UNCHANGED status \/ \E q \in Deployer : ReconcileDeploy(q)
    BY DEF DeployNext, Deploy, FindUndeployed, SubmitDeploy, MarkDeployed, ReadCoinBalance,
           DeployFails, tables
  <1>14. SweepNext => UNCHANGED status \/ \E s \in Sweeper : Mark(s) \/ CallFails(s)
    BY DEF SweepNext, Sweep, Acquire, Select, Inspect, Submit, Log, Publish, ReadLock, DeleteLock,
           LockExpires, SweepDies, tables
  <1>15. ReconNext => \/ UNCHANGED status
                      \/ \E r \in Reconciler :
                            CascadeFailed(r) \/ Cascade(r) \/ ReconcileOrphans(r)
    BY DEF ReconNext, Reconcile, ReadReceipt, UpdateGasTx, ReadPending, ReadBalances, ReconFails,
           tables
  <1> QED BY <1>2, <1>3, <1>4, <1>5, <1>6, <1>7, <1>8, <1>9, <1>10, <1>11, <1>12, <1>13, <1>14,
             <1>15 DEF Next

-----------------------------------------------------------------------------
(* Theorems *)

\* Tables, chain and jobs keep the shapes the code gives them, and whatever names a
\* transaction names one that was sent.
THEOREM SweepTypes == Spec => []TypeOK
  <1>1. ASSUME SweepInv
        PROVE  TypeOK
    <2>1. TablesTyping /\ ChainTyping /\ JobsTyping /\ Known /\ Len(txs) \in Nat
      BY <1>1 DEF SweepInv, Typing, ChainTyping
    <2>2. sweepTxHash \in [Deposit -> 0..Len(txs)]
      BY <2>1 DEF TablesTyping, Known
    <2>3. txs \in Seq([kind : {"deploy", "flush"}, call : SUBSET Tokens,
                       rows : SUBSET Deposit, state : TxState])
      BY <2>1 DEF ChainTyping, Transaction
    <2>4. check \in [Check -> {NoCheck} \union [pc : {"write"}, d : Deposit, status : Statuses]]
      <3>1. ACheck \subseteq [pc : {"write"}, d : Deposit, status : Statuses]
        BY DEF ACheck, Statuses
      <3> QED BY <2>1, <3>1 DEF JobsTyping
    <2>5. deploy \in [Deployer -> [pc : {"idle", "submit", "mark", "balance", "reconcile"},
                                   tx : 0..MaxTxs]]
      <3>1. \A q \in Deployer : deploy[q] \in ADeploy /\ deploy[q].tx <= MaxTxs
        <4>1. \A q \in Deployer : deploy[q] \in ADeploy /\ deploy[q].tx \in Nat
          BY <2>1 DEF JobsTyping, ADeploy
        <4> QED BY <2>1, <4>1, DepositAssumption DEF Known
      <3>2. \A q \in Deployer : deploy[q] \in
              [pc : {"idle", "submit", "mark", "balance", "reconcile"}, tx : 0..MaxTxs]
        BY <3>1, DepositAssumption DEF ADeploy
      <3> QED BY <2>1, <3>2 DEF JobsTyping
    <2>6. sweep \in [Sweeper -> [pc : SweepPc, rows : SUBSET Deposit,
                                 todo : SUBSET SUBSET Tokens, call : SUBSET Tokens,
                                 tx : 0..Len(txs)]]
      <3>1. \A s \in Sweeper : sweep[s] \in ASweep /\ sweep[s].tx <= Len(txs)
        BY <2>1 DEF JobsTyping, Known
      <3>2. \A s \in Sweeper : sweep[s] \in [pc : SweepPc, rows : SUBSET Deposit,
                                             todo : SUBSET SUBSET Tokens, call : SUBSET Tokens,
                                             tx : 0..Len(txs)]
        BY <2>1, <3>1 DEF ASweep
      <3> QED BY <2>1, <3>2 DEF JobsTyping
    <2>7. recon \in [Reconciler -> [pc : ReconPc, tx : 0..Len(txs), outcome : Outcomes,
                                    rows : SUBSET Deposit, emptied : SUBSET Tokens]]
      <3>1. \A r \in Reconciler : recon[r] \in ARecon /\ recon[r].tx <= Len(txs)
        BY <2>1 DEF JobsTyping, Known
      <3>2. \A r \in Reconciler :
              recon[r] \in [pc : ReconPc, tx : 0..Len(txs), outcome : Outcomes,
                            rows : SUBSET Deposit, emptied : SUBSET Tokens]
        BY <2>1, <3>1 DEF ARecon
      <3> QED BY <2>1, <3>2 DEF JobsTyping
    <2> QED BY <2>1, <2>2, <2>3, <2>4, <2>5, <2>6, <2>7
            DEF TypeOK, TablesTyping, ChainTyping, JobsTyping
  <1> QED BY <1>1, InitInv, StepKeepsInv, PTL DEF Spec

\* Cascade of gas-tank-receipt-reconciler.service.ts: a pending deposit becomes swept only
\* when its funds are in the hot wallet, whatever is lost or orphaned and whoever overlaps.
THEOREM SweptIsMoved == Spec => SweptHasMoved
  <1>1. ASSUME SweepInv, [Next]_vars, NEW d \in Deposit,
               status[d] = "sweep_pending", status'[d] = "swept"
        PROVE  place[d] = "wallet"
    <2>1. Next
      BY <1>1 DEF vars, tables
    <2>2. StatusChange(d)
      BY <1>1, <2>1, WhoChanges
    <2>3. \E r \in Reconciler : /\ recon[r].pc = "cascade" /\ d \in recon[r].rows
                                /\ TokenOf[d] \in recon[r].emptied
      BY <1>1, <2>2 DEF StatusChange, Unswept
    <2> QED BY <1>1, <2>3 DEF SweepInv, EmptiedHasMoved
  <1>2. SweepInv /\ [Next]_vars =>
          [\A d \in Deposit : status[d] = "sweep_pending" /\ status'[d] = "swept"
             => place[d] = "wallet"]_vars
    BY <1>1
  <1> QED BY <1>2, InitInv, StepKeepsInv, PTL DEF Spec, SweptHasMoved

\* The reconciler fails a pending deposit only for a transaction that did revert, not for
\* one that is slow, lost or not seen.
THEOREM FailedIsReverted == Spec => FailedHasReverted
  <1>1. ASSUME SweepInv, [Next]_vars, NEW d \in Deposit,
               status[d] = "sweep_pending", status'[d] = "sweep_failed",
               \A s \in Sweeper : d \notin sweep[s].rows
        PROVE  txs[sweepTxHash[d]].state = "reverted"
    <2>1. Next
      BY <1>1 DEF vars, tables
    <2>2. StatusChange(d)
      BY <1>1, <2>1, WhoChanges
    <2>3. \E r \in Reconciler : recon[r].pc = "fail" /\ sweepTxHash[d] = recon[r].tx
      BY <1>1, <2>2 DEF StatusChange
    <2> QED BY <1>1, <2>3 DEF SweepInv, ReceiptStays
  <1>2. SweepInv /\ [Next]_vars =>
          [\A d \in Deposit :
              /\ status[d] = "sweep_pending" /\ status'[d] = "sweep_failed"
              /\ \A s \in Sweeper : d \notin sweep[s].rows
              => txs[sweepTxHash[d]].state = "reverted"]_vars
    BY <1>1
  <1> QED BY <1>2, InitInv, StepKeepsInv, PTL DEF Spec, FailedHasReverted

-----------------------------------------------------------------------------
(* What is promised of a row *)

\* A run of the sweep that writes rows it selected, or gives up some of them.
LEMMA RunKeepsPromise ==
    ASSUME SweepInv, NEW s \in Sweeper, NEW e, sweep' = [sweep EXCEPT ![s] = e],
           e.rows \subseteq sweep[s].rows, UNCHANGED check,
           UNCHANGED status \/ \E st \in {"sweep_pending", "sweep_failed"} :
                                  \E D \in SUBSET sweep[s].rows : SetStatus(D, st)
    PROVE  Promise!WriteSelected(s)
  <1>1. sweep \in [Sweeper -> ASweep] /\ status \in [Deposit -> Statuses]
    BY DEF SweepInv, Typing, JobsTyping, TablesTyping
  <1>2. SelectedRows' = [SelectedRows EXCEPT ![s] = e.rows]
    BY <1>1 DEF SelectedRows
  <1>3. SelectedRows[s] = sweep[s].rows
    BY DEF SelectedRows
  <1>4. \/ Promise!Write(SelectedRows[s], "sweep_pending")
        \/ Promise!Write(SelectedRows[s], "sweep_failed")
    BY <1>1, <1>3 DEF SetStatus, Promise!Write
  <1>5. CheckedRows' = CheckedRows
    BY DEF CheckedRows
  <1> QED BY <1>2, <1>3, <1>4, <1>5 DEF Promise!WriteSelected

\* The steps of the sweep.
LEMMA SweepKeepsPromise ==
    ASSUME SweepInv, SweepNext, UNCHANGED check
    PROVE  [Promise!Next]_Promise!vars
  <1>1. sweep \in [Sweeper -> ASweep] /\ status \in [Deposit -> Statuses]
    BY DEF SweepInv, Typing, JobsTyping, TablesTyping
  <1>2. CheckedRows' = CheckedRows
    BY DEF CheckedRows
  <1>3. SweepIdle.rows = {}
    BY DEF SweepIdle
  <1>4. CASE LockExpires
    BY <1>2, <1>4 DEF LockExpires, tables, SelectedRows, Promise!vars
  <1>5. ASSUME NEW s \in Sweeper, Sweep(s) \/ CallFails(s) \/ SweepDies(s)
        PROVE  Promise!Next
    <2>1. sweep[s] \in ASweep
      BY <1>1
    <2>2. ASSUME NEW e, sweep' = [sweep EXCEPT ![s] = e], e.rows = sweep[s].rows \/ e.rows = {},
                 UNCHANGED status \/ \E st \in {"sweep_pending", "sweep_failed"} :
                                        \E D \in SUBSET sweep[s].rows : SetStatus(D, st)
          PROVE  Promise!Next
      BY <2>2, RunKeepsPromise DEF Promise!Next
    <2>3. ASSUME NEW pc, sweep' = [sweep EXCEPT ![s].pc = pc], UNCHANGED status
          PROVE  Promise!Next
      <3>1. [sweep[s] EXCEPT !.pc = pc].rows = sweep[s].rows
        BY <2>1 DEF ASweep
      <3> QED BY <2>2, <2>3, <3>1
    <2>4. ASSUME NEW T, EndCall(s, T)
          PROVE  \E e : sweep' = [sweep EXCEPT ![s] = e] /\ (e.rows = sweep[s].rows \/ e.rows = {})
      <3> DEFINE e == [SweepIdle EXCEPT !.pc = "release"]
                 f == [SweepIdle EXCEPT !.pc = "submit", !.rows = sweep[s].rows,
                                        !.todo = sweep[s].todo \ {T}]
      <3>1. sweep' = [sweep EXCEPT ![s] = e] \/ sweep' = [sweep EXCEPT ![s] = f]
        BY <2>4 DEF EndCall
      <3>2. e.rows = {} /\ f.rows = sweep[s].rows
        BY DEF SweepIdle
      <3> QED BY <3>1, <3>2
    <2>5. CASE Acquire(s)
      BY <2>3, <2>5 DEF Acquire, SweepGoto, tables
    <2>6. CASE Select(s)
      <3>1. PICK D \in SUBSET Selectable :
              sweep' = [sweep EXCEPT ![s].rows = D,
                                     ![s].pc = IF D = {} THEN "release" ELSE "inspect"]
        BY <2>6 DEF Select
      <3> DEFINE pc == IF D = {} THEN "release" ELSE "inspect"
      <3>2. [sweep[s] EXCEPT !.rows = D, !.pc = pc].rows = D
        BY <2>1 DEF ASweep
      <3>3. sweep' = [sweep EXCEPT ![s] = [sweep[s] EXCEPT !.rows = D, !.pc = pc]]
        BY <3>1
      <3> HIDE DEF pc
      <3>4. SelectedRows' = [SelectedRows EXCEPT ![s] = D]
        BY <1>1, <3>2, <3>3 DEF SelectedRows
      <3>5. D \in SUBSET Promise!In({"confirmed"})
        BY DEF Selectable, Promise!In
      <3>6. Promise!Select(s)
        BY <1>2, <2>6, <3>4, <3>5 DEF Promise!Select, Select, tables
      <3> QED BY <3>6 DEF Promise!Next
    <2>7. CASE Inspect(s)
      <3> DEFINE T == {TokenOf[d] : d \in sweep[s].rows}
                 funded == {t \in T : HasBalance(t)}
                 e == [sweep[s] EXCEPT !.todo = Calls(funded), !.pc = "submit"]
                 f == [SweepIdle EXCEPT !.pc = "release"]
      <3>1. /\ sweep' = [sweep EXCEPT ![s] = e] \/ sweep' = [sweep EXCEPT ![s] = f]
            /\ UNCHANGED status
        BY <2>7 DEF Inspect, tables
      <3> HIDE DEF funded
      <3>2. e.rows = sweep[s].rows /\ f.rows = {}
        BY <2>1 DEF ASweep, SweepIdle
      <3> HIDE DEF e, f
      <3> QED BY <2>2, <3>1, <3>2
    <2>8. CASE Submit(s)
      <3>1. PICK T : sweep' = [sweep EXCEPT ![s].call = T, ![s].tx = Len(txs) + 1, ![s].pc = "log"]
        BY <2>8 DEF Submit
      <3> DEFINE e == [sweep[s] EXCEPT !.call = T, !.tx = Len(txs) + 1, !.pc = "log"]
      <3>2. sweep' = [sweep EXCEPT ![s] = e] /\ UNCHANGED status
        BY <2>8, <3>1 DEF Submit, tables
      <3>3. e.rows = sweep[s].rows
        BY <2>1 DEF ASweep
      <3> HIDE DEF e
      <3> QED BY <2>2, <3>2, <3>3
    <2>9. CASE Log(s)
      BY <2>3, <2>9 DEF Log, SweepGoto
    <2>10. CASE Mark(s)
      <3>1. [sweep[s] EXCEPT !.pc = "publish"].rows = sweep[s].rows
        BY <2>1 DEF ASweep
      <3>2. /\ sweep' = [sweep EXCEPT ![s] = [sweep[s] EXCEPT !.pc = "publish"]]
            /\ SetStatus(RowsOf(s, sweep[s].call), "sweep_pending")
        BY <2>10 DEF Mark, SweepGoto
      <3>3. RowsOf(s, sweep[s].call) \in SUBSET sweep[s].rows
        BY DEF RowsOf, OfTokens
      <3> QED BY <2>2, <3>1, <3>2, <3>3
    <2>11. CASE Publish(s)
      BY <2>2, <2>4, <2>11 DEF Publish, tables
    <2>12. CASE CallFails(s)
      <3>1. PICK T \in SUBSET Tokens : SetStatus(RowsOf(s, T), "sweep_failed") /\ EndCall(s, T)
        BY <2>12 DEF CallFails
      <3>2. RowsOf(s, T) \in SUBSET sweep[s].rows
        BY DEF RowsOf, OfTokens
      <3> QED BY <2>2, <2>4, <3>1, <3>2
    <2>13. CASE ReadLock(s)
      <3> DEFINE e == IF lock = s THEN [SweepIdle EXCEPT !.pc = "delete"] ELSE SweepIdle
      <3>1. sweep' = [sweep EXCEPT ![s] = e] /\ UNCHANGED status
        BY <2>13 DEF ReadLock, tables
      <3>2. e.rows = {}
        BY DEF SweepIdle
      <3> HIDE DEF e
      <3> QED BY <2>2, <3>1, <3>2
    <2>14. CASE DeleteLock(s) \/ SweepDies(s)
      BY <1>3, <2>2, <2>14 DEF DeleteLock, SweepDies, tables
    <2> QED BY <1>5, <2>5, <2>6, <2>7, <2>8, <2>9, <2>10, <2>11, <2>12, <2>13, <2>14 DEF Sweep
  <1> QED BY <1>4, <1>5 DEF SweepNext

\* The steps of the tracker.
LEMMA TrackerKeepsPromise ==
    ASSUME SweepInv, TrackerNext, UNCHANGED sweep
    PROVE  [Promise!Next]_Promise!vars
  <1>1. check \in [Check -> {NoCheck} \cup ACheck] /\ status \in [Deposit -> Statuses]
    BY DEF SweepInv, Typing, JobsTyping, TablesTyping
  <1>2. SelectedRows' = SelectedRows
    BY DEF SelectedRows
  <1>3. \A x \in ACheck : x # NoCheck
    BY DEF ACheck, NoCheck
  <1>4. ASSUME NEW d \in Deposit, Persist(d)
        PROVE  Promise!Next
    <2>1. CheckedRows' = CheckedRows
      BY <1>4 DEF Persist, CheckedRows
    <2>2. Promise!Insert(d)
      BY <1>1, <1>2, <1>4, <2>1 DEF Persist, SetStatus, Promise!Insert, Promise!Write
    <2> QED BY <2>2 DEF Promise!Next
  <1>5. ASSUME NEW c \in Check, NEW d \in Deposit, ReadConfirmations(c, d)
        PROVE  Promise!Next
    <2>1. PICK s \in {"confirming", "confirmed", "reverted"} :
            check' = [check EXCEPT ![c] = [pc |-> "write", d |-> d, status |-> s]]
      BY <1>5 DEF ReadConfirmations
    <2>2. check'[c].d = d /\ check'[c] # NoCheck /\ check[c] = NoCheck
      BY <1>1, <1>3, <1>5, <2>1 DEF ReadConfirmations, ACheck
    <2>3. CheckedRows[c] = {} /\ CheckedRows' = [CheckedRows EXCEPT ![c] = {d}]
      BY <1>1, <2>1, <2>2 DEF CheckedRows
    <2>4. Promise!StartCheck(c)
      BY <1>2, <1>5, <2>3 DEF ReadConfirmations, tables, Promise!StartCheck, Promise!In
    <2> QED BY <2>4 DEF Promise!Next
  <1>6. ASSUME NEW c \in Check, WriteConfirmations(c) \/ CheckFails(c)
        PROVE  Promise!Next
    <2>1. check[c] \in ACheck /\ check' = [check EXCEPT ![c] = NoCheck]
      BY <1>1, <1>6 DEF WriteConfirmations, CheckFails, EndCheck
    <2>2. CheckedRows[c] = {check[c].d} /\ CheckedRows' = [CheckedRows EXCEPT ![c] = {}]
      BY <1>1, <1>3, <2>1 DEF CheckedRows
    <2>3. UNCHANGED status \/ SetStatus({check[c].d}, check[c].status)
      BY <1>6 DEF WriteConfirmations, CheckFails, tables
    <2>4. \E s \in {"confirming", "confirmed", "reverted"} : Promise!Write(CheckedRows[c], s)
      BY <1>1, <2>1, <2>2, <2>3 DEF ACheck, SetStatus, Promise!Write
    <2>5. Promise!EndCheck(c)
      BY <1>2, <2>2, <2>4 DEF Promise!EndCheck
    <2> QED BY <2>5 DEF Promise!Next
  <1> QED BY <1>4, <1>5, <1>6 DEF TrackerNext, Track

\* The steps of deployer and reconciler.
LEMMA OthersKeepPromise ==
    ASSUME SweepInv, UNCHANGED <<check, sweep>>, DeployNext \/ ReconNext \/ UNCHANGED tables
    PROVE  [Promise!Next]_Promise!vars
  <1>1. status \in [Deposit -> Statuses] /\ recon \in [Reconciler -> ARecon]
    BY DEF SweepInv, Typing, JobsTyping, TablesTyping
  <1>2. CheckedRows' = CheckedRows /\ SelectedRows' = SelectedRows
    BY DEF CheckedRows, SelectedRows
  <1>3. CASE UNCHANGED status
    BY <1>2, <1>3 DEF Promise!vars
  <1>4. ASSUME NEW D \in SUBSET Promise!In(Unswept), SetStatus(D, "swept")
        PROVE  Promise!Next
    <2>1. Promise!TakeAlong
      BY <1>1, <1>2, <1>4 DEF Unswept, SetStatus, Promise!Write, Promise!In, Promise!TakeAlong
    <2> QED BY <2>1 DEF Promise!Next
  <1>5. ASSUME NEW D \in SUBSET Promise!In({"sweep_pending"}),
               SetStatus(D, "swept") \/ SetStatus(D, "sweep_failed")
        PROVE  Promise!Next
    <2>1. Promise!Settle
      BY <1>1, <1>2, <1>5 DEF SetStatus, Promise!Write, Promise!In, Promise!Settle
    <2> QED BY <2>1 DEF Promise!Next
  <1>6. ASSUME NEW q \in Deployer, ReconcileDeploy(q)
        PROVE  Promise!Next
    BY <1>4, <1>6 DEF ReconcileDeploy, OfTokens, Promise!In
  <1>7. ASSUME NEW r \in Reconciler, CascadeFailed(r)
        PROVE  Promise!Next
    BY <1>5, <1>7 DEF CascadeFailed, PendingOf, Promise!In
  <1>8. ASSUME NEW r \in Reconciler, Cascade(r)
        PROVE  Promise!Next
    <2>1. recon[r].rows \subseteq Deposit
      BY <1>1 DEF ARecon
    <2> QED BY <1>5, <1>8, <2>1 DEF Cascade, OfTokens, Promise!In
  <1>9. ASSUME NEW r \in Reconciler, ReconcileOrphans(r)
        PROVE  Promise!Next
    BY <1>4, <1>9 DEF ReconcileOrphans, OfTokens, Promise!In
  <1>10. DeployNext => UNCHANGED status \/ \E q \in Deployer : ReconcileDeploy(q)
    BY DEF DeployNext, Deploy, FindUndeployed, SubmitDeploy, MarkDeployed, ReadCoinBalance,
           DeployFails, tables
  <1>11. ReconNext => \/ UNCHANGED status
                      \/ \E r \in Reconciler :
                            CascadeFailed(r) \/ Cascade(r) \/ ReconcileOrphans(r)
    BY DEF ReconNext, Reconcile, ReadReceipt, UpdateGasTx, ReadPending, ReadBalances, ReconFails,
           tables
  <1> QED BY <1>3, <1>6, <1>7, <1>8, <1>9, <1>10, <1>11 DEF tables

\* Tracker, deployer, sweep and reconciler keep what DepositRow promises of a row.
THEOREM SweepKeepsRows == Spec => RowsAsPromised
  <1>1. Init => Promise!Init
    BY DEF Init, TablesInit, TrackerInit, SweepInit, SweepIdle, CheckedRows, SelectedRows, Promise!Init
  <1>2. SweepInv /\ [Next]_vars => [Promise!Next]_Promise!vars
    <2> SUFFICES ASSUME SweepInv, [Next]_vars
                 PROVE  [Promise!Next]_Promise!vars
      OBVIOUS
    <2>1. CASE ChainNext /\ UNCHANGED <<check, deploy, lock, sweep, recon>>
      BY <2>1, OthersKeepPromise DEF ChainNext
    <2>2. CASE TrackerNext /\ UNCHANGED <<deploy, lock, sweep, recon>>
      BY <2>2, TrackerKeepsPromise
    <2>3. CASE DeployNext /\ UNCHANGED <<check, lock, sweep, recon>>
      BY <2>3, OthersKeepPromise
    <2>4. CASE SweepNext /\ UNCHANGED <<check, deploy, recon>>
      BY <2>4, SweepKeepsPromise
    <2>5. CASE ReconNext /\ UNCHANGED <<check, deploy>>
      <3>1. ReconNext => UNCHANGED sweep
        BY DEF ReconNext, Reconcile, ReadReceipt, UpdateGasTx, CascadeFailed, ReadPending,
               ReadBalances, Cascade, ReconcileOrphans, ReconFails
      <3> QED BY <2>5, <3>1, OthersKeepPromise
    <2>6. CASE UNCHANGED vars
      BY <2>6, OthersKeepPromise DEF vars
    <2> QED BY <2>1, <2>2, <2>3, <2>4, <2>5, <2>6 DEF Next
  <1> QED BY <1>1, <1>2, InitInv, StepKeepsInv, PTL DEF Spec, RowsAsPromised, Promise!Spec

\* A row that is reverted, swept or failed loses this status only to a check or a run of
\* the sweep that has had it in hand since before: DepositRow promises it.
THEOREM ClosedStays == Spec => Promise!ClosedUnlessInHand
  <1>1. [Promise!Next]_Promise!vars => [Promise!LeavesClosed]_Promise!vars
    BY DEF Promise!Next, Promise!Insert, Promise!StartCheck, Promise!EndCheck, Promise!Select,
           Promise!WriteSelected, Promise!Settle, Promise!TakeAlong, Promise!Write, Promise!In,
           Promise!InHand, Promise!LeavesClosed
  <1> QED BY <1>1, SweepKeepsRows, PTL
          DEF RowsAsPromised, Promise!Spec, Promise!ClosedUnlessInHand

-----------------------------------------------------------------------------
(* Without outages *)

\* Transactions are sent for deposits.
LEMMA FlushedAreDeposits ==
    ASSUME ChainTyping
    PROVE  Flushed \subseteq Deposit
  <1>1. txs \in Seq(Transaction)
    BY DEF ChainTyping
  <1>2. \A i \in DOMAIN txs : txs[i] \in Transaction
    BY <1>1
  <1>3. \A i \in DOMAIN txs : txs[i].rows \subseteq Deposit
    BY <1>2 DEF Transaction
  <1> QED BY <1>3 DEF Flushed

\* What others do sends for no deposit and takes back no hash.
LEMMA OthersKeepFlushes ==
    ASSUME FlushInv, UNCHANGED <<lock, sweep>>, DeployHasSent',
           \A i \in DOMAIN txs' :
                txs'[i].rows = {} \/ (i \in DOMAIN txs /\ txs'[i].rows = txs[i].rows),
           \A d \in Deposit : sweepTxHash[d] # 0 => sweepTxHash'[d] # 0,
           Flushed \subseteq Deposit
    PROVE  FlushInv'
  <1>1. Flushed' \subseteq Flushed
    BY DEF Flushed
  <1>2. LockHeld'
    BY DEF FlushInv, LockHeld, SweepAt
  <1>3. FlushedIsMarked'
    BY <1>1 DEF FlushInv, FlushedIsMarked, RowsOf
  <1>4. ASSUME NEW s \in Sweeper
        PROVE  Apart(sweep[s])'
    <2>1. Apart(sweep[s])
      BY DEF FlushInv
    <2> QED BY <1>1, <2>1 DEF Apart
  <1>5. OneFlushPerDeposit'
    BY DEF FlushInv, OneFlushPerDeposit
  <1> QED BY <1>2, <1>3, <1>4, <1>5 DEF FlushInv

\* The run that holds the lock is alone.
LEMMA RunKeepsFlushes ==
    ASSUME SweepInv, FlushInv, NEW s \in Sweeper, NEW e, sweep' = [sweep EXCEPT ![s] = e],
           ~SweepAt(s, "idle") \/ lock = Nobody, UNCHANGED <<txs, deploy>>,
           e.pc = "idle" \/ lock' = s, Apart(e),
           \A d \in Flushed : \/ sweepTxHash'[d] # 0
                              \/ e.pc \in {"log", "mark"} /\ d \in OfTokens(e.rows, e.call)
    PROVE  FlushInv'
  <1>1. sweep'[s] = e /\ \A q \in Sweeper : q # s => sweep'[q] = sweep[q] /\ sweep[q].pc = "idle"
    BY SweepAssumption DEF SweepInv, Typing, JobsTyping, FlushInv, LockHeld, SweepAt
  <1>2. Flushed' = Flushed
    BY DEF Flushed
  <1>3. LockHeld'
    BY <1>1 DEF LockHeld, SweepAt
  <1>4. FlushedIsMarked'
    BY <1>1, <1>2 DEF FlushedIsMarked, RowsOf
  <1>5. ASSUME NEW q \in Sweeper
        PROVE  Apart(sweep[q])'
    <2>1. CASE q = s
      BY <1>1, <1>2, <2>1 DEF Apart
    <2>2. CASE q # s
      BY <1>1, <1>2, <2>2 DEF Apart
    <2> QED BY <2>1, <2>2
  <1>6. OneFlushPerDeposit' /\ DeployHasSent'
    BY DEF FlushInv, OneFlushPerDeposit, DeployHasSent
  <1> QED BY <1>3, <1>4, <1>5, <1>6 DEF FlushInv

\* A run sends one transaction for the deposits of each call.
LEMMA SweepKeepsFlushes ==
    ASSUME ~Outages, SweepInv, FlushInv, SweepNext, UNCHANGED <<check, deploy, recon>>
    PROVE  FlushInv'
  <1>1. /\ sweep \in [Sweeper -> ASweep] /\ ChainTyping /\ TablesTyping
        /\ Flushed \subseteq Deposit /\ Len(txs) \in Nat
    BY FlushedAreDeposits DEF SweepInv, Typing, JobsTyping, ChainTyping
  <1>2. PICK s \in Sweeper : Sweep(s)
    BY DEF SweepNext, CallFails, SweepDies, LockExpires
  <1>3. sweep[s] \in ASweep /\ Apart(sweep[s])
    BY <1>1 DEF FlushInv
  <1>4. SweepIdle.pc = "idle" /\ SweepIdle.rows = {} /\ SweepIdle.todo = {}
    BY DEF SweepIdle
  <1>5. ~SweepAt(s, "idle") => lock = s
    BY DEF FlushInv, LockHeld
  <1>6. ASSUME ~SweepAt(s, "idle") \/ lock = Nobody, sweep[s].pc \notin {"log", "mark"}
        PROVE  \A d \in Flushed : sweepTxHash[d] # 0
    BY <1>6, SweepAssumption DEF FlushInv, LockHeld, FlushedIsMarked, SweepAt
  <1>7. CASE Acquire(s)
    <2> DEFINE e == [sweep[s] EXCEPT !.pc = "select"]
    <2>1. /\ sweep[s].pc = "idle" /\ lock = Nobody /\ lock' = s
          /\ sweep' = [sweep EXCEPT ![s] = e] /\ UNCHANGED <<txs, deploy, sweepTxHash>>
      BY <1>4, <1>7 DEF Acquire, SweepGoto, tables, chain
    <2>2. e.pc = "select"
      BY <1>3 DEF ASweep
    <2> HIDE DEF e
    <2>3. Apart(e)
      BY <2>2 DEF Apart
    <2> QED BY <1>6, <2>1, <2>2, <2>3, RunKeepsFlushes
  <1>8. CASE Select(s)
    <2>1. PICK D \in SUBSET Selectable :
            sweep' = [sweep EXCEPT ![s].rows = D,
                                   ![s].pc = IF D = {} THEN "release" ELSE "inspect"]
      BY <1>8 DEF Select
    <2> DEFINE pc == IF D = {} THEN "release" ELSE "inspect"
               e == [sweep[s] EXCEPT !.rows = D, !.pc = pc]
    <2>2. sweep[s].pc = "select" /\ UNCHANGED <<txs, deploy, sweepTxHash, lock>>
      BY <1>8 DEF Select, SweepAt, tables, chain
    <2>3. pc \in {"release", "inspect"} /\ sweep' = [sweep EXCEPT ![s] = e]
      BY <2>1
    <2> HIDE DEF pc
    <2>4. e.pc = pc /\ e.rows = D
      BY <1>3 DEF ASweep
    <2>5. D \cap Flushed = {}
      BY <1>6, <2>2 DEF Selectable, SweepAt
    <2> HIDE DEF e
    <2>6. Apart(e)
      BY <2>3, <2>4, <2>5 DEF Apart
    <2> QED BY <1>5, <1>6, <2>2, <2>3, <2>4, <2>6, RunKeepsFlushes DEF SweepAt
  <1>9. CASE Inspect(s)
    <2> DEFINE T == {TokenOf[d] : d \in sweep[s].rows}
               funded == {t \in T : HasBalance(t)}
               e == [sweep[s] EXCEPT !.todo = Calls(funded), !.pc = "submit"]
               f == [SweepIdle EXCEPT !.pc = "release"]
    <2>1. /\ sweep' = [sweep EXCEPT ![s] = e] \/ sweep' = [sweep EXCEPT ![s] = f]
          /\ sweep[s].pc = "inspect" /\ UNCHANGED <<txs, deploy, sweepTxHash, lock>>
      BY <1>9 DEF Inspect, SweepAt, tables, chain
    <2> HIDE DEF funded
    <2>2. \A A, B \in Calls(funded) : A # B => A \cap B = {}
      BY DEF Calls
    <2>3. e.pc = "submit" /\ e.rows = sweep[s].rows /\ e.todo = Calls(funded)
      BY <1>3 DEF ASweep
    <2>4. f.pc = "release"
      BY DEF SweepIdle
    <2> HIDE DEF e, f
    <2>5. Apart(e) /\ Apart(f)
      BY <1>3, <2>1, <2>2, <2>3, <2>4 DEF Apart, OfTokens
    <2>6. ~SweepAt(s, "idle") /\ lock' = s
      BY <1>5, <2>1 DEF SweepAt
    <2>7. \A d \in Flushed : sweepTxHash'[d] # 0
      BY <1>6, <2>1, <2>6
    <2> QED BY <2>1, <2>5, <2>6, <2>7, RunKeepsFlushes
  <1>10. CASE Submit(s)
    <2> DEFINE flush(T) == [kind |-> "flush", call |-> T, rows |-> RowsOf(s, T),
                            state |-> "pending"]
    <2>1. PICK T \in sweep[s].todo :
            /\ Send(flush(T))
            /\ sweep' = [sweep EXCEPT ![s].call = T, ![s].tx = Len(txs) + 1, ![s].pc = "log"]
      BY <1>10 DEF Submit
    <2> DEFINE e == [sweep[s] EXCEPT !.call = T, !.tx = Len(txs) + 1, !.pc = "log"]
    <2>2. sweep[s].pc = "submit" /\ UNCHANGED <<deploy, sweepTxHash, lock>>
      BY <1>10 DEF Submit, SweepAt, tables
    <2>3. flush(T) \in Transaction /\ flush(T).rows = RowsOf(s, T)
      BY <1>3 DEF Transaction, TxState, ASweep, RowsOf, OfTokens
    <2>4. sweep' = [sweep EXCEPT ![s] = e]
      BY <2>1
    <2>5. /\ e.pc = "log" /\ e.rows = sweep[s].rows /\ e.tx = Len(txs) + 1
          /\ e.todo = sweep[s].todo /\ e.call = T
      BY <1>3 DEF ASweep
    <2> HIDE DEF e, flush
    <2>6. /\ DOMAIN txs' = DOMAIN txs \cup {Len(txs) + 1}
          /\ \A i \in DOMAIN txs : txs'[i] = txs[i]
          /\ txs'[Len(txs) + 1].rows = RowsOf(s, T)
      BY <1>1, <2>1, <2>3, SendExtends
    <2>7. /\ sweep'[s] = e
          /\ \A q \in Sweeper : q # s => sweep'[q] = sweep[q] /\ sweep[q].pc = "idle"
      BY <1>1, <1>5, <2>2, <2>4 DEF FlushInv, LockHeld, SweepAt
    <2>8. Flushed' = Flushed \cup RowsOf(s, T)
      BY <2>6 DEF Flushed
    <2>9. RowsOf(s, T) \cap Flushed = {}
      BY <1>3, <2>2 DEF Apart, RowsOf
    <2>10. LockHeld'
      BY <1>5, <2>2, <2>7 DEF LockHeld, SweepAt
    <2>11. FlushedIsMarked'
      <3>1. \A d \in Flushed : sweepTxHash[d] # 0
        BY <1>6, <2>2 DEF SweepAt
      <3>2. sweep'[s].pc = "log" /\ OfTokens(sweep'[s].rows, sweep'[s].call) = RowsOf(s, T)
        BY <2>5, <2>7 DEF RowsOf
      <3> QED BY <2>2, <2>8, <3>1, <3>2 DEF FlushedIsMarked, RowsOf
    <2>12. \A U \in e.todo \ {T} : OfTokens(e.rows, U) \cap Flushed' = {}
      <3> SUFFICES ASSUME NEW U \in sweep[s].todo, U # T
                   PROVE  OfTokens(sweep[s].rows, U) \cap Flushed' = {}
        BY <2>5
      <3>1. U \cap T = {} /\ OfTokens(sweep[s].rows, U) \cap Flushed = {}
        BY <1>3, <2>2 DEF Apart
      <3> QED BY <2>8, <3>1 DEF RowsOf, OfTokens
    <2>13. ASSUME NEW q \in Sweeper
           PROVE  Apart(sweep[q])'
      <3>1. CASE q = s
        BY <1>1, <1>3, <2>2, <2>5, <2>7, <2>12, <3>1 DEF Apart
      <3>2. CASE q # s
        BY <2>7, <3>2 DEF Apart
      <3> QED BY <3>1, <3>2
    <2>14. OneFlushPerDeposit'
      <3>1. \A i \in DOMAIN txs : txs[i].rows \cap RowsOf(s, T) = {}
        BY <2>9 DEF Flushed
      <3> QED BY <2>6, <3>1 DEF FlushInv, OneFlushPerDeposit
    <2> QED BY <2>2, <2>10, <2>11, <2>13, <2>14 DEF FlushInv, DeployHasSent
  <1>11. CASE Log(s)
    <2> DEFINE e == [sweep[s] EXCEPT !.pc = "mark"]
    <2>1. /\ sweep' = [sweep EXCEPT ![s] = e] /\ sweep[s].pc = "log"
          /\ UNCHANGED <<txs, deploy, sweepTxHash, lock>>
      BY <1>11 DEF Log, SweepGoto, SweepAt, chain
    <2>2. /\ e.pc = "mark" /\ e.rows = sweep[s].rows /\ e.todo = sweep[s].todo
          /\ e.call = sweep[s].call /\ e.tx = sweep[s].tx
      BY <1>3 DEF ASweep
    <2> HIDE DEF e
    <2>3. Apart(e)
      BY <1>3, <2>1, <2>2 DEF Apart
    <2>4. ~SweepAt(s, "idle") /\ lock' = s
      BY <1>5, <2>1 DEF SweepAt
    <2>5. \A d \in Flushed : sweepTxHash[d] # 0 \/ d \in OfTokens(e.rows, e.call)
      BY <2>2, <2>4, <2>1 DEF FlushInv, LockHeld, FlushedIsMarked, RowsOf, SweepAt
    <2> QED BY <2>1, <2>2, <2>3, <2>4, <2>5, RunKeepsFlushes
  <1>12. CASE Mark(s)
    <2> DEFINE e == [sweep[s] EXCEPT !.pc = "publish"]
    <2>1. /\ sweep' = [sweep EXCEPT ![s] = e] /\ sweep[s].pc = "mark"
          /\ SetHash(RowsOf(s, sweep[s].call), sweep[s].tx)
          /\ UNCHANGED <<txs, deploy, lock>>
      BY <1>12 DEF Mark, SweepGoto, SweepAt, chain
    <2>2. /\ e.pc = "publish" /\ e.rows = sweep[s].rows /\ e.todo = sweep[s].todo
          /\ e.call = sweep[s].call /\ e.tx = sweep[s].tx
      BY <1>3 DEF ASweep
    <2> HIDE DEF e
    <2>3. Apart(e)
      BY <1>3, <2>1, <2>2 DEF Apart
    <2>4. ~SweepAt(s, "idle") /\ lock = s
      BY <1>5, <2>1 DEF SweepAt
    <2>5. \A d \in Flushed : sweepTxHash[d] # 0 \/ d \in RowsOf(s, sweep[s].call)
      BY <2>4 DEF FlushInv, LockHeld, FlushedIsMarked, SweepAt
    <2>6. sweep[s].tx \in Nat /\ sweep[s].tx # 0
      BY <1>3, <2>1 DEF Apart, ASweep
    <2>7. \A d \in Deposit : sweepTxHash'[d] = IF d \in RowsOf(s, sweep[s].call)
                                               THEN sweep[s].tx ELSE sweepTxHash[d]
      BY <1>1, <2>1, <2>6, HashUpdate
    <2>8. \A d \in Flushed : sweepTxHash'[d] # 0
      BY <1>1, <2>5, <2>6, <2>7
    <2> QED BY <2>1, <2>3, <2>4, <2>8, RunKeepsFlushes
  <1>13. CASE Publish(s)
    <2>1. /\ EndCall(s, sweep[s].call) /\ sweep[s].pc = "publish"
          /\ UNCHANGED <<txs, deploy, sweepTxHash, lock>>
      BY <1>13 DEF Publish, SweepAt, tables, chain
    <2>2. PICK e \in ASweep :
              /\ sweep' = [sweep EXCEPT ![s] = e]
              /\ e.pc \in {"release", "submit"} /\ e.rows \subseteq sweep[s].rows
              /\ e.todo = sweep[s].todo \ {sweep[s].call}
      BY <2>1, EndCallForm DEF SweepInv, Typing
    <2>3. Apart(e)
      BY <1>3, <2>1, <2>2 DEF Apart, OfTokens
    <2>4. ~SweepAt(s, "idle") /\ lock' = s
      BY <1>5, <2>1 DEF SweepAt
    <2> QED BY <1>6, <2>1, <2>2, <2>3, <2>4, RunKeepsFlushes
  <1>14. CASE ReadLock(s) \/ DeleteLock(s)
    <2> DEFINE f == [SweepIdle EXCEPT !.pc = "delete"]
    <2>1. /\ \/ sweep' = [sweep EXCEPT ![s] = f] /\ lock' = lock
             \/ sweep' = [sweep EXCEPT ![s] = SweepIdle]
          /\ sweep[s].pc \in {"release", "delete"} /\ UNCHANGED <<txs, deploy, sweepTxHash>>
      BY <1>14 DEF ReadLock, DeleteLock, SweepAt, tables, chain
    <2>2. f.pc = "delete"
      BY DEF SweepIdle
    <2> HIDE DEF f
    <2>3. Apart(f) /\ Apart(SweepIdle)
      BY <1>4, <2>2 DEF Apart
    <2>4. ~SweepAt(s, "idle") /\ lock = s
      BY <1>5, <2>1 DEF SweepAt
    <2> QED BY <1>4, <1>6, <2>1, <2>2, <2>3, <2>4, RunKeepsFlushes
  <1> QED BY <1>2, <1>7, <1>8, <1>9, <1>10, <1>11, <1>12, <1>13, <1>14 DEF Sweep

\* Every step without outages.
LEMMA StepKeepsFlushes ==
    ASSUME ~Outages, SweepInv, FlushInv, [Next]_vars
    PROVE  FlushInv'
  <1>1. /\ ChainTyping /\ TablesTyping /\ deploy \in [Deployer -> ADeploy]
        /\ Flushed \subseteq Deposit /\ Len(txs) \in Nat
    BY FlushedAreDeposits DEF SweepInv, Typing, JobsTyping, ChainTyping
  <1>2. ASSUME UNCHANGED <<lock, sweep, deploy>>, UNCHANGED txs,
               \A d \in Deposit : sweepTxHash[d] # 0 => sweepTxHash'[d] # 0
        PROVE  FlushInv'
    BY <1>1, <1>2, OthersKeepFlushes DEF FlushInv, DeployHasSent
  <1>3. CASE ChainNext /\ UNCHANGED <<check, deploy, lock, sweep, recon>>
    <2>1. UNCHANGED sweepTxHash /\ DeployHasSent'
      BY <1>3 DEF ChainNext, tables, FlushInv, DeployHasSent
    <2>2. UNCHANGED txs \/ \E i \in DOMAIN txs, st \in TxState : Settle(i, st)
      BY <1>3 DEF ChainNext, MineNext, Transfer, MineDeploy, MineFlush, Lose, Undeploy, TxState
    <2>3. DOMAIN txs' = DOMAIN txs /\ \A i \in DOMAIN txs : txs'[i].rows = txs[i].rows
      BY <1>1, <2>2, SettleForm
    <2> QED BY <1>1, <1>3, <2>1, <2>3, OthersKeepFlushes
  <1>4. CASE TrackerNext /\ UNCHANGED <<deploy, lock, sweep, recon>>
    <2>1. UNCHANGED <<sweepTxHash, txs>>
      BY <1>4 DEF TrackerNext, Persist, Track, ReadConfirmations, WriteConfirmations, CheckFails,
                  tables, chain
    <2> QED BY <1>2, <1>4, <2>1
  <1>5. CASE DeployNext /\ UNCHANGED <<check, lock, sweep, recon>>
    <2>1. DeployHasSent
      BY DEF FlushInv
    <2>5. PICK q \in Deployer : Deploy(q)
      BY <1>5 DEF DeployNext, DeployFails
    <2>6. deploy[q] \in ADeploy
      BY <1>1
    <2>2. CASE SubmitDeploy(q)
      <3> DEFINE t == [kind |-> "deploy", call |-> {}, rows |-> {}, state |-> "pending"]
      <3>1. t \in Transaction /\ t.rows = {}
        BY DEF Transaction, TxState
      <3>2. /\ Send(t) /\ UNCHANGED sweepTxHash
            /\ deploy' = [deploy EXCEPT ![q] = [pc |-> "mark", tx |-> Len(txs) + 1]]
        BY <2>2 DEF SubmitDeploy, DeployStep, tables
      <3> HIDE DEF t
      <3>3. /\ DOMAIN txs' = DOMAIN txs \cup {Len(txs) + 1}
            /\ \A i \in DOMAIN txs : txs'[i] = txs[i]
            /\ txs'[Len(txs) + 1].rows = {}
        BY <1>1, <3>1, <3>2, SendExtends
      <3>4. DeployHasSent'
        BY <1>1, <2>1, <3>2 DEF DeployHasSent
      <3> QED BY <1>1, <1>5, <3>2, <3>3, <3>4, OthersKeepFlushes
    <2>3. CASE ReconcileDeploy(q)
      <3>1. PICK D : SetHash(D, deploy[q].tx)
        BY <2>3 DEF ReconcileDeploy
      <3>2. /\ deploy[q].tx \in Nat /\ deploy[q].tx # 0
            /\ deploy' = [deploy EXCEPT ![q] = DeployIdle] /\ UNCHANGED txs
        BY <2>1, <2>3, <2>6 DEF ReconcileDeploy, DeployStep, DeployHasSent, ADeploy, chain
      <3>3. \A d \in Deposit : sweepTxHash[d] # 0 => sweepTxHash'[d] # 0
        BY <1>1, <3>1, <3>2, HashUpdate
      <3>4. DeployHasSent'
        BY <1>1, <2>1, <3>2 DEF DeployHasSent, DeployIdle
      <3> QED BY <1>1, <1>5, <3>2, <3>3, <3>4, OthersKeepFlushes
    <2>4. CASE FindUndeployed(q) \/ MarkDeployed(q) \/ ReadCoinBalance(q)
      <3>1. UNCHANGED <<sweepTxHash, txs>>
        BY <2>4 DEF FindUndeployed, MarkDeployed, ReadCoinBalance, tables, chain
      <3>2. DeployHasSent'
        BY <1>1, <2>1, <2>4, <2>6 DEF FindUndeployed, MarkDeployed, ReadCoinBalance, DeployGoto,
                                      DeployStep, DeployIdle, DeployHasSent, ADeploy
      <3> QED BY <1>1, <1>5, <3>1, <3>2, OthersKeepFlushes
    <2> QED BY <2>2, <2>3, <2>4, <2>5 DEF Deploy
  <1>6. CASE SweepNext /\ UNCHANGED <<check, deploy, recon>>
    BY <1>6, SweepKeepsFlushes
  <1>7. CASE ReconNext /\ UNCHANGED <<check, deploy>>
    <2>1. PICK r \in Reconciler : Reconcile(r)
      BY <1>7 DEF ReconNext, ReconFails
    <2>2. UNCHANGED <<lock, sweep, txs>>
      BY <2>1 DEF Reconcile, ReadReceipt, UpdateGasTx, CascadeFailed, ReadPending, ReadBalances,
                  Cascade, ReconcileOrphans, chain
    <2>3. CASE ReconcileOrphans(r)
      <3>1. PICK D : SetHash(D, recon[r].tx)
        BY <2>3 DEF ReconcileOrphans
      <3>2. recon[r].tx \in DOMAIN txs
        BY <2>3 DEF ReconcileOrphans, ReconAt, SweepInv, ReceiptStays
      <3>3. recon[r].tx \in Nat /\ recon[r].tx # 0
        BY <1>1, <3>2 DEF ChainTyping
      <3>4. \A d \in Deposit : sweepTxHash[d] # 0 => sweepTxHash'[d] # 0
        BY <1>1, <3>1, <3>3, HashUpdate
      <3> QED BY <1>2, <1>7, <2>2, <3>4
    <2>4. CASE ~ReconcileOrphans(r)
      <3>1. UNCHANGED sweepTxHash
        BY <2>1, <2>4 DEF Reconcile, ReadReceipt, UpdateGasTx, CascadeFailed, ReadPending,
                          ReadBalances, Cascade, tables
      <3> QED BY <1>2, <1>7, <2>2, <3>1
    <2> QED BY <2>3, <2>4
  <1>8. CASE UNCHANGED vars
    BY <1>2, <1>8 DEF vars, tables, chain
  <1> QED BY <1>3, <1>4, <1>5, <1>6, <1>7, <1>8 DEF Next

\* executeSweep of sweep.service.ts: while no process dies or outlives the lock, and no
\* call fails, no two transactions are sent for one deposit.
THEOREM FlushedOnce == Spec => [](~Outages => OneFlushPerDeposit)
  <1>1. Init => (~Outages => FlushInv)
    <2> SUFFICES ASSUME Init PROVE FlushInv
      OBVIOUS
    <2>1. /\ txs = << >> /\ deploy = [q \in Deployer |-> DeployIdle]
          /\ sweep = [s \in Sweeper |-> SweepIdle] /\ SweepIdle.pc = "idle"
      BY DEF Init, ChainInit, DeployInit, SweepInit, SweepIdle
    <2>2. Flushed = {}
      BY <2>1 DEF Flushed
    <2> QED BY <2>1, <2>2 DEF FlushInv, LockHeld, FlushedIsMarked, Apart, DeployHasSent, DeployIdle,
                              OneFlushPerDeposit, SweepAt
  <1>2. SweepInv /\ (~Outages => FlushInv) /\ [Next]_vars => (~Outages => FlushInv)'
    BY StepKeepsFlushes
  <1>3. (~Outages => FlushInv) => (~Outages => OneFlushPerDeposit)
    BY DEF FlushInv
  <1> QED BY <1>1, <1>2, <1>3, InitInv, StepKeepsInv, PTL DEF Spec
=============================================================================
