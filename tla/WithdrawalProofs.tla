-------------------------- MODULE WithdrawalProofs --------------------------
(***************************************************************************)
(* Proofs about the withdrawal path, for every set of withdrawals, of      *)
(* requests and of workers and every number of attempts.                   *)
(***************************************************************************)
EXTENDS WithdrawalSystem, FiniteSetTheorems, TLAPS

-----------------------------------------------------------------------------
(* The invariant *)

Transaction == [w : Withdrawal, account : Account, seq : Nat, nonce : Nat,
                state : TxState, deep : BOOLEAN]

\* a job that may run again has attempts left
JobHasAttempts ==
    \A w \in Withdrawal :
        job[w].state \in {"none", "waiting", "active"} => job[w].made < MaxAttempts

\* co-sign requests are about an operation of their withdrawal; one that resumes
\* the withdrawal has answered it
OperationKnown ==
    /\ \A r \in Request : request[r].pc \in {"open", "suspend"} => request[r].w \in CoSigned
    /\ \A r \in Request : request[r].pc \in {"sign", "resume", "expire", "drop"} =>
        /\ request[r].op \in DOMAIN ops
        /\ ops[request[r].op].w = request[r].w
        /\ request[r].pc \in {"resume", "drop"} => ops[request[r].op].state # "pending"

\* mined transactions of an account are those with its lowest nonces
MinedOf(a) == {i \in DOMAIN txs : txs[i].account = a /\ Mined(txs[i])}

NonceOrder ==
    \A a \in Account :
        /\ \A i \in MinedOf(a) : txs[i].nonce < MinedCount(a)
        /\ \A i, j \in MinedOf(a) : txs[i].nonce = txs[j].nonce => i = j

\* a check that has not seen the block of its receipt orphaned is right about it
ReceiptIsCurrent ==
    \A w \in Withdrawal :
        confirm[w].state = "mined" => txs[confirm[w].tx].state = "ok"

\* a worker and a confirmation job hold a transaction of their withdrawal
OwnTransactions ==
    /\ \A k \in Worker : exec[k].pc \in Broadcasted => exec[k].tx \in Sent(exec[k].w)
    /\ \A w \in Withdrawal : confirm[w].state # "none" => confirm[w].tx \in Sent(w)

\* nothing of a withdrawal that is not co-signed happens before its approval
ApprovedFirst ==
    \A w \in Withdrawal :
        /\ status[w] = "none" => approvals[w] = 0
        /\ w \notin CoSigned /\ approvals[w] = 0 =>
            /\ status[w] # "approved" /\ Sent(w) = {}
            /\ \A k \in Worker : ~Executing(k, w)

\* the executor of a withdrawal is alone, and the status keeps others away
ClaimedIsTaken ==
    \A w \in Withdrawal : PlainlyApproved(w) =>
        \A k \in Worker : Executing(k, w) =>
            status[w] # "approved" /\ \A j \in Worker : Executing(j, w) => j = k

Once(w) == PlainlyApproved(w) /\ (source[w] = "gas_tank" \/ ~late[w])

\* what may still be sent was not sent
SendsOnce ==
    \A w \in Withdrawal : Once(w) =>
        /\ \A i, j \in Sent(w) : i = j
        /\ status[w] = "approved" => Sent(w) = {}
        /\ \A k \in Worker : Executing(k, w) /\ exec[k].pc \notin Broadcasted => Sent(w) = {}

RecordedFirst ==
    \A w \in Withdrawal : PlainlyApproved(w) /\ ~late[w] =>
        \A k \in Worker :
            exec[k].pc \in {"track", "publish"} /\ exec[k].w = w => exec[k].tx = txHash[w]

Executed ==
    [pc : ExecPc, w : Withdrawal, seq : Nat, nonce : Nat, tx : Nat,
     made : 0..MaxAttempts-1, lock : BOOLEAN]

Job ==
    [state : {"none", "waiting", "active", "ended"},
     made : 0..MaxAttempts, stalls : 0..MaxStalled]

Following ==
    [state : {"none", "tracking", "done"} \cup Checking, tx : Nat]

ApiTyping ==
    /\ status \in [Withdrawal -> Statuses]
    /\ source \in [Withdrawal -> Wallets]
    /\ request \in [Request -> {Idle} \cup [pc : RequestPc, w : Withdrawal, op : Nat]]
    /\ ops \in Seq(Operation)
    /\ approvals \in [Withdrawal -> Nat]
    /\ OperationKnown

WorkerTyping ==
    /\ polled \subseteq Withdrawal
    /\ job \in [Withdrawal -> Job]
    /\ exec \in [Worker -> {Free} \cup Executed]
    /\ txHash \in [Withdrawal -> Nat]
    /\ confirm \in [Withdrawal -> Following]
    /\ late \in [Withdrawal -> BOOLEAN]
    /\ txs \in Seq(Transaction)
    /\ \A w \in Withdrawal : txHash[w] <= Len(txs) /\ confirm[w].tx <= Len(txs)
    /\ \A k \in Worker : exec[k] # Free => exec[k].tx <= Len(txs)
    /\ JobHasAttempts

Typing == ApiTyping /\ WorkerTyping

WithdrawalInv ==
    /\ Typing /\ NonceOrder /\ OwnTransactions /\ ReceiptIsCurrent
    /\ ApprovedFirst /\ ClaimedIsTaken /\ SendsOnce /\ RecordedFirst /\ TrackedIsRecorded

-----------------------------------------------------------------------------
(* The chain *)

ChainInv == txs \in Seq(Transaction) /\ NonceOrder

\* a transaction stays that of its withdrawal, and what is paid and deep stays paid
Lasts ==
    /\ Len(txs') >= Len(txs)
    /\ \A i \in DOMAIN txs :
        /\ txs'[i].w = txs[i].w
        /\ txs[i].state = "ok" /\ txs[i].deep => txs'[i].state = "ok" /\ txs'[i].deep

\* the transactions are finitely many
LEMMA MinedFinite ==
    ASSUME txs \in Seq(Transaction), NEW a
    PROVE  /\ IsFiniteSet(MinedOf(a)) /\ MinedCount(a) = Cardinality(MinedOf(a))
           /\ MinedCount(a) \in Nat
  <1>1. IsFiniteSet(1..Len(txs))
    BY FS_Interval
  <1>2. MinedOf(a) \subseteq 1..Len(txs)
    BY DEF MinedOf
  <1>3. IsFiniteSet(MinedOf(a)) /\ Cardinality(MinedOf(a)) \in Nat
    BY <1>1, <1>2, FS_Subset, FS_CardinalityType
  <1> QED BY <1>3 DEF MinedCount, MinedOf

\* Sending replaces only transactions that are not mined.
LEMMA SubmitKeepsChain ==
    ASSUME ChainInv, NEW t \in Transaction, t.state = "pending", Submit(t)
    PROVE  ChainInv' /\ Lasts /\ Len(txs') = Len(txs) + 1 /\ txs'[Len(txs) + 1] = t
  <1> DEFINE replaced == [i \in DOMAIN txs |->
                            IF txs[i].account = t.account /\ txs[i].nonce = t.nonce
                            THEN [txs[i] EXCEPT !.state = "gone"] ELSE txs[i]]
  <1>1. txs \in Seq(Transaction) /\ txs' = Append(replaced, t) /\ t.nonce >= MinedCount(t.account)
    BY DEF ChainInv, Submit
  <1>2. \A i \in DOMAIN txs : txs[i] \in Transaction /\ replaced[i] \in Transaction
    <2> SUFFICES ASSUME NEW i \in DOMAIN txs
                 PROVE  txs[i] \in Transaction /\ replaced[i] \in Transaction
      OBVIOUS
    <2>1. txs[i] \in Transaction
      BY <1>1
    <2>2. [txs[i] EXCEPT !.state = "gone"] \in Transaction
      BY <2>1 DEF Transaction, TxState
    <2> QED BY <2>1, <2>2
  <1>3. replaced \in Seq(Transaction) /\ Len(replaced) = Len(txs)
    BY <1>1, <1>2
  <1>4. \A i \in MinedOf(t.account) : txs[i].nonce # t.nonce
    <2>1. t.account \in Account /\ t.nonce \in Nat /\ MinedCount(t.account) \in Nat
      BY <1>1, MinedFinite DEF Transaction
    <2>2. \A i \in MinedOf(t.account) : txs[i].nonce \in Nat /\ txs[i].nonce < MinedCount(t.account)
      BY <1>2, <2>1 DEF ChainInv, NonceOrder, MinedOf, Transaction
    <2> QED BY <1>1, <2>1, <2>2
  <1>5. \A i \in DOMAIN txs : /\ replaced[i].w = txs[i].w /\ replaced[i].account = txs[i].account
                              /\ replaced[i].nonce = txs[i].nonce
                              /\ Mined(replaced[i]) <=> Mined(txs[i])
                              /\ Mined(txs[i]) => replaced[i] = txs[i]
    <2> SUFFICES ASSUME NEW i \in DOMAIN txs
                 PROVE  /\ replaced[i].w = txs[i].w /\ replaced[i].account = txs[i].account
                        /\ replaced[i].nonce = txs[i].nonce
                        /\ Mined(replaced[i]) <=> Mined(txs[i])
                        /\ Mined(txs[i]) => replaced[i] = txs[i]
      OBVIOUS
    <2>1. CASE txs[i].account = t.account /\ txs[i].nonce = t.nonce
      <3>1. ~Mined(txs[i])
        BY <1>4, <2>1 DEF MinedOf
      <3>2. replaced[i] = [txs[i] EXCEPT !.state = "gone"]
        BY <2>1
      <3> QED BY <1>2, <3>1, <3>2 DEF Mined, Transaction
    <2>2. CASE ~ (txs[i].account = t.account /\ txs[i].nonce = t.nonce)
      BY <2>2
    <2> QED BY <2>1, <2>2
  <1> HIDE DEF replaced
  <1>6. /\ txs' \in Seq(Transaction) /\ Len(txs') = Len(txs) + 1
        /\ DOMAIN txs = 1..Len(txs) /\ DOMAIN txs' = 1..Len(txs) + 1
        /\ \A i \in DOMAIN txs : txs'[i] = replaced[i]
        /\ txs'[Len(txs) + 1] = t
    BY <1>1, <1>3
  <1>7. ~Mined(t)
    BY DEF Mined
  <1>8. \A a : MinedOf(a)' = MinedOf(a) /\ MinedOf(a) \subseteq DOMAIN txs
    BY <1>5, <1>6, <1>7 DEF MinedOf
  <1>9. \A a : MinedCount(a)' = MinedCount(a)
    BY <1>8 DEF MinedCount, MinedOf
  <1>10. NonceOrder'
    <2>1. \A i \in DOMAIN txs : txs'[i].nonce = txs[i].nonce
      BY <1>5, <1>6
    <2> QED BY <1>8, <1>9, <2>1 DEF ChainInv, NonceOrder
  <1>11. Lasts
    BY <1>5, <1>6 DEF Lasts, Mined
  <1> QED BY <1>6, <1>10, <1>11 DEF ChainInv

\* The same, of one that is mined.
LEMMA SubmitSparesMined ==
    ASSUME ChainInv, NEW t \in Transaction, Submit(t)
    PROVE  \A i \in DOMAIN txs : Mined(txs[i]) => txs'[i] = txs[i]
  <1> SUFFICES ASSUME NEW i \in DOMAIN txs, Mined(txs[i]) PROVE txs'[i] = txs[i]
    OBVIOUS
  <1> DEFINE replaced == [j \in DOMAIN txs |->
                            IF txs[j].account = t.account /\ txs[j].nonce = t.nonce
                            THEN [txs[j] EXCEPT !.state = "gone"] ELSE txs[j]]
  <1>1. txs' = Append(replaced, t) /\ t.nonce >= MinedCount(t.account)
    BY DEF Submit
  <1>2. txs[i] \in Transaction /\ txs[i].nonce \in Nat /\ t.account \in Account /\ t.nonce \in Nat
    <2>1. txs[i] \in Transaction
      BY DEF ChainInv
    <2> QED BY <2>1 DEF Transaction
  <1>3. ~ (txs[i].account = t.account /\ txs[i].nonce = t.nonce)
    <2> SUFFICES ASSUME txs[i].account = t.account, txs[i].nonce = t.nonce PROVE FALSE
      OBVIOUS
    <2>1. txs[i].nonce < MinedCount(t.account) /\ MinedCount(t.account) \in Nat
      BY <1>2, MinedFinite DEF ChainInv, NonceOrder, MinedOf
    <2> QED BY <1>1, <1>2, <2>1
  <1>4. replaced[i] = txs[i]
    BY <1>3
  <1>5. replaced \in Seq(Transaction) /\ DOMAIN replaced = DOMAIN txs
    <2>1. \A j \in DOMAIN txs : txs[j] \in Transaction
      BY DEF ChainInv
    <2>2. \A j \in DOMAIN txs : [txs[j] EXCEPT !.state = "gone"] \in Transaction
      BY <2>1 DEF Transaction, TxState
    <2>3. \A j \in DOMAIN txs : replaced[j] \in Transaction
      BY <2>1, <2>2
    <2>4. DOMAIN txs = 1..Len(txs) /\ Len(txs) \in Nat
      BY DEF ChainInv
    <2> QED BY <2>3, <2>4
  <1> HIDE DEF replaced
  <1>6. txs'[i] = replaced[i]
    BY <1>1, <1>5
  <1> QED BY <1>4, <1>6

\* A step of the chain changes one transaction.
LEMMA ChainStep ==
    ASSUME ChainInv, ChainNext
    PROVE  \E i \in DOMAIN txs : \E t \in Transaction :
              /\ txs' = [txs EXCEPT ![i] = t]
              /\ t.w = txs[i].w /\ t.account = txs[i].account /\ t.nonce = txs[i].nonce
              /\ \/ Mined(t) /\ ~Mined(txs[i]) /\ t.nonce = MinedCount(t.account)
                 \/ Mined(t) /\ t.state = txs[i].state /\ t.deep
                 \/ ~Mined(t) /\ ~Mined(txs[i])
                 \/ /\ ~Mined(t) /\ Mined(txs[i]) /\ ~txs[i].deep
                    /\ \A j \in DOMAIN txs : Before(i, j) => ~Mined(txs[j])
  <1>1. \A i \in DOMAIN txs : txs[i] \in Transaction
    BY DEF ChainInv
  <1>2. PICK i \in DOMAIN txs : Mine(i) \/ Bury(i) \/ Orphan(i) \/ Evict(i)
    BY DEF ChainNext
  <1>3. CASE Mine(i)
    <2>1. PICK s \in {"ok", "reverted"} : txs' = [txs EXCEPT ![i].state = s]
      BY <1>3 DEF Mine
    <2> DEFINE t == [txs[i] EXCEPT !.state = s]
    <2>2. t \in Transaction /\ t.w = txs[i].w /\ t.account = txs[i].account
          /\ t.nonce = txs[i].nonce /\ Mined(t) /\ txs' = [txs EXCEPT ![i] = t]
      BY <1>1, <2>1 DEF Transaction, TxState, Mined
    <2>3. ~Mined(txs[i]) /\ txs[i].nonce = MinedCount(txs[i].account)
      BY <1>3 DEF Mine, Mined
    <2> QED BY <2>2, <2>3
  <1>4. CASE Bury(i)
    <2> DEFINE t == [txs[i] EXCEPT !.deep = TRUE]
    <2>2. t \in Transaction /\ t.w = txs[i].w /\ t.account = txs[i].account /\ t.deep
          /\ t.nonce = txs[i].nonce /\ t.state = txs[i].state /\ txs' = [txs EXCEPT ![i] = t]
      BY <1>1, <1>4 DEF Transaction, Bury
    <2> QED BY <1>4, <2>2 DEF Bury, Mined
  <1>5. CASE Orphan(i)
    <2> DEFINE t == [txs[i] EXCEPT !.state = "pending"]
    <2>2. t \in Transaction /\ t.w = txs[i].w /\ t.account = txs[i].account
          /\ t.nonce = txs[i].nonce /\ ~Mined(t) /\ txs' = [txs EXCEPT ![i] = t]
      BY <1>1, <1>5 DEF Transaction, TxState, Mined, Orphan
    <2> QED BY <1>5, <2>2 DEF Orphan
  <1>6. CASE Evict(i)
    <2> DEFINE t == [txs[i] EXCEPT !.state = "gone"]
    <2>2. t \in Transaction /\ t.w = txs[i].w /\ t.account = txs[i].account
          /\ t.nonce = txs[i].nonce /\ ~Mined(t) /\ txs' = [txs EXCEPT ![i] = t]
      BY <1>1, <1>6 DEF Transaction, TxState, Mined, Evict
    <2> QED BY <1>6, <2>2 DEF Evict, Mined
  <1> QED BY <1>2, <1>3, <1>4, <1>5, <1>6

\* Blocks, reorganisations and evictions keep the order, and what is deep.
LEMMA ChainKeepsChain ==
    ASSUME ChainInv, ChainNext
    PROVE  ChainInv' /\ Lasts /\ Len(txs') = Len(txs)
  <1>1. PICK i \in DOMAIN txs, t \in Transaction :
              /\ txs' = [txs EXCEPT ![i] = t]
              /\ t.w = txs[i].w /\ t.account = txs[i].account /\ t.nonce = txs[i].nonce
              /\ \/ Mined(t) /\ ~Mined(txs[i]) /\ t.nonce = MinedCount(t.account)
                 \/ Mined(t) /\ t.state = txs[i].state /\ t.deep
                 \/ ~Mined(t) /\ ~Mined(txs[i])
                 \/ /\ ~Mined(t) /\ Mined(txs[i]) /\ ~txs[i].deep
                    /\ \A j \in DOMAIN txs : Before(i, j) => ~Mined(txs[j])
    BY ChainStep
  <1>2. /\ txs \in Seq(Transaction) /\ txs' \in Seq(Transaction)
        /\ Len(txs') = Len(txs) /\ DOMAIN txs' = DOMAIN txs
        /\ txs'[i] = t /\ \A j \in DOMAIN txs : j # i => txs'[j] = txs[j]
        /\ \A j \in DOMAIN txs : txs'[j].nonce = txs[j].nonce /\ txs[j].nonce \in Nat
    <2>1. txs \in Seq(Transaction) /\ DOMAIN txs = 1..Len(txs) /\ i \in 1..Len(txs)
      BY DEF ChainInv
    <2>2. txs' \in Seq(Transaction) /\ Len(txs') = Len(txs) /\ DOMAIN txs' = DOMAIN txs
      BY <1>1, <2>1
    <2>3. txs'[i] = t /\ \A j \in DOMAIN txs : j # i => txs'[j] = txs[j]
      BY <1>1, <2>1
    <2>4. \A j \in DOMAIN txs : txs[j].nonce \in Nat
      <3>1. \A j \in DOMAIN txs : txs[j] \in Transaction
        BY <2>1
      <3> QED BY <3>1 DEF Transaction
    <2> QED BY <1>1, <2>1, <2>2, <2>3, <2>4
  <1>3. PICK a \in Account : a = t.account
    BY DEF Transaction
  <1>4. Lasts
    <2>1. txs[i].state = "ok" /\ txs[i].deep => t.state = "ok" /\ t.deep
      BY <1>1 DEF Mined
    <2> QED BY <1>1, <1>2, <2>1 DEF Lasts
  <1>5. \A b : /\ IsFiniteSet(MinedOf(b)) /\ MinedOf(b) \subseteq DOMAIN txs
              /\ MinedCount(b) = Cardinality(MinedOf(b)) /\ MinedCount(b) \in Nat
    BY <1>2, MinedFinite DEF MinedOf
  <1>6. \A b : MinedCount(b)' = Cardinality(MinedOf(b)')
    BY DEF MinedCount, MinedOf
  <1>7. \A b \in Account : b # a => MinedOf(b)' = MinedOf(b)
    BY <1>1, <1>2, <1>3 DEF MinedOf
  <1>8. ASSUME \A k \in MinedOf(a)' : txs'[k].nonce < MinedCount(a)',
               \A j, k \in MinedOf(a)' : txs'[j].nonce = txs'[k].nonce => j = k
        PROVE  ChainInv'
    <2>1. \A b \in Account : b # a => MinedCount(b)' = MinedCount(b)
      BY <1>5, <1>6, <1>7
    <2>2. NonceOrder'
      BY <1>2, <1>5, <1>7, <1>8, <2>1 DEF ChainInv, NonceOrder
    <2> QED BY <1>2, <2>2 DEF ChainInv
  <1>9. /\ \A k \in MinedOf(a) : txs[k].nonce < MinedCount(a)
        /\ \A j, k \in MinedOf(a) : txs[j].nonce = txs[k].nonce => j = k
    BY DEF ChainInv, NonceOrder
  <1>10. CASE Mined(t) /\ ~Mined(txs[i]) /\ t.nonce = MinedCount(t.account)
    <2>1. MinedOf(a)' = MinedOf(a) \cup {i} /\ i \notin MinedOf(a)
      BY <1>1, <1>2, <1>3, <1>10 DEF MinedOf
    <2>2. MinedCount(a)' = MinedCount(a) + 1
      BY <1>5, <1>6, <2>1, FS_AddElement
    <2>3. txs'[i].nonce = MinedCount(a)
      BY <1>2, <1>3, <1>10
    <2>4. \A k \in MinedOf(a) : txs'[k].nonce < MinedCount(a)
      BY <1>2, <1>5, <1>9
    <2>5. \A k \in MinedOf(a)' : txs'[k].nonce < MinedCount(a)'
      BY <1>2, <1>5, <2>1, <2>2, <2>3, <2>4
    <2>6. \A j, k \in MinedOf(a)' : txs'[j].nonce = txs'[k].nonce => j = k
      BY <1>2, <1>5, <1>9, <2>1, <2>3, <2>4
    <2> QED BY <1>2, <1>4, <1>8, <2>5, <2>6
  <1>11. CASE Mined(t) <=> Mined(txs[i])
    <2>1. MinedOf(a)' = MinedOf(a)
      BY <1>1, <1>2, <1>3, <1>11 DEF MinedOf
    <2>2. MinedCount(a)' = MinedCount(a)
      BY <1>5, <1>6, <2>1
    <2> QED BY <1>2, <1>4, <1>5, <1>8, <1>9, <2>1, <2>2
  <1>12. CASE ~Mined(t) /\ Mined(txs[i]) /\ \A j \in DOMAIN txs : Before(i, j) => ~Mined(txs[j])
    <2>1. MinedOf(a)' = MinedOf(a) \ {i} /\ i \in MinedOf(a)
      BY <1>1, <1>2, <1>3, <1>12 DEF MinedOf
    <2>2. MinedCount(a)' = MinedCount(a) - 1
      BY <1>5, <1>6, <2>1, FS_RemoveElement
    <2>3. \A k \in MinedOf(a) : k # i => txs[k].nonce < txs[i].nonce
      <3> SUFFICES ASSUME NEW k \in MinedOf(a), k # i PROVE txs[k].nonce < txs[i].nonce
        OBVIOUS
      <3>1. ~Before(i, k)
        BY <1>12 DEF MinedOf
      <3>2. txs[k].nonce # txs[i].nonce
        BY <1>9, <2>1
      <3> QED BY <1>2, <1>5, <2>1, <3>1, <3>2 DEF Before, MinedOf
    <2>4. \A k \in MinedOf(a)' : txs'[k].nonce < MinedCount(a)'
      BY <1>2, <1>5, <1>9, <2>1, <2>2, <2>3
    <2>5. \A j, k \in MinedOf(a)' : txs'[j].nonce = txs'[k].nonce => j = k
      BY <1>2, <1>5, <1>9, <2>1
    <2> QED BY <1>2, <1>4, <1>8, <2>4, <2>5
  <1> QED
    <2>1. \/ Mined(t) /\ t.state = txs[i].state /\ t.deep
          \/ ~Mined(t) /\ ~Mined(txs[i])
          => (Mined(t) <=> Mined(txs[i]))
      BY DEF Mined
    <2> QED BY <1>1, <1>10, <1>11, <1>12, <2>1
-----------------------------------------------------------------------------
(* Types *)

\* What is proved is the type invariant of the system, and more.
LEMMA TypingIsTypeOK == Typing => TypeOK
  <1> SUFFICES ASSUME Typing PROVE TypeOK
    OBVIOUS
  <1>1. txHash \in [Withdrawal -> 0..Len(txs)]
    BY DEF Typing, WorkerTyping
  <1>2. confirm \in [Withdrawal -> [state : {"none", "tracking", "done"} \cup Checking,
                                    tx : 0..Len(txs)]]
    <2> SUFFICES ASSUME NEW w \in Withdrawal
                 PROVE  confirm[w] \in [state : {"none", "tracking", "done"} \cup Checking,
                                        tx : 0..Len(txs)]
      BY DEF Typing, WorkerTyping
    <2>1. confirm[w] \in Following /\ confirm[w].tx <= Len(txs) /\ Len(txs) \in Nat
      BY DEF Typing, WorkerTyping
    <2> QED BY <2>1 DEF Following
  <1> QED
    BY <1>1, <1>2 DEF Typing, ApiTyping, WorkerTyping, TypeOK, Job, Executed, Transaction

\* the form of a request that is under way
LEMMA RequestForm ==
    ASSUME ApiTyping, NEW r \in Request, request[r] # Idle
    PROVE  request[r] \in [pc : RequestPc, w : Withdrawal, op : Nat]
  BY DEF ApiTyping

\* the form of an execution that is under way
LEMMA ExecForm ==
    ASSUME WorkerTyping, NEW k \in Worker, exec[k] # Free
    PROVE  exec[k] \in Executed
  BY DEF WorkerTyping

\* what is at a step is under way
LEMMA PcForms ==
    ASSUME ApiTyping, WorkerTyping
    PROVE  /\ \A r \in Request : request[r].pc \in RequestPc => request[r] # Idle
           /\ \A k \in Worker : exec[k].pc \in ExecPc => exec[k] # Free
  BY DEF Idle, Free, RequestPc, ExecPc

\* the first rows and jobs have their types
LEMMA InitTyping == Init => Typing
  <1> SUFFICES ASSUME Init PROVE Typing
    OBVIOUS
  <1>1. ApiTyping
    BY DEF Init, ApiInit, ApiTyping, OperationKnown, Statuses, Wallets, Idle
  <1>2. WorkerTyping
    BY WorkerAssumption DEF Init, WorkerInit, WorkerTyping, JobHasAttempts, Job, NoJob, NotFollowed, Following,
      Free
  <1> QED BY <1>1, <1>2 DEF Typing

\* a request that begins, goes on or ends
LEMMA BeginTyping ==
    ASSUME ApiTyping, NEW r \in Request, NEW q \in {Idle} \cup [pc : RequestPc, w : Withdrawal, op : Nat],
           request' = [request EXCEPT ![r] = q],
           q # Idle => /\ q.pc \in {"open", "suspend"} => q.w \in CoSigned
                       /\ q.pc \in {"sign", "resume", "expire", "drop"} =>
                            /\ q.op \in DOMAIN ops'
                            /\ ops'[q.op].w = q.w
                            /\ q.pc \in {"resume", "drop"} => ops'[q.op].state # "pending",
           status' \in [Withdrawal -> Statuses], source' \in [Withdrawal -> Wallets],
           approvals' \in [Withdrawal -> Nat],
           ops' \in Seq(Operation), DOMAIN ops \subseteq DOMAIN ops',
           \A o \in DOMAIN ops : /\ ops'[o].w = ops[o].w
                                 /\ ops[o].state # "pending" => ops'[o].state # "pending"
    PROVE  ApiTyping'
  <1>1. request' \in [Request -> {Idle} \cup [pc : RequestPc, w : Withdrawal, op : Nat]]
    BY DEF ApiTyping
  <1>2. OperationKnown'
    <2> SUFFICES ASSUME NEW p \in Request
                 PROVE  /\ request'[p].pc \in {"open", "suspend"} => request'[p].w \in CoSigned
                        /\ request'[p].pc \in {"sign", "resume", "expire", "drop"} =>
                            /\ request'[p].op \in DOMAIN ops'
                            /\ ops'[request'[p].op].w = request'[p].w
                            /\ request'[p].pc \in {"resume", "drop"} => ops'[request'[p].op].state # "pending"
      BY DEF OperationKnown
    <2>1. CASE p = r
      BY <2>1 DEF ApiTyping, Idle
    <2>2. CASE p # r
      <3>1. request'[p] = request[p]
        BY <2>2 DEF ApiTyping
      <3>2. /\ request[p].pc \in {"open", "suspend"} => request[p].w \in CoSigned
            /\ request[p].pc \in {"sign", "resume", "expire", "drop"} =>
                /\ request[p].op \in DOMAIN ops
                /\ ops[request[p].op].w = request[p].w
                /\ request[p].pc \in {"resume", "drop"} => ops[request[p].op].state # "pending"
        BY DEF ApiTyping, OperationKnown
      <3> QED BY <3>1, <3>2
    <2> QED BY <2>1, <2>2
  <1> QED BY <1>1, <1>2 DEF ApiTyping

\* Each call of a request keeps the types of the tables.
LEMMA ApiKeepsTyping ==
    ASSUME Typing, ApiNext, UNCHANGED workerVars
    PROVE  Typing'
  <1> USE DEF Statuses, Wallets
  <1>1. ApiTyping
    BY DEF Typing
  <1>2. /\ status \in [Withdrawal -> Statuses] /\ source \in [Withdrawal -> Wallets]
        /\ approvals \in [Withdrawal -> Nat] /\ ops \in Seq(Operation)
    BY <1>1 DEF ApiTyping
  <1>3. ASSUME NEW r \in Request, NEW w \in Withdrawal,
               CreateRead(r, w) \/ ApproveRead(r, w) \/ CancelRead(r, w)
        PROVE  ApiTyping'
    <2>1. PICK pc \in {"create", "approve", "cancel"} : request' = [request EXCEPT ![r] = Pending(pc, w, 0)]
      BY <1>3 DEF CreateRead, ApproveRead, CancelRead, Begin
    <2>2. Pending(pc, w, 0) \in [pc : RequestPc, w : Withdrawal, op : Nat]
      BY DEF Pending, RequestPc
    <2>3. UNCHANGED <<source, status, ops, approvals>>
      BY <1>3 DEF CreateRead, ApproveRead, CancelRead
    <2> QED BY <1>1, <1>2, <2>1, <2>2, <2>3, BeginTyping DEF Pending
  <1>4. ASSUME NEW r \in Request, NEW o \in DOMAIN ops, SignRead(r, o) \/ ExpireRead(r, o)
        PROVE  ApiTyping'
    <2>1. PICK pc \in {"sign", "expire"} : request' = [request EXCEPT ![r] = Pending(pc, ops[o].w, o)]
      BY <1>4 DEF SignRead, ExpireRead, Begin
    <2>2. ops[o] \in Operation /\ o \in Nat
      BY <1>2
    <2>3. Pending(pc, ops[o].w, o) \in [pc : RequestPc, w : Withdrawal, op : Nat]
      BY <2>2, WithdrawalAssumption DEF Pending, RequestPc, Operation
    <2>4. UNCHANGED <<source, status, ops, approvals>>
      BY <1>4 DEF SignRead, ExpireRead
    <2> QED BY <1>1, <1>2, <2>1, <2>3, <2>4, BeginTyping DEF Pending
  <1>5. ASSUME NEW r \in Request, request[r] # Idle
        PROVE  /\ request[r].w \in Withdrawal
               /\ \A pc \in RequestPc : [request[r] EXCEPT !.pc = pc] \in [pc : RequestPc, w : Withdrawal, op : Nat]
    BY <1>1, <1>5, RequestForm
  <1>6. ASSUME NEW r \in Request,
               \/ CreateInsert(r) \/ CancelWrite(r) \/ SuspendWithdrawal(r)
               \/ ResumeWithdrawal(r) \/ CancelExpired(r) \/ Abandon(r)
        PROVE  ApiTyping'
    <2>1. request' = [request EXCEPT ![r] = Idle] /\ UNCHANGED <<ops, approvals>>
      BY <1>6 DEF CreateInsert, CancelWrite, SuspendWithdrawal, ResumeWithdrawal, CancelExpired,
        Abandon, End
    <2>2. status' \in [Withdrawal -> Statuses] /\ source' \in [Withdrawal -> Wallets]
      BY <1>2, <1>6 DEF CreateInsert, CancelWrite, SuspendWithdrawal, ResumeWithdrawal,
        CancelExpired, Abandon, SetStatus, CompareAndSet
    <2> QED BY <1>1, <1>2, <2>1, <2>2, BeginTyping DEF Idle
  <1>7. ASSUME NEW r \in Request, ApproveWrite(r)
        PROVE  ApiTyping'
    <2>1. request[r] # Idle /\ request[r].w \in Withdrawal
      BY <1>5, <1>7 DEF ApproveWrite, At, Idle
    <2>2. approvals' \in [Withdrawal -> Nat] /\ status' \in [Withdrawal -> Statuses]
          /\ UNCHANGED <<source, ops>>
      BY <1>2, <1>7, <2>1 DEF ApproveWrite, SetStatus
    <2>3. CASE request[r].w \in CoSigned
      <3> DEFINE q == [request[r] EXCEPT !.pc = "open"]
      <3>1. request' = [request EXCEPT ![r] = q]
        BY <1>7, <2>3 DEF ApproveWrite, Advance
      <3>2. q \in [pc : RequestPc, w : Withdrawal, op : Nat] /\ q.w = request[r].w /\ q.pc = "open"
        BY <1>1, <2>1, RequestForm DEF RequestPc
      <3> QED BY <1>1, <1>2, <2>2, <2>3, <3>1, <3>2, BeginTyping
    <2>4. CASE request[r].w \notin CoSigned
      <3>1. request' = [request EXCEPT ![r] = Idle]
        BY <1>7, <2>4 DEF ApproveWrite, End
      <3> QED BY <1>1, <1>2, <2>2, <3>1, BeginTyping
    <2> QED BY <2>3, <2>4
  <1>8. ASSUME NEW r \in Request, OpenOperation(r)
        PROVE  ApiTyping'
    <2> DEFINE q == [request[r] EXCEPT !.pc = "suspend"]
    <2>1. request[r] # Idle /\ request[r].w \in CoSigned
      BY <1>1, <1>8 DEF OpenOperation, At, Idle, ApiTyping, OperationKnown
    <2>2. q \in [pc : RequestPc, w : Withdrawal, op : Nat] /\ q.w = request[r].w /\ q.pc = "suspend"
      BY <1>1, <2>1, RequestForm DEF RequestPc
    <2>3. request' = [request EXCEPT ![r] = q] /\ UNCHANGED <<source, status, approvals>>
      BY <1>8 DEF OpenOperation, Advance
    <2>4. [w |-> request[r].w, state |-> "pending", stale |-> FALSE] \in Operation
      BY <2>1 DEF Operation
    <2>5. /\ ops' \in Seq(Operation) /\ DOMAIN ops \subseteq DOMAIN ops'
          /\ \A o \in DOMAIN ops : ops'[o] = ops[o]
      BY <1>2, <1>8, <2>4 DEF OpenOperation
    <2> HIDE DEF q
    <2> QED BY <1>1, <1>2, <2>1, <2>2, <2>3, <2>5, BeginTyping
  <1>9. ASSUME NEW r \in Request, SignOperation(r) \/ ExpireOperation(r)
        PROVE  ApiTyping'
    <2>1. PICK pc \in {"resume", "drop"}, state \in {"signed", "expired"} :
            /\ request' = [request EXCEPT ![r] = [request[r] EXCEPT !.pc = pc]]
            /\ ops' = [ops EXCEPT ![request[r].op] = [ops[request[r].op] EXCEPT !.state = state]]
            /\ UNCHANGED <<source, status, approvals>>
      BY <1>9 DEF SignOperation, ExpireOperation, Advance
    <2> DEFINE q == [request[r] EXCEPT !.pc = pc]
               o == request[r].op
    <2>2. request[r] # Idle /\ o \in DOMAIN ops /\ ops[o].w = request[r].w
      BY <1>1, <1>9 DEF SignOperation, ExpireOperation, At, Idle, ApiTyping, OperationKnown
    <2>3. q \in [pc : RequestPc, w : Withdrawal, op : Nat] /\ q.w = request[r].w /\ q.pc = pc /\ q.op = o
      BY <1>1, <2>2, RequestForm DEF RequestPc
    <2>4. ops[o] \in Operation
      BY <1>2, <2>2
    <2>5. [ops[o] EXCEPT !.state = state] \in Operation
      BY <2>4 DEF Operation
    <2>6. /\ ops' \in Seq(Operation) /\ DOMAIN ops' = DOMAIN ops
          /\ \A x \in DOMAIN ops : x # o => ops'[x] = ops[x]
          /\ ops'[o] = [ops[o] EXCEPT !.state = state]
      BY <1>2, <2>1, <2>2, <2>5
    <2>7. ops'[o].w = ops[o].w /\ ops'[o].state # "pending"
      BY <2>4, <2>6 DEF Operation
    <2>8. \A x \in DOMAIN ops : /\ ops'[x].w = ops[x].w
                                /\ ops[x].state # "pending" => ops'[x].state # "pending"
      BY <2>6, <2>7
    <2> HIDE DEF q, o
    <2> QED BY <1>1, <1>2, <2>1, <2>2, <2>3, <2>6, <2>7, <2>8, BeginTyping DEF q, o
  <1>10. ASSUME NEW o \in DOMAIN ops, Age(o)
        PROVE  ApiTyping'
    <2>1. ops[o] \in Operation /\ ops' = [ops EXCEPT ![o] = [ops[o] EXCEPT !.stale = TRUE]]
      BY <1>2, <1>10 DEF Age
    <2>2. [ops[o] EXCEPT !.stale = TRUE] \in Operation
      BY <2>1 DEF Operation
    <2>3. /\ ops' \in Seq(Operation) /\ DOMAIN ops' = DOMAIN ops
          /\ \A x \in DOMAIN ops : ops'[x].w = ops[x].w /\ ops'[x].state = ops[x].state
      BY <1>2, <2>1, <2>2 DEF Operation
    <2> QED BY <1>1, <1>10, <2>3 DEF Age, ApiTyping, OperationKnown
  <1> QED
    <2>1. WorkerTyping'
      BY DEF Typing, workerVars, WorkerTyping, JobHasAttempts
    <2> QED BY <1>3, <1>4, <1>6, <1>7, <1>8, <1>9, <1>10, <2>1 DEF ApiNext, Typing

\* a job that changes
LEMMA JobTyping ==
    ASSUME WorkerTyping, NEW w \in Withdrawal, NEW j \in Job,
           j.state \in {"none", "waiting", "active"} => j.made < MaxAttempts,
           job' = [job EXCEPT ![w] = j]
    PROVE  job' \in [Withdrawal -> Job] /\ JobHasAttempts'
  BY DEF WorkerTyping, JobHasAttempts

\* an ended job is one that needs no attempts
LEMMA EndedIsJob == EndedJob \in Job /\ EndedJob.state = "ended"
  BY WorkerAssumption DEF EndedJob, Job

\* the end of a job
LEMMA JobEndsTyping ==
    ASSUME WorkerTyping, NEW k \in Worker, exec[k] # Free, JobEnds(k)
    PROVE  job' \in [Withdrawal -> Job] /\ JobHasAttempts'
  <1>1. exec[k].w \in Withdrawal
    BY ExecForm DEF Executed
  <1> DEFINE w == exec[k].w
  <1>2. job' = [job EXCEPT ![w] = EndedJob] \/ job' = job
    BY DEF JobEnds
  <1>4. CASE job' = [job EXCEPT ![w] = EndedJob]
    BY <1>1, <1>4, EndedIsJob, JobTyping
  <1>5. CASE job' = job
    BY <1>5 DEF WorkerTyping, JobHasAttempts
  <1> QED BY <1>2, <1>4, <1>5

\* a worker that begins, goes on or leaves
LEMMA ExecTyping ==
    ASSUME WorkerTyping, NEW k \in Worker, NEW e \in {Free} \cup Executed,
           exec' = [exec EXCEPT ![k] = e], e # Free => e.tx <= Len(txs'),
           UNCHANGED polled,
           job' \in [Withdrawal -> Job], JobHasAttempts',
           txs' \in Seq(Transaction), Len(txs') >= Len(txs),
           txHash' \in [Withdrawal -> Nat], confirm' \in [Withdrawal -> Following],
           late' \in [Withdrawal -> BOOLEAN],
           \A w \in Withdrawal : txHash'[w] <= Len(txs') /\ confirm'[w].tx <= Len(txs')
    PROVE  WorkerTyping'
  <1>1. exec' \in [Worker -> {Free} \cup Executed]
    BY DEF WorkerTyping
  <1>2. ASSUME NEW j \in Worker, exec'[j] # Free
        PROVE  exec'[j].tx <= Len(txs')
    <2>1. CASE j = k
      BY <1>2, <2>1 DEF WorkerTyping
    <2>2. CASE j # k
      <3>1. exec'[j] = exec[j] /\ exec[j] \in {Free} \cup Executed
        BY <2>2 DEF WorkerTyping
      <3>2. exec[j].tx <= Len(txs) /\ exec[j].tx \in Nat
        BY <1>2, <3>1 DEF WorkerTyping, Executed
      <3> QED BY <3>1, <3>2 DEF WorkerTyping
    <2> QED BY <2>1, <2>2
  <1> QED BY <1>1, <1>2 DEF WorkerTyping

\* What else the worker changes, with the workers as they are.
LEMMA RestTyping ==
    ASSUME WorkerTyping, UNCHANGED exec,
           polled' \subseteq Withdrawal,
           job' \in [Withdrawal -> Job], JobHasAttempts',
           txs' \in Seq(Transaction), Len(txs') >= Len(txs),
           confirm' \in [Withdrawal -> Following],
           \A w \in Withdrawal : confirm'[w].tx <= Len(txs'),
           UNCHANGED <<txHash, late>>
    PROVE  WorkerTyping'
  <1>1. \A k \in Worker : exec[k] # Free => exec[k].tx \in Nat
    BY ExecForm DEF Executed
  <1> QED BY <1>1 DEF WorkerTyping

\* the bounds hold for what does not change
LEMMA BoundsLast ==
    ASSUME WorkerTyping, txs' \in Seq(Transaction), Len(txs') >= Len(txs)
    PROVE  \A w \in Withdrawal : txHash[w] <= Len(txs') /\ confirm[w].tx <= Len(txs')
  <1> SUFFICES ASSUME NEW w \in Withdrawal
               PROVE  txHash[w] <= Len(txs') /\ confirm[w].tx <= Len(txs')
    OBVIOUS
  <1>1. /\ txHash[w] \in Nat /\ txHash[w] <= Len(txs) /\ Len(txs) \in Nat
        /\ confirm[w] \in Following /\ confirm[w].tx <= Len(txs)
    BY DEF WorkerTyping
  <1> QED BY <1>1 DEF Following

\* What a worker broadcasts is a transaction.
LEMMA SentIsTransaction ==
    ASSUME Typing, NEW k \in Worker, exec[k] # Free
    PROVE  [w |-> exec[k].w, account |-> AccountOf(exec[k].w), seq |-> exec[k].seq,
            nonce |-> exec[k].nonce, state |-> "pending", deep |-> FALSE] \in Transaction
  <1>1. exec[k] \in Executed
    BY ExecForm DEF Typing
  <1> QED BY <1>1 DEF Executed, Transaction, AccountOf, Account, TxState

\* Every step of the worker keeps the order of the nonces and what is deep; only
\* a broadcast adds a transaction.
LEMMA WorkerKeepsChain ==
    ASSUME Typing, NonceOrder, WorkerNext
    PROVE  /\ ChainInv' /\ Lasts
           /\ \/ Len(txs') = Len(txs)
              \/ \E k \in Worker : /\ Broadcast(k) /\ exec[k] # Free /\ Len(txs') = Len(txs) + 1
                                   /\ txs'[Len(txs) + 1].w = exec[k].w
  <1> DEFINE Goal == /\ ChainInv' /\ Lasts
                     /\ \/ Len(txs') = Len(txs)
                        \/ \E k \in Worker : /\ Broadcast(k) /\ exec[k] # Free /\ Len(txs') = Len(txs) + 1
                                             /\ txs'[Len(txs) + 1].w = exec[k].w
  <1>1. ChainInv
    BY DEF Typing, WorkerTyping, ChainInv
  <1>2. CASE UNCHANGED txs
    BY <1>1, <1>2 DEF ChainInv, NonceOrder, MinedOf, MinedCount, Mined, Lasts
  <1>3. ASSUME NEW k \in Worker, Broadcast(k)
        PROVE  Goal
    <2>1. exec[k] # Free
      BY <1>3, PcForms DEF Broadcast, Busy, ExecPc, Typing
    <2> DEFINE t == [w |-> exec[k].w, account |-> AccountOf(exec[k].w), seq |-> exec[k].seq,
                     nonce |-> exec[k].nonce, state |-> "pending", deep |-> FALSE]
    <2>2. t \in Transaction /\ t.w = exec[k].w /\ t.state = "pending" /\ Submit(t)
      BY <1>3, <2>1, SentIsTransaction DEF Broadcast
    <2> HIDE DEF t
    <2>3. ChainInv' /\ Lasts /\ Len(txs') = Len(txs) + 1 /\ txs'[Len(txs) + 1] = t
      BY <1>1, <2>2, SubmitKeepsChain
    <2> QED BY <1>3, <2>1, <2>2, <2>3
  <1>4. CASE ChainNext
    BY <1>1, <1>4, ChainKeepsChain
  <1> QED
    BY <1>2, <1>3, <1>4 DEF WorkerNext, Execute, PollRead, Enqueue, Stall, RemoveJob, ReadReceipt,
      WriteOutcome, CheckThrows, ChainMoves, GiveUp, RemoveConfirmJob, Claim, Load, ReadSequence, ReadNonce, Record, Track,
      Publish, Fail, FailUncaught, Throw, Die, Take

\* The transactions of a withdrawal stay its own; a broadcast adds one to those of its withdrawal.
LEMMA SentGrows ==
    ASSUME Typing, NonceOrder, WorkerNext
    PROVE  \/ \A w \in Withdrawal : Sent(w)' = Sent(w)
           \/ \E k \in Worker : /\ Broadcast(k) /\ exec[k] # Free
                                /\ \A w \in Withdrawal :
                                    Sent(w)' = IF w = exec[k].w THEN Sent(w) \cup {Len(txs) + 1} ELSE Sent(w)
  <1>1. txs \in Seq(Transaction) /\ txs' \in Seq(Transaction) /\ Lasts
    BY WorkerKeepsChain DEF Typing, WorkerTyping, ChainInv
  <1>2. Len(txs) \in Nat /\ DOMAIN txs = 1..Len(txs) /\ DOMAIN txs' = 1..Len(txs')
        /\ \A i \in DOMAIN txs : txs'[i].w = txs[i].w
    BY <1>1 DEF Lasts
  <1>3. CASE Len(txs') = Len(txs)
    BY <1>2, <1>3 DEF Sent
  <1>4. ASSUME NEW k \in Worker, Broadcast(k), exec[k] # Free, Len(txs') = Len(txs) + 1,
               txs'[Len(txs) + 1].w = exec[k].w, NEW w \in Withdrawal
        PROVE  Sent(w)' = IF w = exec[k].w THEN Sent(w) \cup {Len(txs) + 1} ELSE Sent(w)
    <2>1. DOMAIN txs' = DOMAIN txs \cup {Len(txs) + 1}
      BY <1>2, <1>4
    <2>2. Sent(w)' = {i \in DOMAIN txs \cup {Len(txs) + 1} : txs'[i].w = w}
      BY <2>1 DEF Sent
    <2> QED BY <1>2, <1>4, <2>2 DEF Sent
  <1> QED BY <1>3, <1>4, WorkerKeepsChain

\* the steps of a confirmation job
Follows(w) ==
    \/ ReadReceipt(w) \/ WriteOutcome(w)
    \/ CheckThrows(w) \/ GiveUp(w) \/ RemoveConfirmJob(w)

\* A confirmation job keeps to its transaction, and finds it mined when it is.
LEMMA FollowStep ==
    ASSUME NEW w \in Withdrawal, confirm[w] \in Following, Follows(w)
    PROVE  \E c \in Following :
              /\ confirm' = [confirm EXCEPT ![w] = c]
              /\ c.tx \in {0, confirm[w].tx}
              /\ c.state # "none" => confirm[w].state # "none" /\ c.tx = confirm[w].tx
              /\ c.state = "mined" => txs[confirm[w].tx].state = "ok"
  <1> USE DEF Following, Checking
  <1>1. CASE ~RemoveConfirmJob(w)
    <2>1. PICK s \in {"reverted", "mined", "done", "tracking"} :
            /\ confirm' = [confirm EXCEPT ![w] = [confirm[w] EXCEPT !.state = s]]
            /\ s = "mined" => txs[confirm[w].tx].state = "ok"
      BY <1>1 DEF Follows, ReadReceipt, WriteOutcome, CheckThrows, GiveUp
    <2>2. confirm[w].state # "none"
      BY <1>1 DEF Follows, ReadReceipt, WriteOutcome, CheckThrows, GiveUp
    <2> DEFINE c == [confirm[w] EXCEPT !.state = s]
    <2>3. c \in Following /\ c.tx = confirm[w].tx /\ c.state = s
      OBVIOUS
    <2> QED BY <2>1, <2>2, <2>3
  <1>2. CASE RemoveConfirmJob(w)
    <2>1. confirm' = [confirm EXCEPT ![w] = NotFollowed]
      BY <1>2 DEF RemoveConfirmJob
    <2>2. NotFollowed \in Following /\ NotFollowed.tx = 0 /\ NotFollowed.state = "none"
      BY DEF NotFollowed
    <2> QED BY <2>1, <2>2
  <1> QED BY <1>1, <1>2

\* Each step of the worker, of the queue and of the chain keeps the types.
LEMMA WorkerKeepsTyping ==
    ASSUME Typing, NonceOrder, WorkerNext, UNCHANGED apiVars
    PROVE  Typing'
  <1>1. ApiTyping /\ WorkerTyping
    BY DEF Typing
  <1>2. /\ status \in [Withdrawal -> Statuses]
        /\ polled \subseteq Withdrawal /\ job \in [Withdrawal -> Job] /\ JobHasAttempts
        /\ exec \in [Worker -> {Free} \cup Executed]
        /\ txHash \in [Withdrawal -> Nat] /\ confirm \in [Withdrawal -> Following]
        /\ late \in [Withdrawal -> BOOLEAN] /\ txs \in Seq(Transaction) /\ Len(txs) \in Nat
    BY <1>1 DEF ApiTyping, WorkerTyping
  <1>3. txs' \in Seq(Transaction) /\ Len(txs') \in Nat /\ Len(txs') >= Len(txs)
    BY WorkerKeepsChain DEF ChainInv, Lasts
  <1>4. \A w \in Withdrawal : txHash[w] <= Len(txs') /\ confirm[w].tx <= Len(txs')
    BY <1>1, <1>3, BoundsLast
  <1>5. job' = job => job' \in [Withdrawal -> Job] /\ JobHasAttempts'
    BY <1>2 DEF JobHasAttempts
  <1>6. ASSUME NEW k \in Worker, exec[k] # Free
        PROVE  /\ exec[k] \in Executed /\ exec[k].w \in Withdrawal /\ exec[k].tx \in Nat
               /\ exec[k].tx <= Len(txs) /\ exec[k].tx <= Len(txs')
    <2>1. exec[k] \in Executed /\ exec[k].tx <= Len(txs)
      BY <1>1, <1>6, ExecForm DEF WorkerTyping
    <2>2. exec[k].w \in Withdrawal /\ exec[k].tx \in Nat
      BY <2>1 DEF Executed
    <2> QED BY <1>2, <1>3, <2>1, <2>2
  <1>7. ASSUME UNCHANGED <<status, source>> PROVE ApiTyping'
    BY <1>1, <1>7 DEF apiVars, ApiTyping, OperationKnown
  <1>8. ASSUME NEW w \in Withdrawal, NEW s \in Statuses, SetStatus(w, s), UNCHANGED source
        PROVE  ApiTyping'
    BY <1>1, <1>8 DEF apiVars, ApiTyping, OperationKnown, SetStatus
  <1>9. CASE PollRead
    <2>1. polled' \subseteq Withdrawal /\ UNCHANGED <<source, status, job, exec, txHash, confirm, late, txs>>
      BY <1>2, <1>9 DEF PollRead
    <2> QED BY <1>1, <1>2, <1>3, <1>4, <1>5, <1>7, <2>1, RestTyping DEF Typing
  <1>10. ASSUME NEW w \in Withdrawal, Enqueue(w) PROVE Typing'
    <2>1. /\ polled' \subseteq Withdrawal
          /\ \/ job' = [job EXCEPT ![w] = [job[w] EXCEPT !.state = "waiting"]] /\ job[w] = NoJob
             \/ job' = job
          /\ UNCHANGED <<source, status, exec, txHash, confirm, late, txs>>
      BY <1>2, <1>10 DEF Enqueue
    <2>2. [NoJob EXCEPT !.state = "waiting"] \in Job /\ NoJob.made < MaxAttempts
      BY WorkerAssumption DEF NoJob, Job
    <2>3. job' \in [Withdrawal -> Job] /\ JobHasAttempts'
      BY <1>1, <1>5, <2>1, <2>2, JobTyping DEF NoJob
    <2> QED BY <1>1, <1>2, <1>3, <1>4, <1>7, <2>1, <2>3, RestTyping DEF Typing
  <1>11. ASSUME NEW k \in Worker, NEW w \in Withdrawal, Take(k, w) PROVE Typing'
    <2> DEFINE j == [job[w] EXCEPT !.state = "active"]
               e == [pc |-> "claim", w |-> w, seq |-> 0, nonce |-> 0,
                     tx |-> 0, made |-> job[w].made, lock |-> TRUE]
    <2>1. /\ job' = [job EXCEPT ![w] = j] /\ exec' = [exec EXCEPT ![k] = e]
          /\ job[w] \in Job /\ job[w].made < MaxAttempts
          /\ UNCHANGED <<source, status, polled, txHash, confirm, late, txs>>
      BY <1>2, <1>11 DEF Take, JobHasAttempts
    <2>2. j \in Job /\ j.made < MaxAttempts
      BY <2>1 DEF Job
    <2>3. job[w].made \in 0..MaxAttempts-1
      BY <2>1, WorkerAssumption DEF Job
    <2>4. e \in Executed /\ e.tx = 0
      BY <2>3 DEF Executed, ExecPc
    <2> HIDE DEF j, e
    <2>5. job' \in [Withdrawal -> Job] /\ JobHasAttempts'
      BY <1>1, <2>1, <2>2, JobTyping
    <2>6. e.tx <= Len(txs')
      BY <1>3, <2>4
    <2>7. ApiTyping'
      BY <1>7, <2>1
    <2>8. WorkerTyping'
      BY <1>1, <1>2, <1>3, <1>4, <2>1, <2>4, <2>5, <2>6, ExecTyping
    <2> QED BY <2>7, <2>8 DEF Typing
  <1>12. ASSUME NEW w \in Withdrawal, Stall(w) PROVE Typing'
    <2> DEFINE j == IF job[w].stalls < MaxStalled
                    THEN [job[w] EXCEPT !.state = "waiting", !.stalls = @ + 1]
                    ELSE EndedJob
    <2>1. /\ job' = [job EXCEPT ![w] = j]
          /\ job[w] \in Job /\ job[w].made < MaxAttempts
          /\ UNCHANGED <<source, status, polled, txHash, confirm, late, txs>>
      <3>1. job[w] \in Job /\ job[w].made < MaxAttempts
        BY <1>2, <1>12 DEF Stall, JobHasAttempts
      <3>2. UNCHANGED <<source, status, polled, txHash, confirm, late, txs>>
        BY <1>12 DEF Stall
      <3>3. job' = [job EXCEPT ![w] = j]
        BY <1>2, <1>12 DEF Stall
      <3> QED BY <3>1, <3>2, <3>3
    <2>2. j \in Job /\ (j.state \in {"none", "waiting", "active"} => j.made < MaxAttempts)
      <3>1. CASE job[w].stalls < MaxStalled
        <4>1. job[w].stalls + 1 \in 0..MaxStalled
          BY <2>1, <3>1, WorkerAssumption DEF Job
        <4>2. j = [job[w] EXCEPT !.state = "waiting", !.stalls = job[w].stalls + 1]
          BY <3>1
        <4> QED BY <2>1, <4>1, <4>2 DEF Job
      <3>2. CASE ~ (job[w].stalls < MaxStalled)
        BY <3>2, EndedIsJob
      <3> QED BY <3>1, <3>2
    <2> HIDE DEF j
    <2>3. job' \in [Withdrawal -> Job] /\ JobHasAttempts'
      BY <1>1, <2>1, <2>2, JobTyping
    <2>4. \A k \in Worker : \/ exec'[k] = exec[k]
                            \/ exec[k] # Free /\ exec'[k] = [exec[k] EXCEPT !.lock = FALSE]
      BY <1>12 DEF Stall
    <2>5. \A k \in Worker : exec[k] # Free => [exec[k] EXCEPT !.lock = FALSE] \in Executed
      BY <1>6 DEF Executed
    <2>6. exec' \in [Worker -> {Free} \cup Executed]
      <3>1. exec' = [k \in Worker |-> exec'[k]]
        BY <1>12 DEF Stall
      <3>2. \A k \in Worker : exec'[k] \in {Free} \cup Executed
        BY <1>2, <2>4, <2>5
      <3> QED BY <3>1, <3>2
    <2>7. \A k \in Worker : exec'[k] # Free => exec'[k].tx <= Len(txs')
      <3> SUFFICES ASSUME NEW k \in Worker, exec'[k] # Free PROVE exec'[k].tx <= Len(txs')
        OBVIOUS
      <3>1. exec[k] # Free /\ exec'[k].tx = exec[k].tx
        BY <1>6, <2>4 DEF Executed
      <3> QED BY <1>6, <3>1
    <2> QED BY <1>2, <1>3, <1>4, <1>7, <2>1, <2>3, <2>6, <2>7 DEF Typing, WorkerTyping
  <1>13. ASSUME NEW k \in Worker, Die(k) PROVE Typing'
    <2>1. exec' = [exec EXCEPT ![k] = Free] /\ UNCHANGED <<source, status, polled, job, txHash, confirm, late, txs>>
      BY <1>13 DEF Die, Leave
    <2> QED BY <1>1, <1>2, <1>3, <1>4, <1>5, <1>7, <2>1, ExecTyping DEF Typing
  <1>14. ASSUME NEW w \in Withdrawal, RemoveJob(w) PROVE Typing'
    <2>1. job' = [job EXCEPT ![w] = NoJob] /\ UNCHANGED <<source, status, polled, exec, txHash, confirm, late, txs>>
      BY <1>14 DEF RemoveJob
    <2>2. NoJob \in Job /\ NoJob.made < MaxAttempts
      BY WorkerAssumption DEF NoJob, Job
    <2>3. job' \in [Withdrawal -> Job] /\ JobHasAttempts'
      BY <1>1, <2>1, <2>2, JobTyping
    <2> QED BY <1>1, <1>2, <1>3, <1>4, <1>7, <2>1, <2>3, RestTyping DEF Typing
  <1>15. ASSUME NEW k \in Worker, Claim(k) PROVE Typing'
    <2>1. exec[k] # Free
      BY <1>1, <1>15, PcForms DEF Claim, Busy, ExecPc
    <2>2. ApiTyping'
      BY <1>6, <1>7, <1>8, <1>15, <2>1 DEF Claim, CompareAndSet, Statuses
    <2>3. UNCHANGED <<source, polled, txHash, confirm, late, txs>>
      BY <1>15 DEF Claim
    <2>4. CASE status[exec[k].w] = "approved"
      <3> DEFINE e == [exec[k] EXCEPT !.pc = "load"]
      <3>1. exec' = [exec EXCEPT ![k] = e] /\ UNCHANGED job
        BY <1>15, <2>4 DEF Claim, Goto
      <3>2. e \in Executed /\ e.tx = exec[k].tx
        BY <1>6, <2>1 DEF Executed, ExecPc
      <3> HIDE DEF e
      <3> QED BY <1>1, <1>2, <1>3, <1>4, <1>5, <1>6, <2>1, <2>2, <2>3, <3>1, <3>2, ExecTyping DEF Typing
    <2>5. CASE status[exec[k].w] # "approved"
      <3>1. exec' = [exec EXCEPT ![k] = Free] /\ JobEnds(k)
        BY <1>15, <2>5 DEF Claim, Leave
      <3>2. job' \in [Withdrawal -> Job] /\ JobHasAttempts'
        BY <1>1, <2>1, <3>1, JobEndsTyping
      <3> QED BY <1>1, <1>2, <1>3, <1>4, <2>2, <2>3, <3>1, <3>2, ExecTyping DEF Typing
    <2> QED BY <2>4, <2>5
  <1>16. ASSUME NEW k \in Worker, Load(k) \/ ReadSequence(k) \/ ReadNonce(k) \/ Record(k) \/ Track(k)
         PROVE  Typing'
    <2>1. exec[k] # Free
      BY <1>1, <1>16, PcForms DEF Load, ReadSequence, ReadNonce, Record, Track, Busy, ExecPc
    <2>2. PICK e \in Executed : exec' = [exec EXCEPT ![k] = e] /\ e.tx = exec[k].tx
      <3>1. exec[k] \in Executed
        BY <1>6, <2>1
      <3>2. CASE Load(k) \/ Record(k) \/ Track(k)
        <4>1. PICK pc \in ExecPc : exec' = [exec EXCEPT ![k] = [exec[k] EXCEPT !.pc = pc]]
          BY <3>2 DEF Load, Record, Track, Goto, ExecPc
        <4>2. [exec[k] EXCEPT !.pc = pc] \in Executed /\ [exec[k] EXCEPT !.pc = pc].tx = exec[k].tx
          BY <3>1 DEF Executed
        <4> QED BY <4>1, <4>2
      <3>3. CASE ReadSequence(k)
        <4>1. PICK s \in 1..MaxTxs+1 : exec' = [exec EXCEPT ![k] = [exec[k] EXCEPT !.seq = s, !.pc = "nonce"]]
          BY <3>3 DEF ReadSequence
        <4>2. s \in Nat
          BY WorkerAssumption
        <4> DEFINE e == [exec[k] EXCEPT !.seq = s, !.pc = "nonce"]
        <4>3. e \in Executed /\ e.tx = exec[k].tx
          BY <3>1, <4>2 DEF Executed, ExecPc
        <4> QED BY <4>1, <4>3
      <3>4. CASE ReadNonce(k)
        <4>1. PICK n \in 0..MaxTxs : exec' = [exec EXCEPT ![k] = [exec[k] EXCEPT !.nonce = n, !.pc = "broadcast"]]
          BY <3>4 DEF ReadNonce
        <4>2. n \in Nat
          BY WorkerAssumption
        <4> DEFINE e == [exec[k] EXCEPT !.nonce = n, !.pc = "broadcast"]
        <4>3. e \in Executed /\ e.tx = exec[k].tx
          BY <3>1, <4>2 DEF Executed, ExecPc
        <4> QED BY <4>1, <4>3
      <3> QED BY <1>16, <3>2, <3>3, <3>4
    <2>3. UNCHANGED <<source, status, polled, job, late, txs>>
      BY <1>16 DEF Load, ReadSequence, ReadNonce, Record, Track
    <2>4. /\ txHash' \in [Withdrawal -> Nat]
          /\ \A w \in Withdrawal : txHash'[w] <= Len(txs')
      <3>1. txHash' = txHash \/ txHash' = [txHash EXCEPT ![exec[k].w] = exec[k].tx]
        BY <1>16 DEF Load, ReadSequence, ReadNonce, Record, Track
      <3> QED BY <1>2, <1>4, <1>6, <2>1, <3>1
    <2>5. /\ confirm' \in [Withdrawal -> Following]
          /\ \A w \in Withdrawal : confirm'[w].tx <= Len(txs')
      <3> DEFINE c == [state |-> "tracking", tx |-> exec[k].tx]
      <3>1. confirm' = confirm \/ confirm' = [confirm EXCEPT ![exec[k].w] = c]
        BY <1>16 DEF Load, ReadSequence, ReadNonce, Record, Track
      <3>2. c \in Following /\ c.tx <= Len(txs')
        BY <1>2, <1>6, <2>1 DEF Following
      <3> HIDE DEF c
      <3> QED BY <1>2, <1>4, <1>6, <2>1, <3>1, <3>2
    <2> QED BY <1>1, <1>2, <1>3, <1>5, <1>6, <1>7, <2>1, <2>2, <2>3, <2>4, <2>5, ExecTyping DEF Typing
  <1>17. ASSUME NEW k \in Worker, Broadcast(k) PROVE Typing'
    <2> DEFINE e == [exec[k] EXCEPT !.tx = Len(txs) + 1, !.pc = "record"]
    <2>1. exec[k] # Free
      BY <1>1, <1>17, PcForms DEF Broadcast, Busy, ExecPc
    <2>2. exec' = [exec EXCEPT ![k] = e] /\ UNCHANGED <<source, status, polled, job, txHash, confirm, late>>
      BY <1>17 DEF Broadcast
    <2>3. e \in Executed /\ e.tx = Len(txs) + 1
      <3>1. exec[k] \in Executed /\ Len(txs) + 1 \in Nat
        BY <1>2, <1>6, <2>1
      <3> QED BY <3>1 DEF Executed, ExecPc
    <2>4. Len(txs') = Len(txs) + 1
      BY <1>2, <1>17 DEF Broadcast, Submit
    <2> HIDE DEF e
    <2>5. e.tx <= Len(txs')
      BY <1>2, <2>3, <2>4
    <2>6. WorkerTyping'
      BY <1>1, <1>2, <1>3, <1>4, <1>5, <2>2, <2>3, <2>5, ExecTyping
    <2> QED BY <1>7, <2>2, <2>6 DEF Typing
  <1>18. ASSUME NEW k \in Worker, Publish(k) PROVE Typing'
    <2>1. exec[k] # Free
      BY <1>1, <1>18, PcForms DEF Publish, Busy, ExecPc
    <2>2. exec' = [exec EXCEPT ![k] = Free] /\ JobEnds(k)
          /\ UNCHANGED <<source, status, polled, txHash, confirm, late, txs>>
      BY <1>18 DEF Publish, Leave
    <2>3. job' \in [Withdrawal -> Job] /\ JobHasAttempts'
      BY <1>1, <2>1, <2>2, JobEndsTyping
    <2> QED BY <1>1, <1>2, <1>3, <1>4, <1>7, <2>2, <2>3, ExecTyping DEF Typing
  <1>19. ASSUME NEW k \in Worker, Fail(k) \/ FailUncaught(k) PROVE Typing'
    <2>1. exec[k] # Free /\ Throw(k)
      BY <1>19 DEF Fail, FailUncaught
    <2>2. exec' = [exec EXCEPT ![k] = Free] /\ UNCHANGED <<source, polled, txHash, confirm, txs>>
      BY <2>1 DEF Throw, Leave
    <2>3. late' \in [Withdrawal -> BOOLEAN]
      BY <1>2, <2>1 DEF Throw
    <2>4. ApiTyping'
      BY <1>6, <1>7, <1>8, <1>19, <2>1, <2>2 DEF Fail, FailUncaught, Statuses
    <2>5. job' \in [Withdrawal -> Job] /\ JobHasAttempts'
      <3> DEFINE w == exec[k].w
                 j == IF LastAttempt(k) THEN EndedJob
                      ELSE [job[w] EXCEPT !.state = "waiting", !.made = exec[k].made + 1]
      <3>1. job' = job \/ job' = [job EXCEPT ![w] = j]
        BY <2>1 DEF Throw
      <3>2. exec[k].made \in 0..MaxAttempts-1 /\ w \in Withdrawal /\ job[w] \in Job
        BY <1>2, <1>6, <2>1 DEF Executed
      <3>3. j \in Job /\ (j.state = "waiting" => j.made < MaxAttempts) /\ j.state \in {"ended", "waiting"}
        <4>1. exec[k].made + 1 \in 0..MaxAttempts
          BY <3>2, WorkerAssumption
        <4>2. CASE LastAttempt(k)
          BY <4>2, EndedIsJob
        <4>3. CASE ~LastAttempt(k)
          <5>1. exec[k].made + 1 < MaxAttempts
            BY <3>2, <4>3, WorkerAssumption DEF LastAttempt
          <5> QED BY <3>2, <4>1, <4>3, <5>1 DEF Job
        <4> QED BY <4>2, <4>3
      <3> HIDE DEF j
      <3> QED BY <1>1, <1>5, <3>1, <3>2, <3>3, JobTyping
    <2> QED BY <1>1, <1>2, <1>3, <1>4, <2>2, <2>3, <2>4, <2>5, ExecTyping DEF Typing
  <1>20. ASSUME NEW w \in Withdrawal, Follows(w)
         PROVE  Typing'
    <2>1. UNCHANGED <<source, polled, job, exec, txHash, late, txs>>
      BY <1>20 DEF Follows, ReadReceipt, WriteOutcome, CheckThrows, GiveUp, RemoveConfirmJob
    <2>2. ApiTyping'
      BY <1>7, <1>8, <1>20 DEF Follows, ReadReceipt, WriteOutcome, CheckThrows, GiveUp,
        RemoveConfirmJob, Statuses
    <2>3. confirm[w] \in Following
      BY <1>2
    <2>4. PICK c \in Following : confirm' = [confirm EXCEPT ![w] = c] /\ c.tx \in {0, confirm[w].tx}
      BY <1>20, <2>3, FollowStep
    <2>5. confirm' \in [Withdrawal -> Following] /\ \A v \in Withdrawal : confirm'[v].tx <= Len(txs')
      BY <1>2, <1>3, <1>4, <2>4
    <2> QED BY <1>1, <1>2, <1>3, <1>5, <2>1, <2>2, <2>5, RestTyping DEF Typing
  <1>21. CASE ChainMoves
    <2>1. UNCHANGED <<source, status, polled, job, exec, txHash, late>>
      BY <1>21 DEF ChainMoves
    <2>2. confirm' \in [Withdrawal -> Following] /\ \A v \in Withdrawal : confirm'[v].tx <= Len(txs')
      <3> SUFFICES ASSUME NEW v \in Withdrawal
                   PROVE  confirm'[v] \in Following /\ confirm'[v].tx <= Len(txs')
        BY <1>21 DEF ChainMoves
      <3>1. \/ confirm'[v] = confirm[v]
            \/ confirm'[v] = [confirm[v] EXCEPT !.state = "orphaned"]
        BY <1>21 DEF ChainMoves
      <3> QED BY <1>2, <1>4, <3>1 DEF Following, Checking
    <2> QED BY <1>1, <1>2, <1>3, <1>5, <1>7, <2>1, <2>2, RestTyping DEF Typing
  <1> QED
    BY <1>9, <1>10, <1>11, <1>12, <1>13, <1>14, <1>15, <1>16, <1>17, <1>18, <1>19, <1>20, <1>21
    DEF WorkerNext, Execute, Follows

-----------------------------------------------------------------------------
(* Histories: what was approved, claimed, sent, recorded and followed *)

History ==
    /\ OwnTransactions /\ ApprovedFirst /\ ClaimedIsTaken
    /\ SendsOnce /\ RecordedFirst /\ TrackedIsRecorded

\* what a request can do to a withdrawal
LEMMA ApiEffect ==
    ASSUME Typing, ApiNext, NEW w \in Withdrawal
    PROVE  /\ approvals'[w] \in {approvals[w], approvals[w] + 1}
           /\ source'[w] # source[w] => status[w] = "none" /\ approvals'[w] = approvals[w]
                                        /\ status'[w] # "approved"
           /\ status'[w] = "none" => status[w] = "none" /\ approvals'[w] = approvals[w]
           /\ status'[w] = "confirmed" => status[w] = "confirmed"
           /\ status'[w] = "approved" =>
                \/ status[w] = "approved" \/ w \in CoSigned
                \/ approvals'[w] = approvals[w] + 1
  <1>1. ApiTyping /\ status \in [Withdrawal -> Statuses] /\ source \in [Withdrawal -> Wallets]
        /\ approvals \in [Withdrawal -> Nat]
    BY DEF Typing, ApiTyping
  <1>2. CASE UNCHANGED <<status, source, approvals>>
    BY <1>1, <1>2
  <1>3. ASSUME NEW r \in Request,
               \/ CreateInsert(r) \/ ApproveWrite(r) \/ CancelWrite(r) \/ SuspendWithdrawal(r)
               \/ ResumeWithdrawal(r) \/ CancelExpired(r)
        PROVE  /\ approvals'[w] \in {approvals[w], approvals[w] + 1}
               /\ source'[w] # source[w] => status[w] = "none" /\ approvals'[w] = approvals[w]
                                            /\ status'[w] # "approved"
               /\ status'[w] = "none" => status[w] = "none" /\ approvals'[w] = approvals[w]
               /\ status'[w] = "confirmed" => status[w] = "confirmed"
               /\ status'[w] = "approved" =>
                    \/ status[w] = "approved" \/ w \in CoSigned
                    \/ approvals'[w] = approvals[w] + 1
    <2>1. request[r] # Idle
      BY <1>1, <1>3, PcForms DEF CreateInsert, ApproveWrite, CancelWrite, SuspendWithdrawal,
        ResumeWithdrawal, CancelExpired, At, RequestPc, Typing
    <2>2. request[r].w \in Withdrawal
      BY <1>1, <2>1, RequestForm
    <2>3. CASE CreateInsert(r)
      BY <1>1, <2>2, <2>3 DEF CreateInsert, SetStatus
    <2>4. CASE ApproveWrite(r)
      BY <1>1, <2>2, <2>4 DEF ApproveWrite, SetStatus
    <2>5. CASE CancelWrite(r) \/ SuspendWithdrawal(r) \/ CancelExpired(r)
      BY <1>1, <2>2, <2>5 DEF CancelWrite, SuspendWithdrawal, CancelExpired, SetStatus, CompareAndSet
    <2>6. CASE ResumeWithdrawal(r)
      <3>1. request[r].w \in CoSigned
        <4>1. ops[request[r].op].w = request[r].w /\ request[r].op \in DOMAIN ops /\ ops \in Seq(Operation)
          BY <1>1, <2>6 DEF ResumeWithdrawal, At, ApiTyping, OperationKnown
        <4>2. ops[request[r].op] \in Operation
          BY <4>1
        <4> QED BY <4>1, <4>2 DEF Operation
      <3> QED BY <1>1, <2>2, <2>6, <3>1 DEF ResumeWithdrawal, SetStatus, CompareAndSet
    <2> QED BY <1>3, <2>3, <2>4, <2>5, <2>6
  <1> QED
    BY <1>2, <1>3 DEF ApiNext, CreateRead, ApproveRead, CancelRead, SignRead, ExpireRead, OpenOperation,
      SignOperation, ExpireOperation, Abandon, Age

\* Requests keep what was sent and recorded, and approve before anything is executed.
LEMMA ApiKeepsHistory ==
    ASSUME Typing, History, ApiNext, UNCHANGED workerVars
    PROVE  History'
  <1>1. UNCHANGED <<exec, txHash, confirm, late, txs>>
    BY DEF workerVars
  <1>2. \A w : Sent(w)' = Sent(w) /\ Paid(w)' = Paid(w)
    BY <1>1 DEF Sent, Paid
  <1>3. \A w : \A k \in Worker : Executing(k, w)' = Executing(k, w)
    BY <1>1 DEF Executing
  <1>4. \A w \in Withdrawal : approvals[w] \in Nat
    BY DEF Typing, ApiTyping
  <1>5. \A w \in Withdrawal : PlainlyApproved(w)' => PlainlyApproved(w)
    BY <1>4, ApiEffect DEF PlainlyApproved
  <1>6. OwnTransactions'
    BY <1>1, <1>2 DEF History, OwnTransactions
  <1>7. ApprovedFirst'
    <2> SUFFICES ASSUME NEW w \in Withdrawal
                 PROVE  /\ status'[w] = "none" => approvals'[w] = 0
                        /\ w \notin CoSigned /\ approvals'[w] = 0 =>
                            /\ status'[w] # "approved" /\ Sent(w) = {}
                            /\ \A k \in Worker : ~Executing(k, w)
      BY <1>2, <1>3 DEF ApprovedFirst
    <2> QED BY <1>4, ApiEffect DEF History, ApprovedFirst
  <1>8. ASSUME NEW w \in Withdrawal, PlainlyApproved(w)', status'[w] = "approved", status[w] # "approved"
        PROVE  approvals[w] = 0 /\ w \notin CoSigned
    BY <1>4, <1>8, ApiEffect DEF PlainlyApproved
  <1>9. ClaimedIsTaken'
    BY <1>3, <1>5, <1>8 DEF History, ClaimedIsTaken, ApprovedFirst
  <1>10. SendsOnce'
    <2> SUFFICES ASSUME NEW w \in Withdrawal, Once(w)'
                 PROVE  /\ \A i, j \in Sent(w) : i = j
                        /\ status'[w] = "approved" => Sent(w) = {}
                        /\ \A k \in Worker : Executing(k, w) /\ exec[k].pc \notin Broadcasted => Sent(w) = {}
      BY <1>1, <1>2, <1>3 DEF SendsOnce
    <2>1. PlainlyApproved(w)' /\ PlainlyApproved(w)
      BY <1>5 DEF Once
    <2>2. CASE Once(w)
      BY <1>8, <2>1, <2>2 DEF History, SendsOnce, ApprovedFirst
    <2>3. CASE ~Once(w)
      <3>1. source'[w] # source[w]
        BY <1>1, <2>1, <2>3 DEF Once
      <3>2. status[w] = "none" /\ approvals[w] = 0 /\ w \notin CoSigned
        BY <2>1, <3>1, ApiEffect DEF History, ApprovedFirst, PlainlyApproved
      <3> QED BY <3>2 DEF History, ApprovedFirst
    <2> QED BY <2>2, <2>3
  <1>11. RecordedFirst' /\ TrackedIsRecorded'
    BY <1>1, <1>5 DEF History, RecordedFirst, TrackedIsRecorded
  <1> QED BY <1>6, <1>7, <1>9, <1>10, <1>11 DEF History

\* a step of the worker that claims, sends, records and follows nothing new, and
\* gives nothing back
Calm ==
    /\ UNCHANGED <<source, approvals, txHash>>
    /\ \A w \in Withdrawal :
        /\ Sent(w)' = Sent(w)
        /\ late[w] => late'[w]
        /\ status'[w] \in {"none", "approved"} => status'[w] = status[w]
        /\ confirm'[w].state # "none" => confirm[w].state # "none" /\ confirm'[w].tx = confirm[w].tx
    /\ \A k \in Worker :
        \/ exec'[k] = Free
        \/ exec'[k].pc = "claim"
        \/ /\ exec[k] # Free /\ exec[k].pc # "claim" /\ exec'[k].w = exec[k].w
           /\ \/ exec'[k].pc \notin Broadcasted /\ exec[k].pc \notin Broadcasted
              \/ exec'[k].pc = exec[k].pc /\ exec'[k].tx = exec[k].tx

\* A calm step leaves the histories as they are.
LEMMA CalmKeepsHistory ==
    ASSUME Typing, History, Calm, Lasts, txs \in Seq(Transaction)
    PROVE  History'
  <1>1. UNCHANGED <<source, approvals, txHash>> /\ \A w \in Withdrawal : Sent(w)' = Sent(w)
    BY DEF Calm
  <1>2. \A k \in Worker, w \in Withdrawal :
            Executing(k, w)' => /\ Executing(k, w)
                                /\ exec'[k].pc \notin Broadcasted => exec[k].pc \notin Broadcasted
    BY DEF Calm, Executing, Free
  <1>3. \A k \in Worker : exec'[k].pc \in Broadcasted =>
            exec[k].pc = exec'[k].pc /\ exec[k].w = exec'[k].w /\ exec[k].tx = exec'[k].tx
    BY DEF Calm, Free, Broadcasted
  <1>4. \A k \in Worker : exec[k].pc \in Broadcasted => exec[k].w \in Withdrawal
    BY ExecForm DEF Typing, Executed, Broadcasted, Free
  <1>5. \A w \in Withdrawal : PlainlyApproved(w)' = PlainlyApproved(w)
    BY <1>1 DEF PlainlyApproved
  <1>6. \A w \in Withdrawal : /\ status'[w] \in {"none", "approved"} => status'[w] = status[w]
                              /\ late[w] => late'[w]
                              /\ confirm'[w].state # "none" =>
                                    confirm[w].state # "none" /\ confirm'[w].tx = confirm[w].tx
    BY DEF Calm
  <1>7. OwnTransactions'
    <2>1. ASSUME NEW k \in Worker, exec'[k].pc \in Broadcasted
          PROVE  (exec[k].tx \in Sent(exec[k].w))'
      <3>1. exec[k].tx \in Sent(exec[k].w) /\ exec[k].w \in Withdrawal
        BY <1>3, <1>4, <2>1 DEF History, OwnTransactions
      <3>2. \A w \in Withdrawal : exec[k].w = w => (exec[k].tx \in Sent(w))'
        BY <1>1, <1>3, <2>1, <3>1
      <3> QED BY <1>3, <2>1, <3>1, <3>2 DEF Sent
    <2>2. ASSUME NEW w \in Withdrawal, confirm'[w].state # "none"
          PROVE  (confirm[w].tx \in Sent(w))'
      BY <1>1, <1>6, <2>2 DEF History, OwnTransactions
    <2> QED BY <2>1, <2>2 DEF OwnTransactions
  <1>8. ApprovedFirst'
    BY <1>1, <1>2, <1>6 DEF History, ApprovedFirst
  <1>9. ClaimedIsTaken'
    BY <1>2, <1>5, <1>6 DEF History, ClaimedIsTaken
  <1>10. \A w \in Withdrawal : Once(w)' => Once(w)
    BY <1>1, <1>5, <1>6 DEF Once
  <1>11. SendsOnce'
    <2> SUFFICES ASSUME NEW w \in Withdrawal, Once(w)'
                 PROVE  /\ \A i, j \in Sent(w)' : i = j
                        /\ status'[w] = "approved" => Sent(w)' = {}
                        /\ \A k \in Worker : Executing(k, w)' /\ exec'[k].pc \notin Broadcasted => Sent(w)' = {}
      BY DEF SendsOnce
    <2> QED BY <1>1, <1>2, <1>6, <1>10 DEF History, SendsOnce
  <1>12. RecordedFirst'
    <2> SUFFICES ASSUME NEW w \in Withdrawal, PlainlyApproved(w), ~late'[w], NEW k \in Worker,
                        exec'[k].pc \in {"track", "publish"}, exec'[k].w = w
                 PROVE  exec'[k].tx = txHash[w]
      BY <1>1, <1>5 DEF RecordedFirst
    <2>1. exec[k].pc = exec'[k].pc /\ exec[k].w = w /\ exec[k].tx = exec'[k].tx
      BY <1>3 DEF Broadcasted
    <2> QED BY <1>6, <2>1 DEF History, RecordedFirst
  <1>13. TrackedIsRecorded'
    BY <1>1, <1>5, <1>6 DEF History, TrackedIsRecorded
  <1> QED BY <1>7, <1>8, <1>9, <1>11, <1>12, <1>13 DEF History

\* workers that do not change are calm
LEMMA CalmWorkers ==
    ASSUME NEW k \in Worker, \/ exec'[k] = exec[k]
                             \/ exec[k] # Free /\ exec'[k] = [exec[k] EXCEPT !.lock = FALSE],
           Typing
    PROVE  \/ exec'[k] = Free
           \/ exec'[k].pc = "claim"
           \/ /\ exec[k] # Free /\ exec[k].pc # "claim" /\ exec'[k].w = exec[k].w
              /\ \/ exec'[k].pc \notin Broadcasted /\ exec[k].pc \notin Broadcasted
                 \/ exec'[k].pc = exec[k].pc /\ exec'[k].tx = exec[k].tx
  <1>1. CASE exec[k] = Free
    BY <1>1
  <1>2. CASE exec[k] # Free
    <2>1. exec[k] \in Executed
      BY <1>2, ExecForm DEF Typing
    <2>2. exec'[k].pc = exec[k].pc /\ exec'[k].w = exec[k].w /\ exec'[k].tx = exec[k].tx
      BY <2>1 DEF Executed
    <2> QED BY <1>2, <2>2
  <1> QED BY <1>1, <1>2

\* Most steps are calm.
LEMMA CalmSteps ==
    ASSUME Typing, NonceOrder, UNCHANGED apiVars, WorkerNext,
           \A w \in Withdrawal : Sent(w)' = Sent(w),
           \/ ChainMoves
           \/ PollRead
           \/ \E w \in Withdrawal : Enqueue(w) \/ Stall(w) \/ RemoveJob(w) \/ Follows(w)
           \/ \E k \in Worker :
                \/ Claim(k) /\ status[exec[k].w] # "approved"
                \/ Load(k) \/ ReadSequence(k) \/ ReadNonce(k) \/ Publish(k) \/ FailUncaught(k)
                \/ Die(k) \/ \E w \in Withdrawal : Take(k, w)
    PROVE  Calm
  <1> DEFINE Works(j) ==
        \/ exec'[j] = Free
        \/ exec'[j].pc = "claim"
        \/ /\ exec[j] # Free /\ exec[j].pc # "claim" /\ exec'[j].w = exec[j].w
           /\ \/ exec'[j].pc \notin Broadcasted /\ exec[j].pc \notin Broadcasted
              \/ exec'[j].pc = exec[j].pc /\ exec'[j].tx = exec[j].tx
  <1>1. /\ status \in [Withdrawal -> Statuses] /\ exec \in [Worker -> {Free} \cup Executed]
        /\ confirm \in [Withdrawal -> Following] /\ late \in [Withdrawal -> BOOLEAN]
    BY DEF Typing, ApiTyping, WorkerTyping
  <1>2. \A w \in Withdrawal : Sent(w)' = Sent(w)
    OBVIOUS
  <1>3. UNCHANGED approvals
    BY DEF apiVars
  <1>4. ASSUME UNCHANGED <<source, txHash, status, confirm>>, \A w \in Withdrawal : late[w] => late'[w],
               \A j \in Worker : Works(j)
        PROVE  Calm
    BY <1>2, <1>3, <1>4 DEF Calm
  <1>5. ASSUME UNCHANGED exec PROVE \A j \in Worker : Works(j)
    BY <1>5, CalmWorkers
  <1>6. CASE PollRead \/ \E w \in Withdrawal : Enqueue(w) \/ RemoveJob(w)
    <2>1. UNCHANGED <<source, status, exec, txHash, confirm, late>>
      BY <1>6 DEF PollRead, Enqueue, RemoveJob
    <2> QED BY <1>4, <1>5, <2>1
  <1>7. ASSUME NEW w \in Withdrawal, Stall(w) PROVE Calm
    <2>1. UNCHANGED <<source, status, txHash, confirm, late>>
      BY <1>7 DEF Stall
    <2>2. \A j \in Worker : \/ exec'[j] = exec[j]
                            \/ exec[j] # Free /\ exec'[j] = [exec[j] EXCEPT !.lock = FALSE]
      BY <1>7 DEF Stall
    <2>3. \A j \in Worker : Works(j)
      BY <2>2, CalmWorkers
    <2> QED BY <1>4, <2>1, <2>3
  <1>8. ASSUME NEW w \in Withdrawal, Follows(w)
        PROVE  Calm
    <2>1. UNCHANGED <<source, exec, txHash, late>>
      BY <1>8 DEF Follows, ReadReceipt, WriteOutcome, CheckThrows, GiveUp, RemoveConfirmJob
    <2>2. \A v \in Withdrawal : status'[v] \in {"none", "approved"} => status'[v] = status[v]
      BY <1>1, <1>8 DEF Follows, ReadReceipt, WriteOutcome, CheckThrows, GiveUp,
        RemoveConfirmJob, SetStatus
    <2>3. confirm[w] \in Following
      BY <1>1
    <2>4. PICK c \in Following :
              /\ confirm' = [confirm EXCEPT ![w] = c]
              /\ c.state # "none" => confirm[w].state # "none" /\ c.tx = confirm[w].tx
      BY <1>8, <2>3, FollowStep
    <2>5. \A v \in Withdrawal : confirm'[v] = IF v = w THEN c ELSE confirm[v]
      BY <1>1, <2>4
    <2>6. \A j \in Worker : Works(j)
      BY <1>5, <2>1
    <2> HIDE DEF Works
    <2>7. \A v \in Withdrawal :
            /\ confirm'[v].state # "none" => confirm[v].state # "none" /\ confirm'[v].tx = confirm[v].tx
      BY <2>4, <2>5
    <2> QED BY <1>2, <1>3, <2>1, <2>2, <2>6, <2>7 DEF Calm, Works
  <1>13. CASE ChainMoves
    <2>1. UNCHANGED <<source, status, exec, txHash, late>>
      BY <1>13 DEF ChainMoves
    <2>2. \A v \in Withdrawal :
            /\ confirm'[v].state # "none" => confirm[v].state # "none" /\ confirm'[v].tx = confirm[v].tx
      <3> SUFFICES ASSUME NEW v \in Withdrawal
                   PROVE  /\ confirm'[v].state # "none" => confirm[v].state # "none" /\ confirm'[v].tx = confirm[v].tx
        OBVIOUS
      <3>1. confirm[v] \in Following
        BY <1>1
      <3>2. \/ confirm'[v] = confirm[v]
            \/ confirm[v].state = "mined" /\ confirm'[v] = [confirm[v] EXCEPT !.state = "orphaned"]
        BY <1>13 DEF ChainMoves
      <3> QED BY <3>1, <3>2 DEF Following
    <2>3. \A j \in Worker : Works(j)
      BY <1>5, <2>1
    <2> HIDE DEF Works
    <2> QED BY <1>2, <1>3, <2>1, <2>2, <2>3 DEF Calm, Works
  <1>9. ASSUME NEW k \in Worker, NEW e, exec' = [exec EXCEPT ![k] = e], e = Free \/ e.pc = "claim"
        PROVE  \A j \in Worker : Works(j)
    <2> SUFFICES ASSUME NEW j \in Worker PROVE Works(j)
      OBVIOUS
    <2>1. CASE j = k
      BY <1>1, <1>9, <2>1
    <2>2. CASE j # k
      BY <1>1, <1>9, <2>2, CalmWorkers
    <2> QED BY <2>1, <2>2
  <1>10. ASSUME NEW k \in Worker, Load(k) \/ ReadSequence(k) \/ ReadNonce(k) PROVE Calm
    <2>1. UNCHANGED <<source, status, txHash, confirm, late>>
      BY <1>10 DEF Load, ReadSequence, ReadNonce
    <2>2. exec[k] # Free /\ exec[k] \in Executed /\ exec[k].pc \in {"load", "sequence", "nonce"}
      BY <1>10, PcForms, ExecForm DEF Load, ReadSequence, ReadNonce, Busy, ExecPc, Typing
    <2>3. \A j \in Worker : j # k => exec'[j] = exec[j]
      BY <1>1, <1>10 DEF Load, ReadSequence, ReadNonce, Goto
    <2>4. exec'[k].pc \in {"sequence", "nonce", "broadcast"} /\ exec'[k].w = exec[k].w
      <3>1. CASE Load(k)
        BY <1>1, <2>2, <3>1 DEF Load, Goto, Executed
      <3>2. CASE ReadSequence(k)
        <4>1. PICK s \in 1..MaxTxs+1 : exec' = [exec EXCEPT ![k] = [exec[k] EXCEPT !.seq = s, !.pc = "nonce"]]
          BY <3>2 DEF ReadSequence
        <4> QED BY <1>1, <2>2, <4>1 DEF Executed
      <3>3. CASE ReadNonce(k)
        <4>1. PICK n \in 0..MaxTxs : exec' = [exec EXCEPT ![k] = [exec[k] EXCEPT !.nonce = n, !.pc = "broadcast"]]
          BY <3>3 DEF ReadNonce
        <4> QED BY <1>1, <2>2, <4>1 DEF Executed
      <3> QED BY <1>10, <3>1, <3>2, <3>3
    <2>5. Works(k)
      BY <2>2, <2>4 DEF Broadcasted
    <2>6. \A j \in Worker : j # k => Works(j)
      BY <2>3, CalmWorkers
    <2>7. \A j \in Worker : Works(j)
      BY <2>5, <2>6
    <2> QED BY <1>4, <2>1, <2>7
  <1>11. ASSUME NEW k \in Worker,
                \/ Claim(k) /\ status[exec[k].w] # "approved"
                \/ Publish(k) \/ FailUncaught(k) \/ Die(k)
         PROVE  Calm
    <2>1. UNCHANGED <<source, status, txHash, confirm>> /\ exec' = [exec EXCEPT ![k] = Free]
      BY <1>11 DEF Claim, CompareAndSet, Publish, FailUncaught, Throw, Die, Leave
    <2>2. \A w \in Withdrawal : late[w] => late'[w]
      BY <1>1, <1>11 DEF Claim, Publish, FailUncaught, Throw, Die
    <2> QED BY <1>4, <1>9, <2>1, <2>2
  <1>12. ASSUME NEW k \in Worker, NEW w \in Withdrawal, Take(k, w) PROVE Calm
    <2>1. UNCHANGED <<source, status, txHash, confirm, late>>
      BY <1>12 DEF Take
    <2> DEFINE e == [pc |-> "claim", w |-> w, seq |-> 0, nonce |-> 0,
                     tx |-> 0, made |-> job[w].made, lock |-> TRUE]
    <2>2. exec' = [exec EXCEPT ![k] = e] /\ e.pc = "claim"
      BY <1>12 DEF Take
    <2> HIDE DEF e
    <2> QED BY <1>4, <1>9, <2>1, <2>2
  <1> QED BY <1>6, <1>7, <1>8, <1>10, <1>11, <1>12, <1>13

\* What only one step of one worker changes.
LEMMA OneWorkerSteps ==
    ASSUME Typing, NEW k \in Worker,
           \/ Claim(k) /\ status[exec[k].w] = "approved"
           \/ Broadcast(k) \/ Record(k) \/ Track(k) \/ Fail(k)
    PROVE  /\ exec[k] # Free /\ exec[k] \in Executed /\ exec[k].w \in Withdrawal
           /\ \A j \in Worker : j # k => exec'[j] = exec[j]
           /\ UNCHANGED <<source, polled>>
           /\ \A j \in Worker, w \in Withdrawal : j # k => Executing(j, w)' = Executing(j, w)
  <1>1. exec \in [Worker -> {Free} \cup Executed]
    BY DEF Typing, WorkerTyping
  <1>2. exec[k] # Free
    BY PcForms DEF Claim, Broadcast, Record, Track, Fail, Busy, ExecPc, Typing
  <1>3. exec[k] \in Executed /\ exec[k].w \in Withdrawal
    BY <1>2, ExecForm DEF Typing, Executed
  <1>4. \A j \in Worker : j # k => exec'[j] = exec[j]
    BY <1>1 DEF Claim, Broadcast, Record, Track, Fail, Throw, Leave, Goto
  <1>5. UNCHANGED <<source, polled>>
    BY DEF Claim, Broadcast, Record, Track, Fail, Throw
  <1> QED BY <1>2, <1>3, <1>4, <1>5 DEF Executing

\* A claim finds nobody else at the withdrawal, and nothing sent.
LEMMA ClaimKeepsHistory ==
    ASSUME Typing, History, Lasts, UNCHANGED apiVars, NEW k \in Worker, Claim(k),
           status[exec[k].w] = "approved"
    PROVE  History'
  <1> DEFINE v == exec[k].w
  <1>1. /\ exec[k] # Free /\ exec[k] \in Executed /\ v \in Withdrawal
        /\ \A j \in Worker : j # k => exec'[j] = exec[j]
        /\ \A j \in Worker, w \in Withdrawal : j # k => Executing(j, w)' = Executing(j, w)
    BY OneWorkerSteps
  <1>2. /\ UNCHANGED <<source, txHash, confirm, late, txs, approvals>>
        /\ exec[k].pc = "claim"
        /\ exec' = [exec EXCEPT ![k] = [exec[k] EXCEPT !.pc = "load"]]
        /\ status' = [status EXCEPT ![v] = "broadcasting"]
    BY DEF Claim, CompareAndSet, SetStatus, Goto, Busy, apiVars
  <1>3. exec'[k].pc = "load" /\ exec'[k].w = v
    BY <1>1, <1>2 DEF Typing, WorkerTyping, Executed
  <1>4. \A w : Sent(w)' = Sent(w)
    BY <1>2 DEF Sent
  <1>5. \A w \in Withdrawal : status'[w] = IF w = v THEN "broadcasting" ELSE status[w]
    BY <1>1, <1>2 DEF Typing, ApiTyping
  <1>6. \A w \in Withdrawal : Executing(k, w)' => w = v
    BY <1>3 DEF Executing
  <1>7. \A w \in Withdrawal : PlainlyApproved(w)' = PlainlyApproved(w) /\ Once(w)' = Once(w)
    BY <1>2 DEF PlainlyApproved, Once
  <1>8. OwnTransactions'
    <2>1. \A j \in Worker : exec'[j].pc \in Broadcasted => j # k
      BY <1>3 DEF Broadcasted
    <2> QED BY <1>1, <1>2, <2>1 DEF History, OwnTransactions, Sent
  <1>9. ApprovedFirst'
    <2>1. v \notin CoSigned => approvals[v] # 0
      BY <1>1 DEF History, ApprovedFirst
    <2> QED BY <1>1, <1>2, <1>4, <1>5, <1>6, <2>1 DEF History, ApprovedFirst
  <1>10. ClaimedIsTaken'
    <2> SUFFICES ASSUME NEW w \in Withdrawal, PlainlyApproved(w), NEW j \in Worker, Executing(j, w)'
                 PROVE  status'[w] # "approved" /\ \A i \in Worker : Executing(i, w)' => i = j
      BY <1>7 DEF ClaimedIsTaken
    <2>1. CASE w = v
      <3>1. \A i \in Worker : ~Executing(i, v)
        BY <1>1, <2>1 DEF History, ClaimedIsTaken
      <3> QED BY <1>1, <1>5, <2>1, <3>1
    <2>2. CASE w # v
      <3>1. \A i \in Worker : Executing(i, w)' => Executing(i, w)
        BY <1>1, <1>6, <2>2
      <3> QED BY <1>5, <2>2, <3>1 DEF History, ClaimedIsTaken
    <2> QED BY <2>1, <2>2
  <1>11. SendsOnce'
    <2> SUFFICES ASSUME NEW w \in Withdrawal, Once(w)
                 PROVE  /\ \A i, j \in Sent(w) : i = j
                        /\ status'[w] = "approved" => Sent(w) = {}
                        /\ \A j \in Worker : Executing(j, w)' /\ exec'[j].pc \notin Broadcasted => Sent(w) = {}
      BY <1>4, <1>7 DEF SendsOnce
    <2>1. CASE w = v
      BY <2>1 DEF History, SendsOnce
    <2>2. CASE w # v
      BY <1>1, <1>5, <1>6, <2>2 DEF History, SendsOnce
    <2> QED BY <2>1, <2>2
  <1>12. RecordedFirst'
    BY <1>1, <1>2, <1>3, <1>7 DEF History, RecordedFirst
  <1>13. TrackedIsRecorded'
    BY <1>2, <1>7 DEF History, TrackedIsRecorded
  <1> QED BY <1>8, <1>9, <1>10, <1>11, <1>12, <1>13 DEF History

\* A broadcast is the first of its withdrawal.
LEMMA BroadcastKeepsHistory ==
    ASSUME Typing, History, Lasts, UNCHANGED apiVars, NEW k \in Worker, Broadcast(k),
           \A w \in Withdrawal :
                Sent(w)' = IF w = exec[k].w THEN Sent(w) \cup {Len(txs) + 1} ELSE Sent(w)
    PROVE  History'
  <1> DEFINE v == exec[k].w
             n == Len(txs) + 1
  <1>1. /\ exec[k] # Free /\ exec[k] \in Executed /\ v \in Withdrawal
        /\ \A j \in Worker : j # k => exec'[j] = exec[j]
        /\ \A j \in Worker, w \in Withdrawal : j # k => Executing(j, w)' = Executing(j, w)
    BY OneWorkerSteps
  <1>2. /\ UNCHANGED <<source, status, txHash, confirm, late, approvals>>
        /\ exec[k].pc = "broadcast"
        /\ exec' = [exec EXCEPT ![k] = [exec[k] EXCEPT !.tx = n, !.pc = "record"]]
    BY DEF Broadcast, Busy, apiVars
  <1>3. exec'[k].pc = "record" /\ exec'[k].w = v /\ exec'[k].tx = n
    BY <1>1, <1>2 DEF Typing, WorkerTyping, Executed
  <1>4. \A w \in Withdrawal : Sent(w)' = IF w = v THEN Sent(w) \cup {n} ELSE Sent(w)
    OBVIOUS
  <1> HIDE DEF n, v
  <1>5. \A j \in Worker, w \in Withdrawal : Executing(j, w)' = Executing(j, w)
    <2>1. ASSUME NEW w \in Withdrawal PROVE Executing(k, w)' = Executing(k, w)
      <3>1. exec'[k] # Free /\ exec'[k].pc # "claim" /\ exec'[k].w = exec[k].w
        BY <1>3 DEF v, Free
      <3> QED BY <1>1, <1>2, <3>1 DEF Executing
    <2> QED BY <1>1, <2>1
  <1>6. Executing(k, v)
    BY <1>1, <1>2 DEF Executing, v
  <1>7. \A w \in Withdrawal : PlainlyApproved(w)' = PlainlyApproved(w) /\ Once(w)' = Once(w)
    BY <1>2 DEF PlainlyApproved, Once
  <1>8. OwnTransactions'
    <2>1. ASSUME NEW j \in Worker, exec'[j].pc \in Broadcasted
          PROVE  (exec[j].tx \in Sent(exec[j].w))'
      <3>1. CASE j = k
        <4>1. \A w \in Withdrawal : w = v => n \in Sent(w)'
          BY <1>4
        <4> QED BY <1>1, <1>3, <3>1, <4>1 DEF Sent
      <3>2. CASE j # k
        <4>1. exec'[j] = exec[j] /\ exec[j].tx \in Sent(exec[j].w)
          BY <1>1, <2>1, <3>2 DEF History, OwnTransactions
        <4>2. exec[j].w \in Withdrawal
          BY <2>1, <4>1, ExecForm DEF Typing, Executed, Broadcasted, Free
        <4>3. \A w \in Withdrawal : exec[j].w = w => exec[j].tx \in Sent(w)'
          BY <1>4, <4>1
        <4> QED BY <4>1, <4>2, <4>3 DEF Sent
      <3> QED BY <3>1, <3>2
    <2>2. ASSUME NEW w \in Withdrawal, confirm[w].state # "none"
          PROVE  /\ confirm[w].tx \in DOMAIN txs /\ confirm[w].tx \in Sent(w)'
      BY <1>4, <2>2 DEF History, OwnTransactions, Sent
    <2> QED BY <1>2, <2>1, <2>2 DEF OwnTransactions
  <1>9. ApprovedFirst'
    BY <1>1, <1>2, <1>4, <1>5, <1>6 DEF History, ApprovedFirst
  <1>10. ClaimedIsTaken'
    BY <1>2, <1>5, <1>7 DEF History, ClaimedIsTaken
  <1>11. SendsOnce'
    <2> SUFFICES ASSUME NEW w \in Withdrawal, Once(w)
                 PROVE  /\ \A i, j \in Sent(w)' : i = j
                        /\ status[w] = "approved" => Sent(w)' = {}
                        /\ \A j \in Worker : Executing(j, w) /\ exec'[j].pc \notin Broadcasted => Sent(w)' = {}
      BY <1>2, <1>5, <1>7 DEF SendsOnce
    <2>1. CASE w = v
      <3>1. Sent(v) = {} /\ status[v] # "approved"
        BY <1>1, <1>2, <1>6, <2>1 DEF History, SendsOnce, ClaimedIsTaken, Once, Broadcasted
      <3>2. Sent(w)' = {n}
        BY <1>4, <2>1, <3>1
      <3>3. \A j \in Worker : Executing(j, v) => j = k
        BY <1>1, <1>6, <2>1 DEF History, ClaimedIsTaken, Once
      <3> QED BY <1>3, <2>1, <3>1, <3>2, <3>3 DEF Broadcasted
    <2>2. CASE w # v
      <3>1. \A j \in Worker : Executing(j, w) => j # k
        BY <2>2 DEF Executing, v
      <3> QED BY <1>1, <1>4, <2>2, <3>1 DEF History, SendsOnce
    <2> QED BY <2>1, <2>2
  <1>12. RecordedFirst'
    BY <1>1, <1>2, <1>3, <1>7 DEF History, RecordedFirst
  <1>13. TrackedIsRecorded'
    BY <1>2, <1>7 DEF History, TrackedIsRecorded
  <1> QED BY <1>8, <1>9, <1>10, <1>11, <1>12, <1>13 DEF History

\* The hash that is recorded is that of the only transaction of its withdrawal.
LEMMA RecordKeepsHistory ==
    ASSUME Typing, History, UNCHANGED apiVars, NEW k \in Worker, Record(k)
    PROVE  History'
  <1> DEFINE v == exec[k].w
  <1>1. /\ exec[k] # Free /\ exec[k] \in Executed /\ v \in Withdrawal
        /\ \A j \in Worker : j # k => exec'[j] = exec[j]
        /\ \A j \in Worker, w \in Withdrawal : j # k => Executing(j, w)' = Executing(j, w)
    BY OneWorkerSteps
  <1>2. /\ UNCHANGED <<source, status, confirm, late, txs, approvals>>
        /\ exec[k].pc = "record"
        /\ exec' = [exec EXCEPT ![k] = [exec[k] EXCEPT !.pc = "track"]]
        /\ txHash' = [txHash EXCEPT ![v] = exec[k].tx]
    BY DEF Record, Busy, Goto, apiVars
  <1>3. exec'[k].pc = "track" /\ exec'[k].w = v /\ exec'[k].tx = exec[k].tx
    BY <1>1, <1>2 DEF Typing, WorkerTyping, Executed
  <1>4. \A w \in Withdrawal : txHash'[w] = IF w = v THEN exec[k].tx ELSE txHash[w]
    BY <1>1, <1>2 DEF Typing, WorkerTyping
  <1>5. Executing(k, v) /\ exec[k].tx \in Sent(v)
    BY <1>1, <1>2 DEF Executing, History, OwnTransactions, Broadcasted
  <1> HIDE DEF v
  <1>6. \A j \in Worker, w \in Withdrawal : Executing(j, w)' = Executing(j, w)
    <2>1. ASSUME NEW w \in Withdrawal PROVE Executing(k, w)' = Executing(k, w)
      <3>1. exec'[k] # Free /\ exec'[k].pc # "claim" /\ exec'[k].w = exec[k].w
        BY <1>3 DEF v, Free
      <3> QED BY <1>1, <1>2, <3>1 DEF Executing
    <2> QED BY <1>1, <2>1
  <1>7. \A w \in Withdrawal : PlainlyApproved(w)' = PlainlyApproved(w) /\ Once(w)' = Once(w) /\ Sent(w)' = Sent(w)
    BY <1>2 DEF PlainlyApproved, Once, Sent
  <1>8. OwnTransactions'
    <2>1. ASSUME NEW j \in Worker, exec'[j].pc \in Broadcasted
          PROVE  (exec[j].tx \in Sent(exec[j].w))'
      <3>1. exec[j].pc \in Broadcasted /\ exec'[j].tx = exec[j].tx /\ exec'[j].w = exec[j].w
        BY <1>1, <1>2, <1>3, <2>1 DEF Broadcasted, v
      <3> QED BY <1>2, <3>1 DEF History, OwnTransactions, Sent
    <2> QED BY <1>2, <1>7, <2>1 DEF History, OwnTransactions
  <1>9. ApprovedFirst'
    BY <1>2, <1>6, <1>7 DEF History, ApprovedFirst
  <1>10. ClaimedIsTaken'
    BY <1>2, <1>6, <1>7 DEF History, ClaimedIsTaken
  <1>11. SendsOnce'
    BY <1>1, <1>2, <1>3, <1>6, <1>7 DEF History, SendsOnce, Broadcasted
  <1>12. RecordedFirst'
    <2> SUFFICES ASSUME NEW w \in Withdrawal, PlainlyApproved(w), ~late[w], NEW j \in Worker,
                        exec'[j].pc \in {"track", "publish"}, exec'[j].w = w
                 PROVE  exec'[j].tx = txHash'[w]
      BY <1>2, <1>7 DEF RecordedFirst
    <2>1. CASE j = k
      BY <1>3, <1>4, <2>1
    <2>2. CASE j # k
      <3>1. exec'[j] = exec[j] /\ Executing(j, w)
        BY <1>1, <2>2 DEF Executing, Free
      <3>2. w # v
        BY <1>5, <2>2, <3>1 DEF History, ClaimedIsTaken
      <3> QED BY <1>4, <3>1, <3>2 DEF History, RecordedFirst
    <2> QED BY <2>1, <2>2
  <1>13. TrackedIsRecorded'
    <2> SUFFICES ASSUME NEW w \in Withdrawal, PlainlyApproved(w), ~late[w], confirm[w].state # "none"
                 PROVE  confirm[w].tx = txHash'[w]
      BY <1>2, <1>7 DEF TrackedIsRecorded
    <2>1. CASE w = v
      BY <1>4, <1>5, <2>1 DEF History, OwnTransactions, SendsOnce, Once
    <2>2. CASE w # v
      BY <1>4, <2>2 DEF History, TrackedIsRecorded
    <2> QED BY <2>1, <2>2
  <1> QED BY <1>8, <1>9, <1>10, <1>11, <1>12, <1>13 DEF History

\* What is followed is the transaction that was recorded.
LEMMA TrackKeepsHistory ==
    ASSUME Typing, History, UNCHANGED apiVars, NEW k \in Worker, Track(k)
    PROVE  History'
  <1> DEFINE v == exec[k].w
  <1>1. /\ exec[k] # Free /\ exec[k] \in Executed /\ v \in Withdrawal
        /\ \A j \in Worker : j # k => exec'[j] = exec[j]
        /\ \A j \in Worker, w \in Withdrawal : j # k => Executing(j, w)' = Executing(j, w)
    BY OneWorkerSteps
  <1>2. /\ UNCHANGED <<source, status, txHash, late, txs, approvals>>
        /\ exec[k].pc = "track"
        /\ exec' = [exec EXCEPT ![k] = [exec[k] EXCEPT !.pc = "publish"]]
        /\ \/ confirm' = confirm
           \/ confirm' = [confirm EXCEPT ![v] = [state |-> "tracking", tx |-> exec[k].tx]]
    BY DEF Track, Busy, Goto, apiVars
  <1>3. exec'[k].pc = "publish" /\ exec'[k].w = v /\ exec'[k].tx = exec[k].tx
    BY <1>1, <1>2 DEF Typing, WorkerTyping, Executed
  <1>4. \A w \in Withdrawal :
            \/ confirm'[w] = confirm[w]
            \/ w = v /\ confirm'[w].state = "tracking" /\ confirm'[w].tx = exec[k].tx
    <2>1. confirm \in [Withdrawal -> Following] /\ confirm[v] \in Following
      BY <1>1 DEF Typing, WorkerTyping
    <2> QED BY <1>1, <1>2, <2>1 DEF Following
  <1>5. Executing(k, v) /\ exec[k].tx \in Sent(v)
    BY <1>1, <1>2 DEF Executing, History, OwnTransactions, Broadcasted
  <1> HIDE DEF v
  <1>6. \A j \in Worker, w \in Withdrawal : Executing(j, w)' = Executing(j, w)
    <2>1. ASSUME NEW w \in Withdrawal PROVE Executing(k, w)' = Executing(k, w)
      <3>1. exec'[k] # Free /\ exec'[k].pc # "claim" /\ exec'[k].w = exec[k].w
        BY <1>3 DEF v, Free
      <3> QED BY <1>1, <1>2, <3>1 DEF Executing
    <2> QED BY <1>1, <2>1
  <1>7. \A w \in Withdrawal : PlainlyApproved(w)' = PlainlyApproved(w) /\ Once(w)' = Once(w) /\ Sent(w)' = Sent(w)
    BY <1>2 DEF PlainlyApproved, Once, Sent
  <1>8. OwnTransactions'
    <2>1. ASSUME NEW j \in Worker, exec'[j].pc \in Broadcasted
          PROVE  (exec[j].tx \in Sent(exec[j].w))'
      <3>1. exec[j].pc \in Broadcasted /\ exec'[j].tx = exec[j].tx /\ exec'[j].w = exec[j].w
        BY <1>1, <1>2, <1>3, <2>1 DEF Broadcasted, v
      <3> QED BY <1>2, <3>1 DEF History, OwnTransactions, Sent
    <2>2. ASSUME NEW w \in Withdrawal, confirm'[w].state # "none"
          PROVE  /\ confirm'[w].tx \in Sent(w)
      BY <1>4, <1>5, <2>2 DEF History, OwnTransactions
    <2> QED BY <1>2, <1>7, <2>1, <2>2 DEF OwnTransactions
  <1>9. ApprovedFirst'
    BY <1>2, <1>6, <1>7 DEF History, ApprovedFirst
  <1>10. ClaimedIsTaken'
    BY <1>2, <1>6, <1>7 DEF History, ClaimedIsTaken
  <1>11. SendsOnce'
    BY <1>1, <1>2, <1>3, <1>6, <1>7 DEF History, SendsOnce, Broadcasted
  <1>12. RecordedFirst'
    <2> SUFFICES ASSUME NEW w \in Withdrawal, PlainlyApproved(w), ~late[w], NEW j \in Worker,
                        exec'[j].pc \in {"track", "publish"}, exec'[j].w = w
                 PROVE  exec'[j].tx = txHash[w]
      BY <1>2, <1>7 DEF RecordedFirst
    <2>1. exec[j].pc \in {"track", "publish"} /\ exec[j].w = w /\ exec[j].tx = exec'[j].tx
      BY <1>1, <1>2, <1>3 DEF v
    <2> QED BY <2>1 DEF History, RecordedFirst
  <1>13. TrackedIsRecorded'
    <2> SUFFICES ASSUME NEW w \in Withdrawal, PlainlyApproved(w), ~late[w], confirm'[w].state # "none"
                 PROVE  confirm'[w].tx = txHash[w]
      BY <1>2, <1>7 DEF TrackedIsRecorded
    <2>1. w = v => exec[k].tx = txHash[w]
      BY <1>2 DEF History, RecordedFirst, v
    <2> QED BY <1>4, <2>1 DEF History, TrackedIsRecorded
  <1> QED BY <1>8, <1>9, <1>10, <1>11, <1>12, <1>13 DEF History

\* A failed attempt that gives its withdrawal back has sent nothing, or is late.
LEMMA FailKeepsHistory ==
    ASSUME Typing, History, UNCHANGED apiVars, NEW k \in Worker, Fail(k)
    PROVE  History'
  <1> DEFINE v == exec[k].w
  <1>1. /\ exec[k] # Free /\ exec[k] \in Executed /\ v \in Withdrawal
        /\ \A j \in Worker : j # k => exec'[j] = exec[j]
        /\ \A j \in Worker, w \in Withdrawal : j # k => Executing(j, w)' = Executing(j, w)
    BY OneWorkerSteps
  <1>2. /\ UNCHANGED <<source, txHash, confirm, txs, approvals>>
        /\ exec[k].pc \in ExecPc \ {"claim", "load"} /\ source[v] = "hot"
        /\ exec' = [exec EXCEPT ![k] = Free]
        /\ late' = [late EXCEPT ![v] = late[v] \/ exec[k].pc \in Broadcasted]
    BY DEF Fail, Guarded, Throw, Leave, apiVars
  <1>3. exec'[k] = Free
    BY <1>2 DEF Typing, WorkerTyping
  <1>4. /\ \A w \in Withdrawal : w # v => status'[w] = status[w] /\ late'[w] = late[w]
        /\ status'[v] \in {"failed", "approved"}
        /\ late'[v] <=> late[v] \/ exec[k].pc \in Broadcasted
    BY <1>1, <1>2 DEF Fail, SetStatus, Typing, ApiTyping, WorkerTyping
  <1>5. Executing(k, v)
    BY <1>1, <1>2 DEF Executing
  <1> HIDE DEF v
  <1>6. \A j \in Worker, w \in Withdrawal : Executing(j, w)' <=> Executing(j, w) /\ j # k
    <2>1. ASSUME NEW w \in Withdrawal PROVE ~Executing(k, w)'
      BY <1>3 DEF Executing
    <2> QED BY <1>1, <2>1
  <1>7. \A w \in Withdrawal :
            /\ PlainlyApproved(w)' = PlainlyApproved(w) /\ Sent(w)' = Sent(w)
            /\ late[w] => late'[w]
            /\ Once(w)' => Once(w)
    <2>1. \A w \in Withdrawal : PlainlyApproved(w)' = PlainlyApproved(w) /\ Sent(w)' = Sent(w)
      BY <1>2 DEF PlainlyApproved, Sent
    <2>2. \A w \in Withdrawal : late[w] => late'[w]
      BY <1>4
    <2> QED BY <1>2, <2>1, <2>2 DEF Once
  <1>8. OwnTransactions'
    <2>1. ASSUME NEW j \in Worker, exec'[j].pc \in Broadcasted
          PROVE  (exec[j].tx \in Sent(exec[j].w))'
      <3>1. j # k /\ exec'[j] = exec[j]
        BY <1>1, <1>3, <2>1 DEF Free, Broadcasted
      <3> QED BY <1>2, <2>1, <3>1 DEF History, OwnTransactions, Sent
    <2> QED BY <1>2, <1>7, <2>1 DEF History, OwnTransactions
  <1>9. ApprovedFirst'
    <2>1. v \notin CoSigned => approvals[v] # 0
      BY <1>1, <1>5 DEF History, ApprovedFirst
    <2> QED BY <1>2, <1>4, <1>6, <1>7, <2>1 DEF History, ApprovedFirst
  <1>10. ClaimedIsTaken'
    <2> SUFFICES ASSUME NEW w \in Withdrawal, PlainlyApproved(w), NEW j \in Worker, Executing(j, w), j # k
                 PROVE  status'[w] # "approved" /\ \A i \in Worker : Executing(i, w) => i = j
      BY <1>6, <1>7 DEF ClaimedIsTaken
    <2>1. w # v
      BY <1>5 DEF History, ClaimedIsTaken
    <2> QED BY <1>4, <2>1 DEF History, ClaimedIsTaken
  <1>11. SendsOnce'
    <2> SUFFICES ASSUME NEW w \in Withdrawal, Once(w)'
                 PROVE  /\ \A i, j \in Sent(w) : i = j
                        /\ status'[w] = "approved" => Sent(w) = {}
                        /\ \A j \in Worker : Executing(j, w)' /\ exec'[j].pc \notin Broadcasted => Sent(w) = {}
      BY <1>7 DEF SendsOnce
    <2>1. Once(w)
      BY <1>7
    <2>2. \A j \in Worker : Executing(j, w)' /\ exec'[j].pc \notin Broadcasted => Sent(w) = {}
      BY <1>1, <1>6, <2>1 DEF History, SendsOnce
    <2>3. CASE w = v
      <3>1. exec[k].pc \notin Broadcasted
        BY <1>2, <1>4, <2>3 DEF Once
      <3> QED BY <1>5, <2>1, <2>2, <2>3, <3>1 DEF History, SendsOnce
    <2>4. CASE w # v
      BY <1>4, <2>1, <2>2, <2>4 DEF History, SendsOnce
    <2> QED BY <2>3, <2>4
  <1>12. RecordedFirst'
    <2> SUFFICES ASSUME NEW w \in Withdrawal, PlainlyApproved(w), ~late[w], NEW j \in Worker,
                        exec'[j].pc \in {"track", "publish"}, exec'[j].w = w
                 PROVE  exec'[j].tx = txHash[w]
      BY <1>2, <1>7 DEF RecordedFirst
    <2>1. j # k /\ exec'[j] = exec[j]
      BY <1>1, <1>3 DEF Free
    <2> QED BY <2>1 DEF History, RecordedFirst
  <1>13. TrackedIsRecorded'
    BY <1>2, <1>7 DEF History, TrackedIsRecorded
  <1> QED BY <1>8, <1>9, <1>10, <1>11, <1>12, <1>13 DEF History

\* Every step of the worker, of the queue and of the chain keeps the histories.
LEMMA WorkerKeepsHistory ==
    ASSUME Typing, NonceOrder, History, WorkerNext, UNCHANGED apiVars
    PROVE  History'
  <1>1. Lasts /\ txs \in Seq(Transaction)
    BY WorkerKeepsChain DEF Typing, WorkerTyping
  <1>2. CASE \E k \in Worker : Broadcast(k) /\ exec[k] # Free /\
                \A w \in Withdrawal :
                    Sent(w)' = IF w = exec[k].w THEN Sent(w) \cup {Len(txs) + 1} ELSE Sent(w)
    BY <1>1, <1>2, BroadcastKeepsHistory
  <1>3. CASE \A w \in Withdrawal : Sent(w)' = Sent(w)
    <2>1. CASE \E k \in Worker : \/ Claim(k) /\ status[exec[k].w] = "approved"
                                 \/ Record(k) \/ Track(k) \/ Fail(k)
      BY <1>1, <2>1, ClaimKeepsHistory, RecordKeepsHistory, TrackKeepsHistory, FailKeepsHistory
    <2>2. CASE \E k \in Worker : Broadcast(k)
      <3>1. PICK k \in Worker : Broadcast(k)
        BY <2>2
      <3>2. exec[k] # Free /\ exec[k].w \in Withdrawal /\ Len(txs) \in Nat
        BY <1>1, <3>1, OneWorkerSteps
      <3>3. PICK v \in Withdrawal : v = exec[k].w
        BY <3>2
      <3>4. Len(txs) + 1 \in Sent(v)'
        <4> DEFINE t == [w |-> exec[k].w, account |-> AccountOf(exec[k].w), seq |-> exec[k].seq,
                         nonce |-> exec[k].nonce, state |-> "pending", deep |-> FALSE]
        <4>1. t \in Transaction /\ t.w = exec[k].w /\ t.state = "pending" /\ Submit(t)
          BY <3>1, <3>2, SentIsTransaction DEF Broadcast
        <4>2. ChainInv
          BY DEF Typing, WorkerTyping, ChainInv
        <4> HIDE DEF t
        <4>3. txs' \in Seq(Transaction) /\ Len(txs') = Len(txs) + 1 /\ txs'[Len(txs) + 1] = t
          BY <4>1, <4>2, SubmitKeepsChain DEF ChainInv
        <4> QED BY <3>2, <3>3, <4>1, <4>3 DEF Sent
      <3>5. Len(txs) + 1 \in Sent(v)
        BY <1>3, <3>4
      <3> QED
        BY <1>1, <3>2, <3>5 DEF Sent
    <2>3. CASE ~ \E k \in Worker : \/ Claim(k) /\ status[exec[k].w] = "approved"
                                   \/ Record(k) \/ Track(k) \/ Fail(k) \/ Broadcast(k)
      <3>1. Calm
        BY <1>3, <2>3, CalmSteps DEF WorkerNext, Execute, Follows
      <3> QED BY <1>1, <3>1, CalmKeepsHistory
    <2> QED BY <2>1, <2>2, <2>3
  <1> QED BY <1>2, <1>3, SentGrows

\* A broadcast leaves mined transactions alone, and an orphaned one takes the receipt
\* that a check has read with it.
LEMMA ReceiptStaysCurrent ==
    ASSUME Typing, NonceOrder, OwnTransactions, ReceiptIsCurrent, WorkerNext, UNCHANGED apiVars
    PROVE  ReceiptIsCurrent'
  <1>1. WorkerTyping /\ confirm \in [Withdrawal -> Following] /\ ChainInv
    BY DEF Typing, WorkerTyping, ChainInv
  <1>2. ASSUME UNCHANGED <<confirm, txs>> PROVE ReceiptIsCurrent'
    BY <1>2 DEF ReceiptIsCurrent
  <1>3. ASSUME NEW w \in Withdrawal, Follows(w) PROVE ReceiptIsCurrent'
    <2>1. confirm[w] \in Following /\ UNCHANGED txs
      BY <1>1, <1>3 DEF Follows, ReadReceipt, WriteOutcome, CheckThrows, GiveUp, RemoveConfirmJob
    <2>2. PICK c \in Following :
              /\ confirm' = [confirm EXCEPT ![w] = c]
              /\ c.state # "none" => c.tx = confirm[w].tx
              /\ c.state = "mined" => txs[confirm[w].tx].state = "ok"
      BY <1>3, <2>1, FollowStep
    <2>3. \A v \in Withdrawal : confirm'[v] = IF v = w THEN c ELSE confirm[v]
      BY <1>1, <2>2
    <2> QED BY <2>1, <2>2, <2>3 DEF ReceiptIsCurrent
  <1>4. CASE ChainMoves
    <2> SUFFICES ASSUME NEW w \in Withdrawal, confirm'[w].state = "mined"
                 PROVE  txs'[confirm'[w].tx].state = "ok"
      BY DEF ReceiptIsCurrent
    <2>1. confirm[w] \in Following
      BY <1>1
    <2>2. confirm'[w] = confirm[w] /\ Mined(txs'[confirm[w].tx])
      BY <1>4, <2>1 DEF ChainMoves, Following
    <2>3. confirm[w].tx \in DOMAIN txs /\ txs[confirm[w].tx].state = "ok"
      BY <2>2 DEF ReceiptIsCurrent, OwnTransactions, Sent
    <2>4. PICK i \in DOMAIN txs : \E t \in Transaction :
              /\ txs' = [txs EXCEPT ![i] = t]
              /\ \/ Mined(t) /\ ~Mined(txs[i])
                 \/ Mined(t) /\ t.state = txs[i].state
                 \/ ~Mined(t)
      BY <1>1, <1>4, ChainStep DEF ChainMoves
    <2> QED BY <1>1, <2>2, <2>3, <2>4 DEF Mined, ChainInv
  <1>5. ASSUME NEW k \in Worker, Broadcast(k) PROVE ReceiptIsCurrent'
    <2>1. exec[k] # Free
      BY <1>1, <1>5, PcForms DEF Typing, Broadcast, Busy, ExecPc
    <2> DEFINE t == [w |-> exec[k].w, account |-> AccountOf(exec[k].w), seq |-> exec[k].seq,
                     nonce |-> exec[k].nonce, state |-> "pending", deep |-> FALSE]
    <2>2. t \in Transaction /\ t.state = "pending" /\ Submit(t) /\ UNCHANGED confirm
      BY <1>5, <2>1, SentIsTransaction DEF Broadcast
    <2> HIDE DEF t
    <2>3. \A i \in DOMAIN txs : Mined(txs[i]) => txs'[i] = txs[i]
      BY <1>1, <2>2, SubmitSparesMined
    <2> QED BY <2>2, <2>3 DEF ReceiptIsCurrent, OwnTransactions, Sent, Mined
  <1>6. ASSUME NEW k \in Worker, Track(k) PROVE ReceiptIsCurrent'
    <2>1. UNCHANGED txs
      BY <1>6 DEF Track
    <2>2. \A w \in Withdrawal : confirm'[w].state = "mined" => confirm'[w] = confirm[w]
      BY <1>1, <1>6 DEF Track
    <2> QED BY <2>1, <2>2 DEF ReceiptIsCurrent
  <1>7. CASE PollRead \/ \E w \in Withdrawal : Enqueue(w) \/ Stall(w) \/ RemoveJob(w)
    BY <1>2, <1>7 DEF PollRead, Enqueue, Stall, RemoveJob
  <1>8. ASSUME NEW k \in Worker, Execute(k) PROVE ReceiptIsCurrent'
    <2>1. CASE Broadcast(k) \/ Track(k)
      BY <1>5, <1>6, <2>1
    <2>2. CASE ~Broadcast(k) /\ ~Track(k)
      BY <1>2, <1>8, <2>2 DEF Execute, Claim, Load, ReadSequence, ReadNonce, Record, Publish, Fail,
        FailUncaught, Throw
    <2> QED BY <2>1, <2>2
  <1>9. ASSUME NEW k \in Worker, Die(k) \/ \E w \in Withdrawal : Take(k, w) PROVE ReceiptIsCurrent'
    BY <1>2, <1>9 DEF Die, Take
  <1> QED BY <1>3, <1>4, <1>7, <1>8, <1>9 DEF WorkerNext, Follows

-----------------------------------------------------------------------------
(* Theorems *)

\* nothing was sent or followed at first
LEMMA InitInv == Init => WithdrawalInv
  <1> SUFFICES ASSUME Init PROVE WithdrawalInv
    OBVIOUS
  <1>1. Typing
    BY InitTyping
  <1>2. DOMAIN txs = {} /\ \A w : Sent(w) = {}
    BY DEF Init, WorkerInit, Sent
  <1>3. NonceOrder
    BY <1>2 DEF NonceOrder, MinedOf
  <1>4. \A k \in Worker : exec[k] = Free
    BY DEF Init, WorkerInit
  <1>5. \A w \in Withdrawal : /\ status[w] = "none" /\ confirm[w].state = "none" /\ approvals[w] = 0
    BY DEF Init, WorkerInit, ApiInit, NotFollowed
  <1>6. OwnTransactions /\ ReceiptIsCurrent /\ ApprovedFirst /\ ClaimedIsTaken /\ SendsOnce
        /\ RecordedFirst /\ TrackedIsRecorded
    BY <1>2, <1>4, <1>5 DEF OwnTransactions, ReceiptIsCurrent, ApprovedFirst, ClaimedIsTaken, SendsOnce,
      RecordedFirst, TrackedIsRecorded, Executing, Free, Broadcasted
  <1> QED BY <1>1, <1>3, <1>6 DEF WithdrawalInv

\* What requests and workers do to the withdrawals keeps the invariant.
LEMMA StepKeepsInv == WithdrawalInv /\ [Next]_vars => WithdrawalInv'
  <1> SUFFICES ASSUME WithdrawalInv, [Next]_vars PROVE WithdrawalInv'
    OBVIOUS
  <1>1. Typing /\ NonceOrder /\ ReceiptIsCurrent /\ History
    BY DEF WithdrawalInv, History
  <1>2. CASE ApiNext /\ UNCHANGED workerVars
    <2>1. Typing' /\ History'
      BY <1>1, <1>2, ApiKeepsTyping, ApiKeepsHistory
    <2>2. NonceOrder'
      BY <1>1, <1>2 DEF workerVars, NonceOrder, MinedOf, MinedCount, Mined
    <2>3. ReceiptIsCurrent'
      BY <1>1, <1>2 DEF workerVars, ReceiptIsCurrent
    <2> QED BY <2>3, <2>1, <2>2 DEF WithdrawalInv, History
  <1>3. CASE WorkerNext /\ UNCHANGED apiVars
    <2>1. Typing' /\ History'
      BY <1>1, <1>3, WorkerKeepsTyping, WorkerKeepsHistory
    <2>2. NonceOrder'
      BY <1>1, <1>3, WorkerKeepsChain DEF ChainInv
    <2>3. ReceiptIsCurrent'
      BY <1>1, <1>3, ReceiptStaysCurrent DEF History
    <2> QED BY <2>3, <2>1, <2>2 DEF WithdrawalInv, History
  <1>4. CASE UNCHANGED vars
    BY <1>4 DEF vars, apiVars, workerVars, WithdrawalInv, Typing, ApiTyping, WorkerTyping, JobHasAttempts,
      OperationKnown, NonceOrder, MinedOf, MinedCount, Mined, OwnTransactions, ReceiptIsCurrent,
      ApprovedFirst, ClaimedIsTaken, SendsOnce, RecordedFirst, TrackedIsRecorded, Once, PlainlyApproved,
      Executing, Sent, Paid
  <1> QED BY <1>2, <1>3, <1>4 DEF Next

\* The withdrawal path from the request to the confirmed transaction: in every state
\* the tables, the queue and the handlers satisfy the invariant.
LEMMA InvHolds == Spec => []WithdrawalInv
  BY InitInv, StepKeepsInv, PTL DEF Spec

\* The tables, the queue and the handlers keep the shapes the code gives them.
THEOREM WithdrawalTypes == Spec => []TypeOK
  <1>1. WithdrawalInv => TypeOK
    BY TypingIsTypeOK DEF WithdrawalInv
  <1> QED BY <1>1, InvHolds, PTL

\* Only a confirmation job that found a transaction deep reports it confirmed.
LEMMA ConfirmsDeep ==
    ASSUME WithdrawalInv, Next, NEW w \in Withdrawal, status[w] # "confirmed", status'[w] = "confirmed"
    PROVE  \/ confirm[w].state = "mined" /\ txs[confirm[w].tx].deep
           \/ confirm[w].state = "orphaned"
  <1>1. status \in [Withdrawal -> Statuses] /\ Typing
    BY DEF WithdrawalInv, Typing, ApiTyping
  <1>2. ~ApiNext
    BY <1>1, ApiEffect
  <1>3. PICK v \in Withdrawal : WriteOutcome(v)
    BY <1>1, <1>2 DEF Next, WorkerNext, Execute, ChainMoves, PollRead, Enqueue, Stall, RemoveJob, ReadReceipt,
      CheckThrows, GiveUp, RemoveConfirmJob, Claim, CompareAndSet, SetStatus,
      Load, ReadSequence, ReadNonce, Record, Track, Publish, Fail, FailUncaught, Throw, Die, Take, Broadcast
  <1> QED BY <1>1, <1>3 DEF WriteOutcome, SetStatus

\* withdrawal-confirm.service.ts: a withdrawal is reported confirmed when a transaction
\* of its own has paid it and can no longer be orphaned, unless a reorganisation came
\* between the two reads of the check.
THEOREM ConfirmedIsPaid == Spec => ConfirmedMeansPaid
  <1> DEFINE A == \A w \in Withdrawal :
          /\ status[w] # "confirmed" /\ status'[w] = "confirmed"
          /\ confirm[w].state # "orphaned"
          => \E i \in Paid(w) : txs[i].deep
  <1>1. ASSUME WithdrawalInv, [Next]_vars PROVE [A]_vars
    <2> SUFFICES ASSUME Next, NEW w \in Withdrawal, status[w] # "confirmed", status'[w] = "confirmed",
                        confirm[w].state # "orphaned"
                 PROVE  \E i \in Paid(w) : txs[i].deep
      BY <1>1
    <2>1. confirm[w].state = "mined" /\ txs[confirm[w].tx].deep
      BY <1>1, ConfirmsDeep
    <2> QED BY <1>1, <2>1 DEF WithdrawalInv, OwnTransactions, ReceiptIsCurrent, Sent, Paid
  <1> QED BY <1>1, InvHolds, PTL DEF Spec, ConfirmedMeansPaid

\* The claim of executeWithdrawal: a withdrawal approved once, and not co-signed, has at
\* most one executor, however many workers there are and whatever locks they lose.
THEOREM SingleExecution == Spec => []OneExecutor
  <1>1. WithdrawalInv => OneExecutor
    BY DEF WithdrawalInv, ClaimedIsTaken, OneExecutor
  <1> QED BY <1>1, InvHolds, PTL

\* executeWithdrawal with its retries: unless an attempt from the hot wallet failed after its
\* broadcast, a withdrawal approved once is sent at most once.
THEOREM SentOnce == Spec => []OnlyLateFailuresSendTwice
  <1>1. WithdrawalInv => OnlyLateFailuresSendTwice
    <2> SUFFICES ASSUME WithdrawalInv, NEW w \in Withdrawal, Once(w)
                 PROVE  Cardinality(Sent(w)) <= 1
      BY DEF OnlyLateFailuresSendTwice, Once
    <2>1. \A i, j \in Sent(w) : i = j
      BY DEF WithdrawalInv, SendsOnce
    <2>2. CASE Sent(w) = {}
      BY <2>2, FS_EmptySet
    <2>3. ASSUME NEW i \in Sent(w) PROVE Cardinality(Sent(w)) = 1
      <3>1. Sent(w) = {i}
        BY <2>1, <2>3
      <3> QED BY <3>1, FS_Singleton
    <2> QED BY <2>2, <2>3
  <1> QED BY <1>1, InvHolds, PTL

\* The orders of a sequence of transactions are as many withdrawals.
LEMMA OrdersTyping ==
    ASSUME NEW t \in Seq(Transaction)
    PROVE  /\ [i \in DOMAIN t |-> t[i].w] \in Seq(Withdrawal)
           /\ Len([i \in DOMAIN t |-> t[i].w]) = Len(t)
  <1>1. Len(t) \in Nat /\ DOMAIN t = 1..Len(t)
    OBVIOUS
  <1>2. ASSUME NEW i \in DOMAIN t PROVE t[i].w \in Withdrawal
    <2>1. t[i] \in Transaction
      BY <1>2
    <2> QED BY <2>1 DEF Transaction
  <1>3. [i \in DOMAIN t |-> t[i].w] \in [1..Len(t) -> Withdrawal]
    BY <1>1, <1>2
  <1> QED BY <1>1, <1>3

\* A sequence that continues another one by one element is its Append.
LEMMA LongerByOne ==
    ASSUME NEW S, NEW s \in Seq(S), NEW t \in Seq(S), NEW x \in S,
           Len(t) = Len(s) + 1, \A i \in 1..Len(s) : t[i] = s[i], t[Len(s) + 1] = x
    PROVE  t = Append(s, x)
  <1> DEFINE a == Append(s, x)
  <1>1. /\ a \in Seq(S) /\ Len(a) = Len(s) + 1 /\ a[Len(s) + 1] = x
        /\ \A i \in 1..Len(s) : a[i] = s[i]
    OBVIOUS
  <1> HIDE DEF a
  <1>2. t = [i \in 1..Len(t) |-> t[i]] /\ a = [i \in 1..Len(a) |-> a[i]]
    BY <1>1
  <1>3. \A i \in 1..Len(s) + 1 : t[i] = a[i]
    <2> SUFFICES ASSUME NEW i \in 1..Len(s) + 1 PROVE t[i] = a[i]
      OBVIOUS
    <2>1. Len(s) \in Nat /\ (i \in 1..Len(s) \/ i = Len(s) + 1)
      OBVIOUS
    <2> QED BY <1>1, <2>1
  <1>4. t = a
    BY <1>1, <1>2, <1>3
  <1> QED BY <1>4 DEF a

\* What a step of the path adds to the transactions: nothing, or the one that the
\* executor of a withdrawal broadcasts.
LEMMA OrdersGrow ==
    ASSUME WithdrawalInv, WithdrawalInv', [Next]_vars
    PROVE  \/ SentOrders' = SentOrders
           \/ \E w \in Withdrawal : SentOrders' = Append(SentOrders, w) /\ Len(txs) + 1 \in Sent(w)'
  <1>1. txs \in Seq(Transaction) /\ txs' \in Seq(Transaction) /\ Typing /\ NonceOrder
    BY DEF WithdrawalInv, Typing, WorkerTyping
  <1>2. /\ Len(txs) \in Nat /\ DOMAIN txs = 1..Len(txs) /\ DOMAIN txs' = 1..Len(txs')
        /\ \A i \in DOMAIN txs' : txs'[i] \in Transaction
    BY <1>1
  <1>3. SentOrders \in Seq(Withdrawal) /\ Len(SentOrders) = Len(txs)
    BY <1>1, OrdersTyping DEF SentOrders
  <1>4. CASE UNCHANGED txs
    BY <1>4 DEF SentOrders
  <1>5. CASE WorkerNext
    <2>1. Lasts /\ (Len(txs') = Len(txs) \/ Len(txs') = Len(txs) + 1)
      BY <1>1, <1>5, WorkerKeepsChain
    <2>2. \A i \in DOMAIN txs : txs'[i].w = txs[i].w
      BY <2>1 DEF Lasts
    <2>3. CASE Len(txs') = Len(txs)
      BY <1>2, <2>2, <2>3 DEF SentOrders
    <2>4. CASE Len(txs') = Len(txs) + 1
      <3>1. PICK w \in Withdrawal : txs'[Len(txs) + 1].w = w
        <4>1. txs'[Len(txs) + 1] \in Transaction
          BY <1>2, <2>4
        <4> QED BY <4>1 DEF Transaction
      <3>2. Len(txs) + 1 \in Sent(w)'
        BY <1>2, <2>4, <3>1 DEF Sent
      <3>3. /\ SentOrders' \in Seq(Withdrawal) /\ Len(SentOrders') = Len(txs) + 1
            /\ \A i \in 1..Len(txs) : SentOrders'[i] = SentOrders[i]
            /\ SentOrders'[Len(txs) + 1] = w
        <4>1. SentOrders' \in Seq(Withdrawal) /\ Len(SentOrders') = Len(txs')
          BY <1>1, OrdersTyping DEF SentOrders
        <4>2. \A i \in 1..Len(txs') : SentOrders'[i] = txs'[i].w
          BY <1>2 DEF SentOrders
        <4> QED BY <1>2, <2>2, <2>4, <3>1, <4>1, <4>2 DEF SentOrders
      <3>4. SentOrders' = Append(SentOrders, w)
        BY <1>2, <1>3, <3>3, LongerByOne
      <3> QED BY <3>2, <3>4
    <2> QED BY <2>1, <2>3, <2>4
  <1> QED BY <1>4, <1>5 DEF Next, vars, workerVars

\* executeWithdrawal with its queue, its locks and its confirmation keeps the promise of
\* PayOnce: as long as no attempt from the hot wallet fails after its broadcast, and
\* nothing but the worker resumes a withdrawal, none is ever sent again.
THEOREM PaidOnce == Spec => PaysOnce
  <1>1. Init => Orders!Init
    BY DEF Init, WorkerInit, SentOrders, Orders!Init
  <1>2. ASSUME WithdrawalInv, WithdrawalInv', NoLateFailure', [Next]_vars
        PROVE  [Orders!Next]_SentOrders
    <2> SUFFICES ASSUME NEW w \in Withdrawal, SentOrders' = Append(SentOrders, w),
                        Len(txs) + 1 \in Sent(w)'
                 PROVE  Orders!Pay(w)
      BY <1>2, OrdersGrow DEF Orders!Next
    <2>1. \A i, j \in Sent(w)' : i = j
      BY <1>2 DEF NoLateFailure, WithdrawalInv, SendsOnce, Once
    <2>2. ASSUME NEW i \in DOMAIN SentOrders, SentOrders[i] = w PROVE FALSE
      <3>1. txs \in Seq(Transaction) /\ txs' \in Seq(Transaction) /\ i \in 1..Len(txs) /\ Len(txs) \in Nat
        BY <1>2, <2>2 DEF WithdrawalInv, Typing, WorkerTyping, SentOrders
      <3>2. SentOrders \in Seq(Withdrawal) /\ Len(SentOrders) = Len(txs)
        BY <3>1, OrdersTyping DEF SentOrders
      <3>3. i \in DOMAIN txs' /\ txs'[i].w = w
        <4>1. SentOrders'[i] = w /\ i \in DOMAIN SentOrders'
          BY <2>2, <3>1, <3>2
        <4> QED BY <4>1 DEF SentOrders
      <3> QED BY <2>1, <3>1, <3>3 DEF Sent
    <2> QED BY <2>2 DEF Orders!Pay, Orders!AlreadyPaid
  <1> QED BY <1>1, <1>2, InvHolds, PTL DEF Spec, PaysOnce, Orders!Spec

\* The confirmation job follows the transaction that the row records.
THEOREM TrackedRecorded == Spec => []TrackedIsRecorded
  <1>1. WithdrawalInv => TrackedIsRecorded
    BY DEF WithdrawalInv
  <1> QED BY <1>1, InvHolds, PTL

\* submitCoSignature: a suspended withdrawal is resumed when one of its operations was
\* answered, or by those who had claimed it or read it before.
THEOREM AnsweredFirst == Spec => ResumedWhenAnswered
  <1> DEFINE A == \A w \in Withdrawal :
          /\ status[w] = "pending_cosign" /\ status'[w] = "approved"
          /\ \A k \in Worker : ~Executing(k, w)
          /\ \A r \in Request : request[r] # Idle /\ request[r].w = w => ~At(r, "approve")
          => \E o \in DOMAIN ops : ops[o].w = w /\ ops[o].state # "pending"
  <1>1. ASSUME WithdrawalInv, [Next]_vars
        PROVE  [A]_vars
    <2> SUFFICES ASSUME Next, NEW w \in Withdrawal,
                        status[w] = "pending_cosign", status'[w] = "approved",
                        \A k \in Worker : ~Executing(k, w),
                        \A r \in Request : request[r] # Idle /\ request[r].w = w => ~At(r, "approve")
                 PROVE  \E o \in DOMAIN ops : ops[o].w = w /\ ops[o].state # "pending"
      BY <1>1
    <2>1. ApiTyping /\ WorkerTyping /\ status \in [Withdrawal -> Statuses]
      BY <1>1 DEF WithdrawalInv, Typing, ApiTyping
    <2>2. ASSUME NEW k \in Worker PROVE ~Fail(k)
      BY <2>1 DEF Fail, Guarded, SetStatus, Executing
    <2>3. ~WorkerNext
      BY <2>1, <2>2 DEF WorkerNext, Execute, PollRead, Enqueue, Stall, RemoveJob, ReadReceipt, ChainMoves,
        CheckThrows, WriteOutcome, GiveUp, RemoveConfirmJob, Load, ReadSequence, ReadNonce, Record, Track, Publish,
        FailUncaught, Die, Take, Broadcast, Claim, CompareAndSet, SetStatus
    <2>4. ASSUME NEW r \in Request PROVE ~ApproveWrite(r)
      <3> SUFFICES ASSUME ApproveWrite(r) PROVE FALSE
        OBVIOUS
      <3>1. request[r] # Idle /\ At(r, "approve")
        BY DEF ApproveWrite, At, Idle
      <3>2. request[r].w = w
        BY <2>1 DEF ApproveWrite, SetStatus
      <3> QED BY <3>1, <3>2
    <2>5. PICK r \in Request : ResumeWithdrawal(r)
      BY <2>1, <2>3, <2>4 DEF Next, ApiNext, CreateRead, ApproveRead, CancelRead, SignRead, ExpireRead,
        OpenOperation, SignOperation, ExpireOperation, Abandon, Age, CreateInsert, CancelWrite,
        SuspendWithdrawal, CancelExpired, SetStatus, CompareAndSet
    <2>6. request[r].w = w /\ request[r].pc = "resume"
      BY <2>1, <2>5 DEF ResumeWithdrawal, SetStatus, CompareAndSet, At
    <2> QED BY <2>1, <2>6 DEF ApiTyping, OperationKnown
  <1> QED BY <1>1, InvHolds, PTL DEF Spec, ResumedWhenAnswered
=============================================================================
