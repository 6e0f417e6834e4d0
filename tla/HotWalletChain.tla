--------------------------- MODULE HotWalletChain ---------------------------
(***************************************************************************)
(* The chain as the withdrawal worker sees it through its RPC provider:    *)
(* the transactions sent from the platform key, which call the hot wallet  *)
(* contract, and from the gas tank.  Transactions of an account are mined  *)
(* in the order of their nonces.  The hot wallet executes a sequence id at *)
(* most once (theorem ReplayProtection of WalletSimpleProofs).             *)
(***************************************************************************)
EXTENDS Integers, Sequences, FiniteSets

CONSTANT MaxTxs     \* bound of the model: transactions broadcast

VARIABLE txs        \* [w, account, seq, nonce, state, deep], in broadcast order
                    \* deep: it has the required confirmations

Account == {"platform", "gas_tank"}

TxState == {"pending", "ok", "reverted", "gone"}

Mined(t) == t.state \in {"ok", "reverted"}

\* transactions of account a a node knows of, with this nonce
Live(a, n) ==
    \E i \in DOMAIN txs : txs[i].account = a /\ txs[i].nonce = n /\ txs[i].state # "gone"

MinedCount(a) == Cardinality({i \in DOMAIN txs : txs[i].account = a /\ Mined(txs[i])})

\* getTransactionCount(a, 'pending')
IsPendingNonce(a, n) ==
    /\ ~Live(a, n)
    /\ \A m \in 0..n-1 : Live(a, m)

SeqUsed(s) ==
    \E i \in DOMAIN txs :
        txs[i].account = "platform" /\ txs[i].state = "ok" /\ txs[i].seq = s

\* getNextSequenceId of the wallet, at the latest block
IsNextSequenceId(s) ==
    /\ s = 1 \/ SeqUsed(s - 1)
    /\ \A u \in 1..MaxTxs : SeqUsed(u) => u < s

\* broadcastTransaction, when the node accepts: a pending transaction with
\* the same nonce is replaced
Submit(t) ==
    /\ Len(txs) < MaxTxs
    /\ t.nonce >= MinedCount(t.account)
    /\ txs' = Append([i \in DOMAIN txs |->
                        IF txs[i].account = t.account /\ txs[i].nonce = t.nonce
                        THEN [txs[i] EXCEPT !.state = "gone"] ELSE txs[i]], t)

-----------------------------------------------------------------------------

\* a transaction may always revert (an empty wallet, an expired call); it
\* must when its sequence id has been used
Mine(i) ==
    /\ txs[i].state = "pending"
    /\ txs[i].nonce = MinedCount(txs[i].account)
    /\ \E s \in {"ok", "reverted"} :
        /\ s = "ok" => txs[i].account = "gas_tank" \/ ~SeqUsed(txs[i].seq)
        /\ txs' = [txs EXCEPT ![i].state = s]

Before(i, j) == txs[i].account = txs[j].account /\ txs[i].nonce < txs[j].nonce

Bury(i) ==
    /\ Mined(txs[i]) /\ ~txs[i].deep
    /\ \A j \in DOMAIN txs : Before(j, i) /\ Mined(txs[j]) => txs[j].deep
    /\ txs' = [txs EXCEPT ![i].deep = TRUE]

\* the block is orphaned; reorganisations are shallower than the
\* confirmations a chain is configured with
Orphan(i) ==
    /\ Mined(txs[i]) /\ ~txs[i].deep
    /\ \A j \in DOMAIN txs : Before(i, j) => ~Mined(txs[j])
    /\ txs' = [txs EXCEPT ![i].state = "pending"]

\* evicted from the mempools
Evict(i) ==
    /\ txs[i].state = "pending"
    /\ txs' = [txs EXCEPT ![i].state = "gone"]

ChainNext == \E i \in DOMAIN txs : Mine(i) \/ Bury(i) \/ Orphan(i) \/ Evict(i)
=============================================================================
