--------------------------- MODULE ForwarderChain ---------------------------
(***************************************************************************)
(* The chain as the sweep sees it: the forwarder of CvhForwarder.sol at    *)
(* its counterfactual address, the transfers to it, and the transactions   *)
(* that deploy it or flush it through the parent wallet.  Amounts are      *)
(* abstracted: a balance is the set of the deposits it is made of.         *)
(***************************************************************************)
EXTENDS DepositTables

VARIABLES
    place,      \* where the funds of a deposit are
    txs         \* [kind, call, rows, state]; rows: the deposits it was sent for

chain == <<place, txs>>

Places == {"sender", "forwarder", "wallet"}

TxState == {"pending", "success", "reverted", "gone"}

Mined(i) == txs[i].state \in {"success", "reverted"}

\* getCode(forwarder) is not empty
Deployed == \E i \in DOMAIN txs : txs[i].kind = "deploy" /\ txs[i].state = "success"

HasBalance(t) == \E d \in Deposit : TokenOf[d] = t /\ place[d] = "forwarder"

\* flush(), flushTokens(t), batchFlushERC20Tokens(T)
Flush(T) ==
    place' = [d \in Deposit |-> IF TokenOf[d] \in T /\ place[d] = "forwarder"
                                THEN "wallet" ELSE place[d]]

Send(t) ==
    /\ Len(txs) < MaxTxs
    /\ txs' = Append(txs, t)

\* a single ERC-20 token is flushed by wallet.flushForwarderTokens, which
\* reverts without a forwarder; sendMultiSig then calls an empty address,
\* and succeeds
RevertsUndeployed(T) == Cardinality(T) = 1 /\ T \cap Native = {}

ChainInit ==
    /\ place = [d \in Deposit |-> "sender"]
    /\ txs = <<>>

-----------------------------------------------------------------------------

\* receive() forwards the coin at once when there is code
Transfer(d) ==
    /\ place[d] = "sender"
    /\ place' = [place EXCEPT ![d] =
                   IF Deployed /\ TokenOf[d] \in Native THEN "wallet" ELSE "forwarder"]
    /\ UNCHANGED txs

Settle(i, s) == txs' = [txs EXCEPT ![i].state = s]

\* createForwarder: init() flushes the coin that arrived before; the address
\* can be used once
MineDeploy(i) ==
    /\ txs[i].kind = "deploy" /\ txs[i].state = "pending"
    /\ IF Deployed THEN Settle(i, "reverted") /\ UNCHANGED place
                   ELSE Settle(i, "success") /\ Flush(Native)

\* a call of the wallet may always revert (sequence id used, out of gas)
MineFlush(i) ==
    /\ txs[i].kind = "flush" /\ txs[i].state = "pending"
    /\ \/ Settle(i, "reverted") /\ UNCHANGED place
       \/ /\ Deployed
          /\ Settle(i, "success")
          /\ Flush(txs[i].call)
       \/ /\ ~Deployed /\ ~RevertsUndeployed(txs[i].call)
          /\ Settle(i, "success")
          /\ UNCHANGED place

Lose(i) ==
    /\ Outages
    /\ txs[i].state = "pending"
    /\ Settle(i, "gone")
    /\ UNCHANGED place

\* the blocks since the deployment are orphaned, before any flush was mined; another
\* deployment reverts again, since its nonce is higher
Undeploy(i) ==
    /\ Outages
    /\ txs[i].kind = "deploy" /\ txs[i].state = "success"
    /\ \A j \in DOMAIN txs : txs[j].kind = "flush" => ~Mined(j)
    /\ Settle(i, "pending")
    /\ place' = [d \in Deposit |-> IF TokenOf[d] \in Native /\ place[d] = "wallet"
                                   THEN "forwarder" ELSE place[d]]

MineNext == \E i \in DOMAIN txs : MineDeploy(i) \/ MineFlush(i)

ChainNext ==
    /\ \/ \E d \in Deposit : Transfer(d)
       \/ MineNext
       \/ \E i \in DOMAIN txs : Lose(i) \/ Undeploy(i)
    /\ UNCHANGED tables
=============================================================================
