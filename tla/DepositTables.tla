---------------------------- MODULE DepositTables ----------------------------
(***************************************************************************)
(* What chain-indexer-service and the sweep, deploy and reconcile jobs of  *)
(* cron-worker-service share: deposits (status, sweep_tx_hash), the        *)
(* is_deployed flag of deposit_addresses and gas_tank_transactions.        *)
(* All deposits go to one forwarder of one client; the jobs treat          *)
(* forwarders one by one.                                                  *)
(***************************************************************************)
EXTENDS Integers, Sequences, FiniteSets

CONSTANTS
    Deposit,        \* transfers to the forwarder; one row each
    TokenOf,        \* the token of each
    Native,         \* the tokens that are the chain's own coin
    MaxTxs,         \* bound of the model: transactions broadcast
    Outages         \* whether processes die or are delayed, the database, the
                    \* queue and the RPC nodes refuse calls or lag behind,
                    \* transactions get lost and blocks are orphaned

VARIABLES
    status,         \* "none" when there is no row
    sweepTxHash,    \* an index of the broadcast transactions; 0 when NULL
    isDeployed,     \* the flag of the forwarder's deposit_addresses row
    gasTx           \* status of the gas_tank_transactions row of each
                    \* transaction; rows of type deploy_forwarder, which the
                    \* reconciler does not relate to deposits, are left out

tables == <<status, sweepTxHash, isDeployed, gasTx>>

Statuses == {"none", "pending", "confirming", "confirmed", "reverted",
             "sweep_pending", "swept", "sweep_failed"}

\* "non-terminal" in the words of the jobs that reconcile
Unswept == {"pending", "confirming", "confirmed"}

Tokens == {TokenOf[d] : d \in Deposit}

ASSUME DepositAssumption == Outages \in BOOLEAN /\ MaxTxs \in Nat

OfTokens(D, T) == {d \in D : TokenOf[d] \in T}

\* UPDATE deposits SET status = s WHERE id IN D
SetStatus(D, s) == status' = [d \in Deposit |-> IF d \in D THEN s ELSE status[d]]

SetHash(D, h) == sweepTxHash' = [d \in Deposit |-> IF d \in D THEN h ELSE sweepTxHash[d]]

TablesInit ==
    /\ status = [d \in Deposit |-> "none"]
    /\ sweepTxHash = [d \in Deposit |-> 0]
    /\ isDeployed = FALSE
    /\ gasTx = [h \in 1..MaxTxs |-> "none"]
=============================================================================
