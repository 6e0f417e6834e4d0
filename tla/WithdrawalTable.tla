--------------------------- MODULE WithdrawalTable ---------------------------
(***************************************************************************)
(* The status and source_wallet columns of cvh_transactions.withdrawals;   *)
(* the API of core-wallet-service and the jobs of cron-worker-service both *)
(* write the status.                                                       *)
(* All withdrawals are of one client on one chain: they share the hot      *)
(* wallet, the platform key that sends to it and the gas tank.  A          *)
(* withdrawal stands for its idempotency key, which is unique.             *)
(***************************************************************************)
EXTENDS Integers, Sequences, FiniteSets

CONSTANTS
    Withdrawal,     \* idempotency keys
    CoSigned        \* those of a project whose custody mode is co_sign

ASSUME WithdrawalAssumption == CoSigned \subseteq Withdrawal

VARIABLES
    status,     \* "none" when there is no row
    source      \* the wallet that pays, fixed by the row's creation

Statuses == {"none", "pending_approval", "pending_cosign", "approved",
             "broadcasting", "confirmed", "failed", "cancelled", "rejected"}

Wallets == {"hot", "gas_tank"}

\* UPDATE withdrawals SET status = s WHERE id = w
SetStatus(w, s) == status' = [status EXCEPT ![w] = s]

\* ... AND status = old
CompareAndSet(w, old, s) ==
    IF status[w] = old THEN SetStatus(w, s) ELSE UNCHANGED status
=============================================================================
