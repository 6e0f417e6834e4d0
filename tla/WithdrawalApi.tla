---------------------------- MODULE WithdrawalApi ----------------------------
(***************************************************************************)
(* core-wallet-service: creating, approving and cancelling withdrawals     *)
(* (withdrawal.service.ts) and co-signing them                             *)
(* (co-sign-orchestrator.service.ts).                                      *)
(*                                                                         *)
(* A handler awaits between its reads and its writes and nothing is        *)
(* locked, so each of its database calls is a step and the steps of        *)
(* concurrent requests interleave.  Abandon is a request that ends early:  *)
(* an awaited call throws, or the process dies.                            *)
(***************************************************************************)
EXTENDS WithdrawalTable

CONSTANT Request    \* requests being served at one time

VARIABLES
    request,    \* what each request is about to write
    ops,        \* co_sign_operations, oldest first
    approvals   \* history: how often each withdrawal was set to 'approved'
                \* by approveWithdrawal

apiVars == <<request, ops, approvals>>

Idle == [pc |-> "idle"]

Pending(pc, w, o) == [pc |-> pc, w |-> w, op |-> o]

RequestPc == {"create", "approve", "open", "suspend", "cancel",
              "sign", "resume", "expire", "drop"}

Operation == [w : CoSigned, state : {"pending", "signed", "expired"}, stale : BOOLEAN]

\* request r starts and goes on to pc
Begin(r, pc, w, o) ==
    /\ request[r] = Idle
    /\ request' = [request EXCEPT ![r] = Pending(pc, w, o)]

At(r, pc) == request[r].pc = pc

Advance(r, pc) == request' = [request EXCEPT ![r].pc = pc]

End(r) == request' = [request EXCEPT ![r] = Idle]

SignedFor(w) == \E o \in DOMAIN ops : ops[o].w = w /\ ops[o].state = "signed"

ApiInit ==
    /\ request = [r \in Request |-> Idle]
    /\ ops = <<>>
    /\ approvals = [w \in Withdrawal |-> 0]

-----------------------------------------------------------------------------
(* createWithdrawal, approveWithdrawal, cancelWithdrawal *)

\* no row has the idempotency key yet
CreateRead(r, w) ==
    /\ status[w] = "none"
    /\ Begin(r, "create", w, 0)
    /\ UNCHANGED <<source, status, ops, approvals>>

\* INSERT, which the unique key lets through once; the sanctions screening
\* decides the status, the request names the wallet
CreateInsert(r) ==
    LET w == request[r].w IN
    /\ At(r, "create")
    /\ status[w] = "none"
    /\ \/ SetStatus(w, "rejected") /\ UNCHANGED source
       \/ /\ SetStatus(w, "pending_approval")
          /\ \E wallet \in Wallets : source' = [source EXCEPT ![w] = wallet]
    /\ End(r)
    /\ UNCHANGED <<ops, approvals>>

ApproveRead(r, w) ==
    /\ status[w] = "pending_approval"
    /\ Begin(r, "approve", w, 0)
    /\ UNCHANGED <<source, status, ops, approvals>>

ApproveWrite(r) ==
    LET w == request[r].w IN
    /\ At(r, "approve")
    /\ SetStatus(w, "approved")
    /\ approvals' = [approvals EXCEPT ![w] = @ + 1]
    /\ IF w \in CoSigned THEN Advance(r, "open") ELSE End(r)
    /\ UNCHANGED <<source, ops>>

CancelRead(r, w) ==
    /\ status[w] = "pending_approval"
    /\ Begin(r, "cancel", w, 0)
    /\ UNCHANGED <<source, status, ops, approvals>>

CancelWrite(r) ==
    /\ At(r, "cancel")
    /\ SetStatus(request[r].w, "cancelled")
    /\ End(r)
    /\ UNCHANGED <<source, ops, approvals>>

-----------------------------------------------------------------------------
(* createCoSignOperation, submitCoSignature, expireStaleOperations *)

OpenOperation(r) ==
    /\ At(r, "open")
    /\ ops' = Append(ops, [w |-> request[r].w, state |-> "pending", stale |-> FALSE])
    /\ Advance(r, "suspend")
    /\ UNCHANGED <<source, status, approvals>>

SuspendWithdrawal(r) ==
    /\ At(r, "suspend")
    /\ SetStatus(request[r].w, "pending_cosign")
    /\ End(r)
    /\ UNCHANGED <<source, ops, approvals>>

SignRead(r, o) ==
    /\ ops[o].state = "pending"
    /\ ~ops[o].stale
    /\ Begin(r, "sign", ops[o].w, o)
    /\ UNCHANGED <<source, status, ops, approvals>>

\* fault: the withdrawal is resumed before the signature is stored
SignResumesFirst(r) ==
    /\ At(r, "sign")
    /\ CompareAndSet(request[r].w, "pending_cosign", "approved")
    /\ Advance(r, "resume")
    /\ UNCHANGED <<source, ops, approvals>>

\* the update is by primary key: whatever the state has become
SignOperation(r) ==
    /\ At(r, "sign")
    /\ ops' = [ops EXCEPT ![request[r].op].state = "signed"]
    /\ Advance(r, "resume")
    /\ UNCHANGED <<source, status, approvals>>

ResumeWithdrawal(r) ==
    /\ At(r, "resume")
    /\ CompareAndSet(request[r].w, "pending_cosign", "approved")
    /\ End(r)
    /\ UNCHANGED <<source, ops, approvals>>

ExpireRead(r, o) ==
    /\ ops[o].state = "pending"
    /\ ops[o].stale
    /\ Begin(r, "expire", ops[o].w, o)
    /\ UNCHANGED <<source, status, ops, approvals>>

ExpireOperation(r) ==
    /\ At(r, "expire")
    /\ ops' = [ops EXCEPT ![request[r].op].state = "expired"]
    /\ Advance(r, "drop")
    /\ UNCHANGED <<source, status, approvals>>

CancelExpired(r) ==
    /\ At(r, "drop")
    /\ CompareAndSet(request[r].w, "pending_cosign", "cancelled")
    /\ End(r)
    /\ UNCHANGED <<source, ops, approvals>>

\* 24 hours pass
Age(o) ==
    /\ ops[o].state = "pending"
    /\ ~ops[o].stale
    /\ ops' = [ops EXCEPT ![o].stale = TRUE]
    /\ UNCHANGED <<source, status, request, approvals>>

Abandon(r) ==
    /\ request[r] # Idle
    /\ End(r)
    /\ UNCHANGED <<source, status, ops, approvals>>

ApiNext ==
    \/ \E r \in Request :
        \/ \E w \in Withdrawal : CreateRead(r, w) \/ ApproveRead(r, w) \/ CancelRead(r, w)
        \/ \E o \in DOMAIN ops : SignRead(r, o) \/ ExpireRead(r, o)
        \/ CreateInsert(r) \/ ApproveWrite(r) \/ CancelWrite(r)
        \/ OpenOperation(r) \/ SuspendWithdrawal(r)
        \/ SignOperation(r) \/ ResumeWithdrawal(r)
        \/ ExpireOperation(r) \/ CancelExpired(r)
        \/ Abandon(r)
    \/ \E o \in DOMAIN ops : Age(o)
=============================================================================
