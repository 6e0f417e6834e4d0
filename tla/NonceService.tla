---------------------------- MODULE NonceService ----------------------------
(***************************************************************************)
(* core-wallet-service: nonce.service.ts hands out the nonces of a gas     *)
(* tank under a lock in Redis that ends by itself, from a counter in Redis *)
(* that is filled from the chain.  The mempool is modelled as far as it is *)
(* used: a transaction is mined when every lower nonce was sent.           *)
(***************************************************************************)
EXTENDS Integers, FiniteSets

CONSTANTS
    Run,            \* calls of deployProjectChain under way at a time
    Nobody,         \* the lock is free
    NoNonce,        \* no cached nonce
    MaxNonce        \* bound: nonces used

ASSUME NonceAssumption == NoNonce \notin Nat /\ Nobody \notin Run /\ MaxNonce \in Nat

VARIABLES
    nonceLock,      \* nonce_lock:<chain>:<address>
    nonceCache,     \* nonce:<chain>:<address>
    nextNonce,      \* getTransactionCount pending: the lowest nonce not sent
    pool            \* nonces sent above nextNonce

nonceVars == <<nonceLock, nonceCache, nextNonce, pool>>

NonceInit ==
    /\ nonceLock = Nobody /\ nonceCache = NoNonce
    /\ nextNonce = 0 /\ pool = {}

\* waitForLock
TakeLock(r) ==
    /\ nonceLock = Nobody
    /\ nonceLock' = r
    /\ UNCHANGED <<nonceCache, nextNonce, pool>>

\* LOCK_TTL_MS is over while its owner is still at work
LockEnds ==
    /\ nonceLock # Nobody
    /\ nonceLock' = Nobody
    /\ UNCHANGED <<nonceCache, nextNonce, pool>>

\* the cached nonce, or the one of the chain
Current == IF nonceCache = NoNonce THEN nextNonce ELSE nonceCache

\* fault: the counter is left to the next caller
StoreNonceAsRead(n) ==
    /\ nonceCache' = n
    /\ UNCHANGED <<nonceLock, nextNonce, pool>>

StoreNonce(n) ==
    /\ nonceCache' = n + 1
    /\ UNCHANGED <<nonceLock, nextNonce, pool>>

\* releaseLock: only its owner deletes it
Released(r) == IF nonceLock = r THEN Nobody ELSE nonceLock

\* the nonces from nextNonce on without a hole
Sent(nonces) ==
    CHOOSE n \in nextNonce .. MaxNonce + 2 :
        nextNonce .. n - 1 \subseteq nonces /\ n \notin nonces

\* the mempool takes a nonce once and not below the account's
Takes(n) == n >= nextNonce /\ n \notin pool

Broadcast(n) ==
    /\ Takes(n)
    /\ nextNonce' = Sent(pool \cup {n})
    /\ pool' = {m \in pool \cup {n} : m > nextNonce'}

\* another service sends with the key of the gas tank
OutsideTransaction ==
    /\ nextNonce < MaxNonce
    /\ Broadcast(nextNonce)
    /\ UNCHANGED <<nonceLock, nonceCache>>

\* the counter ends an hour after it was written, or resetNonce deletes it
CacheReset ==
    /\ nonceCache # NoNonce
    /\ nonceCache' = NoNonce
    /\ UNCHANGED <<nonceLock, nextNonce, pool>>
=============================================================================
