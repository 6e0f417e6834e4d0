---------------------------- MODULE WalletSimple ----------------------------
(***************************************************************************)
(* The 2-of-3 multisig wallet contract, contracts/CvhWalletSimple.sol.     *)
(*                                                                         *)
(* A transaction that reverts changes nothing, so each revert condition is *)
(* a guard and a reverted call is no step.  The replay protection is a     *)
(* window of the most recently used sequence ids: a new id replaces the    *)
(* lowest one, and must be above it by at most MaxIncrease.                *)
(*                                                                         *)
(* The other signer's signature covers all arguments of the call and is    *)
(* handed over off chain: any signer may have signed anything, any number  *)
(* of times, so the model takes the recovered signer as an input.          *)
(***************************************************************************)
EXTENDS Integers, Sequences

CONSTANTS
    Address,        \* addresses a call may name
    ZeroAddress,    \* address(0)
    WindowSize,     \* SEQUENCE_ID_WINDOW_SIZE
    MaxIncrease,    \* MAX_SEQUENCE_ID_INCREASE
    MaxSequenceId,  \* bound of the model: largest id a caller passes
    MaxTime         \* bound of the model: last block timestamp

ASSUME WindowAssumption ==
    /\ WindowSize \in Nat \ {0}
    /\ MaxIncrease \in Nat
    /\ WindowSize <= MaxIncrease     \* 10 and 10000 in the contract
    /\ MaxSequenceId \in Nat
    /\ MaxTime \in Nat

VARIABLES
    initialized,        \* init has run on this clone
    signers,            \* isSigner: the three addresses, fixed by init
    safeMode,           \* irrevocable restriction of recipients to signers
    recentSequenceIds,  \* the window of used ids, zeros at first
    now,                \* block.timestamp
    log                 \* Transacted and BatchTransacted events, oldest first

vars == <<initialized, signers, safeMode, recentSequenceIds, now, log>>

Slots == 1..WindowSize
SequenceIds == 1..MaxSequenceId

ThreeSigners(S) ==
    \E a, b, c \in Address \ {ZeroAddress} :
        /\ a # b /\ b # c /\ a # c
        /\ S = {a, b, c}

\* A transaction in the event log: the id it used, whether anyone but the
\* signers was paid, and whether safe mode was on.
Transaction == [seq : Nat, outside : BOOLEAN, safe : BOOLEAN]

-----------------------------------------------------------------------------
(* Replay protection *)

\* slot i holds the lowest id of the window, and is the first such slot
IsLowest(i) ==
    /\ \A j \in Slots : recentSequenceIds[i] <= recentSequenceIds[j]
    /\ \A j \in Slots : j < i => recentSequenceIds[i] < recentSequenceIds[j]

\* fault: an id that fell out of the window is taken for a new one
InsertableIfNotRemembered(i, sequenceId) ==
    /\ \A j \in Slots : recentSequenceIds[j] # sequenceId
    /\ sequenceId <= recentSequenceIds[i] + MaxIncrease

\* fault: ids must be used in increasing order
InsertableIfHighest(i, sequenceId) ==
    /\ \A j \in Slots : recentSequenceIds[j] < sequenceId
    /\ sequenceId <= recentSequenceIds[i] + MaxIncrease

\* _tryInsertSequenceId does not revert, with slot i the lowest
Insertable(i, sequenceId) ==
    /\ \A j \in Slots : recentSequenceIds[j] # sequenceId
    /\ sequenceId > recentSequenceIds[i]
    /\ sequenceId <= recentSequenceIds[i] + MaxIncrease

TryInsertSequenceId(sequenceId) ==
    \E i \in Slots :
        /\ IsLowest(i)
        /\ Insertable(i, sequenceId)
        /\ recentSequenceIds' = [recentSequenceIds EXCEPT ![i] = sequenceId]

\* getNextSequenceId: one above the highest id in the window
IsNextSequenceId(sequenceId) ==
    /\ \E i \in Slots : sequenceId = recentSequenceIds[i] + 1
    /\ \A i \in Slots : recentSequenceIds[i] < sequenceId

-----------------------------------------------------------------------------
(* Calls *)

Init ==
    /\ initialized = FALSE
    /\ signers = {}
    /\ safeMode = FALSE
    /\ recentSequenceIds = [i \in Slots |-> 0]
    /\ now = 0
    /\ log = <<>>

\* fault: the three addresses are not compared with each other
InitWalletRepeated(allowedSigners) ==
    /\ ~initialized
    /\ allowedSigners # {} /\ ZeroAddress \notin allowedSigners
    /\ initialized' = TRUE
    /\ signers' = allowedSigners
    /\ UNCHANGED <<safeMode, recentSequenceIds, now, log>>

InitWallet(allowedSigners) ==
    /\ ~initialized
    /\ ThreeSigners(allowedSigners)
    /\ initialized' = TRUE
    /\ signers' = allowedSigners
    /\ UNCHANGED <<safeMode, recentSequenceIds, now, log>>

VerifyMultiSig(sender, otherSigner, expireTime, sequenceId) ==
    /\ expireTime >= now
    /\ TryInsertSequenceId(sequenceId)
    /\ otherSigner \in signers
    /\ otherSigner # sender

\* the part common to the three kinds of multisig call
Transact(sender, otherSigner, expireTime, sequenceId, recipients) ==
    /\ sender \in signers
    /\ VerifyMultiSig(sender, otherSigner, expireTime, sequenceId)
    /\ log' = Append(log, [seq |-> sequenceId,
                            outside |-> ~(recipients \subseteq signers),
                            safe |-> safeMode])
    /\ UNCHANGED <<initialized, signers, safeMode, now>>

SendMultiSig(sender, otherSigner, to, expireTime, sequenceId) ==
    /\ to # ZeroAddress
    /\ safeMode => to \in signers
    /\ Transact(sender, otherSigner, expireTime, sequenceId, {to})

SendMultiSigToken(sender, otherSigner, to, expireTime, sequenceId) ==
    /\ to # ZeroAddress
    /\ safeMode => to \in signers
    /\ Transact(sender, otherSigner, expireTime, sequenceId, {to})

\* fault: safe mode is forgotten in the batch
BatchInSafeMode(sender, otherSigner, recipients, expireTime, sequenceId) ==
    /\ recipients # {}
    /\ Transact(sender, otherSigner, expireTime, sequenceId, recipients)

\* a batch may name the zero address, but nothing may be batched in safe mode
SendMultiSigBatch(sender, otherSigner, recipients, expireTime, sequenceId) ==
    /\ ~safeMode
    /\ recipients # {}
    /\ Transact(sender, otherSigner, expireTime, sequenceId, recipients)

ActivateSafeMode(sender) ==
    /\ sender \in signers
    /\ safeMode' = TRUE
    /\ UNCHANGED <<initialized, signers, recentSequenceIds, now, log>>

\* a block is mined with a later timestamp
Tick ==
    /\ now < MaxTime
    /\ now' = now + 1
    /\ UNCHANGED <<initialized, signers, safeMode, recentSequenceIds, log>>

Next ==
    \/ \E S \in SUBSET Address : InitWallet(S)
    \/ \E sender, other \in Address, e \in 0..MaxTime, s \in SequenceIds :
        \/ \E to \in Address : SendMultiSig(sender, other, to, e, s)
        \/ \E to \in Address : SendMultiSigToken(sender, other, to, e, s)
        \/ \E R \in SUBSET Address : SendMultiSigBatch(sender, other, R, e, s)
    \/ \E sender \in Address : ActivateSafeMode(sender)
    \/ Tick

Spec == Init /\ [][Next]_vars

-----------------------------------------------------------------------------
(* Properties *)

\* The state has the shape the contract's storage has; the signers, once
\* set, are three different non-zero addresses (the checks of init).
TypeOK ==
    /\ initialized \in BOOLEAN
    /\ IF initialized THEN ThreeSigners(signers) ELSE signers = {}
    /\ safeMode \in BOOLEAN
    /\ recentSequenceIds \in [Slots -> Nat]
    /\ now \in 0..MaxTime
    /\ log \in Seq(Transaction)

\* Once a transaction ran in safe mode, it and every later one pays only the
\* signers: safe mode covers all three send calls and is never left.
SafeModeConfinesFunds ==
    \A i, j \in DOMAIN log :
        i <= j /\ log[i].safe => ~log[j].outside

\* The wallet cannot be wedged by the ids used so far: some id can still be
\* inserted, however far above the lowest the others are (gaps are legal).
SomeIdIsInsertable ==
    \E i \in Slots :
        /\ IsLowest(i)
        /\ \E s \in recentSequenceIds[i] + 1 .. recentSequenceIds[i] + MaxIncrease :
              Insertable(i, s)

\* Replay protection: the wallet is a PayOnce whose orders are sequence ids,
\* although it remembers only the last WindowSize of them.
UsedIds == [i \in DOMAIN log |-> log[i].seq]
Abstract == INSTANCE PayOnce WITH Order <- SequenceIds, paid <- UsedIds
NoReplay == Abstract!Spec
=============================================================================
