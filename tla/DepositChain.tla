---------------------------- MODULE DepositChain ----------------------------
(***************************************************************************)
(* What the deposit detectors see of a chain: one forwarder, transfers of  *)
(* one currency to it and flushes that empty it.  A block holds at most    *)
(* one of them; a transfer near the head may be orphaned and mined again.  *)
(***************************************************************************)
EXTENDS Naturals, FiniteSets, Functions

CONSTANTS
    Transfer,       \* transfers to the forwarder
    Amount,         \* what each one pays
    MaxBlock,       \* bound: blocks mined
    Depth           \* how far below the head a transfer may be orphaned

ASSUME ChainAssumption ==
    /\ IsFiniteSet(Transfer)
    /\ Amount \in [Transfer -> Nat \ {0}]
    /\ {MaxBlock, Depth} \subseteq Nat

VARIABLES
    head,           \* the highest block
    blockOf,        \* the block of a transfer, 0 when it has none
    flushes,        \* the blocks that hold a flush
    orphans         \* how many transfers were orphaned

eth == <<head, blockOf, flushes, orphans>>

Block == 1 .. MaxBlock

Total(S) == SumFunctionOnSet(Amount, S)

Mined == {t \in Transfer : blockOf[t] # 0}

\* the transfers that make up the balance
Held == {t \in Mined : \A f \in flushes : f < blockOf[t]}

Balance == Total(Held)

ChainInit ==
    /\ head = 0
    /\ blockOf = [t \in Transfer |-> 0]
    /\ flushes = {}
    /\ orphans = 0

MineTransfer(t) ==
    /\ head < MaxBlock
    /\ t \notin Mined
    /\ head' = head + 1
    /\ blockOf' = [blockOf EXCEPT ![t] = head']
    /\ UNCHANGED <<flushes, orphans>>

MineFlush ==
    /\ head < MaxBlock
    /\ Held # {}
    /\ head' = head + 1
    /\ flushes' = flushes \cup {head'}
    /\ UNCHANGED <<blockOf, orphans>>

MineOther ==
    /\ head < MaxBlock
    /\ head' = head + 1
    /\ UNCHANGED <<blockOf, flushes, orphans>>

\* a flush that spent the transfer would be orphaned with it
Orphan(t) ==
    /\ t \in Held
    /\ blockOf[t] > head - Depth
    /\ blockOf' = [blockOf EXCEPT ![t] = 0]
    /\ orphans' = orphans + 1
    /\ UNCHANGED <<head, flushes>>

ChainNext ==
    \/ \E t \in Transfer : MineTransfer(t) \/ Orphan(t)
    \/ MineFlush
    \/ MineOther
=============================================================================
