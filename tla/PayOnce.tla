------------------------------ MODULE PayOnce ------------------------------
(***************************************************************************)
(* A payment order is paid at most once.  The multisig wallet promises     *)
(* this of its sequence ids, and the withdrawal path of the withdrawals,   *)
(* as long as no attempt fails after its broadcast.  paid lists the orders *)
(* in the order they were paid; an order in the list is never appended     *)
(* again.                                                                  *)
(***************************************************************************)
EXTENDS Naturals, Sequences

CONSTANT Order

VARIABLE paid

AlreadyPaid(o) == \E i \in DOMAIN paid : paid[i] = o

Init == paid = <<>>

Pay(o) ==
    /\ ~AlreadyPaid(o)
    /\ paid' = Append(paid, o)

Next == \E o \in Order : Pay(o)

Spec == Init /\ [][Next]_paid
=============================================================================
