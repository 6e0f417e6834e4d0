------------------------------- MODULE MCIndex -------------------------------
\* Instances of IndexSystem.
EXTENDS IndexSystem

CONSTANTS a1, a2

\* in block 2 a native transfer and the first log of one transaction
Transfers == {
    [block |-> 2, address |-> a1, log |-> FALSE, key |-> <<"tx2", 0>>],
    [block |-> 2, address |-> a2, log |-> TRUE, key |-> <<"tx2", 0>>],
    [block |-> 2, address |-> a2, log |-> TRUE, key |-> <<"tx3", 5>>]}
=============================================================================
