----------------------------- MODULE MCServices -----------------------------
EXTENDS ServiceSystem

CONSTANTS w1, r1, r2, c1, c2, p1, p2

FewRows == [t \in Tables |-> IF t = "derived_keys" THEN 2 ELSE 1]
=============================================================================
