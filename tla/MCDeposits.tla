---------------------------- MODULE MCDeposits ----------------------------
\* Instances of DepositSystem.
EXTENDS DepositSystem, TLC

CONSTANTS t1, t2, p1, p2, c1, c2

Equal == t1 :> 1 @@ t2 :> 1
PolledOrRealtime == {"polling", "realtime"}
FlushPolled == [m \in Modes |-> IF m = "polling" THEN 1 ELSE 0]
OrphanRealtime == [m \in Modes |-> IF m = "realtime" THEN 1 ELSE 0]
=============================================================================
