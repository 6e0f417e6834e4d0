------------------------------ MODULE MCSweep ------------------------------
EXTENDS SweepSystem, TLC

CONSTANTS n1, e1, e2, u1,       \* deposits: of the coin, of t (two), of u
          coin, t, u,
          s1, s2, p1, c1, d1, d2

None == {}
OneToken == {e1}
CoinAndSameToken == {n1, e1, e2}
OtherTokens == {e1, u1}

Kind == (n1 :> coin) @@ (e1 :> t) @@ (e2 :> t) @@ (u1 :> u)
Coins == {coin}

OneSweeper == {s1}
TwoSweepers == {s1, s2}
OneReconciler == {p1}
OneCheck == {c1}
OneDeployer == {d1}
TwoDeployers == {d1, d2}
DeployerSymmetry == Permutations(TwoDeployers)
=============================================================================
