---------------------------- MODULE MCWithdrawal ----------------------------
EXTENDS WithdrawalSystem, TLC

CONSTANTS w1, w2, r1, r2, k1, k2

None == {}
One == {w1}
Two == {w1, w2}
OneRequest == {r1}
TwoRequests == {r1, r2}
OneWorker == {k1}
TwoWorkers == {k1, k2}

RequestSymmetry == Permutations(TwoRequests)
WorkerSymmetry == Permutations(TwoWorkers)
=============================================================================
