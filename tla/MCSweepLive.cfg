SPECIFICATION FairSpec
CONSTANTS
    e1 = e1
    e2 = e2
    n1 = n1
    u1 = u1
    s1 = s1
    s2 = s2
    p1 = p1
    coin = coin
    c1 = c1
    d1 = d1
    d2 = d2
    t = t
    u = u
    Nobody = Nobody
    Deposit <- CoinAndSameToken
    TokenOf <- Kind
    Native <- Coins
    Sweeper <- TwoSweepers
    Reconciler <- OneReconciler
    Deployer <- OneDeployer
    Check <- None
    Gated <- None
    Outages = FALSE
    MaxTxs = 4
PROPERTIES SettledUnlessRefilled ConfirmedIsFlushed
INVARIANTS OneFlushPerDeposit
CHECK_DEADLOCK FALSE
