SPECIFICATION FairSpec
CONSTANTS
    e1 = e1
    e2 = e2
    n1 = n1
    u1 = u1
    s1 = s1
    s2 = s2
    p1 = p1
    coin = coin
    c1 = c1
    d1 = d1
    d2 = d2
    t = t
    u = u
    Nobody = Nobody
    Deposit <- OneToken
    TokenOf <- Kind
    Native <- Coins
    Sweeper <- OneSweeper
    Reconciler <- OneReconciler
    Deployer <- OneDeployer
    Check <- OneCheck
    Gated <- None
    Outages = FALSE
    MaxTxs = 3
PROPERTIES FailedIsRetried
CHECK_DEADLOCK FALSE
