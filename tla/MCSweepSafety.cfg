SPECIFICATION Spec
CONSTANTS
    e1 = e1
    e2 = e2
    n1 = n1
    u1 = u1
    s1 = s1
    s2 = s2
    p1 = p1
    coin = coin
    c1 = c1
    d1 = d1
    d2 = d2
    t = t
    u = u
    Nobody = Nobody
    Deposit <- OtherTokens
    TokenOf <- Kind
    Native <- Coins
    Sweeper <- OneSweeper
    Reconciler <- OneReconciler
    Deployer <- TwoDeployers
    Check <- OneCheck
    Gated <- OtherTokens
    Outages = TRUE
    MaxTxs = 2
PROPERTIES SweptHasMoved FailedHasReverted RowsAsPromised
INVARIANTS TypeOK
CHECK_DEADLOCK FALSE
SYMMETRY DeployerSymmetry
