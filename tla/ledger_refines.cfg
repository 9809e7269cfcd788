SPECIFICATION FairSpec
CONSTANTS
    ana = ana
    budi = budi
    k1 = k1
    k2 = k2
    NoRequest = NoRequest
    Accounts <- MCAccounts
    Customers <- MCCustomers
    Active <- MCActive
    Shards <- MCShards
    FeeShards <- MCFeeShards
    Users <- MCUsers
    Keys <- MCKeys
    Opening <- MCOpening
    Hold <- MCHold
    DailyLimit <- MCDailyLimit
    PerTxnLimit <- MCPerTxnLimit
    MaxAttempts = 3
    Requests <- Crossing
    Days <- TwoDays
    Workers = {w1, w2}
    PoolSize = 3
    MaxCalls = 3
    Faults = {"cancel", "lostCommit"}
PROPERTIES
    RefinesPostings
    Answered
