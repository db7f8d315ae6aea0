CONSTANTS
    g1 = g1
    g2 = g2
    p1 = p1
    p2 = p2
    Tips <- MCTips
    MaxTrunk = 2
    MaxResponses = 3
    Garbled = Garbled
    NotFound = NotFound
    Roots <- MCRoots
    LocalRoot = g1
    Producers <- MCProducers
    MaxLen = 2
    MaxLimit = 3
    TxSizes = {1, 2}
    MaxMempool = 3
    MaxThaw = 1
    Award = 2
    MaxFailures = 1
    NoBlock = NoBlock
SPECIFICATION Spec
INVARIANT TypeOK TargetIsHighestConfirmed BackfillConnects TxOrder MempoolPrefix
