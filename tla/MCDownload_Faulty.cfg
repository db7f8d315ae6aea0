CONSTANTS
    g1 = g1
    g2 = g2
    p1 = p1
    p2 = p2
    Roots <- MCRoots
    LocalRoot = g1
    Producers <- MCProducers
    MaxLen = 2
    MaxResponses = 2
    Faulty = TRUE
SPECIFICATION Spec
INVARIANT BackfillConnects
CHECK_DEADLOCK FALSE
