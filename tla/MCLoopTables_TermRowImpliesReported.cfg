CONSTANTS
    c1 = c1
    c2 = c2
    b1 = b1
    b2 = b2
    a1 = a1
    a2 = a2
    Absent = Absent
    None = None
    Candidates <- MCCandidates
    Ballots <- MCBallots
    Addresses <- MCAddresses
    MaxTerm = 2
    MaxHeight = 3
    Delay = 1
    MaxFailures = 1

SPECIFICATION Spec

INVARIANT TermRowImpliesReported
