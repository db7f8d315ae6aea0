CONSTANTS
    me = me
    p1 = p1
    i1 = i1
    i2 = i2
    None = None
    Me <- MCMe
    Peers <- MCPeers
    Ingress <- MCIngress1
    MaxBlockQueueSize = 2
    MaxHeight = 2
    MaxFailures = 1
SPECIFICATION Spec
INVARIANT MiningOnlyAfterElection
