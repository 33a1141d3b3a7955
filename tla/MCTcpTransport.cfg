CONSTANTS
    peer1 = peer1
    peer2 = peer2
    None = None
    Peers <- MCPeers
    MaxConnections = 2
    ConnsPerPeer = 1
    EgressOnly = FALSE
    MaxPids = 3
    MaxCalls = 1
SPECIFICATION FairSpec
INVARIANTS
    PoolBounded
    PoolConsistent
PROPERTY DeadLeavePool
CHECK_DEADLOCK FALSE
