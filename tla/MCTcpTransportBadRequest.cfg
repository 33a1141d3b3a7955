CONSTANTS
    peer1 = peer1
    peer2 = peer2
    None = None
    Peers <- MCPeers
    MaxConnections = 2
    ConnsPerPeer = 1
    EgressOnly = FALSE
    MaxPids = 2
    MaxCalls = 1
SPECIFICATION Spec
INVARIANT BadRequestCanLeave
CHECK_DEADLOCK FALSE
