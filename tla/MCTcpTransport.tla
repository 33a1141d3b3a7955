--------------------------- MODULE MCTcpTransport ---------------------------
(* Two peers, two places in the pool and three connection processes, so that *)
(* the pool fills up, empties and fills again.                               *)
EXTENDS TcpTransport

CONSTANTS peer1, peer2

MCPeers == {peer1, peer2}
=============================================================================
