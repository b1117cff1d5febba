----------------------------- MODULE MCPeerConns -----------------------------
(* Small instances of PeerConns for TLC. *)
EXTENDS PeerConns, TLC

CONSTANTS p1, c1, c2, c3

OnePeer == {p1}
ThreeConns == {c1, c2, c3}
=============================================================================
