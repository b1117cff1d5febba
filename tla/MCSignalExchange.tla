-------------------------- MODULE MCSignalExchange --------------------------
(* Small instances of SignalExchange for TLC. *)
EXTENDS SignalExchange, TLC

CONSTANTS p1, p2, s1, s2, s3, m1

OnePeer == {p1}
TwoPeers == {p1, p2}
ThreeStreams == {s1, s2, s3}
OneSend == {m1}

\* Peers and streams are interchangeable.
Symmetry == Permutations(Peers) \cup Permutations(Streams)
=============================================================================
