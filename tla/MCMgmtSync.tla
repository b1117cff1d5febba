----------------------------- MODULE MCMgmtSync -----------------------------
(* Small instances of MgmtSync for TLC. *)
EXTENDS MgmtSync, TLC

CONSTANTS p1, p2, s1, s2, l1, l2, a1, ip1, ip2

TwoPeers == {p1, p2}
TwoStreams == {s1, s2}
OneStream == {s1}
OneLogin == {l1}
TwoLogins == {l1, l2}
OneAdmin == {a1}
TwoIPs == {ip1, ip2}

\* Peers, streams, addresses and threads are interchangeable.
Symmetry == Permutations(Peers) \cup Permutations(Streams)
                \cup Permutations(IPs) \cup Permutations(Logins)

\* One Login at a time, with a failing write and overlapping streams ...
OneAtATime == Cardinality({l \in Logins : login[l].pc # "idle"}) <= 1

\* ... or two of them while every write succeeds and one stream is served.
OneStreamServed ==
    /\ writeErrors = 0
    /\ Cardinality({s \in Streams : pc[s] \notin {"unused", "done"}}) <= 1

OneLoginOrOneStream == OneAtATime \/ OneStreamServed
=============================================================================
