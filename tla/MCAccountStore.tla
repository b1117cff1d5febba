--------------------------- MODULE MCAccountStore ---------------------------
(* Small instances of AccountStore for TLC. *)
EXTENDS AccountStore, TLC

CONSTANTS a1, a2, p1, p2, r1, r2, o1, o2, l1, l2, h1, h2

OneAccount == {a1}
TwoAccounts == {a1, a2}
OnePeer == {p1}
TwoPeers == {p1, p2}
ThreeKeys == {r1, o1, o2}
FourKeys == {r1, r2, o1, o2}
OneOffKeys == {o1, o2}
TwoLogins == {l1, l2}
OneRequest == {h1}
TwoRequests == {h1, h2}

\* Accounts, peers, threads and keys of one type are interchangeable.
Symmetry == Permutations(Accounts) \cup Permutations(Peers)
                \cup Permutations(Logins) \cup Permutations(Requests)
                \cup Permutations(OneOff) \cup Permutations(Keys \ OneOff)
=============================================================================
