--------------------------- MODULE MCAccessRules ---------------------------
(* Small instances of AccessRules for TLC. *)
EXTENDS AccessRules, TLC

CONSTANTS p1, p2, g1, g2, r1, r2

TwoPeers == {p1, p2}
TwoGroups == {g1, g2}
TwoRules == {r1, r2}

Symmetry == Permutations(TwoPeers) \union Permutations(TwoGroups) \union Permutations(TwoRules)
=============================================================================
