------------------------------ MODULE MCDaemon ------------------------------
(* Small instances of Daemon for TLC. *)
EXTENDS Daemon, TLC

CONSTANTS k1, k2

TwoCallers == {k1, k2}
OneCaller == {k1}

Symmetry == Permutations(TwoCallers)
=============================================================================
