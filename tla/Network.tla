------------------------------ MODULE Network ------------------------------
(***************************************************************************)
(* The addresses of an account's network and the choice of one for a new   *)
(* peer (management/server/network.go).  An address is its distance from   *)
(* the network address, which ends in a zero octet.                        *)
(***************************************************************************)
EXTENDS Naturals

CONSTANT LastIP    \* the broadcast address

ASSUME NetworkAssumption == LastIP \in Nat /\ LastIP > 1 /\ LastIP % 256 # 0

IPs == 0..LastIP

\* Mutant: the first and the last address are kept when no other is left.
generateIPsKeepsTwo(exclusions) ==
    LET ips == {a \in IPs \ exclusions : a % 256 # 0}
    IN  IF \E a, b, c \in ips : a # b /\ b # c /\ a # c
        THEN {b \in ips : \E a, c \in ips : a < b /\ b < c}
        ELSE ips

\* Of the addresses that are left, the first and the last are dropped, unless
\* there is only one.
generateIPs(exclusions) ==
    LET ips == {a \in IPs \ exclusions : a % 256 # 0}
    IN  IF \E a, b \in ips : a # b
        THEN {b \in ips : \E a, c \in ips : a < b /\ b < c}
        ELSE ips

\* The addresses a new peer may get: it is refused if there is none.
AllocatePeerIP(takenIps) == generateIPs(takenIps \union {0})
=============================================================================
