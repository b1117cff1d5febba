----------------------------- MODULE MCHttpApi -----------------------------
(* A small instance of HttpApi for TLC. *)
EXTENDS HttpApi, TLC

CONSTANTS u1, u2, d1, d2, a1, a2, a3, c1, c2

TwoUsers == {u1, u2}
TwoDomains == {d1, d2}
ThreeAccounts == {a1, a2, a3}
TwoCalls == {c1, c2}

\* Users, domains, IDs and requests can be exchanged.
Symmetry == Permutations(TwoUsers) \union Permutations(TwoDomains)
            \union Permutations(ThreeAccounts) \union Permutations(TwoCalls)

\* One request after the other, with tokens of any domain and key ...
OneRequest == Cardinality({c \in Calls : call[c] # NoCall}) <= 1

\* ... or requests side by side, whose tokens name one domain.
OneDomain == \E d \in Domains :
    /\ \A c \in Calls : call[c].domain \in {d, None}
    /\ \A e \in Domains \ {d} : category[e] = "public"
    /\ \A a \in Accounts, accs \in {mem, file} : Exists(accs, a) => accs[a].domain = d

OneRequestOrOneDomain == OneRequest \/ (OneDomain /\ kid = 0)
=============================================================================
