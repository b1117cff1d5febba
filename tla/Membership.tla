----------------------------- MODULE Membership -----------------------------
(***************************************************************************)
(* What the account manager promises of users and private domains.  A user *)
(* is assigned to at most one account, once; nothing moves it to another   *)
(* one.  So is a domain, until an account changes its domain: the one it   *)
(* leaves and the one it comes to may have any account from then on.  An   *)
(* assignment may be forgotten in a crash when it was not saved.           *)
(***************************************************************************)
CONSTANTS Users, Domains, Accounts, None

VARIABLES
    home,         \* user -> the account it belongs to
    owner,        \* private domain -> the account new users of it join
    moved,        \* the domains that an account left or took over
    savedHome,    \* what a crash leaves of home, and of owner but for these
    savedOwner

vars == <<home, owner, moved, savedHome, savedOwner>>

Init ==
    /\ home = [u \in Users |-> None]
    /\ owner = [d \in Domains |-> None]
    /\ moved = {}
    /\ savedHome = home
    /\ savedOwner = owner

\* g assigns to the members of S what f assigns to them, and maybe more.
Extends(f, g, S) == \A x \in S : f[x] # None => g[x] = f[x]

Settled(f) == [d \in Domains |-> IF d \in moved' THEN None ELSE f[d]]

\* The domains that did not move keep their account, and either all is saved
\* or nothing is.
Save ==
    /\ owner' \in [Domains -> Accounts \union {None}]
    /\ Extends(owner, owner', Domains \ moved')
    /\ \/ savedHome' = home' /\ savedOwner' = Settled(owner')
       \/ savedHome' = savedHome /\ savedOwner' = Settled(savedOwner)

\* Users and domains get an account.
Assign ==
    /\ home' \in [Users -> Accounts \union {None}]
    /\ Extends(home, home', Users)
    /\ UNCHANGED moved
    /\ Save

\* An account changes its domain, with all of its users.
Move ==
    /\ \E from, to \in Domains :
          /\ owner[from] # None /\ owner[to] # None
          /\ moved' = moved \union {from, to}
    /\ UNCHANGED home
    /\ Save

Forget ==
    /\ home' = savedHome
    /\ owner' \in [Domains -> Accounts \union {None}]
    /\ \A d \in Domains \ moved : owner'[d] = savedOwner[d]
    /\ UNCHANGED <<savedHome, savedOwner, moved>>

Spec == Init /\ [][Assign \/ Move \/ Forget]_vars
=============================================================================
