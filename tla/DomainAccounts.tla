--------------------------- MODULE DomainAccounts ---------------------------
(***************************************************************************)
(* Which account a user belongs to: GetAccountWithAuthorizationClaims of   *)
(* the account manager (management/server/account.go, user.go), which all  *)
(* HTTP handlers and the registration of a peer by its user begin with,    *)
(* over the file store and the identity provider (idp/auth0.go).           *)
(*                                                                         *)
(* A token says what the provider knew when it issued it: the account ID   *)
(* in the user's metadata, a domain and the domain's category.  All may    *)
(* have changed by the time it is used, and two tokens of one user need    *)
(* not name the same domain; the provider learns of an account only after  *)
(* the account was saved, in a call that may fail.                         *)
(***************************************************************************)
EXTENDS Naturals, FiniteSets

CONSTANTS
    Users,
    Domains,       \* as tokens name them; a token without one names the empty one
    Accounts,      \* generated account IDs
    Calls,         \* requests that are under way at one time
    None,
    MaxFailures    \* bound on failing writes

Roles == {"none", "admin", "user"}

\* The role of each user, the domain attributes, and whether there is a group
\* All.
AccountType == [users : [Users -> Roles], domain : Domains,
                category : {"", "private"}, primary : BOOLEAN, all : BOOLEAN]

ASSUME DomainAssumption ==
    /\ None \notin AccountType /\ None \notin Domains
    /\ None \notin Accounts /\ None \notin Calls /\ None \notin Users
    /\ MaxFailures \in Nat

VARIABLES
    mem,           \* FileStore.Accounts
    file,          \* the accounts in store.json
    userIndex,     \* UserId2AccountId
    domainIndex,   \* PrivateDomain2AccountId
    category,      \* the provider's category of each domain
    metadata,      \* the account ID the provider keeps for each user
    jwtToken,      \* Auth0Credentials.jwtToken is still valid
    call,          \* request -> its claims and where it is
    locked,        \* the request that holds am.mux during its call of the provider
    failures,      \* number of failed writes
    dirty,         \* history: the last write failed
    lost,          \* history: a crash lost what a failed write did not save
    moved          \* history: the domains that their primary account left, or
                   \* that another account took from it

storeVars == <<mem, file, userIndex, domainIndex, failures, dirty, lost, moved>>
idpVars == <<category, metadata, jwtToken>>
vars == <<storeVars, idpVars, call, locked>>

-----------------------------------------------------------------------------
(* Accounts *)

Exists(accs, a) == accs[a] # None

Has(accs, a, u) == Exists(accs, a) /\ accs[a].users[u] # "none"

PrimaryFor(acc, d) == acc.domain = d /\ acc.category = "private" /\ acc.primary

IsPrimary(accs, a, d) == Exists(accs, a) /\ PrimaryFor(accs[a], d)

\* Mutant: the category of the token is kept also when it is not private.
NewAccountPublic(u, d) ==
    [users |-> [v \in Users |-> IF v = u THEN "admin" ELSE "none"],
     domain |-> d, category |-> "public", primary |-> FALSE, all |-> FALSE]

\* NewAccount, with the user that creates it as its administrator.
NewAccount(u, d) ==
    [users |-> [v \in Users |-> IF v = u THEN "admin" ELSE "none"],
     domain |-> d, category |-> "", primary |-> FALSE, all |-> FALSE]

addAllGroup(acc) == [acc EXCEPT !.all = TRUE]

\* IDs are generated: a new one was never used, by an account or a token.
FreshIds == {a \in Accounts : /\ mem[a] = None /\ file[a] = None
                              /\ \A u \in Users : metadata[u] # a
                              /\ \A c \in Calls : call[c].account # a}

NoCall == [pc |-> "rest", user |-> None, account |-> None, domain |-> None,
           private |-> FALSE, result |-> None]

\* The token of a request whose lookup is over, or was lost with the process.
Unused(token) == [token EXCEPT !.pc = "start", !.result = None]

Init ==
    /\ mem = [a \in Accounts |-> None]
    /\ file = mem
    /\ userIndex = [u \in Users |-> None]
    /\ domainIndex = [d \in Domains |-> None]
    /\ category = [d \in Domains |-> "public"]
    /\ metadata = [u \in Users |-> None]
    /\ jwtToken = FALSE
    /\ call = [c \in Calls |-> NoCall]
    /\ locked = None
    /\ failures = 0
    /\ dirty = FALSE /\ lost = FALSE
    /\ moved = {}

amMuxFree == locked = None

-----------------------------------------------------------------------------
(* The file store *)

PersistOk == file' = mem' /\ dirty' = FALSE /\ UNCHANGED <<failures, lost>>

PersistFails ==
    /\ failures < MaxFailures
    /\ failures' = failures + 1
    /\ dirty' = TRUE
    /\ UNCHANGED <<file, lost>>

\* The lookups of an account by its user and by its domain.
GetUserAccount(u) == userIndex[u]

GetAccountByPrivateDomain(d) == domainIndex[d]

\* The domain that account a leaves when it is saved as acc, and the one that
\* it comes to instead when that has another account.
Left(a, acc) == {d \in Domains : IsPrimary(mem, a, d) /\ ~PrimaryFor(acc, d)}
Taken(a, acc) == {d \in Domains : /\ PrimaryFor(acc, d) /\ domainIndex[d] \notin {a, None}
                                  /\ Left(a, acc) # {}}

\* SaveAccount, up to its persist: the indexes learn the account's users and,
\* of a primary account, its domain.  An old domain of it stays in the index.
SaveAccount(a, acc) ==
    /\ mem' = [mem EXCEPT ![a] = acc]
    /\ userIndex' = [u \in Users |-> IF acc.users[u] # "none" THEN a ELSE userIndex[u]]
    /\ domainIndex' = [d \in Domains |-> IF PrimaryFor(acc, d) THEN a ELSE domainIndex[d]]
    /\ moved' = moved \union Left(a, acc) \union Taken(a, acc)

\* restore, and BuildManager, which gives every account the group All.  The
\* tokens that were issued before are still valid.
Restart ==
    /\ mem' = [a \in Accounts |-> IF file[a] = None THEN None ELSE addAllGroup(file[a])]
    /\ file' = mem'
    /\ userIndex' \in [Users -> Accounts \union {None}]
    /\ \A u \in Users : IF \E a \in Accounts : Has(file, a, u)
                        THEN userIndex'[u] # None /\ Has(file, userIndex'[u], u)
                        ELSE userIndex'[u] = None
    /\ domainIndex' \in [Domains -> Accounts \union {None}]
    /\ \A d \in Domains : IF \E a \in Accounts : IsPrimary(file, a, d)
                          THEN domainIndex'[d] # None /\ IsPrimary(file, domainIndex'[d], d)
                          ELSE domainIndex'[d] = None
    /\ jwtToken' = FALSE
    /\ call' = [c \in Calls |-> IF call[c].pc = "rest" THEN NoCall ELSE Unused(call[c])]
    /\ locked' = None
    /\ dirty' = FALSE
    /\ lost' = (lost \/ dirty)
    /\ UNCHANGED <<category, metadata, failures, moved>>

-----------------------------------------------------------------------------
(* The identity provider *)

\* A domain that was public or unknown is classified as private.
Reclassify(d) ==
    /\ category[d] = "public"
    /\ category' = [category EXCEPT ![d] = "private"]
    /\ UNCHANGED <<storeVars, metadata, jwtToken, call, locked>>

\* A token is issued now, with the domain the provider has for the user then;
\* it may be used later, and more than once.
ExtractClaimsWithToken(c, u, d) ==
    /\ call[c].pc \in {"rest", "start"}
    /\ call' = [call EXCEPT ![c] = [pc |-> "start", user |-> u, account |-> metadata[u],
                                    domain |-> d, private |-> category[d] = "private",
                                    result |-> None]]
    /\ UNCHANGED <<storeVars, idpVars, locked>>

\* Authenticate: the token of the manager is kept until it expires, and is
\* requested again when it has.
Authenticate(ok) ==
    \/ jwtToken /\ ok /\ UNCHANGED jwtToken
    \/ ~jwtToken /\ jwtToken' = ok

ExpireToken ==
    /\ jwtToken
    /\ jwtToken' = FALSE
    /\ UNCHANGED <<storeVars, category, metadata, call, locked>>

\* UpdateUserAppMetadata: an error may be the loss of the answer only.
UpdateUserAppMetadata(u, a, ok) ==
    \/ Authenticate(TRUE) /\ metadata' = [metadata EXCEPT ![u] = a]
    \/ ~ok /\ Authenticate(TRUE) /\ UNCHANGED metadata
    \/ ~ok /\ Authenticate(FALSE) /\ UNCHANGED metadata

-----------------------------------------------------------------------------
(* GetAccountWithAuthorizationClaims *)

Goto(c, l) == call' = [call EXCEPT ![c].pc = l]

\* The lookup has its answer; the token stays valid for another one.
Return(c) == call' = [call EXCEPT ![c] = Unused(call[c])]

\* A token of a domain that is not private, with an account: GetAccountById.
GetAccountById(c) ==
    /\ call[c].pc = "start"
    /\ ~call[c].private /\ call[c].account # None
    /\ amMuxFree
    /\ Return(c)
    /\ UNCHANGED <<storeVars, idpVars, locked>>

\* The two ways a write ends: the request goes on to the provider, or fails.
Saved(c, a) ==
    \/ PersistOk /\ call' = [call EXCEPT ![c].pc = "idp", ![c].result = a]
    \/ PersistFails /\ Return(c)

\* Mutant: every login creates an account.
GetOrCreateAccountByUserNew(c) ==
    /\ call[c].pc = "start"
    /\ ~call[c].private /\ call[c].account = None
    /\ amMuxFree
    /\ \E a \in FreshIds :
          SaveAccount(a, addAllGroup(NewAccount(call[c].user, call[c].domain))) /\ Saved(c, a)
    /\ UNCHANGED <<idpVars, locked>>

\* ... without an account: GetOrCreateAccountByUser, which gives the user's
\* account the domain of the token, also when it is primary for another one.
GetOrCreateAccountByUser(c) ==
    /\ call[c].pc = "start"
    /\ ~call[c].private /\ call[c].account = None
    /\ amMuxFree
    /\ LET u == call[c].user
           d == call[c].domain
           a == GetUserAccount(u)
       IN  IF a = None
           THEN \E b \in FreshIds : SaveAccount(b, addAllGroup(NewAccount(u, d))) /\ Saved(c, b)
           ELSE IF mem[a].domain = d
           THEN call' = [call EXCEPT ![c].pc = "idp", ![c].result = a] /\ UNCHANGED storeVars
           ELSE SaveAccount(a, [mem[a] EXCEPT !.domain = d]) /\ Saved(c, a)
    /\ UNCHANGED <<idpVars, locked>>

\* A token of a private domain with an account: the user must be one of its
\* users, and the account may not know yet that the domain is private.
CheckMember(c) ==
    /\ call[c].pc = "start"
    /\ call[c].private /\ call[c].account # None
    /\ amMuxFree
    /\ LET a == call[c].account
       IN  IF Has(mem, a, call[c].user) /\ mem[a].category # "private"
           THEN Goto(c, "domain")
           ELSE Return(c)
    /\ UNCHANGED <<storeVars, idpVars, locked>>

updateAccountDomainAttributes(acc, d, primary) ==
    [acc EXCEPT !.primary = primary, !.domain = d, !.category = "private"]

\* Mutant: the account becomes primary, whatever the domain has.
handleExistingUserAccountPrimary(a, d) ==
    updateAccountDomainAttributes(mem[a], d, TRUE)

\* The user's account becomes primary unless another one is.
handleExistingUserAccount(a, d) ==
    updateAccountDomainAttributes(mem[a], d, GetAccountByPrivateDomain(d) \in {a, None})

\* The account a new user of a domain without one gets.
handleNewUserAccount(u, d) ==
    updateAccountDomainAttributes(NewAccount(u, d), d, TRUE)

\* A new user joins the account of its domain as a regular user.
JoinDomainAccount(a, u) == [mem[a] EXCEPT !.users = [mem[a].users EXCEPT ![u] = "user"]]

\* Mutant: the mutex stays locked when the write fails.
SavedLockedForever(c, a) ==
    /\ locked' = c
    /\ \/ PersistOk /\ call' = [call EXCEPT ![c].pc = "idpLocked", ![c].result = a]
       \/ PersistFails /\ Return(c)

\* The write under am.mux, which stays locked for the call of the provider.
SavedLocked(c, a) ==
    \/ PersistOk /\ locked' = c /\ call' = [call EXCEPT ![c].pc = "idpLocked", ![c].result = a]
    \/ PersistFails /\ UNCHANGED locked /\ Return(c)

GetAccountWithAuthorizationClaims(c) ==
    /\ \/ call[c].pc = "domain"
       \/ call[c].pc = "start" /\ call[c].private /\ call[c].account = None
    /\ amMuxFree
    /\ LET u == call[c].user
           d == call[c].domain
           a == GetUserAccount(u)
           o == GetAccountByPrivateDomain(d)
       IN  \/ /\ a # None
              /\ SaveAccount(a, handleExistingUserAccount(a, d))
              /\ SavedLocked(c, a)
           \/ /\ a = None /\ o # None
              /\ SaveAccount(o, JoinDomainAccount(o, u))
              /\ SavedLocked(c, o)
           \/ /\ a = None /\ o = None
              /\ \E b \in FreshIds :
                    SaveAccount(b, handleNewUserAccount(u, d)) /\ SavedLocked(c, b)
    /\ UNCHANGED idpVars

\* Mutant: the account of the domain is registered, not the user's own.
updateIDPMetadataDomain(c, ok) ==
    /\ call[c].pc \in {"idp", "idpLocked"}
    /\ LET a == domainIndex[call[c].domain]
       IN  UpdateUserAppMetadata(call[c].user, IF a # None THEN a ELSE call[c].result, ok)
    /\ locked' = IF locked = c THEN None ELSE locked
    /\ Return(c)
    /\ UNCHANGED <<storeVars, category>>

\* updateIDPMetadata ends the lookup, with the account or an error.
updateIDPMetadata(c, ok) ==
    /\ call[c].pc \in {"idp", "idpLocked"}
    /\ UpdateUserAppMetadata(call[c].user, call[c].result, ok)
    /\ locked' = IF locked = c THEN None ELSE locked
    /\ Return(c)
    /\ UNCHANGED <<storeVars, category>>

-----------------------------------------------------------------------------

Next ==
    \/ \E c \in Calls :
          \/ \E u \in Users, d \in Domains : ExtractClaimsWithToken(c, u, d)
          \/ GetAccountById(c)
          \/ GetOrCreateAccountByUser(c)
          \/ CheckMember(c)
          \/ GetAccountWithAuthorizationClaims(c)
          \/ \E ok \in BOOLEAN : updateIDPMetadata(c, ok)
    \/ \E d \in Domains : Reclassify(d)
    \/ ExpireToken
    \/ Restart

Spec == Init /\ [][Next]_vars

-----------------------------------------------------------------------------
(* Properties *)

\* The type of every variable.
TypeOK ==
    /\ mem \in [Accounts -> AccountType \union {None}]
    /\ file \in [Accounts -> AccountType \union {None}]
    /\ userIndex \in [Users -> Accounts \union {None}]
    /\ domainIndex \in [Domains -> Accounts \union {None}]
    /\ category \in [Domains -> {"public", "private"}]
    /\ metadata \in [Users -> Accounts \union {None}]
    /\ jwtToken \in BOOLEAN
    /\ call \in [Calls -> [pc : {"rest", "start", "domain", "idp", "idpLocked"},
                           user : Users \union {None}, account : Accounts \union {None},
                           domain : Domains \union {None}, private : BOOLEAN, result : Accounts \union {None}]]
    /\ locked \in Calls \union {None}
    /\ failures \in 0..MaxFailures
    /\ dirty \in BOOLEAN /\ lost \in BOOLEAN
    /\ moved \subseteq Domains

\* A private domain has one account that its new users join, however many
\* accounts its users made while it was public, and the index names that
\* account; so does the next process (account.go:386-449, file_store.go:270-272).
\* Only a token that gives an account another domain than it had, with the
\* branch user.go:75-81 or a stale token of a private domain, ends that, for
\* the domain the account leaves and the one it takes over.
OnePrimaryPerDomain ==
    \A a \in Accounts, d \in Domains \ moved :
        /\ IsPrimary(mem, a, d) => domainIndex[d] = a
        /\ domainIndex[d] = a => IsPrimary(mem, a, d)
        /\ \A b \in Accounts : IsPrimary(file, a, d) /\ IsPrimary(file, b, d) => a = b

\* The account ID the provider puts into a user's tokens is the account the
\* store has for that user, and the file has it too: a token never leads to
\* an account that is not there, unless a failed write was lost in a crash
\* (account.go:274-311, 404-447).
MetadataNamesHome ==
    ~lost => \A u \in Users : metadata[u] # None =>
                /\ userIndex[u] = metadata[u] /\ Has(mem, metadata[u], u)
                /\ ~dirty => Has(file, metadata[u], u)

\* The account of a user, and the primary account of a domain, in the file.
SavedHome(u) ==
    IF \E a \in Accounts : Has(file, a, u)
    THEN CHOOSE a \in Accounts : Has(file, a, u) ELSE None

SavedOwner(d) ==
    IF \E a \in Accounts : IsPrimary(file, a, d)
    THEN CHOOSE a \in Accounts : IsPrimary(file, a, d) ELSE None

M == INSTANCE Membership WITH
        home <- userIndex, owner <- domainIndex,
        savedHome <- [u \in Users |-> SavedHome(u)],
        savedOwner <- [d \in Domains |-> IF d \in moved THEN None ELSE SavedOwner(d)]

\* The account manager implements Membership: no order of logins, stale
\* tokens, reclassifications, failed writes and crashes moves a user from one
\* account to another, and a domain stays with its account until an account
\* leaves it or takes it over (user.go:75-81, account.go:362-402).
AssignedOnce == M!Spec
=============================================================================
