--------------------------- MODULE HttpApiProofs ---------------------------
(***************************************************************************)
(* Proofs about DomainAccounts and HttpApi, for any users, domains,        *)
(* accounts, requests, signing keys and number of failed writes.           *)
(*                                                                         *)
(* The first part is about the account manager on its own: it implements   *)
(* Membership.  The inductive invariant says that each index is the        *)
(* inverse of what the accounts in memory say, for the domains that no     *)
(* account left or took over, and that the accounts in the file do not     *)
(* contradict each other.  The second part is about the service behind the *)
(* JWT middleware: its account manager is still the one of DomainAccounts, *)
(* so that what the first part shows holds of the composed service, and    *)
(* am.mux is released by every request.                                    *)
(***************************************************************************)
EXTENDS HttpApi, TLAPS

USE DEF GetUserAccount, GetAccountByPrivateDomain

UserInv == \A a \in Accounts, u \in Users : Has(mem, a, u) <=> userIndex[u] = a

OwnerInv ==
    \A a \in Accounts, d \in Domains \ moved : IsPrimary(mem, a, d) <=> domainIndex[d] = a

\* The index names accounts, also for a domain that its account left.
ExistInv == \A d \in Domains : domainIndex[d] # None => Exists(mem, domainIndex[d])

FileUsers == \A a, b \in Accounts, u \in Users : Has(file, a, u) /\ Has(file, b, u) => a = b

FileOwners ==
    \A a, b \in Accounts, d \in Domains \ moved :
        IsPrimary(file, a, d) /\ IsPrimary(file, b, d) => a = b

StoreType ==
    /\ mem \in [Accounts -> AccountType \union {None}]
    /\ file \in [Accounts -> AccountType \union {None}]
    /\ userIndex \in [Users -> Accounts \union {None}]
    /\ domainIndex \in [Domains -> Accounts \union {None}]
    /\ dirty \in BOOLEAN /\ lost \in BOOLEAN
    /\ moved \subseteq Domains

\* A request that is under way has a user and a domain.
CallInv ==
    \A c \in Calls : call[c].pc # "rest" => call[c].user \in Users /\ call[c].domain \in Domains

Inv ==
    /\ StoreType
    /\ UserInv /\ OwnerInv /\ ExistInv
    /\ FileUsers /\ FileOwners
    /\ CallInv

-----------------------------------------------------------------------------
(* What a save may change *)

\* Account a, saved as acc, keeps its users and takes none from another
\* account, nor a domain, unless it leaves its own; then it gets no new user.
Good(a, acc) ==
    /\ \A u \in Users : Has(mem, a, u) => acc.users[u] # "none"
    /\ \A u \in Users : acc.users[u] # "none" => userIndex[u] \in {a, None}
    /\ \A d \in Domains \ moved :
          PrimaryFor(acc, d) => domainIndex[d] \in {a, None} \/ Left(a, acc) # {}
    /\ Left(a, acc) # {} => \A u \in Users : acc.users[u] # "none" => userIndex[u] = a

GoodSave ==
    \E a \in Accounts, acc \in AccountType :
        Good(a, acc) /\ SaveAccount(a, acc) /\ (PersistOk \/ PersistFails)

\* What a step does to the store.
Kinds ==
    \/ GoodSave
    \/ UNCHANGED storeVars
    \/ Restart

LEMMA NewAccountType ==
    ASSUME NEW u \in Users, NEW d \in Domains
    PROVE  /\ addAllGroup(NewAccount(u, d)) \in AccountType
           /\ handleNewUserAccount(u, d) \in AccountType
<1>1. NewAccount(u, d) \in AccountType
  BY DEF NewAccount, AccountType, Roles
<1> QED BY <1>1 DEF addAllGroup, handleNewUserAccount, updateAccountDomainAttributes, AccountType

\* An account under an ID that is not in use, with a user that has none.
LEMMA FreshIsGood ==
    ASSUME NEW a \in FreshIds, NEW u \in Users, NEW acc \in AccountType,
           userIndex[u] = None,
           acc.users = [v \in Users |-> IF v = u THEN "admin" ELSE "none"],
           acc.category = "private" => domainIndex[acc.domain] = None
    PROVE  Good(a, acc)
<1>1. mem[a] = None
  BY DEF FreshIds
<1>2. \A v \in Users : acc.users[v] # "none" => v = u
  OBVIOUS
<1>3. Left(a, acc) = {}
  BY <1>1 DEF Left, IsPrimary, Exists
<1> QED BY <1>1, <1>2, <1>3 DEF Good, Has, Exists, PrimaryFor

\* The token gives the account of its user another domain.
LEMMA OtherDomainIsGood ==
    ASSUME Inv, NEW u \in Users, NEW a \in Accounts, userIndex[u] = a,
           NEW d \in Domains, mem[a].domain # d
    PROVE  /\ [mem[a] EXCEPT !.domain = d] \in AccountType
           /\ Good(a, [mem[a] EXCEPT !.domain = d])
<1> DEFINE acc == [mem[a] EXCEPT !.domain = d]
<1>1. Has(mem, a, u)
  BY DEF Inv, UserInv
<1>2. mem[a] \in AccountType
  BY <1>1 DEF Inv, StoreType, Has, Exists
<1>3. /\ acc.users = mem[a].users /\ acc.domain = d
      /\ acc.category = mem[a].category /\ acc.primary = mem[a].primary
  BY <1>2 DEF AccountType
<1>4. acc \in AccountType
  BY <1>2 DEF AccountType
<1> HIDE DEF acc
<1>5. \A v \in Users : acc.users[v] # "none" => Has(mem, a, v)
  BY <1>1, <1>3 DEF Has
<1>6. \A v \in Users : acc.users[v] # "none" => userIndex[v] = a
  BY <1>5 DEF Inv, UserInv
<1>7. ASSUME NEW e \in Domains, PrimaryFor(acc, e)
      PROVE  Left(a, acc) # {}
  <2>1. mem[a].domain \in Domains
    BY <1>2 DEF AccountType
  <2>2. IsPrimary(mem, a, mem[a].domain)
    BY <1>1, <1>3, <1>7 DEF IsPrimary, PrimaryFor, Has
  <2>3. ~PrimaryFor(acc, mem[a].domain)
    BY <1>3 DEF PrimaryFor
  <2> QED BY <2>1, <2>2, <2>3 DEF Left
<1>8. \A v \in Users : Has(mem, a, v) => acc.users[v] # "none"
  BY <1>3 DEF Has
<1>9. Good(a, acc)
  BY <1>6, <1>7, <1>8 DEF Good
<1> QED BY <1>4, <1>9 DEF acc

LEMMA GetOrCreateIsGood ==
    ASSUME Inv, NEW c \in Calls, GetOrCreateAccountByUser(c)
    PROVE  Kinds
<1> DEFINE u == call[c].user
           d == call[c].domain
           a == userIndex[u]
<1>0. u \in Users /\ d \in Domains
  BY DEF GetOrCreateAccountByUser, Inv, CallInv
<1>1. CASE a = None
  <2>1. PICK b \in FreshIds : SaveAccount(b, addAllGroup(NewAccount(u, d))) /\ Saved(c, b)
    BY <1>1 DEF GetOrCreateAccountByUser
  <2>2. addAllGroup(NewAccount(u, d)) \in AccountType
    BY <1>0, NewAccountType
  <2>3. /\ addAllGroup(NewAccount(u, d)).users = [v \in Users |-> IF v = u THEN "admin" ELSE "none"]
        /\ addAllGroup(NewAccount(u, d)).category = ""
    BY <1>0 DEF addAllGroup, NewAccount
  <2>4. Good(b, addAllGroup(NewAccount(u, d)))
    BY <1>0, <1>1, <2>2, <2>3, FreshIsGood
  <2> QED BY <2>1, <2>2, <2>4 DEF Kinds, GoodSave, Saved, FreshIds
<1>2. CASE a # None /\ mem[a].domain = d
  BY <1>2 DEF GetOrCreateAccountByUser, Kinds
<1>3. CASE a # None /\ mem[a].domain # d
  <2>1. a \in Accounts
    BY <1>0, <1>3 DEF Inv, StoreType
  <2>2. SaveAccount(a, [mem[a] EXCEPT !.domain = d]) /\ (PersistOk \/ PersistFails)
    BY <1>3 DEF GetOrCreateAccountByUser, Saved
  <2>3. [mem[a] EXCEPT !.domain = d] \in AccountType /\ Good(a, [mem[a] EXCEPT !.domain = d])
    BY <1>0, <1>3, <2>1, OtherDomainIsGood
  <2> QED BY <2>1, <2>2, <2>3 DEF Kinds, GoodSave
<1> QED BY <1>1, <1>2, <1>3

LEMMA ExistingIsGood ==
    ASSUME Inv, NEW u \in Users, NEW a \in Accounts, userIndex[u] = a, NEW d \in Domains
    PROVE  /\ handleExistingUserAccount(a, d) \in AccountType
           /\ Good(a, handleExistingUserAccount(a, d))
<1> DEFINE acc == handleExistingUserAccount(a, d)
<1>1. Has(mem, a, u)
  BY DEF Inv, UserInv
<1>2. mem[a] \in AccountType
  BY <1>1 DEF Inv, StoreType, Has, Exists
<1>3. (domainIndex[d] \in {a, None}) \in BOOLEAN
  OBVIOUS
<1>4. /\ acc.users = mem[a].users /\ acc.domain = d /\ acc.category = "private"
      /\ acc.primary = (domainIndex[d] \in {a, None})
  BY <1>2, <1>3 DEF handleExistingUserAccount, updateAccountDomainAttributes, AccountType
<1>5. acc \in AccountType
  BY <1>2, <1>3 DEF handleExistingUserAccount, updateAccountDomainAttributes, AccountType
<1> HIDE DEF acc
<1>6. \A v \in Users : Has(mem, a, v) <=> acc.users[v] # "none"
  BY <1>1, <1>4 DEF Has
<1>7. \A v \in Users : acc.users[v] # "none" => userIndex[v] = a
  BY <1>6 DEF Inv, UserInv
<1>8. \A e \in Domains : PrimaryFor(acc, e) => domainIndex[e] \in {a, None}
  BY <1>4 DEF PrimaryFor
<1>9. Good(a, acc)
  BY <1>6, <1>7, <1>8 DEF Good
<1> QED BY <1>5, <1>9 DEF acc

LEMMA JoinIsGood ==
    ASSUME Inv, NEW u \in Users, userIndex[u] = None, NEW d \in Domains,
           NEW a \in Accounts, domainIndex[d] = a
    PROVE  JoinDomainAccount(a, u) \in AccountType /\ Good(a, JoinDomainAccount(a, u))
<1> DEFINE acc == JoinDomainAccount(a, u)
<1>1. Exists(mem, a)
  BY DomainAssumption DEF Inv, ExistInv
<1>2. mem[a] \in AccountType
  BY <1>1 DEF Inv, StoreType, Exists
<1>3. [mem[a].users EXCEPT ![u] = "user"] \in [Users -> Roles]
  BY <1>2 DEF AccountType, Roles
<1>4. /\ acc.users = [mem[a].users EXCEPT ![u] = "user"]
      /\ acc.domain = mem[a].domain /\ acc.category = mem[a].category
      /\ acc.primary = mem[a].primary
  BY <1>2 DEF JoinDomainAccount, AccountType
<1>5. acc \in AccountType
  BY <1>2, <1>3 DEF JoinDomainAccount, AccountType
<1> HIDE DEF acc
<1>6. \A v \in Users : acc.users[v] # "none" => v = u \/ Has(mem, a, v)
  BY <1>1, <1>2, <1>4 DEF Has, AccountType
<1>7. \A v \in Users : Has(mem, a, v) => acc.users[v] # "none"
  BY <1>2, <1>4 DEF Has, AccountType
<1>8. \A v \in Users : acc.users[v] # "none" => userIndex[v] \in {a, None}
  BY <1>6 DEF Inv, UserInv
<1>9. \A e \in Domains : PrimaryFor(acc, e) <=> IsPrimary(mem, a, e)
  BY <1>1, <1>4 DEF IsPrimary, PrimaryFor
<1>10. Left(a, acc) = {}
  BY <1>9 DEF Left
<1>11. \A e \in Domains \ moved : PrimaryFor(acc, e) => domainIndex[e] = a
  BY <1>9 DEF Inv, OwnerInv
<1>12. Good(a, acc)
  BY <1>7, <1>8, <1>10, <1>11 DEF Good
<1> QED BY <1>5, <1>12 DEF acc

LEMMA ClaimsIsGood ==
    ASSUME Inv, NEW c \in Calls, GetAccountWithAuthorizationClaims(c)
    PROVE  Kinds
<1> DEFINE u == call[c].user
           d == call[c].domain
           a == userIndex[u]
<1>0. u \in Users /\ d \in Domains
  BY DEF GetAccountWithAuthorizationClaims, Inv, CallInv
<1>s. ASSUME NEW b, SavedLocked(c, b)
      PROVE  PersistOk \/ PersistFails
  BY <1>s DEF SavedLocked
<1>1. CASE /\ a # None
           /\ SaveAccount(a, handleExistingUserAccount(a, d))
           /\ SavedLocked(c, a)
  <2>1. a \in Accounts
    BY <1>0, <1>1 DEF Inv, StoreType
  <2> QED BY <1>0, <1>1, <1>s, <2>1, ExistingIsGood DEF Kinds, GoodSave
<1>2. CASE /\ a = None /\ domainIndex[d] # None
           /\ SaveAccount(domainIndex[d], JoinDomainAccount(domainIndex[d], u))
           /\ SavedLocked(c, domainIndex[d])
  <2>1. domainIndex[d] \in Accounts
    BY <1>0, <1>2 DEF Inv, StoreType
  <2> QED BY <1>0, <1>2, <1>s, <2>1, JoinIsGood DEF Kinds, GoodSave
<1>3. CASE /\ a = None /\ domainIndex[d] = None
           /\ \E b \in FreshIds : SaveAccount(b, handleNewUserAccount(u, d)) /\ SavedLocked(c, b)
  <2>1. PICK b \in FreshIds : SaveAccount(b, handleNewUserAccount(u, d)) /\ SavedLocked(c, b)
    BY <1>3
  <2>2. handleNewUserAccount(u, d) \in AccountType
    BY <1>0, NewAccountType
  <2>3. /\ handleNewUserAccount(u, d).users = [v \in Users |-> IF v = u THEN "admin" ELSE "none"]
        /\ handleNewUserAccount(u, d).domain = d
    BY <1>0 DEF handleNewUserAccount, updateAccountDomainAttributes, NewAccount
  <2>4. Good(b, handleNewUserAccount(u, d))
    BY <1>0, <1>3, <2>2, <2>3, FreshIsGood
  <2> QED BY <1>s, <2>1, <2>2, <2>4 DEF Kinds, GoodSave, FreshIds
<1> QED BY <1>1, <1>2, <1>3 DEF GetAccountWithAuthorizationClaims

LEMMA StepKinds ==
    ASSUME Inv, [Next]_vars
    PROVE  Kinds
<1>1. ASSUME NEW c \in Calls, NEW u \in Users, NEW d \in Domains,
             ExtractClaimsWithToken(c, u, d)
      PROVE  Kinds
  BY <1>1 DEF ExtractClaimsWithToken, Kinds
<1>2. ASSUME NEW c \in Calls, GetAccountById(c) \/ CheckMember(c) \/ (\E ok \in BOOLEAN : updateIDPMetadata(c, ok))
      PROVE  Kinds
  BY <1>2 DEF GetAccountById, CheckMember, updateIDPMetadata, Kinds
<1>3. ASSUME NEW d \in Domains, Reclassify(d)
      PROVE  Kinds
  BY <1>3 DEF Reclassify, Kinds
<1>4. CASE ExpireToken
  BY <1>4 DEF ExpireToken, Kinds
<1>5. CASE Restart
  BY <1>5 DEF Kinds
<1>6. CASE UNCHANGED vars
  BY <1>6 DEF vars, Kinds
<1> QED BY <1>1, <1>2, <1>3, <1>4, <1>5, <1>6, GetOrCreateIsGood, ClaimsIsGood DEF Next

-----------------------------------------------------------------------------
(* A good save *)

LEMMA GoodSaveIndexes ==
    ASSUME Inv, NEW a \in Accounts, NEW acc \in AccountType, Good(a, acc), SaveAccount(a, acc)
    PROVE  /\ UserInv' /\ OwnerInv' /\ ExistInv'
           /\ \A u \in Users : userIndex[u] # None => userIndex'[u] = userIndex[u]
           /\ \A d \in Domains \ moved' : domainIndex[d] # None => domainIndex'[d] = domainIndex[d]
<1>0. /\ acc # None
      /\ mem'[a] = acc
      /\ \A b \in Accounts : b # a => mem'[b] = mem[b]
      /\ \A u \in Users : userIndex'[u] = IF acc.users[u] # "none" THEN a ELSE userIndex[u]
      /\ \A d \in Domains : domainIndex'[d] = IF PrimaryFor(acc, d) THEN a ELSE domainIndex[d]
  BY DomainAssumption DEF SaveAccount, Inv, StoreType
<1>1. ASSUME NEW b \in Accounts, NEW u \in Users
      PROVE  Has(mem', b, u) <=> userIndex'[u] = b
  <2>1. CASE b = a
    <3>1. Has(mem', b, u) <=> acc.users[u] # "none"
      BY <1>0, <2>1 DEF Has, Exists
    <3>2. acc.users[u] = "none" => userIndex[u] # a
      BY DEF Good, Inv, UserInv
    <3> QED BY <1>0, <2>1, <3>1, <3>2
  <2>2. CASE b # a
    <3>1. Has(mem', b, u) <=> Has(mem, b, u)
      BY <1>0, <2>2 DEF Has, Exists
    <3>2. Has(mem, b, u) <=> userIndex[u] = b
      BY DEF Inv, UserInv
    <3>3. acc.users[u] # "none" => userIndex[u] # b
      BY <2>2, DomainAssumption DEF Good
    <3> QED BY <1>0, <2>2, <3>1, <3>2, <3>3
  <2> QED BY <2>1, <2>2
<1>m. ASSUME NEW d \in Domains \ moved'
      PROVE  /\ d \notin moved
             /\ IsPrimary(mem, a, d) => PrimaryFor(acc, d)
             /\ PrimaryFor(acc, d) => domainIndex[d] \in {a, None}
  <2>1. d \notin moved /\ d \notin Left(a, acc) /\ d \notin Taken(a, acc)
    BY DEF SaveAccount
  <2>2. IsPrimary(mem, a, d) => PrimaryFor(acc, d)
    BY <2>1 DEF Left
  <2>3. PrimaryFor(acc, d) => domainIndex[d] \in {a, None} \/ Left(a, acc) = {}
    BY <2>1 DEF Taken
  <2>4. PrimaryFor(acc, d) => domainIndex[d] \in {a, None} \/ Left(a, acc) # {}
    BY <2>1 DEF Good
  <2> QED BY <2>1, <2>2, <2>3, <2>4
<1>2. ASSUME NEW b \in Accounts, NEW d \in Domains \ moved'
      PROVE  IsPrimary(mem', b, d) <=> domainIndex'[d] = b
  <2>0. IsPrimary(mem, b, d) <=> domainIndex[d] = b
    BY <1>m DEF Inv, OwnerInv
  <2>1. CASE b = a
    <3>1. IsPrimary(mem', b, d) <=> PrimaryFor(acc, d)
      BY <1>0, <2>1 DEF IsPrimary, Exists
    <3>2. domainIndex[d] = a => PrimaryFor(acc, d)
      BY <1>m, <2>0, <2>1
    <3> QED BY <1>0, <2>1, <3>1, <3>2
  <2>2. CASE b # a
    <3>1. IsPrimary(mem', b, d) <=> IsPrimary(mem, b, d)
      BY <1>0, <2>2 DEF IsPrimary, Exists
    <3>2. PrimaryFor(acc, d) => domainIndex[d] # b
      BY <1>m, <2>2, DomainAssumption
    <3> QED BY <1>0, <2>0, <2>2, <3>1, <3>2
  <2> QED BY <2>1, <2>2
<1>3. ASSUME NEW d \in Domains, domainIndex'[d] # None
      PROVE  Exists(mem', domainIndex'[d])
  <2>1. CASE domainIndex'[d] = a
    BY <1>0, <2>1 DEF Exists
  <2>2. CASE domainIndex'[d] # a
    <3>1. domainIndex'[d] = domainIndex[d] /\ domainIndex[d] \in Accounts
      BY <1>0, <1>3, <2>2 DEF Inv, StoreType
    <3>2. Exists(mem, domainIndex[d])
      BY <1>3, <3>1 DEF Inv, ExistInv
    <3> QED BY <1>0, <2>2, <3>1, <3>2 DEF Exists
  <2> QED BY <2>1, <2>2
<1>4. ASSUME NEW u \in Users, userIndex[u] # None
      PROVE  userIndex'[u] = userIndex[u]
  BY <1>0, <1>4 DEF Good
<1>5. ASSUME NEW d \in Domains \ moved', domainIndex[d] # None
      PROVE  domainIndex'[d] = domainIndex[d]
  BY <1>0, <1>m, <1>5
<1> QED BY <1>1, <1>2, <1>3, <1>4, <1>5 DEF UserInv, OwnerInv, ExistInv

\* When an account leaves its domain, no user gets an account; otherwise no
\* domain moves.
LEMMA LeavingKeepsHomes ==
    ASSUME Inv, NEW a \in Accounts, NEW acc \in AccountType, Good(a, acc), SaveAccount(a, acc)
    PROVE  \/ moved' = moved
           \/ /\ userIndex' = userIndex
              /\ \E from, to \in Domains : /\ domainIndex[from] # None /\ domainIndex[to] # None
                                           /\ moved' = moved \union {from, to}
<1>1. CASE Left(a, acc) = {}
  <2>1. Taken(a, acc) = {}
    BY <1>1 DEF Taken
  <2> QED BY <1>1, <2>1 DEF SaveAccount
<1>2. CASE Left(a, acc) # {}
  <2>1. userIndex' = userIndex
    BY <1>2 DEF Good, SaveAccount, Inv, StoreType
  <2>2. PICK from \in Domains : IsPrimary(mem, a, from) /\ Left(a, acc) = {from}
    BY <1>2 DEF Left, IsPrimary, PrimaryFor
  <2>3. from \in moved \/ domainIndex[from] # None
    BY <2>2, DomainAssumption DEF Inv, OwnerInv
  <2>4. \/ Taken(a, acc) = {}
        \/ \E to \in Domains : domainIndex[to] # None /\ Taken(a, acc) = {to}
    BY DEF Taken, PrimaryFor
  <2>5. moved' = moved \union {from} \union Taken(a, acc)
    BY <2>2 DEF SaveAccount
  <2>6. CASE Taken(a, acc) = {}
    <3>1. moved' = moved \union {from, from}
      BY <2>5, <2>6
    <3>2. from \in moved => moved' = moved
      BY <3>1
    <3> QED BY <2>1, <2>3, <3>1, <3>2
  <2>7. ASSUME NEW to \in Domains, domainIndex[to] # None, Taken(a, acc) = {to}
        PROVE  \E f, t \in Domains : /\ domainIndex[f] # None /\ domainIndex[t] # None
                                     /\ moved' = moved \union {f, t}
    <3>1. CASE from \in moved
      <4>1. moved' = moved \union {to, to}
        BY <2>5, <2>7, <3>1
      <4> QED BY <2>7, <4>1
    <3>2. CASE domainIndex[from] # None
      <4>1. moved' = moved \union {from, to}
        BY <2>5, <2>7
      <4> QED BY <2>7, <3>2, <4>1
    <3> QED BY <2>3, <3>1, <3>2
  <2> QED BY <2>1, <2>4, <2>6, <2>7
<1> QED BY <1>1, <1>2

LEMMA GoodSaveType ==
    ASSUME Inv, NEW a \in Accounts, NEW acc \in AccountType, SaveAccount(a, acc),
           PersistOk \/ PersistFails
    PROVE  StoreType'
<1>1. mem' \in [Accounts -> AccountType \union {None}]
  BY DEF SaveAccount, Inv, StoreType
<1>2. file' \in [Accounts -> AccountType \union {None}] /\ dirty' \in BOOLEAN /\ lost' \in BOOLEAN
  BY <1>1 DEF PersistOk, PersistFails, Inv, StoreType
<1>3. userIndex' \in [Users -> Accounts \union {None}] /\ domainIndex' \in [Domains -> Accounts \union {None}]
  BY DEF SaveAccount, Inv, StoreType
<1>4. moved' \subseteq Domains
  BY DEF SaveAccount, Left, Taken, Inv, StoreType
<1> QED BY <1>1, <1>2, <1>3, <1>4 DEF StoreType

\* The file is the memory, or the file that was there.
LEMMA GoodSaveFile ==
    ASSUME Inv, PersistOk \/ PersistFails, moved \subseteq moved', UserInv', OwnerInv'
    PROVE  FileUsers' /\ FileOwners'
<1>1. CASE PersistOk
  <2>1. file' = mem'
    BY <1>1 DEF PersistOk
  <2>2. FileUsers'
    <3> SUFFICES ASSUME NEW a \in Accounts, NEW b \in Accounts, NEW u \in Users,
                        Has(mem', a, u), Has(mem', b, u)
                 PROVE  a = b
      BY <2>1 DEF FileUsers
    <3> QED BY DEF UserInv
  <2>3. FileOwners'
    <3> SUFFICES ASSUME NEW a \in Accounts, NEW b \in Accounts, NEW d \in Domains \ moved',
                        IsPrimary(mem', a, d), IsPrimary(mem', b, d)
                 PROVE  a = b
      BY <2>1 DEF FileOwners
    <3> QED BY DEF OwnerInv
  <2> QED BY <2>1, <2>2, <2>3
<1>2. CASE PersistFails
  BY <1>2 DEF PersistFails, Inv, FileUsers, FileOwners
<1> QED BY <1>1, <1>2

-----------------------------------------------------------------------------
(* A restart *)

LEMMA RestartAccounts ==
    ASSUME Inv, Restart, NEW a \in Accounts
    PROVE  /\ mem'[a] \in AccountType \union {None}
           /\ mem'[a] = None <=> file[a] = None
           /\ file[a] # None => /\ mem'[a].users = file[a].users
                                /\ mem'[a].domain = file[a].domain
                                /\ mem'[a].category = file[a].category
                                /\ mem'[a].primary = file[a].primary
<1>1. mem'[a] = IF file[a] = None THEN None ELSE addAllGroup(file[a])
  BY DEF Restart
<1>2. CASE file[a] = None
  BY <1>1, <1>2
<1>3. CASE file[a] # None
  <2>1. file[a] \in AccountType
    BY <1>3 DEF Inv, StoreType
  <2>2. addAllGroup(file[a]) \in AccountType
    BY <2>1 DEF addAllGroup, AccountType
  <2>3. /\ addAllGroup(file[a]).users = file[a].users
        /\ addAllGroup(file[a]).domain = file[a].domain
        /\ addAllGroup(file[a]).category = file[a].category
        /\ addAllGroup(file[a]).primary = file[a].primary
    BY <2>1 DEF addAllGroup, AccountType
  <2> QED BY <1>1, <1>3, <2>2, <2>3, DomainAssumption
<1> QED BY <1>2, <1>3

LEMMA RestartHas ==
    ASSUME Inv, Restart, NEW a \in Accounts
    PROVE  /\ \A u \in Users : Has(mem', a, u) <=> Has(file, a, u)
           /\ \A d \in Domains : IsPrimary(mem', a, d) <=> IsPrimary(file, a, d)
BY RestartAccounts DEF Has, IsPrimary, PrimaryFor, Exists

LEMMA RestartStep ==
    ASSUME Inv, TypeOK, Restart
    PROVE  Inv'
<1>1. mem' \in [Accounts -> AccountType \union {None}]
  BY RestartAccounts DEF Restart
<1>2. StoreType'
  BY <1>1 DEF Restart, StoreType, Inv
<1>3. UserInv'
  <2> SUFFICES ASSUME NEW a \in Accounts, NEW u \in Users
               PROVE  Has(file, a, u) <=> userIndex'[u] = a
    BY RestartHas DEF UserInv
  <2>1. CASE \E b \in Accounts : Has(file, b, u)
    <3>1. userIndex'[u] \in Accounts /\ Has(file, userIndex'[u], u)
      BY <2>1 DEF Restart
    <3> QED BY <3>1 DEF Inv, FileUsers
  <2>2. CASE ~\E b \in Accounts : Has(file, b, u)
    BY <2>2, DomainAssumption DEF Restart
  <2> QED BY <2>1, <2>2
<1>4. OwnerInv'
  <2>0. moved' = moved
    BY DEF Restart
  <2> SUFFICES ASSUME NEW a \in Accounts, NEW d \in Domains \ moved
               PROVE  IsPrimary(file, a, d) <=> domainIndex'[d] = a
    BY <2>0, RestartHas DEF OwnerInv
  <2>1. CASE \E b \in Accounts : IsPrimary(file, b, d)
    <3>1. domainIndex'[d] \in Accounts /\ IsPrimary(file, domainIndex'[d], d)
      BY <2>1 DEF Restart
    <3> QED BY <3>1 DEF Inv, FileOwners
  <2>2. CASE ~\E b \in Accounts : IsPrimary(file, b, d)
    BY <2>2, DomainAssumption DEF Restart
  <2> QED BY <2>1, <2>2
<1>5. ExistInv'
  <2> SUFFICES ASSUME NEW d \in Domains, domainIndex'[d] # None
               PROVE  Exists(mem', domainIndex'[d])
    BY DEF ExistInv
  <2>1. domainIndex'[d] \in Accounts /\ IsPrimary(file, domainIndex'[d], d)
    BY DEF Restart
  <2>2. IsPrimary(mem', domainIndex'[d], d)
    BY <2>1, RestartHas
  <2> QED BY <2>2 DEF IsPrimary
<1>6. file' = mem'
  BY DEF Restart
<1>7. FileUsers'
  <2> SUFFICES ASSUME NEW a \in Accounts, NEW b \in Accounts, NEW u \in Users,
                      Has(mem', a, u), Has(mem', b, u)
               PROVE  a = b
    BY <1>6 DEF FileUsers
  <2> QED BY <1>3 DEF UserInv
<1>8. FileOwners'
  <2> SUFFICES ASSUME NEW a \in Accounts, NEW b \in Accounts, NEW d \in Domains \ moved',
                      IsPrimary(mem', a, d), IsPrimary(mem', b, d)
               PROVE  a = b
    BY <1>6 DEF FileOwners
  <2> QED BY <1>4 DEF OwnerInv
<1>9. CallInv'
  <2> SUFFICES ASSUME NEW c \in Calls, call'[c].pc # "rest"
               PROVE  call'[c].user \in Users /\ call'[c].domain \in Domains
    BY DEF CallInv
  <2>1. call'[c] = IF call[c].pc = "rest" THEN NoCall ELSE Unused(call[c])
    BY DEF Restart
  <2>2. call[c].pc # "rest"
    BY <2>1 DEF NoCall
  <2>3. call'[c].user = call[c].user /\ call'[c].domain = call[c].domain
    BY <2>1, <2>2 DEF TypeOK, Unused
  <2> QED BY <2>2, <2>3 DEF Inv, CallInv
<1> QED BY <1>2, <1>3, <1>4, <1>5, <1>6, <1>7, <1>8, <1>9 DEF Inv

-----------------------------------------------------------------------------
(* The invariant *)

LEMMA CallStep ==
    ASSUME Inv, TypeOK, [Next]_vars
    PROVE  CallInv'
<1> SUFFICES ASSUME NEW c \in Calls, call'[c].pc # "rest"
             PROVE  call'[c].user \in Users /\ call'[c].domain \in Domains
  BY DEF CallInv
<1>0. call \in [Calls -> [pc : {"rest", "start", "domain", "idp", "idpLocked"},
                          user : Users \union {None}, account : Accounts \union {None},
                          domain : Domains \union {None}, private : BOOLEAN, result : Accounts \union {None}]]
  BY DEF TypeOK
<1>1. ASSUME NEW b \in Calls, NEW u \in Users, NEW d \in Domains,
             ExtractClaimsWithToken(b, u, d)
      PROVE  call'[c].user \in Users /\ call'[c].domain \in Domains
  BY <1>0, <1>1 DEF ExtractClaimsWithToken, Inv, CallInv
<1>2. ASSUME NEW b \in Calls, Return(b), call[b].pc # "rest"
      PROVE  call'[c].user \in Users /\ call'[c].domain \in Domains
  BY <1>0, <1>2 DEF Return, Goto, Unused, Inv, CallInv
<1>3. ASSUME NEW b \in Calls, NEW l, NEW x, call[b].pc # "rest",
             call' = [call EXCEPT ![b].pc = l, ![b].result = x]
      PROVE  call'[c].user \in Users /\ call'[c].domain \in Domains
  BY <1>0, <1>3 DEF Inv, CallInv
<1>4. ASSUME NEW b \in Calls, GetAccountById(b) \/ (\E ok \in BOOLEAN : updateIDPMetadata(b, ok))
      PROVE  call'[c].user \in Users /\ call'[c].domain \in Domains
  BY <1>2, <1>4 DEF GetAccountById, updateIDPMetadata
<1>5. ASSUME NEW b \in Calls, CheckMember(b)
      PROVE  call'[c].user \in Users /\ call'[c].domain \in Domains
  <2>1. CASE Goto(b, "domain")
    BY <1>0, <1>5, <2>1 DEF CheckMember, Goto, Inv, CallInv
  <2>2. call[b].pc # "rest"
    BY <1>5 DEF CheckMember
  <2> QED BY <1>2, <1>5, <2>1, <2>2 DEF CheckMember
<1>6. ASSUME NEW b \in Calls, GetOrCreateAccountByUser(b)
      PROVE  call'[c].user \in Users /\ call'[c].domain \in Domains
  <2>1. call[b].pc # "rest"
    BY <1>6 DEF GetOrCreateAccountByUser
  <2>2. ASSUME NEW x, Saved(b, x)
        PROVE  call'[c].user \in Users /\ call'[c].domain \in Domains
    BY <1>2, <1>3, <2>1, <2>2 DEF Saved
  <2> QED BY <1>3, <1>6, <2>1, <2>2 DEF GetOrCreateAccountByUser
<1>7. ASSUME NEW b \in Calls, GetAccountWithAuthorizationClaims(b)
      PROVE  call'[c].user \in Users /\ call'[c].domain \in Domains
  <2>1. call[b].pc # "rest"
    BY <1>7 DEF GetAccountWithAuthorizationClaims
  <2>2. ASSUME NEW x, SavedLocked(b, x)
        PROVE  call'[c].user \in Users /\ call'[c].domain \in Domains
    BY <1>2, <1>3, <2>1, <2>2 DEF SavedLocked
  <2> QED BY <1>7, <2>2 DEF GetAccountWithAuthorizationClaims
<1>8. CASE UNCHANGED call
  BY <1>8 DEF Inv, CallInv
<1>9. CASE Restart
  BY <1>0, <1>9 DEF Restart, NoCall, Unused, Inv, CallInv
<1>10. ASSUME NEW d \in Domains, Reclassify(d)
       PROVE  UNCHANGED call
  BY <1>10 DEF Reclassify
<1> QED BY <1>1, <1>4, <1>5, <1>6, <1>7, <1>8, <1>9, <1>10 DEF Next, vars, ExpireToken

\* What TypeOK says beyond the store.
LEMMA TypeStep ==
    ASSUME Inv, TypeOK, [Next]_vars, StoreType'
    PROVE  TypeOK'
<1> DEFINE CallType == [pc : {"rest", "start", "domain", "idp", "idpLocked"},
                        user : Users \union {None}, account : Accounts \union {None},
                        domain : Domains \union {None}, private : BOOLEAN, result : Accounts \union {None}]
           RestType == /\ category \in [Domains -> {"public", "private"}]
                       /\ metadata \in [Users -> Accounts \union {None}]
                       /\ jwtToken \in BOOLEAN
                       /\ call \in [Calls -> CallType]
                       /\ locked \in Calls \union {None}
                       /\ failures \in 0..MaxFailures
<1>0. RestType
  BY DEF TypeOK
<1> SUFFICES RestType'
  BY DEF TypeOK, StoreType
<1>1. NoCall \in CallType
  BY DEF NoCall
<1>2. ASSUME NEW c \in Calls, NEW u \in Users, NEW d \in Domains,
             ExtractClaimsWithToken(c, u, d)
      PROVE  RestType'
  BY <1>0, <1>2 DEF ExtractClaimsWithToken, idpVars, storeVars
<1>3. ASSUME NEW c \in Calls, Return(c)
      PROVE  call' \in [Calls -> CallType]
  BY <1>0, <1>1, <1>3 DEF Return, Unused
<1>4. ASSUME NEW c \in Calls, GetAccountById(c) \/ CheckMember(c)
      PROVE  RestType'
  <2>1. call' \in [Calls -> CallType]
    <3>1. CASE Goto(c, "domain")
      BY <1>0, <3>1 DEF Goto
    <3> QED BY <1>3, <1>4, <3>1 DEF GetAccountById, CheckMember
  <2> QED BY <1>0, <1>4, <2>1 DEF GetAccountById, CheckMember, idpVars, storeVars
<1>5. ASSUME NEW c \in Calls, NEW a \in Accounts,
             NEW l \in {"idp", "idpLocked"}, call' = [call EXCEPT ![c].pc = l, ![c].result = a]
      PROVE  call' \in [Calls -> CallType]
  BY <1>0, <1>5
<1>6. PersistOk \/ PersistFails => failures' \in 0..MaxFailures
  BY <1>0, DomainAssumption DEF PersistOk, PersistFails
<1>7. ASSUME NEW c \in Calls, GetOrCreateAccountByUser(c)
      PROVE  RestType'
  <2>1. ASSUME NEW a \in Accounts, Saved(c, a)
        PROVE  call' \in [Calls -> CallType] /\ failures' \in 0..MaxFailures
    BY <1>3, <1>5, <1>6, <2>1 DEF Saved
  <2>2. call' \in [Calls -> CallType] /\ failures' \in 0..MaxFailures
    <3>1. call[c].user \in Users
      BY <1>7 DEF Inv, CallInv, GetOrCreateAccountByUser
    <3>2. userIndex[call[c].user] \in Accounts \union {None}
      BY <3>1 DEF Inv, StoreType
    <3>3. FreshIds \subseteq Accounts
      BY DEF FreshIds
    <3>4. CASE userIndex[call[c].user] = None
      BY <1>7, <2>1, <3>3, <3>4 DEF GetOrCreateAccountByUser
    <3>5. CASE userIndex[call[c].user] # None
      BY <1>0, <1>5, <1>7, <2>1, <3>2, <3>5 DEF GetOrCreateAccountByUser, storeVars
    <3> QED BY <3>4, <3>5
  <2> QED BY <1>0, <1>7, <2>2 DEF GetOrCreateAccountByUser, idpVars
<1>8. ASSUME NEW c \in Calls, GetAccountWithAuthorizationClaims(c)
      PROVE  RestType'
  <2>1. ASSUME NEW a \in Accounts, SavedLocked(c, a)
        PROVE  /\ call' \in [Calls -> CallType] /\ failures' \in 0..MaxFailures
               /\ locked' \in Calls \union {None}
    BY <1>0, <1>3, <1>5, <1>6, <2>1 DEF SavedLocked
  <2>2. PICK a \in Accounts : SavedLocked(c, a)
    <3>1. call[c].user \in Users /\ call[c].domain \in Domains
      BY <1>8 DEF Inv, CallInv, GetAccountWithAuthorizationClaims
    <3>2. /\ userIndex[call[c].user] \in Accounts \union {None}
          /\ domainIndex[call[c].domain] \in Accounts \union {None}
      BY <3>1 DEF Inv, StoreType
    <3> QED BY <1>8, <3>2 DEF GetAccountWithAuthorizationClaims, FreshIds
  <2> QED BY <1>0, <1>8, <2>1, <2>2 DEF GetAccountWithAuthorizationClaims, idpVars
<1>9. ASSUME NEW c \in Calls, NEW ok \in BOOLEAN, updateIDPMetadata(c, ok)
      PROVE  RestType'
  <2>1. call[c].user \in Users /\ call[c].result \in Accounts \union {None}
    BY <1>0, <1>9 DEF Inv, CallInv, updateIDPMetadata
  <2>2. metadata' \in [Users -> Accounts \union {None}] /\ jwtToken' \in BOOLEAN
    BY <1>0, <1>9, <2>1 DEF updateIDPMetadata, UpdateUserAppMetadata, Authenticate
  <2>3. call' \in [Calls -> CallType]
    BY <1>3, <1>9 DEF updateIDPMetadata
  <2> QED BY <1>0, <1>9, <2>2, <2>3 DEF updateIDPMetadata, storeVars
<1>10. ASSUME NEW d \in Domains, Reclassify(d)
       PROVE  RestType'
  BY <1>0, <1>10 DEF Reclassify, storeVars
<1>11. CASE ExpireToken
  BY <1>0, <1>11 DEF ExpireToken, storeVars
<1>12. CASE Restart
  BY <1>0, <1>1, <1>12 DEF Restart, Unused
<1>13. CASE UNCHANGED vars
  BY <1>0, <1>13 DEF vars, idpVars, storeVars
<1> QED BY <1>2, <1>4, <1>7, <1>8, <1>9, <1>10, <1>11, <1>12, <1>13 DEF Next

LEMMA InvInit ==
    Init => Inv /\ TypeOK
<1> SUFFICES ASSUME Init PROVE Inv /\ TypeOK
  OBVIOUS
<1>1. \A a \in Accounts : mem[a] = None /\ file[a] = None
  BY DEF Init
<1>2. \A a \in Accounts, u \in Users : ~Has(mem, a, u) /\ ~Has(file, a, u)
  BY <1>1 DEF Has, Exists
<1>3. \A a \in Accounts, d \in Domains : ~IsPrimary(mem, a, d) /\ ~IsPrimary(file, a, d)
  BY <1>1 DEF IsPrimary, Exists
<1>4. /\ \A u \in Users : userIndex[u] = None
      /\ \A d \in Domains : domainIndex[d] = None
  BY DEF Init
<1>5. UserInv /\ OwnerInv /\ ExistInv /\ FileUsers /\ FileOwners
  BY <1>2, <1>3, <1>4, DomainAssumption
     DEF UserInv, OwnerInv, ExistInv, FileUsers, FileOwners
<1>6. CallInv
  BY DEF Init, CallInv, NoCall
<1>7. TypeOK
  <2>1. 0 \in 0..MaxFailures
    BY DomainAssumption
  <2>2. \A c \in Calls : call[c] \in [pc : {"rest", "start", "domain", "idp", "idpLocked"},
                                     user : Users \union {None}, account : Accounts \union {None},
                                     domain : Domains \union {None}, private : BOOLEAN, result : Accounts \union {None}]
    BY DEF Init, NoCall
  <2>3. DOMAIN call = Calls /\ call = [c \in Calls |-> call[c]]
    BY DEF Init
  <2> QED BY <2>1, <2>2, <2>3 DEF Init, TypeOK
<1>8. StoreType
  BY <1>7 DEF TypeOK, StoreType
<1> QED BY <1>5, <1>6, <1>7, <1>8 DEF Inv

LEMMA InvStep ==
    ASSUME Inv, TypeOK, [Next]_vars
    PROVE  Inv' /\ TypeOK'
<1>0. CallInv'
  BY CallStep
<1>1. CASE GoodSave
  <2>1. PICK a \in Accounts, acc \in AccountType :
           Good(a, acc) /\ SaveAccount(a, acc) /\ (PersistOk \/ PersistFails)
    BY <1>1 DEF GoodSave
  <2>2. StoreType'
    BY <2>1, GoodSaveType
  <2>3. UserInv' /\ OwnerInv' /\ ExistInv'
    BY <2>1, GoodSaveIndexes
  <2>4. FileUsers' /\ FileOwners'
    BY <2>1, <2>3, GoodSaveFile DEF SaveAccount
  <2> QED BY <1>0, <2>2, <2>3, <2>4, TypeStep DEF Inv
<1>2. CASE UNCHANGED storeVars
  <2>1. Inv'
    BY <1>0, <1>2 DEF Inv, storeVars, StoreType, UserInv, OwnerInv, ExistInv,
                        FileUsers, FileOwners
  <2> QED BY <2>1, TypeStep DEF Inv
<1>3. CASE Restart
  <2>1. Inv'
    BY <1>3, RestartStep
  <2> QED BY <2>1, TypeStep DEF Inv
<1> QED BY <1>1, <1>2, <1>3, StepKinds DEF Kinds

LEMMA InvHolds ==
    Spec => [](Inv /\ TypeOK)
<1>1. Init => Inv /\ TypeOK
  BY InvInit
<1>2. Inv /\ TypeOK /\ [Next]_vars => (Inv /\ TypeOK)'
  BY InvStep
<1> QED BY <1>1, <1>2, PTL DEF Spec

\* Accounts, indexes, tokens and requests stay well formed.
THEOREM TypeCorrect == Spec => []TypeOK
BY InvHolds, PTL

\* A private domain that no account left or took over has one primary
\* account, in memory and in the file, and the index names it
\* (file_store.go:270-272, account.go:386-449).
THEOREM OnePrimary == Spec => []OnePrimaryPerDomain
<1>1. Inv => OnePrimaryPerDomain
  BY DEF Inv, OwnerInv, FileOwners, OnePrimaryPerDomain
<1> QED BY <1>1, InvHolds, PTL

-----------------------------------------------------------------------------
(* The accounts in the file *)

LEMMA SavedHomeIs ==
    ASSUME FileUsers, NEW u \in Users
    PROVE  /\ \A a \in Accounts : Has(file, a, u) => SavedHome(u) = a
           /\ (~\E a \in Accounts : Has(file, a, u)) => SavedHome(u) = None
BY DEF FileUsers, SavedHome

LEMMA SavedOwnerIs ==
    ASSUME FileOwners, NEW d \in Domains \ moved
    PROVE  /\ \A a \in Accounts : IsPrimary(file, a, d) => SavedOwner(d) = a
           /\ (~\E a \in Accounts : IsPrimary(file, a, d)) => SavedOwner(d) = None
BY DEF FileOwners, SavedOwner

SavedHomes == [u \in Users |-> SavedHome(u)]

\* f, but for the domains that an account left or took over.
Settled(f) == [d \in Domains |-> IF d \in moved THEN None ELSE f[d]]

SavedOwners == [d \in Domains |-> IF d \in moved THEN None ELSE SavedOwner(d)]

\* When memory and file agree, so do the indexes and the file.
LEMMA SavedIsIndex ==
    Inv /\ file = mem => SavedHomes = userIndex /\ SavedOwners = Settled(domainIndex)
<1> SUFFICES ASSUME Inv, file = mem
             PROVE  SavedHomes = userIndex /\ SavedOwners = Settled(domainIndex)
  OBVIOUS
<1>1. ASSUME NEW u \in Users PROVE SavedHome(u) = userIndex[u]
  <2>1. userIndex[u] \in Accounts \union {None}
    BY DEF Inv, StoreType
  <2>2. \A a \in Accounts : Has(file, a, u) <=> userIndex[u] = a
    BY DEF Inv, UserInv
  <2>3. FileUsers
    BY DEF Inv
  <2> QED BY <2>1, <2>2, <2>3, SavedHomeIs, DomainAssumption
<1>2. ASSUME NEW d \in Domains \ moved PROVE SavedOwner(d) = domainIndex[d]
  <2>1. domainIndex[d] \in Accounts \union {None}
    BY DEF Inv, StoreType
  <2>2. \A a \in Accounts : IsPrimary(file, a, d) <=> domainIndex[d] = a
    BY DEF Inv, OwnerInv
  <2>3. FileOwners
    BY DEF Inv
  <2> QED BY <2>1, <2>2, <2>3, SavedOwnerIs, DomainAssumption
<1>3. SavedHomes = userIndex
  BY <1>1 DEF Inv, StoreType, SavedHomes
<1>4. SavedOwners = Settled(domainIndex)
  BY <1>2 DEF SavedOwners, Settled
<1> QED BY <1>3, <1>4

\* A restart takes the indexes from the file.
LEMMA RestartForgets ==
    ASSUME Inv, Restart
    PROVE  /\ userIndex' = SavedHomes
           /\ \A d \in Domains \ moved : domainIndex'[d] = SavedOwner(d)
<1>1. ASSUME NEW u \in Users PROVE userIndex'[u] = SavedHome(u)
  <2>1. FileUsers
    BY DEF Inv
  <2>2. CASE \E a \in Accounts : Has(file, a, u)
    <3>1. userIndex'[u] \in Accounts /\ Has(file, userIndex'[u], u)
      BY <2>2 DEF Restart
    <3> QED BY <2>1, <3>1, SavedHomeIs
  <2>3. CASE ~\E a \in Accounts : Has(file, a, u)
    BY <2>1, <2>3, SavedHomeIs DEF Restart
  <2> QED BY <2>2, <2>3
<1>2. ASSUME NEW d \in Domains \ moved PROVE domainIndex'[d] = SavedOwner(d)
  <2>1. FileOwners
    BY DEF Inv
  <2>2. CASE \E a \in Accounts : IsPrimary(file, a, d)
    <3>1. domainIndex'[d] \in Accounts /\ IsPrimary(file, domainIndex'[d], d)
      BY <2>2 DEF Restart
    <3> QED BY <2>1, <3>1, SavedOwnerIs
  <2>3. CASE ~\E a \in Accounts : IsPrimary(file, a, d)
    BY <2>1, <2>3, SavedOwnerIs DEF Restart
  <2> QED BY <2>2, <2>3
<1> QED BY <1>1, <1>2 DEF Restart, SavedHomes

\* What a save does for Membership.
LEMMA SaveIsSave ==
    ASSUME Inv, Inv', NEW a \in Accounts, NEW acc \in AccountType, Good(a, acc),
           SaveAccount(a, acc), PersistOk \/ PersistFails,
           PersistOk => (SavedHomes = userIndex)' /\ (SavedOwners = Settled(domainIndex))'
    PROVE  M!Save
<1>1. domainIndex' \in [Domains -> Accounts \union {None}]
  BY DEF Inv, StoreType
<1>2. M!Extends(domainIndex, domainIndex', Domains \ moved')
  BY GoodSaveIndexes DEF M!Extends
<1>3. CASE PersistOk
  BY <1>1, <1>2, <1>3 DEF M!Save, M!Settled, SavedHomes, SavedOwners, Settled
<1>4. CASE PersistFails
  <2>1. UNCHANGED file /\ moved \subseteq moved'
    BY <1>4 DEF PersistFails, SaveAccount
  <2>2. \A u \in Users : SavedHome(u)' = SavedHome(u)
    BY <2>1 DEF SavedHome
  <2>3. \A d \in Domains : SavedOwner(d)' = SavedOwner(d)
    BY <2>1 DEF SavedOwner
  <2>4. SavedHomes' = SavedHomes
    BY <2>2 DEF SavedHomes
  <2>5. SavedOwners' = M!Settled(SavedOwners)
    BY <2>1, <2>3 DEF SavedOwners, M!Settled
  <2> QED BY <1>1, <1>2, <2>4, <2>5 DEF M!Save, SavedHomes, SavedOwners
<1> QED BY <1>3, <1>4

\* The account manager implements Membership: its initial state is one of
\* Membership, and every step assigns, moves, forgets or stutters there.
THEOREM Refinement == Spec => AssignedOnce
<1>i. Init => M!Init
  <2> SUFFICES ASSUME Init PROVE M!Init
    OBVIOUS
  <2>1. Inv /\ file = mem
    BY InvInit DEF Init
  <2>2. Settled(domainIndex) = domainIndex
    BY DEF Init, Settled
  <2> QED BY <2>1, <2>2, SavedIsIndex DEF Init, M!Init, SavedHomes, SavedOwners
<1>p. (Inv /\ file = mem => SavedHomes = userIndex /\ SavedOwners = Settled(domainIndex))'
  BY SavedIsIndex, PTL
<1>n. Inv /\ TypeOK /\ [Next]_vars => [M!Assign \/ M!Move \/ M!Forget]_M!vars
  <2> SUFFICES ASSUME Inv, TypeOK, [Next]_vars
               PROVE  [M!Assign \/ M!Move \/ M!Forget]_M!vars
    OBVIOUS
  <2>0. Inv'
    BY InvStep
  <2>1. CASE GoodSave
    <3>1. PICK a \in Accounts, acc \in AccountType :
             Good(a, acc) /\ SaveAccount(a, acc) /\ (PersistOk \/ PersistFails)
      BY <2>1 DEF GoodSave
    <3>2. PersistOk => (SavedHomes = userIndex)' /\ (SavedOwners = Settled(domainIndex))'
      BY <1>p, <2>0 DEF PersistOk
    <3>3. M!Save
      BY <2>0, <3>1, <3>2, SaveIsSave
    <3>4. userIndex' \in [Users -> Accounts \union {None}] /\ M!Extends(userIndex, userIndex', Users)
      BY <2>0, <3>1, GoodSaveIndexes DEF Inv, StoreType, M!Extends
    <3>5. CASE moved' = moved
      BY <3>3, <3>4, <3>5 DEF M!Assign
    <3>6. CASE moved' # moved
      BY <3>1, <3>3, <3>6, LeavingKeepsHomes DEF M!Move
    <3> QED BY <3>5, <3>6
  <2>2. CASE UNCHANGED storeVars
    BY <2>2 DEF storeVars, M!vars, SavedHome, SavedOwner
  <2>3. CASE Restart
    <3>1. (file = mem)' /\ moved' = moved
      BY <2>3 DEF Restart
    <3>2. /\ userIndex' = SavedHomes
          /\ \A d \in Domains \ moved : domainIndex'[d] = SavedOwner(d)
      BY <2>3, RestartForgets
    <3>3. SavedHomes' = userIndex' /\ SavedOwners' = Settled(domainIndex)'
      BY <1>p, <2>0, <3>1
    <3>4. Settled(domainIndex)' = SavedOwners
      BY <3>1, <3>2 DEF Settled, SavedOwners
    <3>5. domainIndex' \in [Domains -> Accounts \union {None}]
      BY <2>0 DEF Inv, StoreType
    <3>6. \A d \in Domains \ moved : domainIndex'[d] = SavedOwners[d]
      BY <3>2 DEF SavedOwners
    <3> QED BY <3>1, <3>2, <3>3, <3>4, <3>5, <3>6 DEF M!Forget, SavedHomes, SavedOwners
  <2> QED BY <2>1, <2>2, <2>3, StepKinds DEF Kinds
<1> QED BY <1>i, <1>n, InvHolds, PTL DEF Spec, AssignedOnce, M!Spec

-----------------------------------------------------------------------------
(* The provider's metadata *)

\* A request on its way to the provider carries the account of its user.
ResultInv ==
    \A c \in Calls : call[c].pc \in {"idp", "idpLocked"} =>
        /\ call[c].result \in Accounts
        /\ userIndex[call[c].user] = call[c].result

MetaInv ==
    /\ ~dirty => file = mem
    /\ ResultInv
    /\ ~lost => \A u \in Users : metadata[u] # None => userIndex[u] = metadata[u]

\* A save leaves every user that has an account where it is.
LEMMA SaveKeepsHomes ==
    ASSUME Inv, TypeOK, [Next]_vars, ~Restart
    PROVE  \A u \in Users : userIndex[u] # None => userIndex'[u] = userIndex[u]
<1>1. CASE GoodSave
  BY <1>1, GoodSaveIndexes DEF GoodSave
<1>2. CASE UNCHANGED storeVars
  BY <1>2 DEF storeVars
<1> QED BY <1>1, <1>2, StepKinds DEF Kinds

LEMMA FileStep ==
    ASSUME Inv, TypeOK, MetaInv, [Next]_vars
    PROVE  (~dirty => file = mem)'
<1>1. CASE GoodSave
  BY <1>1 DEF GoodSave, PersistOk, PersistFails
<1>2. CASE UNCHANGED storeVars
  BY <1>2 DEF storeVars, MetaInv
<1>3. CASE Restart
  BY <1>3 DEF Restart
<1> QED BY <1>1, <1>2, <1>3, StepKinds DEF Kinds

\* How a step changes requests: one is sent to the provider with the account
\* its user now has, or none is.
LEMMA CallKinds ==
    ASSUME Inv, TypeOK, [Next]_vars, NEW c \in Calls, call'[c].pc \in {"idp", "idpLocked"}
    PROVE  \/ /\ call[c].pc \in {"idp", "idpLocked"}
              /\ call'[c].user = call[c].user /\ call'[c].result = call[c].result
              /\ ~Restart
           \/ /\ call'[c].user \in Users /\ call'[c].result \in Accounts
              /\ userIndex'[call'[c].user] = call'[c].result
<1> DEFINE Kept == /\ call[c].pc \in {"idp", "idpLocked"}
                   /\ call'[c].user = call[c].user /\ call'[c].result = call[c].result
           Sent == /\ call'[c].user \in Users /\ call'[c].result \in Accounts
                   /\ userIndex'[call'[c].user] = call'[c].result
<1>0. call \in [Calls -> [pc : {"rest", "start", "domain", "idp", "idpLocked"},
                          user : Users \union {None}, account : Accounts \union {None},
                          domain : Domains \union {None}, private : BOOLEAN, result : Accounts \union {None}]]
  BY DEF TypeOK
<1>1. ~Restart
  <2> SUFFICES ASSUME Restart
               PROVE  FALSE
    OBVIOUS
  <2>1. call'[c] = IF call[c].pc = "rest" THEN NoCall ELSE Unused(call[c])
    BY DEF Restart
  <2> QED BY <1>0, <2>1 DEF NoCall, Unused
<1> SUFFICES Kept \/ Sent
  BY <1>1
<1>2. ASSUME NEW b \in Calls, NEW u \in Users, NEW d \in Domains,
             ExtractClaimsWithToken(b, u, d)
      PROVE  Kept
  BY <1>0, <1>2 DEF ExtractClaimsWithToken
<1>3. ASSUME NEW b \in Calls, Return(b) \/ Goto(b, "domain")
      PROVE  Kept
  BY <1>0, <1>3 DEF Return, Goto, Unused
<1>4. ASSUME NEW b \in Calls, GetAccountById(b) \/ CheckMember(b) \/ (\E ok \in BOOLEAN : updateIDPMetadata(b, ok))
      PROVE  Kept
  BY <1>3, <1>4 DEF GetAccountById, CheckMember, updateIDPMetadata
<1>5. ASSUME NEW b \in Calls, NEW l, NEW a \in Accounts, call[b].user \in Users,
             call' = [call EXCEPT ![b].pc = l, ![b].result = a],
             userIndex'[call[b].user] = a
      PROVE  Kept \/ Sent
  <2>1. CASE b = c
    BY <1>0, <1>5, <2>1
  <2>2. CASE b # c
    BY <1>0, <1>5, <2>2
  <2> QED BY <2>1, <2>2
<1>6. ASSUME NEW a \in Accounts, NEW acc, NEW u \in Users, SaveAccount(a, acc), acc.users[u] # "none"
      PROVE  userIndex'[u] = a
  BY <1>6 DEF SaveAccount
<1>7. ASSUME NEW b \in Calls, GetOrCreateAccountByUser(b)
      PROVE  Kept \/ Sent
  <2> DEFINE u == call[b].user
             d == call[b].domain
  <2>0. u \in Users
    BY <1>7 DEF GetOrCreateAccountByUser, Inv, CallInv
  <2>1. CASE userIndex[u] = None
    <3>1. PICK a \in FreshIds : SaveAccount(a, addAllGroup(NewAccount(u, d))) /\ Saved(b, a)
      BY <1>7, <2>1 DEF GetOrCreateAccountByUser
    <3>2. addAllGroup(NewAccount(u, d)).users[u] # "none"
      BY <2>0 DEF addAllGroup, NewAccount
    <3>3. userIndex'[u] = a
      BY <1>6, <2>0, <3>1, <3>2 DEF FreshIds
    <3> QED BY <1>3, <1>5, <2>0, <3>1, <3>3 DEF Saved, FreshIds
  <2>2. CASE userIndex[u] # None
    <3>1. userIndex[u] \in Accounts /\ Has(mem, userIndex[u], u)
      BY <2>0, <2>2 DEF Inv, StoreType, UserInv
    <3>2. CASE mem[userIndex[u]].domain = d
      <4>1. /\ call' = [call EXCEPT ![b].pc = "idp", ![b].result = userIndex[u]]
            /\ userIndex'[u] = userIndex[u]
        BY <1>7, <2>2, <3>2 DEF GetOrCreateAccountByUser, storeVars
      <4> QED BY <1>5, <2>0, <3>1, <4>1
    <3>3. CASE mem[userIndex[u]].domain # d
      <4>1. SaveAccount(userIndex[u], [mem[userIndex[u]] EXCEPT !.domain = d]) /\ Saved(b, userIndex[u])
        BY <1>7, <2>2, <3>3 DEF GetOrCreateAccountByUser
      <4>2. userIndex'[u] = userIndex[u]
        BY <2>0, <4>1 DEF SaveAccount
      <4> QED BY <1>3, <1>5, <2>0, <3>1, <4>1, <4>2 DEF Saved
    <3> QED BY <3>2, <3>3
  <2> QED BY <2>1, <2>2
<1>8. ASSUME NEW b \in Calls, GetAccountWithAuthorizationClaims(b)
      PROVE  Kept \/ Sent
  <2> DEFINE u == call[b].user
             d == call[b].domain
  <2>0. u \in Users /\ d \in Domains
    BY <1>8 DEF GetAccountWithAuthorizationClaims, Inv, CallInv
  <2>s. ASSUME NEW a \in Accounts, SavedLocked(b, a), userIndex'[u] = a
        PROVE  Kept \/ Sent
    BY <1>3, <1>5, <2>0, <2>s DEF SavedLocked
  <2>1. CASE /\ userIndex[u] # None
             /\ SaveAccount(userIndex[u], handleExistingUserAccount(userIndex[u], d))
             /\ SavedLocked(b, userIndex[u])
    <3>1. userIndex[u] \in Accounts
      BY <2>0, <2>1 DEF Inv, StoreType
    <3>2. userIndex'[u] = userIndex[u]
      BY <2>0, <2>1 DEF SaveAccount
    <3> QED BY <2>s, <2>1, <3>1, <3>2
  <2>2. CASE /\ userIndex[u] = None /\ domainIndex[d] # None
             /\ SaveAccount(domainIndex[d], JoinDomainAccount(domainIndex[d], u))
             /\ SavedLocked(b, domainIndex[d])
    <3> DEFINE a == domainIndex[d]
    <3>1. a \in Accounts /\ Exists(mem, a)
      BY <2>0, <2>2 DEF Inv, StoreType, ExistInv
    <3>2. mem[a] \in AccountType
      BY <3>1 DEF Inv, StoreType, Exists
    <3>3. JoinDomainAccount(a, u).users[u] # "none"
      BY <2>0, <3>2 DEF JoinDomainAccount, AccountType
    <3>4. userIndex'[u] = a
      BY <1>6, <2>0, <2>2, <3>1, <3>3
    <3> QED BY <2>s, <2>2, <3>1, <3>4
  <2>3. CASE \E a \in FreshIds : SaveAccount(a, handleNewUserAccount(u, d)) /\ SavedLocked(b, a)
    <3>1. PICK a \in FreshIds : SaveAccount(a, handleNewUserAccount(u, d)) /\ SavedLocked(b, a)
      BY <2>3
    <3>2. handleNewUserAccount(u, d).users[u] # "none"
      BY <2>0 DEF handleNewUserAccount, updateAccountDomainAttributes, NewAccount
    <3>3. userIndex'[u] = a
      BY <1>6, <2>0, <3>1, <3>2 DEF FreshIds
    <3> QED BY <2>s, <3>1, <3>3 DEF FreshIds
  <2> QED BY <1>8, <2>1, <2>2, <2>3 DEF GetAccountWithAuthorizationClaims
<1>9. CASE UNCHANGED call
  BY <1>9
<1>10. ASSUME NEW d \in Domains, Reclassify(d)
       PROVE  UNCHANGED call
  BY <1>10 DEF Reclassify
<1> QED BY <1>1, <1>2, <1>4, <1>7, <1>8, <1>9, <1>10 DEF Next, vars, ExpireToken

LEMMA ResultStep ==
    ASSUME Inv, TypeOK, MetaInv, [Next]_vars
    PROVE  ResultInv'
<1> SUFFICES ASSUME NEW c \in Calls, call'[c].pc \in {"idp", "idpLocked"}
             PROVE  /\ call'[c].result \in Accounts
                    /\ userIndex'[call'[c].user] = call'[c].result
  BY DEF ResultInv
<1>1. CASE /\ call[c].pc \in {"idp", "idpLocked"}
           /\ call'[c].user = call[c].user /\ call'[c].result = call[c].result
           /\ ~Restart
  <2>1. /\ call[c].user \in Users /\ call[c].result \in Accounts
        /\ userIndex[call[c].user] = call[c].result
    BY <1>1 DEF Inv, CallInv, MetaInv, ResultInv
  <2> QED BY <1>1, <2>1, SaveKeepsHomes, DomainAssumption
<1> QED BY <1>1, CallKinds

\* Only updateIDPMetadata writes metadata.
LEMMA MetadataWrites ==
    ASSUME [Next]_vars, metadata' # metadata
    PROVE  \E c \in Calls, ok \in BOOLEAN : updateIDPMetadata(c, ok)
BY DEF Next, vars, idpVars, ExtractClaimsWithToken, GetAccountById, GetOrCreateAccountByUser,
       CheckMember, GetAccountWithAuthorizationClaims, Reclassify, ExpireToken, Restart

LEMMA MetaStep ==
    ASSUME Inv, TypeOK, MetaInv, [Next]_vars
    PROVE  MetaInv'
<1>1. ASSUME ~lost', NEW u \in Users, metadata'[u] # None
      PROVE  userIndex'[u] = metadata'[u]
  <2>1. CASE Restart
    <3>1. ~lost /\ ~dirty /\ metadata' = metadata
      BY <1>1, <2>1 DEF Restart
    <3>2. file = mem /\ userIndex[u] = metadata[u]
      BY <1>1, <3>1 DEF MetaInv
    <3> QED BY <2>1, <3>1, <3>2, RestartForgets, SavedIsIndex
  <2>2. CASE ~Restart /\ metadata' = metadata
    <3>1. ~lost
      <4>1. CASE GoodSave
        BY <1>1, <4>1 DEF GoodSave, PersistOk, PersistFails
      <4>2. CASE UNCHANGED storeVars
        BY <1>1, <4>2 DEF storeVars
      <4> QED BY <2>2, <4>1, <4>2, StepKinds DEF Kinds
    <3>2. userIndex[u] = metadata[u]
      BY <1>1, <2>2, <3>1 DEF MetaInv
    <3> QED BY <1>1, <2>2, <3>2, SaveKeepsHomes
  <2>3. CASE metadata' # metadata
    <3>1. PICK c \in Calls, ok \in BOOLEAN : updateIDPMetadata(c, ok)
      BY <2>3, MetadataWrites
    <3>2. UNCHANGED <<userIndex, lost>>
      BY <3>1 DEF updateIDPMetadata, storeVars
    <3>3. /\ call[c].user \in Users
          /\ userIndex[call[c].user] = call[c].result
      BY <3>1 DEF updateIDPMetadata, MetaInv, ResultInv, Inv, CallInv
    <3>4. metadata' = [metadata EXCEPT ![call[c].user] = call[c].result]
      BY <2>3, <3>1 DEF updateIDPMetadata, UpdateUserAppMetadata
    <3>5. metadata \in [Users -> Accounts \union {None}]
      BY DEF TypeOK
    <3>6. CASE u = call[c].user
      BY <3>2, <3>3, <3>4, <3>5, <3>6
    <3>7. CASE u # call[c].user
      BY <1>1, <3>2, <3>4, <3>5, <3>7 DEF MetaInv
    <3> QED BY <3>6, <3>7
  <2> QED BY <2>1, <2>2, <2>3
<1> QED BY <1>1, FileStep, ResultStep DEF MetaInv

\* The account ID in a user's tokens is the user's account, in memory and,
\* unless the last write failed, in the file (account.go:274-311, 404-447).
THEOREM TokensNameHome == Spec => []MetadataNamesHome
<1>1. Init => MetaInv
  BY DEF Init, MetaInv, ResultInv, NoCall
<1>2. Inv /\ TypeOK /\ MetaInv /\ [Next]_vars => MetaInv'
  BY MetaStep
<1>3. Inv /\ TypeOK /\ MetaInv => MetadataNamesHome
  <2> SUFFICES ASSUME Inv, TypeOK, MetaInv, ~lost, NEW u \in Users, metadata[u] # None
               PROVE  /\ userIndex[u] = metadata[u] /\ Has(mem, metadata[u], u)
                      /\ ~dirty => Has(file, metadata[u], u)
    BY DEF MetadataNamesHome
  <2>1. userIndex[u] = metadata[u] /\ metadata[u] \in Accounts
    BY DEF MetaInv, TypeOK
  <2>2. Has(mem, metadata[u], u)
    BY <2>1 DEF Inv, UserInv
  <2> QED BY <2>1, <2>2 DEF MetaInv
<1> QED BY <1>1, <1>2, <1>3, InvHolds, PTL DEF Spec

-----------------------------------------------------------------------------
(* The service behind the middleware *)

\* A step of the service is a step of the account manager, or none.
LEMMA ApiStepIsStep == [ApiNext]_allVars => [Next]_vars
<1> SUFFICES ASSUME ApiNext PROVE Next \/ UNCHANGED vars
  BY DEF allVars
<1>1. ASSUME NEW c \in Calls, NEW u \in Users, NEW d \in Domains, IssueToken(c, u, d)
      PROVE  Next
  BY <1>1 DEF IssueToken, Next
<1>2. ASSUME NEW c \in Calls, Lookup(c)
      PROVE  Next
  BY <1>2 DEF Lookup, Next
<1>3. ASSUME NEW c \in Calls, (\E write \in BOOLEAN : CheckJWTFromRequest(c, write)) \/ Answer(c)
      PROVE  UNCHANGED vars
  BY <1>3 DEF CheckJWTFromRequest, Answer
<1>4. CASE (\E d \in Domains : Reclassify(d)) \/ ExpireToken \/ Start
  BY <1>4 DEF Start, Next
<1>5. CASE Rotate
  BY <1>5 DEF Rotate
<1> QED BY <1>1, <1>2, <1>3, <1>4, <1>5 DEF ApiNext

\* The service behind the middleware implements the account manager on its
\* own, which implements Membership: also with requests that look the account
\* up twice, no user changes its account.
THEOREM ApiRefinement == ApiSpec => AssignedOnce
<1>1. ApiInit => Init
  BY DEF ApiInit
<1>2. ApiSpec => Spec
  BY <1>1, ApiStepIsStep, PTL DEF ApiSpec, Spec
<1> QED BY <1>2, Refinement

\* One private domain, one primary account, also behind the middleware, for
\* the domains that no account left or took over.
THEOREM ApiOnePrimary == ApiSpec => []OnePrimaryPerDomain
<1>1. ApiInit => Init
  BY DEF ApiInit
<1>2. ApiSpec => Spec
  BY <1>1, ApiStepIsStep, PTL DEF ApiSpec, Spec
<1> QED BY <1>2, OnePrimary, PTL

-----------------------------------------------------------------------------
(* The mutex *)

CallType == [pc : {"rest", "start", "domain", "idp", "idpLocked"},
             user : Users \union {None}, account : Accounts \union {None},
             domain : Domains \union {None}, private : BOOLEAN, result : Accounts \union {None}]

LEMMA MutexStep ==
    ASSUME TypeOK, MutexIsReleased, [Next]_vars
    PROVE  MutexIsReleased'
<1>0. call \in [Calls -> CallType] /\ locked \in Calls \union {None} /\ None \notin Calls
  BY DomainAssumption DEF TypeOK, CallType
\* A request that stays off the locked section, and a mutex that stays.
<1>a. ASSUME NEW c \in Calls, call[c].pc # "idpLocked", call'[c].pc # "idpLocked",
             \A b \in Calls \ {c} : call'[b] = call[b], UNCHANGED locked
      PROVE  MutexIsReleased'
  BY <1>a DEF MutexIsReleased
<1>b. ASSUME NEW c \in Calls, Return(c)
      PROVE  call'[c].pc = "start" /\ \A b \in Calls \ {c} : call'[b] = call[b]
  BY <1>0, <1>b DEF Return, Unused, CallType
<1>c. ASSUME NEW c \in Calls, NEW l, NEW x, call' = [call EXCEPT ![c].pc = l, ![c].result = x]
      PROVE  call'[c].pc = l /\ \A b \in Calls \ {c} : call'[b] = call[b]
  BY <1>0, <1>c DEF CallType
<1>d. ASSUME NEW c \in Calls, NEW l, Goto(c, l)
      PROVE  call'[c].pc = l /\ \A b \in Calls \ {c} : call'[b] = call[b]
  BY <1>0, <1>d DEF CallType, Goto
<1>1. ASSUME NEW c \in Calls, NEW u \in Users, NEW d \in Domains,
             ExtractClaimsWithToken(c, u, d)
      PROVE  MutexIsReleased'
  <2>1. call'[c].pc = "start" /\ \A b \in Calls \ {c} : call'[b] = call[b]
    BY <1>0, <1>1 DEF ExtractClaimsWithToken
  <2> QED BY <1>1, <1>a, <2>1 DEF ExtractClaimsWithToken
<1>2. ASSUME NEW c \in Calls, GetAccountById(c)
      PROVE  MutexIsReleased'
  BY <1>2, <1>a, <1>b DEF GetAccountById
<1>3. ASSUME NEW c \in Calls, CheckMember(c)
      PROVE  MutexIsReleased'
  <2>1. Goto(c, "domain") \/ Return(c)
    BY <1>3 DEF CheckMember
  <2> QED BY <1>3, <2>1, <1>a, <1>b, <1>d DEF CheckMember
<1>4. ASSUME NEW c \in Calls, GetOrCreateAccountByUser(c)
      PROVE  MutexIsReleased'
  <2>1. Return(c) \/ \E x : call' = [call EXCEPT ![c].pc = "idp", ![c].result = x]
    BY <1>4 DEF GetOrCreateAccountByUser, Saved
  <2>2. call'[c].pc # "idpLocked" /\ \A b \in Calls \ {c} : call'[b] = call[b]
    BY <2>1, <1>b, <1>c
  <2> QED BY <1>4, <2>2, <1>a DEF GetOrCreateAccountByUser
<1>5. ASSUME NEW c \in Calls, GetAccountWithAuthorizationClaims(c)
      PROVE  MutexIsReleased'
  <2>1. locked = None /\ call[c].pc # "idpLocked"
    BY <1>5 DEF GetAccountWithAuthorizationClaims, amMuxFree
  <2>2. PICK x : SavedLocked(c, x)
    BY <1>5 DEF GetAccountWithAuthorizationClaims
  <2>3. CASE UNCHANGED locked /\ Return(c)
    BY <2>1, <2>3, <1>a, <1>b
  <2>4. CASE locked' = c /\ call' = [call EXCEPT ![c].pc = "idpLocked", ![c].result = x]
    <3>1. call'[c].pc = "idpLocked" /\ \A b \in Calls \ {c} : call'[b] = call[b]
      BY <2>4, <1>c
    <3>2. \A b \in Calls : call[b].pc # "idpLocked"
      BY <2>1, <1>0 DEF MutexIsReleased
    <3> QED BY <2>4, <3>1, <3>2 DEF MutexIsReleased
  <2> QED BY <2>2, <2>3, <2>4 DEF SavedLocked
<1>6. ASSUME NEW c \in Calls, NEW ok \in BOOLEAN, updateIDPMetadata(c, ok)
      PROVE  MutexIsReleased'
  <2>1. call'[c].pc = "start" /\ \A b \in Calls \ {c} : call'[b] = call[b]
    BY <1>6, <1>b DEF updateIDPMetadata
  <2>2. locked' = IF locked = c THEN None ELSE locked
    BY <1>6 DEF updateIDPMetadata
  <2> QED BY <2>1, <2>2, <1>0 DEF MutexIsReleased
<1>7. CASE Restart
  <2>1. locked' = None /\ \A c \in Calls : call'[c].pc # "idpLocked"
    BY <1>0, <1>7 DEF Restart, NoCall, Unused, CallType
  <2> QED BY <2>1, <1>0 DEF MutexIsReleased
<1>8. CASE UNCHANGED <<call, locked>>
  BY <1>8 DEF MutexIsReleased
<1>9. ASSUME NEW d \in Domains, Reclassify(d)
      PROVE  UNCHANGED <<call, locked>>
  BY <1>9 DEF Reclassify
<1> QED BY <1>1, <1>2, <1>3, <1>4, <1>5, <1>6, <1>7, <1>8, <1>9 DEF Next, vars, ExpireToken

\* am.mux is held beyond one step only during a call of the provider, whatever
\* writes fail before it.
THEOREM MutexReleased == ApiSpec => []MutexIsReleased
<1>1. ApiInit => Init /\ MutexIsReleased
  BY DomainAssumption DEF ApiInit, Init, NoCall, MutexIsReleased
<1>2. TypeOK /\ MutexIsReleased /\ [Next]_vars => MutexIsReleased'
  BY MutexStep
<1>3. ApiSpec => Spec
  BY <1>1, ApiStepIsStep, PTL DEF ApiSpec, Spec
<1> QED BY <1>1, <1>2, <1>3, ApiStepIsStep, TypeCorrect, PTL DEF ApiSpec

-----------------------------------------------------------------------------
(* What a save does to the roles of users *)

LEMMA SaveKeepsRoles ==
    ASSUME Inv, TypeOK, [Next]_vars, ~Restart, NEW a \in Accounts, NEW u \in Users,
           Has(mem, a, u)
    PROVE  mem'[a].users[u] = mem[a].users[u]
<1> DEFINE Kept == mem'[a].users[u] = mem[a].users[u]
<1>0. mem \in [Accounts -> AccountType \union {None}] /\ mem[a] \in AccountType
  BY DEF Inv, StoreType, Has, Exists
<1>s. ASSUME NEW b \in Accounts, NEW acc, SaveAccount(b, acc),
             b = a => acc.users[u] = mem[a].users[u]
      PROVE  Kept
  BY <1>0, <1>s DEF SaveAccount
<1>f. ASSUME NEW b \in FreshIds, NEW acc, SaveAccount(b, acc)
      PROVE  Kept
  BY <1>s, <1>f DEF FreshIds, Has, Exists
<1>1. CASE UNCHANGED storeVars
  BY <1>1 DEF storeVars
<1>2. ASSUME NEW c \in Calls, GetOrCreateAccountByUser(c)
      PROVE  Kept
  <2> DEFINE v == call[c].user
  <2>1. CASE userIndex[v] = None
    BY <1>2, <1>f, <2>1 DEF GetOrCreateAccountByUser
  <2>2. CASE userIndex[v] # None
    <3>1. userIndex[v] \in Accounts
      BY <1>2, <2>2 DEF GetOrCreateAccountByUser, Inv, CallInv, StoreType
    <3>2. CASE SaveAccount(userIndex[v], [mem[userIndex[v]] EXCEPT !.domain = call[c].domain])
      <4>1. userIndex[v] = a =>
              [mem[userIndex[v]] EXCEPT !.domain = call[c].domain].users[u] = mem[a].users[u]
        BY <1>0 DEF AccountType
      <4> QED BY <1>s, <3>1, <3>2, <4>1
    <3> QED BY <1>1, <1>2, <2>2, <3>2 DEF GetOrCreateAccountByUser
  <2> QED BY <2>1, <2>2
<1>3. ASSUME NEW c \in Calls, GetAccountWithAuthorizationClaims(c)
      PROVE  Kept
  <2> DEFINE v == call[c].user
             d == call[c].domain
  <2>0. v \in Users /\ d \in Domains
    BY <1>3 DEF GetAccountWithAuthorizationClaims, Inv, CallInv
  <2>1. CASE /\ userIndex[v] # None
             /\ SaveAccount(userIndex[v], handleExistingUserAccount(userIndex[v], d))
    <3>1. userIndex[v] \in Accounts
      BY <2>0, <2>1 DEF Inv, StoreType
    <3>2. userIndex[v] = a =>
            handleExistingUserAccount(userIndex[v], d).users[u] = mem[a].users[u]
      BY <1>0 DEF AccountType, handleExistingUserAccount, updateAccountDomainAttributes
    <3> QED BY <1>s, <2>1, <3>1, <3>2
  <2>2. CASE /\ userIndex[v] = None /\ domainIndex[d] # None
             /\ SaveAccount(domainIndex[d], JoinDomainAccount(domainIndex[d], v))
    <3>1. domainIndex[d] \in Accounts
      BY <2>0, <2>2 DEF Inv, StoreType
    <3>2. u # v
      BY <2>0, <2>2, DomainAssumption DEF Inv, UserInv
    <3>3. domainIndex[d] = a =>
            JoinDomainAccount(domainIndex[d], v).users[u] = mem[a].users[u]
      BY <1>0, <2>0, <3>2 DEF AccountType, JoinDomainAccount
    <3> QED BY <1>s, <2>2, <3>1, <3>3
  <2>3. CASE \E b \in FreshIds : SaveAccount(b, handleNewUserAccount(v, d))
    BY <1>f, <2>3
  <2> QED BY <1>3, <2>1, <2>2, <2>3 DEF GetAccountWithAuthorizationClaims
<1>4. ASSUME NEW d \in Domains, Reclassify(d)
      PROVE  UNCHANGED storeVars
  BY <1>4 DEF Reclassify
<1> QED BY <1>1, <1>2, <1>3, <1>4
        DEF Next, vars, ExtractClaimsWithToken, GetAccountById, CheckMember,
            updateIDPMetadata, ExpireToken

-----------------------------------------------------------------------------
(* The request that a handler serves *)

HttpType == [phase : {"none", "access", "handle", "act"}, kid : 0..MaxRotations,
             write : BOOLEAN, account : Accounts \union {None}]

\* The second part of a lookup is not made for a token with an account of a
\* domain that is not private.
PcInv(c) ==
    call[c].pc \in {"domain", "idp", "idpLocked"} => call[c].private \/ call[c].account = None

\* A request that passed the middleware: its user has an account, as an
\* administrator if it writes, and the handler's lookup can only find that one.
Passed(c) ==
    /\ call[c].user \in Users
    /\ userIndex[call[c].user] \in Accounts
    /\ http[c].write => mem[userIndex[call[c].user]].users[call[c].user] = "admin"

PhaseInv(c) ==
    /\ http[c].phase \in {"handle", "act"} => Passed(c)
    /\ http[c].phase = "handle" => \/ call[c].private
                                   \/ call[c].account \in {None, userIndex[call[c].user]}
    /\ http[c].phase = "act" => http[c].account = userIndex[call[c].user]

HandlerInv == \A c \in Calls : PcInv(c) /\ PhaseInv(c)

\* What a lookup leaves of the token, and of the other requests.
LEMMA TokenKept ==
    ASSUME TypeOK, NEW c \in Calls, Lookup(c)
    PROVE  /\ call'[c].user = call[c].user
           /\ call'[c].account = call[c].account
           /\ call'[c].private = call[c].private
           /\ \A b \in Calls \ {c} : call'[b] = call[b]
<1>0. call \in [Calls -> CallType]
  BY DEF TypeOK, CallType
<1>1. CASE Return(c)
  BY <1>0, <1>1 DEF Return, Unused, CallType
<1>2. CASE Goto(c, "domain")
  BY <1>0, <1>2 DEF Goto, CallType
<1>3. ASSUME NEW l, NEW x, call' = [call EXCEPT ![c].pc = l, ![c].result = x]
      PROVE  /\ call'[c].user = call[c].user
             /\ call'[c].account = call[c].account
             /\ call'[c].private = call[c].private
             /\ \A b \in Calls \ {c} : call'[b] = call[b]
  BY <1>0, <1>3 DEF CallType
<1>4. GetOrCreateAccountByUser(c) =>
        Return(c) \/ \E l, x : call' = [call EXCEPT ![c].pc = l, ![c].result = x]
  BY DEF GetOrCreateAccountByUser, Saved
<1>5. GetAccountWithAuthorizationClaims(c) =>
        Return(c) \/ \E l, x : call' = [call EXCEPT ![c].pc = l, ![c].result = x]
  BY DEF GetAccountWithAuthorizationClaims, SavedLocked
<1>6. GetAccountById(c) \/ CheckMember(c) \/ (\E ok \in BOOLEAN : updateIDPMetadata(c, ok)) =>
        Return(c) \/ Goto(c, "domain")
  BY DEF GetAccountById, CheckMember, updateIDPMetadata
<1> QED BY <1>1, <1>2, <1>3, <1>4, <1>5, <1>6 DEF Lookup

\* A request that a step does not serve, or whose lookup goes on.
LEMMA PhaseKept ==
    ASSUME Inv, TypeOK, [Next]_vars, ~Restart, NEW c \in Calls, PhaseInv(c),
           http'[c] = http[c], call'[c].user = call[c].user,
           call'[c].account = call[c].account, call'[c].private = call[c].private
    PROVE  PhaseInv(c)'
<1>1. ASSUME Passed(c)
      PROVE  Passed(c)' /\ userIndex'[call[c].user] = userIndex[call[c].user]
  <2> DEFINE u == call[c].user
             a == userIndex[u]
  <2>1. u \in Users /\ a \in Accounts /\ a # None /\ Has(mem, a, u)
    BY <1>1, DomainAssumption DEF Passed, Inv, UserInv
  <2>2. userIndex'[u] = a
    BY <2>1, SaveKeepsHomes
  <2>3. mem'[a].users[u] = mem[a].users[u]
    BY <2>1, SaveKeepsRoles
  <2> QED BY <1>1, <2>1, <2>2, <2>3 DEF Passed
<1> QED BY <1>1 DEF PhaseInv

\* Where a lookup ends with an account, that is the account of the user, or
\* the one of a token that the request keeps.
LEMMA FoundIsHome ==
    ASSUME Inv, TypeOK, ResultInv, NEW c \in Calls, PcInv(c), NEW a, Found(c, a),
           \/ GetAccountById(c) /\ a = call[c].account
           \/ CheckMember(c) /\ a = call[c].account /\ Has(mem, a, call[c].user)
           \/ (\E ok \in BOOLEAN : updateIDPMetadata(c, ok)) /\ a = call[c].result
    PROVE  /\ call[c].user \in Users /\ a \in Accounts
           /\ UNCHANGED <<mem, userIndex>>
           /\ a = userIndex[call[c].user] \/ (~call[c].private /\ a = call[c].account)
           /\ call[c].private \/ call[c].account \in {None, a}
<1>0. call \in [Calls -> CallType]
  BY DEF TypeOK, CallType
<1>1. call[c].user \in Users
  BY DEF Inv, CallInv, GetAccountById, CheckMember, updateIDPMetadata
<1>2. UNCHANGED <<mem, userIndex>>
  BY DEF GetAccountById, CheckMember, updateIDPMetadata, storeVars
<1>3. CASE GetAccountById(c) /\ a = call[c].account
  <2>1. call[c].account \in Accounts
    BY <1>0, <1>3 DEF GetAccountById, CallType
  <2> QED BY <1>1, <1>2, <1>3, <2>1 DEF GetAccountById
<1>4. CASE CheckMember(c) /\ a = call[c].account /\ Has(mem, a, call[c].user)
  <2>1. call[c].account \in Accounts
    BY <1>0, <1>4 DEF CheckMember, CallType
  <2>2. a = userIndex[call[c].user]
    BY <1>1, <1>4, <2>1 DEF Inv, UserInv
  <2> QED BY <1>1, <1>2, <1>4, <2>1, <2>2 DEF CheckMember
<1>5. CASE (\E ok \in BOOLEAN : updateIDPMetadata(c, ok)) /\ a = call[c].result
  <2>1. call[c].pc \in {"idp", "idpLocked"}
    BY <1>5 DEF updateIDPMetadata
  <2>2. a \in Accounts /\ a = userIndex[call[c].user]
    BY <1>5, <2>1 DEF ResultInv
  <2> QED BY <1>1, <1>2, <2>1, <2>2 DEF PcInv
<1> QED BY <1>3, <1>4, <1>5

LEMMA FoundPhase ==
    ASSUME Inv, TypeOK, NEW c \in Calls, http \in [Calls -> HttpType], PhaseInv(c),
           NEW a \in Accounts, Found(c, a), UNCHANGED <<mem, userIndex>>,
           call[c].user \in Users,
           call'[c].user = call[c].user, call'[c].account = call[c].account,
           call'[c].private = call[c].private,
           a = userIndex[call[c].user] \/ (~call[c].private /\ a = call[c].account),
           call[c].private \/ call[c].account \in {None, a}
    PROVE  PhaseInv(c)'
<1> DEFINE u == call[c].user
<1>0. None # a
  BY DomainAssumption
<1>1. CASE http[c].phase = "access" /\ Has(mem, a, u) /\ (http[c].write => IsUserAdmin(a, u))
             /\ http' = [http EXCEPT ![c].phase = "handle"]
  <2>1. http'[c].phase = "handle" /\ http'[c].write = http[c].write
    BY <1>1 DEF HttpType
  <2>2. userIndex[u] = a
    BY <1>1 DEF Inv, UserInv
  <2> QED BY <1>1, <2>1, <2>2 DEF PhaseInv, Passed, IsUserAdmin
<1>2. CASE http[c].phase = "access" /\ EndRequest(c)
  <2>1. http'[c].phase = "none"
    BY <1>2 DEF EndRequest, NoRequest
  <2> QED BY <2>1 DEF PhaseInv
<1>3. CASE http[c].phase = "handle" /\ http' = [http EXCEPT ![c].phase = "act", ![c].account = a]
  <2>1. http'[c].phase = "act" /\ http'[c].write = http[c].write /\ http'[c].account = a
    BY <1>3 DEF HttpType
  <2>2. userIndex[u] = a
    BY <1>0, <1>3 DEF PhaseInv
  <2> QED BY <1>3, <2>1, <2>2 DEF PhaseInv, Passed
<1> QED BY <1>1, <1>2, <1>3 DEF Found, AccessControll

LEMMA EndPhase ==
    ASSUME NEW c \in Calls, http \in [Calls -> HttpType], EndRequest(c)
    PROVE  PhaseInv(c)' /\ \A b \in Calls \ {c} : http'[b] = http[b]
<1>1. http'[c].phase = "none" /\ \A b \in Calls \ {c} : http'[b] = http[b]
  BY DEF EndRequest, NoRequest
<1> QED BY <1>1 DEF PhaseInv

LEMMA FoundOthers ==
    ASSUME NEW c \in Calls, http \in [Calls -> HttpType], NEW a, Found(c, a)
    PROVE  \A b \in Calls \ {c} : http'[b] = http[b]
BY DEF Found, AccessControll, EndRequest

LEMMA LookupPhase ==
    ASSUME Inv, TypeOK, ResultInv, HandlerInv, http \in [Calls -> HttpType],
           NEW c \in Calls, Lookup(c)
    PROVE  PhaseInv(c)' /\ \A b \in Calls \ {c} : http'[b] = http[b]
<1> DEFINE Goal == PhaseInv(c)' /\ \A b \in Calls \ {c} : http'[b] = http[b]
<1>0. PcInv(c) /\ PhaseInv(c)
  BY DEF HandlerInv
<1>t. /\ call'[c].user = call[c].user
      /\ call'[c].account = call[c].account
      /\ call'[c].private = call[c].private
  BY TokenKept
<1>n. [Next]_vars
  BY DEF Lookup, Next
<1>f. ASSUME NEW a, Found(c, a),
             \/ GetAccountById(c) /\ a = call[c].account
             \/ CheckMember(c) /\ a = call[c].account /\ Has(mem, a, call[c].user)
             \/ (\E ok \in BOOLEAN : updateIDPMetadata(c, ok)) /\ a = call[c].result
      PROVE  Goal
  <2>1. /\ call[c].user \in Users /\ a \in Accounts
        /\ UNCHANGED <<mem, userIndex>>
        /\ a = userIndex[call[c].user] \/ (~call[c].private /\ a = call[c].account)
        /\ call[c].private \/ call[c].account \in {None, a}
    BY <1>0, <1>f, FoundIsHome
  <2>2. PhaseInv(c)'
    BY <1>0, <1>t, <1>f, <2>1, FoundPhase
  <2> QED BY <1>f, <2>2, FoundOthers
<1>e. CASE EndRequest(c)
  BY <1>e, EndPhase
<1>1. CASE GetAccountById(c) /\ FoundIf(Exists(mem, call[c].account), c, call[c].account)
  BY <1>1, <1>e, <1>f DEF FoundIf
<1>2. CASE CheckMember(c) /\ FoundIf(Has(mem, call[c].account, call[c].user), c, call[c].account)
  BY <1>2, <1>e, <1>f DEF FoundIf
<1>3. CASE \E ok \in BOOLEAN : updateIDPMetadata(c, ok) /\ FoundIf(ok, c, call[c].result)
  BY <1>3, <1>e, <1>f DEF FoundIf
<1>4. CASE /\ CheckMember(c) \/ GetOrCreateAccountByUser(c) \/ GetAccountWithAuthorizationClaims(c)
           /\ UNCHANGED http /\ call'[c].pc # "start"
  <2>1. ~Restart
    <3> SUFFICES ASSUME Restart PROVE FALSE
      OBVIOUS
    <3>1. call[c].pc # "rest" /\ call \in [Calls -> CallType]
      BY <1>4 DEF CheckMember, GetOrCreateAccountByUser, GetAccountWithAuthorizationClaims,
                  TypeOK, CallType
    <3>2. call'[c] = Unused(call[c])
      BY <3>1 DEF Restart
    <3> QED BY <1>4, <3>1, <3>2 DEF Unused, CallType
  <2> QED BY <1>0, <1>t, <1>n, <1>4, <2>1, PhaseKept
<1> QED BY <1>1, <1>2, <1>3, <1>4, <1>e DEF Lookup

LEMMA SavesAreNoRestart ==
    ASSUME TypeOK, NEW c \in Calls,
           GetOrCreateAccountByUser(c) \/ GetAccountWithAuthorizationClaims(c)
    PROVE  ~Restart
<1> SUFFICES ASSUME Restart PROVE FALSE
  OBVIOUS
<1>0. call \in [Calls -> CallType] /\ call[c].pc # "rest"
  BY DEF TypeOK, CallType, GetOrCreateAccountByUser, GetAccountWithAuthorizationClaims
<1>1. call'[c].pc = "start" /\ dirty' = FALSE
  BY <1>0 DEF Restart, Unused, CallType
<1>2. \/ PersistFails
      \/ \E l \in {"idp", "idpLocked"} : \E x :
            call' = [call EXCEPT ![c].pc = l, ![c].result = x]
  BY DEF GetOrCreateAccountByUser, GetAccountWithAuthorizationClaims, Saved, SavedLocked
<1>3. CASE PersistFails
  BY <1>1, <1>3 DEF PersistFails
<1>4. ASSUME NEW l \in {"idp", "idpLocked"}, NEW x,
             call' = [call EXCEPT ![c].pc = l, ![c].result = x]
      PROVE  FALSE
  <2>1. call'[c].pc = l
    BY <1>0, <1>4 DEF CallType
  <2> QED BY <1>1, <2>1
<1> QED BY <1>2, <1>3, <1>4

LEMMA LookupPc ==
    ASSUME TypeOK, HandlerInv, NEW c \in Calls, Lookup(c)
    PROVE  PcInv(c)'
<1>0. call \in [Calls -> CallType]
  BY DEF TypeOK, CallType
<1>t. call'[c].account = call[c].account /\ call'[c].private = call[c].private
  BY TokenKept
<1>1. CASE call'[c].pc = "start"
  BY <1>1 DEF PcInv
<1>r. CASE Return(c)
  BY <1>0, <1>1, <1>r DEF Return, Unused, CallType
<1>2. CASE call[c].private \/ call[c].account = None
  BY <1>2, <1>t DEF PcInv
<1>3. GetAccountById(c) \/ (\E ok \in BOOLEAN : updateIDPMetadata(c, ok)) => Return(c)
  BY DEF GetAccountById, updateIDPMetadata
<1>4. CheckMember(c) \/ GetOrCreateAccountByUser(c) => call[c].private \/ call[c].account = None
  BY DEF CheckMember, GetOrCreateAccountByUser
<1>5. GetAccountWithAuthorizationClaims(c) => call[c].private \/ call[c].account = None
  BY DEF GetAccountWithAuthorizationClaims, HandlerInv, PcInv
<1> QED BY <1>r, <1>2, <1>3, <1>4, <1>5 DEF Lookup

\* Nothing of request c and of the store changes.
LEMMA RequestUnchanged ==
    ASSUME NEW c \in Calls, PcInv(c), PhaseInv(c), call'[c] = call[c], http'[c] = http[c],
           UNCHANGED <<mem, userIndex>>
    PROVE  PcInv(c)' /\ PhaseInv(c)'
BY DEF PcInv, PhaseInv, Passed

LEMMA LookupStep ==
    ASSUME Inv, TypeOK, ResultInv, HandlerInv, http \in [Calls -> HttpType],
           NEW c \in Calls, Lookup(c)
    PROVE  HandlerInv'
<1>1. PcInv(c)' /\ PhaseInv(c)' /\ \A b \in Calls \ {c} : http'[b] = http[b] /\ call'[b] = call[b]
  BY LookupPc, LookupPhase, TokenKept
<1>2. ASSUME NEW b \in Calls \ {c}
      PROVE  PcInv(b)' /\ PhaseInv(b)'
  <2>1. PcInv(b) /\ PhaseInv(b) /\ call'[b] = call[b] /\ http'[b] = http[b]
    BY <1>1 DEF HandlerInv
  <2>2. CASE UNCHANGED storeVars
    BY <2>1, <2>2, RequestUnchanged DEF storeVars
  <2>3. CASE ~Restart
    <3>1. [Next]_vars
      BY DEF Lookup, Next
    <3>2. PhaseInv(b)'
      BY <2>1, <2>3, <3>1, PhaseKept
    <3> QED BY <2>1, <3>2 DEF PcInv
  <2>4. UNCHANGED storeVars \/ GetOrCreateAccountByUser(c) \/ GetAccountWithAuthorizationClaims(c)
    BY DEF Lookup, GetAccountById, CheckMember, updateIDPMetadata
  <2> QED BY <2>2, <2>3, <2>4, SavesAreNoRestart
<1> QED BY <1>1, <1>2 DEF HandlerInv

LEMMA HandlerStep ==
    ASSUME Inv, TypeOK, ResultInv, HandlerInv, http \in [Calls -> HttpType], [ApiNext]_allVars
    PROVE  HandlerInv'
<1>a. ASSUME NEW c \in Calls, PcInv(c)', PhaseInv(c)', UNCHANGED <<mem, userIndex>>,
             \A b \in Calls \ {c} : call'[b] = call[b] /\ http'[b] = http[b]
      PROVE  HandlerInv'
  <2> SUFFICES ASSUME NEW b \in Calls PROVE PcInv(b)' /\ PhaseInv(b)'
    BY DEF HandlerInv
  <2> QED BY <1>a, RequestUnchanged DEF HandlerInv
<1>b. CASE UNCHANGED <<mem, userIndex, call, http>>
  BY <1>b, RequestUnchanged DEF HandlerInv
<1>0. call \in [Calls -> CallType]
  BY DEF TypeOK, CallType
<1>1. ASSUME NEW c \in Calls, NEW u \in Users, NEW d \in Domains, IssueToken(c, u, d)
      PROVE  HandlerInv'
  <2>1. /\ call'[c].pc = "start" /\ http'[c].phase = "none"
        /\ \A b \in Calls \ {c} : call'[b] = call[b] /\ http'[b] = http[b]
        /\ UNCHANGED <<mem, userIndex>>
    BY <1>0, <1>1 DEF IssueToken, ExtractClaimsWithToken, NoRequest, storeVars
  <2>2. PcInv(c)' /\ PhaseInv(c)'
    BY <2>1 DEF PcInv, PhaseInv
  <2> QED BY <1>a, <2>1, <2>2
<1>2. ASSUME NEW c \in Calls, NEW write \in BOOLEAN, CheckJWTFromRequest(c, write)
      PROVE  HandlerInv'
  <2>1. /\ call' = call /\ http'[c].phase = "access"
        /\ \A b \in Calls \ {c} : http'[b] = http[b]
        /\ UNCHANGED <<mem, userIndex>>
    BY <1>2 DEF CheckJWTFromRequest, vars, storeVars
  <2>2. PcInv(c)' /\ PhaseInv(c)'
    BY <2>1 DEF PcInv, PhaseInv, HandlerInv
  <2> QED BY <1>a, <2>1, <2>2
<1>3. ASSUME NEW c \in Calls, Answer(c)
      PROVE  HandlerInv'
  <2>1. call' = call /\ UNCHANGED <<mem, userIndex>>
    BY <1>3 DEF Answer, vars, storeVars
  <2>2. PhaseInv(c)' /\ \A b \in Calls \ {c} : http'[b] = http[b]
    BY <1>3, EndPhase DEF Answer
  <2>3. PcInv(c)'
    BY <2>1 DEF PcInv, HandlerInv
  <2> QED BY <1>a, <2>1, <2>2, <2>3
<1>4. ASSUME NEW d \in Domains, Reclassify(d) /\ UNCHANGED apiVars
      PROVE  HandlerInv'
  BY <1>4, <1>b DEF Reclassify, storeVars, apiVars
<1>5. CASE ExpireToken /\ UNCHANGED apiVars
  BY <1>5, <1>b DEF ExpireToken, storeVars, apiVars
<1>6. CASE Rotate
  BY <1>6, <1>b DEF Rotate, vars, storeVars
<1>7. CASE Start
  <2>1. \A c \in Calls : http'[c].phase = "none" /\ call'[c].pc \in {"rest", "start"}
    BY <1>0, <1>7 DEF Start, Restart, NoRequest, NoCall, Unused, CallType
  <2> QED BY <2>1 DEF HandlerInv, PcInv, PhaseInv
<1>8. CASE UNCHANGED allVars
  BY <1>8, <1>b DEF allVars, vars, storeVars, apiVars
<1> QED BY <1>1, <1>2, <1>3, <1>4, <1>5, <1>6, <1>7, <1>8, LookupStep DEF ApiNext

LEMMA HttpStep ==
    ASSUME TypeOK, ResultInv, http \in [Calls -> HttpType], kid \in 0..MaxRotations,
           jwks \in 0..MaxRotations, [ApiNext]_allVars
    PROVE  /\ http' \in [Calls -> HttpType]
           /\ kid' \in 0..MaxRotations /\ jwks' \in 0..MaxRotations
<1>0. call \in [Calls -> CallType]
  BY DEF TypeOK, CallType
<1>a. \A k \in 0..MaxRotations : NoRequest(k) \in HttpType
  BY DEF NoRequest, HttpType
<1>b. ASSUME NEW c \in Calls PROVE http[c].kid \in 0..MaxRotations
  BY DEF HttpType
<1>e. ASSUME NEW c \in Calls, EndRequest(c) PROVE http' \in [Calls -> HttpType]
  BY <1>a, <1>b, <1>e DEF EndRequest
<1>f. ASSUME NEW c \in Calls, NEW a \in Accounts \union {None}, Found(c, a)
      PROVE  http' \in [Calls -> HttpType]
  <2>1. CASE http' = [http EXCEPT ![c].phase = "handle"]
    BY <2>1 DEF HttpType
  <2>2. CASE http' = [http EXCEPT ![c].phase = "act", ![c].account = a]
    BY <2>2 DEF HttpType
  <2> QED BY <1>e, <1>f, <2>1, <2>2 DEF Found, AccessControll
<1>1. ASSUME NEW c \in Calls, NEW u \in Users, NEW d \in Domains, IssueToken(c, u, d)
      PROVE  http' \in [Calls -> HttpType] /\ UNCHANGED <<kid, jwks>>
  BY <1>1, <1>a DEF IssueToken
<1>2. ASSUME NEW c \in Calls, NEW write \in BOOLEAN, CheckJWTFromRequest(c, write)
      PROVE  http' \in [Calls -> HttpType] /\ UNCHANGED <<kid, jwks>>
  <2>1. [phase |-> "access", kid |-> http[c].kid, write |-> write, account |-> None] \in HttpType
    BY <1>b DEF HttpType
  <2> QED BY <1>2, <2>1 DEF CheckJWTFromRequest
<1>3. ASSUME NEW c \in Calls, Answer(c)
      PROVE  http' \in [Calls -> HttpType] /\ UNCHANGED <<kid, jwks>>
  BY <1>3, <1>e DEF Answer
<1>4. ASSUME NEW c \in Calls, Lookup(c)
      PROVE  http' \in [Calls -> HttpType] /\ UNCHANGED <<kid, jwks>>
  <2>1. call[c].account \in Accounts \union {None} /\ call[c].result \in Accounts \union {None}
    BY <1>0 DEF CallType
  <2>2. UNCHANGED http \/ EndRequest(c) \/ Found(c, call[c].account) \/ Found(c, call[c].result)
    BY <1>4 DEF Lookup, FoundIf
  <2> QED BY <1>4, <1>e, <1>f, <2>1, <2>2 DEF Lookup
<1>5. CASE Rotate
  BY <1>5, RotationAssumption DEF Rotate
<1>6. CASE Start
  BY <1>6, <1>a, <1>b DEF Start, getPemKeys
<1>7. CASE UNCHANGED apiVars
  BY <1>7 DEF apiVars
<1> QED BY <1>1, <1>2, <1>3, <1>4, <1>5, <1>6, <1>7 DEF ApiNext, allVars

ApiInv ==
    /\ Inv /\ TypeOK /\ MetaInv /\ HandlerInv
    /\ http \in [Calls -> HttpType] /\ kid \in 0..MaxRotations /\ jwks \in 0..MaxRotations

LEMMA ApiInvHolds == ApiSpec => []ApiInv
<1>1. ApiInit => ApiInv
  <2> SUFFICES ASSUME ApiInit PROVE ApiInv
    OBVIOUS
  <2>1. Inv /\ TypeOK /\ MetaInv
    BY InvInit DEF ApiInit, Init, MetaInv, ResultInv, NoCall
  <2>2. HandlerInv
    BY DEF ApiInit, Init, NoCall, NoRequest, HandlerInv, PcInv, PhaseInv
  <2>3. http \in [Calls -> HttpType] /\ kid \in 0..MaxRotations /\ jwks \in 0..MaxRotations
    BY RotationAssumption DEF ApiInit, NoRequest, HttpType, getPemKeys
  <2> QED BY <2>1, <2>2, <2>3 DEF ApiInv
<1>2. ApiInv /\ [ApiNext]_allVars => ApiInv'
  <2> SUFFICES ASSUME ApiInv, [ApiNext]_allVars PROVE ApiInv'
    OBVIOUS
  <2>1. [Next]_vars
    BY ApiStepIsStep
  <2>2. (Inv /\ TypeOK)' /\ MetaInv'
    BY <2>1, InvStep, MetaStep DEF ApiInv
  <2>3. HandlerInv'
    BY HandlerStep DEF ApiInv, MetaInv
  <2> QED BY <2>2, <2>3, HttpStep DEF ApiInv, MetaInv
<1> QED BY <1>1, <1>2, PTL DEF ApiSpec

\* Accounts, tokens, keys and requests stay well formed.
THEOREM ApiTypeCorrect == ApiSpec => []ApiTypeOK
<1>1. ApiInv => ApiTypeOK
  BY DEF ApiInv, ApiTypeOK, HttpType
<1> QED BY <1>1, ApiInvHolds, PTL

\* A handler works on the account the middleware checked, whatever happens
\* between the two lookups: the user is in it, as an administrator if the
\* request writes.
THEOREM HandlersAreAllowed == ApiSpec => []HandlerIsAllowed
<1>1. ApiInv => HandlerIsAllowed
  <2> SUFFICES ASSUME ApiInv, NEW c \in Calls, http[c].phase = "act"
               PROVE  /\ Has(mem, http[c].account, call[c].user)
                      /\ http[c].write => mem[http[c].account].users[call[c].user] = "admin"
    BY DEF HandlerIsAllowed
  <2>1. Passed(c) /\ http[c].account = userIndex[call[c].user]
    BY DEF ApiInv, HandlerInv, PhaseInv
  <2> QED BY <2>1 DEF Passed, ApiInv, Inv, UserInv
<1> QED BY <1>1, ApiInvHolds, PTL
=============================================================================
