------------------------------ MODULE HttpApi ------------------------------
(***************************************************************************)
(* The HTTP API of the management service (management/server/http): every  *)
(* request passes the JWT middleware and the access control before its     *)
(* handler runs.  The access control and the handler each look up the      *)
(* account of the same claims (DomainAccounts), one after the other, with  *)
(* the lookups of other requests, reclassified domains, failed writes and  *)
(* new tokens in between.  What the handlers then do with the account is   *)
(* in AccountStore and AccessRules.                                        *)
(***************************************************************************)
EXTENDS DomainAccounts

CONSTANT MaxRotations     \* bound on the provider's signing keys

ASSUME RotationAssumption == MaxRotations \in Nat

VARIABLES
    http,       \* request -> how far it is, and what it is about
    kid,        \* the key the provider signs with
    jwks        \* the keys the process fetched when it started

apiVars == <<http, kid, jwks>>
allVars == <<vars, apiVars>>

\* A token, by the key it is signed with, that is not being used.
NoRequest(k) == [phase |-> "none", kid |-> k, write |-> FALSE, account |-> None]

\* getPemKeys: the keys the provider publishes, of which only the newest
\* matters here.
getPemKeys == kid

ApiInit ==
    /\ Init
    /\ http = [c \in Calls |-> NoRequest(0)]
    /\ kid = 0
    /\ jwks = getPemKeys

EndRequest(c) == http' = [http EXCEPT ![c] = NoRequest(http[c].kid)]

-----------------------------------------------------------------------------
(* Keys and tokens *)

Rotate ==
    /\ kid < MaxRotations
    /\ kid' = kid + 1
    /\ UNCHANGED <<vars, http, jwks>>

IssueToken(c, u, d) ==
    /\ http[c].phase = "none"
    /\ ExtractClaimsWithToken(c, u, d)
    /\ http' = [http EXCEPT ![c] = NoRequest(kid)]
    /\ UNCHANGED <<kid, jwks>>

\* The process starts again, which is when the keys are fetched.
Start ==
    /\ Restart
    /\ http' = [c \in Calls |-> NoRequest(http[c].kid)]
    /\ jwks' = getPemKeys
    /\ UNCHANGED kid

\* getPemCert: a token signed with a key that was not fetched is refused.
getPemCert(c) == http[c].kid = jwks

\* FromAuthHeader: there is a token to show.
FromAuthHeader(c) == call[c].pc = "start"

\* CheckJWTFromRequest lets a request pass whose token is signed with one of
\* the keys; write is what its method says.
CheckJWTFromRequest(c, write) ==
    /\ http[c].phase = "none"
    /\ FromAuthHeader(c)
    /\ getPemCert(c)
    /\ http' = [http EXCEPT ![c] = [phase |-> "access", kid |-> http[c].kid,
                                    write |-> write, account |-> None]]
    /\ UNCHANGED <<vars, kid, jwks>>

-----------------------------------------------------------------------------
(* Requests *)

\* Mutant: the roles are not told apart.
IsUserAdminAny(a, u) == Has(mem, a, u)

\* The role of a user of the account that was found.
IsUserAdmin(a, u) == mem[a].users[u] = "admin"

\* The middleware passes requests that write from administrators only, and
\* none of a user the account does not have.
AccessControll(c, a) ==
    LET u == call[c].user IN
    IF Has(mem, a, u) /\ (http[c].write => IsUserAdmin(a, u))
    THEN http' = [http EXCEPT ![c].phase = "handle"]
    ELSE EndRequest(c)

\* The lookup gave account a: to the middleware, or to the handler, which does
\* its work on it.
Found(c, a) ==
    \/ http[c].phase = "access" /\ AccessControll(c, a)
    \/ /\ http[c].phase = "handle"
       /\ http' = [http EXCEPT ![c].phase = "act", ![c].account = a]

FoundIf(found, c, a) == IF found THEN Found(c, a) ELSE EndRequest(c)

\* A step of the lookup, of IsUserAdmin and then of the handler
\* (getPeerAccount, getSetupKeyAccount, getAccountId).
Lookup(c) ==
    /\ http[c].phase \in {"access", "handle"}
    /\ LET a == call[c].account
           returns == call'[c].pc = "start"
       IN  \/ GetAccountById(c) /\ FoundIf(Exists(mem, a), c, a)
           \/ CheckMember(c) /\ returns /\ FoundIf(Has(mem, a, call[c].user), c, a)
           \/ /\ GetOrCreateAccountByUser(c) \/ GetAccountWithAuthorizationClaims(c)
              /\ returns /\ EndRequest(c)
           \/ /\ CheckMember(c) \/ GetOrCreateAccountByUser(c) \/ GetAccountWithAuthorizationClaims(c)
              /\ ~returns /\ UNCHANGED http
           \/ \E ok \in BOOLEAN : updateIDPMetadata(c, ok) /\ FoundIf(ok, c, call[c].result)
    /\ UNCHANGED <<kid, jwks>>

\* The handler has done its work and answers.
Answer(c) ==
    /\ http[c].phase = "act"
    /\ EndRequest(c)
    /\ UNCHANGED <<vars, kid, jwks>>

-----------------------------------------------------------------------------

ApiNext ==
    \/ \E c \in Calls :
          \/ \E u \in Users, d \in Domains : IssueToken(c, u, d)
          \/ \E write \in BOOLEAN : CheckJWTFromRequest(c, write)
          \/ Lookup(c)
          \/ Answer(c)
    \/ \E d \in Domains : Reclassify(d) /\ UNCHANGED apiVars
    \/ ExpireToken /\ UNCHANGED apiVars
    \/ Rotate
    \/ Start

ApiSpec == ApiInit /\ [][ApiNext]_allVars

-----------------------------------------------------------------------------
(* Properties *)

\* The type of every variable; the category of an account is private or empty
\* (account.go:362-376, 575-599).
ApiTypeOK ==
    /\ TypeOK
    /\ http \in [Calls -> [phase : {"none", "access", "handle", "act"}, kid : 0..MaxRotations,
                           write : BOOLEAN, account : Accounts \union {None}]]
    /\ kid \in 0..MaxRotations
    /\ jwks \in 0..MaxRotations

\* The account a handler works on has the user of the request, as an
\* administrator when the request writes: the account that the middleware
\* checked, looked up a second time (access_control.go:33, peers.go:75).
HandlerIsAllowed ==
    \A c \in Calls : http[c].phase = "act" =>
        /\ Has(mem, http[c].account, call[c].user)
        /\ http[c].write => mem[http[c].account].users[call[c].user] = "admin"

\* am.mux is held beyond one step only by a request that is in its call of the
\* provider, which has a timeout: an error on the way there does not leave the
\* lookups of all requests waiting (account.go:404, 487, idp/auth0.go:61).
MutexIsReleased == \A c \in Calls : locked = c <=> call[c].pc = "idpLocked"
=============================================================================
