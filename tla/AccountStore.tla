---------------------------- MODULE AccountStore ----------------------------
(***************************************************************************)
(* Registration of peers with setup keys and its durability: the account   *)
(* manager's AddPeer, DeletePeer, RenamePeer, setup key operations and the *)
(* calls that save a peer (management/server/account.go, peer.go,          *)
(* setupkey.go), as the gRPC server's Login and the HTTP handlers of peers *)
(* and setup keys make them, over the file store (file_store.go), whose    *)
(* writes may fail and whose process may crash and start again from the    *)
(* file at any time.                                                       *)
(*                                                                         *)
(* Every operation changes the accounts in memory and the indexes first    *)
(* and then writes all accounts to the file, which replaces the old one    *)
(* atomically (util/file.go).  When the write fails the caller gets an     *)
(* error and the memory stays changed.  Operations exclude each other by   *)
(* the account manager's mutex.                                            *)
(***************************************************************************)
EXTENDS Naturals, FiniteSets

CONSTANTS
    Accounts,
    Peers,          \* WireGuard public keys
    Keys,           \* setup keys
    OneOff,         \* the ones that are SetupKeyOneOff
    Logins,         \* server threads that run a Login call
    Requests,       \* server threads that run an HTTP request
    None,
    MaxSerial,      \* bound on the changes of one account's network
    MaxFailures,    \* bound on failing writes
    MaxInvalid      \* bound on expired and revoked keys

ASSUME StoreAssumption ==
    /\ OneOff \subseteq Keys
    /\ None \notin Keys \cup Peers \cup Accounts
    /\ None \notin [account : Accounts, key : Keys]
    /\ MaxSerial \in Nat
    /\ MaxFailures \in Nat
    /\ MaxInvalid \in Nat

VARIABLES
    mem,         \* FileStore.Accounts
    file,        \* the accounts in store.json
    keyIndex,    \* SetupKeyId2AccountId
    peerIndex,   \* PeerKeyId2AccountId
    expired,     \* the keys whose ExpiresAt has passed
    login,       \* Login thread -> the registration it is about to make
    request,     \* HTTP thread -> the peer it looked up, the key it revoked
    deleting,    \* the DeletePeer between its two writes, or None
    failures,    \* number of failed writes
    acked,       \* history: <<account, peer>> the service confirmed
    granted,     \* history: <<one-off key, peer>> confirmed registrations
    barred,      \* history: <<account, key>> confirmed revocations
    seen,        \* history: account -> highest serial given to a client
    dirty,       \* history: the last write failed
    unsaved,     \* history: the confirmations since then of what is not written
    lost         \* history: a crash lost what a failed write did not save

historyVars == <<acked, granted, barred, seen>>
threadVars == <<login, request>>
vars == <<mem, file, keyIndex, peerIndex, expired, threadVars, deleting,
          failures, historyVars, dirty, unsaved, lost>>

-----------------------------------------------------------------------------
(* Accounts: setup keys, used and revoked ones, the key each peer was        *)
(* registered with, and the network's serial.                                *)

NoAccount == [keys |-> {}, used |-> {}, revoked |-> {},
              peers |-> [p \in Peers |-> None], serial |-> 0]

Exists(a) == mem[a].keys # {}

Has(acc, p) == acc.peers[p] # None

\* The account the store would hand out for p's key.
PeerAccount(p) == peerIndex[p]

\* ... and for a setup key.
GetAccountBySetupKey(k) == keyIndex[k]

Init ==
    /\ mem = [a \in Accounts |-> NoAccount]
    /\ file = mem
    /\ keyIndex = [k \in Keys |-> None]
    /\ peerIndex = [p \in Peers |-> None]
    /\ expired = {}
    /\ login = [l \in Logins |-> None]
    /\ request = [r \in Requests |-> None]
    /\ deleting = None
    /\ failures = 0
    /\ acked = {}
    /\ granted = {}
    /\ barred = {}
    /\ seen = [a \in Accounts |-> 0]
    /\ dirty = FALSE
    /\ unsaved = {}
    /\ lost = FALSE

amMuxFree == deleting = None

-----------------------------------------------------------------------------
(* The file store *)

\* persist: the new contents of the memory are in the file, or an error.
PersistOk ==
    /\ file' = mem'
    /\ dirty' = FALSE
    /\ unsaved' = {}
    /\ UNCHANGED failures

PersistFails ==
    /\ failures < MaxFailures
    /\ failures' = failures + 1
    /\ dirty' = TRUE
    /\ UNCHANGED <<file, unsaved>>

\* SaveAccount of acc as account a, up to its persist: the indexes learn the
\* account's keys and peers.
SaveAccount(a, acc) ==
    /\ mem' = [mem EXCEPT ![a] = acc]
    /\ keyIndex' = [k \in Keys |-> IF k \in acc.keys THEN a ELSE keyIndex[k]]
    /\ peerIndex' = [p \in Peers |-> IF Has(acc, p) THEN a ELSE peerIndex[p]]

\* restore and BuildManager: the indexes are built from the file; of a peer
\* that is in two accounts the one that comes last in a Go map counts.  What
\* was confirmed without being written is forgotten.
Restart ==
    /\ mem' = file
    /\ keyIndex' = [k \in Keys |->
                      IF \E a \in Accounts : k \in file[a].keys
                      THEN CHOOSE a \in Accounts : k \in file[a].keys
                      ELSE None]
    /\ peerIndex' \in [Peers -> Accounts \cup {None}]
    /\ \A p \in Peers :
          IF \E a \in Accounts : Has(file[a], p)
          THEN peerIndex'[p] # None /\ Has(file[peerIndex'[p]], p)
          ELSE peerIndex'[p] = None
    /\ login' = [l \in Logins |-> None]
    /\ request' = [r \in Requests |-> None]
    /\ deleting' = None
    /\ lost' = (lost \/ dirty)
    /\ dirty' = FALSE
    /\ acked' = acked \ unsaved
    /\ granted' = granted \ unsaved
    /\ unsaved' = {}
    /\ UNCHANGED <<file, expired, failures, barred, seen>>

-----------------------------------------------------------------------------
(* Accounts and setup keys *)

\* Keys are UUIDs: a new one is none of those that are known.
UnusedKeys == {k \in Keys \ expired : \A a \in Accounts :
                   k \notin mem[a].keys /\ k \notin file[a].keys}

\* createAccount: an account starts with a reusable and a one-off key.
CreateAccount(a, reusable, oneOff) ==
    /\ amMuxFree
    /\ mem[a] = NoAccount /\ file[a] = NoAccount
    /\ reusable \in UnusedKeys \ OneOff
    /\ oneOff \in UnusedKeys \cap OneOff
    /\ SaveAccount(a, [NoAccount EXCEPT !.keys = {reusable, oneOff}])
    /\ PersistOk \/ PersistFails
    /\ UNCHANGED <<expired, threadVars, deleting, historyVars, lost>>

AddSetupKey(a, k) ==
    /\ amMuxFree
    /\ Exists(a)
    /\ k \in UnusedKeys
    /\ SaveAccount(a, [mem[a] EXCEPT !.keys = mem[a].keys \cup {k}])
    /\ PersistOk \/ PersistFails
    /\ UNCHANGED <<expired, threadVars, deleting, historyVars, lost>>

Revoked == UNION {mem[a].revoked : a \in Accounts}

\* What a thread of HandlePeer or updateKey keeps between its calls.
PeerRequests == [account : Accounts, peer : Peers]
KeyRequests == [account : Accounts, key : Keys]

EndRequest(r) == request' = [request EXCEPT ![r] = None]

\* Mutant: the revocation is confirmed although the write failed.
ConfirmRevocationAnyway(a, k) ==
    /\ PersistOk \/ PersistFails
    /\ barred' = barred \cup {<<a, k>>}

\* The last call of updateKey: the revocation of k is confirmed if its write
\* succeeds.
ConfirmRevocation(a, k) ==
    \/ PersistOk /\ barred' = barred \cup {<<a, k>>}
    \/ PersistFails /\ UNCHANGED barred

\* updateKey with Revoked set: RevokeSetupKey, after which the key may have
\* to be renamed, too.
RevokeSetupKey(r, a, k) ==
    /\ amMuxFree
    /\ request[r] = None
    /\ k \in mem[a].keys
    /\ k \in mem[a].revoked \/ Cardinality(Revoked \cup expired) < MaxInvalid
    /\ SaveAccount(a, [mem[a] EXCEPT !.revoked = mem[a].revoked \cup {k}])
    /\ \/ ConfirmRevocation(a, k) /\ UNCHANGED request
       \/ /\ PersistOk
          /\ request' = [request EXCEPT ![r] = [account |-> a, key |-> k]]
          /\ UNCHANGED barred
    /\ UNCHANGED <<expired, login, deleting, acked, granted, seen, lost>>

\* The second call of such an updateKey: RenameSetupKey saves the account.
RenameRevokedKey(r) ==
    /\ amMuxFree
    /\ request[r] \in KeyRequests
    /\ SaveAccount(request[r].account, mem[request[r].account])
    /\ ConfirmRevocation(request[r].account, request[r].key)
    /\ EndRequest(r)
    /\ UNCHANGED <<expired, login, deleting, acked, granted, seen, lost>>

\* updateKey without Revoked: only a name, in an account that is saved.
RenameSetupKey(a) ==
    /\ amMuxFree
    /\ Exists(a)
    /\ SaveAccount(a, mem[a])
    /\ PersistOk \/ PersistFails
    /\ UNCHANGED <<expired, threadVars, deleting, historyVars, lost>>

\* Time passes: ExpiresAt of k is over.
Expire(k) ==
    /\ GetAccountBySetupKey(k) # None
    /\ Cardinality(Revoked \cup expired) < MaxInvalid
    /\ expired' = expired \cup {k}
    /\ UNCHANGED <<mem, file, keyIndex, peerIndex, threadVars, deleting,
                   failures, historyVars, dirty, unsaved, lost>>

\* Mutant: the key is taken as unused once its peer is deleted.
IsOverUsedByPeer(acc, k) == k \in OneOff /\ \E p \in Peers : acc.peers[p] = k

IsOverUsed(acc, k) == k \in OneOff /\ k \in acc.used

IsValid(acc, k) ==
    /\ k \notin acc.revoked
    /\ k \notin expired
    /\ ~IsOverUsed(acc, k)

-----------------------------------------------------------------------------
(* Login: of an unknown peer, two steps under the mutex *)

\* Peers log in with keys that were issued; a restart may forget them since.
LoginGetPeer(l, p, k) ==
    /\ amMuxFree
    /\ login[l] = None
    /\ ~(PeerAccount(p) # None /\ Has(mem[PeerAccount(p)], p))
    /\ GetAccountBySetupKey(k) # None
    /\ login' = [login EXCEPT ![l] = [peer |-> p, key |-> k]]
    /\ UNCHANGED <<mem, file, keyIndex, peerIndex, expired, request, deleting,
                   failures, historyVars, dirty, unsaved, lost>>

\* AddPeer refuses a key it does not know or that is not valid.
AddPeerRefused(l) ==
    /\ amMuxFree
    /\ login[l] # None
    /\ LET k == login[l].key
           a == GetAccountBySetupKey(k)
       IN  ~(a # None /\ k \in mem[a].keys /\ IsValid(mem[a], k))
    /\ login' = [login EXCEPT ![l] = None]
    /\ UNCHANGED <<mem, file, keyIndex, peerIndex, expired, request, deleting,
                   failures, historyVars, dirty, unsaved, lost>>

\* The account with peer p registered by key k, whose usage is counted.
WithPeer(acc, p, k) ==
    [acc EXCEPT !.peers = [acc.peers EXCEPT ![p] = k],
                !.used = acc.used \cup {k},
                !.serial = acc.serial + 1]

\* What the one-off keys among k have been confirmed for, with peer p.
Grant(k, p) == {<<k, p>>} \cap (OneOff \X Peers)

\* Mutant: a failed write is not reported.
RegistrationIgnoresError(a, p, k) ==
    /\ PersistOk \/ PersistFails
    /\ acked' = acked \cup {<<a, p>>}
    /\ granted' = granted \cup Grant(k, p)

\* The end of a call that saves peer p: confirmed if the write succeeds.
Registration(a, p, k) ==
    \/ /\ PersistOk
       /\ acked' = acked \cup {<<a, p>>}
       /\ granted' = granted \cup Grant(k, p)
    \/ PersistFails /\ UNCHANGED <<acked, granted>>

\* Mutant: the serial is incremented after the account was saved.
AddPeerSerialNotSaved(l) ==
    /\ amMuxFree
    /\ login[l] # None
    /\ LET p == login[l].peer
           k == login[l].key
           a == GetAccountBySetupKey(k)
           acc == [WithPeer(mem[a], p, k) EXCEPT !.serial = mem[a].serial]
       IN  /\ a # None
           /\ k \in mem[a].keys
           /\ IsValid(mem[a], k)
           /\ mem[a].serial < MaxSerial
           /\ SaveAccount(a, WithPeer(mem[a], p, k))
           /\ file' = [mem EXCEPT ![a] = acc] /\ dirty' = FALSE /\ unsaved' = {}
           /\ UNCHANGED failures
           /\ acked' = acked \cup {<<a, p>>}
           /\ granted' = granted \cup Grant(k, p)
    /\ login' = [login EXCEPT ![l] = None]
    /\ UNCHANGED <<expired, request, deleting, barred, seen, lost>>

\* AddPeer with a valid key, over an entry another Login may have made.
AddPeer(l) ==
    /\ amMuxFree
    /\ login[l] # None
    /\ LET p == login[l].peer
           k == login[l].key
           a == GetAccountBySetupKey(k)
       IN  /\ a # None
           /\ k \in mem[a].keys
           /\ IsValid(mem[a], k)
           /\ mem[a].serial < MaxSerial
           /\ SaveAccount(a, WithPeer(mem[a], p, k))
           /\ Registration(a, p, k)
    /\ login' = [login EXCEPT ![l] = None]
    /\ UNCHANGED <<expired, request, deleting, barred, seen, lost>>

\* A Login of a known peer that brings meta data (UpdatePeerMeta) and
\* MarkPeerConnected end in SavePeer, which writes the whole store.
SavePeer(p) ==
    /\ amMuxFree
    /\ PeerAccount(p) # None
    /\ Has(mem[PeerAccount(p)], p)
    /\ UNCHANGED mem
    /\ Registration(PeerAccount(p), p, mem[PeerAccount(p)].peers[p])
    /\ UNCHANGED <<keyIndex, peerIndex, expired, threadVars, deleting, barred,
                   seen, lost>>

\* A Login of a known peer that brings none is confirmed as it is: nothing is
\* written, although a call that failed may have left the peer in memory.
LoginKnownPeer(p) ==
    /\ amMuxFree
    /\ PeerAccount(p) # None
    /\ Has(mem[PeerAccount(p)], p)
    /\ LET a == PeerAccount(p)
           k == mem[a].peers[p]
       IN  /\ acked' = acked \cup {<<a, p>>}
           /\ granted' = granted \cup Grant(k, p)
           /\ unsaved' = IF dirty
                         THEN unsaved \cup ({<<a, p>>} \ acked) \cup (Grant(k, p) \ granted)
                         ELSE unsaved
    /\ UNCHANGED <<mem, file, keyIndex, peerIndex, expired, threadVars, deleting,
                   failures, barred, seen, dirty, lost>>

\* GetNetworkMap: a client of account a learns the serial.
GetNetworkMap(p) ==
    /\ amMuxFree
    /\ PeerAccount(p) # None
    /\ LET a == PeerAccount(p) IN
       seen' = [seen EXCEPT ![a] = IF mem[a].serial > @ THEN mem[a].serial ELSE @]
    /\ UNCHANGED <<mem, file, keyIndex, peerIndex, expired, threadVars, deleting,
                   failures, acked, granted, barred, dirty, unsaved,
                   lost>>

-----------------------------------------------------------------------------
(* HandlePeer: a lookup under the mutex, then a call for the peer it found.  *)

\* GetPeerByIP of p in the account of the caller.
HandlePeer(r, a, p) ==
    /\ amMuxFree
    /\ request[r] = None
    /\ Has(mem[a], p)
    /\ request' = [request EXCEPT ![r] = [account |-> a, peer |-> p]]
    /\ UNCHANGED <<mem, file, keyIndex, peerIndex, expired, login, deleting,
                   failures, historyVars, dirty, unsaved, lost>>

\* The account with peer p as another account has it.
WithPeerOf(acc, p, k) == [acc EXCEPT !.peers = [acc.peers EXCEPT ![p] = k]]

\* Mutant: the peer is moved to account a.
RenamePeerMoves(a, p) ==
    LET b == PeerAccount(p) IN
    /\ b # None
    /\ Has(mem[b], p)
    /\ mem' = [c \in Accounts |->
                  IF c = a THEN WithPeerOf(mem[a], p, mem[b].peers[p])
                  ELSE IF c = b THEN WithPeerOf(mem[b], p, None) ELSE mem[c]]
    /\ PersistOk \/ PersistFails

\* RenamePeer takes the peer the index finds and saves it in account a, which
\* may be another one than the index says; the index stays as it is.
RenamePeer(a, p) ==
    LET b == PeerAccount(p) IN
    /\ b # None
    /\ Has(mem[b], p)
    /\ mem' = [mem EXCEPT ![a] = WithPeerOf(mem[a], p, mem[b].peers[p])]
    /\ PersistOk \/ PersistFails

updatePeer(r) ==
    /\ amMuxFree
    /\ request[r] \in PeerRequests
    /\ RenamePeer(request[r].account, request[r].peer)
    /\ EndRequest(r)
    /\ UNCHANGED <<keyIndex, peerIndex, expired, login, deleting, historyVars,
                   lost>>

\* DeletePeer: Store.DeletePeer with a write of its own, then IncSerial and
\* SaveAccount.
WithoutPeer(acc, p) == [acc EXCEPT !.peers = [acc.peers EXCEPT ![p] = None]]

DeletePeer(a, p) ==
    /\ Has(mem[a], p)
    /\ mem[a].serial < MaxSerial
    /\ mem' = [mem EXCEPT ![a] = WithoutPeer(mem[a], p)]
    /\ peerIndex' = [peerIndex EXCEPT ![p] = None]
    /\ \/ PersistOk /\ deleting' = [account |-> a, peer |-> p]
       \/ PersistFails /\ UNCHANGED deleting
    /\ acked' = acked \ {<<a, p>>}

deletePeer(r) ==
    /\ amMuxFree
    /\ request[r] \in PeerRequests
    /\ DeletePeer(request[r].account, request[r].peer)
    /\ EndRequest(r)
    /\ UNCHANGED <<keyIndex, expired, login, granted, barred, seen, lost>>

\* The peer is gone since the lookup.
PeerNotFound(r) ==
    /\ amMuxFree
    /\ request[r] \in PeerRequests
    /\ LET p == request[r].peer IN
       \/ ~Has(mem[request[r].account], p)
       \/ ~(PeerAccount(p) # None /\ Has(mem[PeerAccount(p)], p))
    /\ EndRequest(r)
    /\ UNCHANGED <<mem, file, keyIndex, peerIndex, expired, login, deleting,
                   failures, historyVars, dirty, unsaved, lost>>

DeletePeerSave ==
    /\ deleting # None
    /\ LET a == deleting.account IN
       SaveAccount(a, [mem[a] EXCEPT !.serial = mem[a].serial + 1])
    /\ PersistOk \/ PersistFails
    /\ deleting' = None
    /\ UNCHANGED <<expired, threadVars, historyVars, lost>>

-----------------------------------------------------------------------------

Next ==
    \/ \E a \in Accounts, r, o \in Keys : CreateAccount(a, r, o)
    \/ \E a \in Accounts, k \in Keys : AddSetupKey(a, k)
    \/ \E r \in Requests, a \in Accounts, k \in Keys : RevokeSetupKey(r, a, k)
    \/ \E r \in Requests : RenameRevokedKey(r)
    \/ \E a \in Accounts : RenameSetupKey(a)
    \/ \E k \in Keys : Expire(k)
    \/ \E l \in Logins, p \in Peers, k \in Keys : LoginGetPeer(l, p, k)
    \/ \E l \in Logins : AddPeer(l) \/ AddPeerRefused(l)
    \/ \E p \in Peers : SavePeer(p) \/ LoginKnownPeer(p) \/ GetNetworkMap(p)
    \/ \E r \in Requests, a \in Accounts, p \in Peers : HandlePeer(r, a, p)
    \/ \E r \in Requests : updatePeer(r) \/ deletePeer(r) \/ PeerNotFound(r)
    \/ DeletePeerSave
    \/ Restart

Spec == Init /\ [][Next]_vars

-----------------------------------------------------------------------------
(* Properties *)

AccountRecords == [keys : SUBSET Keys, used : SUBSET Keys, revoked : SUBSET Keys,
                   peers : [Peers -> Keys \cup {None}], serial : Nat]

\* Used and revoked keys are keys of the account.
WellFormed(acc) ==
    /\ acc.used \subseteq acc.keys
    /\ acc.revoked \subseteq acc.keys

\* Every peer was registered with a key that is counted as used in the account
\* it belongs to, which may be another one than the peer is in.
Counted(m) ==
    \A a \in Accounts, p \in Peers :
        Has(m[a], p) => \E b \in Accounts : m[a].peers[p] \in m[b].used

\* The type of every variable; accounts are well-formed in memory and on disk.
TypeOK ==
    /\ mem \in [Accounts -> AccountRecords]
    /\ file \in [Accounts -> AccountRecords]
    /\ \A a \in Accounts : WellFormed(mem[a]) /\ WellFormed(file[a])
    /\ Counted(mem) /\ Counted(file)
    /\ keyIndex \in [Keys -> Accounts \cup {None}]
    /\ peerIndex \in [Peers -> Accounts \cup {None}]
    /\ expired \in SUBSET Keys
    /\ login \in [Logins -> [peer : Peers, key : Keys] \cup {None}]
    /\ request \in [Requests -> PeerRequests \cup KeyRequests \cup {None}]
    /\ deleting \in [account : Accounts, peer : Peers] \cup {None}
    /\ failures \in 0..MaxFailures
    /\ acked \in SUBSET (Accounts \X Peers)
    /\ granted \in SUBSET (OneOff \X Peers)
    /\ barred \in SUBSET (Accounts \X Keys)
    /\ seen \in [Accounts -> Nat]
    /\ dirty \in BOOLEAN
    /\ unsaved \in SUBSET ((Accounts \cup OneOff) \X Peers)
    /\ lost \in BOOLEAN

(***************************************************************************)
(* A one-off key admits one peer: the service never confirms a second one, *)
(* although Logins overlap, a write may fail after the usage was counted   *)
(* in memory, and a restart forgets what was not written                   *)
(* (peer.go:303-383, setupkey.go:81-83).  The one way to a second peer is  *)
(* a first one that was registered in memory by a call that failed, then   *)
(* confirmed by a Login that wrote nothing (grpcserver.go:278), and        *)
(* forgotten in a crash before the next write.                             *)
(***************************************************************************)
OneOffKeyAdmitsOne ==
    \A k \in OneOff, p, q \in Peers :
        <<k, p>> \in granted /\ <<k, q>> \in granted => p = q

(***************************************************************************)
(* What the service confirmed survives a crash: a peer whose registration  *)
(* or Login succeeded is in the file until somebody starts to delete it,   *)
(* although its entry may have got into memory by a call that failed       *)
(* (peer.go:371-382, file_store.go:135-163).  A Login that wrote nothing   *)
(* (grpcserver.go:278) promises as much when no failed write is            *)
(* outstanding, and from the next successful write of anybody on when one  *)
(* is.                                                                     *)
(***************************************************************************)
ConfirmedPeerIsDurable ==
    \A a \in Accounts, p \in Peers :
        <<a, p>> \in acked \ unsaved => Has(file[a], p)

(***************************************************************************)
(* A revocation that the service confirmed holds in memory and in the      *)
(* file, where no later save, failed or not, and no restart can lose it,   *)
(* although updateKey revokes and renames in two calls that others come    *)
(* between (setupkeys.go:61-80, account.go:203-257).                       *)
(***************************************************************************)
RevocationIsDurable ==
    \A a \in Accounts, k \in Keys :
        <<a, k>> \in barred => k \in mem[a].revoked /\ k \in file[a].revoked

(***************************************************************************)
(* A serial that a client was given is in the file, so that no restart     *)
(* makes the service hand out a lower one, which the client would ignore   *)
(* (engine.go:438), unless a write failed.                                 *)
(***************************************************************************)
SeenSerialIsDurable ==
    ~dirty /\ ~lost => \A a \in Accounts : seen[a] <= file[a].serial

(***************************************************************************)
(* The index never sends a caller to an account that does not have the     *)
(* peer, although two Logins or a RenamePeer may put one key into two      *)
(* accounts and a deletion from either of them removes the index entry by  *)
(* key (file_store.go:181-182, 239-241, peer.go:111-119).                  *)
(***************************************************************************)
IndexedPeerExists ==
    \A p \in Peers : peerIndex[p] # None => Has(mem[peerIndex[p]], p)
=============================================================================
