------------------------- MODULE AccountStoreProofs -------------------------
(***************************************************************************)
(* Proofs about AccountStore, for any number of accounts, peers, keys,     *)
(* threads, failing writes and restarts.                                   *)
(***************************************************************************)
EXTENDS AccountStore, TLAPS

USE DEF GetAccountBySetupKey

-----------------------------------------------------------------------------
(* What the operations on one account do *)

LEMMA WithPeerFields ==
    ASSUME NEW acc \in AccountRecords, WellFormed(acc),
           NEW p \in Peers, NEW k \in acc.keys
    PROVE  /\ WithPeer(acc, p, k) \in AccountRecords
           /\ WellFormed(WithPeer(acc, p, k))
           /\ WithPeer(acc, p, k).keys = acc.keys
           /\ WithPeer(acc, p, k).used = acc.used \cup {k}
           /\ WithPeer(acc, p, k).revoked = acc.revoked
           /\ WithPeer(acc, p, k).serial = acc.serial + 1
           /\ WithPeer(acc, p, k).peers = [acc.peers EXCEPT ![p] = k]
<1> DEFINE new == WithPeer(acc, p, k)
<1>1. /\ new.keys = acc.keys
      /\ new.used = acc.used \cup {k}
      /\ new.revoked = acc.revoked
      /\ new.serial = acc.serial + 1
      /\ new.peers = [acc.peers EXCEPT ![p] = k]
  BY DEF WithPeer, AccountRecords
<1>2. /\ acc.used \cup {k} \in SUBSET Keys
      /\ acc.serial + 1 \in Nat
      /\ [acc.peers EXCEPT ![p] = k] \in [Peers -> Keys \cup {None}]
  BY DEF AccountRecords
<1>3. new \in AccountRecords
  BY <1>2 DEF WithPeer, AccountRecords
<1>4. WellFormed(new)
  BY <1>1 DEF WellFormed
<1>5. QED
  BY <1>1, <1>3, <1>4

LEMMA WithoutPeerFields ==
    ASSUME NEW acc \in AccountRecords, WellFormed(acc), NEW p \in Peers
    PROVE  /\ WithoutPeer(acc, p) \in AccountRecords
           /\ WellFormed(WithoutPeer(acc, p))
           /\ WithoutPeer(acc, p).keys = acc.keys
           /\ WithoutPeer(acc, p).used = acc.used
           /\ WithoutPeer(acc, p).revoked = acc.revoked
           /\ WithoutPeer(acc, p).serial = acc.serial
           /\ WithoutPeer(acc, p).peers = [acc.peers EXCEPT ![p] = None]
<1> DEFINE new == WithoutPeer(acc, p)
<1>1. /\ new.keys = acc.keys
      /\ new.used = acc.used
      /\ new.revoked = acc.revoked
      /\ new.serial = acc.serial
      /\ new.peers = [acc.peers EXCEPT ![p] = None]
  BY DEF WithoutPeer, AccountRecords
<1>2. new \in AccountRecords
  BY DEF WithoutPeer, AccountRecords
<1>3. WellFormed(new)
  BY <1>1 DEF WellFormed, Has, AccountRecords
<1>4. QED
  BY <1>1, <1>2, <1>3

LEMMA WithPeerOfFields ==
    ASSUME NEW acc \in AccountRecords, WellFormed(acc),
           NEW p \in Peers, NEW k \in Keys
    PROVE  /\ WithPeerOf(acc, p, k) \in AccountRecords
           /\ WellFormed(WithPeerOf(acc, p, k))
           /\ WithPeerOf(acc, p, k).keys = acc.keys
           /\ WithPeerOf(acc, p, k).used = acc.used
           /\ WithPeerOf(acc, p, k).revoked = acc.revoked
           /\ WithPeerOf(acc, p, k).serial = acc.serial
           /\ WithPeerOf(acc, p, k).peers = [acc.peers EXCEPT ![p] = k]
<1> DEFINE new == WithPeerOf(acc, p, k)
<1>1. /\ new.keys = acc.keys
      /\ new.used = acc.used
      /\ new.revoked = acc.revoked
      /\ new.serial = acc.serial
      /\ new.peers = [acc.peers EXCEPT ![p] = k]
  BY DEF WithPeerOf, AccountRecords
<1>2. [acc.peers EXCEPT ![p] = k] \in [Peers -> Keys \cup {None}]
  BY DEF AccountRecords
<1>3. new \in AccountRecords
  BY <1>2 DEF WithPeerOf, AccountRecords
<1>4. WellFormed(new)
  BY <1>1 DEF WellFormed
<1>5. QED
  BY <1>1, <1>3, <1>4

LEMMA NoAccountFields ==
    /\ NoAccount \in AccountRecords
    /\ WellFormed(NoAccount)
    /\ \A p \in Peers : ~Has(NoAccount, p)
BY DEF NoAccount, AccountRecords, WellFormed, Has
-----------------------------------------------------------------------------
(* Saves *)

(***************************************************************************)
(* A save of account a: it keeps its keys, usages, revocations and peers,  *)
(* gets unused keys only, and a new peer's key is counted.  All operations *)
(* but DeletePeer, RenamePeer and SavePeer end in one.                     *)
(***************************************************************************)
Saves(a, acc) ==
    /\ acc \in AccountRecords
    /\ WellFormed(acc)
    /\ mem[a].keys \subseteq acc.keys
    /\ acc.keys \ mem[a].keys \subseteq UnusedKeys
    /\ mem[a].used \subseteq acc.used
    /\ mem[a].revoked \subseteq acc.revoked
    /\ \A p \in Peers : Has(mem[a], p) => Has(acc, p)
    /\ \A p \in Peers : acc.peers[p] # mem[a].peers[p] => acc.peers[p] \in acc.used
    /\ mem[a].serial <= acc.serial
    /\ SaveAccount(a, acc)
    /\ PersistOk \/ PersistFails

\* The operations on setup keys leave the peers alone.
LEMMA CreateAccountSaves ==
    ASSUME TypeOK, NEW a \in Accounts, NEW r \in Keys, NEW o \in Keys,
           CreateAccount(a, r, o)
    PROVE  \E acc : Saves(a, acc) /\ acc.peers = mem[a].peers
<1> DEFINE acc == [NoAccount EXCEPT !.keys = {r, o}]
<1>1. /\ acc.keys = {r, o}
      /\ acc.used = {}
      /\ acc.revoked = {}
      /\ acc.serial = 0
      /\ acc.peers = [p \in Peers |-> None]
  BY DEF NoAccount
<1>2. acc \in AccountRecords
  BY DEF NoAccount, AccountRecords
<1>3. /\ mem[a].keys = {}
      /\ mem[a].used = {}
      /\ mem[a].revoked = {}
      /\ mem[a].serial = 0
      /\ mem[a].peers = [p \in Peers |-> None]
  BY DEF CreateAccount, NoAccount
<1>4. WellFormed(acc)
  BY <1>1 DEF WellFormed, Has
<1>5. acc.keys \subseteq UnusedKeys
  BY <1>1 DEF CreateAccount
<1>6. SaveAccount(a, acc) /\ (PersistOk \/ PersistFails)
  BY DEF CreateAccount
<1> HIDE DEF acc
<1>7. Saves(a, acc)
  BY <1>1, <1>2, <1>3, <1>4, <1>5, <1>6 DEF Saves, Has
<1>8. QED
  BY <1>1, <1>3, <1>7

LEMMA AddSetupKeySaves ==
    ASSUME TypeOK, NEW a \in Accounts, NEW k \in Keys, AddSetupKey(a, k)
    PROVE  \E acc : Saves(a, acc) /\ acc.peers = mem[a].peers
<1> DEFINE acc == [mem[a] EXCEPT !.keys = mem[a].keys \cup {k}]
<1>0. mem[a] \in AccountRecords /\ WellFormed(mem[a])
  BY DEF TypeOK
<1>1. /\ acc.keys = mem[a].keys \cup {k}
      /\ acc.used = mem[a].used
      /\ acc.revoked = mem[a].revoked
      /\ acc.serial = mem[a].serial
      /\ acc.peers = mem[a].peers
  BY <1>0 DEF AccountRecords
<1>2. acc \in AccountRecords
  BY <1>0 DEF AccountRecords
<1>3. mem[a].serial \in Nat
  BY <1>0 DEF AccountRecords
<1>4. WellFormed(acc)
  BY <1>0, <1>1 DEF WellFormed, Has
<1>5. k \in UnusedKeys
  BY DEF AddSetupKey
<1>6. SaveAccount(a, acc) /\ (PersistOk \/ PersistFails)
  BY DEF AddSetupKey
<1> HIDE DEF acc
<1>7. Saves(a, acc)
  BY <1>1, <1>2, <1>3, <1>4, <1>5, <1>6 DEF Saves, Has
<1>8. QED
  BY <1>1, <1>7

LEMMA RevokeSetupKeySaves ==
    ASSUME TypeOK, NEW r \in Requests, NEW a \in Accounts, NEW k \in Keys,
           RevokeSetupKey(r, a, k)
    PROVE  \E acc : /\ Saves(a, acc) /\ acc.peers = mem[a].peers
                    /\ k \in acc.revoked
<1> DEFINE acc == [mem[a] EXCEPT !.revoked = mem[a].revoked \cup {k}]
<1>0. mem[a] \in AccountRecords /\ WellFormed(mem[a])
  BY DEF TypeOK
<1>1. /\ acc.keys = mem[a].keys
      /\ acc.used = mem[a].used
      /\ acc.revoked = mem[a].revoked \cup {k}
      /\ acc.serial = mem[a].serial
      /\ acc.peers = mem[a].peers
  BY <1>0 DEF AccountRecords
<1>2. acc \in AccountRecords
  BY <1>0 DEF AccountRecords
<1>3. mem[a].serial \in Nat
  BY <1>0 DEF AccountRecords
<1>4. WellFormed(acc)
  BY <1>0, <1>1 DEF WellFormed, Has, RevokeSetupKey
<1>6. SaveAccount(a, acc) /\ (PersistOk \/ PersistFails)
  BY DEF RevokeSetupKey, ConfirmRevocation
<1> HIDE DEF acc
<1>7. Saves(a, acc)
  BY <1>1, <1>2, <1>3, <1>4, <1>6 DEF Saves, Has
<1>8. QED
  BY <1>1, <1>7

\* RenameSetupKey saves the account as it is.
LEMMA SameAccountSaves ==
    ASSUME TypeOK, NEW a \in Accounts, SaveAccount(a, mem[a]),
           PersistOk \/ PersistFails
    PROVE  Saves(a, mem[a])
<1>1. mem[a] \in AccountRecords /\ WellFormed(mem[a])
  BY DEF TypeOK
<1>2. mem[a].serial \in Nat
  BY <1>1 DEF AccountRecords
<1>3. QED
  BY <1>1, <1>2 DEF Saves

LEMMA RenameRevokedKeySaves ==
    ASSUME TypeOK, NEW r \in Requests, RenameRevokedKey(r)
    PROVE  /\ request[r].account \in Accounts
           /\ request[r].key \in Keys
           /\ Saves(request[r].account, mem[request[r].account])
<1>1. request[r].account \in Accounts /\ request[r].key \in Keys
  BY DEF RenameRevokedKey, KeyRequests
<1>2. /\ SaveAccount(request[r].account, mem[request[r].account])
      /\ PersistOk \/ PersistFails
  BY DEF RenameRevokedKey, ConfirmRevocation
<1>3. QED
  BY <1>1, <1>2, SameAccountSaves

LEMMA DeletePeerSaveSaves ==
    ASSUME TypeOK, DeletePeerSave
    PROVE  \E a \in Accounts : \E acc : Saves(a, acc) /\ acc.peers = mem[a].peers
<1> DEFINE a == deleting.account
           acc == [mem[a] EXCEPT !.serial = mem[a].serial + 1]
<1>0. a \in Accounts /\ mem[a] \in AccountRecords /\ WellFormed(mem[a])
  BY DEF TypeOK, DeletePeerSave
<1>1. /\ acc.keys = mem[a].keys
      /\ acc.used = mem[a].used
      /\ acc.revoked = mem[a].revoked
      /\ acc.serial = mem[a].serial + 1
      /\ acc.peers = mem[a].peers
  BY <1>0 DEF AccountRecords
<1>2. acc \in AccountRecords
  BY <1>0 DEF AccountRecords
<1>3. mem[a].serial <= mem[a].serial + 1
  BY <1>0 DEF AccountRecords
<1>4. WellFormed(acc)
  BY <1>0, <1>1 DEF WellFormed, Has
<1>6. SaveAccount(a, acc) /\ (PersistOk \/ PersistFails)
  BY DEF DeletePeerSave
<1> HIDE DEF acc, a
<1>7. Saves(a, acc)
  BY <1>1, <1>2, <1>3, <1>4, <1>6 DEF Saves, Has
<1>8. QED
  BY <1>0, <1>1, <1>7

LEMMA AddPeerSaves ==
    ASSUME TypeOK, NEW l \in Logins, AddPeer(l)
    PROVE  LET a == keyIndex[login[l].key]
               p == login[l].peer
               k == login[l].key
           IN  /\ a \in Accounts /\ p \in Peers /\ k \in mem[a].keys
               /\ IsValid(mem[a], k)
               /\ Saves(a, WithPeer(mem[a], p, k))
<1> DEFINE a == keyIndex[login[l].key]
           p == login[l].peer
           k == login[l].key
           acc == WithPeer(mem[a], p, k)
<1>1. p \in Peers /\ k \in Keys
  BY DEF TypeOK, AddPeer
<1>2. a \in Accounts /\ k \in mem[a].keys /\ IsValid(mem[a], k)
  BY <1>1 DEF TypeOK, AddPeer
<1>3. mem[a] \in AccountRecords /\ WellFormed(mem[a])
  BY <1>2 DEF TypeOK
<1>4. /\ acc \in AccountRecords
      /\ WellFormed(acc)
      /\ acc.keys = mem[a].keys
      /\ acc.used = mem[a].used \cup {k}
      /\ acc.revoked = mem[a].revoked
      /\ acc.serial = mem[a].serial + 1
      /\ acc.peers = [mem[a].peers EXCEPT ![p] = k]
  BY <1>1, <1>2, <1>3, WithPeerFields
<1>5. \A q \in Peers : /\ Has(mem[a], q) => Has(acc, q)
                       /\ acc.peers[q] # mem[a].peers[q] => acc.peers[q] = k
  BY <1>1, <1>3, <1>4, StoreAssumption DEF Has, AccountRecords
<1>6. mem[a].serial \in Nat
  BY <1>3 DEF AccountRecords
<1>7. SaveAccount(a, acc) /\ (PersistOk \/ PersistFails)
  BY DEF AddPeer, Registration
<1> HIDE DEF acc, a, k, p
<1>8. Saves(a, acc)
  BY <1>4, <1>5, <1>6, <1>7 DEF Saves
<1>9. QED
  BY <1>1, <1>2, <1>8 DEF a, k, p, acc

-----------------------------------------------------------------------------
(* Type correctness *)

\* What TypeOK says of the accounts m, in memory or in the file.
StoreOK(m) ==
    /\ m \in [Accounts -> AccountRecords]
    /\ \A b \in Accounts : WellFormed(m[b])
    /\ Counted(m)

UnsavedOK == unsaved \in SUBSET ((Accounts \cup OneOff) \X Peers)

\* What TypeOK says of the threads and of the history.
RestOK ==
    /\ expired \in SUBSET Keys
    /\ login \in [Logins -> [peer : Peers, key : Keys] \cup {None}]
    /\ request \in [Requests -> PeerRequests \cup KeyRequests \cup {None}]
    /\ deleting \in [account : Accounts, peer : Peers] \cup {None}
    /\ acked \in SUBSET (Accounts \X Peers)
    /\ granted \in SUBSET (OneOff \X Peers)
    /\ barred \in SUBSET (Accounts \X Keys)
    /\ seen \in [Accounts -> Nat]
    /\ lost \in BOOLEAN

LEMMA TypeParts ==
    TypeOK <=> /\ StoreOK(mem) /\ StoreOK(file)
               /\ keyIndex \in [Keys -> Accounts \cup {None}]
               /\ peerIndex \in [Peers -> Accounts \cup {None}]
               /\ failures \in 0..MaxFailures
               /\ dirty \in BOOLEAN
               /\ UnsavedOK
               /\ RestOK
BY Zenon DEF TypeOK, StoreOK, RestOK, UnsavedOK

\* A write, or a failed one, of accounts that are as they should be.
LEMMA WriteType ==
    ASSUME TypeOK, StoreOK(mem'), PersistOk \/ PersistFails,
           keyIndex' \in [Keys -> Accounts \cup {None}],
           peerIndex' \in [Peers -> Accounts \cup {None}],
           RestOK'
    PROVE  TypeOK'
<1>1. StoreOK(file') /\ failures' \in 0..MaxFailures /\ dirty' \in BOOLEAN
  <2>1. CASE PersistOk
    <3>1. file' = mem' /\ failures' = failures /\ dirty' = FALSE
      BY <2>1 DEF PersistOk
    <3>2. QED
      BY <3>1 DEF TypeOK
  <2>2. CASE PersistFails
    <3>1. file' = file /\ failures' \in 0..MaxFailures /\ dirty' = TRUE
      BY <2>2, StoreAssumption DEF PersistFails, TypeOK
    <3>2. StoreOK(file)
      BY TypeParts
    <3>3. QED
      BY <3>1, <3>2
  <2>3. QED
    BY <2>1, <2>2
<1>2. /\ StoreOK(mem)' /\ StoreOK(file)'
      /\ (keyIndex \in [Keys -> Accounts \cup {None}])'
      /\ (peerIndex \in [Peers -> Accounts \cup {None}])'
      /\ (failures \in 0..MaxFailures)'
      /\ (dirty \in BOOLEAN)'
      /\ UnsavedOK'
  <2>1. UnsavedOK'
    BY DEF PersistOk, PersistFails, UnsavedOK, TypeOK
  <2>2. QED
    BY <1>1, <2>1 DEF StoreOK, Counted, WellFormed, Has
<1>3. QED
  BY <1>2, TypeParts, PTL

\* A step that leaves the accounts and the indexes alone.
LEMMA SameAccountsType ==
    ASSUME TypeOK, UNCHANGED <<mem, file, keyIndex, peerIndex, failures, dirty>>,
           UnsavedOK', RestOK'
    PROVE  TypeOK'
<1>1. StoreOK(mem) /\ StoreOK(file)
  BY TypeParts
<1>2. /\ StoreOK(mem)' /\ StoreOK(file)'
      /\ (keyIndex \in [Keys -> Accounts \cup {None}])'
      /\ (peerIndex \in [Peers -> Accounts \cup {None}])'
      /\ (failures \in 0..MaxFailures)'
      /\ (dirty \in BOOLEAN)'
  BY <1>1 DEF StoreOK, Counted, WellFormed, Has, TypeOK
<1>3. QED
  BY <1>2, TypeParts, PTL

LEMMA SameStoreType ==
    ASSUME TypeOK, UNCHANGED <<mem, file, keyIndex, peerIndex, failures, dirty, unsaved>>,
           RestOK'
    PROVE  TypeOK'
BY SameAccountsType DEF UnsavedOK, TypeOK

LEMMA SavesStore ==
    ASSUME TypeOK, NEW a \in Accounts, NEW acc, Saves(a, acc)
    PROVE  /\ StoreOK(mem')
           /\ keyIndex' \in [Keys -> Accounts \cup {None}]
           /\ peerIndex' \in [Peers -> Accounts \cup {None}]
           /\ PersistOk \/ PersistFails
<1>1. /\ mem' = [mem EXCEPT ![a] = acc] /\ acc \in AccountRecords /\ WellFormed(acc)
      /\ mem[a].used \subseteq acc.used
      /\ \A p \in Peers : acc.peers[p] # mem[a].peers[p] => acc.peers[p] \in acc.used
  BY DEF Saves, SaveAccount
<1>2. mem' \in [Accounts -> AccountRecords]
  BY <1>1 DEF TypeOK
<1>3. \A b \in Accounts : WellFormed(mem'[b])
  BY <1>1 DEF TypeOK
<1>4. /\ mem'[a] = acc
      /\ \A b \in Accounts : b # a => mem'[b] = mem[b]
      /\ \A b \in Accounts : mem[b].used \subseteq mem'[b].used
  BY <1>1 DEF TypeOK
<1>5. Counted(mem')
  <2> SUFFICES ASSUME NEW c \in Accounts, NEW p \in Peers, Has(mem'[c], p)
               PROVE  \E b \in Accounts : mem'[c].peers[p] \in mem'[b].used
    BY DEF Counted
  <2>1. CASE mem'[c].peers[p] = mem[c].peers[p]
    <3>1. PICK b \in Accounts : mem[c].peers[p] \in mem[b].used
      BY <2>1 DEF TypeOK, Counted, Has
    <3>2. QED
      BY <1>4, <2>1, <3>1
  <2>2. CASE mem'[c].peers[p] # mem[c].peers[p]
    BY <1>1, <1>4, <2>2
  <2>3. QED
    BY <2>1, <2>2
<1>6. keyIndex' \in [Keys -> Accounts \cup {None}]
  BY DEF Saves, SaveAccount, TypeOK
<1>7. peerIndex' \in [Peers -> Accounts \cup {None}]
  BY DEF Saves, SaveAccount, TypeOK
<1>8. QED
  BY <1>2, <1>3, <1>5, <1>6, <1>7 DEF StoreOK, Saves

\* Restart: the accounts are those of the file.
LEMMA RestartType ==
    ASSUME TypeOK, Restart PROVE TypeOK'
<1>1. mem' = file /\ file' = file /\ StoreOK(file)
  BY TypeParts DEF Restart
<1>2. keyIndex' \in [Keys -> Accounts \cup {None}]
  <2>1. ASSUME NEW k \in Keys
        PROVE  (IF \E a \in Accounts : k \in file[a].keys
                THEN CHOOSE a \in Accounts : k \in file[a].keys
                ELSE None) \in Accounts \cup {None}
    OBVIOUS
  <2>2. QED
    BY <2>1 DEF Restart
<1>3. lost' \in BOOLEAN
  BY Zenon DEF Restart, TypeOK
<1>4. RestOK'
  BY <1>3 DEF Restart, RestOK, TypeOK
<1>5. /\ StoreOK(mem)' /\ StoreOK(file)'
      /\ (keyIndex \in [Keys -> Accounts \cup {None}])'
      /\ (peerIndex \in [Peers -> Accounts \cup {None}])'
      /\ (failures \in 0..MaxFailures)'
      /\ (dirty \in BOOLEAN)'
      /\ UnsavedOK'
  BY <1>1, <1>2 DEF StoreOK, Counted, WellFormed, Has, Restart, TypeOK, UnsavedOK
<1>6. QED
  BY <1>4, <1>5, TypeParts, PTL

\* The history after a Login, AddPeer or SavePeer of peer p.
LEMMA RegistrationType ==
    ASSUME TypeOK, NEW a \in Accounts, NEW p \in Peers, NEW k \in Keys,
           Registration(a, p, k)
    PROVE  /\ acked' \in SUBSET (Accounts \X Peers)
           /\ granted' \in SUBSET (OneOff \X Peers)
           /\ PersistOk \/ PersistFails
<1>1. CASE PersistOk /\ acked' = acked \cup {<<a, p>>}
           /\ granted' = granted \cup Grant(k, p)
  BY <1>1 DEF TypeOK, Grant
<1>2. CASE PersistFails /\ UNCHANGED <<acked, granted>>
  BY <1>2 DEF TypeOK
<1>3. QED
  BY <1>1, <1>2 DEF Registration

\* DeletePeer and RenamePeer as the handlers make them.
Deletes(a, p) ==
    /\ DeletePeer(a, p)
    /\ UNCHANGED <<keyIndex, expired, login, granted, barred, seen, lost>>

Renames(a, p) ==
    /\ RenamePeer(a, p)
    /\ UNCHANGED <<keyIndex, peerIndex, expired, login, deleting, historyVars, lost>>

LEMMA RequestCalls ==
    ASSUME TypeOK, NEW r \in Requests
    PROVE  /\ deletePeer(r) =>
                 \E a \in Accounts, p \in Peers : Deletes(a, p) /\ EndRequest(r)
           /\ updatePeer(r) =>
                 \E a \in Accounts, p \in Peers : Renames(a, p) /\ EndRequest(r)
<1>1. request[r] \in PeerRequests =>
          request[r].account \in Accounts /\ request[r].peer \in Peers
  BY DEF PeerRequests
<1>2. QED
  BY <1>1 DEF deletePeer, updatePeer, Deletes, Renames

LEMMA EndRequestType ==
    ASSUME TypeOK, NEW r \in Requests, EndRequest(r)
    PROVE  request' \in [Requests -> PeerRequests \cup KeyRequests \cup {None}]
BY DEF EndRequest, TypeOK

LEMMA DeletePeerType ==
    ASSUME TypeOK, NEW a \in Accounts, NEW p \in Peers, Deletes(a, p),
           request' \in [Requests -> PeerRequests \cup KeyRequests \cup {None}]
    PROVE  TypeOK'
<1> DEFINE acc == WithoutPeer(mem[a], p)
<1>1. mem[a] \in AccountRecords /\ WellFormed(mem[a])
  BY DEF TypeOK
<1>2. /\ acc \in AccountRecords /\ WellFormed(acc)
      /\ acc.used = mem[a].used
      /\ acc.peers = [mem[a].peers EXCEPT ![p] = None]
  BY <1>1, WithoutPeerFields
<1>3. mem' = [mem EXCEPT ![a] = acc]
  BY DEF Deletes, DeletePeer
<1> HIDE DEF acc
<1>4. mem' \in [Accounts -> AccountRecords] /\ \A b \in Accounts : WellFormed(mem'[b])
  BY <1>2, <1>3 DEF TypeOK
<1>5. Counted(mem')
  <2> SUFFICES ASSUME NEW c \in Accounts, NEW q \in Peers, Has(mem'[c], q)
               PROVE  \E b \in Accounts : mem'[c].peers[q] \in mem'[b].used
    BY DEF Counted
  <2>1. mem[a].peers \in [Peers -> Keys \cup {None}]
    BY <1>1 DEF AccountRecords
  <2>2. \A b \in Accounts : mem'[b].used = mem[b].used
    BY <1>2, <1>3 DEF TypeOK
  <2>3. mem'[c].peers[q] = mem[c].peers[q]
    BY <1>2, <1>3, <2>1 DEF TypeOK, Has
  <2>4. QED
    BY <2>2, <2>3 DEF TypeOK, Counted, Has
<1>6. deleting' \in [account : Accounts, peer : Peers] \cup {None}
  BY DEF Deletes, DeletePeer, TypeOK
<1>7. RestOK'
  BY <1>6 DEF Deletes, DeletePeer, TypeOK, RestOK
<1>8. /\ PersistOk \/ PersistFails
      /\ keyIndex' \in [Keys -> Accounts \cup {None}]
      /\ peerIndex' \in [Peers -> Accounts \cup {None}]
  BY DEF Deletes, DeletePeer, TypeOK
<1>9. QED
  BY <1>4, <1>5, <1>7, <1>8, WriteType DEF StoreOK

\* RenamePeer: the copy that account a gets has the key of the one it is of.
LEMMA RenamePeerCopies ==
    ASSUME TypeOK, NEW a \in Accounts, NEW p \in Peers, Renames(a, p)
    PROVE  /\ mem' \in [Accounts -> AccountRecords]
           /\ \A b \in Accounts : /\ WellFormed(mem'[b])
                                  /\ mem'[b].keys = mem[b].keys
                                  /\ mem'[b].used = mem[b].used
                                  /\ mem'[b].revoked = mem[b].revoked
                                  /\ mem'[b].serial = mem[b].serial
           /\ \A b \in Accounts, q \in Peers : Has(mem[b], q) => Has(mem'[b], q)
           /\ \A b \in Accounts, q \in Peers : Has(mem'[b], q) =>
                 \E c \in Accounts : mem[c].peers[q] = mem'[b].peers[q]
           /\ file' = mem' \/ file' = file
           /\ ~dirty' => file' = mem'
<1> DEFINE o == peerIndex[p]
           k == mem[o].peers[p]
           acc == WithPeerOf(mem[a], p, k)
<1>1. o \in Accounts /\ Has(mem[o], p) /\ mem' = [mem EXCEPT ![a] = acc]
  BY DEF Renames, RenamePeer, PeerAccount, TypeOK
<1>2. mem[a] \in AccountRecords /\ WellFormed(mem[a]) /\ mem[o] \in AccountRecords
  BY <1>1 DEF TypeOK
<1>3. k \in Keys /\ k = mem[o].peers[p]
  BY <1>1, <1>2 DEF AccountRecords, Has
<1> HIDE DEF o, k
<1>4. /\ acc \in AccountRecords /\ WellFormed(acc)
      /\ acc.keys = mem[a].keys
      /\ acc.used = mem[a].used
      /\ acc.revoked = mem[a].revoked
      /\ acc.serial = mem[a].serial
      /\ acc.peers = [mem[a].peers EXCEPT ![p] = k]
  BY <1>2, <1>3, WithPeerOfFields
<1>5. mem[a].peers \in [Peers -> Keys \cup {None}]
  BY <1>2 DEF AccountRecords
<1> HIDE DEF acc
<1>6. mem' \in [Accounts -> AccountRecords]
  BY <1>1, <1>4 DEF TypeOK
<1>7. mem'[a] = acc /\ \A b \in Accounts : b # a => mem'[b] = mem[b]
  BY <1>1 DEF TypeOK
<1>8. \A b \in Accounts : /\ WellFormed(mem'[b])
                          /\ mem'[b].keys = mem[b].keys
                          /\ mem'[b].used = mem[b].used
                          /\ mem'[b].revoked = mem[b].revoked
                          /\ mem'[b].serial = mem[b].serial
  BY <1>4, <1>7 DEF TypeOK
<1>9. k # None
  BY <1>3, StoreAssumption
<1>10. ASSUME NEW b \in Accounts, NEW q \in Peers
       PROVE  mem'[b].peers[q] = IF b = a /\ q = p THEN k ELSE mem[b].peers[q]
  BY <1>4, <1>5, <1>7
<1>11. \A b \in Accounts, q \in Peers : Has(mem[b], q) => Has(mem'[b], q)
  BY <1>9, <1>10 DEF Has
<1>12. \A b \in Accounts, q \in Peers :
          \E c \in Accounts : mem[c].peers[q] = mem'[b].peers[q]
  BY <1>1, <1>3, <1>10
<1>13. /\ file' = mem' \/ file' = file
       /\ ~dirty' => file' = mem'
  BY DEF Renames, RenamePeer, PersistOk, PersistFails
<1>14. QED
  BY <1>6, <1>8, <1>11, <1>12, <1>13

LEMMA RenamePeerType ==
    ASSUME TypeOK, NEW a \in Accounts, NEW p \in Peers, Renames(a, p),
           request' \in [Requests -> PeerRequests \cup KeyRequests \cup {None}]
    PROVE  TypeOK'
<1>1. Counted(mem')
  <2> SUFFICES ASSUME NEW c \in Accounts, NEW q \in Peers, Has(mem'[c], q)
               PROVE  \E b \in Accounts : mem'[c].peers[q] \in mem'[b].used
    BY DEF Counted
  <2>1. PICK d \in Accounts : mem[d].peers[q] = mem'[c].peers[q]
    BY RenamePeerCopies
  <2>2. PICK b \in Accounts : mem[d].peers[q] \in mem[b].used
    BY <2>1 DEF TypeOK, Counted, Has
  <2>3. QED
    BY <2>1, <2>2, RenamePeerCopies
<1>2. StoreOK(mem')
  BY <1>1, RenamePeerCopies DEF StoreOK
<1>3. RestOK'
  BY DEF Renames, TypeOK, RestOK, historyVars
<1>4. /\ PersistOk \/ PersistFails
      /\ keyIndex' \in [Keys -> Accounts \cup {None}]
      /\ peerIndex' \in [Peers -> Accounts \cup {None}]
  BY DEF Renames, RenamePeer, TypeOK
<1>5. QED
  BY <1>2, <1>3, <1>4, WriteType

LEMMA SavePeerType ==
    ASSUME TypeOK, NEW p \in Peers, SavePeer(p)
    PROVE  TypeOK'
<1> DEFINE a == peerIndex[p]
           k == mem[a].peers[p]
<1>1. a \in Accounts /\ Has(mem[a], p)
  BY DEF TypeOK, SavePeer, PeerAccount
<1>2. mem[a] \in AccountRecords
  BY <1>1 DEF TypeOK
<1>3. k \in Keys
  BY <1>1, <1>2 DEF AccountRecords, Has
<1>4. Registration(a, p, k) /\ mem' = mem
  BY DEF SavePeer, PeerAccount
<1> HIDE DEF a, k
<1>5. /\ acked' \in SUBSET (Accounts \X Peers)
      /\ granted' \in SUBSET (OneOff \X Peers)
      /\ PersistOk \/ PersistFails
  BY <1>1, <1>3, <1>4, RegistrationType
<1>6. StoreOK(mem')
  BY <1>4, TypeParts
<1>7. RestOK'
  BY <1>5 DEF TypeOK, RestOK, SavePeer, threadVars
<1>8. /\ keyIndex' \in [Keys -> Accounts \cup {None}]
      /\ peerIndex' \in [Peers -> Accounts \cup {None}]
  BY DEF SavePeer, TypeOK
<1>9. QED
  BY <1>5, <1>6, <1>7, <1>8, WriteType

\* A Login that is confirmed without a write.
LEMMA LoginKnownPeerFacts ==
    ASSUME TypeOK, NEW p \in Peers, LoginKnownPeer(p)
    PROVE  \E a \in Accounts, k \in Keys :
             /\ Has(mem[a], p) /\ mem[a].peers[p] = k
             /\ acked' = acked \cup {<<a, p>>}
             /\ granted' = granted \cup Grant(k, p)
             /\ unsaved \subseteq unsaved'
             /\ dirty => /\ <<a, p>> \in acked \cup unsaved'
                         /\ Grant(k, p) \subseteq granted \cup unsaved'
             /\ unsaved' \subseteq unsaved \cup {<<a, p>>} \cup Grant(k, p)
             /\ UNCHANGED <<mem, file, keyIndex, peerIndex, failures, dirty, seen, lost>>
<1> DEFINE a == peerIndex[p]
           k == mem[a].peers[p]
<1>1. a \in Accounts /\ Has(mem[a], p)
  BY DEF TypeOK, LoginKnownPeer, PeerAccount
<1>2. mem[a] \in AccountRecords
  BY <1>1 DEF TypeOK
<1>3. k \in Keys
  BY <1>1, <1>2 DEF AccountRecords, Has
<1>4. /\ acked' = acked \cup {<<a, p>>}
      /\ granted' = granted \cup Grant(k, p)
      /\ unsaved' = IF dirty
                    THEN unsaved \cup ({<<a, p>>} \ acked) \cup (Grant(k, p) \ granted)
                    ELSE unsaved
      /\ UNCHANGED <<mem, file, keyIndex, peerIndex, failures, dirty, seen, lost>>
  BY DEF LoginKnownPeer, PeerAccount
<1>5. mem[a].peers[p] = k
  OBVIOUS
<1> HIDE DEF a, k
<1>6. /\ unsaved \subseteq unsaved'
      /\ dirty => /\ <<a, p>> \in acked \cup unsaved'
                  /\ Grant(k, p) \subseteq granted \cup unsaved'
      /\ unsaved' \subseteq unsaved \cup {<<a, p>>} \cup Grant(k, p)
  BY <1>4
<1>7. QED
  BY <1>1, <1>3, <1>4, <1>5, <1>6

LEMMA LoginKnownPeerType ==
    ASSUME TypeOK, NEW p \in Peers, LoginKnownPeer(p)
    PROVE  TypeOK'
<1>1. PICK a \in Accounts, k \in Keys :
          /\ acked' = acked \cup {<<a, p>>}
          /\ granted' = granted \cup Grant(k, p)
          /\ unsaved' \subseteq unsaved \cup {<<a, p>>} \cup Grant(k, p)
          /\ UNCHANGED <<mem, file, keyIndex, peerIndex, failures, dirty>>
  BY LoginKnownPeerFacts
<1>2. Grant(k, p) \subseteq OneOff \X Peers
  BY DEF Grant
<1>3. UnsavedOK'
  BY <1>1, <1>2 DEF UnsavedOK, TypeOK
<1>4. RestOK'
  BY <1>1, <1>2 DEF LoginKnownPeer, threadVars, TypeOK, RestOK
<1>5. QED
  BY <1>1, <1>3, <1>4, SameAccountsType

LEMMA AddPeerType ==
    ASSUME TypeOK, NEW l \in Logins, AddPeer(l)
    PROVE  TypeOK'
<1> DEFINE a == keyIndex[login[l].key]
           p == login[l].peer
           k == login[l].key
<1>1. /\ a \in Accounts /\ p \in Peers /\ k \in Keys
      /\ Saves(a, WithPeer(mem[a], p, k))
  BY AddPeerSaves DEF TypeOK, AccountRecords
<1>2. Registration(a, p, k)
  BY DEF AddPeer
<1> HIDE DEF a, p, k
<1>3. /\ acked' \in SUBSET (Accounts \X Peers)
      /\ granted' \in SUBSET (OneOff \X Peers)
  BY <1>1, <1>2, RegistrationType
<1>4. login' \in [Logins -> [peer : Peers, key : Keys] \cup {None}]
  BY DEF AddPeer, TypeOK
<1>5. UNCHANGED <<expired, request, deleting, barred, seen, lost>>
  BY DEF AddPeer
<1>6. RestOK'
  BY <1>3, <1>4, <1>5 DEF TypeOK, RestOK
<1>7. QED
  BY <1>1, <1>6, SavesStore, WriteType

(***************************************************************************)
(* A save by an operation that leaves the peers and the registrations      *)
(* alone, and a step that leaves alone what the invariants are about.      *)
(***************************************************************************)
PlainSave(a, acc) ==
    /\ Saves(a, acc)
    /\ acc.peers = mem[a].peers
    /\ UNCHANGED <<acked, granted, seen, lost>>

Idle == UNCHANGED <<mem, file, peerIndex, acked, granted, seen, dirty, unsaved, lost>>

LEMMA StepKinds ==
    ASSUME TypeOK, [Next]_vars
    PROVE  \/ \E a \in Accounts : \E acc : PlainSave(a, acc)
           \/ \E l \in Logins : AddPeer(l)
           \/ \E p \in Peers : SavePeer(p) \/ LoginKnownPeer(p) \/ GetNetworkMap(p)
           \/ \E a \in Accounts, p \in Peers : Deletes(a, p) \/ Renames(a, p)
           \/ Restart
           \/ Idle
<1>1. ASSUME NEW a \in Accounts, NEW r \in Keys, NEW o \in Keys,
             CreateAccount(a, r, o)
      PROVE  \E b \in Accounts : \E acc : PlainSave(b, acc)
  <2>1. UNCHANGED <<acked, granted, seen, lost>>
    BY <1>1 DEF CreateAccount, historyVars
  <2>2. QED
    BY <1>1, <2>1, CreateAccountSaves DEF PlainSave
<1>2. ASSUME NEW a \in Accounts, NEW k \in Keys, AddSetupKey(a, k)
      PROVE  \E b \in Accounts : \E acc : PlainSave(b, acc)
  <2>1. UNCHANGED <<acked, granted, seen, lost>>
    BY <1>2 DEF AddSetupKey, historyVars
  <2>2. QED
    BY <1>2, <2>1, AddSetupKeySaves DEF PlainSave
<1>3. ASSUME NEW r \in Requests, NEW a \in Accounts, NEW k \in Keys,
             RevokeSetupKey(r, a, k)
      PROVE  \E b \in Accounts : \E acc : PlainSave(b, acc)
  <2>1. UNCHANGED <<acked, granted, seen, lost>>
    BY <1>3 DEF RevokeSetupKey
  <2>2. QED
    BY <1>3, <2>1, RevokeSetupKeySaves DEF PlainSave
<1>4. ASSUME NEW r \in Requests, RenameRevokedKey(r)
      PROVE  \E b \in Accounts : \E acc : PlainSave(b, acc)
  <2>1. UNCHANGED <<acked, granted, seen, lost>>
    BY <1>4 DEF RenameRevokedKey
  <2>2. QED
    BY <1>4, <2>1, RenameRevokedKeySaves DEF PlainSave
<1>5. ASSUME NEW a \in Accounts, RenameSetupKey(a)
      PROVE  \E b \in Accounts : \E acc : PlainSave(b, acc)
  <2>1. /\ UNCHANGED <<acked, granted, seen, lost>>
        /\ SaveAccount(a, mem[a])
        /\ PersistOk \/ PersistFails
    BY <1>5 DEF RenameSetupKey, historyVars
  <2>2. QED
    BY <2>1, SameAccountSaves DEF PlainSave
<1>6. ASSUME DeletePeerSave
      PROVE  \E b \in Accounts : \E acc : PlainSave(b, acc)
  <2>1. UNCHANGED <<acked, granted, seen, lost>>
    BY <1>6 DEF DeletePeerSave, historyVars
  <2>2. QED
    BY <1>6, <2>1, DeletePeerSaveSaves DEF PlainSave
<1>7. ASSUME NEW k \in Keys, Expire(k) PROVE Idle
  BY <1>7 DEF Expire, historyVars, Idle
<1>8. ASSUME NEW l \in Logins, NEW p \in Peers, NEW k \in Keys,
             LoginGetPeer(l, p, k)
      PROVE  Idle
  BY <1>8 DEF LoginGetPeer, historyVars, Idle
<1>9. ASSUME NEW l \in Logins, AddPeerRefused(l) PROVE Idle
  BY <1>9 DEF AddPeerRefused, historyVars, Idle
<1>10. ASSUME NEW r \in Requests, NEW a \in Accounts, NEW p \in Peers,
              HandlePeer(r, a, p)
       PROVE  Idle
  BY <1>10 DEF HandlePeer, historyVars, Idle
<1>11. ASSUME NEW r \in Requests, PeerNotFound(r) PROVE Idle
  BY <1>11 DEF PeerNotFound, historyVars, Idle
<1>12. ASSUME UNCHANGED vars PROVE Idle
  BY <1>12 DEF vars, historyVars, Idle
<1>13. QED
  BY <1>1, <1>2, <1>3, <1>4, <1>5, <1>6, <1>7, <1>8, <1>9, <1>10, <1>11, <1>12,
     RequestCalls DEF Next

LEMMA TypeStep ==
    ASSUME TypeOK, [Next]_vars PROVE TypeOK'
<1>0. RestOK
  BY TypeParts
<1>1. ASSUME NEW a \in Accounts, NEW acc, Saves(a, acc), RestOK'
      PROVE  TypeOK'
  BY <1>1, SavesStore, WriteType
<1>2. ASSUME NEW a \in Accounts, NEW r \in Keys, NEW o \in Keys,
             CreateAccount(a, r, o)
      PROVE  TypeOK'
  <2>1. RestOK'
    BY <1>0, <1>2 DEF CreateAccount, RestOK, historyVars, threadVars
  <2>2. QED
    BY <1>1, <1>2, <2>1, CreateAccountSaves
<1>3. ASSUME NEW a \in Accounts, NEW k \in Keys, AddSetupKey(a, k)
      PROVE  TypeOK'
  <2>1. RestOK'
    BY <1>0, <1>3 DEF AddSetupKey, RestOK, historyVars, threadVars
  <2>2. QED
    BY <1>1, <1>3, <2>1, AddSetupKeySaves
<1>4. ASSUME NEW r \in Requests, NEW a \in Accounts, NEW k \in Keys,
             RevokeSetupKey(r, a, k)
      PROVE  TypeOK'
  <2>1. barred' \in SUBSET (Accounts \X Keys)
    BY <1>0, <1>4 DEF RevokeSetupKey, ConfirmRevocation, RestOK
  <2>2. request' \in [Requests -> PeerRequests \cup KeyRequests \cup {None}]
    <3>1. [account |-> a, key |-> k] \in KeyRequests
      BY DEF KeyRequests
    <3>2. \/ request' = request
          \/ request' = [request EXCEPT ![r] = [account |-> a, key |-> k]]
      BY <1>4 DEF RevokeSetupKey
    <3>3. QED
      BY <1>0, <3>1, <3>2 DEF RestOK
  <2>3. RestOK'
    BY <1>0, <1>4, <2>1, <2>2 DEF RevokeSetupKey, RestOK
  <2>4. QED
    BY <1>1, <1>4, <2>3, RevokeSetupKeySaves
<1>5. ASSUME NEW r \in Requests, RenameRevokedKey(r) PROVE TypeOK'
  <2>1. /\ request[r].account \in Accounts
        /\ request[r].key \in Keys
        /\ Saves(request[r].account, mem[request[r].account])
    BY <1>5, RenameRevokedKeySaves
  <2>2. barred' \in SUBSET (Accounts \X Keys)
    BY <1>0, <1>5, <2>1 DEF RenameRevokedKey, ConfirmRevocation, RestOK
  <2>3. request' \in [Requests -> PeerRequests \cup KeyRequests \cup {None}]
    BY <1>5, EndRequestType DEF RenameRevokedKey
  <2>4. RestOK'
    BY <1>0, <1>5, <2>2, <2>3 DEF RenameRevokedKey, RestOK
  <2>5. QED
    BY <1>1, <2>1, <2>4
<1>6. ASSUME NEW a \in Accounts, RenameSetupKey(a) PROVE TypeOK'
  <2>1. RestOK'
    BY <1>0, <1>6 DEF RenameSetupKey, RestOK, historyVars, threadVars
  <2>2. Saves(a, mem[a])
    BY <1>6, SameAccountSaves DEF RenameSetupKey
  <2>3. QED
    BY <1>1, <2>1, <2>2
<1>7. ASSUME DeletePeerSave PROVE TypeOK'
  <2>1. RestOK'
    BY <1>0, <1>7 DEF DeletePeerSave, RestOK, historyVars, threadVars
  <2>2. QED
    BY <1>1, <1>7, <2>1, DeletePeerSaveSaves
<1>8. ASSUME NEW k \in Keys, Expire(k) PROVE TypeOK'
  <2>1. /\ RestOK'
        /\ UNCHANGED <<mem, file, keyIndex, peerIndex, failures, dirty, unsaved>>
    BY <1>0, <1>8 DEF Expire, RestOK, historyVars, threadVars
  <2>2. QED
    BY <2>1, SameStoreType
<1>9. ASSUME NEW l \in Logins, NEW p \in Peers, NEW k \in Keys,
             LoginGetPeer(l, p, k)
      PROVE  TypeOK'
  <2>1. /\ RestOK'
        /\ UNCHANGED <<mem, file, keyIndex, peerIndex, failures, dirty, unsaved>>
    BY <1>0, <1>9 DEF LoginGetPeer, RestOK, historyVars
  <2>2. QED
    BY <2>1, SameStoreType
<1>10. ASSUME NEW l \in Logins, AddPeerRefused(l) PROVE TypeOK'
  <2>1. /\ RestOK'
        /\ UNCHANGED <<mem, file, keyIndex, peerIndex, failures, dirty, unsaved>>
    BY <1>0, <1>10 DEF AddPeerRefused, RestOK, historyVars
  <2>2. QED
    BY <2>1, SameStoreType
<1>11. ASSUME NEW p \in Peers, GetNetworkMap(p) PROVE TypeOK'
  <2>1. peerIndex[p] \in Accounts
    BY <1>11 DEF GetNetworkMap, PeerAccount, TypeOK
  <2>2. mem[peerIndex[p]].serial \in Nat
    BY <2>1 DEF TypeOK, AccountRecords
  <2>3. seen' \in [Accounts -> Nat]
    BY <1>11, <2>1, <2>2 DEF GetNetworkMap, PeerAccount, TypeOK
  <2>4. /\ RestOK'
        /\ UNCHANGED <<mem, file, keyIndex, peerIndex, failures, dirty, unsaved>>
    BY <1>0, <1>11, <2>3 DEF GetNetworkMap, RestOK, threadVars
  <2>5. QED
    BY <2>4, SameStoreType
<1>12. ASSUME NEW r \in Requests, NEW a \in Accounts, NEW p \in Peers,
              HandlePeer(r, a, p)
       PROVE  TypeOK'
  <2>1. [account |-> a, peer |-> p] \in PeerRequests
    BY DEF PeerRequests
  <2>2. request' \in [Requests -> PeerRequests \cup KeyRequests \cup {None}]
    BY <1>0, <1>12, <2>1 DEF HandlePeer, RestOK
  <2>3. /\ RestOK'
        /\ UNCHANGED <<mem, file, keyIndex, peerIndex, failures, dirty, unsaved>>
    BY <1>0, <1>12, <2>2 DEF HandlePeer, RestOK, historyVars
  <2>4. QED
    BY <2>3, SameStoreType
<1>13. ASSUME NEW r \in Requests, PeerNotFound(r) PROVE TypeOK'
  <2>1. request' \in [Requests -> PeerRequests \cup KeyRequests \cup {None}]
    BY <1>13, EndRequestType DEF PeerNotFound
  <2>2. /\ RestOK'
        /\ UNCHANGED <<mem, file, keyIndex, peerIndex, failures, dirty, unsaved>>
    BY <1>0, <1>13, <2>1 DEF PeerNotFound, RestOK, historyVars
  <2>3. QED
    BY <2>2, SameStoreType
<1>14. ASSUME NEW r \in Requests, deletePeer(r) \/ updatePeer(r) PROVE TypeOK'
  BY <1>14, RequestCalls, EndRequestType, DeletePeerType, RenamePeerType
<1>15. ASSUME UNCHANGED vars PROVE TypeOK'
  <2>1. /\ RestOK'
        /\ UNCHANGED <<mem, file, keyIndex, peerIndex, failures, dirty, unsaved>>
    BY <1>0, <1>15 DEF vars, RestOK, historyVars, threadVars
  <2>2. QED
    BY <2>1, SameStoreType
<1>16. QED
  BY <1>2, <1>3, <1>4, <1>5, <1>6, <1>7, <1>8, <1>9, <1>10, <1>11, <1>12, <1>13,
     <1>14, <1>15, AddPeerType, SavePeerType, LoginKnownPeerType, RestartType DEF Next

-----------------------------------------------------------------------------
(* The index *)

\* A save adds every peer it indexes, and loses none.
LEMMA SaveKeepsIndex ==
    ASSUME TypeOK, IndexedPeerExists, NEW a \in Accounts, NEW acc, Saves(a, acc)
    PROVE  IndexedPeerExists'
<1> SUFFICES ASSUME NEW p \in Peers, peerIndex'[p] # None
             PROVE  Has(mem'[peerIndex'[p]], p)
  BY DEF IndexedPeerExists, Has
<1>1. /\ mem' = [mem EXCEPT ![a] = acc]
      /\ peerIndex'[p] = IF Has(acc, p) THEN a ELSE peerIndex[p]
      /\ Has(mem[a], p) => Has(acc, p)
  BY DEF Saves, SaveAccount
<1>2. CASE Has(acc, p)
  BY <1>1, <1>2 DEF TypeOK
<1>3. CASE ~Has(acc, p)
  <2>1. peerIndex'[p] = peerIndex[p] /\ Has(mem[peerIndex[p]], p)
    BY <1>1, <1>3 DEF IndexedPeerExists
  <2>2. peerIndex[p] # a /\ peerIndex[p] \in Accounts
    BY <1>1, <1>3, <2>1 DEF TypeOK
  <2>3. mem'[peerIndex[p]] = mem[peerIndex[p]]
    BY <1>1, <2>2 DEF TypeOK
  <2>4. QED
    BY <2>1, <2>3
<1>4. QED
  BY <1>2, <1>3

LEMMA IndexStep ==
    ASSUME TypeOK, IndexedPeerExists, [Next]_vars
    PROVE  IndexedPeerExists'
<1>1. ASSUME NEW a \in Accounts, NEW acc, PlainSave(a, acc)
      PROVE  IndexedPeerExists'
  BY <1>1, SaveKeepsIndex DEF PlainSave
<1>2. ASSUME NEW l \in Logins, AddPeer(l) PROVE IndexedPeerExists'
  BY <1>2, AddPeerSaves, SaveKeepsIndex
<1>3. ASSUME UNCHANGED <<mem, peerIndex>> PROVE IndexedPeerExists'
  BY <1>3 DEF IndexedPeerExists, Has
<1>4. ASSUME NEW a \in Accounts, NEW p \in Peers, Deletes(a, p)
      PROVE  IndexedPeerExists'
  <2> SUFFICES ASSUME NEW q \in Peers, peerIndex'[q] # None
               PROVE  Has(mem'[peerIndex'[q]], q)
    BY DEF IndexedPeerExists, Has
  <2>1. /\ mem' = [mem EXCEPT ![a] = WithoutPeer(mem[a], p)]
        /\ peerIndex' = [peerIndex EXCEPT ![p] = None]
    BY <1>4 DEF Deletes, DeletePeer
  <2>2. q # p /\ peerIndex'[q] = peerIndex[q]
    BY <2>1 DEF TypeOK
  <2>3. Has(mem[peerIndex[q]], q) /\ peerIndex[q] \in Accounts
    BY <2>2 DEF IndexedPeerExists, TypeOK
  <2>4. mem[a] \in AccountRecords /\ WellFormed(mem[a])
    BY DEF TypeOK
  <2>5. WithoutPeer(mem[a], p).peers = [mem[a].peers EXCEPT ![p] = None]
    BY <2>4, WithoutPeerFields
  <2>6. mem'[peerIndex[q]].peers[q] = mem[peerIndex[q]].peers[q]
    <3>1. CASE peerIndex[q] = a
      BY <3>1, <2>1, <2>2, <2>4, <2>5 DEF TypeOK, AccountRecords
    <3>2. CASE peerIndex[q] # a
      BY <3>2, <2>1, <2>3 DEF TypeOK
    <3>3. QED
      BY <3>1, <3>2
  <2>7. QED
    BY <2>2, <2>3, <2>6 DEF Has
<1>5. ASSUME Restart PROVE IndexedPeerExists'
  <2> SUFFICES ASSUME NEW p \in Peers, peerIndex'[p] # None
               PROVE  Has(file[peerIndex'[p]], p)
    BY <1>5 DEF IndexedPeerExists, Has, Restart
  <2>1. QED
    BY <1>5 DEF Restart
<1>6. ASSUME NEW a \in Accounts, NEW p \in Peers, Renames(a, p)
      PROVE  IndexedPeerExists'
  <2> SUFFICES ASSUME NEW q \in Peers, peerIndex'[q] # None
               PROVE  Has(mem'[peerIndex'[q]], q)
    BY DEF IndexedPeerExists, Has
  <2>1. peerIndex' = peerIndex
    BY <1>6 DEF Renames
  <2>2. peerIndex[q] \in Accounts /\ Has(mem[peerIndex[q]], q)
    BY <2>1 DEF IndexedPeerExists, TypeOK
  <2>3. QED
    BY <1>6, <2>1, <2>2, RenamePeerCopies
<1>7. QED
  BY <1>1, <1>2, <1>3, <1>4, <1>5, <1>6, StepKinds
     DEF Idle, SavePeer, LoginKnownPeer, GetNetworkMap

-----------------------------------------------------------------------------
(* Confirmed peers *)

\* Without a failed write the file is the memory, whose serials only grow.
SerialInv ==
    /\ ~dirty => mem = file
    /\ ~lost => \A a \in Accounts : seen[a] <= mem[a].serial

\* Confirmed peers are in the memory too: the next write keeps them.
AckInv ==
    \A a \in Accounts, p \in Peers :
        /\ <<a, p>> \in acked => Has(mem[a], p)
        /\ <<a, p>> \in acked \ unsaved => Has(file[a], p)

LEMMA AckStep ==
    ASSUME TypeOK, SerialInv, AckInv, [Next]_vars
    PROVE  AckInv'
<1> SUFFICES ASSUME NEW b \in Accounts, NEW q \in Peers, <<b, q>> \in acked'
             PROVE  Has(mem'[b], q) /\ (<<b, q>> \notin unsaved' => Has(file'[b], q))
  BY DEF AckInv, Has
<1> DEFINE Goal == Has(mem'[b], q) /\ (<<b, q>> \notin unsaved' => Has(file'[b], q))
<1>0. /\ <<b, q>> \in acked => Has(mem[b], q)
      /\ <<b, q>> \in acked \ unsaved => Has(file[b], q)
  BY DEF AckInv
<1>1. ASSUME NEW a \in Accounts, NEW acc, Saves(a, acc), Has(mem[b], q)
      PROVE  Has(mem'[b], q)
  BY <1>1 DEF Saves, SaveAccount, TypeOK
\* A write brings the file up to the memory; a failed one adds no promise.
<1>2. ASSUME Has(mem'[b], q), PersistOk \/ (PersistFails /\ <<b, q>> \in acked)
      PROVE  Goal
  BY <1>0, <1>2 DEF PersistOk, PersistFails
<1>3. ASSUME NEW a \in Accounts, NEW acc, PlainSave(a, acc)
      PROVE  Goal
  BY <1>0, <1>1, <1>2, <1>3 DEF PlainSave, Saves
<1>4. ASSUME NEW l \in Logins, AddPeer(l)
      PROVE  Goal
  <2> DEFINE a == keyIndex[login[l].key]
             p == login[l].peer
             k == login[l].key
             acc == WithPeer(mem[a], p, k)
  <2>1. /\ a \in Accounts /\ p \in Peers /\ k \in mem[a].keys
        /\ Saves(a, acc)
    BY <1>4, AddPeerSaves
  <2>2. Registration(a, p, k)
    BY <1>4 DEF AddPeer
  <2>3. mem[a] \in AccountRecords /\ WellFormed(mem[a])
    BY <2>1 DEF TypeOK
  <2>4. acc.peers = [mem[a].peers EXCEPT ![p] = k] /\ k \in Keys
    BY <2>1, <2>3, WithPeerFields DEF AccountRecords
  <2>5. Has(acc, p)
    BY <2>1, <2>3, <2>4, StoreAssumption DEF Has, AccountRecords
  <2> HIDE DEF a, p, k, acc
  <2>6. Has(mem'[a], p)
    BY <2>1, <2>5 DEF Saves, SaveAccount, TypeOK
  <2>7. CASE PersistOk /\ acked' = acked \cup {<<a, p>>}
    <3>1. <<b, q>> \in acked \/ (b = a /\ q = p)
      BY <2>7
    <3>2. Has(mem'[b], q)
      BY <1>0, <1>1, <2>1, <2>6, <3>1
    <3>3. QED
      BY <1>2, <2>7, <3>2
  <2>8. CASE PersistFails /\ UNCHANGED <<acked, granted>>
    BY <1>0, <1>1, <1>2, <2>1, <2>8
  <2>9. QED
    BY <2>2, <2>7, <2>8 DEF Registration
<1>5. ASSUME NEW p \in Peers, SavePeer(p)
      PROVE  Goal
  <2>1. /\ Has(mem[peerIndex[p]], p)
        /\ mem' = mem
        /\ Registration(peerIndex[p], p, mem[peerIndex[p]].peers[p])
    BY <1>5 DEF SavePeer, PeerAccount
  <2>2. CASE PersistOk /\ acked' = acked \cup {<<peerIndex[p], p>>}
    BY <1>0, <1>2, <2>1, <2>2
  <2>3. CASE PersistFails /\ UNCHANGED <<acked, granted>>
    BY <1>0, <1>2, <2>1, <2>3
  <2>4. QED
    BY <2>1, <2>2, <2>3 DEF Registration
\* Without a write: the file is the memory, or the promise is an unsaved one.
<1>6. ASSUME NEW p \in Peers, LoginKnownPeer(p)
      PROVE  Goal
  <2>1. PICK a \in Accounts :
          /\ Has(mem[a], p)
          /\ acked' = acked \cup {<<a, p>>}
          /\ unsaved \subseteq unsaved'
          /\ dirty => <<a, p>> \in acked \cup unsaved'
          /\ UNCHANGED <<mem, file>>
    BY <1>6, LoginKnownPeerFacts
  <2>2. CASE <<b, q>> \in acked
    BY <1>0, <2>1, <2>2
  <2>3. CASE <<b, q>> \notin acked
    BY <2>1, <2>3 DEF SerialInv
  <2>4. QED
    BY <2>2, <2>3
<1>7. ASSUME NEW p \in Peers, GetNetworkMap(p)
      PROVE  Goal
  BY <1>0, <1>7 DEF GetNetworkMap
<1>8. ASSUME NEW a \in Accounts, NEW p \in Peers, Deletes(a, p)
      PROVE  Goal
  <2>1. /\ mem' = [mem EXCEPT ![a] = WithoutPeer(mem[a], p)]
        /\ <<b, q>> \in acked
        /\ b # a \/ q # p
        /\ PersistOk \/ PersistFails
    BY <1>8 DEF Deletes, DeletePeer
  <2>2. mem[a] \in AccountRecords /\ WellFormed(mem[a])
    BY DEF TypeOK
  <2>3. WithoutPeer(mem[a], p).peers = [mem[a].peers EXCEPT ![p] = None]
    BY <2>2, WithoutPeerFields
  <2>4. mem'[b].peers[q] = mem[b].peers[q]
    <3>1. CASE b = a
      BY <3>1, <2>1, <2>2, <2>3 DEF TypeOK, AccountRecords
    <3>2. CASE b # a
      BY <3>2, <2>1 DEF TypeOK
    <3>3. QED
      BY <3>1, <3>2
  <2>5. Has(mem'[b], q)
    BY <1>0, <2>1, <2>4 DEF Has
  <2>6. QED
    BY <1>2, <2>1, <2>5
<1>9. ASSUME Restart PROVE Goal
  BY <1>0, <1>9 DEF Restart
<1>10. ASSUME Idle PROVE Goal
  BY <1>0, <1>10 DEF Idle
<1>11. ASSUME NEW a \in Accounts, NEW p \in Peers, Renames(a, p)
       PROVE  Goal
  <2>1. acked' = acked /\ (PersistOk \/ PersistFails)
    BY <1>11 DEF Renames, RenamePeer, historyVars
  <2>2. Has(mem'[b], q)
    BY <1>0, <1>11, <2>1, RenamePeerCopies
  <2>3. QED
    BY <1>2, <2>1, <2>2
<1>12. QED
  BY <1>3, <1>4, <1>5, <1>6, <1>7, <1>8, <1>9, <1>10, <1>11, StepKinds

-----------------------------------------------------------------------------
(* Serials *)

LEMMA SerialStep ==
    ASSUME TypeOK, SerialInv, [Next]_vars
    PROVE  SerialInv'
<1>0. \A a \in Accounts : seen[a] \in Nat /\ mem[a].serial \in Nat
  BY DEF TypeOK, AccountRecords
<1>1. ASSUME mem' \in [Accounts -> AccountRecords],
             \A a \in Accounts : mem[a].serial <= mem'[a].serial,
             ~lost' => ~lost, seen' = seen,
             ~dirty' => mem' = file'
      PROVE  SerialInv'
  <2>1. ASSUME NEW a \in Accounts, ~lost' PROVE seen'[a] <= mem'[a].serial
    <3>1. mem'[a].serial \in Nat
      BY <1>1 DEF AccountRecords
    <3>2. seen[a] <= mem[a].serial /\ mem[a].serial <= mem'[a].serial
      BY <1>1, <2>1 DEF SerialInv
    <3>3. QED
      BY <1>0, <1>1, <3>1, <3>2
  <2>2. QED
    BY <1>1, <2>1 DEF SerialInv
<1>2. mem' \in [Accounts -> AccountRecords]
  BY TypeStep DEF TypeOK
<1>3. ASSUME NEW a \in Accounts, NEW acc, Saves(a, acc), UNCHANGED <<seen, lost>>
      PROVE  SerialInv'
  <2>1. mem' = [mem EXCEPT ![a] = acc] /\ mem[a].serial <= acc.serial
    BY <1>3 DEF Saves, SaveAccount
  <2>2. \A b \in Accounts : mem[b].serial <= mem'[b].serial
    <3> SUFFICES ASSUME NEW b \in Accounts PROVE mem[b].serial <= mem'[b].serial
      OBVIOUS
    <3>1. CASE b = a
      BY <2>1, <3>1 DEF TypeOK
    <3>2. CASE b # a
      <4>1. mem'[b] = mem[b]
        BY <2>1, <3>2 DEF TypeOK
      <4>2. QED
        BY <1>0, <4>1
    <3>3. QED
      BY <3>1, <3>2
  <2>3. ~dirty' => mem' = file'
    BY <1>3 DEF Saves, PersistOk, PersistFails
  <2>4. QED
    BY <1>1, <1>2, <1>3, <2>2, <2>3
<1>4. ASSUME NEW l \in Logins, AddPeer(l) PROVE SerialInv'
  <2>1. UNCHANGED <<seen, lost>>
    BY <1>4 DEF AddPeer
  <2>2. QED
    BY <1>3, <1>4, <2>1, AddPeerSaves
<1>5. ASSUME NEW p \in Peers, SavePeer(p) PROVE SerialInv'
  <2>1. UNCHANGED <<mem, seen, lost>>
    BY <1>5 DEF SavePeer
  <2>2. ~dirty' => mem' = file'
    BY <1>5 DEF SavePeer, Registration, PersistOk, PersistFails
  <2>3. \A b \in Accounts : mem[b].serial <= mem'[b].serial
    BY <1>0, <2>1
  <2>4. QED
    BY <1>1, <1>2, <2>1, <2>2, <2>3
<1>6. ASSUME NEW p \in Peers, GetNetworkMap(p) PROVE SerialInv'
  <2> DEFINE a == peerIndex[p]
  <2>1. /\ a \in Accounts
        /\ seen' = [seen EXCEPT ![a] = IF mem[a].serial > seen[a]
                                       THEN mem[a].serial ELSE seen[a]]
        /\ UNCHANGED <<mem, file, dirty, lost>>
    BY <1>6 DEF GetNetworkMap, PeerAccount, TypeOK
  <2> HIDE DEF a
  <2>2. ASSUME NEW b \in Accounts, ~lost PROVE seen'[b] <= mem[b].serial
    <3>1. seen[b] <= mem[b].serial
      BY <2>2 DEF SerialInv
    <3>2. CASE b = a
      <4>1. seen'[b] = IF mem[b].serial > seen[b] THEN mem[b].serial ELSE seen[b]
        BY <2>1, <3>2 DEF TypeOK
      <4>2. QED
        BY <1>0, <3>1, <4>1
    <3>3. CASE b # a
      <4>1. seen'[b] = seen[b]
        BY <2>1, <3>3 DEF TypeOK
      <4>2. QED
        BY <3>1, <4>1
    <3>4. QED
      BY <3>2, <3>3
  <2>3. QED
    BY <2>1, <2>2 DEF SerialInv
<1>7. ASSUME NEW a \in Accounts, NEW p \in Peers, Deletes(a, p)
      PROVE  SerialInv'
  <2>1. /\ mem' = [mem EXCEPT ![a] = WithoutPeer(mem[a], p)]
        /\ UNCHANGED <<seen, lost>>
    BY <1>7 DEF Deletes, DeletePeer
  <2>2. ~dirty' => mem' = file'
    BY <1>7 DEF Deletes, DeletePeer, PersistOk, PersistFails
  <2>3. mem[a] \in AccountRecords /\ WellFormed(mem[a])
    BY DEF TypeOK
  <2>4. WithoutPeer(mem[a], p).serial = mem[a].serial
    BY <2>3, WithoutPeerFields
  <2>5. \A b \in Accounts : mem'[b].serial = mem[b].serial
    BY <2>1, <2>4 DEF TypeOK
  <2>6. \A b \in Accounts : mem[b].serial <= mem'[b].serial
    BY <1>0, <2>5
  <2>7. QED
    BY <1>1, <1>2, <2>1, <2>2, <2>6
<1>8. ASSUME Restart PROVE SerialInv'
  <2>1. mem' = file /\ file' = file /\ seen' = seen
    BY <1>8 DEF Restart
  <2>2. ~lost' => ~lost /\ ~dirty
    BY <1>8, Zenon DEF Restart
  <2>3. CASE lost'
    BY <2>1, <2>3 DEF SerialInv
  <2>4. CASE ~lost'
    <3>1. mem' = mem /\ \A a \in Accounts : seen[a] <= mem[a].serial
      BY <2>1, <2>2, <2>4 DEF SerialInv
    <3>2. QED
      BY <2>1, <3>1 DEF SerialInv
  <2>5. QED
    BY <2>3, <2>4
<1>9. ASSUME Idle PROVE SerialInv'
  BY <1>9 DEF Idle, SerialInv
<1>10. ASSUME NEW a \in Accounts, NEW p \in Peers, Renames(a, p)
       PROVE  SerialInv'
  <2>1. UNCHANGED <<seen, lost>>
    BY <1>10 DEF Renames, historyVars
  <2>2. ~dirty' => mem' = file'
    BY <1>10, RenamePeerCopies
  <2>3. \A b \in Accounts : mem'[b].serial = mem[b].serial
    BY <1>10, RenamePeerCopies
  <2>4. \A b \in Accounts : mem[b].serial <= mem'[b].serial
    BY <1>0, <2>3
  <2>5. QED
    BY <1>1, <1>2, <2>1, <2>2, <2>4
<1>11. ASSUME NEW p \in Peers, LoginKnownPeer(p) PROVE SerialInv'
  BY <1>11 DEF LoginKnownPeer, SerialInv
<1>12. QED
  BY <1>3, <1>4, <1>5, <1>6, <1>7, <1>8, <1>9, <1>10, <1>11, StepKinds DEF PlainSave

-----------------------------------------------------------------------------
(* Confirmed revocations *)

\* A thread between RevokeSetupKey and RenameSetupKey has revoked its key.
BarredInv ==
    /\ RevocationIsDurable
    /\ \A r \in Requests : request[r] \in KeyRequests =>
          request[r].key \in mem[request[r].account].revoked

\* How much of the revocations a step has to keep.
LEMMA BarredKept ==
    ASSUME TypeOK, BarredInv,
           \A b \in Accounts : mem[b].revoked \subseteq mem'[b].revoked,
           file' = mem' \/ file' = file,
           barred' = barred,
           \A r \in Requests : request'[r] \in KeyRequests => request'[r] = request[r]
    PROVE  BarredInv'
<1>1. RevocationIsDurable'
  BY DEF BarredInv, RevocationIsDurable
<1>2. ASSUME NEW r \in Requests, request'[r] \in KeyRequests
      PROVE  request'[r].key \in mem'[request'[r].account].revoked
  <2>1. request'[r] = request[r] /\ request[r].account \in Accounts
    BY <1>2 DEF KeyRequests
  <2>2. request[r].key \in mem[request[r].account].revoked
    BY <1>2, <2>1 DEF BarredInv
  <2>3. QED
    BY <2>1, <2>2
<1>3. QED
  BY <1>1, <1>2 DEF BarredInv, KeyRequests

LEMMA SavesRevoked ==
    ASSUME TypeOK, NEW a \in Accounts, NEW acc, Saves(a, acc)
    PROVE  /\ \A b \in Accounts : mem[b].revoked \subseteq mem'[b].revoked
           /\ mem'[a] = acc
           /\ file' = mem' \/ file' = file
BY DEF Saves, SaveAccount, PersistOk, PersistFails, TypeOK

\* A call of updateKey: key k of account a is revoked, and confirmed if it is
\* written.
LEMMA RevocationKept ==
    ASSUME TypeOK, BarredInv, NEW a \in Accounts, NEW k \in Keys, NEW acc,
           Saves(a, acc), k \in acc.revoked,
           barred' = barred \/ (PersistOk /\ barred' = barred \cup {<<a, k>>}),
           \A r \in Requests : request'[r] \in KeyRequests =>
               request'[r] = request[r] \/ request'[r] = [account |-> a, key |-> k]
    PROVE  BarredInv'
<1>1. /\ \A b \in Accounts : mem[b].revoked \subseteq mem'[b].revoked
      /\ mem'[a] = acc
      /\ file' = mem' \/ file' = file
  BY SavesRevoked
<1>2. RevocationIsDurable'
  <2> SUFFICES ASSUME NEW b \in Accounts, NEW k2 \in Keys, <<b, k2>> \in barred'
               PROVE  k2 \in mem'[b].revoked /\ k2 \in file'[b].revoked
    BY DEF RevocationIsDurable
  <2>1. CASE <<b, k2>> \in barred
    BY <1>1, <2>1 DEF BarredInv, RevocationIsDurable
  <2>2. CASE <<b, k2>> \notin barred
    <3>1. b = a /\ k2 = k /\ file' = mem'
      BY <2>2 DEF PersistOk
    <3>2. QED
      BY <1>1, <3>1
  <2>3. QED
    BY <2>1, <2>2
<1>3. ASSUME NEW r \in Requests, request'[r] \in KeyRequests
      PROVE  request'[r].key \in mem'[request'[r].account].revoked
  <2>1. CASE request'[r] = request[r]
    <3>1. request[r].key \in mem[request[r].account].revoked
      BY <1>3, <2>1 DEF BarredInv
    <3>2. request[r].account \in Accounts
      BY <1>3, <2>1 DEF KeyRequests
    <3>3. QED
      BY <1>1, <2>1, <3>1, <3>2
  <2>2. CASE request'[r] = [account |-> a, key |-> k]
    BY <1>1, <2>2
  <2>3. QED
    BY <1>3, <2>1, <2>2
<1>4. QED
  BY <1>2, <1>3 DEF BarredInv, KeyRequests

\* EndRequest leaves no key behind.
LEMMA EndRequestKeys ==
    ASSUME TypeOK, NEW r \in Requests, EndRequest(r), NEW q \in Requests,
           request'[q] \in KeyRequests
    PROVE  request'[q] = request[q]
<1>1. request' = [request EXCEPT ![r] = None]
  BY DEF EndRequest
<1>2. CASE q = r
  <2>1. request'[q] = None
    BY <1>1, <1>2 DEF TypeOK
  <2>2. None \notin KeyRequests
    BY StoreAssumption DEF KeyRequests
  <2>3. QED
    BY <2>1, <2>2
<1>3. CASE q # r
  BY <1>1, <1>3 DEF TypeOK
<1>4. QED
  BY <1>2, <1>3

LEMMA BarredStep ==
    ASSUME TypeOK, BarredInv, [Next]_vars
    PROVE  BarredInv'
<1>1. ASSUME NEW a \in Accounts, NEW acc, Saves(a, acc), UNCHANGED <<barred, request>>
      PROVE  BarredInv'
  BY <1>1, SavesRevoked, BarredKept
<1>2. ASSUME NEW a \in Accounts, NEW r \in Keys, NEW o \in Keys,
             CreateAccount(a, r, o)
      PROVE  BarredInv'
  <2>1. UNCHANGED <<barred, request>>
    BY <1>2 DEF CreateAccount, historyVars, threadVars
  <2>2. QED
    BY <1>1, <1>2, <2>1, CreateAccountSaves
<1>3. ASSUME NEW a \in Accounts, NEW k \in Keys, AddSetupKey(a, k)
      PROVE  BarredInv'
  <2>1. UNCHANGED <<barred, request>>
    BY <1>3 DEF AddSetupKey, historyVars, threadVars
  <2>2. QED
    BY <1>1, <1>3, <2>1, AddSetupKeySaves
<1>4. ASSUME NEW r \in Requests, NEW a \in Accounts, NEW k \in Keys,
             RevokeSetupKey(r, a, k)
      PROVE  BarredInv'
  <2>1. PICK acc : Saves(a, acc) /\ k \in acc.revoked
    BY <1>4, RevokeSetupKeySaves
  <2>2. barred' = barred \/ (PersistOk /\ barred' = barred \cup {<<a, k>>})
    BY <1>4 DEF RevokeSetupKey, ConfirmRevocation
  <2>3. \/ request' = request
        \/ request' = [request EXCEPT ![r] = [account |-> a, key |-> k]]
    BY <1>4 DEF RevokeSetupKey
  <2>4. \A q \in Requests : \/ request'[q] = request[q]
                            \/ request'[q] = [account |-> a, key |-> k]
    BY <2>3 DEF TypeOK
  <2>5. QED
    BY <2>1, <2>2, <2>4, RevocationKept
<1>5. ASSUME NEW r \in Requests, RenameRevokedKey(r) PROVE BarredInv'
  <2> DEFINE a == request[r].account
             k == request[r].key
  <2>1. a \in Accounts /\ k \in Keys /\ Saves(a, mem[a])
    BY <1>5, RenameRevokedKeySaves
  <2>2. k \in mem[a].revoked
    BY <1>5 DEF RenameRevokedKey, BarredInv
  <2>3. barred' = barred \/ (PersistOk /\ barred' = barred \cup {<<a, k>>})
    BY <1>5 DEF RenameRevokedKey, ConfirmRevocation
  <2>4. \A q \in Requests : request'[q] \in KeyRequests => request'[q] = request[q]
    BY <1>5, EndRequestKeys DEF RenameRevokedKey
  <2> HIDE DEF a, k
  <2>5. QED
    BY <2>1, <2>2, <2>3, <2>4, RevocationKept
<1>6. ASSUME NEW a \in Accounts, RenameSetupKey(a) PROVE BarredInv'
  <2>1. UNCHANGED <<barred, request>> /\ Saves(a, mem[a])
    BY <1>6, SameAccountSaves DEF RenameSetupKey, historyVars, threadVars
  <2>2. QED
    BY <1>1, <2>1
<1>7. ASSUME DeletePeerSave PROVE BarredInv'
  <2>1. UNCHANGED <<barred, request>>
    BY <1>7 DEF DeletePeerSave, historyVars, threadVars
  <2>2. QED
    BY <1>1, <1>7, <2>1, DeletePeerSaveSaves
<1>8. ASSUME NEW l \in Logins, AddPeer(l) PROVE BarredInv'
  <2>1. UNCHANGED <<barred, request>>
    BY <1>8 DEF AddPeer
  <2>2. QED
    BY <1>1, <1>8, <2>1, AddPeerSaves
<1>9. ASSUME UNCHANGED <<mem, barred>>, file' = mem' \/ file' = file,
             \A r \in Requests : request'[r] \in KeyRequests => request'[r] = request[r]
      PROVE  BarredInv'
  BY <1>9, BarredKept
<1>10. ASSUME NEW k \in Keys, Expire(k) PROVE BarredInv'
  BY <1>9, <1>10 DEF Expire, historyVars, threadVars
<1>11. ASSUME NEW l \in Logins, NEW p \in Peers, NEW k \in Keys,
              LoginGetPeer(l, p, k)
       PROVE  BarredInv'
  BY <1>9, <1>11 DEF LoginGetPeer, historyVars
<1>12. ASSUME NEW l \in Logins, AddPeerRefused(l) PROVE BarredInv'
  BY <1>9, <1>12 DEF AddPeerRefused, historyVars
<1>13. ASSUME NEW p \in Peers, SavePeer(p) PROVE BarredInv'
  <2>1. UNCHANGED <<mem, barred, request>>
    BY <1>13 DEF SavePeer, threadVars
  <2>2. file' = mem' \/ file' = file
    BY <1>13 DEF SavePeer, Registration, PersistOk, PersistFails
  <2>3. QED
    BY <1>9, <2>1, <2>2
<1>14. ASSUME NEW p \in Peers, GetNetworkMap(p) PROVE BarredInv'
  BY <1>9, <1>14 DEF GetNetworkMap, threadVars
<1>15. ASSUME NEW r \in Requests, NEW a \in Accounts, NEW p \in Peers,
              HandlePeer(r, a, p)
       PROVE  BarredInv'
  <2>1. [account |-> a, peer |-> p] \notin KeyRequests
    <3>1. DOMAIN [account |-> a, peer |-> p] = {"account", "peer"}
      OBVIOUS
    <3>2. \A x \in KeyRequests : DOMAIN x = {"account", "key"}
      BY DEF KeyRequests
    <3>3. QED
      BY <3>1, <3>2
  <2>2. request' = [request EXCEPT ![r] = [account |-> a, peer |-> p]]
    BY <1>15 DEF HandlePeer
  <2>3. \A q \in Requests : request'[q] \in KeyRequests => request'[q] = request[q]
    BY <2>1, <2>2 DEF TypeOK
  <2>4. UNCHANGED <<mem, file, barred>>
    BY <1>15 DEF HandlePeer, historyVars
  <2>5. QED
    BY <1>9, <2>3, <2>4
<1>16. ASSUME NEW r \in Requests, PeerNotFound(r) PROVE BarredInv'
  <2>1. \A q \in Requests : request'[q] \in KeyRequests => request'[q] = request[q]
    BY <1>16, EndRequestKeys DEF PeerNotFound
  <2>2. UNCHANGED <<mem, file, barred>>
    BY <1>16 DEF PeerNotFound, historyVars
  <2>3. QED
    BY <1>9, <2>1, <2>2
<1>17. ASSUME NEW r \in Requests, NEW a \in Accounts, NEW p \in Peers,
              Deletes(a, p), EndRequest(r)
       PROVE  BarredInv'
  <2>1. /\ mem' = [mem EXCEPT ![a] = WithoutPeer(mem[a], p)]
        /\ barred' = barred
        /\ file' = mem' \/ file' = file
    BY <1>17 DEF Deletes, DeletePeer, PersistOk, PersistFails
  <2>2. mem[a] \in AccountRecords /\ WellFormed(mem[a])
    BY DEF TypeOK
  <2>3. WithoutPeer(mem[a], p).revoked = mem[a].revoked
    BY <2>2, WithoutPeerFields
  <2>4. \A b \in Accounts : mem'[b].revoked = mem[b].revoked
    BY <2>1, <2>3 DEF TypeOK
  <2>5. \A q \in Requests : request'[q] \in KeyRequests => request'[q] = request[q]
    BY <1>17, EndRequestKeys
  <2>6. QED
    BY <2>1, <2>4, <2>5, BarredKept
<1>18. ASSUME NEW r \in Requests, NEW a \in Accounts, NEW p \in Peers,
              Renames(a, p), EndRequest(r)
       PROVE  BarredInv'
  <2>1. /\ \A b \in Accounts : mem'[b].revoked = mem[b].revoked
        /\ file' = mem' \/ file' = file
    BY <1>18, RenamePeerCopies
  <2>2. barred' = barred
    BY <1>18 DEF Renames, historyVars
  <2>3. \A q \in Requests : request'[q] \in KeyRequests => request'[q] = request[q]
    BY <1>18, EndRequestKeys
  <2>4. QED
    BY <2>1, <2>2, <2>3, BarredKept
<1>19. ASSUME Restart PROVE BarredInv'
  <2>1. /\ mem' = file /\ file' = file /\ barred' = barred
        /\ \A r \in Requests : request'[r] = None
    BY <1>19 DEF Restart, historyVars
  <2>2. None \notin KeyRequests
    BY StoreAssumption DEF KeyRequests
  <2>3. QED
    BY <2>1, <2>2 DEF BarredInv, RevocationIsDurable, KeyRequests
<1>20. ASSUME UNCHANGED vars PROVE BarredInv'
  BY <1>9, <1>20 DEF vars, historyVars, threadVars
<1>21. ASSUME NEW r \in Requests, deletePeer(r) \/ updatePeer(r) PROVE BarredInv'
  BY <1>17, <1>18, <1>21, RequestCalls
<1>22. ASSUME NEW p \in Peers, LoginKnownPeer(p) PROVE BarredInv'
  BY <1>9, <1>22 DEF LoginKnownPeer, threadVars
<1>23. QED
  BY <1>2, <1>3, <1>4, <1>5, <1>6, <1>7, <1>8, <1>10, <1>11, <1>12, <1>13, <1>14,
     <1>15, <1>16, <1>19, <1>20, <1>21, <1>22 DEF Next

-----------------------------------------------------------------------------
(* One-off keys *)

(***************************************************************************)
(* What the accounts m, in memory or on disk, owe the confirmed            *)
(* registrations g: accounts share no key, a one-off key has one peer, and *)
(* a confirmed one-off key is used up and has no other peer.               *)
(***************************************************************************)
KeysApart(m) ==
    \A a, b \in Accounts : a # b => m[a].keys \cap m[b].keys = {}

OnePeerPerKey(m) ==
    \A a, b \in Accounts, k \in OneOff, p, q \in Peers :
        m[a].peers[p] = k /\ m[b].peers[q] = k => p = q

GrantsKept(m, g) ==
    \A k \in OneOff, q \in Peers : <<k, q>> \in g =>
        /\ \E a \in Accounts : k \in m[a].used
        /\ \A a \in Accounts, p \in Peers : m[a].peers[p] = k => p = q

KeyInv ==
    /\ KeysApart(mem) /\ OnePeerPerKey(mem) /\ GrantsKept(mem, granted)
    /\ KeysApart(file) /\ OnePeerPerKey(file) /\ GrantsKept(file, granted \ unsaved)
    /\ OneOffKeyAdmitsOne

LEMMA SaveKeepsKeysApart ==
    ASSUME TypeOK, KeysApart(mem), NEW a \in Accounts, NEW acc, Saves(a, acc)
    PROVE  KeysApart(mem')
<1>1. /\ mem' = [mem EXCEPT ![a] = acc]
      /\ acc.keys \ mem[a].keys \subseteq UnusedKeys
  BY DEF Saves, SaveAccount
<1>2. \A b \in Accounts : b # a => acc.keys \cap mem[b].keys = {}
  BY <1>1 DEF UnusedKeys, KeysApart
<1>3. QED
  BY <1>1, <1>2 DEF KeysApart, TypeOK

\* How the file follows the memory.
LEMMA KeyInvByWrite ==
    ASSUME KeyInv, KeysApart(mem'), OnePeerPerKey(mem'),
           GrantsKept(mem', granted'), OneOffKeyAdmitsOne',
           file' = mem' \/ (UNCHANGED <<file, granted, unsaved>>)
    PROVE  KeyInv'
<1>1. CASE file' = mem'
  BY <1>1 DEF KeyInv, KeysApart, OnePeerPerKey, GrantsKept
<1>2. CASE UNCHANGED <<file, granted, unsaved>>
  BY <1>2 DEF KeyInv, KeysApart, OnePeerPerKey, GrantsKept
<1>3. QED
  BY <1>1, <1>2

\* AddPeer takes a one-off key that no account has used.
LEMMA AddPeerKeepsKeys ==
    ASSUME TypeOK, KeyInv, NEW l \in Logins, AddPeer(l)
    PROVE  KeyInv'
<1> DEFINE a == keyIndex[login[l].key]
           p == login[l].peer
           k == login[l].key
           acc == WithPeer(mem[a], p, k)
<1>1. /\ a \in Accounts /\ p \in Peers /\ k \in mem[a].keys
      /\ IsValid(mem[a], k)
      /\ Saves(a, acc)
  BY AddPeerSaves
<1>2. Registration(a, p, k)
  BY DEF AddPeer
<1>3. mem[a] \in AccountRecords /\ WellFormed(mem[a])
  BY <1>1 DEF TypeOK
<1>4. /\ acc.used = mem[a].used \cup {k}
      /\ acc.peers = [mem[a].peers EXCEPT ![p] = k]
  BY <1>1, <1>3, WithPeerFields
<1> HIDE DEF a, p, k, acc
<1>5. mem' = [mem EXCEPT ![a] = acc]
  BY <1>1 DEF Saves, SaveAccount
<1>6. mem[a].peers \in [Peers -> Keys \cup {None}]
  BY <1>3 DEF AccountRecords
<1>7. /\ \A q \in Peers : mem'[a].peers[q] = IF q = p THEN k ELSE mem[a].peers[q]
      /\ mem'[a].used = mem[a].used \cup {k}
      /\ \A b \in Accounts : b # a => mem'[b] = mem[b]
  BY <1>1, <1>4, <1>5, <1>6 DEF TypeOK
<1>8. KeysApart(mem')
  BY <1>1, SaveKeepsKeysApart DEF KeyInv
<1>9. ASSUME k \in OneOff, NEW b \in Accounts PROVE k \notin mem[b].used
  <2>1. CASE b = a
    BY <1>1, <1>9, <2>1 DEF IsValid, IsOverUsed
  <2>2. CASE b # a
    BY <1>1, <2>2 DEF KeyInv, KeysApart, TypeOK, WellFormed
  <2>3. QED
    BY <2>1, <2>2
<1>10. ASSUME k \in OneOff, NEW b \in Accounts, NEW q \in Peers
       PROVE  mem[b].peers[q] # k
  <2>1. k # None
    BY <1>10, StoreAssumption
  <2>2. QED
    BY <1>9, <1>10, <2>1 DEF TypeOK, Counted, Has
<1>11. ASSUME k \in OneOff, NEW q \in Peers PROVE <<k, q>> \notin granted
  BY <1>9, <1>11 DEF KeyInv, GrantsKept
<1>12. OnePeerPerKey(mem')
  <2> SUFFICES ASSUME NEW b \in Accounts, NEW c \in Accounts, NEW k2 \in OneOff,
                      NEW q \in Peers, NEW r \in Peers,
                      mem'[b].peers[q] = k2, mem'[c].peers[r] = k2
               PROVE  q = r
    BY DEF OnePeerPerKey
  <2>1. CASE k2 = k
    <3>1. ASSUME NEW d \in Accounts, NEW s \in Peers, mem'[d].peers[s] = k
          PROVE  s = p
      BY <1>7, <1>10, <2>1, <3>1
    <3>2. QED
      BY <2>1, <3>1
  <2>2. CASE k2 # k
    <3>1. mem[b].peers[q] = k2 /\ mem[c].peers[r] = k2
      BY <1>7, <2>2
    <3>2. QED
      BY <3>1 DEF KeyInv, OnePeerPerKey
  <2>3. QED
    BY <2>1, <2>2
<1>13. ASSUME NEW k2 \in OneOff, NEW q \in Peers,
              <<k2, q>> \in granted \/ (k2 = k /\ q = p)
       PROVE  /\ \E b \in Accounts : k2 \in mem'[b].used
              /\ \A b \in Accounts, r \in Peers : mem'[b].peers[r] = k2 => r = q
  <2>1. CASE k2 = k
    <3>1. q = p
      BY <1>11, <1>13, <2>1
    <3>2. k2 \in mem'[a].used
      BY <1>7, <2>1
    <3>3. ASSUME NEW b \in Accounts, NEW r \in Peers, mem'[b].peers[r] = k2
          PROVE  r = q
      <4>1. CASE b = a
        BY <1>1, <1>7, <1>10, <1>13, <2>1, <3>1, <3>3, <4>1
      <4>2. CASE b # a
        BY <1>7, <1>10, <1>13, <2>1, <3>3, <4>2
      <4>3. QED
        BY <4>1, <4>2
    <3>4. QED
      BY <1>1, <3>2, <3>3
  <2>2. CASE k2 # k
    <3>1. <<k2, q>> \in granted
      BY <1>13, <2>2
    <3>2. PICK b \in Accounts : k2 \in mem[b].used
      BY <1>13, <3>1 DEF KeyInv, GrantsKept
    <3>3. k2 \in mem'[b].used
      BY <1>7, <3>2
    <3>4. ASSUME NEW c \in Accounts, NEW r \in Peers, mem'[c].peers[r] = k2
          PROVE  r = q
      <4>1. mem[c].peers[r] = k2
        BY <1>1, <1>7, <2>2, <3>4
      <4>2. QED
        BY <1>13, <3>1, <4>1 DEF KeyInv, GrantsKept
    <3>5. QED
      BY <3>3, <3>4
  <2>3. QED
    BY <2>1, <2>2
<1>14. CASE /\ PersistOk
            /\ granted' = granted \cup Grant(k, p)
  <2>1. ASSUME NEW k2 \in OneOff, NEW q \in Peers, <<k2, q>> \in granted'
        PROVE  <<k2, q>> \in granted \/ (k2 = k /\ q = p)
    BY <1>14, <2>1 DEF Grant
  <2>2. GrantsKept(mem', granted')
    BY <1>13, <2>1 DEF GrantsKept
  <2>3. OneOffKeyAdmitsOne'
    <3> SUFFICES ASSUME NEW k2 \in OneOff, NEW q \in Peers, NEW r \in Peers,
                        <<k2, q>> \in granted', <<k2, r>> \in granted'
                 PROVE  q = r
      BY DEF OneOffKeyAdmitsOne
    <3>1. CASE k2 = k
      BY <1>11, <2>1, <3>1
    <3>2. CASE k2 # k
      BY <2>1, <3>2 DEF KeyInv, OneOffKeyAdmitsOne
    <3>3. QED
      BY <3>1, <3>2
  <2>4. file' = mem'
    BY <1>14 DEF PersistOk
  <2>5. QED
    BY <1>8, <1>12, <2>2, <2>3, <2>4, KeyInvByWrite
<1>15. CASE PersistFails /\ UNCHANGED <<acked, granted>>
  <2>1. GrantsKept(mem', granted')
    BY <1>13, <1>15 DEF GrantsKept
  <2>2. OneOffKeyAdmitsOne'
    BY <1>15 DEF KeyInv, OneOffKeyAdmitsOne
  <2>3. UNCHANGED <<file, granted, unsaved>>
    BY <1>15 DEF PersistFails
  <2>4. QED
    BY <1>8, <1>12, <2>1, <2>2, <2>3, KeyInvByWrite
<1>16. QED
  BY <1>2, <1>14, <1>15 DEF Registration

\* A peer may be confirmed that an AddPeer left in memory when its write
\* failed: nobody else has its key.
LEMMA ConfirmKeepsGrants ==
    ASSUME TypeOK, KeyInv, NEW a \in Accounts, NEW p \in Peers, NEW k \in Keys,
           Has(mem[a], p), mem[a].peers[p] = k,
           mem' = mem, granted' = granted \cup Grant(k, p)
    PROVE  /\ KeysApart(mem') /\ OnePeerPerKey(mem')
           /\ GrantsKept(mem', granted')
           /\ OneOffKeyAdmitsOne'
<1>2. \E b \in Accounts : k \in mem[b].used
  BY DEF TypeOK, Counted
<1>4. KeysApart(mem') /\ OnePeerPerKey(mem')
  BY DEF KeyInv
<1>5. ASSUME k \in OneOff, NEW b \in Accounts, NEW q \in Peers,
             mem[b].peers[q] = k
      PROVE  q = p
  BY <1>5 DEF KeyInv, OnePeerPerKey
<1>6. ASSUME k \in OneOff, NEW q \in Peers, <<k, q>> \in granted PROVE q = p
  BY <1>6 DEF KeyInv, GrantsKept
<1>7. ASSUME NEW k2 \in OneOff, NEW q \in Peers, <<k2, q>> \in granted'
      PROVE  <<k2, q>> \in granted \/ (k2 = k /\ q = p)
  BY <1>7 DEF Grant
<1>8. GrantsKept(mem', granted')
  <2> SUFFICES ASSUME NEW k2 \in OneOff, NEW q \in Peers, <<k2, q>> \in granted'
               PROVE  /\ \E b \in Accounts : k2 \in mem[b].used
                      /\ \A b \in Accounts, r \in Peers :
                            mem[b].peers[r] = k2 => r = q
    BY DEF GrantsKept
  <2>1. CASE <<k2, q>> \in granted
    BY <2>1 DEF KeyInv, GrantsKept
  <2>2. CASE k2 = k /\ q = p
    BY <1>2, <1>5, <2>2
  <2>3. QED
    BY <1>7, <2>1, <2>2
<1>9. OneOffKeyAdmitsOne'
  <2> SUFFICES ASSUME NEW k2 \in OneOff, NEW q \in Peers, NEW r \in Peers,
                      <<k2, q>> \in granted', <<k2, r>> \in granted'
               PROVE  q = r
    BY DEF OneOffKeyAdmitsOne
  <2>1. CASE k2 = k
    BY <1>6, <1>7, <2>1
  <2>2. CASE k2 # k
    BY <1>7, <2>2 DEF KeyInv, OneOffKeyAdmitsOne
  <2>3. QED
    BY <2>1, <2>2
<1>10. QED
  BY <1>4, <1>8, <1>9

LEMMA SavePeerKeepsKeys ==
    ASSUME TypeOK, KeyInv, NEW p \in Peers, SavePeer(p)
    PROVE  KeyInv'
<1> DEFINE a == peerIndex[p]
           k == mem[a].peers[p]
<1>1. /\ a \in Accounts
      /\ mem' = mem
      /\ Registration(a, p, k)
      /\ Has(mem[a], p)
  BY DEF SavePeer, PeerAccount, TypeOK
<1>2. k \in Keys
  BY <1>1 DEF TypeOK, AccountRecords, Has
<1>3. mem[a].peers[p] = k
  OBVIOUS
<1> HIDE DEF a, k
<1>4. CASE /\ PersistOk
           /\ granted' = granted \cup Grant(k, p)
  <2>1. file' = mem'
    BY <1>4 DEF PersistOk
  <2>2. QED
    BY <1>1, <1>2, <1>3, <1>4, <2>1, ConfirmKeepsGrants, KeyInvByWrite
<1>5. CASE PersistFails /\ UNCHANGED <<acked, granted>>
  BY <1>1, <1>5 DEF PersistFails, KeyInv, OneOffKeyAdmitsOne
<1>6. QED
  BY <1>1, <1>4, <1>5 DEF Registration

LEMMA LoginKnownPeerKeepsKeys ==
    ASSUME TypeOK, SerialInv, KeyInv, NEW p \in Peers, LoginKnownPeer(p)
    PROVE  KeyInv'
<1>1. PICK a \in Accounts, k \in Keys :
          /\ Has(mem[a], p) /\ mem[a].peers[p] = k
          /\ granted' = granted \cup Grant(k, p)
          /\ unsaved \subseteq unsaved'
          /\ dirty => Grant(k, p) \subseteq granted \cup unsaved'
          /\ UNCHANGED <<mem, file>>
  BY LoginKnownPeerFacts
<1>2. /\ KeysApart(mem') /\ OnePeerPerKey(mem')
      /\ GrantsKept(mem', granted')
      /\ OneOffKeyAdmitsOne'
  BY <1>1, ConfirmKeepsGrants
<1>3. GrantsKept(file', granted' \ unsaved')
  <2>1. CASE dirty
    <3>1. granted' \ unsaved' \subseteq granted \ unsaved
      BY <1>1, <2>1
    <3>2. QED
      BY <1>1, <3>1 DEF KeyInv, GrantsKept
  <2>2. CASE ~dirty
    BY <1>1, <1>2, <2>2 DEF SerialInv, GrantsKept
  <2>3. QED
    BY <2>1, <2>2
<1>4. QED
  BY <1>1, <1>2, <1>3 DEF KeyInv

LEMMA KeyStep ==
    ASSUME TypeOK, SerialInv, KeyInv, [Next]_vars
    PROVE  KeyInv'
<1>1. ASSUME NEW a \in Accounts, NEW acc, PlainSave(a, acc) PROVE KeyInv'
  <2>1. /\ Saves(a, acc)
        /\ acc.peers = mem[a].peers
        /\ mem[a].used \subseteq acc.used
        /\ mem' = [mem EXCEPT ![a] = acc]
        /\ granted' = granted
    BY <1>1 DEF PlainSave, Saves, SaveAccount
  <2>2. KeysApart(mem')
    BY <2>1, SaveKeepsKeysApart DEF KeyInv
  <2>3. \A b \in Accounts : mem'[b].peers = mem[b].peers
                              /\ mem[b].used \subseteq mem'[b].used
    BY <2>1 DEF TypeOK
  <2>4. OnePeerPerKey(mem')
    BY <2>3 DEF KeyInv, OnePeerPerKey
  <2>5. GrantsKept(mem', granted')
    BY <2>1, <2>3 DEF KeyInv, GrantsKept
  <2>6. OneOffKeyAdmitsOne'
    BY <2>1 DEF KeyInv, OneOffKeyAdmitsOne
  <2>7. file' = mem' \/ UNCHANGED <<file, unsaved>>
    BY <2>1 DEF Saves, PersistOk, PersistFails
  <2>8. QED
    BY <2>1, <2>2, <2>4, <2>5, <2>6, <2>7, KeyInvByWrite
<1>2. ASSUME NEW a \in Accounts, NEW p \in Peers, Deletes(a, p) PROVE KeyInv'
  <2>1. /\ mem' = [mem EXCEPT ![a] = WithoutPeer(mem[a], p)]
        /\ granted' = granted
        /\ file' = mem' \/ UNCHANGED <<file, unsaved>>
    BY <1>2 DEF Deletes, DeletePeer, PersistOk, PersistFails
  <2>2. mem[a] \in AccountRecords /\ WellFormed(mem[a])
    BY DEF TypeOK
  <2>3. /\ WithoutPeer(mem[a], p).peers = [mem[a].peers EXCEPT ![p] = None]
        /\ WithoutPeer(mem[a], p).keys = mem[a].keys
        /\ WithoutPeer(mem[a], p).used = mem[a].used
    BY <2>2, WithoutPeerFields
  <2>4. mem[a].peers \in [Peers -> Keys \cup {None}]
    BY <2>2 DEF AccountRecords
  <2>5. \A b \in Accounts : /\ mem'[b].keys = mem[b].keys
                             /\ mem'[b].used = mem[b].used
    BY <2>1, <2>3 DEF TypeOK
  <2>6. ASSUME NEW b \in Accounts, NEW q \in Peers, NEW k \in OneOff,
               mem'[b].peers[q] = k
        PROVE  mem[b].peers[q] = k
    <3>1. k # None
      BY StoreAssumption
    <3>2. CASE b = a
      BY <2>1, <2>3, <2>4, <2>6, <3>1, <3>2 DEF TypeOK
    <3>3. CASE b # a
      BY <2>1, <2>6, <3>3 DEF TypeOK
    <3>4. QED
      BY <3>2, <3>3
  <2>7. KeysApart(mem')
    BY <2>5 DEF KeyInv, KeysApart
  <2>8. OnePeerPerKey(mem')
    BY <2>6 DEF KeyInv, OnePeerPerKey
  <2>9. GrantsKept(mem', granted')
    BY <2>1, <2>5, <2>6 DEF KeyInv, GrantsKept
  <2>10. OneOffKeyAdmitsOne'
    BY <2>1 DEF KeyInv, OneOffKeyAdmitsOne
  <2>11. QED
    BY <2>1, <2>7, <2>8, <2>9, <2>10, KeyInvByWrite
<1>3. ASSUME Restart PROVE KeyInv'
  <2>1. mem' = file /\ file' = file /\ granted' = granted \ unsaved /\ unsaved' = {}
    BY <1>3 DEF Restart
  <2>2. OneOffKeyAdmitsOne'
    BY <2>1 DEF KeyInv, OneOffKeyAdmitsOne
  <2>3. GrantsKept(file', granted' \ unsaved')
    BY <2>1 DEF KeyInv, GrantsKept
  <2>4. QED
    BY <2>1, <2>2, <2>3 DEF KeyInv
<1>4. ASSUME UNCHANGED <<mem, file, granted, unsaved>> PROVE KeyInv'
  BY <1>4 DEF KeyInv, OneOffKeyAdmitsOne
<1>5. ASSUME NEW a \in Accounts, NEW p \in Peers, Renames(a, p) PROVE KeyInv'
  <2>1. /\ granted' = granted
        /\ file' = mem' \/ UNCHANGED <<file, unsaved>>
        /\ \A b \in Accounts : /\ mem'[b].keys = mem[b].keys
                               /\ mem'[b].used = mem[b].used
    BY <1>5, RenamePeerCopies
       DEF Renames, RenamePeer, PersistOk, PersistFails, historyVars
  <2>2. ASSUME NEW b \in Accounts, NEW q \in Peers, NEW k \in OneOff,
               mem'[b].peers[q] = k
        PROVE  \E c \in Accounts : mem[c].peers[q] = k
    <3>1. k # None
      BY StoreAssumption
    <3>2. QED
      BY <1>5, <2>2, <3>1, RenamePeerCopies DEF Has
  <2>3. KeysApart(mem')
    BY <2>1 DEF KeyInv, KeysApart
  <2>4. OnePeerPerKey(mem')
    BY <2>2 DEF KeyInv, OnePeerPerKey
  <2>5. GrantsKept(mem', granted')
    BY <2>1, <2>2 DEF KeyInv, GrantsKept
  <2>6. OneOffKeyAdmitsOne'
    BY <2>1 DEF KeyInv, OneOffKeyAdmitsOne
  <2>7. QED
    BY <2>1, <2>3, <2>4, <2>5, <2>6, KeyInvByWrite
<1>6. QED
  BY <1>1, <1>2, <1>3, <1>4, <1>5, AddPeerKeepsKeys, SavePeerKeepsKeys,
     LoginKnownPeerKeepsKeys, StepKinds
     DEF Idle, GetNetworkMap

-----------------------------------------------------------------------------
(* The theorems *)

StoreInv == TypeOK /\ IndexedPeerExists /\ AckInv /\ SerialInv /\ BarredInv /\ KeyInv

LEMMA StoreInvInit == Init => StoreInv
<1> SUFFICES ASSUME Init PROVE StoreInv
  OBVIOUS
<1>1. \A a \in Accounts : mem[a] = NoAccount /\ file[a] = NoAccount
  BY DEF Init
<1>2. /\ mem \in [Accounts -> AccountRecords]
      /\ file \in [Accounts -> AccountRecords]
  BY NoAccountFields DEF Init
<1>3. \A a \in Accounts : WellFormed(mem[a]) /\ WellFormed(file[a])
  BY <1>1, NoAccountFields
<1>4. 0 \in 0..MaxFailures
  BY StoreAssumption
<1>5. Counted(mem) /\ Counted(file)
  BY <1>1, NoAccountFields DEF Counted
<1>6. TypeOK
  BY <1>2, <1>3, <1>4, <1>5 DEF Init, TypeOK
<1>7. IndexedPeerExists /\ AckInv
  BY DEF Init, IndexedPeerExists, AckInv
<1>8. SerialInv
  BY <1>1 DEF Init, SerialInv, NoAccount
<1>9. KeysApart(mem) /\ KeysApart(file)
  BY <1>1 DEF KeysApart, NoAccount
<1>10. OnePeerPerKey(mem) /\ OnePeerPerKey(file)
  BY <1>1, StoreAssumption DEF OnePeerPerKey, NoAccount
<1>11. KeyInv
  BY <1>9, <1>10 DEF Init, KeyInv, GrantsKept, OneOffKeyAdmitsOne
<1>12. BarredInv
  <2>1. None \notin KeyRequests
    BY StoreAssumption DEF KeyRequests
  <2>2. QED
    BY <2>1 DEF Init, BarredInv, RevocationIsDurable
<1>13. QED
  BY <1>6, <1>7, <1>8, <1>11, <1>12 DEF StoreInv

LEMMA StoreInvStep == StoreInv /\ [Next]_vars => StoreInv'
BY TypeStep, IndexStep, AckStep, SerialStep, BarredStep, KeyStep DEF StoreInv

\* The inductive invariant holds throughout.
THEOREM StoreInvariant == Spec => []StoreInv
BY StoreInvInit, StoreInvStep, PTL DEF Spec

(***************************************************************************)
(* Accounts stay well-formed in memory and in the file, whatever writes    *)
(* fail and wherever the process crashes.                                  *)
(***************************************************************************)
THEOREM StoreTypeCorrect == Spec => []TypeOK
<1>1. StoreInv => TypeOK
  BY DEF StoreInv
<1>2. QED
  BY <1>1, StoreInvariant, PTL

(***************************************************************************)
(* Every peer that the service confirmed survives a crash until its        *)
(* deletion (peer.go:371-382, file_store.go:135-163), also one confirmed   *)
(* by a Login without a write (grpcserver.go:278), unless a failed write   *)
(* was outstanding then and no write has succeeded since.                  *)
(***************************************************************************)
THEOREM ConfirmedPeersSurvive == Spec => []ConfirmedPeerIsDurable
<1>1. StoreInv => ConfirmedPeerIsDurable
  BY DEF StoreInv, AckInv, ConfirmedPeerIsDurable
<1>2. QED
  BY <1>1, StoreInvariant, PTL

(***************************************************************************)
(* A revocation that was confirmed survives failing writes and crashes     *)
(* (setupkeys.go:61-80, account.go:203-257).                               *)
(***************************************************************************)
THEOREM RevocationsAreDurable == Spec => []RevocationIsDurable
<1>1. StoreInv => RevocationIsDurable
  BY DEF StoreInv, BarredInv
<1>2. QED
  BY <1>1, StoreInvariant, PTL

(***************************************************************************)
(* A one-off setup key is never confirmed for a second peer                *)
(* (peer.go:303-383, setupkey.go:81-83), as long as the first confirmation *)
(* was not one of an unwritten registration that a crash took back         *)
(* (grpcserver.go:278).                                                    *)
(***************************************************************************)
THEOREM OneOffKeysAdmitOne == Spec => []OneOffKeyAdmitsOne
<1>1. StoreInv => OneOffKeyAdmitsOne
  BY DEF StoreInv, KeyInv
<1>2. QED
  BY <1>1, StoreInvariant, PTL

(***************************************************************************)
(* As long as no write fails, no restart lowers a serial that a client has *)
(* seen (network.go:49, engine.go:438).                                    *)
(***************************************************************************)
THEOREM SeenSerialsAreDurable == Spec => []SeenSerialIsDurable
<1>1. StoreInv => SeenSerialIsDurable
  BY DEF StoreInv, SerialInv, SeenSerialIsDurable
<1>2. QED
  BY <1>1, StoreInvariant, PTL

(***************************************************************************)
(* The peer index names no account that lacks the peer                     *)
(* (file_store.go:181-182, 239-241).                                       *)
(***************************************************************************)
THEOREM IndexIsSound == Spec => []IndexedPeerExists
<1>1. StoreInv => IndexedPeerExists
  BY DEF StoreInv
<1>2. QED
  BY <1>1, StoreInvariant, PTL
=============================================================================
