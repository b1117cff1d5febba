---------------------------- MODULE AccessRules ----------------------------
(***************************************************************************)
(* Which peers a peer gets to see: the groups and rules of one account     *)
(* (management/server/group.go, rule.go and the HTTP handlers groups.go,   *)
(* rules.go), the two indexes the file store keeps from peers to rules     *)
(* (file_store.go) and GetNetworkMap, which reads them (peer.go); and the  *)
(* addresses the peers get from the account's Network.                     *)
(*                                                                         *)
(* The indexes only grow while the service runs; restore builds them from  *)
(* the file.  SaveAccount panics when a rule names a group that is gone:   *)
(* an HTTP handler survives that, with the memory changed, nothing written *)
(* and the indexes half updated, while a gRPC handler and the start of the *)
(* service do not.                                                         *)
(***************************************************************************)
EXTENDS Naturals, FiniteSets, Network

CONSTANTS
    Peers,
    Groups,       \* IDs of groups
    Rules,        \* IDs of rules
    None,
    MaxChanges    \* bound on what administrators change

\* A group is its list of peers, taken as a set, and whether its name is
\* "All"; a rule is its two lists of group IDs.
GroupType == [peers : SUBSET Peers, all : BOOLEAN]
RuleType == [src : SUBSET Groups, dst : SUBSET Groups]

\* A peer that comes from another account may have an address of another
\* network, any of which is OtherIP.  Networks are equal or disjoint.
OtherIP == LastIP + 1
PeerIPs == IPs \union {OtherIP}

ASSUME AccessAssumption ==
    /\ None \notin GroupType /\ None \notin RuleType /\ None \notin PeerIPs
    /\ MaxChanges \in Nat

VARIABLES
    mem,         \* the account in memory: its Peers, Groups and Rules
    file,        \* the account in store.json
    srcIndex,    \* PeerKeyId2SrcRulesId; no entry is the empty set
    dstIndex,    \* PeerKeyId2DstRulesId
    shared,      \* the groups whose peer lists share one array
    service,     \* "up" or "down"
    changes,     \* number of administrators' changes
    covered,     \* history: SaveAccount has seen all of the memory's groups
    shrunk,      \* history: a peer lost a role in a rule since the start
    imported     \* history: the peers whose entry was another account's

vars == <<mem, file, srcIndex, dstIndex, shared, service, changes, covered, shrunk, imported>>

-----------------------------------------------------------------------------
(* Accounts: None stands for a group or rule that does not exist, and for    *)
(* the address of a peer that is not in the account.                         *)

AccountType == [ip : [Peers -> PeerIPs \union {None}],
                groups : [Groups -> GroupType \union {None}],
                rules : [Rules -> RuleType \union {None}]]

PeersIn(acc) == {p \in Peers : acc.ip[p] # None}

TakenIPs(acc) == {acc.ip[p] : p \in PeersIn(acc)}

Existing(acc) == {g \in Groups : acc.groups[g] # None}

PeersOf(acc, gs) == UNION {acc.groups[g].peers : g \in gs \cap Existing(acc)}

SrcPeers(acc, r) == IF acc.rules[r] = None THEN {} ELSE PeersOf(acc, acc.rules[r].src)
DstPeers(acc, r) == IF acc.rules[r] = None THEN {} ELSE PeersOf(acc, acc.rules[r].dst)

\* Rule r names a group that does not exist.
Dangling(acc, r) ==
    acc.rules[r] # None /\ ~(acc.rules[r].src \union acc.rules[r].dst \subseteq Existing(acc))

HasDangling(acc) == \E r \in Rules : Dangling(acc, r)

\* addAllGroup: an account without groups gets the group All and the rule
\* Default, which replaces all of its rules.
addAllGroup(acc, g, r) ==
    IF Existing(acc) # {} THEN acc
    ELSE [acc EXCEPT !.groups = [acc.groups EXCEPT ![g] = [peers |-> PeersIn(acc), all |-> TRUE]],
                     !.rules = [s \in Rules |-> IF s = r THEN [src |-> {g}, dst |-> {g}]
                                                ELSE None]]

\* GetGroupAll finds one of the groups with that name.
GetGroupAll == {g \in Existing(mem) : mem.groups[g].all}

EmptyAccount == [ip |-> [p \in Peers |-> None], groups |-> [g \in Groups |-> None],
                 rules |-> [r \in Rules |-> None]]

\* createAccount.
Init ==
    /\ \E g \in Groups, r \in Rules : mem = addAllGroup(EmptyAccount, g, r)
    /\ file = mem
    /\ srcIndex = [p \in Peers |-> {}]
    /\ dstIndex = [p \in Peers |-> {}]
    /\ shared = {}
    /\ service = "up"
    /\ changes = 0
    /\ covered = TRUE
    /\ shrunk = FALSE
    /\ imported = {}

-----------------------------------------------------------------------------
(* The file store *)

\* The roles a peer had in a rule and has not in acc.
Shrinks(acc) ==
    \E r \in Rules : \/ ~(SrcPeers(mem, r) \subseteq SrcPeers(acc, r))
                     \/ ~(DstPeers(mem, r) \subseteq DstPeers(acc, r))

\* The account is in the file, or the write has failed.
Persist == file' = mem' \/ UNCHANGED file

\* Mutant: the destinations are indexed for new rules only.
SaveAccountNewRules(acc) ==
    /\ ~HasDangling(acc)
    /\ srcIndex' = [p \in Peers |-> srcIndex[p] \union {r \in Rules : p \in SrcPeers(acc, r)}]
    /\ dstIndex' = [p \in Peers |-> dstIndex[p] \union
                       {r \in Rules : mem.rules[r] = None /\ p \in DstPeers(acc, r)}]
    /\ covered' = TRUE

\* SaveAccount adds every peer of every group to the indexes.
SaveAccount(acc) ==
    /\ ~HasDangling(acc)
    /\ srcIndex' = [p \in Peers |-> srcIndex[p] \union {r \in Rules : p \in SrcPeers(acc, r)}]
    /\ dstIndex' = [p \in Peers |-> dstIndex[p] \union {r \in Rules : p \in DstPeers(acc, r)}]
    /\ covered' = TRUE

\* It takes the rules in any order until it comes to a group that is gone:
\* the rules in "done" are indexed, and of rule r the sources in S and, once
\* these are through, the destinations in D.
SaveAccountPanics(acc) ==
    /\ \E r \in Rules :
          /\ Dangling(acc, r)
          /\ \E done \in SUBSET {s \in Rules : ~Dangling(acc, s)},
                S \in SUBSET (acc.rules[r].src \cap Existing(acc)),
                D \in SUBSET (acc.rules[r].dst \cap Existing(acc)) :
                /\ D # {} => S = acc.rules[r].src
                /\ srcIndex' = [p \in Peers |-> srcIndex[p] \union
                                   {s \in done : p \in SrcPeers(acc, s)} \union
                                   (IF p \in PeersOf(acc, S) THEN {r} ELSE {})]
                /\ dstIndex' = [p \in Peers |-> dstIndex[p] \union
                                   {s \in done : p \in DstPeers(acc, s)} \union
                                   (IF p \in PeersOf(acc, D) THEN {r} ELSE {})]
    /\ covered' = FALSE

\* The HTTP server recovers the panic of a handler; the memory stays as it is.
SaveAccountHTTP(acc) ==
    /\ mem' = acc
    /\ shrunk' = (shrunk \/ Shrinks(acc))
    /\ \/ SaveAccount(acc) /\ Persist
       \/ SaveAccountPanics(acc) /\ UNCHANGED file

Change ==
    /\ service = "up"
    /\ changes < MaxChanges
    /\ changes' = changes + 1
    /\ UNCHANGED <<service, imported>>

\* The process ends, by a panic in a gRPC handler or for any other reason; a
\* new one that cannot write the file, or panics, ends as well.
Crash ==
    /\ service' = "down"
    /\ UNCHANGED <<mem, file, srcIndex, dstIndex, shared, changes, covered, shrunk, imported>>

-----------------------------------------------------------------------------
(* Groups and rules.  A request names any ID, and any groups and peers. *)

SaveGroup(g, group) ==
    SaveAccountHTTP([mem EXCEPT !.groups = [mem.groups EXCEPT ![g] = group]])

CreateOrUpdateGroupHandler(g, group) ==
    /\ Change
    /\ SaveGroup(g, group)
    /\ shared' = shared \ {g}

DeleteGroup(g) ==
    SaveAccountHTTP([mem EXCEPT !.groups = [mem.groups EXCEPT ![g] = None]])

DeleteGroupHandler(g) ==
    /\ Change
    /\ DeleteGroup(g)
    /\ shared' = shared \ {g}

SaveRule(r, rule) ==
    SaveAccountHTTP([mem EXCEPT !.rules = [mem.rules EXCEPT ![r] = rule]])

CreateOrUpdateRuleHandler(r, rule) ==
    /\ Change
    /\ SaveRule(r, rule)
    /\ UNCHANGED shared

DeleteRule(r) ==
    SaveAccountHTTP([mem EXCEPT !.rules = [mem.rules EXCEPT ![r] = None]])

DeleteRuleHandler(r) ==
    /\ Change
    /\ DeleteRule(r)
    /\ UNCHANGED shared

-----------------------------------------------------------------------------
(* Peers *)

\* What may become of a peer list when p is appended to another list that
\* shares its array.
Overwritten(ps, p) ==
    {ps, ps \union {p}} \union {(ps \ {q}) \union {p} : q \in ps}

\* The groups with p appended to group g.
Appended(acc, g, p) ==
    {gs \in [Groups -> GroupType \union {None}] :
        \A h \in Groups :
            CASE acc.groups[h] = None -> gs[h] = None
              [] h = g -> gs[h] = [acc.groups[g] EXCEPT !.peers = @ \union {p}]
              [] OTHER -> /\ gs[h] # None
                          /\ gs[h].all = acc.groups[h].all
                          /\ gs[h].peers \in IF {g, h} \subseteq shared
                                             THEN Overwritten(acc.groups[h].peers, p)
                                             ELSE {acc.groups[h].peers}}

\* AddPeer: into the group All and the account, over the entry another Login
\* may have made.  Its panic ends the process.
AddPeer(p) ==
    /\ service = "up"
    /\ \E ip \in AllocatePeerIP(TakenIPs(mem)), g \in GetGroupAll :
       \E gs \in Appended(mem, g, p) :
          LET acc == [mem EXCEPT !.groups = gs, !.ip = [mem.ip EXCEPT ![p] = ip]]
          IN  \/ /\ mem' = acc
                 /\ shrunk' = (shrunk \/ Shrinks(acc))
                 /\ SaveAccount(acc)
                 /\ Persist
                 /\ UNCHANGED <<shared, service, changes, imported>>
              \/ HasDangling(acc) /\ Crash

\* The store's SavePeer of an entry for p with address ip: the peer is put
\* into the group All, and the indexes do not learn of that.
StoreSavePeer(p, ip) ==
    /\ \E g \in GetGroupAll :
          \/ /\ p \in mem.groups[g].peers
             /\ mem' = [mem EXCEPT !.ip = [mem.ip EXCEPT ![p] = ip]]
             /\ UNCHANGED <<covered, shrunk>>
          \/ /\ p \notin mem.groups[g].peers
             /\ covered' = FALSE
             /\ \E gs \in Appended(mem, g, p) :
                   LET acc == [mem EXCEPT !.groups = gs, !.ip = [mem.ip EXCEPT ![p] = ip]]
                   IN  mem' = acc /\ shrunk' = (shrunk \/ Shrinks(acc))
    /\ Persist
    /\ UNCHANGED <<srcIndex, dstIndex, shared>>

\* SavePeer of a peer of the account that logs in, connects or gets a name.
SavePeer(p) ==
    /\ service = "up"
    /\ p \in PeersIn(mem)
    /\ StoreSavePeer(p, mem.ip[p])
    /\ UNCHANGED <<service, changes, imported>>

\* RenamePeer of a peer that is by now another account's, too: this account
\* gets the entry of that one, address included.
RenamePeer(p, ip) ==
    /\ service = "up"
    /\ changes < MaxChanges
    /\ StoreSavePeer(p, ip)
    /\ imported' = imported \union {p}
    /\ changes' = changes + 1
    /\ UNCHANGED service

\* The groups after FileStore.DeletePeer: one list grows from group to group,
\* in the order of a Go map, and each group keeps what it is then.
RemainingPeers(order, p) ==
    [g \in Groups |->
        IF mem.groups[g] = None THEN None
        ELSE [mem.groups[g] EXCEPT
                 !.peers = (UNION {mem.groups[h].peers :
                                      h \in {h \in Existing(mem) : order[h] <= order[g]}}) \ {p}]]

Orders == {f \in [Existing(mem) -> 1..Cardinality(Existing(mem))] :
              \A g, h \in Existing(mem) : f[g] = f[h] => g = h}

\* DeletePeer: the store's, which writes, and then SaveAccount.
DeletePeer(p) ==
    /\ Change
    /\ p \in PeersIn(mem)
    /\ \E order \in Orders :
          LET acc == [mem EXCEPT !.groups = RemainingPeers(order, p),
                                !.ip = [mem.ip EXCEPT ![p] = None]]
          IN  /\ mem' = acc
              /\ shrunk' = (shrunk \/ Shrinks(acc))
              /\ \/ file' = acc /\ (SaveAccount(acc) \/ SaveAccountPanics(acc))
                 \/ UNCHANGED <<file, srcIndex, dstIndex>> /\ covered' = FALSE
    /\ shared' = Existing(mem)

\* GetPeerSrcRules and GetPeerDstRules: the rules of the index that exist.
GetPeerSrcRules(p) == {r \in srcIndex[p] : mem.rules[r] # None}
GetPeerDstRules(p) == {r \in dstIndex[p] : mem.rules[r] # None}

\* The groups GetNetworkMap looks at; none when p is missing in an index.
MapGroups(p) ==
    IF srcIndex[p] = {} \/ dstIndex[p] = {} THEN {}
    ELSE (UNION {mem.rules[r].dst : r \in GetPeerSrcRules(p)}) \union
         (UNION {mem.rules[r].src : r \in GetPeerDstRules(p)})

\* GetNetworkMap: the account's peers in these groups.
GetNetworkMap(p) == (PeersOf(mem, MapGroups(p)) \cap PeersIn(mem)) \ {p}

\* A group that is gone makes it panic, in a gRPC handler.
GetNetworkMapPanics(p) ==
    /\ service = "up"
    /\ p \in PeersIn(mem)
    /\ ~(MapGroups(p) \subseteq Existing(mem))
    /\ Crash

-----------------------------------------------------------------------------
(* restore, which skips groups that are gone, and BuildManager, whose         *)
(* SaveAccount does not *)

\* Mutant: the indexes are kept.
RestartKeepsIndex ==
    /\ service = "down"
    /\ ~HasDangling(file)
    /\ mem' = file
    /\ UNCHANGED <<srcIndex, dstIndex, file, changes, imported>>
    /\ service' = "up" /\ covered' = TRUE /\ shrunk' = FALSE /\ shared' = {}

Restart ==
    /\ service = "down"
    /\ \E g \in Groups, r \in Rules :
          LET acc == addAllGroup(file, g, r)
          IN  /\ ~HasDangling(acc)
              /\ mem' = acc
              /\ srcIndex' = [p \in Peers |-> {s \in Rules : p \in SrcPeers(acc, s)}]
              /\ dstIndex' = [p \in Peers |-> {s \in Rules : p \in DstPeers(acc, s)}]
              /\ file' = acc
    /\ service' = "up" /\ covered' = TRUE /\ shrunk' = FALSE /\ shared' = {}
    /\ UNCHANGED <<changes, imported>>

-----------------------------------------------------------------------------

Next ==
    \/ \E g \in Groups, group \in GroupType : CreateOrUpdateGroupHandler(g, group)
    \/ \E g \in Groups : DeleteGroupHandler(g)
    \/ \E r \in Rules, rule \in RuleType : CreateOrUpdateRuleHandler(r, rule)
    \/ \E r \in Rules : DeleteRuleHandler(r)
    \/ \E p \in Peers : AddPeer(p) \/ SavePeer(p) \/ DeletePeer(p) \/ GetNetworkMapPanics(p)
    \/ \E p \in Peers, ip \in AllocatePeerIP({}) \union {OtherIP} : RenamePeer(p, ip)
    \/ Restart
    \/ Crash

Spec == Init /\ [][Next]_vars

-----------------------------------------------------------------------------
(* Properties *)

\* The type of every variable: what is written is a whole account
\* (file_store.go:128-132).
TypeOK ==
    /\ mem \in AccountType /\ file \in AccountType
    /\ srcIndex \in [Peers -> SUBSET Rules] /\ dstIndex \in [Peers -> SUBSET Rules]
    /\ shared \subseteq Groups
    /\ service \in {"up", "down"}
    /\ changes \in 0..MaxChanges
    /\ covered \in BOOLEAN /\ shrunk \in BOOLEAN
    /\ imported \subseteq Peers

\* In memory and in the file no two peers share an address, unless RenamePeer
\* took the entry of one of them from another account (peer.go:112-119); and
\* the addresses a new peer may get are, however many were taken and given
\* back, the free ones but for those that are never given to anybody: the
\* first one, the broadcast address and those that end in a zero octet
\* (network.go:70-117).
AddressesAreExact ==
    \A acc \in {mem, file} :
        /\ \A p, q \in PeersIn(acc) \ imported : acc.ip[p] = acc.ip[q] => p = q
        /\ AllocatePeerIP(TakenIPs(acc)) =
              {a \in 2..(LastIP - 1) : a % 256 # 0} \ TakenIPs(acc)

\* What the rules say: q is on the other side of a rule that names p.
Granted(p) ==
    {q \in PeersIn(mem) \ {p} :
        \E r \in Rules : \/ p \in SrcPeers(mem, r) /\ q \in DstPeers(mem, r)
                         \/ p \in DstPeers(mem, r) /\ q \in SrcPeers(mem, r)}

\* A peer on both sides of rules sees everybody the rules let it see, once
\* SaveAccount has been over the groups: whatever was added, removed, written
\* or lost in a crash before (file_store.go:243-264, peer.go:222-284).  A peer
\* of two accounts gets the map of the one that the index names.
GrantedIsVisible ==
    service = "up" /\ covered =>
        \A p \in PeersIn(mem) \ imported :
            (\E r \in Rules : p \in SrcPeers(mem, r)) /\ (\E r \in Rules : p \in DstPeers(mem, r))
                => Granted(p) \subseteq GetNetworkMap(p)

\* A peer sees nobody the rules do not let it see, unless a peer has lost a
\* role in a rule since the service started: also after a panic in the middle
\* of SaveAccount, and after SavePeer (file_store.go:134-164, 243-264).
VisibleIsGranted ==
    service = "up" /\ ~shrunk =>
        \A p \in PeersIn(mem) \ imported : GetNetworkMap(p) \subseteq Granted(p)
=============================================================================
