------------------------- MODULE AccessRulesProofs -------------------------
(***************************************************************************)
(* Proofs about AccessRules, for any peers, groups, rules and number of    *)
(* changes: what a peer sees follows from the two relations between the    *)
(* indexes and the groups, IndexCovers and IndexIsCurrent, and these are   *)
(* inductive.  Addresses stay distinct because the first and the last one  *)
(* of the network are always free, and so are those that are dropped.      *)
(***************************************************************************)
EXTENDS AccessRules, TLAPS

-----------------------------------------------------------------------------
(* Types *)

LEMMA AddAllGroupType ==
    ASSUME NEW acc \in AccountType, NEW g \in Groups, NEW r \in Rules
    PROVE  addAllGroup(acc, g, r) \in AccountType
<1>1. [peers |-> PeersIn(acc), all |-> TRUE] \in GroupType
  BY DEF GroupType, PeersIn
<1>2. [src |-> {g}, dst |-> {g}] \in RuleType
  BY DEF RuleType
<1>3. [acc.groups EXCEPT ![g] = [peers |-> PeersIn(acc), all |-> TRUE]]
         \in [Groups -> GroupType \union {None}]
  BY <1>1 DEF AccountType
<1>4. [s \in Rules |-> IF s = r THEN [src |-> {g}, dst |-> {g}] ELSE None]
         \in [Rules -> RuleType \union {None}]
  BY <1>2
<1> QED BY <1>3, <1>4 DEF addAllGroup, AccountType

LEMMA RemainingPeersType ==
    ASSUME mem \in AccountType, NEW order, NEW p \in Peers
    PROVE  RemainingPeers(order, p) \in [Groups -> GroupType \union {None}]
<1> SUFFICES ASSUME NEW g \in Groups, mem.groups[g] # None
             PROVE  RemainingPeers(order, p)[g] \in GroupType
  BY DEF RemainingPeers
<1> DEFINE ps == (UNION {mem.groups[h].peers :
                            h \in {h \in Existing(mem) : order[h] <= order[g]}}) \ {p}
<1>1. \A h \in Existing(mem) : mem.groups[h] \in GroupType
  BY DEF Existing, AccountType
<1>2. ps \subseteq Peers
  BY <1>1 DEF GroupType
<1>3. RemainingPeers(order, p)[g] = [mem.groups[g] EXCEPT !.peers = ps]
  BY DEF RemainingPeers
<1>4. mem.groups[g] \in GroupType
  BY DEF AccountType
<1> HIDE DEF ps
<1> QED BY <1>2, <1>3, <1>4 DEF GroupType

-----------------------------------------------------------------------------
(* What a step does to the account and the indexes *)

\* The account of the next state, with its history.
Moved == shrunk' = (shrunk \/ Shrinks(mem'))

\* The groups and rules stay as they are.
SameRoles == mem'.groups = mem.groups /\ mem'.rules = mem.rules

LEMMA SameRolesGives ==
    ASSUME SameRoles, NEW r
    PROVE  SrcPeers(mem', r) = SrcPeers(mem, r) /\ DstPeers(mem', r) = DstPeers(mem, r)
BY DEF SameRoles, SrcPeers, DstPeers, PeersOf, Existing

Kinds ==
    \/ Moved /\ SaveAccount(mem')
    \/ Moved /\ SaveAccountPanics(mem')
    \/ Moved /\ UNCHANGED <<srcIndex, dstIndex>> /\ covered' = FALSE
    \/ SameRoles /\ UNCHANGED <<srcIndex, dstIndex, covered, shrunk>>
    \/ Restart

LEMMA HTTPKinds ==
    ASSUME NEW acc, SaveAccountHTTP(acc)
    PROVE  Kinds
BY DEF SaveAccountHTTP, Kinds, Moved

LEMMA StepKinds ==
    ASSUME TypeOK, [Next]_vars
    PROVE  Kinds
<1>0. mem \in AccountType
  BY DEF TypeOK
<1>1. ASSUME NEW g \in Groups, NEW group \in GroupType, CreateOrUpdateGroupHandler(g, group)
      PROVE  Kinds
  BY <1>1, HTTPKinds DEF CreateOrUpdateGroupHandler, SaveGroup
<1>2. ASSUME NEW g \in Groups, DeleteGroupHandler(g)
      PROVE  Kinds
  BY <1>2, HTTPKinds DEF DeleteGroupHandler, DeleteGroup
<1>3. ASSUME NEW r \in Rules, NEW rule \in RuleType, CreateOrUpdateRuleHandler(r, rule)
      PROVE  Kinds
  BY <1>3, HTTPKinds DEF CreateOrUpdateRuleHandler, SaveRule
<1>4. ASSUME NEW r \in Rules, DeleteRuleHandler(r)
      PROVE  Kinds
  BY <1>4, HTTPKinds DEF DeleteRuleHandler, DeleteRule
<1>5. CASE Crash
  BY <1>5 DEF Crash, Kinds, SameRoles
<1>6. ASSUME NEW p \in Peers, AddPeer(p)
      PROVE  Kinds
  <2>1. CASE \E acc : mem' = acc /\ shrunk' = (shrunk \/ Shrinks(acc)) /\ SaveAccount(acc)
    BY <2>1 DEF Kinds, Moved
  <2> QED BY <1>6, <2>1, <1>5 DEF AddPeer
<1>7. ASSUME NEW p \in Peers, NEW ip, StoreSavePeer(p, ip)
      PROVE  Kinds
  <2>1. CASE /\ mem' = [mem EXCEPT !.ip = [mem.ip EXCEPT ![p] = ip]]
             /\ UNCHANGED <<covered, shrunk>>
    <3>1. SameRoles
      BY <1>0, <2>1 DEF SameRoles, AccountType
    <3> QED BY <1>7, <2>1, <3>1 DEF StoreSavePeer, Kinds
  <2>2. CASE covered' = FALSE /\ shrunk' = (shrunk \/ Shrinks(mem'))
    BY <1>7, <2>2 DEF StoreSavePeer, Kinds, Moved
  <2> QED BY <1>7, <2>1, <2>2 DEF StoreSavePeer
<1>8. ASSUME NEW p \in Peers, DeletePeer(p)
      PROVE  Kinds
  <2>1. shrunk' = (shrunk \/ Shrinks(mem'))
    BY <1>8 DEF DeletePeer
  <2>2. \/ SaveAccount(mem')
        \/ SaveAccountPanics(mem')
        \/ UNCHANGED <<srcIndex, dstIndex>> /\ covered' = FALSE
    BY <1>8 DEF DeletePeer
  <2> QED BY <2>1, <2>2 DEF Kinds, Moved
<1>9. ASSUME NEW p \in Peers, GetNetworkMapPanics(p)
      PROVE  Kinds
  BY <1>9, <1>5 DEF GetNetworkMapPanics
<1>10. CASE Restart
  BY <1>10 DEF Kinds
<1>11. CASE UNCHANGED vars
  BY <1>11 DEF vars, Kinds, SameRoles
<1> QED BY <1>1, <1>2, <1>3, <1>4, <1>5, <1>6, <1>7, <1>8, <1>9, <1>10, <1>11
        DEF Next, SavePeer, RenamePeer

-----------------------------------------------------------------------------
(* The indexes and the groups *)

\* Every role a peer has is in the indexes.
IndexCovers ==
    covered => \A p \in Peers, r \in Rules :
                  /\ p \in SrcPeers(mem, r) => r \in srcIndex[p]
                  /\ p \in DstPeers(mem, r) => r \in dstIndex[p]

\* Every role in the indexes is one the peer has.
IndexIsCurrent ==
    ~shrunk => \A p \in Peers, r \in Rules :
                  /\ r \in srcIndex[p] => p \in SrcPeers(mem, r)
                  /\ r \in dstIndex[p] => p \in DstPeers(mem, r)

LEMMA RestartIsExact ==
    ASSUME Restart, NEW p \in Peers, NEW r \in Rules
    PROVE  /\ r \in srcIndex'[p] <=> p \in SrcPeers(mem', r)
           /\ r \in dstIndex'[p] <=> p \in DstPeers(mem', r)
BY DEF Restart

LEMMA CoversStep ==
    ASSUME IndexCovers, Kinds
    PROVE  IndexCovers'
<1> SUFFICES ASSUME covered', NEW p \in Peers, NEW r \in Rules
             PROVE  /\ p \in SrcPeers(mem', r) => r \in srcIndex'[p]
                    /\ p \in DstPeers(mem', r) => r \in dstIndex'[p]
  BY DEF IndexCovers
<1>1. CASE SaveAccount(mem')
  BY <1>1 DEF SaveAccount
<1>2. CASE SameRoles /\ UNCHANGED <<srcIndex, dstIndex, covered, shrunk>>
  BY <1>2, SameRolesGives DEF IndexCovers
<1>3. CASE Restart
  BY <1>3, RestartIsExact
<1>4. ~SaveAccountPanics(mem')
  BY DEF SaveAccountPanics
<1> QED BY <1>1, <1>2, <1>3, <1>4 DEF Kinds

\* Nobody lost a role, and those added to the indexes are current.
LEMMA CurrentStep ==
    ASSUME IndexIsCurrent, Kinds
    PROVE  IndexIsCurrent'
<1> SUFFICES ASSUME ~shrunk', NEW p \in Peers, NEW r \in Rules
             PROVE  /\ r \in srcIndex'[p] => p \in SrcPeers(mem', r)
                    /\ r \in dstIndex'[p] => p \in DstPeers(mem', r)
  BY DEF IndexIsCurrent
<1>1. ASSUME Moved
      PROVE  /\ r \in srcIndex[p] => p \in SrcPeers(mem', r)
             /\ r \in dstIndex[p] => p \in DstPeers(mem', r)
  <2>1. ~shrunk /\ ~Shrinks(mem')
    BY <1>1 DEF Moved
  <2>2. SrcPeers(mem, r) \subseteq SrcPeers(mem', r) /\ DstPeers(mem, r) \subseteq DstPeers(mem', r)
    BY <2>1 DEF Shrinks
  <2> QED BY <2>1, <2>2 DEF IndexIsCurrent
<1>2. CASE Moved /\ SaveAccount(mem')
  BY <1>1, <1>2 DEF SaveAccount
<1>3. CASE Moved /\ SaveAccountPanics(mem')
  <2>0. PICK s \in Rules :
          /\ mem'.rules[s] # None
          /\ \E done \in SUBSET {t \in Rules : ~Dangling(mem', t)},
                S \in SUBSET (mem'.rules[s].src \cap Existing(mem')),
                D \in SUBSET (mem'.rules[s].dst \cap Existing(mem')) :
                /\ D # {} => S = mem'.rules[s].src
                /\ srcIndex' = [q \in Peers |-> srcIndex[q] \union
                                   {t \in done : q \in SrcPeers(mem', t)} \union
                                   (IF q \in PeersOf(mem', S) THEN {s} ELSE {})]
                /\ dstIndex' = [q \in Peers |-> dstIndex[q] \union
                                   {t \in done : q \in DstPeers(mem', t)} \union
                                   (IF q \in PeersOf(mem', D) THEN {s} ELSE {})]
    BY <1>3 DEF SaveAccountPanics, Dangling
  <2>1. PICK done \in SUBSET {t \in Rules : ~Dangling(mem', t)},
             S \in SUBSET (mem'.rules[s].src \cap Existing(mem')),
             D \in SUBSET (mem'.rules[s].dst \cap Existing(mem')) :
          /\ srcIndex' = [q \in Peers |-> srcIndex[q] \union
                             {t \in done : q \in SrcPeers(mem', t)} \union
                             (IF q \in PeersOf(mem', S) THEN {s} ELSE {})]
          /\ dstIndex' = [q \in Peers |-> dstIndex[q] \union
                             {t \in done : q \in DstPeers(mem', t)} \union
                             (IF q \in PeersOf(mem', D) THEN {s} ELSE {})]
    BY <2>0
  <2>2. PeersOf(mem', S) \subseteq SrcPeers(mem', s) /\ PeersOf(mem', D) \subseteq DstPeers(mem', s)
    BY <2>0, <2>1 DEF PeersOf, SrcPeers, DstPeers
  <2>3. \/ r \notin srcIndex'[p]
        \/ r \in srcIndex[p]
        \/ p \in SrcPeers(mem', r)
        \/ r = s /\ p \in PeersOf(mem', S)
    BY <2>1
  <2>4. \/ r \notin dstIndex'[p]
        \/ r \in dstIndex[p]
        \/ p \in DstPeers(mem', r)
        \/ r = s /\ p \in PeersOf(mem', D)
    BY <2>1
  <2> QED BY <1>1, <1>3, <2>2, <2>3, <2>4
<1>4. CASE Moved /\ UNCHANGED <<srcIndex, dstIndex>>
  BY <1>1, <1>4
<1>5. CASE SameRoles /\ UNCHANGED <<srcIndex, dstIndex, covered, shrunk>>
  BY <1>5, SameRolesGives DEF IndexIsCurrent
<1>6. CASE Restart
  BY <1>6, RestartIsExact
<1> QED BY <1>2, <1>3, <1>4, <1>5, <1>6 DEF Kinds

LEMMA IndexesInit ==
    ASSUME Init
    PROVE  IndexCovers /\ IndexIsCurrent
<1>1. PICK g \in Groups, r \in Rules : mem = addAllGroup(EmptyAccount, g, r)
  BY DEF Init
<1>2. \A h \in Groups : mem.groups[h] # None => mem.groups[h].peers = {}
  BY <1>1 DEF addAllGroup, EmptyAccount, Existing, PeersIn
<1>3. \A gs : PeersOf(mem, gs) = {}
  BY <1>2 DEF PeersOf, Existing
<1>4. \A s \in Rules : SrcPeers(mem, s) = {} /\ DstPeers(mem, s) = {}
  BY <1>3 DEF SrcPeers, DstPeers
<1> QED BY <1>4 DEF Init, IndexCovers, IndexIsCurrent

-----------------------------------------------------------------------------
(* What a peer sees *)

LEMMA CoversGives ==
    ASSUME IndexCovers
    PROVE  GrantedIsVisible
<1> SUFFICES ASSUME covered, NEW p \in PeersIn(mem), p \in Peers, NEW a \in Rules, NEW b \in Rules,
                    p \in SrcPeers(mem, a), p \in DstPeers(mem, b),
                    NEW q \in Granted(p)
             PROVE  q \in GetNetworkMap(p)
  BY DEF GrantedIsVisible, PeersIn
<1>1. srcIndex[p] # {} /\ dstIndex[p] # {}
  BY DEF IndexCovers
<1>2. PICK r \in Rules : \/ p \in SrcPeers(mem, r) /\ q \in DstPeers(mem, r)
                         \/ p \in DstPeers(mem, r) /\ q \in SrcPeers(mem, r)
  BY DEF Granted
<1>3. mem.rules[r] # None
  BY <1>2 DEF SrcPeers, DstPeers
<1>4. CASE p \in SrcPeers(mem, r) /\ q \in DstPeers(mem, r)
  <2>1. r \in GetPeerSrcRules(p)
    BY <1>3, <1>4 DEF IndexCovers, GetPeerSrcRules
  <2>2. mem.rules[r].dst \subseteq MapGroups(p)
    BY <1>1, <2>1 DEF MapGroups
  <2>3. q \in PeersOf(mem, MapGroups(p))
    BY <1>3, <1>4, <2>2 DEF DstPeers, PeersOf
  <2> QED BY <2>3 DEF GetNetworkMap, Granted
<1>5. CASE p \in DstPeers(mem, r) /\ q \in SrcPeers(mem, r)
  <2>1. r \in GetPeerDstRules(p)
    BY <1>3, <1>5 DEF IndexCovers, GetPeerDstRules
  <2>2. mem.rules[r].src \subseteq MapGroups(p)
    BY <1>1, <2>1 DEF MapGroups
  <2>3. q \in PeersOf(mem, MapGroups(p))
    BY <1>3, <1>5, <2>2 DEF SrcPeers, PeersOf
  <2> QED BY <2>3 DEF GetNetworkMap, Granted
<1> QED BY <1>2, <1>4, <1>5

LEMMA CurrentGives ==
    ASSUME IndexIsCurrent,
           srcIndex \in [Peers -> SUBSET Rules], dstIndex \in [Peers -> SUBSET Rules]
    PROVE  VisibleIsGranted
<1> SUFFICES ASSUME ~shrunk, NEW p \in PeersIn(mem), p \in Peers, NEW q \in GetNetworkMap(p)
             PROVE  q \in Granted(p)
  BY DEF VisibleIsGranted, PeersIn
<1>1. q \in PeersIn(mem) \ {p} /\ q \in PeersOf(mem, MapGroups(p))
  BY DEF GetNetworkMap
<1>2. PICK g \in MapGroups(p) \cap Existing(mem) : q \in mem.groups[g].peers
  BY <1>1 DEF PeersOf
<1>3. \/ \E r \in GetPeerSrcRules(p) : g \in mem.rules[r].dst
      \/ \E r \in GetPeerDstRules(p) : g \in mem.rules[r].src
  <2>1. \/ g \in UNION {mem.rules[r].dst : r \in GetPeerSrcRules(p)}
        \/ g \in UNION {mem.rules[r].src : r \in GetPeerDstRules(p)}
    BY <1>2 DEF MapGroups
  <2> QED BY <2>1
<1>4. CASE \E r \in GetPeerSrcRules(p) : g \in mem.rules[r].dst
  <2>1. PICK r \in GetPeerSrcRules(p) : g \in mem.rules[r].dst
    BY <1>4
  <2>2. r \in Rules /\ mem.rules[r] # None /\ p \in SrcPeers(mem, r)
    BY <2>1 DEF GetPeerSrcRules, IndexIsCurrent
  <2>3. q \in DstPeers(mem, r)
    BY <1>2, <2>1, <2>2 DEF DstPeers, PeersOf
  <2> QED BY <1>1, <2>2, <2>3 DEF Granted
<1>5. CASE \E r \in GetPeerDstRules(p) : g \in mem.rules[r].src
  <2>1. PICK r \in GetPeerDstRules(p) : g \in mem.rules[r].src
    BY <1>5
  <2>2. r \in Rules /\ mem.rules[r] # None /\ p \in DstPeers(mem, r)
    BY <2>1 DEF GetPeerDstRules, IndexIsCurrent
  <2>3. q \in SrcPeers(mem, r)
    BY <1>2, <2>1, <2>2 DEF SrcPeers, PeersOf
  <2> QED BY <1>1, <2>2, <2>3 DEF Granted
<1> QED BY <1>3, <1>4, <1>5

-----------------------------------------------------------------------------
(* The theorems *)

LEMMA PanicType ==
    ASSUME TypeOK, NEW acc, SaveAccountPanics(acc)
    PROVE  /\ covered' \in BOOLEAN
           /\ srcIndex' \in [Peers -> SUBSET Rules] /\ dstIndex' \in [Peers -> SUBSET Rules]
<1>0. PICK r \in Rules :
        \E done \in SUBSET {s \in Rules : ~Dangling(acc, s)},
             S \in SUBSET (acc.rules[r].src \cap Existing(acc)),
             D \in SUBSET (acc.rules[r].dst \cap Existing(acc)) :
        /\ D # {} => S = acc.rules[r].src
        /\ srcIndex' = [p \in Peers |-> srcIndex[p] \union
                           {s \in done : p \in SrcPeers(acc, s)} \union
                           (IF p \in PeersOf(acc, S) THEN {r} ELSE {})]
        /\ dstIndex' = [p \in Peers |-> dstIndex[p] \union
                           {s \in done : p \in DstPeers(acc, s)} \union
                           (IF p \in PeersOf(acc, D) THEN {r} ELSE {})]
  BY DEF SaveAccountPanics
<1>1. PICK done \in SUBSET {s \in Rules : ~Dangling(acc, s)},
             S \in SUBSET (acc.rules[r].src \cap Existing(acc)),
             D \in SUBSET (acc.rules[r].dst \cap Existing(acc)) :
        /\ srcIndex' = [p \in Peers |-> srcIndex[p] \union
                           {s \in done : p \in SrcPeers(acc, s)} \union
                           (IF p \in PeersOf(acc, S) THEN {r} ELSE {})]
        /\ dstIndex' = [p \in Peers |-> dstIndex[p] \union
                           {s \in done : p \in DstPeers(acc, s)} \union
                           (IF p \in PeersOf(acc, D) THEN {r} ELSE {})]
  BY <1>0
<1>2. ASSUME NEW p \in Peers
      PROVE  srcIndex'[p] \subseteq Rules /\ dstIndex'[p] \subseteq Rules
  BY <1>1 DEF TypeOK
<1>3. covered' = FALSE
  BY DEF SaveAccountPanics
<1> QED BY <1>1, <1>2, <1>3

LEMMA HTTPType ==
    ASSUME TypeOK, NEW acc \in AccountType, SaveAccountHTTP(acc)
    PROVE  /\ mem' \in AccountType /\ file' \in AccountType
           /\ srcIndex' \in [Peers -> SUBSET Rules] /\ dstIndex' \in [Peers -> SUBSET Rules]
           /\ covered' \in BOOLEAN /\ shrunk' \in BOOLEAN
<1>1. mem' \in AccountType /\ file' \in AccountType
  BY DEF SaveAccountHTTP, Persist, TypeOK
<1>2. shrunk' \in BOOLEAN
  BY DEF SaveAccountHTTP, TypeOK
<1>3. CASE SaveAccount(acc)
  BY <1>1, <1>2, <1>3 DEF SaveAccount, TypeOK
<1>4. CASE SaveAccountPanics(acc)
  BY <1>1, <1>2, <1>4, PanicType
<1> QED BY <1>3, <1>4 DEF SaveAccountHTTP

LEMMA AppendedType ==
    ASSUME TypeOK, NEW g \in Groups, NEW p \in Peers, NEW gs \in Appended(mem, g, p)
    PROVE  gs \in [Groups -> GroupType \union {None}]
BY DEF Appended

LEMMA AllocatedType == \A taken : AllocatePeerIP(taken) \subseteq IPs
BY DEF AllocatePeerIP, generateIPs

LEMMA TypeInit ==
    ASSUME Init
    PROVE  TypeOK
<1>1. EmptyAccount \in AccountType
  BY DEF EmptyAccount, AccountType
<1>2. mem \in AccountType
  BY <1>1, AddAllGroupType DEF Init
<1>3. changes \in 0..MaxChanges
  BY AccessAssumption DEF Init
<1>4. covered \in BOOLEAN /\ shrunk \in BOOLEAN
  BY DEF Init
<1>5. /\ file \in AccountType /\ shared \subseteq Groups /\ service \in {"up", "down"}
      /\ imported \subseteq Peers
  BY <1>2 DEF Init
<1> QED BY <1>2, <1>3, <1>4, <1>5 DEF Init, TypeOK

LEMMA TypeStep ==
    ASSUME TypeOK, [Next]_vars
    PROVE  TypeOK'
<1>0. mem \in AccountType /\ file \in AccountType
  BY DEF TypeOK
<1>a. ASSUME NEW group \in GroupType \union {None}, NEW g \in Groups
      PROVE  [mem EXCEPT !.groups = [mem.groups EXCEPT ![g] = group]] \in AccountType
  BY <1>0 DEF AccountType
<1>b. ASSUME NEW rule \in RuleType \union {None}, NEW r \in Rules
      PROVE  [mem EXCEPT !.rules = [mem.rules EXCEPT ![r] = rule]] \in AccountType
  BY <1>0 DEF AccountType
<1>c. ASSUME Change
      PROVE  /\ service' \in {"up", "down"} /\ changes' \in 0..MaxChanges
             /\ imported' \subseteq Peers
  BY <1>c, AccessAssumption DEF Change, TypeOK
<1>1. ASSUME NEW g \in Groups, NEW group \in GroupType, CreateOrUpdateGroupHandler(g, group)
      PROVE  TypeOK'
  BY <1>1, <1>a, <1>c, HTTPType DEF CreateOrUpdateGroupHandler, SaveGroup, TypeOK
<1>2. ASSUME NEW g \in Groups, DeleteGroupHandler(g)
      PROVE  TypeOK'
  BY <1>2, <1>a, <1>c, HTTPType DEF DeleteGroupHandler, DeleteGroup, TypeOK
<1>3. ASSUME NEW r \in Rules, NEW rule \in RuleType, CreateOrUpdateRuleHandler(r, rule)
      PROVE  TypeOK'
  BY <1>3, <1>b, <1>c, HTTPType DEF CreateOrUpdateRuleHandler, SaveRule, TypeOK
<1>4. ASSUME NEW r \in Rules, DeleteRuleHandler(r)
      PROVE  TypeOK'
  BY <1>4, <1>b, <1>c, HTTPType DEF DeleteRuleHandler, DeleteRule, TypeOK
<1>5. CASE Crash
  BY <1>5 DEF Crash, TypeOK
<1>6. ASSUME NEW p \in Peers, AddPeer(p)
      PROVE  TypeOK'
  <2>1. PICK ip \in AllocatePeerIP(TakenIPs(mem)), g \in GetGroupAll :
          \E gs \in Appended(mem, g, p) :
          \/ /\ mem' = [mem EXCEPT !.groups = gs, !.ip = [mem.ip EXCEPT ![p] = ip]]
             /\ shrunk' = (shrunk \/ Shrinks(mem'))
             /\ SaveAccount(mem')
             /\ Persist
             /\ UNCHANGED <<shared, service, changes, imported>>
          \/ Crash
    BY <1>6 DEF AddPeer
  <2>2. PICK gs \in Appended(mem, g, p) :
          \/ /\ mem' = [mem EXCEPT !.groups = gs, !.ip = [mem.ip EXCEPT ![p] = ip]]
             /\ shrunk' = (shrunk \/ Shrinks(mem'))
             /\ SaveAccount(mem')
             /\ Persist
             /\ UNCHANGED <<shared, service, changes, imported>>
          \/ Crash
    BY <2>1
  <2>a. ip \in PeerIPs
    BY AllocatedType DEF PeerIPs
  <2>b. [mem.ip EXCEPT ![p] = ip] \in [Peers -> PeerIPs \union {None}]
    BY <1>0, <2>a DEF AccountType
  <2>3. [mem EXCEPT !.groups = gs, !.ip = [mem.ip EXCEPT ![p] = ip]] \in AccountType
    BY <1>0, <2>b, AppendedType DEF AccountType, GetGroupAll, Existing
  <2>4. CASE ~Crash
    <3>1. mem' \in AccountType /\ file' \in AccountType
      BY <2>2, <2>3, <2>4, <1>0 DEF Persist
    <3>2. shrunk' \in BOOLEAN
      BY <2>2, <2>4 DEF TypeOK
    <3>3. covered' \in BOOLEAN /\ srcIndex' \in [Peers -> SUBSET Rules]
            /\ dstIndex' \in [Peers -> SUBSET Rules]
      BY <2>2, <2>4 DEF SaveAccount, TypeOK
    <3> QED BY <2>2, <2>4, <3>1, <3>2, <3>3 DEF TypeOK
  <2> QED BY <2>4, <1>5
<1>d. ASSUME NEW p \in Peers, NEW ip \in PeerIPs \union {None}, StoreSavePeer(p, ip)
      PROVE  /\ mem' \in AccountType /\ file' \in AccountType
             /\ covered' \in BOOLEAN /\ shrunk' \in BOOLEAN
             /\ UNCHANGED <<srcIndex, dstIndex, shared>>
  <2>0. [mem.ip EXCEPT ![p] = ip] \in [Peers -> PeerIPs \union {None}]
    BY <1>0 DEF AccountType
  <2>1. /\ mem' \in AccountType
        /\ covered' \in BOOLEAN /\ shrunk' \in BOOLEAN
    <3>1. CASE /\ mem' = [mem EXCEPT !.ip = [mem.ip EXCEPT ![p] = ip]]
               /\ UNCHANGED <<covered, shrunk>>
      BY <1>0, <2>0, <3>1 DEF AccountType, TypeOK
    <3>2. ASSUME NEW g \in GetGroupAll, NEW gs \in Appended(mem, g, p),
                 covered' = FALSE,
                 mem' = [mem EXCEPT !.groups = gs, !.ip = [mem.ip EXCEPT ![p] = ip]],
                 shrunk' = (shrunk \/ Shrinks(mem'))
          PROVE  /\ mem' \in AccountType
                 /\ covered' \in BOOLEAN /\ shrunk' \in BOOLEAN
      <4>1. mem' \in AccountType
        BY <3>2, <2>0, <1>0, AppendedType DEF AccountType, GetGroupAll, Existing
      <4>2. shrunk' \in BOOLEAN
        BY <3>2 DEF TypeOK
      <4> QED BY <3>2, <4>1, <4>2
    <3> QED BY <1>d, <3>1, <3>2 DEF StoreSavePeer
  <2>2. file' \in AccountType
    BY <1>d, <2>1, <1>0 DEF StoreSavePeer, Persist
  <2> QED BY <1>d, <2>1, <2>2 DEF StoreSavePeer
<1>7. ASSUME NEW p \in Peers, SavePeer(p)
      PROVE  TypeOK'
  <2>1. mem.ip[p] \in PeerIPs \union {None}
    BY <1>0 DEF AccountType
  <2> QED BY <1>7, <1>d, <2>1 DEF SavePeer, TypeOK
<1>12. ASSUME NEW p \in Peers, NEW ip \in AllocatePeerIP({}) \union {OtherIP}, RenamePeer(p, ip)
       PROVE  TypeOK'
  <2>1. ip \in PeerIPs
    BY AllocatedType DEF PeerIPs
  <2>2. changes' \in 0..MaxChanges
    BY <1>12, AccessAssumption DEF RenamePeer, TypeOK
  <2> QED BY <1>12, <1>d, <2>1, <2>2 DEF RenamePeer, TypeOK
<1>8. ASSUME NEW p \in Peers, DeletePeer(p)
      PROVE  TypeOK'
  <2>1. PICK order : /\ mem' = [mem EXCEPT !.groups = RemainingPeers(order, p),
                                              !.ip = [mem.ip EXCEPT ![p] = None]]
                     /\ shrunk' = (shrunk \/ Shrinks(mem'))
                     /\ \/ file' = mem' /\ (SaveAccount(mem') \/ SaveAccountPanics(mem'))
                        \/ UNCHANGED <<file, srcIndex, dstIndex>> /\ covered' = FALSE
    BY <1>8 DEF DeletePeer
  <2>2. mem' \in AccountType
    BY <2>1, <1>0, RemainingPeersType DEF AccountType
  <2>3. file' \in AccountType /\ shrunk' \in BOOLEAN
    BY <2>1, <2>2 DEF TypeOK
  <2>4. shared' \subseteq Groups
    BY <1>8 DEF DeletePeer, Existing
  <2>5. covered' \in BOOLEAN /\ srcIndex' \in [Peers -> SUBSET Rules]
            /\ dstIndex' \in [Peers -> SUBSET Rules]
    <3>1. CASE SaveAccount(mem')
      BY <3>1 DEF SaveAccount, TypeOK
    <3>2. CASE SaveAccountPanics(mem')
      BY <3>2, PanicType
    <3> QED BY <2>1, <3>1, <3>2 DEF TypeOK
  <2> QED BY <1>8, <1>c, <2>2, <2>3, <2>4, <2>5 DEF DeletePeer, TypeOK
<1>9. ASSUME NEW p \in Peers, GetNetworkMapPanics(p)
      PROVE  TypeOK'
  BY <1>9, <1>5 DEF GetNetworkMapPanics
<1>10. CASE Restart
  BY <1>10, <1>0, AddAllGroupType DEF Restart, TypeOK
<1>11. CASE UNCHANGED vars
  BY <1>11 DEF vars, TypeOK
<1> QED BY <1>1, <1>2, <1>3, <1>4, <1>5, <1>6, <1>7, <1>8, <1>9, <1>10, <1>11, <1>12 DEF Next

\* The account in memory and in the file keeps its form, through panics,
\* failed writes and restarts.
THEOREM TypeCorrect == Spec => []TypeOK
<1>1. Init => TypeOK
  BY TypeInit
<1>2. TypeOK /\ [Next]_vars => TypeOK'
  BY TypeStep
<1> QED BY <1>1, <1>2, PTL DEF Spec

\* Once SaveAccount has been over the groups, a peer on both sides of rules
\* sees everybody the rules let it see.
THEOREM Visibility == Spec => []GrantedIsVisible
<1>1. Init => IndexCovers
  BY IndexesInit
<1>2. TypeOK /\ IndexCovers /\ [Next]_vars => IndexCovers'
  BY CoversStep, StepKinds
<1>3. TypeOK /\ IndexCovers => GrantedIsVisible
  BY CoversGives DEF TypeOK, AccountType
<1> QED BY <1>1, <1>2, <1>3, TypeCorrect, PTL DEF Spec

\* Until a peer loses a role in a rule, nobody sees a peer the rules do not
\* let it see.
THEOREM Confinement == Spec => []VisibleIsGranted
<1>1. Init => IndexIsCurrent
  BY IndexesInit
<1>2. TypeOK /\ IndexIsCurrent /\ [Next]_vars => IndexIsCurrent'
  BY CurrentStep, StepKinds
<1>3. TypeOK /\ IndexIsCurrent => VisibleIsGranted
  BY CurrentGives DEF TypeOK, AccountType
<1> QED BY <1>1, <1>2, <1>3, TypeCorrect, PTL DEF Spec

-----------------------------------------------------------------------------
(* Addresses *)

\* What generateIPs returns as long as the first and the last address are free.
LEMMA BothEndsFree ==
    ASSUME NEW taken, 1 \notin taken, LastIP \notin taken
    PROVE  AllocatePeerIP(taken) = {a \in 2..(LastIP - 1) : a % 256 # 0} \ taken
<1> DEFINE ips == {a \in IPs \ (taken \union {0}) : a % 256 # 0}
<1>1. 1 \in ips /\ LastIP \in ips /\ 1 # LastIP
  BY NetworkAssumption DEF IPs
<1>2. \A a \in ips : a \in Nat /\ 1 <= a /\ a <= LastIP
  BY NetworkAssumption DEF IPs
<1>3. AllocatePeerIP(taken) = {b \in ips : \E a, c \in ips : a < b /\ b < c}
  BY <1>1 DEF AllocatePeerIP, generateIPs
<1>4. ASSUME NEW b \in ips
      PROVE  (\E a, c \in ips : a < b /\ b < c) <=> b \in 2..(LastIP - 1)
  <2> HIDE DEF ips
  <2>1. b \in 2..(LastIP - 1) => 1 < b /\ b < LastIP
    BY NetworkAssumption
  <2>2. \A a, c \in ips : a < b /\ b < c => b \in 2..(LastIP - 1)
    BY <1>2, NetworkAssumption
  <2> QED BY <1>1, <2>1, <2>2
<1>5. \A b \in 2..(LastIP - 1) : b % 256 # 0 /\ b \notin taken => b \in ips
  BY NetworkAssumption DEF IPs
<1>6. \A b \in ips : b % 256 # 0 /\ b \notin taken
  OBVIOUS
<1> HIDE DEF ips
<1> QED BY <1>3, <1>4, <1>5, <1>6

\* Addresses are allocated ones or another network's; only peers in "others"
\* may share theirs.
Addressed(ip, others) ==
    /\ \A p \in Peers : ip[p] # None => ip[p] \in (2..(LastIP - 1)) \union {OtherIP}
    /\ \A p, q \in Peers \ others : ip[p] # None /\ ip[p] = ip[q] => p = q

AddressInv == Addressed(mem.ip, imported) /\ Addressed(file.ip, imported)

LEMMA AddressInvGives == AddressInv => AddressesAreExact
<1> SUFFICES ASSUME NEW acc, Addressed(acc.ip, imported)
             PROVE  /\ \A p, q \in PeersIn(acc) \ imported : acc.ip[p] = acc.ip[q] => p = q
                    /\ AllocatePeerIP(TakenIPs(acc)) =
                          {a \in 2..(LastIP - 1) : a % 256 # 0} \ TakenIPs(acc)
  BY DEF AddressInv, AddressesAreExact
<1>1. 1 \notin TakenIPs(acc) /\ LastIP \notin TakenIPs(acc)
  BY NetworkAssumption DEF TakenIPs, PeersIn, Addressed, OtherIP
<1>2. \A p, q \in PeersIn(acc) \ imported : acc.ip[p] = acc.ip[q] => p = q
  BY DEF PeersIn, Addressed
<1> QED BY <1>1, <1>2, BothEndsFree

\* What a step does to the addresses.
LEMMA AddressKinds ==
    ASSUME TypeOK, [Next]_vars
    PROVE  /\ \/ mem'.ip \in {mem.ip, file.ip}
              \/ \E p \in Peers, ip \in AllocatePeerIP(TakenIPs(mem)) \union {None} :
                    mem'.ip = [mem.ip EXCEPT ![p] = ip]
              \/ \E p \in Peers, ip \in AllocatePeerIP({}) \union {OtherIP} :
                    mem'.ip = [mem.ip EXCEPT ![p] = ip] /\ p \in imported'
           /\ file'.ip \in {mem'.ip, file.ip}
           /\ imported \subseteq imported'
<1> DEFINE Goal ==
        /\ \/ mem'.ip \in {mem.ip, file.ip}
           \/ \E p \in Peers, ip \in AllocatePeerIP(TakenIPs(mem)) \union {None} :
                 mem'.ip = [mem.ip EXCEPT ![p] = ip]
           \/ \E p \in Peers, ip \in AllocatePeerIP({}) \union {OtherIP} :
                 mem'.ip = [mem.ip EXCEPT ![p] = ip] /\ p \in imported'
        /\ file'.ip \in {mem'.ip, file.ip}
        /\ imported \subseteq imported'
<1>0. mem \in AccountType /\ file \in AccountType
  BY DEF TypeOK
<1>a. ASSUME NEW groups PROVE [mem EXCEPT !.groups = groups].ip = mem.ip
  BY <1>0 DEF AccountType
<1>b. ASSUME NEW rules PROVE [mem EXCEPT !.rules = rules].ip = mem.ip
  BY <1>0 DEF AccountType
<1>c. ASSUME NEW groups, NEW ip PROVE [mem EXCEPT !.groups = groups, !.ip = ip].ip = ip
  BY <1>0 DEF AccountType
<1>d. ASSUME NEW g, NEW r PROVE addAllGroup(file, g, r).ip = file.ip
  BY <1>0 DEF AccountType, addAllGroup
<1>e. ASSUME NEW acc, SaveAccountHTTP(acc), acc.ip = mem.ip
      PROVE  mem'.ip = mem.ip /\ file'.ip \in {mem'.ip, file.ip}
  BY <1>e DEF SaveAccountHTTP, Persist
<1>1. ASSUME NEW g \in Groups, NEW group \in GroupType, CreateOrUpdateGroupHandler(g, group)
      PROVE  mem'.ip = mem.ip /\ file'.ip \in {mem'.ip, file.ip}
  BY <1>1, <1>a, <1>e DEF CreateOrUpdateGroupHandler, SaveGroup
<1>2. ASSUME NEW g \in Groups, DeleteGroupHandler(g)
      PROVE  mem'.ip = mem.ip /\ file'.ip \in {mem'.ip, file.ip}
  BY <1>2, <1>a, <1>e DEF DeleteGroupHandler, DeleteGroup
<1>3. ASSUME NEW r \in Rules, NEW rule \in RuleType, CreateOrUpdateRuleHandler(r, rule)
      PROVE  mem'.ip = mem.ip /\ file'.ip \in {mem'.ip, file.ip}
  BY <1>3, <1>b, <1>e DEF CreateOrUpdateRuleHandler, SaveRule
<1>4. ASSUME NEW r \in Rules, DeleteRuleHandler(r)
      PROVE  mem'.ip = mem.ip /\ file'.ip \in {mem'.ip, file.ip}
  BY <1>4, <1>b, <1>e DEF DeleteRuleHandler, DeleteRule
<1>5. CASE Crash
  BY <1>5 DEF Crash
<1>6. ASSUME NEW p \in Peers, AddPeer(p), ~Crash
      PROVE  /\ \E ip \in AllocatePeerIP(TakenIPs(mem)) : mem'.ip = [mem.ip EXCEPT ![p] = ip]
             /\ file'.ip \in {mem'.ip, file.ip}
  <2>1. PICK ip \in AllocatePeerIP(TakenIPs(mem)) :
          /\ \E gs : mem' = [mem EXCEPT !.groups = gs, !.ip = [mem.ip EXCEPT ![p] = ip]]
          /\ Persist
    BY <1>6 DEF AddPeer
  <2>2. mem'.ip = [mem.ip EXCEPT ![p] = ip]
    BY <2>1, <1>c
  <2>3. file'.ip \in {mem'.ip, file.ip}
    BY <2>1 DEF Persist
  <2> QED BY <2>2, <2>3
<1>f. ASSUME NEW p \in Peers, NEW ip, StoreSavePeer(p, ip)
      PROVE  mem'.ip = [mem.ip EXCEPT ![p] = ip] /\ file'.ip \in {mem'.ip, file.ip}
  <2>1. \/ mem' = [mem EXCEPT !.ip = [mem.ip EXCEPT ![p] = ip]]
        \/ \E gs : mem' = [mem EXCEPT !.groups = gs, !.ip = [mem.ip EXCEPT ![p] = ip]]
    BY <1>f DEF StoreSavePeer
  <2>2. mem'.ip = [mem.ip EXCEPT ![p] = ip]
    BY <1>0, <1>c, <2>1 DEF AccountType
  <2> QED BY <1>f, <2>2 DEF StoreSavePeer, Persist
<1>7. ASSUME NEW p \in Peers, SavePeer(p)
      PROVE  mem'.ip = mem.ip /\ file'.ip \in {mem'.ip, file.ip}
  <2>1. [mem.ip EXCEPT ![p] = mem.ip[p]] = mem.ip
    BY <1>0 DEF AccountType
  <2> QED BY <1>7, <1>f, <2>1 DEF SavePeer
<1>12. ASSUME NEW p \in Peers, NEW ip \in AllocatePeerIP({}) \union {OtherIP}, RenamePeer(p, ip)
       PROVE  /\ mem'.ip = [mem.ip EXCEPT ![p] = ip] /\ p \in imported'
              /\ file'.ip \in {mem'.ip, file.ip}
  BY <1>12, <1>f DEF RenamePeer
<1>13. imported \subseteq imported'
  BY DEF Next, CreateOrUpdateGroupHandler, DeleteGroupHandler, CreateOrUpdateRuleHandler,
         DeleteRuleHandler, Change, AddPeer, SavePeer, DeletePeer, GetNetworkMapPanics,
         RenamePeer, Restart, Crash, vars
<1>8. ASSUME NEW p \in Peers, DeletePeer(p)
      PROVE  mem'.ip = [mem.ip EXCEPT ![p] = None] /\ file'.ip \in {mem'.ip, file.ip}
  <2>1. /\ \E gs : mem' = [mem EXCEPT !.groups = gs, !.ip = [mem.ip EXCEPT ![p] = None]]
        /\ file' \in {mem', file}
    BY <1>8 DEF DeletePeer
  <2> QED BY <2>1, <1>c
<1>9. ASSUME NEW p \in Peers, GetNetworkMapPanics(p)
      PROVE  Crash
  BY <1>9 DEF GetNetworkMapPanics
<1>10. CASE Restart
  <2>1. mem'.ip = file.ip /\ file' = mem'
    BY <1>10, <1>d DEF Restart
  <2> QED BY <2>1, <1>13
<1>11. CASE UNCHANGED vars
  BY <1>11 DEF vars
<1>14. CASE Crash \/ Restart \/ UNCHANGED vars
  BY <1>5, <1>10, <1>11, <1>13, <1>14
<1>15. ASSUME NEW p \in Peers, AddPeer(p) \/ SavePeer(p) \/ DeletePeer(p) \/ GetNetworkMapPanics(p)
       PROVE  Goal
  BY <1>6, <1>7, <1>8, <1>9, <1>13, <1>14, <1>15
<1>16. CASE \E p \in Peers, ip \in AllocatePeerIP({}) \union {OtherIP} : RenamePeer(p, ip)
  BY <1>12, <1>13, <1>16
<1> QED BY <1>1, <1>2, <1>3, <1>4, <1>13, <1>14, <1>15, <1>16 DEF Next

LEMMA AddressStep ==
    ASSUME TypeOK, AddressInv, [Next]_vars
    PROVE  AddressInv'
<1>0. mem.ip \in [Peers -> PeerIPs \union {None}]
  BY DEF TypeOK, AccountType
<1>1. Addressed(mem.ip, imported') /\ Addressed(file.ip, imported')
  BY AddressKinds DEF AddressInv, Addressed
<1>2. Addressed(mem'.ip, imported')
  <2>1. CASE mem'.ip \in {mem.ip, file.ip}
    BY <1>1, <2>1
  <2>2. ASSUME NEW p \in Peers, NEW ip \in AllocatePeerIP(TakenIPs(mem)),
               mem'.ip = [mem.ip EXCEPT ![p] = ip]
        PROVE  Addressed(mem'.ip, imported')
    <3>1. AllocatePeerIP(TakenIPs(mem)) =
              {a \in 2..(LastIP - 1) : a % 256 # 0} \ TakenIPs(mem)
      BY AddressInvGives DEF AddressesAreExact
    <3>2. ip \in 2..(LastIP - 1) /\ \A q \in Peers : mem.ip[q] # ip
      <4>1. ip \in 2..(LastIP - 1) /\ ip \notin TakenIPs(mem)
        BY <3>1
      <4>2. ip # None
        BY <4>1, AccessAssumption, NetworkAssumption DEF IPs, PeerIPs
      <4> QED BY <4>1, <4>2 DEF TakenIPs, PeersIn
    <3>3. \A q \in Peers : mem'.ip[q] = IF q = p THEN ip ELSE mem.ip[q]
      BY <2>2, <1>0
    <3> QED BY <1>1, <3>2, <3>3 DEF Addressed
  <2>3. ASSUME NEW p \in Peers, mem'.ip = [mem.ip EXCEPT ![p] = None]
        PROVE  Addressed(mem'.ip, imported')
    <3>1. \A q \in Peers : mem'.ip[q] = IF q = p THEN None ELSE mem.ip[q]
      BY <2>3, <1>0
    <3> QED BY <1>1, <3>1 DEF Addressed
  \* Another account's peer: no promise about its address.
  <2>4. ASSUME NEW p \in Peers, NEW ip \in AllocatePeerIP({}) \union {OtherIP},
               mem'.ip = [mem.ip EXCEPT ![p] = ip], p \in imported'
        PROVE  Addressed(mem'.ip, imported')
    <3>1. AllocatePeerIP({}) = {a \in 2..(LastIP - 1) : a % 256 # 0} \ {}
      BY BothEndsFree
    <3>2. ip \in (2..(LastIP - 1)) \union {OtherIP}
      BY <3>1
    <3>3. \A q \in Peers : mem'.ip[q] = IF q = p THEN ip ELSE mem.ip[q]
      BY <2>4, <1>0
    <3> QED BY <1>1, <2>4, <3>2, <3>3 DEF Addressed
  <2> QED BY <2>1, <2>2, <2>3, <2>4, AddressKinds
<1>3. file'.ip \in {mem'.ip, file.ip}
  BY AddressKinds
<1> QED BY <1>1, <1>2, <1>3 DEF AddressInv

\* For a network of any size and any number of peers that come and go, no two
\* peers of the account share an address, unless one came from another account
\* by RenamePeer, and a new peer may get every free address but the first, the
\* broadcast one and those that end in a zero octet, which nobody gets.
THEOREM Addresses == Spec => []AddressesAreExact
<1>1. Init => AddressInv
  <2> SUFFICES ASSUME Init PROVE AddressInv
    OBVIOUS
  <2>1. PICK g \in Groups, r \in Rules : mem = addAllGroup(EmptyAccount, g, r)
    BY DEF Init
  <2>2. mem.ip = [p \in Peers |-> None] /\ file = mem
    BY <2>1 DEF addAllGroup, EmptyAccount, Init
  <2> QED BY <2>2 DEF AddressInv, Addressed
<1>2. TypeOK /\ AddressInv /\ [Next]_vars => AddressInv'
  BY AddressStep
<1> QED BY <1>1, <1>2, AddressInvGives, TypeCorrect, PTL DEF Spec
=============================================================================
