-------------------------- MODULE PeerConnsProofs --------------------------
(***************************************************************************)
(* Proofs about PeerConns, for any number of remote peers and of Conn      *)
(* objects.                                                                *)
(***************************************************************************)
EXTENDS PeerConns, TLAPS

\* A Conn that was created knows its peer, the engine's Conn of a peer is a
\* Conn of that peer, and a proxy exists only between StartProxy and Cleanup,
\* as long as the interface is there to be cleaned up.
ConnInv ==
    /\ \A c \in Conns : pc[c] # "unused" => peer[c] \in RemotePeers
    /\ \A p \in RemotePeers : peerConns[p] # None =>
          pc[peerConns[p]] # "unused" /\ peer[peerConns[p]] = p
    /\ \A c \in Conns : proxy[c] => pc[c] # "unused"
    /\ engine # "stopped" =>
          \A c \in Conns : proxy[c] => pc[c] \in {"connected", "cleanup"}
    /\ engine = "stopped" => \A p \in RemotePeers : wg[p] = None
    /\ \A c \in Conns : pc[c] = "connected" => proxy[c]
    /\ \A c \in Conns : status[c] = "connected" => proxy[c]

\* The engine's Conn of a peer, if it was created while no other one was
\* alive, is the only one.
AloneInv ==
    \A p \in RemotePeers : (peerConns[p] # None /\ ~overlap[peerConns[p]]) =>
        \A d \in Conns \ {peerConns[p]} : Alive(d) => peer[d] # p

EntryInv ==
    /\ TypeOK
    /\ ConnInv
    /\ WireguardEntryHasConn
    /\ AloneInv
    /\ ConnectedIsConfigured

-----------------------------------------------------------------------------

LEMMA ConnsTypeInit == Init => TypeOK
BY DEF Init, TypeOK

LEMMA ConnsTypeStep == TypeOK /\ [Next]_vars => TypeOK'
<1> SUFFICES ASSUME TypeOK, [Next]_vars PROVE TypeOK'
  OBVIOUS
<1> USE ConnsAssumption DEF TypeOK, Goto
<1>1. ASSUME NEW update \in SUBSET RemotePeers,
             NEW new \in [{p \in update : peerConns[p] = None} -> Conns],
             UpdateNetworkMap(update, new)
      PROVE  TypeOK'
  <2> DEFINE KeyOf(c) == CHOOSE p \in DOMAIN new : new[p] = c
  <2>1. ASSUME NEW c \in {new[p] : p \in DOMAIN new} PROVE KeyOf(c) \in RemotePeers
    OBVIOUS
  <2>2. peer' \in [Conns -> RemotePeers \cup {None}]
    BY <1>1, <2>1 DEF UpdateNetworkMap
  <2>3. peerConns' \in [RemotePeers -> Conns \cup {None}]
    BY <1>1 DEF UpdateNetworkMap
  <2>4. pc' \in [Conns -> {"unused", "sleep", "open", "confirm", "answer", "gather",
                           "dial", "startProxy", "connected", "cleanup", "gone"}]
    BY <1>1 DEF UpdateNetworkMap, AfterClose
  <2>5. overlap' \in [Conns -> BOOLEAN]
    BY <1>1 DEF UpdateNetworkMap
  <2> QED BY <1>1, <2>2, <2>3, <2>4, <2>5 DEF UpdateNetworkMap
<1>2. CASE Stop
  BY <1>2 DEF Stop, AfterClose
<1>3. CASE StopCloseInterface
  BY <1>3 DEF StopCloseInterface
<1>4. ASSUME NEW p \in RemotePeers, OnRemoteOffer(p) \/ OnRemoteAnswer(p)
      PROVE  TypeOK'
  BY <1>4 DEF OnRemoteOffer, OnRemoteAnswer
<1>5. ASSUME NEW c \in Conns, OpenStep(c) PROVE TypeOK'
  <2>1. CASE ConnWorker(c) \/ SendOffer(c) \/ ConnectionTimeout(c) \/ SendAnswer(c)
    BY <2>1 DEF ConnWorker, SendOffer, ConnectionTimeout, SendAnswer, signalAuth
  <2>2. CASE Gather(c) \/ Dial(c) \/ Disconnected(c)
    BY <2>2 DEF Gather, Dial, Disconnected
  <2>3. CASE StartProxy(c)
    BY <2>3 DEF StartProxy, ProxyStart, UpdatePeer, configureDevice
  <2>4. CASE Cleanup(c)
    BY <2>4 DEF Cleanup, ProxyClose, RemovePeer, configureDevice
  <2> QED BY <1>5, <2>1, <2>2, <2>3, <2>4 DEF OpenStep
<1>6. ASSUME NEW c \in Conns, OnICEConnectionStateChange(c) PROVE TypeOK'
  BY <1>6 DEF OnICEConnectionStateChange
<1>7. CASE UNCHANGED vars
  BY <1>7 DEF vars
<1> QED BY <1>1, <1>2, <1>3, <1>4, <1>5, <1>6, <1>7 DEF Next

-----------------------------------------------------------------------------

LEMMA EntryInit == Init => EntryInv
BY ConnsTypeInit
   DEF Init, EntryInv, ConnInv, AloneInv, WireguardEntryHasConn, ConnectedIsConfigured, GetConnectedPeers

\* A map removes Conns, some of which are on their way to cleanup, and adds
\* fresh ones, which have neither a proxy nor a WireGuard entry yet.
LEMMA UpdateStep ==
    ASSUME EntryInv, TypeOK',
           NEW update \in SUBSET RemotePeers,
           NEW new \in [{p \in update : peerConns[p] = None} -> Conns],
           UpdateNetworkMap(update, new)
    PROVE  EntryInv'
<1> DEFINE Fresh == {new[p] : p \in DOMAIN new}
           KeyOf(c) == CHOOSE p \in DOMAIN new : new[p] = c
<1> USE ConnsAssumption
<1>1. /\ peerConns' = [p \in RemotePeers |->
                          IF p \notin update THEN None
                          ELSE IF p \in DOMAIN new THEN new[p] ELSE peerConns[p]]
      /\ pc' = [c \in Conns |->
                   IF c \in Fresh THEN "sleep"
                   ELSE IF Removed(c, update) THEN AfterClose(c) ELSE pc[c]]
      /\ peer' = [c \in Conns |-> IF c \in Fresh THEN KeyOf(c) ELSE peer[c]]
      /\ overlap' = [c \in Conns |->
                        IF c \in Fresh
                        THEN \E d \in Conns : Alive(d) /\ peer[d] = KeyOf(c)
                        ELSE overlap[c]]
      /\ UNCHANGED <<engine, status, proxy, cancelled, wg>>
  BY DEF UpdateNetworkMap, createPeerConn
<1>2. /\ DOMAIN new = {p \in update : peerConns[p] = None}
      /\ \A p, q \in DOMAIN new : new[p] = new[q] => p = q
      /\ \A c \in Fresh : c \in Conns /\ pc[c] = "unused"
  BY DEF UpdateNetworkMap, createPeerConn
<1>3. \A p \in DOMAIN new : new[p] \in Fresh /\ KeyOf(new[p]) = p
  BY <1>2
<1>4. \A c \in Fresh : /\ KeyOf(c) \in DOMAIN new
                        /\ KeyOf(c) \in RemotePeers
                        /\ new[KeyOf(c)] = c
  OBVIOUS
<1>5. \A c \in Conns \ Fresh :
         /\ pc'[c] \in {pc[c], "cleanup"}
         /\ pc'[c] # pc[c] => pc[c] \in {"confirm", "connected"}
         /\ peer'[c] = peer[c]
         /\ overlap'[c] = overlap[c]
  BY <1>1 DEF AfterClose, EntryInv, TypeOK
<1>6. \A c \in Fresh :
         /\ pc'[c] = "sleep"
         /\ peer'[c] = KeyOf(c)
         /\ \A d \in Conns : (Alive(d) /\ peer[d] = KeyOf(c)) => overlap'[c]
  BY <1>1, <1>2
<1>7. \A p \in RemotePeers :
         \/ peerConns'[p] = None
         \/ p \in DOMAIN new /\ peerConns'[p] = new[p]
         \/ peerConns'[p] = peerConns[p] /\ peerConns[p] # None /\ peerConns[p] \notin Fresh
  BY <1>1, <1>2 DEF EntryInv, ConnInv
<1>8. \A p \in RemotePeers : peerConns[p] # None => peerConns[p] \in Conns
  BY DEF EntryInv, TypeOK
<1> HIDE DEF Fresh, KeyOf
<1>9. ConnInv'
  <2>1. (\A c \in Conns : pc[c] # "unused" => peer[c] \in RemotePeers)'
    <3> SUFFICES ASSUME NEW c \in Conns, pc'[c] # "unused"
                 PROVE  peer'[c] \in RemotePeers
      OBVIOUS
    <3>1. CASE c \in Fresh
      BY <3>1, <1>4, <1>6
    <3>2. CASE c \notin Fresh
      BY <3>2, <1>5 DEF EntryInv, ConnInv
    <3> QED BY <3>1, <3>2
  <2>2. (\A p \in RemotePeers : peerConns[p] # None =>
            pc[peerConns[p]] # "unused" /\ peer[peerConns[p]] = p)'
    <3> SUFFICES ASSUME NEW p \in RemotePeers, peerConns'[p] # None
                 PROVE  pc'[peerConns'[p]] # "unused" /\ peer'[peerConns'[p]] = p
      OBVIOUS
    <3>1. CASE p \in DOMAIN new /\ peerConns'[p] = new[p]
      BY <3>1, <1>3, <1>6
    <3>2. CASE peerConns'[p] = peerConns[p] /\ peerConns[p] # None
                  /\ peerConns[p] \notin Fresh
      BY <3>2, <1>5, <1>8 DEF EntryInv, ConnInv
    <3> QED BY <3>1, <3>2, <1>7
  <2>3. \A c \in Fresh : ~proxy[c] /\ status[c] # "connected"
    BY <1>2 DEF EntryInv, ConnInv
  <2>4. /\ \A c \in Conns : proxy[c] => pc'[c] # "unused"
        /\ engine # "stopped" =>
              \A c \in Conns : proxy[c] => pc'[c] \in {"connected", "cleanup"}
    BY <1>5, <2>3 DEF EntryInv, ConnInv
  <2>5. \A c \in Conns : pc'[c] = "connected" => proxy[c]
    BY <1>5, <1>6 DEF EntryInv, ConnInv
  <2> QED BY <1>1, <2>1, <2>2, <2>4, <2>5 DEF EntryInv, ConnInv
<1>10. WireguardEntryHasConn'
  <2> SUFFICES ASSUME NEW p \in RemotePeers, wg[p] # None
               PROVE  /\ peer'[wg[p]] = p
                      /\ proxy[wg[p]]
                      /\ pc'[wg[p]] \in {"connected", "cleanup"}
    BY <1>1 DEF WireguardEntryHasConn
  <2>1. wg[p] \in Conns \ Fresh
    BY <1>2 DEF EntryInv, TypeOK, WireguardEntryHasConn
  <2> QED BY <2>1, <1>5 DEF EntryInv, WireguardEntryHasConn
<1>11. AloneInv'
  <2> SUFFICES ASSUME NEW p \in RemotePeers, peerConns'[p] # None,
                      ~overlap'[peerConns'[p]],
                      NEW d \in Conns \ {peerConns'[p]}, Alive(d)'
               PROVE  peer'[d] # p
    BY DEF AloneInv
  <2>1. CASE p \in DOMAIN new /\ peerConns'[p] = new[p]
    <3>1. CASE d \in Fresh
      BY <2>1, <3>1, <1>3, <1>4, <1>6
    <3>2. CASE d \notin Fresh
      <4>1. Alive(d) /\ peer'[d] = peer[d]
        BY <3>2, <1>5 DEF Alive
      <4> QED BY <2>1, <4>1, <1>3, <1>6
    <3> QED BY <3>1, <3>2
  <2>2. CASE peerConns'[p] = peerConns[p] /\ peerConns[p] # None /\ peerConns[p] \notin Fresh
    <3>1. CASE d \in Fresh
      BY <2>2, <3>1, <1>2, <1>4, <1>6
    <3>2. CASE d \notin Fresh
      <4>1. Alive(d) /\ peer'[d] = peer[d]
        BY <3>2, <1>5 DEF Alive
      <4>2. ~overlap[peerConns[p]]
        BY <2>2, <1>5, <1>8
      <4> QED BY <2>2, <4>1, <4>2 DEF EntryInv, AloneInv
    <3> QED BY <3>1, <3>2
  <2> QED BY <2>1, <2>2, <1>7
<1>12. ConnectedIsConfigured'
  <2> SUFFICES ASSUME engine # "stopped", NEW p \in RemotePeers, peerConns'[p] # None,
                      status[peerConns'[p]] = "connected", ~overlap'[peerConns'[p]]
               PROVE  wg[p] = peerConns'[p]
    BY <1>1 DEF ConnectedIsConfigured, GetConnectedPeers
  <2>1. peerConns'[p] \notin Fresh
    BY <1>2 DEF EntryInv, ConnInv
  <2>2. peerConns'[p] = peerConns[p]
    BY <2>1, <1>3, <1>7
  <2> QED BY <2>1, <2>2, <1>5, <1>8 DEF EntryInv, ConnectedIsConfigured, GetConnectedPeers
<1> QED BY <1>9, <1>10, <1>11, <1>12 DEF EntryInv

\* Stop removes every Conn from the engine, as an empty map does.
LEMMA StopStep == ASSUME EntryInv, TypeOK', Stop PROVE EntryInv'
<1> USE ConnsAssumption DEF EntryInv, Stop
<1>1. \A c \in Conns : /\ pc'[c] \in {pc[c], "cleanup"}
                       /\ pc'[c] # pc[c] => pc[c] \in {"confirm", "connected"}
  BY DEF AfterClose, TypeOK
<1>2. ConnInv'
  BY <1>1 DEF ConnInv, TypeOK
<1>3. WireguardEntryHasConn'
  BY <1>1 DEF WireguardEntryHasConn, TypeOK
<1> QED BY <1>2, <1>3 DEF AloneInv, ConnectedIsConfigured, GetConnectedPeers

\* The steps of a worker.
LEMMA OpenStepInv == ASSUME EntryInv, TypeOK', NEW c \in Conns, OpenStep(c) PROVE EntryInv'
<1> USE ConnsAssumption
        DEF EntryInv, ConnInv, AloneInv, WireguardEntryHasConn, ConnectedIsConfigured, GetConnectedPeers,
            Alive, Goto, TypeOK
<1>1. CASE ConnWorker(c)
  BY <1>1 DEF ConnWorker
<1>2. CASE SendOffer(c)
  BY <1>2 DEF SendOffer, signalAuth
<1>3. CASE ConnectionTimeout(c)
  BY <1>3 DEF ConnectionTimeout
<1>4. CASE SendAnswer(c)
  BY <1>4 DEF SendAnswer, signalAuth
<1>5. CASE Gather(c)
  BY <1>5 DEF Gather
<1>6. CASE Dial(c)
  BY <1>6 DEF Dial
<1>7. CASE StartProxy(c)
  BY <1>7 DEF StartProxy, ProxyStart, UpdatePeer, configureDevice
<1>8. CASE Disconnected(c)
  BY <1>8 DEF Disconnected
<1>9. CASE Cleanup(c)
  <2>1. CASE engine = "stopped"
    BY <1>9, <2>1 DEF Cleanup, ProxyClose, RemovePeer, configureDevice
  <2>2. CASE engine # "stopped" /\ proxy[c]
    BY <1>9, <2>2 DEF Cleanup, ProxyClose, RemovePeer, configureDevice
  <2>3. CASE engine # "stopped" /\ ~proxy[c]
    BY <1>9, <2>3 DEF Cleanup, ProxyClose, RemovePeer, configureDevice
  <2> QED BY <2>1, <2>2, <2>3
<1> QED BY <1>1, <1>2, <1>3, <1>4, <1>5, <1>6, <1>7, <1>8, <1>9 DEF OpenStep

LEMMA EntryStep == EntryInv /\ [Next]_vars => EntryInv'
<1> SUFFICES ASSUME EntryInv, [Next]_vars PROVE EntryInv'
  OBVIOUS
<1>0. TypeOK'
  BY ConnsTypeStep DEF EntryInv
<1> USE ConnsAssumption, <1>0
<1>1. ASSUME NEW update \in SUBSET RemotePeers,
             NEW new \in [{p \in update : peerConns[p] = None} -> Conns],
             UpdateNetworkMap(update, new)
      PROVE  EntryInv'
  BY <1>1, UpdateStep
<1>2. CASE Stop
  BY <1>2, StopStep
<1>3. CASE StopCloseInterface
  BY <1>3 DEF StopCloseInterface, EntryInv, ConnInv, AloneInv, Alive,
              WireguardEntryHasConn, ConnectedIsConfigured, GetConnectedPeers
<1>4. ASSUME NEW p \in RemotePeers, OnRemoteOffer(p) \/ OnRemoteAnswer(p)
      PROVE  EntryInv'
  BY <1>4 DEF OnRemoteOffer, OnRemoteAnswer, Goto, EntryInv, ConnInv, AloneInv, Alive,
              WireguardEntryHasConn, ConnectedIsConfigured, GetConnectedPeers, TypeOK
<1>5. ASSUME NEW c \in Conns, OpenStep(c) PROVE EntryInv'
  BY <1>5, OpenStepInv
<1>6. ASSUME NEW c \in Conns, OnICEConnectionStateChange(c) PROVE EntryInv'
  BY <1>6 DEF OnICEConnectionStateChange, EntryInv, ConnInv, AloneInv, Alive,
              WireguardEntryHasConn, ConnectedIsConfigured, GetConnectedPeers
<1>7. CASE UNCHANGED vars
  BY <1>7 DEF vars, EntryInv, ConnInv, AloneInv, Alive, WireguardEntryHasConn,
              ConnectedIsConfigured, GetConnectedPeers
<1> QED BY <1>1, <1>2, <1>3, <1>4, <1>5, <1>6, <1>7 DEF Next

-----------------------------------------------------------------------------

(***************************************************************************)
(* Every reachable state of the engine's connections is well typed.        *)
(***************************************************************************)
THEOREM ConnsTypeCorrect == Spec => []TypeOK
<1>1. Init => TypeOK
  BY ConnsTypeInit
<1>2. TypeOK /\ [Next]_vars => TypeOK'
  BY ConnsTypeStep
<1> QED BY <1>1, <1>2, PTL DEF Spec

(***************************************************************************)
(* No WireGuard entry outlives the Conn that configured it.                *)
(***************************************************************************)
THEOREM NoStaleWireguardEntry == Spec => []WireguardEntryHasConn
<1>1. Init => EntryInv
  BY EntryInit
<1>2. EntryInv /\ [Next]_vars => EntryInv'
  BY EntryStep
<1>3. EntryInv => WireguardEntryHasConn
  BY DEF EntryInv
<1> QED BY <1>1, <1>2, <1>3, PTL DEF Spec

(***************************************************************************)
(* A peer reported as connected is configured in WireGuard by the engine's *)
(* own Conn, unless a Conn of that peer was alive when it was created.     *)
(***************************************************************************)
THEOREM ReportedPeerIsConfigured == Spec => []ConnectedIsConfigured
<1>1. Init => EntryInv
  BY EntryInit
<1>2. EntryInv /\ [Next]_vars => EntryInv'
  BY EntryStep
<1>3. EntryInv => ConnectedIsConfigured
  BY DEF EntryInv
<1> QED BY <1>1, <1>2, <1>3, PTL DEF Spec
=============================================================================
