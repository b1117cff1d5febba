----------------------------- MODULE PeerConns -----------------------------
(***************************************************************************)
(* The connections of one client's Engine to its remote peers:             *)
(* updateNetworkMap, connWorker, Stop and the signal message handler       *)
(* (client/internal/engine.go), Conn.Open, Close, cleanup and the remote   *)
(* callbacks (client/internal/peer/conn.go), and the WireGuard entries     *)
(* that the proxies add and remove (client/internal/proxy).                *)
(*                                                                         *)
(* Every Conn object has a goroutine, connWorker, that runs Open again and *)
(* again.  Close reaches it only while Open waits in one of its selects,   *)
(* and the worker looks for its peer by key, so that a Conn may outlive    *)
(* its removal and meet a second Conn of the same peer.                    *)
(***************************************************************************)
EXTENDS Naturals, FiniteSets

CONSTANTS
    RemotePeers,    \* public keys of the remote peers
    Conns,          \* Conn objects; bounds how many are ever created
    None

ASSUME ConnsAssumption == None \notin Conns /\ None \notin RemotePeers

VARIABLES
    engine,      \* "running", "stopping" (Stop sleeps, holding syncMsgMux), "stopped"
    peerConns,   \* remote peer -> its Conn in e.peerConns
    pc,          \* Conn -> where its connWorker is
    peer,        \* Conn -> config.Key
    status,      \* Conn -> conn.status
    proxy,       \* Conn -> is conn.proxy there
    cancelled,   \* Conn -> conn.ctx is done
    overlap,     \* history: a Conn of the same peer was alive at its creation
    wg           \* remote peer -> the Conn that configured it in WireGuard

vars == <<engine, peerConns, pc, peer, status, proxy, cancelled, overlap, wg>>

Init ==
    /\ engine = "running"
    /\ peerConns = [p \in RemotePeers |-> None]
    /\ pc = [c \in Conns |-> "unused"]
    /\ peer = [c \in Conns |-> None]
    /\ status = [c \in Conns |-> "disconnected"]
    /\ proxy = [c \in Conns |-> FALSE]
    /\ cancelled = [c \in Conns |-> FALSE]
    /\ overlap = [c \in Conns |-> FALSE]
    /\ wg = [p \in RemotePeers |-> None]

Alive(c) == pc[c] \notin {"unused", "gone"}

-----------------------------------------------------------------------------
(* The engine *)

\* Conn.Close hands over the close event only to an Open that waits for it,
\* and otherwise does nothing.
AfterClose(c) == IF pc[c] \in {"confirm", "connected"} THEN "cleanup" ELSE pc[c]

Removed(c, update) ==
    \E p \in RemotePeers : p \notin update /\ peerConns[p] = c

\* createPeerConn makes a new Conn for every peer, with its own callbacks.
createPeerConn(new) ==
    /\ \A p, q \in DOMAIN new : new[p] = new[q] => p = q
    /\ \A p \in DOMAIN new : pc[new[p]] = "unused"

(***************************************************************************)
(* updateNetworkMap with a map that is not outdated: removePeers (or       *)
(* removeAllPeers), then addNewPeers, which creates a Conn and starts its  *)
(* worker for each peer without one.  "new" assigns the fresh objects.     *)
(***************************************************************************)
UpdateNetworkMap(update, new) ==
    /\ engine # "stopping"
    /\ DOMAIN new = {p \in update : peerConns[p] = None}
    /\ createPeerConn(new)
    /\ LET Fresh == {new[p] : p \in DOMAIN new}
           KeyOf(c) == CHOOSE p \in DOMAIN new : new[p] = c
       IN  /\ peerConns' = [p \in RemotePeers |->
                               IF p \notin update THEN None
                               ELSE IF p \in DOMAIN new THEN new[p] ELSE peerConns[p]]
           /\ pc' = [c \in Conns |->
                        IF c \in Fresh THEN "sleep"
                        ELSE IF Removed(c, update) THEN AfterClose(c) ELSE pc[c]]
           /\ peer' = [c \in Conns |-> IF c \in Fresh THEN KeyOf(c) ELSE peer[c]]
           /\ overlap' = [c \in Conns |->
                             IF c \in Fresh
                             THEN \E d \in Conns : Alive(d) /\ peer[d] = KeyOf(c)
                             ELSE overlap[c]]
    /\ UNCHANGED <<engine, status, proxy, cancelled, wg>>

\* Stop: removeAllPeers, then half a second for the Conns to clean up.
Stop ==
    /\ engine = "running"
    /\ engine' = "stopping"
    /\ peerConns' = [p \in RemotePeers |-> None]
    /\ pc' = [c \in Conns |-> IF Removed(c, {}) THEN AfterClose(c) ELSE pc[c]]
    /\ UNCHANGED <<peer, status, proxy, cancelled, overlap, wg>>

\* The interface is closed, with every peer that is still configured in it.
StopCloseInterface ==
    /\ engine = "stopping"
    /\ engine' = "stopped"
    /\ wg' = [p \in RemotePeers |-> None]
    /\ UNCHANGED <<peerConns, pc, peer, status, proxy, cancelled, overlap>>

-----------------------------------------------------------------------------
(* connWorker and Conn.Open *)

Goto(c, l) == pc' = [pc EXCEPT ![c] = l]

\* Mutant: the worker does not look whether its peer was removed.
ConnWorkerNoCheck(c) ==
    /\ pc[c] = "sleep"
    /\ engine = "running"
    /\ Goto(c, "open")
    /\ UNCHANGED <<engine, peerConns, peer, status, proxy, cancelled, overlap, wg>>

\* It gives up when no Conn at all is left for the key; the signal client is
\* not ready once the engine was told to stop.
ConnWorker(c) ==
    /\ pc[c] = "sleep"
    /\ engine # "stopping"
    /\ \/ peerConns[peer[c]] = None /\ Goto(c, "gone")
       \/ peerConns[peer[c]] # None /\ engine = "running" /\ Goto(c, "open")
    /\ UNCHANGED <<engine, peerConns, peer, status, proxy, cancelled, overlap, wg>>

\* An offer or an answer is sent, or the signal client returns an error.
signalAuth(c, next) ==
    \/ engine = "running" /\ Goto(c, next)
    \/ Goto(c, "cleanup")

\* reCreateAgent and sendOffer.
SendOffer(c) ==
    /\ pc[c] = "open"
    /\ signalAuth(c, "confirm")
    /\ UNCHANGED <<engine, peerConns, peer, status, proxy, cancelled, overlap, wg>>

\* An offer or an answer of p goes to the Conn in peerConns; a Conn that does
\* not wait for one drops it.
OnRemoteOffer(p) ==
    /\ engine = "running"
    /\ peerConns[p] # None
    /\ pc[peerConns[p]] = "confirm"
    /\ Goto(peerConns[p], "answer")
    /\ UNCHANGED <<engine, peerConns, peer, status, proxy, cancelled, overlap, wg>>

OnRemoteAnswer(p) ==
    /\ engine = "running"
    /\ peerConns[p] # None
    /\ pc[peerConns[p]] = "confirm"
    /\ Goto(peerConns[p], "gather")
    /\ UNCHANGED <<engine, peerConns, peer, status, proxy, cancelled, overlap, wg>>

ConnectionTimeout(c) ==
    /\ pc[c] = "confirm"
    /\ Goto(c, "cleanup")
    /\ UNCHANGED <<engine, peerConns, peer, status, proxy, cancelled, overlap, wg>>

SendAnswer(c) ==
    /\ pc[c] = "answer"
    /\ signalAuth(c, "gather")
    /\ UNCHANGED <<engine, peerConns, peer, status, proxy, cancelled, overlap, wg>>

\* The status becomes Connecting, with a new context; GatherCandidates.
Gather(c) ==
    /\ pc[c] = "gather"
    /\ status' = [status EXCEPT ![c] = "connecting"]
    /\ cancelled' = [cancelled EXCEPT ![c] = FALSE]
    /\ Goto(c, "dial") \/ Goto(c, "cleanup")
    /\ UNCHANGED <<engine, peerConns, peer, proxy, overlap, wg>>

\* Dial or Accept: a connection, or an error, always so for a context that
\* is done.
Dial(c) ==
    /\ pc[c] = "dial"
    /\ \/ ~cancelled[c] /\ Goto(c, "startProxy")
       \/ Goto(c, "cleanup")
    /\ UNCHANGED <<engine, peerConns, peer, status, proxy, cancelled, overlap, wg>>

\* The ICE agent reports Failed or Disconnected: conn.notifyDisconnected().
OnICEConnectionStateChange(c) ==
    /\ pc[c] \in {"dial", "startProxy", "connected"}
    /\ ~cancelled[c]
    /\ cancelled' = [cancelled EXCEPT ![c] = TRUE]
    /\ UNCHANGED <<engine, peerConns, pc, peer, status, proxy, overlap, wg>>

\* The WireGuard interface, which is configured by key; on one that is closed
\* every call fails.
configureDevice(p, c) == engine # "stopped" /\ wg' = [wg EXCEPT ![p] = c]

UpdatePeer(p, c) == configureDevice(p, c)

RemovePeer(p) == configureDevice(p, None)

\* Start of the proxy configures the peer; Close removes it, whoever has
\* configured it.
ProxyStart(c) == UpdatePeer(peer[c], c)

ProxyClose(c) == IF proxy[c] THEN RemovePeer(peer[c]) ELSE UNCHANGED wg

\* startProxy: conn.proxy is set first; its Start may fail.
StartProxy(c) ==
    /\ pc[c] = "startProxy"
    /\ proxy' = [proxy EXCEPT ![c] = TRUE]
    /\ \/ /\ ProxyStart(c)
          /\ status' = [status EXCEPT ![c] = "connected"]
          /\ Goto(c, "connected")
       \/ /\ Goto(c, "cleanup")
          /\ UNCHANGED <<wg, status>>
    /\ UNCHANGED <<engine, peerConns, peer, cancelled, overlap>>

Disconnected(c) ==
    /\ pc[c] = "connected"
    /\ cancelled[c]
    /\ Goto(c, "cleanup")
    /\ UNCHANGED <<engine, peerConns, peer, status, proxy, cancelled, overlap, wg>>

\* Mutant: the proxy is dropped without being closed.
CleanupNoProxyClose(c) ==
    /\ pc[c] = "cleanup"
    /\ proxy' = [proxy EXCEPT ![c] = FALSE]
    /\ status' = [status EXCEPT ![c] = "disconnected"]
    /\ cancelled' = [cancelled EXCEPT ![c] = TRUE]
    /\ Goto(c, "sleep")
    /\ UNCHANGED <<engine, peerConns, peer, overlap, wg>>

\* Mutant: the status is not reset.
CleanupKeepsStatus(c) ==
    /\ pc[c] = "cleanup"
    /\ ProxyClose(c)
    /\ proxy' = [proxy EXCEPT ![c] = FALSE]
    /\ cancelled' = [cancelled EXCEPT ![c] = TRUE]
    /\ Goto(c, "sleep")
    /\ UNCHANGED <<engine, peerConns, peer, status, overlap>>

\* The deferred cleanup: agent.Close, then proxy.Close; when that fails the
\* Conn is left as it is.
Cleanup(c) ==
    /\ pc[c] = "cleanup"
    /\ \/ /\ ProxyClose(c)
          /\ proxy' = [proxy EXCEPT ![c] = FALSE]
          /\ status' = [status EXCEPT ![c] = "disconnected"]
          /\ cancelled' = [cancelled EXCEPT ![c] = TRUE]
       \/ /\ proxy[c] /\ engine = "stopped"
          /\ UNCHANGED <<proxy, status, cancelled, wg>>
    /\ Goto(c, "sleep")
    /\ UNCHANGED <<engine, peerConns, peer, overlap>>

-----------------------------------------------------------------------------

OpenStep(c) ==
    \/ ConnWorker(c)
    \/ SendOffer(c)
    \/ ConnectionTimeout(c)
    \/ SendAnswer(c)
    \/ Gather(c)
    \/ Dial(c)
    \/ StartProxy(c)
    \/ Disconnected(c)
    \/ Cleanup(c)

Next ==
    \/ \E update \in SUBSET RemotePeers :
          \E new \in [{p \in update : peerConns[p] = None} -> Conns] :
             UpdateNetworkMap(update, new)
    \/ Stop
    \/ StopCloseInterface
    \/ \E p \in RemotePeers : OnRemoteOffer(p) \/ OnRemoteAnswer(p)
    \/ \E c \in Conns : OpenStep(c) \/ OnICEConnectionStateChange(c)

Spec == Init /\ [][Next]_vars

\* A worker that can run does, timers fire, Dial returns, and a sleeping Stop
\* wakes up; no remote peer has to answer and no agent has to fail.
Fairness == WF_vars(StopCloseInterface) /\ \A c \in Conns : WF_vars(OpenStep(c))

FairSpec == Spec /\ Fairness

-----------------------------------------------------------------------------
(* Properties *)

\* The peers the engine reports as connected.
GetConnectedPeers ==
    {p \in RemotePeers : peerConns[p] # None /\ status[peerConns[p]] = "connected"}

\* The type of every variable.
TypeOK ==
    /\ engine \in {"running", "stopping", "stopped"}
    /\ peerConns \in [RemotePeers -> Conns \cup {None}]
    /\ pc \in [Conns -> {"unused", "sleep", "open", "confirm", "answer", "gather",
                         "dial", "startProxy", "connected", "cleanup", "gone"}]
    /\ peer \in [Conns -> RemotePeers \cup {None}]
    /\ status \in [Conns -> {"disconnected", "connecting", "connected"}]
    /\ proxy \in [Conns -> BOOLEAN]
    /\ cancelled \in [Conns -> BOOLEAN]
    /\ overlap \in [Conns -> BOOLEAN]
    /\ wg \in [RemotePeers -> Conns \cup {None}]

(***************************************************************************)
(* No WireGuard entry is left behind: the Conn that configured it is still *)
(* connected, or its cleanup, which will remove the entry, has not run     *)
(* yet, although Conns of one peer overlap and entries are removed by key  *)
(* (conn.go:311-342, proxy/wireguard.go:63-76).                            *)
(***************************************************************************)
WireguardEntryHasConn ==
    \A p \in RemotePeers : wg[p] # None =>
        /\ peer[wg[p]] = p
        /\ proxy[wg[p]]
        /\ pc[wg[p]] \in {"connected", "cleanup"}

(***************************************************************************)
(* A peer the engine reports as connected (engine.go:295-307) is           *)
(* configured in WireGuard by its own Conn, unless a Conn of the same peer *)
(* was still alive when this one was created.                              *)
(***************************************************************************)
ConnectedIsConfigured ==
    engine # "stopped" =>
        \A p \in GetConnectedPeers : ~overlap[peerConns[p]] => wg[p] = peerConns[p]

(***************************************************************************)
(* A removed peer is forgotten: when it is not added again, its worker     *)
(* ends, or its Conn is one that Close did not reach and that keeps the    *)
(* connection it made (engine.go:494-498).                                 *)
(***************************************************************************)
RemovedWorkerEnds ==
    \A c \in Conns :
        <>[](pc[c] # "unused" /\ peerConns[peer[c]] = None)
            => <>[](pc[c] \in {"gone", "connected"})
=============================================================================
