------------------------------ MODULE MgmtSync ------------------------------
(***************************************************************************)
(* How the management service keeps its peers informed of the network:     *)
(* the gRPC handlers Sync and Login/registerPeer (grpcserver.go), the      *)
(* account manager's AddPeer, DeletePeer, GetNetworkMap and                *)
(* MarkPeerConnected (peer.go), the update channels and the TURN refresh   *)
(* goroutines, and the clients' engines that apply what they receive.      *)
(*                                                                         *)
(* One account whose peers all see each other (the default rule between    *)
(* the groups "All").  The actors run concurrently: a Sync handler per     *)
(* stream, the Login calls, the administrators' DeletePeer calls, the      *)
(* refresh goroutines, and the clients, which disconnect and reconnect.    *)
(***************************************************************************)
EXTENDS TurnCredentials, EngineSync, FiniteSets

CONSTANTS
    IPs,                    \* the addresses of the account's network
    Logins,                 \* server threads that run a Login call
    Admins,                 \* server threads that run a DeletePeer call
    TimeBasedCredentials,   \* config.TURNConfig.TimeBasedCredentials
    MaxSerial,              \* bound on the number of network changes
    MaxWriteErrors          \* bound on the writes of the store that fail

ASSUME SyncConstantsAssumption ==
    /\ None \notin IPs
    /\ TimeBasedCredentials \in BOOLEAN
    /\ MaxSerial \in Nat
    /\ MaxWriteErrors \in Nat

VARIABLES
    ip,           \* peer -> address in the account's Peers, None if not there
    serial,       \* account.Network.Serial
    hist,         \* history: serial -> the sets of keys registered under it
    connected,    \* peer -> Peer.Status.Connected
    writeErrors,  \* how many writes of the store have failed
    pc,           \* stream -> where its Sync handler is
    owner,        \* stream -> the peer that opened it
    broken,       \* stream -> the transport is gone, Context() is done
    missed,       \* history: stream -> the serial of the last change after its
                  \* initial sync that was not put into its channel, 0 if none
    current,      \* peer -> the stream its client opened last
    view,         \* peer -> the client engine's view of the network
    login,        \* Login thread -> its progress
    admin         \* DeletePeer thread -> its progress

accountVars == <<ip, serial, hist, connected, writeErrors>>
streamVars == <<pc, owner, broken, missed, current>>
threadVars == <<login, admin>>
vars == <<channelVars, turnVars, accountVars, streamVars, view, threadVars>>

-----------------------------------------------------------------------------
(* The account *)

Registered == {p \in Peers : ip[p] # None}

\* The peers p is told about: all others, nothing once p is not registered.
PeersFor(p) == {[key |-> q, ip |-> ip[q]] : q \in Registered \ {p}}

amMuxFree == \A a \in Admins : admin[a].pc = "idle"

\* IncSerial, with the history of the registered keys.
IncSerial(keys) ==
    /\ serial < MaxSerial
    /\ serial' = serial + 1
    /\ hist' = [n \in 0..(serial + 1) |-> IF n <= serial THEN hist[n] ELSE {keys}]

\* The store's file cannot be written; what is in memory stays as it is.
persistFails ==
    /\ writeErrors < MaxWriteErrors
    /\ writeErrors' = writeErrors + 1

\* toWiretrusteeConfig: the credentials it is given, or those of the file.
toWiretrusteeConfig(timed) == IF timed THEN "timed" ELSE "static"

NetworkMapMsg(peers, turn, n) ==
    [hasMap |-> TRUE, serial |-> n, peers |-> peers, turn |-> turn]

Idle == [pc |-> "idle", peer |-> None, ip |-> None, serial |-> 0,
         peers |-> {}, todo |-> {}]

Init ==
    /\ ChannelsInit
    /\ TurnInit
    /\ ip = [p \in Peers |-> None]
    /\ serial = 0
    /\ hist = [n \in 0..0 |-> {{}}]
    /\ connected = [p \in Peers |-> FALSE]
    /\ writeErrors = 0
    /\ pc = [s \in Streams |-> "unused"]
    /\ owner = [s \in Streams |-> None]
    /\ broken = [s \in Streams |-> FALSE]
    /\ missed = [s \in Streams |-> 0]
    /\ current = [p \in Peers |-> None]
    /\ view = [p \in Peers |-> NewEngine]
    /\ login = [l \in Logins |-> Idle]
    /\ admin = [a \in Admins |-> Idle]

\* SendUpdate, with the history of what a peer in the window misses.
Publish(t, p, m) ==
    /\ SendUpdate(t, p, m)
    /\ missed' = [s \in Streams |->
                    IF /\ owner[s] = p
                       /\ pc[s] = "createChannel"
                       /\ m.serial > missed[s]
                    THEN m.serial
                    ELSE missed[s]]

\* A change that nobody is told of, as the history of the streams that have
\* had their initial sync: the next serial is the first to include it.
Unpublished ==
    missed' = [s \in Streams |->
                 IF pc[s] \in {"unused", "getPeer", "initialSync"}
                 THEN missed[s]
                 ELSE serial + 1]

-----------------------------------------------------------------------------
(* Clients *)

Streaming(p) ==
    /\ current[p] # None
    /\ pc[current[p]] # "done"
    /\ ~broken[current[p]]

\* The client opens a stream: at first, or when its last one failed.
ClientConnect(s, p) ==
    /\ pc[s] = "unused"
    /\ ~Streaming(p)
    /\ pc' = [pc EXCEPT ![s] = "getPeer"]
    /\ owner' = [owner EXCEPT ![s] = p]
    /\ current' = [current EXCEPT ![p] = s]
    /\ UNCHANGED <<channelVars, turnVars, accountVars, broken, missed, view,
                   threadVars>>

\* The connection drops or the client goes away; the server may notice late.
ClientDisconnect(p) ==
    /\ Streaming(p)
    /\ broken' = [broken EXCEPT ![current[p]] = TRUE]
    /\ UNCHANGED <<channelVars, turnVars, accountVars, pc, owner, missed,
                   current, view, threadVars>>

\* The client is restarted with a new Engine.
ClientRestart(p) ==
    /\ ~Streaming(p)
    /\ view[p] # NewEngine
    /\ view' = [view EXCEPT ![p] = NewEngine]
    /\ UNCHANGED <<channelVars, turnVars, accountVars, streamVars, threadVars>>

Deliver(p, m) == view' = [view EXCEPT ![p] = handleSync(@, m)]

-----------------------------------------------------------------------------
(* The Sync handler of stream s *)

Goto(s, l) == pc' = [pc EXCEPT ![s] = l]

SyncGetPeer(s) ==
    /\ pc[s] = "getPeer"
    /\ amMuxFree
    /\ Goto(s, IF owner[s] \in Registered THEN "initialSync" ELSE "done")
    /\ UNCHANGED <<channelVars, turnVars, accountVars, owner, broken, missed,
                   current, view, threadVars>>

\* sendInitialSync fails when the peer is gone by now; on a broken stream it
\* fails or the response is lost in the transport.
SendInitialSync(s) ==
    /\ pc[s] = "initialSync"
    /\ amMuxFree
    /\ LET p == owner[s]
           turn == toWiretrusteeConfig(TimeBasedCredentials)
       IN \/ /\ p \in Registered
             /\ ~broken[s]
             /\ Deliver(p, NetworkMapMsg(PeersFor(p), turn, serial))
             /\ Goto(s, "createChannel")
          \/ /\ p \in Registered
             /\ broken[s]
             /\ Goto(s, "createChannel")
             /\ UNCHANGED view
          \/ /\ p \notin Registered \/ broken[s]
             /\ Goto(s, "done")
             /\ UNCHANGED view
    /\ UNCHANGED <<channelVars, turnVars, accountVars, owner, broken, missed,
                   current, threadVars>>

SyncCreateChannel(s) ==
    /\ pc[s] = "createChannel"
    /\ CreateChannel(s, owner[s])
    /\ Goto(s, "markConnected")
    /\ UNCHANGED <<turnVars, accountVars, owner, broken, missed, current, view,
                   threadVars>>

\* MarkPeerConnected; the error for an unknown peer, or of a failing write
\* after the peer in memory was replaced, is only logged.
MarkPeerConnected(p, up) ==
    /\ amMuxFree
    /\ connected' = [connected EXCEPT ![p] = IF p \in Registered THEN up ELSE @]
    /\ UNCHANGED <<ip, serial, hist, writeErrors>>

SyncMarkConnected(s) ==
    /\ pc[s] = "markConnected"
    /\ MarkPeerConnected(owner[s], TRUE)
    /\ Goto(s, IF TimeBasedCredentials THEN "setupRefresh" ELSE "loop")
    /\ UNCHANGED <<channelVars, turnVars, owner, broken, missed, current, view,
                   threadVars>>

SyncSetupRefresh(s) ==
    /\ pc[s] = "setupRefresh"
    /\ SetupRefresh(s, owner[s])
    /\ Goto(s, "loop")
    /\ UNCHANGED <<channelVars, accountVars, owner, broken, missed, current,
                   view, threadVars>>

\* An update is received and sent to the client.
SyncForward(s) ==
    /\ pc[s] = "loop"
    /\ ChanReceive(s)
    /\ ~broken[s]
    /\ Deliver(owner[s], Head(chanBuf[s]))
    /\ UNCHANGED <<turnVars, accountVars, streamVars, threadVars>>

\* SendMsg on a broken stream: lost in the transport, or an error on which
\* the handler returns and leaves channel, refresher and status as they are.
SyncForwardBroken(s) ==
    /\ pc[s] = "loop"
    /\ ChanReceive(s)
    /\ broken[s]
    /\ \/ UNCHANGED pc
       \/ Goto(s, "done")
    /\ UNCHANGED <<turnVars, accountVars, owner, broken, missed, current, view,
                   threadVars>>

\* The updates channel has been closed: return nil, and nothing else.
SyncChannelClosed(s) ==
    /\ pc[s] = "loop"
    /\ chanClosed[s]
    /\ chanBuf[s] = <<>>
    /\ Goto(s, "done")
    /\ UNCHANGED <<channelVars, turnVars, accountVars, owner, broken, missed,
                   current, view, threadVars>>

\* Context().Done(): close the channel, cancel the refresh, mark the peer, all
\* three by the peer's key.
SyncDoneCloseChannel(s) ==
    /\ pc[s] = "loop"
    /\ broken[s]
    /\ CloseChannel(owner[s])
    /\ Goto(s, "cancelRefresh")
    /\ UNCHANGED <<turnVars, accountVars, owner, broken, missed, current, view,
                   threadVars>>

SyncDoneCancelRefresh(s) ==
    /\ pc[s] = "cancelRefresh"
    /\ CancelRefresh(owner[s])
    /\ Goto(s, "markDisconnected")
    /\ UNCHANGED <<channelVars, accountVars, owner, broken, missed, current,
                   view, threadVars>>

SyncDoneMarkDisconnected(s) ==
    /\ pc[s] = "markDisconnected"
    /\ MarkPeerConnected(owner[s], FALSE)
    /\ Goto(s, "done")
    /\ UNCHANGED <<channelVars, turnVars, owner, broken, missed, current, view,
                   threadVars>>

-----------------------------------------------------------------------------
(* Login and registerPeer, run by thread l *)

\* Login finds no such peer and a setup key in the request.  For a peer that
\* is registered it updates the meta data, which nothing here depends on.
LoginGetPeer(l, p) ==
    /\ login[l].pc = "idle"
    /\ amMuxFree
    /\ p \notin Registered
    /\ serial < MaxSerial
    /\ login' = [login EXCEPT ![l] = [Idle EXCEPT !.pc = "addPeer", !.peer = p]]
    /\ UNCHANGED <<channelVars, turnVars, accountVars, streamVars, view, admin>>

\* AddPeer gives the peer a free address and overwrites an existing entry.
AddPeer(l) ==
    /\ login[l].pc = "addPeer"
    /\ amMuxFree
    /\ LET p == login[l].peer IN
       \E a \in IPs \ {ip[q] : q \in Registered} :
          /\ ip' = [ip EXCEPT ![p] = a]
          /\ connected' = [connected EXCEPT ![p] = FALSE]
          /\ IncSerial(Registered \cup {p})
          /\ login' = [login EXCEPT ![l] = [@ EXCEPT !.pc = "networkMap", !.ip = a]]
    /\ UNCHANGED <<channelVars, turnVars, writeErrors, streamVars, view, admin>>

\* SaveAccount fails: Login returns the error, and the peer stays in the
\* account under the new serial without anybody having been told.
AddPeerNotSaved(l) ==
    /\ login[l].pc = "addPeer"
    /\ amMuxFree
    /\ persistFails
    /\ LET p == login[l].peer IN
       \E a \in IPs \ {ip[q] : q \in Registered} :
          /\ ip' = [ip EXCEPT ![p] = a]
          /\ connected' = [connected EXCEPT ![p] = FALSE]
          /\ IncSerial(Registered \cup {p})
    /\ Unpublished
    /\ login' = [login EXCEPT ![l] = Idle]
    /\ UNCHANGED <<channelVars, turnVars, pc, owner, broken, current, view, admin>>

\* AllocatePeerIP finds no free address: Login fails.
AddPeerNoAddress(l) ==
    /\ login[l].pc = "addPeer"
    /\ amMuxFree
    /\ IPs \subseteq {ip[q] : q \in Registered}
    /\ login' = [login EXCEPT ![l] = Idle]
    /\ UNCHANGED <<channelVars, turnVars, accountVars, streamVars, view, admin>>

\* registerPeer's GetNetworkMap: an error if the peer was deleted meanwhile.
RegisterGetNetworkMap(l) ==
    /\ login[l].pc = "networkMap"
    /\ amMuxFree
    /\ LET p == login[l].peer IN
       login' = [login EXCEPT
           ![l] = IF p \in Registered
                  THEN [@ EXCEPT !.pc = "notify", !.serial = serial,
                                 !.peers = PeersFor(p),
                                 !.todo = Registered \ {p}]
                  ELSE Idle]
    /\ UNCHANGED <<channelVars, turnVars, accountVars, streamVars, view, admin>>

\* What registerPeer tells remote peer q: the new peer as AddPeer returned it
\* and the others of the new peer's map, with the configured TURN credentials.
RegistrationUpdate(l, q) ==
    NetworkMapMsg({[key |-> login[l].peer, ip |-> login[l].ip]}
                      \cup {r \in login[l].peers : r.key # q},
                  toWiretrusteeConfig(FALSE), login[l].serial)

\* Mutant: the notified peer is not excluded from its own update.
RegisterNotifySelf(l) ==
    /\ login[l].pc = "notify"
    /\ \E q \in login[l].todo :
          /\ Publish(l, q, NetworkMapMsg({[key |-> login[l].peer, ip |-> login[l].ip]}
                                             \cup login[l].peers,
                                         "static", login[l].serial))
          /\ login' = [login EXCEPT ![l] = [@ EXCEPT !.todo = login[l].todo \ {q}]]
    /\ UNCHANGED <<turnVars, accountVars, pc, owner, broken, current, view, admin>>

RegisterNotify(l) ==
    /\ login[l].pc = "notify"
    /\ \E q \in login[l].todo :
          /\ Publish(l, q, RegistrationUpdate(l, q))
          /\ login' = [login EXCEPT ![l] = [@ EXCEPT !.todo = login[l].todo \ {q}]]
    /\ UNCHANGED <<turnVars, accountVars, pc, owner, broken, current, view, admin>>

\* Mutant: registerPeer returns before it has notified everybody.
LoginReturnEarly(l) ==
    /\ login[l].pc = "notify"
    /\ ~Blocked(l)
    /\ login' = [login EXCEPT ![l] = Idle]
    /\ UNCHANGED <<channelVars, turnVars, accountVars, streamVars, view, admin>>

LoginReturn(l) ==
    /\ login[l].pc = "notify"
    /\ login[l].todo = {}
    /\ ~Blocked(l)
    /\ login' = [login EXCEPT ![l] = Idle]
    /\ UNCHANGED <<channelVars, turnVars, accountVars, streamVars, view, admin>>

-----------------------------------------------------------------------------
(* DeletePeer, run by thread a, which holds the account manager's mutex      *)
(* until it returns                                                          *)

DeletePeer(a, p) ==
    /\ amMuxFree
    /\ p \in Registered
    /\ ip' = [ip EXCEPT ![p] = None]
    /\ IncSerial(Registered \ {p})
    /\ admin' = [admin EXCEPT ![a] =
                    [Idle EXCEPT !.pc = "notifyDeleted", !.peer = p,
                                 !.todo = Registered \ {p}]]
    /\ UNCHANGED <<channelVars, turnVars, connected, writeErrors, streamVars, view,
                   login>>

\* One of its two writes fails and DeletePeer returns the error: the peer is
\* gone from memory, before the serial changes or after, and nobody is told.
DeletePeerNotSaved(p) ==
    /\ amMuxFree
    /\ p \in Registered
    /\ persistFails
    /\ ip' = [ip EXCEPT ![p] = None]
    /\ \/ /\ hist' = [hist EXCEPT ![serial] = @ \cup {Registered \ {p}}]
          /\ UNCHANGED serial
       \/ IncSerial(Registered \ {p})
    /\ Unpublished
    /\ UNCHANGED <<channelVars, turnVars, connected, pc, owner, broken, current,
                   view, threadVars>>

DeleteNotifyDeleted(a) ==
    /\ admin[a].pc = "notifyDeleted"
    /\ Publish(a, admin[a].peer, NetworkMapMsg({}, "none", serial))
    /\ admin' = [admin EXCEPT ![a].pc = "notifyOthers"]
    /\ UNCHANGED <<turnVars, accountVars, pc, owner, broken, current, view, login>>

\* Mutant: only the peers that are marked connected are notified.
DeleteNotifyConnected(a) ==
    /\ admin[a].pc = "notifyOthers"
    /\ \E q \in admin[a].todo :
          /\ IF connected[q]
             THEN Publish(a, q, NetworkMapMsg(PeersFor(q), "none", serial))
             ELSE UNCHANGED <<channelVars, missed>>
          /\ admin' = [admin EXCEPT ![a].todo = @ \ {q}]
    /\ UNCHANGED <<turnVars, accountVars, pc, owner, broken, current, view, login>>

DeleteNotifyOthers(a) ==
    /\ admin[a].pc = "notifyOthers"
    /\ \E q \in admin[a].todo :
          /\ Publish(a, q, NetworkMapMsg(PeersFor(q), "none", serial))
          /\ admin' = [admin EXCEPT ![a].todo = @ \ {q}]
    /\ UNCHANGED <<turnVars, accountVars, pc, owner, broken, current, view, login>>

DeleteCloseChannel(a) ==
    /\ admin[a].pc = "notifyOthers"
    /\ admin[a].todo = {}
    /\ CloseChannel(admin[a].peer)
    /\ admin' = [admin EXCEPT ![a] = Idle]
    /\ UNCHANGED <<turnVars, accountVars, streamVars, view, login>>

-----------------------------------------------------------------------------
(* The refresh goroutines, and the blocked SendUpdate *)

Refresh(s) ==
    /\ \/ RefreshSelect(s) /\ UNCHANGED <<channelVars, missed>>
       \/ RefreshSend(s, owner[s]) /\ UNCHANGED missed
    /\ UNCHANGED <<accountVars, pc, owner, broken, current, view, threadVars>>

Unblock ==
    /\ UnblockSend
    /\ UNCHANGED <<turnVars, accountVars, streamVars, view, threadVars>>

-----------------------------------------------------------------------------

SyncStep(s) ==
    \/ SyncGetPeer(s)
    \/ SendInitialSync(s)
    \/ SyncCreateChannel(s)
    \/ SyncMarkConnected(s)
    \/ SyncSetupRefresh(s)
    \/ SyncForward(s)
    \/ SyncForwardBroken(s)
    \/ SyncChannelClosed(s)
    \/ SyncDoneCloseChannel(s)
    \/ SyncDoneCancelRefresh(s)
    \/ SyncDoneMarkDisconnected(s)

LoginStep(l) ==
    \/ AddPeer(l)
    \/ AddPeerNotSaved(l)
    \/ AddPeerNoAddress(l)
    \/ RegisterGetNetworkMap(l)
    \/ RegisterNotify(l)
    \/ LoginReturn(l)

AdminStep(a) ==
    \/ DeleteNotifyDeleted(a)
    \/ DeleteNotifyOthers(a)
    \/ DeleteCloseChannel(a)

ClientStep(p) ==
    \/ \E s \in Streams : ClientConnect(s, p)
    \/ ClientDisconnect(p)
    \/ ClientRestart(p)

Next ==
    \/ \E p \in Peers : ClientStep(p)
    \/ \E s \in Streams : SyncStep(s)
    \/ \E l \in Logins, p \in Peers : LoginGetPeer(l, p)
    \/ \E l \in Logins : LoginStep(l)
    \/ \E a \in Admins, p \in Peers : DeletePeer(a, p)
    \/ \E p \in Peers : DeletePeerNotSaved(p)
    \/ \E a \in Admins : AdminStep(a)
    \/ \E s \in Streams : Refresh(s)
    \/ Unblock

Spec == Init /\ [][Next]_vars

(***************************************************************************)
(* The Go runtime schedules every runnable goroutine, so the server's      *)
(* handlers make progress; a mutex is granted to every waiter eventually   *)
(* (Go's starvation mode) and select picks every case that stays ready.    *)
(* Nothing makes clients connect, log in or administrators delete peers.   *)
(***************************************************************************)
Fairness ==
    /\ \A s \in Streams : SF_vars(SyncStep(s)) /\ WF_vars(Refresh(s))
    /\ \A s \in Streams : SF_vars(SyncDoneCloseChannel(s))
    /\ \A l \in Logins : SF_vars(LoginStep(l))
    /\ \A a \in Admins : SF_vars(AdminStep(a))
    /\ WF_vars(Unblock)

FairSpec == Spec /\ Fairness

-----------------------------------------------------------------------------
(* Properties *)

Updates == [hasMap : BOOLEAN, serial : Nat,
            peers : SUBSET [key : Peers, ip : IPs],
            turn : {"none", "static", "timed"}]

Threads == Streams \cup Logins \cup Admins

ThreadStates == [pc : {"idle", "addPeer", "networkMap", "notify",
                       "notifyDeleted", "notifyOthers"},
                 peer : Peers \cup {None}, ip : IPs \cup {None}, serial : Nat,
                 peers : SUBSET [key : Peers, ip : IPs], todo : SUBSET Peers]

Views == [serial : Nat, peers : SUBSET [key : Peers, ip : IPs],
          turn : {"none", "static", "timed"}]

ChannelsType ==
    /\ peerChannels \in [Peers -> Streams \cup {None}]
    /\ chanBuf \in [Streams -> Seq(Updates)]
    /\ chanClosed \in [Streams -> BOOLEAN]
    /\ \A s \in Streams : Len(chanBuf[s]) <= ChanCap
    /\ blocked \in SUBSET [by : Threads, chan : Streams, msg : Updates]
    /\ \A b1, b2 \in blocked : b1 = b2

TurnType ==
    /\ cancelMap \in [Peers -> Streams \cup {None}]
    /\ refresher \in [Streams -> {"none", "select", "asleep", "exited"}]
    /\ cancelled \in [Streams -> BOOLEAN]

AccountType ==
    /\ ip \in [Peers -> IPs \cup {None}]
    /\ serial \in Nat
    /\ hist \in [0..serial -> SUBSET (SUBSET Peers)]
    /\ connected \in [Peers -> BOOLEAN]
    /\ writeErrors \in 0..MaxWriteErrors

StreamType ==
    /\ pc \in [Streams -> {"unused", "getPeer", "initialSync", "createChannel",
                           "markConnected", "setupRefresh", "loop",
                           "cancelRefresh", "markDisconnected", "done"}]
    /\ owner \in [Streams -> Peers \cup {None}]
    /\ broken \in [Streams -> BOOLEAN]
    /\ missed \in [Streams -> Nat]
    /\ current \in [Peers -> Streams \cup {None}]

ViewType == view \in [Peers -> Views]

ThreadType ==
    /\ login \in [Logins -> ThreadStates]
    /\ admin \in [Admins -> ThreadStates]

\* The type of every variable; a Go channel holds no more than its capacity,
\* and one thread at most is inside SendUpdate.
TypeOK ==
    /\ ChannelsType
    /\ TurnType
    /\ AccountType
    /\ StreamType
    /\ ViewType
    /\ ThreadType

\* What peer p is told when the peers in keys are registered.
Visible(keys, p) == IF p \in keys THEN keys \ {p} ELSE {}

CoherentFor(p, m) ==
    m.hasMap => /\ m.serial \in 0..serial
                /\ \E keys \in hist[m.serial] : Keys(m.peers) = Visible(keys, p)

(***************************************************************************)
(* Every network map on its way to a peer, in a channel or in a blocked    *)
(* SendUpdate, names exactly the peers of a network the account had under  *)
(* the map's serial: the one the serial was given to, or one that a        *)
(* deletion left behind whose first write failed (peer.go:137-140).        *)
(* registerPeer composes its updates from AddPeer's result and a later     *)
(* GetNetworkMap, without a lock, while others register and delete         *)
(* (grpcserver.go:212-235, peer.go:128-201).                               *)
(***************************************************************************)
MapMatchesSerial ==
    /\ \A s \in Streams : \A i \in 1..Len(chanBuf[s]) :
          CoherentFor(owner[s], chanBuf[s][i])
    /\ \A b \in blocked : CoherentFor(owner[b.chan], b.msg)

(***************************************************************************)
(* Whatever order updates of concurrent registrations and deletions arrive *)
(* in, over however many streams, a client's set of remote peers is a      *)
(* network the account really had under the client's serial: the client    *)
(* discards older maps (engine.go:438) and so never mixes two network      *)
(* states.                                                                 *)
(***************************************************************************)
ViewMatchesSerial ==
    \A p \in Peers :
        /\ view[p].serial \in 0..serial
        /\ \E keys \in hist[view[p].serial] : Keys(view[p].peers) = Visible(keys, p)

(***************************************************************************)
(* At most one refresh goroutine of a peer is not cancelled, however its   *)
(* streams overlap: it is the one in cancelMap, so that CancelRefresh can  *)
(* reach it (turncredentials.go:82-87).                                    *)
(***************************************************************************)
LiveRefresherIsCancellable ==
    \A s \in LiveRefreshers : cancelMap[owner[s]] = s

\* No thread of the server is in the middle of a network change or a stream's
\* set-up or tear-down, and everything published has been consumed.
Quiescent ==
    /\ blocked = {}
    /\ \A l \in Logins : login[l].pc \in {"idle", "addPeer"}
    /\ amMuxFree
    /\ \A s \in Streams : pc[s] \in {"unused", "loop", "done"}
    /\ \A s \in Streams : pc[s] = "loop" => chanBuf[s] = <<>>

Healthy(s) == pc[s] = "loop" /\ ~broken[s] /\ ~chanClosed[s]

\* The client of stream s has taken in a change made after the last one that
\* its stream missed, and its serial has never stood for a second network.
Recovered(s) ==
    LET n == view[owner[s]].serial
    IN  /\ missed[s] <= n
        /\ \A k1, k2 \in hist[n] : k1 = k2

\* The client of stream s has exactly the other registered peers.
Converged(s) == Keys(view[owner[s]].peers) = Registered \ {owner[s]}

(***************************************************************************)
(* Once all is consumed, a connected client has the registered peers.  The *)
(* server loses an update of a healthy stream in two ways only: the update *)
(* is published between the stream's initial sync and the creation of its  *)
(* channel (grpcserver.go:102-107), or a write of the store fails and the  *)
(* change is not published at all (peer.go:137-146, 377-380); and either   *)
(* loss lasts no longer than until the next change the client is told of.  *)
(***************************************************************************)
ConvergedUnlessMissed ==
    Quiescent =>
        \A s \in Streams :
            (Healthy(s) /\ owner[s] \in Registered /\ Recovered(s)) => Converged(s)

\* What a step may do to the serial a client works with.
SerialStep ==
    \A p \in Peers : view'[p].serial >= view[p].serial \/ view'[p] = NewEngine

(***************************************************************************)
(* The serial a client works with never goes back while its engine lives,  *)
(* across streams and late updates (management.proto:150-152); a new       *)
(* engine starts from 0.                                                   *)
(***************************************************************************)
ViewSerialMonotonic == [][SerialStep]_vars

(***************************************************************************)
(* A client whose stream stays up ends with the registered peers for good, *)
(* if the last change it was told of is later than the last one that its   *)
(* stream missed and no SendUpdate blocks for ever on a full channel:      *)
(* every registration and deletion is eventually published, forwarded and  *)
(* applied (grpcserver.go:116-140).                                        *)
(***************************************************************************)
EventuallyConverged ==
    \A s \in Streams :
        /\ <>[](Healthy(s) /\ owner[s] \in Registered /\ Recovered(s))
        /\ []<>channelsMuxFree
        => <>[](owner[s] # None /\ Converged(s))
=============================================================================
