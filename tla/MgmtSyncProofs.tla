--------------------------- MODULE MgmtSyncProofs ---------------------------
(***************************************************************************)
(* Proofs about MgmtSync, for every set of peers, streams, addresses and   *)
(* threads and every channel capacity.                                     *)
(***************************************************************************)
EXTENDS MgmtSync, SequenceTheorems, TLAPS

USE DEF toWiretrusteeConfig

-----------------------------------------------------------------------------
(* Type correctness *)

OwnerKnown == \A s \in Streams : pc[s] # "unused" => owner[s] \in Peers

LoginKnown ==
    \A l \in Logins :
        /\ login[l].pc # "idle" => login[l].peer \in Peers
        /\ login[l].pc \in {"networkMap", "notify"} => login[l].ip \in IPs

AdminKnown == \A a \in Admins : admin[a].pc # "idle" => admin[a].peer \in Peers

RefresherStarted ==
    \A s \in Streams : refresher[s] # "none" => pc[s] # "unused"

TypeInv == TypeOK /\ OwnerKnown /\ LoginKnown /\ AdminKnown /\ RefresherStarted

\* SendUpdate keeps the channels' types and appends an Updates record.
LEMMA SendUpdateType ==
    ASSUME ChannelsType, NEW t \in Threads, NEW p \in Peers, NEW m \in Updates,
           SendUpdate(t, p, m)
    PROVE  ChannelsType'
<1>1. CASE UNCHANGED <<chanBuf, blocked>>
  BY <1>1 DEF SendUpdate, ChannelsType
<1>2. ASSUME NEW c \in Streams, HasRoom(c), UNCHANGED blocked,
             chanBuf' = [chanBuf EXCEPT ![c] = Append(@, m)]
      PROVE  ChannelsType'
  BY <1>2, ChanCapAssumption DEF SendUpdate, ChannelsType, HasRoom
<1>3. ASSUME NEW c \in Streams, UNCHANGED chanBuf,
             blocked' = {[by |-> t, chan |-> c, msg |-> m]}
      PROVE  ChannelsType'
  BY <1>3 DEF SendUpdate, ChannelsType
<1>4. QED
  BY <1>1, <1>2, <1>3 DEF SendUpdate, ChannelsType

LEMMA UnblockSendType ==
    ASSUME ChannelsType, UnblockSend PROVE ChannelsType'
<1>1. PICK b \in blocked :
        /\ HasRoom(b.chan)
        /\ chanBuf' = [chanBuf EXCEPT ![b.chan] = Append(@, b.msg)]
        /\ blocked' = {}
        /\ UNCHANGED <<peerChannels, chanClosed>>
  BY DEF UnblockSend
<1>2. b.chan \in Streams /\ b.msg \in Updates
  BY DEF ChannelsType
<1>3. QED
  BY <1>1, <1>2, ChanCapAssumption DEF ChannelsType, HasRoom

LEMMA ChanReceiveType ==
    ASSUME ChannelsType, NEW s \in Streams, ChanReceive(s)
    PROVE  ChannelsType' /\ Head(chanBuf[s]) \in Updates
<1>1. chanBuf[s] \in Seq(Updates) /\ chanBuf[s] # <<>>
  BY DEF ChannelsType, ChanReceive
<1>2. /\ Head(chanBuf[s]) \in Updates
      /\ Tail(chanBuf[s]) \in Seq(Updates)
      /\ Len(Tail(chanBuf[s])) = Len(chanBuf[s]) - 1
      /\ Len(chanBuf[s]) \in Nat
  BY <1>1, HeadTailProperties
<1>3. QED
  BY <1>2, ChanCapAssumption DEF ChannelsType, ChanReceive

LEMMA CreateChannelType ==
    ASSUME ChannelsType, NEW s \in Streams, NEW p \in Peers, CreateChannel(s, p)
    PROVE  ChannelsType'
BY DEF ChannelsType, CreateChannel, CloseRegistered

LEMMA CloseChannelType ==
    ASSUME ChannelsType, NEW p \in Peers, CloseChannel(p)
    PROVE  ChannelsType'
BY DEF ChannelsType, CloseChannel, CloseRegistered

\* What an engine makes of an update is a view again.
LEMMA HandleSyncType ==
    ASSUME NEW v \in Views, NEW m \in Updates
    PROVE  handleSync(v, m) \in Views
BY DEF Views, Updates, handleSync, updateTURNs, updateNetworkMap, RemoveThenAdd, Keys

LEMMA DeliverType ==
    ASSUME ViewType, NEW p \in Peers, NEW m \in Updates, Deliver(p, m)
    PROVE  ViewType'
BY HandleSyncType DEF ViewType, Deliver

LEMMA PeersForType ==
    ASSUME AccountType, NEW p
    PROVE  PeersFor(p) \in SUBSET [key : Peers, ip : IPs]
BY DEF AccountType, PeersFor, Registered

\* The parts of TypeInv that an action which leaves their variables alone keeps.
LEMMA UnchangedParts ==
    /\ ChannelsType /\ UNCHANGED channelVars => ChannelsType'
    /\ TurnType /\ UNCHANGED turnVars => TurnType'
    /\ AccountType /\ UNCHANGED accountVars => AccountType'
    /\ StreamType /\ UNCHANGED streamVars => StreamType'
    /\ ViewType /\ UNCHANGED view => ViewType'
    /\ ThreadType /\ UNCHANGED threadVars => ThreadType'
BY DEF ChannelsType, channelVars, TurnType, turnVars, AccountType, accountVars,
       StreamType, streamVars, ViewType, ThreadType, threadVars

LEMMA PublishType ==
    ASSUME ChannelsType, StreamType, NEW t \in Threads, NEW p \in Peers,
           NEW m \in Updates, Publish(t, p, m),
           UNCHANGED <<pc, owner, broken, current>>
    PROVE  ChannelsType' /\ StreamType'
<1>1. ChannelsType'
  BY SendUpdateType DEF Publish
<1>2. StreamType'
  <2>1. m.serial \in Nat
    BY DEF Updates
  <2> QED BY <2>1 DEF StreamType, Publish
<1>3. QED
  BY <1>1, <1>2

LEMMA IncSerialType ==
    ASSUME AccountType, NEW keys \in SUBSET Peers, IncSerial(keys)
    PROVE  serial' \in Nat /\ hist' \in [0..serial' -> SUBSET (SUBSET Peers)]
BY DEF AccountType, IncSerial

\* The history that a failed deletion leaves.
LEMMA UnpublishedType ==
    ASSUME AccountType, StreamType, Unpublished, UNCHANGED <<pc, owner, broken, current>>
    PROVE  StreamType'
BY DEF AccountType, StreamType, Unpublished

LEMMA MapMsgType ==
    ASSUME NEW peers \in SUBSET [key : Peers, ip : IPs],
           NEW turn \in {"none", "static", "timed"}, NEW n \in Nat
    PROVE  NetworkMapMsg(peers, turn, n) \in Updates
BY DEF NetworkMapMsg, Updates

\* A Login thread's new record, and what LoginKnown asks of it.
LEMMA LoginUpdate ==
    ASSUME ThreadType, LoginKnown, AdminKnown, NEW l \in Logins,
           NEW r \in ThreadStates, UNCHANGED admin,
           login' = [login EXCEPT ![l] = r],
           r.pc # "idle" => r.peer \in Peers,
           r.pc \in {"networkMap", "notify"} => r.ip \in IPs
    PROVE  ThreadType' /\ LoginKnown' /\ AdminKnown'
BY DEF ThreadType, LoginKnown, AdminKnown

LEMMA TypeStep == TypeInv /\ [Next]_vars => TypeInv'
<1> SUFFICES ASSUME TypeInv, [Next]_vars PROVE TypeInv'
  OBVIOUS
<1> USE DEF TypeInv, TypeOK
<1>0. Threads = Streams \cup Logins \cup Admins
  BY DEF Threads
<1>1. ASSUME NEW p \in Peers, ClientStep(p) PROVE TypeInv'
  <2>1. ASSUME NEW s \in Streams, ClientConnect(s, p) PROVE TypeInv'
    BY <2>1, UnchangedParts
       DEF ClientConnect, StreamType, OwnerKnown, LoginKnown, AdminKnown,
           RefresherStarted, turnVars, threadVars
  <2>2. CASE ClientDisconnect(p)
    BY <2>2, UnchangedParts
       DEF ClientDisconnect, StreamType, OwnerKnown, LoginKnown, AdminKnown,
           RefresherStarted, turnVars, threadVars
  <2>3. CASE ClientRestart(p)
    <3>1. NewEngine \in Views
      BY DEF NewEngine, Views
    <3>2. ViewType'
      BY <2>3, <3>1 DEF ViewType, ClientRestart
    <3>3. QED
      BY <2>3, <3>2, UnchangedParts
         DEF ClientRestart, OwnerKnown, LoginKnown, AdminKnown,
             RefresherStarted, turnVars, threadVars, streamVars
  <2>4. QED
    BY <1>1, <2>1, <2>2, <2>3 DEF ClientStep
<1>2. ASSUME NEW s \in Streams, SyncStep(s) PROVE TypeInv'
  <2> USE DEF OwnerKnown, LoginKnown, AdminKnown, RefresherStarted,
              turnVars, threadVars, Goto
  <2>0. pc[s] # "unused" => owner[s] \in Peers
    OBVIOUS
  <2>1. CASE SyncGetPeer(s)
    BY <2>1, UnchangedParts DEF SyncGetPeer, StreamType
  <2>2. CASE SendInitialSync(s)
    <3> DEFINE turn == IF TimeBasedCredentials THEN "timed" ELSE "static"
    <3>1. owner[s] \in Peers
      BY <2>0, <2>2 DEF SendInitialSync
    <3>2. NetworkMapMsg(PeersFor(owner[s]), turn, serial) \in Updates
      BY PeersForType, MapMsgType DEF AccountType
    <3>3. ViewType'
      BY <2>2, <3>1, <3>2, DeliverType DEF SendInitialSync, ViewType
    <3>4. StreamType' /\ OwnerKnown' /\ RefresherStarted'
      BY <2>2 DEF SendInitialSync, StreamType
    <3>5. QED
      BY <2>2, <3>3, <3>4, UnchangedParts DEF SendInitialSync
  <2>3. CASE SyncCreateChannel(s)
    <3>1. ChannelsType'
      BY <2>0, <2>3, CreateChannelType DEF SyncCreateChannel
    <3>2. QED
      BY <2>3, <3>1, UnchangedParts DEF SyncCreateChannel, StreamType
  <2>4. CASE SyncMarkConnected(s)
    <3>1. AccountType'
      BY <2>0, <2>4 DEF SyncMarkConnected, MarkPeerConnected, AccountType
    <3>2. QED
      BY <2>4, <3>1, UnchangedParts DEF SyncMarkConnected, StreamType
  <2>5. CASE SyncSetupRefresh(s)
    <3>1. TurnType'
      BY <2>0, <2>5 DEF SyncSetupRefresh, SetupRefresh, cancel, TurnType
    <3>2. StreamType' /\ OwnerKnown' /\ RefresherStarted'
      BY <2>5 DEF SyncSetupRefresh, SetupRefresh, StreamType, TurnType
    <3>3. QED
      BY <2>5, <3>1, <3>2, UnchangedParts DEF SyncSetupRefresh
  <2>6. CASE SyncForward(s)
    <3>1. ChannelsType' /\ Head(chanBuf[s]) \in Updates
      BY <2>6, ChanReceiveType DEF SyncForward
    <3>2. ViewType'
      BY <2>0, <2>6, <3>1, DeliverType DEF SyncForward
    <3>3. QED
      BY <2>6, <3>1, <3>2, UnchangedParts DEF SyncForward, streamVars
  <2>7. CASE SyncForwardBroken(s)
    <3>1. ChannelsType'
      BY <2>7, ChanReceiveType DEF SyncForwardBroken
    <3>2. QED
      BY <2>7, <3>1, UnchangedParts DEF SyncForwardBroken, StreamType
  <2>8. CASE SyncChannelClosed(s)
    BY <2>8, UnchangedParts DEF SyncChannelClosed, StreamType
  <2>9. CASE SyncDoneCloseChannel(s)
    <3>1. ChannelsType'
      BY <2>0, <2>9, CloseChannelType DEF SyncDoneCloseChannel
    <3>2. QED
      BY <2>9, <3>1, UnchangedParts DEF SyncDoneCloseChannel, StreamType
  <2>10. CASE SyncDoneCancelRefresh(s)
    <3>1. TurnType'
      BY <2>0, <2>10 DEF SyncDoneCancelRefresh, CancelRefresh, cancel, TurnType
    <3>2. StreamType' /\ OwnerKnown' /\ RefresherStarted'
      BY <2>10 DEF SyncDoneCancelRefresh, CancelRefresh, StreamType
    <3>3. QED
      BY <2>10, <3>1, <3>2, UnchangedParts DEF SyncDoneCancelRefresh
  <2>11. CASE SyncDoneMarkDisconnected(s)
    <3>1. AccountType'
      BY <2>0, <2>11 DEF SyncDoneMarkDisconnected, MarkPeerConnected, AccountType
    <3>2. QED
      BY <2>11, <3>1, UnchangedParts DEF SyncDoneMarkDisconnected, StreamType
  <2>12. QED
    BY <1>2, <2>1, <2>2, <2>3, <2>4, <2>5, <2>6, <2>7, <2>8, <2>9, <2>10, <2>11
       DEF SyncStep
<1>3. ASSUME NEW l \in Logins, NEW p \in Peers, LoginGetPeer(l, p) PROVE TypeInv'
  <2>1. ThreadType' /\ LoginKnown' /\ AdminKnown'
    BY <1>3 DEF LoginGetPeer, ThreadType, ThreadStates, Idle, LoginKnown, AdminKnown
  <2>2. QED
    BY <1>3, <2>1, UnchangedParts
       DEF LoginGetPeer, OwnerKnown, RefresherStarted, turnVars, streamVars
<1>4. ASSUME NEW l \in Logins, LoginStep(l) PROVE TypeInv'
  <2> USE DEF OwnerKnown, RefresherStarted, turnVars, streamVars, LoginKnown,
              AdminKnown
  <2>0. l \in Threads /\ login[l] \in ThreadStates
    BY <1>0 DEF ThreadType
  <2>1. CASE AddPeer(l)
    <3>0. login[l].peer \in Peers
      BY <2>1 DEF AddPeer
    <3>1. PICK a \in IPs \ {ip[q] : q \in Registered} :
            /\ ip' = [ip EXCEPT ![login[l].peer] = a]
            /\ connected' = [connected EXCEPT ![login[l].peer] = FALSE]
            /\ IncSerial(Registered \cup {login[l].peer})
            /\ login' = [login EXCEPT ![l] = [@ EXCEPT !.pc = "networkMap", !.ip = a]]
      BY <2>1 DEF AddPeer
    <3>2. AccountType'
      <4>1. Registered \cup {login[l].peer} \in SUBSET Peers
        BY <3>0 DEF Registered
      <4>2. serial' \in Nat /\ hist' \in [0..serial' -> SUBSET (SUBSET Peers)]
        BY <3>1, <4>1, IncSerialType
      <4>3. UNCHANGED writeErrors
        BY <2>1 DEF AddPeer
      <4>4. QED
        BY <3>1, <4>2, <4>3 DEF AccountType
    <3>3. ThreadType' /\ LoginKnown' /\ AdminKnown'
      <4> DEFINE r == [login[l] EXCEPT !.pc = "networkMap", !.ip = a]
      <4>1. r \in ThreadStates /\ r.pc = "networkMap" /\ r.peer \in Peers /\ r.ip \in IPs
        BY <2>0, <3>0 DEF ThreadStates
      <4>2. login' = [login EXCEPT ![l] = r] /\ UNCHANGED admin
        BY <2>1, <3>1 DEF AddPeer
      <4>3. QED
        BY <4>1, <4>2, LoginUpdate
    <3>4. QED
      BY <2>1, <3>2, <3>3, UnchangedParts DEF AddPeer
  <2>2. CASE AddPeerNoAddress(l)
    <3>1. ThreadType' /\ LoginKnown' /\ AdminKnown'
      BY <2>2 DEF AddPeerNoAddress, ThreadType, ThreadStates, Idle
    <3>2. QED
      BY <2>2, <3>1, UnchangedParts DEF AddPeerNoAddress
  <2>3. CASE RegisterGetNetworkMap(l)
    <3>1. PeersFor(login[l].peer) \in SUBSET [key : Peers, ip : IPs]
      BY PeersForType
    <3>2. /\ Registered \ {login[l].peer} \in SUBSET Peers
          /\ serial \in Nat
      BY DEF Registered, AccountType
    <3>3. ThreadType' /\ LoginKnown' /\ AdminKnown'
      <4> DEFINE r == IF login[l].peer \in Registered
                      THEN [login[l] EXCEPT !.pc = "notify", !.serial = serial,
                                            !.peers = PeersFor(login[l].peer),
                                            !.todo = Registered \ {login[l].peer}]
                      ELSE Idle
      <4>0. login[l].pc = "networkMap"
        BY <2>3 DEF RegisterGetNetworkMap
      <4>1. CASE login[l].peer \in Registered
        <5>1. /\ r \in ThreadStates /\ r.pc = "notify"
              /\ r.peer \in Peers /\ r.ip \in IPs
          BY <2>0, <3>1, <3>2, <4>0, <4>1 DEF ThreadStates
        <5>2. login' = [login EXCEPT ![l] = r] /\ UNCHANGED admin
          BY <2>3 DEF RegisterGetNetworkMap
        <5>3. QED
          BY <5>1, <5>2, LoginUpdate
      <4>2. CASE login[l].peer \notin Registered
        <5>1. r \in ThreadStates /\ r.pc = "idle"
          BY <4>2 DEF ThreadStates, Idle
        <5>2. login' = [login EXCEPT ![l] = r] /\ UNCHANGED admin
          BY <2>3 DEF RegisterGetNetworkMap
        <5>3. QED
          BY <5>1, <5>2, LoginUpdate
      <4>3. QED
        BY <4>1, <4>2
    <3>4. QED
      BY <2>3, <3>3, UnchangedParts DEF RegisterGetNetworkMap
  <2>4. CASE RegisterNotify(l)
    <3>1. PICK q \in login[l].todo :
            /\ Publish(l, q, RegistrationUpdate(l, q))
            /\ login' = [login EXCEPT ![l] = [@ EXCEPT !.todo = login[l].todo \ {q}]]
      BY <2>4 DEF RegisterNotify
    <3>2. /\ q \in Peers
          /\ login[l].peer \in Peers /\ login[l].ip \in IPs
          /\ login[l].serial \in Nat
          /\ login[l].peers \in SUBSET [key : Peers, ip : IPs]
      BY <2>0, <2>4 DEF RegisterNotify, ThreadStates
    <3>3. RegistrationUpdate(l, q) \in Updates
      <4> DEFINE ps == {[key |-> login[l].peer, ip |-> login[l].ip]}
                           \cup {r \in login[l].peers : r.key # q}
      <4>1. ps \in SUBSET [key : Peers, ip : IPs]
        BY <3>2
      <4>2. NetworkMapMsg(ps, "static", login[l].serial) \in Updates
        BY <3>2, <4>1, MapMsgType
      <4>3. QED
        BY <4>2 DEF RegistrationUpdate
    <3>4. ChannelsType' /\ StreamType'
      BY <2>0, <2>4, <3>1, <3>2, <3>3, PublishType DEF RegisterNotify
    <3>5. ThreadType' /\ LoginKnown' /\ AdminKnown'
      <4> DEFINE r == [login[l] EXCEPT !.todo = login[l].todo \ {q}]
      <4>1. r \in ThreadStates /\ r.peer \in Peers /\ r.ip \in IPs
        BY <2>0, <3>2 DEF ThreadStates
      <4>2. login' = [login EXCEPT ![l] = r] /\ UNCHANGED admin
        BY <2>4, <3>1 DEF RegisterNotify
      <4>3. QED
        BY <4>1, <4>2, LoginUpdate
    <3>6. QED
      BY <2>4, <3>4, <3>5, UnchangedParts DEF RegisterNotify
  <2>5. CASE LoginReturn(l)
    <3>1. ThreadType' /\ LoginKnown' /\ AdminKnown'
      BY <2>5 DEF LoginReturn, ThreadType, ThreadStates, Idle
    <3>2. QED
      BY <2>5, <3>1, UnchangedParts DEF LoginReturn
  <2>6. CASE AddPeerNotSaved(l)
    <3>0. login[l].peer \in Peers /\ Registered \cup {login[l].peer} \in SUBSET Peers
      BY <2>6 DEF AddPeerNotSaved, Registered
    <3>1. PICK a \in IPs \ {ip[q] : q \in Registered} :
            /\ ip' = [ip EXCEPT ![login[l].peer] = a]
            /\ connected' = [connected EXCEPT ![login[l].peer] = FALSE]
            /\ IncSerial(Registered \cup {login[l].peer})
      BY <2>6 DEF AddPeerNotSaved
    <3>2. serial' \in Nat /\ hist' \in [0..serial' -> SUBSET (SUBSET Peers)]
      BY <3>0, <3>1, IncSerialType
    <3>3. writeErrors' \in 0..MaxWriteErrors
      BY <2>6, SyncConstantsAssumption DEF AddPeerNotSaved, persistFails, AccountType
    <3>4. AccountType'
      BY <3>1, <3>2, <3>3 DEF AccountType
    <3>5. ThreadType' /\ LoginKnown' /\ AdminKnown'
      BY <2>6 DEF AddPeerNotSaved, ThreadType, ThreadStates, Idle
    <3>6. StreamType' /\ OwnerKnown' /\ RefresherStarted'
      BY <2>6, UnpublishedType DEF AddPeerNotSaved
    <3>7. QED
      BY <2>6, <3>4, <3>5, <3>6, UnchangedParts DEF AddPeerNotSaved
  <2>7. QED
    BY <1>4, <2>1, <2>2, <2>3, <2>4, <2>5, <2>6 DEF LoginStep
<1>5. ASSUME NEW a \in Admins, NEW p \in Peers, DeletePeer(a, p) PROVE TypeInv'
  <2>1. AccountType'
    <3>1. Registered \ {p} \in SUBSET Peers
      BY DEF Registered
    <3>2. serial' \in Nat /\ hist' \in [0..serial' -> SUBSET (SUBSET Peers)]
      BY <1>5, <3>1, IncSerialType DEF DeletePeer
    <3>3. QED
      BY <1>5, <3>2 DEF DeletePeer, AccountType
  <2>2. ThreadType' /\ LoginKnown' /\ AdminKnown'
    BY <1>5 DEF DeletePeer, ThreadType, ThreadStates, Idle, LoginKnown, AdminKnown,
                Registered
  <2>3. QED
    BY <1>5, <2>1, <2>2, UnchangedParts
       DEF DeletePeer, OwnerKnown, RefresherStarted, turnVars, streamVars
<1>6. ASSUME NEW a \in Admins, AdminStep(a) PROVE TypeInv'
  <2> USE DEF OwnerKnown, RefresherStarted, turnVars, streamVars, LoginKnown,
              AdminKnown
  <2>0. /\ a \in Threads /\ admin[a] \in ThreadStates /\ serial \in Nat
        /\ admin[a].pc # "idle" => admin[a].peer \in Peers
    BY <1>0 DEF ThreadType, AccountType
  <2>1. CASE DeleteNotifyDeleted(a)
    <3>1. NetworkMapMsg({}, "none", serial) \in Updates
      BY <2>0, MapMsgType
    <3>2. ChannelsType' /\ StreamType'
      BY <2>0, <2>1, <3>1, PublishType DEF DeleteNotifyDeleted
    <3>3. ThreadType' /\ LoginKnown' /\ AdminKnown'
      BY <2>1 DEF DeleteNotifyDeleted, ThreadType, ThreadStates
    <3>4. QED
      BY <2>1, <3>2, <3>3, UnchangedParts DEF DeleteNotifyDeleted
  <2>2. CASE DeleteNotifyOthers(a)
    <3>1. PICK q \in admin[a].todo :
            /\ Publish(a, q, NetworkMapMsg(PeersFor(q), "none", serial))
            /\ admin' = [admin EXCEPT ![a].todo = @ \ {q}]
      BY <2>2 DEF DeleteNotifyOthers
    <3>2. q \in Peers
      BY <2>0 DEF ThreadStates
    <3>3. NetworkMapMsg(PeersFor(q), "none", serial) \in Updates
      BY <2>0, PeersForType, MapMsgType
    <3>4. ChannelsType' /\ StreamType'
      BY <2>0, <2>2, <3>1, <3>2, <3>3, PublishType DEF DeleteNotifyOthers
    <3>5. ThreadType' /\ LoginKnown' /\ AdminKnown'
      BY <2>2, <3>1 DEF DeleteNotifyOthers, ThreadType, ThreadStates
    <3>6. QED
      BY <2>2, <3>4, <3>5, UnchangedParts DEF DeleteNotifyOthers
  <2>3. CASE DeleteCloseChannel(a)
    <3>1. ChannelsType'
      BY <2>0, <2>3, CloseChannelType DEF DeleteCloseChannel
    <3>2. ThreadType' /\ LoginKnown' /\ AdminKnown'
      BY <2>3 DEF DeleteCloseChannel, ThreadType, ThreadStates, Idle
    <3>3. QED
      BY <2>3, <3>1, <3>2, UnchangedParts DEF DeleteCloseChannel
  <2>4. QED
    BY <1>6, <2>1, <2>2, <2>3 DEF AdminStep
<1>7. ASSUME NEW s \in Streams, Refresh(s) PROVE TypeInv'
  <2> USE DEF OwnerKnown, RefresherStarted, LoginKnown, AdminKnown, threadVars
  <2>1. CASE RefreshSelect(s) /\ UNCHANGED <<channelVars, missed>>
    <3>1. TurnType' /\ RefresherStarted' /\ StreamType'
      BY <1>7, <2>1 DEF Refresh, RefreshSelect, TurnType, StreamType
    <3>2. QED
      BY <1>7, <2>1, <3>1, UnchangedParts DEF Refresh, channelVars
  <2>2. CASE RefreshSend(s, owner[s]) /\ UNCHANGED missed
    <3>1. TurnUpdate \in Updates
      BY DEF TurnUpdate, Updates
    <3>2. ChannelsType'
      BY <1>0, <2>2, <3>1, SendUpdateType DEF RefreshSend
    <3>3. TurnType' /\ RefresherStarted' /\ StreamType'
      BY <1>7, <2>2 DEF Refresh, RefreshSend, TurnType, StreamType
    <3>4. QED
      BY <1>7, <2>2, <3>2, <3>3, UnchangedParts DEF Refresh
  <2>3. QED
    BY <1>7, <2>1, <2>2 DEF Refresh
<1>8. CASE Unblock
  BY <1>8, UnblockSendType, UnchangedParts
     DEF Unblock, OwnerKnown, RefresherStarted, LoginKnown, AdminKnown,
         threadVars, streamVars, turnVars
<1>9. CASE UNCHANGED vars
  BY <1>9, UnchangedParts
     DEF vars, OwnerKnown, RefresherStarted, LoginKnown, AdminKnown,
         threadVars, streamVars, turnVars
<1>10. ASSUME NEW p \in Peers, DeletePeerNotSaved(p) PROVE TypeInv'
  <2> USE DEF OwnerKnown, RefresherStarted, turnVars, LoginKnown, AdminKnown, threadVars
  <2>1. Registered \ {p} \in SUBSET Peers
    BY DEF Registered
  <2>2. serial' \in Nat /\ hist' \in [0..serial' -> SUBSET (SUBSET Peers)]
    <3>1. CASE IncSerial(Registered \ {p})
      BY <2>1, <3>1, IncSerialType
    <3>2. CASE /\ hist' = [hist EXCEPT ![serial] = @ \cup {Registered \ {p}}]
               /\ UNCHANGED serial
      BY <2>1, <3>2 DEF AccountType
    <3>3. QED
      BY <1>10, <3>1, <3>2 DEF DeletePeerNotSaved
  <2>3. writeErrors' \in 0..MaxWriteErrors
    BY <1>10, SyncConstantsAssumption DEF DeletePeerNotSaved, persistFails, AccountType
  <2>4. AccountType'
    BY <1>10, <2>2, <2>3 DEF DeletePeerNotSaved, AccountType
  <2>5. StreamType' /\ OwnerKnown' /\ RefresherStarted'
    BY <1>10, UnpublishedType DEF DeletePeerNotSaved
  <2>6. QED
    BY <1>10, <2>4, <2>5, UnchangedParts DEF DeletePeerNotSaved
<1>11. QED
  BY <1>1, <1>2, <1>3, <1>4, <1>5, <1>6, <1>7, <1>8, <1>9, <1>10 DEF Next

LEMMA TypeInit == Init => TypeInv
BY ChanCapAssumption, SyncConstantsAssumption
   DEF Init, ChannelsInit, TurnInit, TypeInv, TypeOK, OwnerKnown, LoginKnown,
       AdminKnown, RefresherStarted, Idle, ThreadStates, NewEngine, ChannelsType,
       TurnType, AccountType, StreamType, ViewType, Views, ThreadType

(***************************************************************************)
(* Type correctness: in every reachable state every variable has its type, *)
(* no update channel holds more than its capacity and at most one thread   *)
(* is blocked inside SendUpdate (updatechannel.go:26-35).                  *)
(***************************************************************************)
THEOREM TypeCorrect == Spec => []TypeOK
<1>1. TypeInv => TypeOK
  BY DEF TypeInv
<1>2. QED
  BY TypeInit, TypeStep, <1>1, PTL DEF Spec

-----------------------------------------------------------------------------
(* No update is ever sent on a closed channel *)

Early == {"unused", "getPeer", "initialSync", "createChannel"}

(***************************************************************************)
(* Only the channel of the peer that owns the stream is ever registered,   *)
(* and only once its Sync handler has created it; until then the channel   *)
(* is open and empty.  The channel a blocked SendUpdate waits for is still *)
(* registered, because whoever would unregister it needs channelsMux.      *)
(***************************************************************************)
ChannelInv ==
    /\ \A p \in Peers : peerChannels[p] # None =>
          /\ owner[peerChannels[p]] = p
          /\ pc[peerChannels[p]] \notin Early
          /\ ~chanClosed[peerChannels[p]]
    /\ \A s \in Streams : pc[s] \in Early => chanBuf[s] = <<>> /\ ~chanClosed[s]
    /\ \A b \in blocked : \E p \in Peers : peerChannels[p] = b.chan

\* Streams move on from a channel they have, and to a state past Early.
LEMMA ChannelInvUnchanged ==
    ASSUME TypeInv, ChannelInv, UNCHANGED channelVars,
           \A s \in Streams : pc'[s] \in Early => pc[s] \in Early,
           \A s \in Streams : pc[s] \notin Early => owner'[s] = owner[s]
    PROVE  ChannelInv'
BY NoneAssumption
   DEF TypeInv, TypeOK, ChannelsType, ChannelInv, channelVars, NoneAssumption

LEMMA SendUpdateChannelInv ==
    ASSUME TypeInv, ChannelInv, NEW t, NEW p \in Peers, NEW m,
           SendUpdate(t, p, m), UNCHANGED <<pc, owner>>
    PROVE  ChannelInv'
<1> USE DEF TypeInv, TypeOK, ChannelsType
<1> DEFINE c == peerChannels[p]
<1>1. CASE UNCHANGED <<chanBuf, blocked>>
  BY <1>1 DEF SendUpdate, ChannelInv
<1>2. CASE c # None /\ chanBuf' = [chanBuf EXCEPT ![c] = Append(@, m)] /\ UNCHANGED blocked
  BY <1>2 DEF SendUpdate, ChannelInv
<1>3. CASE c # None /\ UNCHANGED chanBuf /\ blocked' = {[by |-> t, chan |-> c, msg |-> m]}
  BY <1>3 DEF SendUpdate, ChannelInv
<1>4. QED
  BY <1>1, <1>2, <1>3 DEF SendUpdate

LEMMA CloseChannelInv ==
    ASSUME TypeInv, ChannelInv, NEW p \in Peers, CloseChannel(p),
           \A s \in Streams : pc'[s] \in Early => pc[s] \in Early,
           UNCHANGED owner
    PROVE  ChannelInv'
<1> USE NoneAssumption DEF TypeInv, TypeOK, ChannelsType
<1>1. /\ blocked' = {} /\ chanBuf' = chanBuf
      /\ peerChannels' = [peerChannels EXCEPT ![p] = None]
      /\ \A c \in Streams : chanClosed'[c] <=> chanClosed[c] \/ peerChannels[p] = c
  BY DEF CloseChannel, CloseRegistered, channelsMuxFree
<1>2. ASSUME NEW q \in Peers, peerChannels'[q] # None
      PROVE  /\ owner'[peerChannels'[q]] = q
             /\ pc'[peerChannels'[q]] \notin Early
             /\ ~chanClosed'[peerChannels'[q]]
  <2>1. q # p /\ peerChannels'[q] = peerChannels[q] /\ peerChannels[q] \in Streams
    BY <1>1, <1>2
  <2>2. peerChannels[p] # peerChannels[q]
    BY <2>1 DEF ChannelInv
  <2>3. QED
    BY <1>1, <2>1, <2>2 DEF ChannelInv
<1>3. ASSUME NEW s \in Streams, pc'[s] \in Early
      PROVE  chanBuf'[s] = <<>> /\ ~chanClosed'[s]
  <2>1. pc[s] \in Early
    BY <1>3
  <2>2. peerChannels[p] # s
    BY <2>1 DEF ChannelInv
  <2>3. QED
    BY <1>1, <2>1, <2>2 DEF ChannelInv
<1>4. QED
  BY <1>1, <1>2, <1>3 DEF ChannelInv

LEMMA ReceiveChannelInv ==
    ASSUME TypeInv, ChannelInv, NEW s \in Streams, ChanReceive(s),
           \A c \in Streams : pc'[c] \in Early => pc[c] \in Early,
           UNCHANGED owner
    PROVE  ChannelInv'
<1> USE NoneAssumption DEF TypeInv, TypeOK, ChannelsType
<1>1. /\ UNCHANGED <<peerChannels, chanClosed, blocked>>
      /\ \A c \in Streams : c # s => chanBuf'[c] = chanBuf[c]
      /\ chanBuf[s] # <<>>
  BY DEF ChanReceive
<1>2. ASSUME NEW q \in Peers, peerChannels'[q] # None
      PROVE  /\ owner'[peerChannels'[q]] = q
             /\ pc'[peerChannels'[q]] \notin Early
             /\ ~chanClosed'[peerChannels'[q]]
  BY <1>1, <1>2 DEF ChannelInv
<1>3. ASSUME NEW c \in Streams, pc'[c] \in Early
      PROVE  chanBuf'[c] = <<>> /\ ~chanClosed'[c]
  <2>1. pc[c] \in Early /\ c # s
    BY <1>1, <1>3 DEF ChannelInv
  <2>2. QED
    BY <1>1, <2>1 DEF ChannelInv
<1>4. QED
  BY <1>1, <1>2, <1>3 DEF ChannelInv

LEMMA CreateChannelInv ==
    ASSUME TypeInv, ChannelInv, NEW s \in Streams, SyncCreateChannel(s)
    PROVE  ChannelInv'
<1>1. owner[s] \in Peers /\ pc[s] \in Early
  BY DEF SyncCreateChannel, TypeInv, OwnerKnown, Early
<1>2. blocked' = {} /\ pc'[s] \notin Early
  BY DEF SyncCreateChannel, CreateChannel, channelsMuxFree, Goto, Early, TypeInv,
         TypeOK, StreamType
<1>3. \A c \in Streams : c # s => pc'[c] = pc[c]
  BY DEF SyncCreateChannel, Goto, TypeInv, TypeOK, StreamType
<1> USE NoneAssumption DEF TypeInv, TypeOK, ChannelsType
<1> DEFINE p == owner[s]
<1>4. /\ chanBuf' = chanBuf /\ owner' = owner
      /\ peerChannels' = [peerChannels EXCEPT ![p] = s]
      /\ \A c \in Streams : chanClosed'[c] <=> chanClosed[c] \/ peerChannels[p] = c
  BY DEF SyncCreateChannel, CreateChannel, CloseRegistered
<1>5. peerChannels[p] # s
  BY <1>1 DEF ChannelInv
<1>6. ASSUME NEW q \in Peers, peerChannels'[q] # None
      PROVE  /\ owner'[peerChannels'[q]] = q
             /\ pc'[peerChannels'[q]] \notin Early
             /\ ~chanClosed'[peerChannels'[q]]
  <2>1. CASE q = p
    BY <1>1, <1>2, <1>4, <1>5, <2>1 DEF ChannelInv
  <2>2. CASE q # p
    <3>1. peerChannels'[q] = peerChannels[q] /\ peerChannels[q] \in Streams
      BY <1>1, <1>4, <1>6, <2>2
    <3>2. peerChannels[q] # peerChannels[p] /\ peerChannels[q] # s
      BY <1>1, <2>2, <3>1 DEF ChannelInv
    <3>3. QED
      BY <1>3, <1>4, <3>1, <3>2 DEF ChannelInv
  <2>3. QED
    BY <2>1, <2>2
<1>7. ASSUME NEW c \in Streams, pc'[c] \in Early
      PROVE  chanBuf'[c] = <<>> /\ ~chanClosed'[c]
  <2>1. c # s /\ pc[c] \in Early
    BY <1>2, <1>3, <1>7
  <2>2. peerChannels[p] # c
    BY <1>1, <2>1 DEF ChannelInv
  <2>3. QED
    BY <1>4, <2>1, <2>2 DEF ChannelInv
<1>8. QED
  BY <1>2, <1>6, <1>7 DEF ChannelInv

LEMMA ChannelStep == TypeInv /\ ChannelInv /\ [Next]_vars => ChannelInv'
<1> SUFFICES ASSUME TypeInv, ChannelInv, [Next]_vars PROVE ChannelInv'
  OBVIOUS
<1>0. /\ pc \in [Streams -> {"unused", "getPeer", "initialSync", "createChannel",
                           "markConnected", "setupRefresh", "loop",
                           "cancelRefresh", "markDisconnected", "done"}]
      /\ owner \in [Streams -> Peers \cup {None}]
  BY DEF TypeInv, TypeOK, StreamType
<1>1. ASSUME NEW p \in Peers, ClientStep(p) PROVE ChannelInv'
  <2>1. /\ UNCHANGED channelVars
        /\ \A s \in Streams : pc'[s] \in Early => pc[s] \in Early
        /\ \A s \in Streams : pc[s] \notin Early => owner'[s] = owner[s]
    BY <1>0, <1>1 DEF ClientStep, ClientConnect, ClientDisconnect, ClientRestart,
                      streamVars, Early
  <2>2. QED
    BY <2>1, ChannelInvUnchanged
<1>2. ASSUME NEW s \in Streams, SyncStep(s) PROVE ChannelInv'
  <2>0. owner[s] \in Peers \/ pc[s] = "unused"
    BY DEF TypeInv, OwnerKnown
  <2>1. CASE SyncGetPeer(s) \/ SendInitialSync(s) \/ SyncMarkConnected(s)
                \/ SyncSetupRefresh(s) \/ SyncChannelClosed(s)
                \/ SyncDoneCancelRefresh(s) \/ SyncDoneMarkDisconnected(s)
    <3>1. UNCHANGED channelVars /\ UNCHANGED owner
      BY <2>1 DEF SyncGetPeer, SendInitialSync, SyncMarkConnected, SyncSetupRefresh,
                  SyncChannelClosed, SyncDoneCancelRefresh, SyncDoneMarkDisconnected
    <3>2. \A c \in Streams : pc'[c] \in Early => pc[c] \in Early
      BY <1>0, <2>1
         DEF SyncGetPeer, SendInitialSync, SyncMarkConnected, SyncSetupRefresh,
             SyncChannelClosed, SyncDoneCancelRefresh, SyncDoneMarkDisconnected,
             Goto, Early
    <3>3. QED
      BY <3>1, <3>2, ChannelInvUnchanged
  <2>2. CASE SyncCreateChannel(s)
    BY <2>2, CreateChannelInv
  <2>3. CASE SyncForward(s) \/ SyncForwardBroken(s)
    <3>1. /\ ChanReceive(s) /\ UNCHANGED owner
          /\ \A c \in Streams : pc'[c] \in Early => pc[c] \in Early
      BY <1>0, <2>3 DEF SyncForward, SyncForwardBroken, Goto, Early, streamVars
    <3>2. QED
      BY <3>1, ReceiveChannelInv
  <2>4. CASE SyncDoneCloseChannel(s)
    <3>1. /\ CloseChannel(owner[s]) /\ UNCHANGED owner /\ owner[s] \in Peers
          /\ \A c \in Streams : pc'[c] \in Early => pc[c] \in Early
      BY <1>0, <2>0, <2>4 DEF SyncDoneCloseChannel, Goto, Early
    <3>2. QED
      BY <3>1, CloseChannelInv
  <2>5. QED
    BY <1>2, <2>1, <2>2, <2>3, <2>4 DEF SyncStep
<1>3. ASSUME NEW l \in Logins, NEW p \in Peers, LoginGetPeer(l, p) PROVE ChannelInv'
  BY <1>3, ChannelInvUnchanged DEF LoginGetPeer, streamVars
<1>4. ASSUME NEW l \in Logins, LoginStep(l) PROVE ChannelInv'
  <2>1. CASE RegisterNotify(l)
    <3>1. PICK q \in login[l].todo : Publish(l, q, RegistrationUpdate(l, q))
      BY <2>1 DEF RegisterNotify
    <3>2. q \in Peers
      BY DEF TypeInv, TypeOK, ThreadType, ThreadStates
    <3>3. QED
      BY <2>1, <3>1, <3>2, SendUpdateChannelInv DEF RegisterNotify, Publish
  <2>2. CASE \/ AddPeer(l) \/ AddPeerNotSaved(l) \/ AddPeerNoAddress(l)
             \/ RegisterGetNetworkMap(l) \/ LoginReturn(l)
    BY <2>2, ChannelInvUnchanged
       DEF AddPeer, AddPeerNotSaved, AddPeerNoAddress, RegisterGetNetworkMap, LoginReturn,
           streamVars
  <2>3. QED
    BY <1>4, <2>1, <2>2 DEF LoginStep
<1>5. ASSUME NEW a \in Admins, NEW p \in Peers, DeletePeer(a, p) PROVE ChannelInv'
  BY <1>5, ChannelInvUnchanged DEF DeletePeer, streamVars
<1>d. ASSUME NEW p \in Peers, DeletePeerNotSaved(p) PROVE ChannelInv'
  BY <1>d, ChannelInvUnchanged DEF DeletePeerNotSaved
<1>6. ASSUME NEW a \in Admins, AdminStep(a) PROVE ChannelInv'
  <2>0. admin[a].pc # "idle" => admin[a].peer \in Peers
    BY DEF TypeInv, AdminKnown
  <2>1. CASE DeleteNotifyDeleted(a)
    BY <2>0, <2>1, SendUpdateChannelInv DEF DeleteNotifyDeleted, Publish
  <2>2. CASE DeleteNotifyOthers(a)
    <3>1. PICK q \in admin[a].todo :
            Publish(a, q, NetworkMapMsg(PeersFor(q), "none", serial))
      BY <2>2 DEF DeleteNotifyOthers
    <3>2. q \in Peers
      BY DEF TypeInv, TypeOK, ThreadType, ThreadStates
    <3>3. QED
      BY <2>2, <3>1, <3>2, SendUpdateChannelInv DEF DeleteNotifyOthers, Publish
  <2>3. CASE DeleteCloseChannel(a)
    BY <2>0, <2>3, CloseChannelInv DEF DeleteCloseChannel, streamVars
  <2>4. QED
    BY <1>6, <2>1, <2>2, <2>3 DEF AdminStep
<1>7. ASSUME NEW s \in Streams, Refresh(s) PROVE ChannelInv'
  <2>1. CASE RefreshSelect(s) /\ UNCHANGED <<channelVars, missed>>
    BY <1>7, <2>1, ChannelInvUnchanged DEF Refresh
  <2>2. CASE RefreshSend(s, owner[s])
    <3>1. owner[s] \in Peers
      BY <2>2 DEF RefreshSend, TypeInv, RefresherStarted, OwnerKnown
    <3>2. QED
      BY <1>7, <2>2, <3>1, SendUpdateChannelInv DEF Refresh, RefreshSend
  <2>3. QED
    BY <1>7, <2>1, <2>2 DEF Refresh
<1>8. CASE Unblock
  <2>1. PICK b \in blocked :
          /\ chanBuf' = [chanBuf EXCEPT ![b.chan] = Append(@, b.msg)]
          /\ blocked' = {}
          /\ UNCHANGED <<peerChannels, chanClosed>>
    BY <1>8 DEF Unblock, UnblockSend
  <2>2. pc[b.chan] \notin Early
    BY NoneAssumption DEF ChannelInv, TypeInv, TypeOK, ChannelsType
  <2>3. QED
    BY <1>8, <2>1, <2>2
       DEF Unblock, streamVars, ChannelInv, TypeInv, TypeOK, ChannelsType
<1>9. CASE UNCHANGED vars
  BY <1>9, ChannelInvUnchanged DEF vars, streamVars
<1>10. QED
  BY <1>1, <1>2, <1>3, <1>4, <1>5, <1>d, <1>6, <1>7, <1>8, <1>9 DEF Next

LEMMA ChannelInit == Init => ChannelInv
BY DEF Init, ChannelsInit, ChannelInv

LEMMA ChannelInvImplies == TypeInv /\ ChannelInv => NoSendOnClosedChannel
BY NoneAssumption DEF ChannelInv, NoSendOnClosedChannel, TypeInv, TypeOK, ChannelsType

(***************************************************************************)
(* However streams, registrations and deletions interleave, neither a      *)
(* registered channel nor the one a SendUpdate is blocked on is closed, so *)
(* SendUpdate never panics (updatechannel.go:26-64).                       *)
(***************************************************************************)
THEOREM NeverSendOnClosedChannel == Spec => []NoSendOnClosedChannel
BY TypeInit, TypeStep, ChannelInit, ChannelStep, ChannelInvImplies, PTL DEF Spec

-----------------------------------------------------------------------------
(* Network maps and engines' views match their serials *)

\* A Login thread's record r is made of one network of its serial, in history
\* h up to serial n.
LoginCoherentIn(h, n, r) ==
    /\ r.serial \in 0..n
    /\ \E keys \in h[r.serial] : /\ r.peer \in keys
                                 /\ Keys(r.peers) = keys \ {r.peer}
                                 /\ r.todo \subseteq keys \ {r.peer}

(***************************************************************************)
(* The account's part of the invariant: the current peers are a network of *)
(* the current serial; DeletePeer calls exclude each other, and until one  *)
(* is done its peer stays unregistered, those to be told registered and    *)
(* the serial stands for one network.                                      *)
(***************************************************************************)
AccountInv ==
    /\ Registered \in hist[serial]
    /\ {} \in hist[0]
    /\ \A a, b \in Admins :
          admin[a].pc # "idle" /\ admin[b].pc # "idle" => a = b
    /\ \A a \in Admins : admin[a].pc # "idle" =>
          /\ admin[a].peer \notin Registered
          /\ admin[a].todo \subseteq Registered
          /\ hist[serial] = {Registered}
    /\ \A l \in Logins :
          login[l].pc = "notify" => LoginCoherentIn(hist, serial, login[l])

MapInv == AccountInv /\ MapMatchesSerial /\ ViewMatchesSerial

\* History is only ever extended.
HistExtends ==
    /\ serial' \in Nat
    /\ serial <= serial'
    /\ \A n \in 0..serial : hist[n] \subseteq hist'[n]

LEMMA IncSerialExtends ==
    ASSUME AccountType, NEW keys, IncSerial(keys)
    PROVE  /\ HistExtends
           /\ hist'[serial'] = {keys}
           /\ serial' = serial + 1
           /\ \A n \in 0..serial : hist'[n] = hist[n]
BY DEF AccountType, IncSerial, HistExtends

LEMMA UnchangedExtends ==
    ASSUME AccountType, UNCHANGED <<serial, hist>> PROVE HistExtends
BY DEF AccountType, HistExtends

LEMMA KeysOfRemoveThenAdd ==
    ASSUME NEW a, NEW b
    PROVE  Keys(RemoveThenAdd(a, b)) = Keys(b)
<1>1. ASSUME NEW r \in b PROVE r.key \in Keys(RemoveThenAdd(a, b))
  <2>1. CASE r.key \in Keys(a)
    <3>1. PICK q \in a : q.key = r.key
      BY <2>1 DEF Keys
    <3>2. q \in RemoveThenAdd(a, b)
      BY <3>1 DEF RemoveThenAdd, Keys
    <3>3. QED
      BY <3>1, <3>2 DEF Keys
  <2>2. CASE r.key \notin Keys(a)
    BY <2>2 DEF RemoveThenAdd, Keys
  <2>3. QED
    BY <2>1, <2>2
<1>2. ASSUME NEW r \in RemoveThenAdd(a, b) PROVE r.key \in Keys(b)
  BY DEF RemoveThenAdd, Keys
<1>3. QED
  BY <1>1, <1>2 DEF Keys

\* CoherentFor and ViewMatchesSerial over an explicit history h up to serial n.
CoherentIn(h, n, p, m) ==
    m.hasMap => /\ m.serial \in 0..n
                /\ \E keys \in h[m.serial] : Keys(m.peers) = Visible(keys, p)

MatchesIn(h, n, p, v) ==
    /\ v.serial \in 0..n
    /\ \E keys \in h[v.serial] : Keys(v.peers) = Visible(keys, p)

LEMMA InHistory ==
    /\ MapMatchesSerial <=>
          /\ \A s \in Streams : \A i \in 1..Len(chanBuf[s]) :
                CoherentIn(hist, serial, owner[s], chanBuf[s][i])
          /\ \A b \in blocked : CoherentIn(hist, serial, owner[b.chan], b.msg)
    /\ ViewMatchesSerial <=>
          \A p \in Peers : MatchesIn(hist, serial, p, view[p])
    /\ MapMatchesSerial' <=>
          /\ \A s \in Streams : \A i \in 1..Len(chanBuf'[s]) :
                CoherentIn(hist', serial', owner'[s], chanBuf'[s][i])
          /\ \A b \in blocked' : CoherentIn(hist', serial', owner'[b.chan], b.msg)
    /\ ViewMatchesSerial' <=>
          \A p \in Peers : MatchesIn(hist', serial', p, view'[p])
BY DEF MapMatchesSerial, CoherentFor, ViewMatchesSerial, CoherentIn, MatchesIn

\* Coherence is not lost when the history is extended.
LEMMA CoherentStable ==
    ASSUME NEW h, NEW n \in Nat, NEW g, NEW k \in Nat, n <= k,
           \A i \in 0..n : h[i] \subseteq g[i],
           NEW p, NEW m, CoherentIn(h, n, p, m)
    PROVE  CoherentIn(g, k, p, m)
BY DEF CoherentIn

LEMMA MatchesStable ==
    ASSUME NEW h, NEW n \in Nat, NEW g, NEW k \in Nat, n <= k,
           \A i \in 0..n : h[i] \subseteq g[i],
           NEW p, NEW v, MatchesIn(h, n, p, v)
    PROVE  MatchesIn(g, k, p, v)
BY DEF MatchesIn

LEMMA LoginStable ==
    ASSUME NEW h, NEW n \in Nat, NEW g, NEW k \in Nat, n <= k,
           \A i \in 0..n : h[i] \subseteq g[i],
           NEW r, LoginCoherentIn(h, n, r)
    PROVE  LoginCoherentIn(g, k, r)
BY DEF LoginCoherentIn

\* A view that matches its serial still does after a coherent update.
LEMMA HandleSyncCoherent ==
    ASSUME NEW h, NEW n \in Nat, NEW p, NEW v \in Views, NEW m \in Updates,
           MatchesIn(h, n, p, v), CoherentIn(h, n, p, m)
    PROVE  MatchesIn(h, n, p, handleSync(v, m))
<1> DEFINE u == updateTURNs(v, m)
<1>1. u \in Views /\ u.serial = v.serial /\ u.peers = v.peers
  BY DEF updateTURNs, Views, Updates
<1>2. CASE ~m.hasMap
  BY <1>1, <1>2 DEF handleSync, MatchesIn
<1>3. CASE m.hasMap
  <2> DEFINE w == updateNetworkMap(u, m)
  <2>1. handleSync(v, m) = w
    BY <1>3 DEF handleSync
  <2>2. CASE u.serial > m.serial
    BY <1>1, <2>1, <2>2 DEF updateNetworkMap, MatchesIn
  <2>3. CASE ~(u.serial > m.serial)
    <3>1. w.serial = m.serial /\ w.peers = RemoveThenAdd(u.peers, m.peers)
      BY <1>1, <2>3 DEF updateNetworkMap, Views
    <3>2. Keys(w.peers) = Keys(m.peers)
      BY <3>1, KeysOfRemoveThenAdd
    <3>3. QED
      BY <1>3, <2>1, <3>1, <3>2 DEF CoherentIn, MatchesIn
  <2>4. QED
    BY <2>2, <2>3
<1>4. QED
  BY <1>2, <1>3 DEF Updates

LEMMA ViewsStable ==
    ASSUME TypeInv, ViewMatchesSerial, HistExtends, UNCHANGED view
    PROVE  ViewMatchesSerial'
<1>1. serial \in Nat /\ serial' \in Nat /\ serial <= serial'
  BY DEF TypeInv, TypeOK, AccountType, HistExtends
<1>2. ASSUME NEW p \in Peers PROVE MatchesIn(hist', serial', p, view'[p])
  <2>1. MatchesIn(hist, serial, p, view[p])
    BY InHistory
  <2>2. QED
    BY <1>1, <2>1, MatchesStable DEF HistExtends
<1>3. QED
  BY <1>2, InHistory

LEMMA DeliverCoherent ==
    ASSUME TypeInv, ViewMatchesSerial, NEW p \in Peers, NEW m \in Updates,
           CoherentIn(hist, serial, p, m), Deliver(p, m), UNCHANGED <<serial, hist>>
    PROVE  ViewMatchesSerial'
<1>1. view[p] \in Views /\ serial \in Nat
  BY DEF TypeInv, TypeOK, ViewType, AccountType
<1>2. MatchesIn(hist, serial, p, handleSync(view[p], m))
  BY <1>1, HandleSyncCoherent, InHistory
<1>3. \A q \in Peers : view'[q] = IF q = p THEN handleSync(view[p], m) ELSE view[q]
  BY DEF Deliver, TypeInv, TypeOK, ViewType
<1>4. QED
  BY <1>2, <1>3, InHistory

LEMMA MapsStable ==
    ASSUME TypeInv, ChannelInv, MapMatchesSerial, HistExtends,
           UNCHANGED <<chanBuf, blocked>>,
           \A s \in Streams : pc[s] \notin Early => owner'[s] = owner[s]
    PROVE  MapMatchesSerial'
<1>0. serial \in Nat /\ serial' \in Nat /\ serial <= serial'
  BY DEF TypeInv, TypeOK, AccountType, HistExtends
<1>1. ASSUME NEW s \in Streams, NEW i \in 1..Len(chanBuf[s])
      PROVE  CoherentIn(hist', serial', owner'[s], chanBuf'[s][i])
  <2>1. chanBuf[s] # <<>>
    BY DEF TypeInv, TypeOK, ChannelsType
  <2>2. owner'[s] = owner[s]
    BY <2>1 DEF ChannelInv
  <2>3. CoherentIn(hist, serial, owner[s], chanBuf[s][i])
    BY InHistory
  <2>4. QED
    BY <1>0, <2>2, <2>3, CoherentStable DEF HistExtends
<1>2. ASSUME NEW b \in blocked
      PROVE  CoherentIn(hist', serial', owner'[b.chan], b.msg)
  <2>1. b.chan \in Streams
    BY DEF TypeInv, TypeOK, ChannelsType
  <2>2. owner'[b.chan] = owner[b.chan]
    BY <2>1, NoneAssumption DEF ChannelInv
  <2>3. CoherentIn(hist, serial, owner[b.chan], b.msg)
    BY InHistory
  <2>4. QED
    BY <1>0, <2>2, <2>3, CoherentStable DEF HistExtends
<1>3. QED
  BY <1>1, <1>2, InHistory

\* A coherent update keeps the channels coherent.
LEMMA SendUpdateCoherent ==
    ASSUME TypeInv, ChannelInv, MapMatchesSerial, NEW t, NEW p \in Peers,
           NEW m \in Updates, CoherentIn(hist, serial, p, m), SendUpdate(t, p, m),
           UNCHANGED <<serial, hist, owner>>
    PROVE  MapMatchesSerial'
<1> DEFINE c == peerChannels[p]
<1>1. CASE UNCHANGED <<chanBuf, blocked>>
  BY <1>1, InHistory
<1>2. c # None => c \in Streams /\ owner[c] = p
  BY DEF TypeInv, TypeOK, ChannelsType, ChannelInv
<1>3. CASE c # None /\ chanBuf' = [chanBuf EXCEPT ![c] = Append(@, m)] /\ UNCHANGED blocked
  <2>1. chanBuf \in [Streams -> Seq(Updates)]
    BY DEF TypeInv, TypeOK, ChannelsType
  <2>2. ASSUME NEW s \in Streams, NEW i \in 1..Len(chanBuf'[s])
        PROVE  CoherentIn(hist, serial, owner[s], chanBuf'[s][i])
    <3>1. CASE s = c /\ i = Len(chanBuf[s]) + 1
      BY <1>2, <1>3, <2>1, <3>1
    <3>2. CASE ~(s = c /\ i = Len(chanBuf[s]) + 1)
      <4>1. i \in 1..Len(chanBuf[s]) /\ chanBuf'[s][i] = chanBuf[s][i]
        BY <1>2, <1>3, <2>1, <3>2
      <4>2. QED
        BY <4>1, InHistory
    <3>3. QED
      BY <3>1, <3>2
  <2>3. QED
    BY <1>3, <2>2, InHistory
<1>4. CASE c # None /\ UNCHANGED chanBuf /\ blocked' = {[by |-> t, chan |-> c, msg |-> m]}
  BY <1>2, <1>4, InHistory
<1>5. QED
  BY <1>1, <1>3, <1>4 DEF SendUpdate

LEMMA ReceiveCoherent ==
    ASSUME TypeInv, MapMatchesSerial, NEW c \in Streams, ChanReceive(c),
           UNCHANGED <<serial, hist, owner>>
    PROVE  /\ MapMatchesSerial'
           /\ CoherentIn(hist, serial, owner[c], Head(chanBuf[c]))
<1>1. chanBuf \in [Streams -> Seq(Updates)] /\ chanBuf[c] # <<>>
  BY DEF TypeInv, TypeOK, ChannelsType, ChanReceive
<1>2. /\ Len(Tail(chanBuf[c])) = Len(chanBuf[c]) - 1
      /\ \A i \in 1..Len(Tail(chanBuf[c])) : Tail(chanBuf[c])[i] = chanBuf[c][i + 1]
      /\ Len(chanBuf[c]) \in Nat /\ Len(chanBuf[c]) >= 1
      /\ Head(chanBuf[c]) = chanBuf[c][1]
  BY <1>1, HeadTailProperties
<1>3. ASSUME NEW s \in Streams, NEW i \in 1..Len(chanBuf'[s])
      PROVE  CoherentIn(hist, serial, owner[s], chanBuf'[s][i])
  <2>1. CASE s = c
    <3>1. i + 1 \in 1..Len(chanBuf[c]) /\ chanBuf'[s][i] = chanBuf[c][i + 1]
      BY <1>1, <1>2, <2>1 DEF ChanReceive
    <3>2. QED
      BY <2>1, <3>1, InHistory
  <2>2. CASE s # c
    BY <1>1, <2>2, InHistory DEF ChanReceive
  <2>3. QED
    BY <2>1, <2>2
<1>4. CoherentIn(hist, serial, owner[c], Head(chanBuf[c]))
  BY <1>2, InHistory
<1>5. QED
  BY <1>3, <1>4, InHistory DEF ChanReceive

LEMMA UnblockCoherent ==
    ASSUME TypeInv, MapMatchesSerial, UnblockSend, UNCHANGED <<serial, hist, owner>>
    PROVE  MapMatchesSerial'
<1>1. PICK b \in blocked :
        /\ chanBuf' = [chanBuf EXCEPT ![b.chan] = Append(@, b.msg)]
        /\ blocked' = {}
  BY DEF UnblockSend
<1>2. /\ chanBuf \in [Streams -> Seq(Updates)]
      /\ b.chan \in Streams /\ b.msg \in Updates
  BY DEF TypeInv, TypeOK, ChannelsType
<1>3. ASSUME NEW s \in Streams, NEW i \in 1..Len(chanBuf'[s])
      PROVE  CoherentIn(hist, serial, owner[s], chanBuf'[s][i])
  <2>1. CASE s = b.chan /\ i = Len(chanBuf[s]) + 1
    <3>1. chanBuf'[s][i] = b.msg
      BY <1>1, <1>2, <2>1
    <3>2. QED
      BY <2>1, <3>1, InHistory
  <2>2. CASE ~(s = b.chan /\ i = Len(chanBuf[s]) + 1)
    <3>1. i \in 1..Len(chanBuf[s]) /\ chanBuf'[s][i] = chanBuf[s][i]
      BY <1>1, <1>2, <2>2
    <3>2. QED
      BY <3>1, InHistory
  <2>3. QED
    BY <2>1, <2>2
<1>4. QED
  BY <1>1, <1>3, InHistory

LEMMA InKeys == ASSUME NEW S, NEW r \in S PROVE r.key \in Keys(S)
BY DEF Keys

LEMMA KeysOfPeersFor ==
    ASSUME NEW p PROVE Keys(PeersFor(p)) = Registered \ {p}
<1>1. ASSUME NEW k \in Keys(PeersFor(p)) PROVE k \in Registered \ {p}
  <2>1. PICK r \in PeersFor(p) : k = r.key
    BY DEF Keys
  <2>2. QED
    BY <2>1 DEF PeersFor
<1>2. ASSUME NEW k \in Registered \ {p} PROVE k \in Keys(PeersFor(p))
  <2> DEFINE e == [key |-> k, ip |-> ip[k]]
  <2>1. e \in PeersFor(p) /\ e.key = k
    BY DEF PeersFor
  <2> HIDE DEF e
  <2>2. QED
    BY <2>1, InKeys
<1>3. QED
  BY <1>1, <1>2

\* The four kinds of network maps the server makes up are coherent.
LEMMA InitialMapCoherent ==
    ASSUME TypeInv, AccountInv, NEW p \in Registered, NEW turn
    PROVE  CoherentIn(hist, serial, p, NetworkMapMsg(PeersFor(p), turn, serial))
<1>1. serial \in 0..serial /\ Registered \in hist[serial]
  BY DEF AccountInv, TypeInv, TypeOK, AccountType
<1>2. Keys(PeersFor(p)) = Visible(Registered, p)
  BY KeysOfPeersFor DEF Visible
<1>3. QED
  BY <1>1, <1>2 DEF CoherentIn, NetworkMapMsg

LEMMA DeletedMapCoherent ==
    ASSUME TypeInv, AccountInv, NEW p, p \notin Registered
    PROVE  CoherentIn(hist, serial, p, NetworkMapMsg({}, "none", serial))
<1>1. serial \in 0..serial /\ Registered \in hist[serial]
  BY DEF AccountInv, TypeInv, TypeOK, AccountType
<1>2. Keys({}) = Visible(Registered, p)
  BY DEF Visible, Keys
<1>3. QED
  BY <1>1, <1>2 DEF CoherentIn, NetworkMapMsg

LEMMA RegistrationCoherent ==
    ASSUME NEW l \in Logins, NEW q \in login[l].todo,
           LoginCoherentIn(hist, serial, login[l])
    PROVE  CoherentIn(hist, serial, q, RegistrationUpdate(l, q))
<1> DEFINE n == login[l].serial
           o == login[l].peer
           ps == {[key |-> o, ip |-> login[l].ip]}
                     \cup {r \in login[l].peers : r.key # q}
<1>1. /\ n \in 0..serial
      /\ \E keys \in hist[n] : /\ o \in keys /\ q \in keys /\ q # o
                               /\ Keys(login[l].peers) = keys \ {o}
  BY DEF LoginCoherentIn
<1>a. PICK K \in hist[n] : o \in K /\ q \in K /\ q # o /\ Keys(login[l].peers) = K \ {o}
  BY <1>1
<1>2. ASSUME NEW k \in Keys(ps) PROVE k \in K \ {q}
  <2>1. PICK r \in ps : k = r.key
    BY DEF Keys
  <2>2. CASE r \in login[l].peers /\ r.key # q
    <3>1. r.key \in Keys(login[l].peers)
      BY <2>2, InKeys
    <3>2. QED
      BY <1>a, <2>1, <2>2, <3>1
  <2>3. CASE r = [key |-> o, ip |-> login[l].ip]
    BY <1>a, <2>1, <2>3
  <2>4. QED
    BY <2>2, <2>3
<1>3. ASSUME NEW k \in K \ {q} PROVE k \in Keys(ps)
  <2>1. CASE k = o
    <3>1. [key |-> o, ip |-> login[l].ip] \in ps
      OBVIOUS
    <3>2. [key |-> o, ip |-> login[l].ip].key = k
      BY <2>1
    <3>3. QED
      BY <3>1, <3>2, InKeys
  <2>2. CASE k # o
    <3>1. PICK r \in login[l].peers : r.key = k
      BY <1>a, <2>2 DEF Keys
    <3>2. r \in ps
      BY <3>1
    <3>3. QED
      BY <3>1, <3>2, InKeys
  <2>3. QED
    BY <2>1, <2>2
<1>4. RegistrationUpdate(l, q) = NetworkMapMsg(ps, "static", n)
  BY DEF RegistrationUpdate
<1>5. /\ RegistrationUpdate(l, q).serial = n
      /\ RegistrationUpdate(l, q).peers = ps
  BY <1>4 DEF NetworkMapMsg
<1>6. Visible(K, q) = K \ {q}
  BY <1>a DEF Visible
<1>7. QED
  BY <1>1, <1>2, <1>3, <1>5, <1>6 DEF CoherentIn

\* AccountInv depends on the account and the threads alone.
LEMMA AccountInvUnchanged ==
    ASSUME AccountInv, UNCHANGED <<ip, serial, hist, threadVars>>
    PROVE  AccountInv'
BY DEF AccountInv, Registered, threadVars

\* A Login thread's step that leaves the account alone.
LEMMA LoginAccountInv ==
    ASSUME TypeInv, AccountInv, NEW l \in Logins, NEW r,
           login' = [login EXCEPT ![l] = r],
           UNCHANGED <<ip, serial, hist, admin>>,
           r.pc = "notify" => LoginCoherentIn(hist, serial, r)
    PROVE  AccountInv'
<1>1. \A k \in Logins : login'[k] = IF k = l THEN r ELSE login[k]
  BY DEF TypeInv, TypeOK, ThreadType
<1>2. ASSUME NEW k \in Logins, login'[k].pc = "notify"
      PROVE  LoginCoherentIn(hist', serial', login'[k])
  BY <1>1, <1>2 DEF AccountInv
<1>3. QED
  BY <1>2 DEF AccountInv, Registered

\* An administrator's step that leaves the account alone.
LEMMA AdminAccountInv ==
    ASSUME TypeInv, AccountInv, NEW a \in Admins, NEW r,
           admin[a].pc # "idle",
           admin' = [admin EXCEPT ![a] = r],
           UNCHANGED <<ip, serial, hist, login>>,
           r.pc # "idle" => r.peer = admin[a].peer /\ r.todo \subseteq admin[a].todo
    PROVE  AccountInv'
<1>1. \A b \in Admins : admin'[b] = IF b = a THEN r ELSE admin[b]
  BY DEF TypeInv, TypeOK, ThreadType
<1>2. Registered' = Registered
  BY DEF Registered
<1>3. \A k \in Logins :
        login'[k].pc = "notify" => LoginCoherentIn(hist', serial', login'[k])
  BY DEF AccountInv
<1>4. ASSUME NEW b \in Admins, admin'[b].pc # "idle"
      PROVE  /\ admin'[b].peer \notin Registered
             /\ admin'[b].todo \subseteq Registered
             /\ hist'[serial'] = {Registered}
  BY <1>1, <1>4 DEF AccountInv
<1>5. QED
  BY <1>1, <1>2, <1>3, <1>4 DEF AccountInv

\* A change of the network: every thread's promise survives it.
LEMMA ChangeAccountInv ==
    ASSUME TypeInv, AccountInv, HistExtends, NEW keys, keys \in hist'[serial'],
           Registered' = keys,
           \A k \in Logins : login'[k].pc = "notify" => login'[k] = login[k],
           \A b, c \in Admins :
               admin'[b].pc # "idle" /\ admin'[c].pc # "idle" => b = c,
           \A b \in Admins : admin'[b].pc # "idle" =>
               /\ admin'[b].peer \notin keys /\ admin'[b].todo \subseteq keys
               /\ hist'[serial'] = {keys}
    PROVE  AccountInv'
<1>1. serial \in Nat /\ serial' \in Nat /\ serial <= serial'
  BY DEF TypeInv, TypeOK, AccountType, HistExtends
<1>2. ASSUME NEW k \in Logins, login'[k].pc = "notify"
      PROVE  LoginCoherentIn(hist', serial', login'[k])
  <2>1. LoginCoherentIn(hist, serial, login[k]) /\ login'[k] = login[k]
    BY <1>2 DEF AccountInv
  <2>2. QED
    BY <1>1, <2>1, LoginStable DEF HistExtends
<1>3. {} \in hist'[0]
  BY <1>1 DEF HistExtends, AccountInv
<1>4. QED
  BY <1>2, <1>3 DEF AccountInv

LEMMA MapStep == TypeInv /\ ChannelInv /\ MapInv /\ [Next]_vars => MapInv'
<1> SUFFICES ASSUME TypeInv, ChannelInv, MapInv, [Next]_vars PROVE MapInv'
  OBVIOUS
<1> USE DEF MapInv
<1>0. AccountType /\ serial \in Nat
  BY DEF TypeInv, TypeOK, AccountType
<1>1. ASSUME NEW p \in Peers, ClientStep(p) PROVE MapInv'
  <2>1. /\ UNCHANGED <<ip, serial, hist, threadVars, chanBuf, blocked>>
        /\ \A s \in Streams : pc[s] \notin Early => owner'[s] = owner[s]
    BY <1>1 DEF ClientStep, ClientConnect, ClientDisconnect, ClientRestart,
                accountVars, channelVars, streamVars, Early, TypeInv, TypeOK, StreamType
  <2>2. HistExtends /\ AccountInv'
    BY <1>0, <2>1, UnchangedExtends, AccountInvUnchanged
  <2>3. MapMatchesSerial'
    BY <2>1, <2>2, MapsStable
  <2>4. CASE ClientRestart(p)
    <3>1. /\ \A q \in Peers : view'[q] = IF q = p THEN NewEngine ELSE view[q]
          /\ UNCHANGED <<serial, hist>>
      BY <2>4 DEF ClientRestart, TypeInv, TypeOK, ViewType, accountVars
    <3>2. MatchesIn(hist, serial, p, NewEngine)
      <4>1. Keys({}) = Visible({}, p) /\ NewEngine.serial = 0 /\ NewEngine.peers = {}
        BY DEF Keys, Visible, NewEngine
      <4>2. QED
        BY <1>0, <4>1 DEF MatchesIn, AccountInv
    <3>3. ViewMatchesSerial'
      BY <3>1, <3>2, InHistory
    <3>4. QED
      BY <2>2, <2>3, <3>3
  <2>5. CASE UNCHANGED view
    BY <2>2, <2>3, <2>5, ViewsStable
  <2>6. QED
    BY <1>1, <2>4, <2>5 DEF ClientStep, ClientConnect, ClientDisconnect
<1>2. ASSUME NEW s \in Streams, SyncStep(s) PROVE MapInv'
  <2>1. UNCHANGED <<ip, serial, hist, threadVars, owner>>
    BY <1>2 DEF SyncStep, SyncGetPeer, SendInitialSync, SyncCreateChannel,
                SyncMarkConnected, SyncSetupRefresh, SyncForward, SyncForwardBroken,
                SyncChannelClosed, SyncDoneCloseChannel, SyncDoneCancelRefresh,
                SyncDoneMarkDisconnected, MarkPeerConnected, accountVars, streamVars
  <2>2. HistExtends /\ AccountInv'
    BY <1>0, <2>1, UnchangedExtends, AccountInvUnchanged
  <2>3. owner[s] \in Peers \/ pc[s] = "unused"
    BY DEF TypeInv, OwnerKnown
  <2>4. CASE SendInitialSync(s)
    <3>1. UNCHANGED <<chanBuf, blocked>>
      BY <2>4 DEF SendInitialSync, channelVars
    <3>2. MapMatchesSerial'
      BY <2>1, <2>2, <3>1, MapsStable
    <3>3. CASE UNCHANGED view
      BY <2>2, <3>2, <3>3, ViewsStable
    <3>4. CASE ~UNCHANGED view
      <4> DEFINE turn == IF TimeBasedCredentials THEN "timed" ELSE "static"
                 m == NetworkMapMsg(PeersFor(owner[s]), turn, serial)
      <4>1. owner[s] \in Registered /\ owner[s] \in Peers /\ Deliver(owner[s], m)
        BY <2>4, <3>4 DEF SendInitialSync, Registered
      <4>2. m \in Updates
        BY <1>0, PeersForType, MapMsgType
      <4>3. CoherentIn(hist, serial, owner[s], m)
        BY <4>1, InitialMapCoherent
      <4> HIDE DEF m
      <4>4. ViewMatchesSerial'
        BY <2>1, <4>1, <4>2, <4>3, DeliverCoherent
      <4>5. QED
        BY <2>2, <3>2, <4>4
    <3>5. QED
      BY <3>3, <3>4
  <2>5. CASE SyncForward(s)
    <3>1. ChanReceive(s) /\ Deliver(owner[s], Head(chanBuf[s])) /\ owner[s] \in Peers
      BY <2>3, <2>5 DEF SyncForward
    <3>2. Head(chanBuf[s]) \in Updates
      BY <3>1, ChanReceiveType DEF TypeInv, TypeOK
    <3>3. MapMatchesSerial' /\ CoherentIn(hist, serial, owner[s], Head(chanBuf[s]))
      BY <2>1, <3>1, ReceiveCoherent
    <3>4. ViewMatchesSerial'
      BY <2>1, <3>1, <3>2, <3>3, DeliverCoherent
    <3>5. QED
      BY <2>2, <3>3, <3>4
  <2>6. CASE SyncForwardBroken(s)
    <3>1. ChanReceive(s) /\ UNCHANGED view
      BY <2>6 DEF SyncForwardBroken
    <3>2. MapMatchesSerial'
      BY <2>1, <3>1, ReceiveCoherent
    <3>3. QED
      BY <2>2, <3>1, <3>2, ViewsStable
  <2>7. CASE ~(SendInitialSync(s) \/ SyncForward(s) \/ SyncForwardBroken(s))
    <3>1. UNCHANGED <<chanBuf, blocked, view>>
      BY <1>2, <2>7 DEF SyncStep, SyncGetPeer, SyncCreateChannel, CreateChannel,
                SyncMarkConnected, SyncSetupRefresh,
                SyncChannelClosed, SyncDoneCloseChannel, CloseChannel,
                SyncDoneCancelRefresh, SyncDoneMarkDisconnected, channelVars
    <3>2. QED
      BY <2>1, <2>2, <3>1, MapsStable, ViewsStable
  <2>8. QED
    BY <2>4, <2>5, <2>6, <2>7
<1>3. ASSUME NEW l \in Logins, NEW p \in Peers, LoginGetPeer(l, p) PROVE MapInv'
  <2> DEFINE r == [Idle EXCEPT !.pc = "addPeer", !.peer = p]
  <2>1. r.pc # "notify"
    BY DEF Idle
  <2>2. /\ login' = [login EXCEPT ![l] = r]
        /\ UNCHANGED <<ip, serial, hist, admin, chanBuf, blocked, view, owner>>
    BY <1>3 DEF LoginGetPeer, accountVars, channelVars, streamVars
  <2> HIDE DEF r
  <2>3. AccountInv' /\ HistExtends
    BY <1>0, <2>1, <2>2, LoginAccountInv, UnchangedExtends
  <2>4. QED
    BY <2>2, <2>3, MapsStable, ViewsStable
<1>4. ASSUME NEW l \in Logins, LoginStep(l) PROVE MapInv'
  <2>0. login[l] \in ThreadStates
    BY DEF TypeInv, TypeOK, ThreadType
  <2>1. CASE AddPeer(l)
    <3>0. login[l].peer \in Peers
      BY <2>1 DEF AddPeer, TypeInv, LoginKnown
    <3>1. PICK a \in IPs :
            /\ ip' = [ip EXCEPT ![login[l].peer] = a]
            /\ IncSerial(Registered \cup {login[l].peer})
            /\ login' = [login EXCEPT ![l] = [@ EXCEPT !.pc = "networkMap", !.ip = a]]
      BY <2>1 DEF AddPeer
    <3>2. amMuxFree /\ UNCHANGED <<admin, chanBuf, blocked, view, owner>>
      BY <2>1 DEF AddPeer, channelVars, streamVars
    <3>3. Registered' = Registered \cup {login[l].peer}
      BY <1>0, <3>0, <3>1, SyncConstantsAssumption DEF Registered, AccountType
    <3>4. \A k \in Logins : login'[k].pc = "notify" => login'[k] = login[k]
      BY <2>0, <3>1 DEF TypeInv, TypeOK, ThreadType, ThreadStates
    <3>5. \A b \in Admins : admin'[b].pc = "idle"
      BY <3>2 DEF amMuxFree
    <3>6. HistExtends /\ hist'[serial'] = {Registered'}
      BY <1>0, <3>1, <3>3, IncSerialExtends
    <3>7. AccountInv'
      BY <3>3, <3>4, <3>5, <3>6, ChangeAccountInv
    <3>8. QED
      BY <3>2, <3>6, <3>7, MapsStable, ViewsStable
  <2>a. CASE AddPeerNotSaved(l)
    <3>0. login[l].peer \in Peers
      BY <2>a DEF AddPeerNotSaved, TypeInv, LoginKnown
    <3>1. PICK a \in IPs :
            /\ ip' = [ip EXCEPT ![login[l].peer] = a]
            /\ IncSerial(Registered \cup {login[l].peer})
      BY <2>a DEF AddPeerNotSaved
    <3>2. /\ amMuxFree /\ UNCHANGED <<admin, chanBuf, blocked, view, owner>>
          /\ login' = [login EXCEPT ![l] = Idle]
      BY <2>a DEF AddPeerNotSaved, channelVars
    <3>3. Registered' = Registered \cup {login[l].peer}
      BY <1>0, <3>0, <3>1, SyncConstantsAssumption DEF Registered, AccountType
    <3>4. \A k \in Logins : login'[k].pc = "notify" => login'[k] = login[k]
      BY <3>2 DEF TypeInv, TypeOK, ThreadType, Idle
    <3>5. \A b \in Admins : admin'[b].pc = "idle"
      BY <3>2 DEF amMuxFree
    <3>6. HistExtends /\ hist'[serial'] = {Registered'}
      BY <1>0, <3>1, <3>3, IncSerialExtends
    <3>7. AccountInv'
      BY <3>3, <3>4, <3>5, <3>6, ChangeAccountInv
    <3>8. QED
      BY <3>2, <3>6, <3>7, MapsStable, ViewsStable
  <2>2. CASE AddPeerNoAddress(l) \/ LoginReturn(l)
    <3>1. Idle.pc # "notify"
      BY DEF Idle
    <3>2. /\ login' = [login EXCEPT ![l] = Idle]
          /\ UNCHANGED <<ip, serial, hist, admin, chanBuf, blocked, view, owner>>
      BY <2>2 DEF AddPeerNoAddress, LoginReturn, accountVars, channelVars, streamVars
    <3>3. AccountInv' /\ HistExtends
      BY <1>0, <3>1, <3>2, LoginAccountInv, UnchangedExtends
    <3>4. QED
      BY <3>2, <3>3, MapsStable, ViewsStable
  <2>3. CASE RegisterGetNetworkMap(l)
    <3> DEFINE r == IF login[l].peer \in Registered
                    THEN [login[l] EXCEPT !.pc = "notify", !.serial = serial,
                                          !.peers = PeersFor(login[l].peer),
                                          !.todo = Registered \ {login[l].peer}]
                    ELSE Idle
    <3>1. /\ login' = [login EXCEPT ![l] = r]
          /\ UNCHANGED <<ip, serial, hist, admin, chanBuf, blocked, view, owner>>
      BY <2>3 DEF RegisterGetNetworkMap, accountVars, channelVars, streamVars
    <3>2. ASSUME r.pc = "notify" PROVE LoginCoherentIn(hist, serial, r)
      <4>1. login[l].peer \in Registered
        BY <3>2 DEF Idle
      <4>2. /\ r.serial = serial /\ r.peer = login[l].peer
            /\ r.peers = PeersFor(login[l].peer)
            /\ r.todo = Registered \ {login[l].peer}
        BY <2>0, <4>1 DEF ThreadStates
      <4> HIDE DEF r
      <4>3. Keys(r.peers) = Registered \ {login[l].peer}
        BY <4>2, KeysOfPeersFor
      <4>4. QED
        BY <1>0, <4>1, <4>2, <4>3 DEF AccountInv, LoginCoherentIn
    <3> HIDE DEF r
    <3>3. AccountInv' /\ HistExtends
      BY <1>0, <3>1, <3>2, LoginAccountInv, UnchangedExtends
    <3>4. QED
      BY <3>1, <3>3, MapsStable, ViewsStable
  <2>4. CASE RegisterNotify(l)
    <3>1. PICK q \in login[l].todo :
            /\ Publish(l, q, RegistrationUpdate(l, q))
            /\ login' = [login EXCEPT ![l] = [@ EXCEPT !.todo = login[l].todo \ {q}]]
      BY <2>4 DEF RegisterNotify
    <3>2. /\ UNCHANGED <<ip, serial, hist, admin, view, owner>>
          /\ login[l].pc = "notify"
      BY <2>4 DEF RegisterNotify, accountVars
    <3>3. LoginCoherentIn(hist, serial, login[l])
      BY <3>2 DEF AccountInv
    <3>4. AccountInv' /\ HistExtends
      <4> DEFINE r == [login[l] EXCEPT !.todo = login[l].todo \ {q}]
      <4>1. /\ r.serial = login[l].serial /\ r.peer = login[l].peer
            /\ r.peers = login[l].peers /\ r.todo \subseteq login[l].todo
        BY <2>0 DEF ThreadStates
      <4>2. login' = [login EXCEPT ![l] = r]
        BY <3>1
      <4> HIDE DEF r
      <4>3. LoginCoherentIn(hist, serial, r)
        BY <3>3, <4>1 DEF LoginCoherentIn
      <4>4. QED
        BY <1>0, <3>2, <4>2, <4>3, LoginAccountInv, UnchangedExtends
    <3>5. q \in Peers /\ RegistrationUpdate(l, q) \in Updates
      <4>1. /\ q \in Peers
            /\ login[l].peer \in Peers /\ login[l].ip \in IPs
            /\ login[l].serial \in Nat
            /\ login[l].peers \in SUBSET [key : Peers, ip : IPs]
        BY <2>0, <3>2 DEF ThreadStates, TypeInv, LoginKnown
      <4> DEFINE ps == {[key |-> login[l].peer, ip |-> login[l].ip]}
                           \cup {r \in login[l].peers : r.key # q}
      <4>2. ps \in SUBSET [key : Peers, ip : IPs]
        BY <4>1
      <4>3. NetworkMapMsg(ps, "static", login[l].serial) \in Updates
        BY <4>1, <4>2, MapMsgType
      <4>4. QED
        BY <4>1, <4>3 DEF RegistrationUpdate
    <3>6. CoherentIn(hist, serial, q, RegistrationUpdate(l, q))
      BY <3>3, RegistrationCoherent
    <3>7. MapMatchesSerial'
      BY <3>1, <3>2, <3>5, <3>6, SendUpdateCoherent DEF Publish
    <3>8. QED
      BY <3>2, <3>4, <3>7, ViewsStable
  <2>5. QED
    BY <1>4, <2>1, <2>a, <2>2, <2>3, <2>4 DEF LoginStep
<1>5. ASSUME NEW a \in Admins, NEW p \in Peers, DeletePeer(a, p) PROVE MapInv'
  <2> DEFINE r == [Idle EXCEPT !.pc = "notifyDeleted", !.peer = p,
                               !.todo = Registered \ {p}]
  <2>1. /\ amMuxFree /\ IncSerial(Registered \ {p})
        /\ admin' = [admin EXCEPT ![a] = r]
        /\ ip' = [ip EXCEPT ![p] = None]
        /\ UNCHANGED <<login, chanBuf, blocked, view, owner>>
    BY <1>5 DEF DeletePeer, channelVars, streamVars
  <2>2. Registered' = Registered \ {p}
    BY <1>0, <2>1 DEF Registered, AccountType
  <2>3. r.peer = p /\ r.todo = Registered \ {p}
    BY DEF Idle
  <2> HIDE DEF r
  <2>4. \A b \in Admins : admin'[b].pc # "idle" => b = a /\ admin'[b] = r
    BY <2>1 DEF amMuxFree, TypeInv, TypeOK, ThreadType
  <2>5. HistExtends /\ hist'[serial'] = {Registered'}
    BY <1>0, <2>1, <2>2, IncSerialExtends
  <2>6. AccountInv'
    BY <2>1, <2>2, <2>3, <2>4, <2>5, ChangeAccountInv
  <2>7. QED
    BY <2>1, <2>5, <2>6, MapsStable, ViewsStable
<1>6. ASSUME NEW a \in Admins, AdminStep(a) PROVE MapInv'
  <2>0. admin[a] \in ThreadStates
    BY DEF TypeInv, TypeOK, ThreadType
  <2>1. /\ UNCHANGED <<ip, serial, hist, login, view, owner>>
        /\ admin[a].pc # "idle"
    BY <1>6 DEF AdminStep, DeleteNotifyDeleted, DeleteNotifyOthers,
                DeleteCloseChannel, accountVars, streamVars
  <2>2. /\ HistExtends
        /\ admin[a].peer \in Peers /\ admin[a].peer \notin Registered
        /\ admin[a].todo \subseteq Registered /\ Registered \subseteq Peers
    BY <1>0, <2>1, UnchangedExtends DEF AccountInv, TypeInv, AdminKnown, Registered
  <2>3. CASE DeleteNotifyDeleted(a)
    <3> DEFINE r == [admin[a] EXCEPT !.pc = "notifyOthers"]
    <3>1. /\ admin' = [admin EXCEPT ![a] = r]
          /\ r.peer = admin[a].peer /\ r.todo = admin[a].todo
      BY <2>0, <2>3 DEF DeleteNotifyDeleted, ThreadStates, TypeInv, TypeOK, ThreadType
    <3> HIDE DEF r
    <3>2. AccountInv'
      BY <2>1, <3>1, AdminAccountInv
    <3>3. NetworkMapMsg({}, "none", serial) \in Updates
      BY <1>0, MapMsgType
    <3>4. CoherentIn(hist, serial, admin[a].peer, NetworkMapMsg({}, "none", serial))
      BY <2>2, DeletedMapCoherent
    <3>5. MapMatchesSerial'
      BY <2>1, <2>2, <2>3, <3>3, <3>4, SendUpdateCoherent DEF DeleteNotifyDeleted, Publish
    <3>6. QED
      BY <2>1, <2>2, <3>2, <3>5, ViewsStable
  <2>4. CASE DeleteNotifyOthers(a)
    <3>1. PICK q \in admin[a].todo :
            /\ Publish(a, q, NetworkMapMsg(PeersFor(q), "none", serial))
            /\ admin' = [admin EXCEPT ![a].todo = @ \ {q}]
      BY <2>4 DEF DeleteNotifyOthers
    <3> DEFINE r == [admin[a] EXCEPT !.todo = admin[a].todo \ {q}]
    <3>2. /\ admin' = [admin EXCEPT ![a] = r]
          /\ r.peer = admin[a].peer /\ r.todo \subseteq admin[a].todo
      BY <2>0, <3>1 DEF ThreadStates, TypeInv, TypeOK, ThreadType
    <3> HIDE DEF r
    <3>3. AccountInv'
      BY <2>1, <3>2, AdminAccountInv
    <3>4. NetworkMapMsg(PeersFor(q), "none", serial) \in Updates
      BY <1>0, PeersForType, MapMsgType
    <3>5. q \in Peers /\ CoherentIn(hist, serial, q, NetworkMapMsg(PeersFor(q), "none", serial))
      BY <2>2, InitialMapCoherent
    <3>6. MapMatchesSerial'
      BY <2>1, <3>1, <3>4, <3>5, SendUpdateCoherent DEF Publish
    <3>7. QED
      BY <2>1, <2>2, <3>3, <3>6, ViewsStable
  <2>5. CASE DeleteCloseChannel(a)
    <3>1. /\ admin' = [admin EXCEPT ![a] = Idle]
          /\ UNCHANGED <<chanBuf, blocked>>
      BY <2>5 DEF DeleteCloseChannel, CloseChannel
    <3>2. Idle.pc = "idle"
      BY DEF Idle
    <3>3. AccountInv'
      BY <2>1, <3>1, <3>2, AdminAccountInv
    <3>4. QED
      BY <2>1, <2>2, <3>1, <3>3, MapsStable, ViewsStable
  <2>6. QED
    BY <1>6, <2>3, <2>4, <2>5 DEF AdminStep
<1>7. ASSUME NEW s \in Streams, Refresh(s) PROVE MapInv'
  <2>1. UNCHANGED <<ip, serial, hist, threadVars, owner, view>>
    BY <1>7 DEF Refresh, accountVars
  <2>2. HistExtends /\ AccountInv'
    BY <1>0, <2>1, UnchangedExtends, AccountInvUnchanged
  <2>3. CASE UNCHANGED <<channelVars, missed>>
    BY <2>1, <2>2, <2>3, MapsStable, ViewsStable DEF channelVars
  <2>4. CASE RefreshSend(s, owner[s])
    <3>1. owner[s] \in Peers
      BY <2>4 DEF RefreshSend, TypeInv, RefresherStarted, OwnerKnown
    <3>2. TurnUpdate \in Updates /\ CoherentIn(hist, serial, owner[s], TurnUpdate)
      BY DEF TurnUpdate, Updates, CoherentIn
    <3>3. MapMatchesSerial'
      BY <2>1, <2>4, <3>1, <3>2, SendUpdateCoherent DEF RefreshSend
    <3>4. QED
      BY <2>1, <2>2, <3>3, ViewsStable
  <2>5. QED
    BY <1>7, <2>3, <2>4 DEF Refresh
<1>8. CASE Unblock
  <2>1. /\ UnblockSend
        /\ UNCHANGED <<ip, serial, hist, threadVars, owner, view>>
    BY <1>8 DEF Unblock, accountVars, streamVars
  <2>2. HistExtends /\ AccountInv'
    BY <1>0, <2>1, UnchangedExtends, AccountInvUnchanged
  <2>3. QED
    BY <2>1, <2>2, UnblockCoherent, ViewsStable
<1>9. CASE UNCHANGED vars
  <2>1. UNCHANGED <<ip, serial, hist, threadVars, owner, view, chanBuf, blocked>>
    BY <1>9 DEF vars, accountVars, streamVars, channelVars
  <2>2. HistExtends /\ AccountInv'
    BY <1>0, <2>1, UnchangedExtends, AccountInvUnchanged
  <2>3. QED
    BY <2>1, <2>2, MapsStable, ViewsStable
<1>10. ASSUME NEW p \in Peers, DeletePeerNotSaved(p) PROVE MapInv'
  <2>1. /\ amMuxFree /\ ip' = [ip EXCEPT ![p] = None]
        /\ UNCHANGED <<login, admin, chanBuf, blocked, view, owner>>
    BY <1>10 DEF DeletePeerNotSaved, channelVars, threadVars
  <2>2. Registered' = Registered \ {p}
    BY <1>0, <2>1 DEF Registered, AccountType
  <2>3. HistExtends /\ Registered' \in hist'[serial']
    <3>1. CASE IncSerial(Registered \ {p})
      BY <1>0, <2>2, <3>1, IncSerialExtends
    <3>2. CASE /\ hist' = [hist EXCEPT ![serial] = @ \cup {Registered \ {p}}]
               /\ UNCHANGED serial
      BY <1>0, <2>2, <3>2 DEF AccountType, HistExtends
    <3>3. QED
      BY <1>10, <3>1, <3>2 DEF DeletePeerNotSaved
  <2>4. \A b \in Admins : admin'[b].pc = "idle"
    BY <2>1 DEF amMuxFree
  <2>5. AccountInv'
    BY <2>1, <2>3, <2>4, ChangeAccountInv
  <2>6. QED
    BY <2>1, <2>3, <2>5, MapsStable, ViewsStable
<1>11. QED
  BY <1>1, <1>2, <1>3, <1>4, <1>5, <1>6, <1>7, <1>8, <1>9, <1>10 DEF Next

LEMMA MapInit == Init => MapInv
<1> SUFFICES ASSUME Init PROVE MapInv
  OBVIOUS
<1>1. AccountInv
  BY DEF Init, AccountInv, Registered, Idle
<1>2. MapMatchesSerial
  BY DEF Init, ChannelsInit, MapMatchesSerial
<1>3. ViewMatchesSerial
  <2>1. /\ serial = 0 /\ hist[0] = {{}}
        /\ \A p \in Peers : view[p].serial = 0 /\ view[p].peers = {}
    BY DEF Init, NewEngine
  <2>2. \A p \in Peers : Keys({}) = Visible({}, p)
    BY DEF Keys, Visible
  <2>3. ASSUME NEW p \in Peers
        PROVE  /\ view[p].serial \in 0..serial
               /\ \E keys \in hist[view[p].serial] :
                     Keys(view[p].peers) = Visible(keys, p)
    <3>1. view[p].serial = 0 /\ view[p].peers = {} /\ serial = 0 /\ {} \in hist[0]
      BY <2>1
    <3>2. QED
      BY <2>2, <3>1
  <2>4. QED
    BY <2>3 DEF ViewMatchesSerial
<1>4. QED
  BY <1>1, <1>2, <1>3 DEF MapInv

(***************************************************************************)
(* Every network map under way to a peer names exactly the peers of a      *)
(* network the account had under its serial, for any number of concurrent  *)
(* registrations, deletions, failing writes and streams                    *)
(* (grpcserver.go:212-235, peer.go:128-201).                               *)
(***************************************************************************)
THEOREM MapsMatchTheirSerial == Spec => []MapMatchesSerial
<1>1. MapInv => MapMatchesSerial
  BY DEF MapInv
<1>2. QED
  BY TypeInit, TypeStep, ChannelInit, ChannelStep, MapInit, MapStep, <1>1, PTL DEF Spec

(***************************************************************************)
(* A client engine never mixes two network states: its remote peers are    *)
(* those of one serial, whatever it received in whatever order             *)
(* (engine.go:436-465).                                                    *)
(***************************************************************************)
THEOREM ViewsMatchTheirSerial == Spec => []ViewMatchesSerial
<1>1. MapInv => ViewMatchesSerial
  BY DEF MapInv
<1>2. QED
  BY TypeInit, TypeStep, ChannelInit, ChannelStep, MapInit, MapStep, <1>1, PTL DEF Spec

-----------------------------------------------------------------------------
(* The serial of a view never goes back *)

\* An engine takes the serial of an update that is not older than its own.
LEMMA HandleSyncSerial ==
    ASSUME NEW v \in Views, NEW m \in Updates
    PROVE  /\ handleSync(v, m).serial \in Nat
           /\ handleSync(v, m).serial >= v.serial
           /\ m.hasMap => handleSync(v, m).serial >= m.serial
           /\ handleSync(v, m).serial \in {v.serial, m.serial}
           /\ ~m.hasMap => handleSync(v, m).serial = v.serial
BY DEF handleSync, updateTURNs, updateNetworkMap, Views, Updates

\* What a step may do to the views: one engine applies an update, or is new.
ViewStep ==
    \/ UNCHANGED view
    \/ \E p \in Peers : view' = [view EXCEPT ![p] = NewEngine]
    \/ \E p \in Peers : \E m \in Updates : Deliver(p, m)

LEMMA NextViewStep == TypeInv /\ [Next]_vars => ViewStep
<1> SUFFICES ASSUME TypeInv, [Next]_vars, ~UNCHANGED view PROVE ViewStep
  BY DEF ViewStep
<1>1. ASSUME NEW p \in Peers, ClientStep(p) PROVE ViewStep
  BY <1>1 DEF ClientStep, ClientConnect, ClientDisconnect, ClientRestart, ViewStep
<1>2. ASSUME NEW s \in Streams, SyncStep(s) PROVE ViewStep
  <2>1. SendInitialSync(s) \/ SyncForward(s)
    BY <1>2 DEF SyncStep, SyncGetPeer, SyncCreateChannel, SyncMarkConnected,
                SyncSetupRefresh, SyncForwardBroken, SyncChannelClosed,
                SyncDoneCloseChannel, SyncDoneCancelRefresh, SyncDoneMarkDisconnected
  <2>2. owner[s] \in Peers
    BY <2>1 DEF SendInitialSync, SyncForward, TypeInv, OwnerKnown
  <2>3. CASE SendInitialSync(s)
    <3> DEFINE turn == IF TimeBasedCredentials THEN "timed" ELSE "static"
    <3>1. Deliver(owner[s], NetworkMapMsg(PeersFor(owner[s]), turn, serial))
      BY <2>3 DEF SendInitialSync
    <3>2. NetworkMapMsg(PeersFor(owner[s]), turn, serial) \in Updates
      BY PeersForType, MapMsgType DEF TypeInv, TypeOK, AccountType
    <3> QED BY <2>2, <3>1, <3>2 DEF ViewStep
  <2>4. CASE SyncForward(s)
    <3>1. Deliver(owner[s], Head(chanBuf[s])) /\ Head(chanBuf[s]) \in Updates
      BY <2>4, ChanReceiveType DEF SyncForward, TypeInv, TypeOK
    <3> QED BY <2>2, <3>1 DEF ViewStep
  <2> QED BY <2>1, <2>3, <2>4
<1>3. UNCHANGED view \/ (\E p \in Peers : ClientStep(p)) \/ (\E s \in Streams : SyncStep(s))
  BY DEF Next, LoginGetPeer, LoginStep, AddPeer, AddPeerNoAddress, AddPeerNotSaved, RegisterGetNetworkMap,
         RegisterNotify, LoginReturn, DeletePeer, DeletePeerNotSaved, AdminStep, DeleteNotifyDeleted,
         DeleteNotifyOthers, DeleteCloseChannel, Refresh, Unblock, vars
<1> QED BY <1>1, <1>2, <1>3

(***************************************************************************)
(* Over however many streams and late updates, the serial an engine works  *)
(* with never goes back: it stands still, advances, or starts from 0 in a  *)
(* new engine (engine.go:436-442, management.proto:150-152).               *)
(***************************************************************************)
THEOREM ViewSerialNeverGoesBack == Spec => ViewSerialMonotonic
<1>1. TypeInv /\ [Next]_vars => [SerialStep]_vars
  <2> SUFFICES ASSUME TypeInv, [Next]_vars, NEW p \in Peers
               PROVE  view'[p].serial >= view[p].serial \/ view'[p] = NewEngine
    BY DEF SerialStep
  <2>0. view \in [Peers -> Views] /\ view[p].serial \in Nat
    BY DEF TypeInv, TypeOK, ViewType, Views
  <2>1. CASE UNCHANGED view
    BY <2>0, <2>1
  <2>2. ASSUME NEW q \in Peers, view' = [view EXCEPT ![q] = NewEngine]
        PROVE  view'[p].serial >= view[p].serial \/ view'[p] = NewEngine
    BY <2>0, <2>2
  <2>3. ASSUME NEW q \in Peers, NEW m \in Updates, Deliver(q, m)
        PROVE  view'[p].serial >= view[p].serial
    <3>1. view'[p] = IF p = q THEN handleSync(view[q], m) ELSE view[p]
      BY <2>0, <2>3 DEF Deliver
    <3>2. view[q] \in Views
      BY <2>0
    <3> QED BY <2>0, <3>1, <3>2, HandleSyncSerial
  <2> QED BY <2>1, <2>2, <2>3, NextViewStep DEF ViewStep
<1> QED BY <1>1, TypeInit, TypeStep, PTL DEF Spec, ViewSerialMonotonic

-----------------------------------------------------------------------------
(* A refresh goroutine that is not cancelled can be cancelled *)

LEMMA RefresherStep ==
    TypeInv /\ LiveRefresherIsCancellable /\ [Next]_vars => LiveRefresherIsCancellable'
<1> SUFFICES ASSUME TypeInv, LiveRefresherIsCancellable, [Next]_vars,
                    NEW s \in Streams, refresher'[s] # "none", ~cancelled'[s]
             PROVE  cancelMap'[owner'[s]] = s
  BY DEF LiveRefresherIsCancellable, LiveRefreshers
<1>0. /\ TurnType /\ StreamType
      /\ refresher[s] # "none" /\ ~cancelled[s] => cancelMap[owner[s]] = s
      /\ refresher[s] # "none" => pc[s] # "unused"
  BY DEF LiveRefresherIsCancellable, LiveRefreshers, TypeInv, TypeOK, RefresherStarted
<1>1. ASSUME NEW p \in Peers, ClientStep(p) PROVE cancelMap'[owner'[s]] = s
  BY <1>0, <1>1 DEF ClientStep, ClientConnect, ClientDisconnect, ClientRestart, turnVars,
                    streamVars, StreamType
<1>2. ASSUME NEW r \in Streams, SyncSetupRefresh(r) PROVE cancelMap'[owner'[s]] = s
  <2>1. /\ owner[r] \in Peers /\ UNCHANGED owner
        /\ cancelMap' = [cancelMap EXCEPT ![owner[r]] = r]
        /\ refresher' = [refresher EXCEPT ![r] = "select"]
        /\ cancelled'[s] <=> cancelled[s] \/ cancelMap[owner[r]] = s
    BY <1>2 DEF SyncSetupRefresh, SetupRefresh, cancel, TypeInv, OwnerKnown
  <2> QED BY <1>0, <2>1 DEF TurnType
<1>3. ASSUME NEW r \in Streams, SyncDoneCancelRefresh(r) PROVE cancelMap'[owner'[s]] = s
  <2>1. /\ owner[r] \in Peers /\ UNCHANGED <<owner, refresher>>
        /\ cancelMap' = [cancelMap EXCEPT ![owner[r]] = None]
        /\ cancelled'[s] <=> cancelled[s] \/ cancelMap[owner[r]] = s
    BY <1>3 DEF SyncDoneCancelRefresh, CancelRefresh, cancel, TypeInv, OwnerKnown
  <2> QED BY <1>0, <2>1 DEF TurnType
<1>4. ASSUME NEW r \in Streams, Refresh(r) PROVE cancelMap'[owner'[s]] = s
  <2>1. /\ UNCHANGED <<owner, cancelMap, cancelled>> /\ refresher[r] # "none"
        /\ \A t \in Streams : t # r => refresher'[t] = refresher[t]
    BY <1>0, <1>4 DEF Refresh, RefreshSelect, RefreshSend, TurnType
  <2> QED BY <1>0, <2>1
<1>5. CASE UNCHANGED <<turnVars, owner>>
  BY <1>0, <1>5 DEF turnVars
<1>6. \/ UNCHANGED <<turnVars, owner>>
      \/ \E p \in Peers : ClientStep(p)
      \/ \E r \in Streams : SyncSetupRefresh(r) \/ SyncDoneCancelRefresh(r) \/ Refresh(r)
  BY DEF Next, SyncStep, SyncGetPeer, SendInitialSync, SyncCreateChannel, SyncMarkConnected,
         SyncForward, SyncForwardBroken, SyncChannelClosed, SyncDoneCloseChannel,
         SyncDoneMarkDisconnected, LoginGetPeer, LoginStep, AddPeer, AddPeerNoAddress, AddPeerNotSaved,
         RegisterGetNetworkMap, RegisterNotify, LoginReturn, DeletePeer, DeletePeerNotSaved, AdminStep,
         DeleteNotifyDeleted, DeleteNotifyOthers, DeleteCloseChannel, Unblock, vars, streamVars
<1> QED BY <1>1, <1>2, <1>3, <1>4, <1>5, <1>6

(***************************************************************************)
(* However the streams of a peer overlap, its goroutine that still runs is *)
(* the one that CancelRefresh reaches: none is lost when another takes its *)
(* place (turncredentials.go:82-128).                                      *)
(***************************************************************************)
THEOREM NoRefresherIsLost == Spec => []LiveRefresherIsCancellable
<1>1. Init => LiveRefresherIsCancellable
  BY DEF Init, TurnInit, LiveRefresherIsCancellable, LiveRefreshers
<1> QED BY <1>1, RefresherStep, TypeInit, TypeStep, PTL DEF Spec

-----------------------------------------------------------------------------
(* Clients converge to the registered peers, unless they missed an update *)

HasChannel == {"markConnected", "setupRefresh", "loop"}

\* A stream that works is the last one of its client.
CurrentInv ==
    \A s \in Streams :
        pc[s] \notin {"unused", "done"} /\ ~broken[s] => current[owner[s]] = s

\* A channel that is open is the registered one of its peer.
OpenInv ==
    \A s \in Streams :
        pc[s] \in HasChannel /\ ~chanClosed[s] => peerChannels[owner[s]] = s

\* A stream that has had its initial sync and can be told what changes.
Attached(s) ==
    /\ pc[s] \in HasChannel \union {"createChannel"}
    /\ ~broken[s] /\ ~chanClosed[s]

\* Since serial n the set of keys R is a network of every serial, in history
\* h up to t.
FreshIn(h, t, R, n) == n \in 0..t /\ \A k \in n..t : R \in h[k]

\* Serial n still stands for the registered peers.
Fresh(n) == FreshIn(hist, serial, Registered, n)

\* The client has the current network, or it is in its channel or about to be.
Holds(s) ==
    \/ Fresh(view[owner[s]].serial)
    \/ \E i \in 1..Len(chanBuf[s]) : chanBuf[s][i].hasMap /\ Fresh(chanBuf[s][i].serial)
    \/ \E b \in blocked : b.chan = s /\ b.msg.hasMap /\ Fresh(b.msg.serial)

\* A thread of the server is going to tell p of the current network.
Due(p) ==
    \/ \E l \in Logins : /\ login[l].pc = "networkMap"
                         /\ login[l].peer \in Registered \ {p}
    \/ \E l \in Logins : /\ login[l].pc = "notify"
                         /\ p \in login[l].todo
                         /\ Fresh(login[l].serial)
    \/ \E a \in Admins : admin[a].pc # "idle" /\ p \in admin[a].todo

\* All that the client of stream s has, or is about to be told, is older than n.
Below(s, n) ==
    /\ view[owner[s]].serial < n
    /\ \A i \in 1..Len(chanBuf[s]) : chanBuf[s][i].hasMap => chanBuf[s][i].serial < n
    /\ \A b \in blocked : b.chan = s /\ b.msg.hasMap => b.msg.serial < n
    /\ \A l \in Logins :
          login[l].pc = "notify" /\ owner[s] \in login[l].todo => login[l].serial < n

\* The client is not told of anything later than what its stream missed.
Behind(s) == \E n \in Nat : Below(s, n) /\ n <= missed[s]

\* The peer of the stream is being deleted, and is still to be told or to be
\* cut off.
BeingDeleted(s) ==
    \E a \in Admins :
        /\ admin[a].peer = owner[s]
        /\ \/ admin[a].pc = "notifyDeleted" /\ \E n \in Nat : Below(s, n) /\ n <= serial
           \/ admin[a].pc = "notifyOthers" /\ pc[s] # "createChannel"

Tell(s) ==
    \/ Behind(s)
    \/ /\ owner[s] \in Registered
       /\ Holds(s) \/ Due(owner[s]) \/ Fresh(missed[s])
    \/ /\ owner[s] \notin Registered
       /\ BeingDeleted(s)

TellInv == \A s \in Streams : Attached(s) => Tell(s)

\* What the steps below need of the invariants proved above.
BaseInv == TypeInv /\ ChannelInv /\ MapInv /\ CurrentInv /\ OpenInv

\* What serial stands for the current network in the next state.
FreshNext(n) == FreshIn(hist', serial', Registered', n)

LEMMA FreshUp ==
    ASSUME NEW h, NEW t \in Nat, NEW R, NEW n, NEW m \in Nat, FreshIn(h, t, R, n),
           n <= m, m <= t
    PROVE  FreshIn(h, t, R, m)
BY DEF FreshIn

LEMMA FreshNow ==
    ASSUME NEW h, NEW t \in Nat, NEW R \in h[t] PROVE FreshIn(h, t, R, t)
BY DEF FreshIn

\* A change that leaves the registered keys the same makes nothing stale.
LEMMA FreshSame ==
    ASSUME NEW h, NEW g, NEW t \in Nat, NEW R, NEW n, FreshIn(h, t, R, n),
           \A k \in 0..t : g[k] = h[k], R \in g[t + 1]
    PROVE  FreshIn(g, t + 1, R, n)
BY DEF FreshIn

LEMMA FreshKept ==
    ASSUME UNCHANGED <<ip, serial, hist>>
    PROVE  \A n : FreshNext(n) <=> Fresh(n)
BY DEF Fresh, FreshNext, Registered

LEMMA CurrentStep == TypeInv /\ CurrentInv /\ [Next]_vars => CurrentInv'
<1> SUFFICES ASSUME TypeInv, CurrentInv, [Next]_vars, NEW s \in Streams,
                    pc'[s] \notin {"unused", "done"}, ~broken'[s]
             PROVE  current'[owner'[s]] = s
  BY DEF CurrentInv
<1>0. StreamType /\ (pc[s] # "unused" => owner[s] \in Peers)
      /\ (pc[s] \notin {"unused", "done"} /\ ~broken[s] => current[owner[s]] = s)
  BY DEF TypeInv, TypeOK, CurrentInv, OwnerKnown
<1>1. ASSUME NEW r \in Streams, NEW p \in Peers, ClientConnect(r, p)
      PROVE  current'[owner'[s]] = s
  <2>1. CASE r = s
    BY <1>0, <1>1, <2>1 DEF ClientConnect, StreamType
  <2>2. CASE r # s
    <3>1. pc'[s] = pc[s] /\ owner'[s] = owner[s] /\ broken' = broken
      BY <1>0, <1>1, <2>2 DEF ClientConnect, StreamType
    <3>2. current[owner[s]] = s /\ owner[s] \in Peers
      BY <1>0, <3>1
    <3>3. Streaming(owner[s])
      BY <3>1, <3>2, NoneAssumption DEF Streaming
    <3>4. owner[s] # p
      BY <1>1, <3>3 DEF ClientConnect
    <3> QED BY <1>0, <1>1, <3>1, <3>2, <3>4 DEF ClientConnect, StreamType
  <2> QED BY <2>1, <2>2
<1>2. ASSUME NEW p \in Peers, ClientDisconnect(p) \/ ClientRestart(p)
      PROVE  current'[owner'[s]] = s
  BY <1>0, <1>2 DEF ClientDisconnect, ClientRestart, StreamType, streamVars
<1>3. ASSUME NEW r \in Streams, SyncStep(r) PROVE current'[owner'[s]] = s
  <2>1. /\ UNCHANGED <<owner, broken, current>>
        /\ pc[r] \notin {"unused", "done"}
        /\ UNCHANGED pc \/ \E l : Goto(r, l)
    BY <1>3 DEF SyncStep, SyncGetPeer, SendInitialSync, SyncCreateChannel,
         SyncMarkConnected, SyncSetupRefresh, SyncForward, SyncForwardBroken,
         SyncChannelClosed, SyncDoneCloseChannel, SyncDoneCancelRefresh,
         SyncDoneMarkDisconnected, streamVars
  <2> QED BY <1>0, <2>1 DEF Goto, StreamType
<1>4. CASE UNCHANGED <<pc, owner, broken, current>>
  BY <1>0, <1>4
<1>5. \/ UNCHANGED <<pc, owner, broken, current>>
      \/ \E p \in Peers : ClientStep(p)
      \/ \E r \in Streams : SyncStep(r)
  BY DEF Next, LoginGetPeer, LoginStep, AddPeer, AddPeerNoAddress, AddPeerNotSaved, RegisterGetNetworkMap,
         RegisterNotify, LoginReturn, DeletePeer, DeletePeerNotSaved, AdminStep, DeleteNotifyDeleted,
         DeleteNotifyOthers, DeleteCloseChannel, Refresh, Unblock, vars, streamVars
<1> QED BY <1>1, <1>2, <1>3, <1>4, <1>5 DEF ClientStep

LEMMA OpenStep == TypeInv /\ ChannelInv /\ OpenInv /\ [Next]_vars => OpenInv'
<1> SUFFICES ASSUME TypeInv, ChannelInv, OpenInv, [Next]_vars, NEW s \in Streams,
                    pc'[s] \in HasChannel, ~chanClosed'[s]
             PROVE  peerChannels'[owner'[s]] = s
  BY DEF OpenInv
<1>0. StreamType /\ ChannelsType /\ (pc[s] # "unused" => owner[s] \in Peers)
      /\ (pc[s] \in HasChannel /\ ~chanClosed[s] => peerChannels[owner[s]] = s)
  BY DEF TypeInv, TypeOK, OpenInv, OwnerKnown
<1>1. ASSUME NEW p \in Peers, ClientStep(p) PROVE peerChannels'[owner'[s]] = s
  BY <1>0, <1>1 DEF ClientStep, ClientConnect, ClientDisconnect, ClientRestart, StreamType,
                    channelVars, streamVars, HasChannel
<1>2. ASSUME NEW r \in Streams, SyncCreateChannel(r) PROVE peerChannels'[owner'[s]] = s
  <2>1. /\ UNCHANGED owner /\ owner[r] \in Peers
        /\ peerChannels' = [peerChannels EXCEPT ![owner[r]] = r]
        /\ chanClosed'[s] <=> chanClosed[s] \/ peerChannels[owner[r]] = s
        /\ s # r => pc'[s] = pc[s]
    BY <1>0, <1>2 DEF SyncCreateChannel, CreateChannel, CloseRegistered, Goto, StreamType,
                      TypeInv, OwnerKnown
  <2> QED BY <1>0, <2>1 DEF ChannelsType
<1>3. ASSUME NEW p \in Peers, CloseChannel(p), UNCHANGED owner, pc[s] \in HasChannel
      PROVE  peerChannels'[owner'[s]] = s
  <2>1. /\ peerChannels' = [peerChannels EXCEPT ![p] = None]
        /\ chanClosed'[s] <=> chanClosed[s] \/ peerChannels[p] = s
    BY <1>3 DEF CloseChannel, CloseRegistered
  <2> QED BY <1>0, <1>3, <2>1 DEF ChannelsType, HasChannel
<1>4. ASSUME NEW r \in Streams, SyncDoneCloseChannel(r) PROVE peerChannels'[owner'[s]] = s
  BY <1>0, <1>3, <1>4 DEF SyncDoneCloseChannel, Goto, StreamType, TypeInv, OwnerKnown,
                          HasChannel
<1>5. ASSUME NEW a \in Admins, DeleteCloseChannel(a) PROVE peerChannels'[owner'[s]] = s
  BY <1>3, <1>5 DEF DeleteCloseChannel, streamVars, TypeInv, AdminKnown
<1>6. ASSUME UNCHANGED <<peerChannels, chanClosed, owner>>, pc[s] \in HasChannel
      PROVE  peerChannels'[owner'[s]] = s
  BY <1>0, <1>6
<1>7. ASSUME NEW r \in Streams, SyncStep(r), ~SyncCreateChannel(r), ~SyncDoneCloseChannel(r)
      PROVE  UNCHANGED <<peerChannels, chanClosed, owner>> /\ pc[s] \in HasChannel
  BY <1>0, <1>7 DEF SyncStep, SyncGetPeer, SendInitialSync, SyncMarkConnected,
       SyncSetupRefresh, SyncForward, SyncForwardBroken, SyncChannelClosed,
       SyncDoneCancelRefresh, SyncDoneMarkDisconnected, ChanReceive, channelVars, streamVars,
       Goto, StreamType, HasChannel
<1>8. \/ UNCHANGED <<peerChannels, chanClosed, owner, pc>>
      \/ \E p \in Peers : ClientStep(p)
      \/ \E r \in Streams : SyncStep(r)
      \/ \E a \in Admins : DeleteCloseChannel(a)
  BY DEF Next, LoginGetPeer, LoginStep, AddPeer, AddPeerNoAddress, AddPeerNotSaved, RegisterGetNetworkMap,
         RegisterNotify, LoginReturn, DeletePeer, DeletePeerNotSaved, AdminStep, DeleteNotifyDeleted, Publish,
         DeleteNotifyOthers, Refresh, RefreshSend, SendUpdate, Unblock, UnblockSend, vars,
         channelVars, streamVars
<1> QED BY <1>1, <1>2, <1>4, <1>5, <1>6, <1>7, <1>8

\* What a stream holds it keeps: while nothing becomes stale, ...
LEMMA HoldsKept ==
    ASSUME NEW s \in Streams, Holds(s), UNCHANGED blocked, chanBuf'[s] = chanBuf[s],
           owner'[s] = owner[s], view'[owner[s]] = view[owner[s]],
           \A n : Fresh(n) => FreshNext(n)
    PROVE  Holds(s)'
BY DEF Holds, Fresh, FreshNext

\* ... when anything is sent to anyone, ...
LEMMA HoldsSend ==
    ASSUME TypeInv, NEW t, NEW q \in Peers, NEW m \in Updates, SendUpdate(t, q, m),
           UNCHANGED <<view, ip, serial, hist, owner>>, NEW s \in Streams, Holds(s)
    PROVE  Holds(s)'
<1>0. /\ chanBuf \in [Streams -> Seq(Updates)] /\ blocked = {}
      /\ peerChannels[q] # None => peerChannels[q] \in Streams
  BY DEF TypeInv, TypeOK, ChannelsType, SendUpdate, channelsMuxFree
<1>1. chanBuf' = chanBuf \/ (peerChannels[q] \in Streams
        /\ chanBuf' = [chanBuf EXCEPT ![peerChannels[q]] = Append(@, m)])
  BY <1>0 DEF SendUpdate
<1>2. \A i \in 1..Len(chanBuf[s]) :
        i \in 1..Len(chanBuf'[s]) /\ chanBuf'[s][i] = chanBuf[s][i]
  <2>1. chanBuf'[s] = chanBuf[s] \/ chanBuf'[s] = Append(chanBuf[s], m)
    BY <1>0, <1>1
  <2>2. chanBuf[s] \in Seq(Updates)
    BY <1>0
  <2> QED BY <2>1, <2>2
<1>3. \A n : FreshNext(n) <=> Fresh(n)
  BY FreshKept
<1> QED BY <1>0, <1>2, <1>3 DEF Holds, Fresh, FreshNext

\* ... and a current map that is sent to its peer reaches it.
LEMMA HoldsSent ==
    ASSUME TypeInv, NEW t, NEW m, NEW s \in Streams, owner[s] \in Peers,
           SendUpdate(t, owner[s], m), peerChannels[owner[s]] = s,
           UNCHANGED <<ip, serial, hist>>, m.hasMap, Fresh(m.serial)
    PROVE  Holds(s)'
<1>0. chanBuf \in [Streams -> Seq(Updates)] /\ s # None
  BY NoneAssumption DEF TypeInv, TypeOK, ChannelsType
<1>f. FreshIn(hist', serial', Registered', m.serial)
  BY FreshKept DEF FreshNext
<1>1. CASE chanBuf' = [chanBuf EXCEPT ![s] = Append(@, m)]
  <2>1. Len(chanBuf[s]) + 1 \in 1..Len(chanBuf'[s]) /\ chanBuf'[s][Len(chanBuf[s]) + 1] = m
    BY <1>0, <1>1
  <2> QED BY <1>f, <2>1 DEF Holds, Fresh
<1>2. CASE blocked' = {[by |-> t, chan |-> s, msg |-> m]}
  <2> DEFINE b == [by |-> t, chan |-> s, msg |-> m]
  <2>1. b \in blocked' /\ b.chan = s /\ b.msg = m
    BY <1>2
  <2> HIDE DEF b
  <2> QED BY <1>f, <2>1 DEF Holds, Fresh
<1> QED BY <1>0, <1>1, <1>2 DEF SendUpdate

LEMMA HoldsUnblock ==
    ASSUME TypeInv, UnblockSend, UNCHANGED <<view, ip, serial, hist, owner>>,
           NEW s \in Streams, Holds(s)
    PROVE  Holds(s)'
<1>f. \A n : FreshNext(n) <=> Fresh(n)
  BY FreshKept
<1>1. PICK b \in blocked : chanBuf' = [chanBuf EXCEPT ![b.chan] = Append(@, b.msg)]
  BY DEF UnblockSend
<1>2. /\ chanBuf \in [Streams -> Seq(Updates)] /\ b.chan \in Streams
      /\ \A c \in blocked : c = b
  BY DEF TypeInv, TypeOK, ChannelsType
<1>3. \A i \in 1..Len(chanBuf[s]) :
        i \in 1..Len(chanBuf'[s]) /\ chanBuf'[s][i] = chanBuf[s][i]
  BY <1>1, <1>2
<1>4. CASE b.chan = s /\ b.msg.hasMap /\ Fresh(b.msg.serial)
  <2>1. Len(chanBuf[s]) + 1 \in 1..Len(chanBuf'[s]) /\ chanBuf'[s][Len(chanBuf[s]) + 1] = b.msg
    BY <1>1, <1>2, <1>4
  <2> QED BY <1>4, <1>f, <2>1 DEF Holds, Fresh, FreshNext
<1>5. CASE ~(b.chan = s /\ b.msg.hasMap /\ Fresh(b.msg.serial))
  BY <1>2, <1>3, <1>5, <1>f DEF Holds, Fresh, FreshNext
<1> QED BY <1>4, <1>5

\* The stream's own handler takes an update from the channel to the engine.
LEMMA ForwardFacts ==
    ASSUME TypeInv, NEW s \in Streams, SyncForward(s), owner[s] \in Peers
    PROVE  \E m \in Updates :
             /\ m = chanBuf[s][1] /\ 1 \in 1..Len(chanBuf[s])
             /\ view[owner[s]] \in Views /\ view[owner[s]].serial \in Nat
             /\ view'[owner[s]] = handleSync(view[owner[s]], m)
             /\ Len(chanBuf[s]) \in Nat /\ Len(chanBuf'[s]) = Len(chanBuf[s]) - 1
             /\ \A i \in 1..Len(chanBuf'[s]) : chanBuf'[s][i] = chanBuf[s][i + 1]
             /\ UNCHANGED <<blocked, owner, ip, serial, hist, login, admin, missed>>
<1>0. /\ chanBuf \in [Streams -> Seq(Updates)] /\ chanBuf[s] # <<>>
      /\ chanBuf' = [chanBuf EXCEPT ![s] = Tail(@)]
      /\ UNCHANGED <<blocked, owner, ip, serial, hist, login, admin, missed>>
      /\ Deliver(owner[s], Head(chanBuf[s])) /\ view \in [Peers -> Views]
  BY DEF TypeInv, TypeOK, ChannelsType, SyncForward, ChanReceive, streamVars, accountVars,
         threadVars, ViewType
<1>1. /\ Head(chanBuf[s]) \in Updates /\ Head(chanBuf[s]) = chanBuf[s][1]
      /\ Len(Tail(chanBuf[s])) = Len(chanBuf[s]) - 1
      /\ \A i \in 1..Len(Tail(chanBuf[s])) : Tail(chanBuf[s])[i] = chanBuf[s][i + 1]
      /\ Len(chanBuf[s]) \in Nat /\ Len(chanBuf[s]) >= 1
  BY <1>0, HeadTailProperties
<1>2. chanBuf'[s] = Tail(chanBuf[s])
  BY <1>0
<1>3. view'[owner[s]] = handleSync(view[owner[s]], Head(chanBuf[s]))
  BY <1>0 DEF Deliver
<1>4. view[owner[s]] \in Views /\ view[owner[s]].serial \in Nat
  BY <1>0 DEF Views
<1> QED BY <1>0, <1>1, <1>2, <1>3, <1>4

LEMMA HoldsForward ==
    ASSUME TypeInv, ViewMatchesSerial', NEW s \in Streams, SyncForward(s),
           owner[s] \in Peers, Holds(s)
    PROVE  Holds(s)'
<1> DEFINE p == owner[s]
<1>0. PICK m \in Updates :
             /\ m = chanBuf[s][1] /\ 1 \in 1..Len(chanBuf[s])
             /\ view[p] \in Views /\ view[p].serial \in Nat
             /\ view'[p] = handleSync(view[p], m)
             /\ Len(chanBuf[s]) \in Nat /\ Len(chanBuf'[s]) = Len(chanBuf[s]) - 1
             /\ \A i \in 1..Len(chanBuf'[s]) : chanBuf'[s][i] = chanBuf[s][i + 1]
             /\ UNCHANGED <<blocked, owner, ip, serial, hist>>
  BY ForwardFacts
<1>1. serial \in Nat
  BY DEF TypeInv, TypeOK, AccountType
<1>2. /\ view'[p].serial \in 0..serial /\ view'[p].serial >= view[p].serial
      /\ m.hasMap => view'[p].serial >= m.serial
  <2>1. view'[p].serial \in 0..serial
    BY <1>0 DEF ViewMatchesSerial
  <2> QED BY <1>0, <2>1, HandleSyncSerial
<1>f. \A n : FreshNext(n) <=> Fresh(n)
  BY <1>0, FreshKept
<1>u. ASSUME NEW n \in Nat, Fresh(n), n <= view'[p].serial PROVE Holds(s)'
  <2>1. FreshNext(view'[p].serial)
    BY <1>1, <1>2, <1>f, <1>u, FreshUp DEF Fresh
  <2> QED BY <1>0, <2>1 DEF Holds, Fresh, FreshNext
<1>3. CASE Fresh(view[p].serial)
  BY <1>0, <1>2, <1>3, <1>u
<1>4. ASSUME NEW i \in 1..Len(chanBuf[s]), chanBuf[s][i].hasMap, Fresh(chanBuf[s][i].serial)
      PROVE  Holds(s)'
  <2>1. CASE i = 1
    <3>1. m.hasMap /\ m.serial \in Nat /\ Fresh(m.serial)
      BY <1>0, <1>4, <2>1 DEF Updates
    <3> QED BY <1>2, <1>u, <3>1
  <2>2. CASE i # 1
    <3>1. i - 1 \in 1..Len(chanBuf'[s]) /\ chanBuf'[s][i - 1] = chanBuf[s][i]
      BY <1>0, <2>2
    <3> QED BY <1>4, <1>f, <3>1 DEF Holds, Fresh, FreshNext
  <2> QED BY <2>1, <2>2
<1>5. CASE \E b \in blocked : b.chan = s /\ b.msg.hasMap /\ Fresh(b.msg.serial)
  BY <1>0, <1>5, <1>f DEF Holds, Fresh, FreshNext
<1> QED BY <1>3, <1>4, <1>5 DEF Holds

\* The Login threads have nothing new for the owner of stream s.
NothingNew(s) ==
    \A l \in Logins :
        login'[l].pc = "notify" /\ owner[s] \in login'[l].todo =>
            /\ login[l].pc = "notify" /\ owner[s] \in login[l].todo
            /\ login'[l].serial = login[l].serial

\* Whatever is on its way is no later than the account's serial.
LEMMA BelowAll ==
    ASSUME BaseInv, NEW s \in Streams, owner[s] \in Peers, NEW n \in Nat, n > serial
    PROVE  Below(s, n)
<1>0. /\ serial \in Nat /\ AccountInv /\ MapMatchesSerial /\ ViewMatchesSerial
      /\ \A b \in blocked : b.msg \in Updates
  BY DEF BaseInv, MapInv, TypeInv, TypeOK, AccountType, ChannelsType
<1>1. view[owner[s]].serial < n
  BY <1>0 DEF ViewMatchesSerial
<1>2. \A i \in 1..Len(chanBuf[s]) : chanBuf[s][i].hasMap => chanBuf[s][i].serial < n
  BY <1>0 DEF MapMatchesSerial, CoherentFor
<1>3. \A b \in blocked : b.msg.hasMap => b.msg.serial < n
  BY <1>0 DEF MapMatchesSerial, CoherentFor
<1>4. \A l \in Logins : login[l].pc = "notify" => login[l].serial < n
  BY <1>0 DEF AccountInv, LoginCoherentIn
<1> QED BY <1>1, <1>2, <1>3, <1>4 DEF Below

LEMMA BelowKept ==
    ASSUME NEW s \in Streams, NEW n \in Nat, Below(s, n), UNCHANGED blocked,
           chanBuf'[s] = chanBuf[s], owner'[s] = owner[s],
           view'[owner[s]] = view[owner[s]], NothingNew(s)
    PROVE  Below(s, n)'
BY DEF Below, NothingNew

LEMMA BelowSend ==
    ASSUME TypeInv, NEW t, NEW q \in Peers, NEW m \in Updates, SendUpdate(t, q, m),
           UNCHANGED <<view, owner>>, NEW s \in Streams, NothingNew(s), NEW n \in Nat,
           Below(s, n), peerChannels[q] = s /\ m.hasMap => m.serial < n
    PROVE  Below(s, n)'
<1>0. /\ chanBuf \in [Streams -> Seq(Updates)] /\ blocked = {}
      /\ peerChannels[q] # None => peerChannels[q] \in Streams
  BY DEF TypeInv, TypeOK, ChannelsType, SendUpdate, channelsMuxFree
<1>1. \A i \in 1..Len(chanBuf'[s]) :
         chanBuf'[s][i].hasMap => chanBuf'[s][i].serial < n
  <2>1. chanBuf'[s] = chanBuf[s] \/ (peerChannels[q] = s /\ chanBuf'[s] = Append(chanBuf[s], m))
    BY <1>0 DEF SendUpdate
  <2>2. chanBuf[s] \in Seq(Updates)
    BY <1>0
  <2>3. CASE chanBuf'[s] = chanBuf[s]
    BY <2>3 DEF Below
  <2>4. CASE peerChannels[q] = s /\ chanBuf'[s] = Append(chanBuf[s], m)
    <3> SUFFICES ASSUME NEW i \in 1..Len(chanBuf'[s]), chanBuf'[s][i].hasMap
                 PROVE  chanBuf'[s][i].serial < n
      OBVIOUS
    <3>1. (i \in 1..Len(chanBuf[s]) /\ chanBuf'[s][i] = chanBuf[s][i]) \/ chanBuf'[s][i] = m
      BY <2>2, <2>4
    <3> QED BY <2>4, <3>1 DEF Below
  <2> QED BY <2>1, <2>3, <2>4
<1>2. \A b \in blocked' : b.chan = s /\ b.msg.hasMap => b.msg.serial < n
  <2>1. CASE blocked' = blocked
    BY <1>0, <2>1
  <2>2. CASE blocked' = {[by |-> t, chan |-> peerChannels[q], msg |-> m]}
    <3>1. \A b \in blocked' : b.chan = peerChannels[q] /\ b.msg = m
      BY <2>2
    <3> QED BY <3>1
  <2> QED BY <2>1, <2>2 DEF SendUpdate
<1> QED BY <1>1, <1>2 DEF Below, NothingNew

LEMMA BelowUnblock ==
    ASSUME TypeInv, UnblockSend, UNCHANGED <<view, owner, login>>, NEW s \in Streams,
           NEW n \in Nat, Below(s, n)
    PROVE  Below(s, n)'
<1>1. PICK b \in blocked : /\ chanBuf' = [chanBuf EXCEPT ![b.chan] = Append(@, b.msg)]
                           /\ blocked' = {}
  BY DEF UnblockSend
<1>2. chanBuf \in [Streams -> Seq(Updates)] /\ b.chan \in Streams /\ b.msg \in Updates
  BY DEF TypeInv, TypeOK, ChannelsType
<1>3. ASSUME NEW i \in 1..Len(chanBuf'[s]), chanBuf'[s][i].hasMap
      PROVE  chanBuf'[s][i].serial < n
  <2>1. CASE b.chan # s
    BY <1>1, <1>2, <1>3, <2>1 DEF Below
  <2>2. CASE b.chan = s
    <3> DEFINE m == b.msg
    <3>0. chanBuf'[s] = Append(chanBuf[s], m) /\ chanBuf[s] \in Seq(Updates) /\ m \in Updates
      BY <1>1, <1>2, <2>2
    <3>1. m.hasMap => m.serial < n
      BY <2>2 DEF Below
    <3> HIDE DEF m
    <3>2. (i \in 1..Len(chanBuf[s]) /\ chanBuf'[s][i] = chanBuf[s][i]) \/ chanBuf'[s][i] = m
      BY <3>0
    <3> QED BY <1>3, <3>1, <3>2 DEF Below
  <2> QED BY <2>1, <2>2
<1> QED BY <1>1, <1>3 DEF Below

LEMMA BelowForward ==
    ASSUME TypeInv, NEW s \in Streams, SyncForward(s), owner[s] \in Peers, NEW n \in Nat,
           Below(s, n)
    PROVE  Below(s, n)'
<1> DEFINE p == owner[s]
<1>0. PICK m \in Updates :
             /\ m = chanBuf[s][1] /\ 1 \in 1..Len(chanBuf[s])
             /\ view[p] \in Views /\ view[p].serial \in Nat
             /\ view'[p] = handleSync(view[p], m)
             /\ Len(chanBuf[s]) \in Nat /\ Len(chanBuf'[s]) = Len(chanBuf[s]) - 1
             /\ \A i \in 1..Len(chanBuf'[s]) : chanBuf'[s][i] = chanBuf[s][i + 1]
             /\ UNCHANGED <<blocked, owner, login>>
  BY ForwardFacts
<1>1. view'[p].serial < n
  <2>1. m.hasMap => m.serial < n
    BY <1>0 DEF Below
  <2>2. view'[p].serial \in {view[p].serial, m.serial}
        /\ (~m.hasMap => view'[p].serial = view[p].serial)
    BY <1>0, HandleSyncSerial
  <2> QED BY <2>1, <2>2 DEF Below
<1>2. ASSUME NEW i \in 1..Len(chanBuf'[s]), chanBuf'[s][i].hasMap
      PROVE  chanBuf'[s][i].serial < n
  <2>1. i + 1 \in 1..Len(chanBuf[s]) /\ chanBuf'[s][i] = chanBuf[s][i + 1]
    BY <1>0
  <2> QED BY <1>2, <2>1 DEF Below
<1> QED BY <1>0, <1>1, <1>2 DEF Below

\* What is due stays due while the threads it is due from go on.
LEMMA DueKept ==
    ASSUME NEW p, Due(p), Registered \subseteq Registered',
           \A n : Fresh(n) => FreshNext(n),
           \A l \in Logins : login[l].pc = "networkMap" => login'[l] = login[l],
           \A l \in Logins : login[l].pc = "notify" /\ p \in login[l].todo =>
               /\ login'[l].pc = "notify" /\ p \in login'[l].todo
               /\ login'[l].serial = login[l].serial,
           \A a \in Admins : admin[a].pc # "idle" /\ p \in admin[a].todo =>
               admin'[a].pc # "idle" /\ p \in admin'[a].todo
    PROVE  Due(p)'
<1>1. CASE \E l \in Logins : login[l].pc = "networkMap" /\ login[l].peer \in Registered \ {p}
  BY <1>1 DEF Due
<1>2. CASE \E l \in Logins : /\ login[l].pc = "notify" /\ p \in login[l].todo
                             /\ Fresh(login[l].serial)
  BY <1>2 DEF Due, Fresh, FreshNext
<1>3. CASE \E a \in Admins : admin[a].pc # "idle" /\ p \in admin[a].todo
  BY <1>3 DEF Due
<1> QED BY <1>1, <1>2, <1>3 DEF Due

\* A client stays behind while what it missed is not taken back.
LEMMA BehindKept ==
    ASSUME NEW s \in Streams, Behind(s), missed[s] \in Nat, missed'[s] \in Nat,
           missed'[s] >= missed[s],
           \A n \in Nat : Below(s, n) => Below(s, n)'
    PROVE  Behind(s)'
<1>1. PICK n \in Nat : Below(s, n) /\ n <= missed[s]
  BY DEF Behind
<1>2. Below(s, n)' /\ n <= missed'[s]
  BY <1>1
<1> QED BY <1>2 DEF Behind

\* A step that changes neither the account nor its threads.
LEMMA TellQuiet ==
    ASSUME TypeInv, TellInv, NEW s \in Streams, Attached(s), owner'[s] = owner[s],
           UNCHANGED <<ip, serial, hist, login, admin, missed>>,
           pc'[s] = "createChannel" => pc[s] = "createChannel",
           Holds(s) => Holds(s)',
           \A n \in Nat : Below(s, n) => Below(s, n)'
    PROVE  Tell(s)'
<1>0. missed[s] \in Nat
  BY DEF TypeInv, TypeOK, StreamType
<1>1. Registered' = Registered /\ \A n : FreshNext(n) <=> Fresh(n)
  BY FreshKept DEF Registered
<1>2. Tell(s)
  BY DEF TellInv
<1>3. Due(owner[s]) => Due(owner[s])'
  BY <1>1 DEF Due, Fresh, FreshNext
<1>4. BeingDeleted(s) => BeingDeleted(s)'
  BY DEF BeingDeleted
<1>5. Behind(s) => Behind(s)'
  BY <1>0, BehindKept
<1>6. Fresh(missed[s]) => Fresh(missed[s])'
  BY <1>1 DEF Fresh, FreshNext
<1> QED BY <1>1, <1>2, <1>3, <1>4, <1>5, <1>6 DEF Tell

\* A stream is attached if it was, unless this is its initial sync.
LEMMA AttachedStep ==
    ASSUME TypeInv, [Next]_vars, NEW s \in Streams, Attached(s)', ~SendInitialSync(s)
    PROVE  /\ Attached(s) /\ owner'[s] = owner[s] /\ owner[s] \in Peers
           /\ pc'[s] = "createChannel" => pc[s] = "createChannel"
<1>0. StreamType /\ ChannelsType
  BY DEF TypeInv, TypeOK
<1>1. chanClosed[s] => chanClosed'[s]
  BY <1>0 DEF Next, ClientStep, ClientConnect, ClientDisconnect, ClientRestart, SyncStep,
       SyncGetPeer, SendInitialSync, SyncCreateChannel, SyncMarkConnected, SyncSetupRefresh,
       SyncForward, SyncForwardBroken, SyncChannelClosed, SyncDoneCloseChannel,
       SyncDoneCancelRefresh, SyncDoneMarkDisconnected, LoginGetPeer, LoginStep, AddPeer,
       AddPeerNoAddress, AddPeerNotSaved, RegisterGetNetworkMap, RegisterNotify, LoginReturn, DeletePeer, DeletePeerNotSaved,
       AdminStep, DeleteNotifyDeleted, DeleteNotifyOthers, DeleteCloseChannel, Refresh,
       RefreshSend, Unblock, UnblockSend, Publish, SendUpdate, CreateChannel, CloseChannel,
       CloseRegistered, ChanReceive, vars, channelVars
<1>2. broken[s] => broken'[s]
  BY <1>0 DEF Next, ClientStep, ClientConnect, ClientDisconnect, ClientRestart, SyncStep,
       SyncGetPeer, SendInitialSync, SyncCreateChannel, SyncMarkConnected, SyncSetupRefresh,
       SyncForward, SyncForwardBroken, SyncChannelClosed, SyncDoneCloseChannel,
       SyncDoneCancelRefresh, SyncDoneMarkDisconnected, LoginGetPeer, LoginStep, AddPeer,
       AddPeerNoAddress, AddPeerNotSaved, RegisterGetNetworkMap, RegisterNotify, LoginReturn, DeletePeer, DeletePeerNotSaved,
       AdminStep, DeleteNotifyDeleted, DeleteNotifyOthers, DeleteCloseChannel, Refresh,
       Unblock, vars, streamVars, StreamType
<1>3. /\ pc[s] \in HasChannel \union {"createChannel"} /\ owner'[s] = owner[s]
      /\ pc'[s] = "createChannel" => pc[s] = "createChannel"
  <2>0. pc'[s] \in HasChannel \union {"createChannel"}
    BY DEF Attached
  <2>1. ASSUME NEW p \in Peers, ClientStep(p) PROVE pc'[s] = pc[s] /\ owner'[s] = owner[s]
    BY <1>0, <2>0, <2>1 DEF ClientStep, ClientConnect, ClientDisconnect, ClientRestart,
                            streamVars, StreamType, HasChannel
  <2>2. ASSUME NEW r \in Streams, SyncStep(r), r = s
        PROVE  /\ pc[s] \in HasChannel \union {"createChannel"} /\ owner'[s] = owner[s]
               /\ pc'[s] = "createChannel" => pc[s] = "createChannel"
    BY <1>0, <2>0, <2>2 DEF SyncStep, SyncGetPeer, SyncCreateChannel, SyncMarkConnected,
       SyncSetupRefresh, SyncForward, SyncForwardBroken, SyncChannelClosed,
       SyncDoneCloseChannel, SyncDoneCancelRefresh, SyncDoneMarkDisconnected, Goto,
       StreamType, streamVars, HasChannel
  <2>3. ASSUME NEW r \in Streams, SyncStep(r), r # s
        PROVE  pc'[s] = pc[s] /\ owner'[s] = owner[s]
    BY <1>0, <2>3 DEF SyncStep, SyncGetPeer, SendInitialSync, SyncCreateChannel,
       SyncMarkConnected, SyncSetupRefresh, SyncForward, SyncForwardBroken, SyncChannelClosed,
       SyncDoneCloseChannel, SyncDoneCancelRefresh, SyncDoneMarkDisconnected, Goto,
       StreamType, streamVars
  <2>4. \/ UNCHANGED <<pc, owner>>
        \/ \E p \in Peers : ClientStep(p)
        \/ \E r \in Streams : SyncStep(r)
    BY DEF Next, LoginGetPeer, LoginStep, AddPeer, AddPeerNoAddress, AddPeerNotSaved, RegisterGetNetworkMap,
         RegisterNotify, LoginReturn, DeletePeer, DeletePeerNotSaved, AdminStep, DeleteNotifyDeleted,
         DeleteNotifyOthers, DeleteCloseChannel, Refresh, Unblock, vars, streamVars
  <2> QED BY <2>0, <2>1, <2>2, <2>3, <2>4
<1>4. owner[s] \in Peers
  BY <1>3 DEF TypeInv, OwnerKnown, HasChannel
<1> QED BY <1>1, <1>2, <1>3, <1>4 DEF Attached

\* The steps of Sync handlers, clients, refreshers and the blocked sender.
LEMMA TellStreams ==
    ASSUME BaseInv, TellInv, [Next]_vars, ViewMatchesSerial', NEW s \in Streams, Attached(s)',
           \/ \E p \in Peers : ClientStep(p)
           \/ \E r \in Streams : SyncStep(r) \/ Refresh(r)
           \/ Unblock
           \/ UNCHANGED vars
    PROVE  Tell(s)'
<1>0. /\ TypeInv /\ StreamType /\ serial \in Nat /\ CurrentInv /\ AccountInv
      /\ view \in [Peers -> Views] /\ Registered \subseteq Peers
  BY DEF BaseInv, MapInv, TypeInv, TypeOK, AccountType, ViewType, Registered
<1>1. UNCHANGED <<ip, serial, hist, login, admin, missed>>
  BY DEF ClientStep, ClientConnect, ClientDisconnect, ClientRestart, SyncStep,
       SyncGetPeer, SendInitialSync, SyncCreateChannel, SyncMarkConnected, SyncSetupRefresh,
       SyncForward, SyncForwardBroken, SyncChannelClosed, SyncDoneCloseChannel,
       SyncDoneCancelRefresh, SyncDoneMarkDisconnected, MarkPeerConnected, Refresh, Unblock,
       vars, accountVars, threadVars, streamVars
<1>f. Registered' = Registered /\ (\A n : FreshNext(n) <=> Fresh(n)) /\ NothingNew(s)
  BY <1>1, FreshKept DEF Registered, NothingNew
<1>2. CASE SendInitialSync(s)
  <2> DEFINE p == owner[s]
             turn == IF TimeBasedCredentials THEN "timed" ELSE "static"
             m == NetworkMapMsg(PeersFor(p), turn, serial)
  <2>1. p \in Registered /\ Deliver(p, m) /\ UNCHANGED owner
    BY <1>0, <1>2 DEF SendInitialSync, Attached, HasChannel, Goto, StreamType
  <2>2. m \in Updates /\ m.hasMap /\ m.serial = serial
    <3>1. m \in Updates
      BY <1>0, PeersForType, MapMsgType DEF TypeInv, TypeOK
    <3> QED BY <3>1 DEF NetworkMapMsg
  <2> HIDE DEF m
  <2>3. view'[p] = handleSync(view[p], m) /\ view[p] \in Views /\ p \in Peers
    BY <1>0, <2>1 DEF Deliver
  <2>4. view'[p].serial >= serial /\ view'[p].serial \in 0..serial
    <3>1. handleSync(view[p], m).serial >= m.serial
      BY <2>2, <2>3, HandleSyncSerial
    <3>2. view'[p].serial \in 0..serial'
      BY <2>3 DEF ViewMatchesSerial
    <3> QED BY <1>1, <2>2, <2>3, <3>1, <3>2
  <2>5. FreshNext(view'[p].serial)
    <3>1. Registered \in hist[serial] /\ view'[p].serial = serial
      BY <1>0, <2>4 DEF AccountInv
    <3> QED BY <1>0, <1>f, <3>1, FreshNow DEF Fresh
  <2>6. Holds(s)' /\ p \in Registered'
    BY <1>f, <2>1, <2>5 DEF Holds, Fresh, FreshNext
  <2> QED BY <2>1, <2>6 DEF Tell
<1>3. CASE ~SendInitialSync(s)
  <2>1. /\ Attached(s) /\ owner'[s] = owner[s] /\ owner[s] \in Peers
        /\ pc'[s] = "createChannel" => pc[s] = "createChannel"
    BY <1>0, <1>3, AttachedStep
  <2>a. current[owner[s]] = s
    BY <1>0, <2>1 DEF CurrentInv, Attached, HasChannel
  <2> DEFINE Kept == /\ Holds(s) => Holds(s)'
                     /\ \A n \in Nat : Below(s, n) => Below(s, n)'
  <2> SUFFICES Kept
    BY <1>0, <1>1, <2>1, TellQuiet
  <2>2. ASSUME UNCHANGED blocked, chanBuf'[s] = chanBuf[s],
               view'[owner[s]] = view[owner[s]]
        PROVE  Kept
    BY <1>f, <2>1, <2>2, HoldsKept, BelowKept
  <2>3. ASSUME NEW p \in Peers, ClientStep(p) PROVE Kept
    <3>1. UNCHANGED <<chanBuf, blocked>>
      BY <2>3 DEF ClientStep, ClientConnect, ClientDisconnect, ClientRestart, channelVars
    <3>2. CASE ClientRestart(p)
      <4>1. Streaming(owner[s])
        BY <2>1, <2>a, NoneAssumption DEF Attached, HasChannel, Streaming
      <4>2. view'[owner[s]] = view[owner[s]]
        BY <1>0, <2>1, <3>2, <4>1 DEF ClientRestart
      <4> HIDE DEF Kept
      <4> QED BY <2>2, <3>1, <4>2
    <3>3. CASE UNCHANGED view
      <4> HIDE DEF Kept
      <4> QED BY <2>2, <3>1, <3>3
    <3> HIDE DEF Kept
    <3> QED BY <2>3, <3>2, <3>3 DEF ClientStep, ClientConnect, ClientDisconnect
  <2>4. ASSUME NEW r \in Streams, SyncForward(r) PROVE Kept
    <3>1. owner[r] \in Peers
      BY <1>0, <2>4 DEF SyncForward, TypeInv, OwnerKnown
    <3>2. CASE r = s
      BY <1>0, <2>1, <2>4, <3>2, HoldsForward, BelowForward
    <3>3. CASE r # s
      <4>1. owner[r] # owner[s]
        BY <1>0, <2>4, <2>a, <3>3 DEF SyncForward, CurrentInv
      <4>2. UNCHANGED blocked /\ chanBuf'[s] = chanBuf[s] /\ view'[owner[s]] = view[owner[s]]
        BY <1>0, <2>1, <2>4, <3>1, <3>3, <4>1
           DEF SyncForward, ChanReceive, Deliver, TypeInv, TypeOK, ChannelsType
      <4> HIDE DEF Kept
      <4> QED BY <2>2, <4>2
    <3> QED BY <3>2, <3>3
  <2>5. ASSUME NEW r \in Streams, SyncForwardBroken(r) PROVE Kept
    <3>1. r # s
      BY <2>1, <2>5 DEF Attached, SyncForwardBroken
    <3>2. chanBuf'[s] = chanBuf[s] /\ UNCHANGED <<view, blocked>>
      BY <1>0, <2>5, <3>1 DEF SyncForwardBroken, ChanReceive, TypeInv, TypeOK, ChannelsType
    <3> HIDE DEF Kept
    <3> QED BY <2>2, <3>2
  <2>6. ASSUME NEW r \in Streams, SendInitialSync(r) PROVE Kept
    <3>1. UNCHANGED <<chanBuf, blocked>>
      BY <2>6 DEF SendInitialSync, channelVars
    <3>2. view'[owner[s]] = view[owner[s]]
      <4>1. CASE UNCHANGED view
        BY <4>1
      <4>2. CASE ~UNCHANGED view
        <5>1. ~broken[r] /\ pc[r] = "initialSync" /\ owner[r] \in Peers /\ r # s
          BY <1>0, <1>3, <2>6, <4>2 DEF SendInitialSync
        <5>2. owner[r] # owner[s]
          BY <1>0, <2>a, <5>1 DEF CurrentInv
        <5> QED BY <1>0, <2>1, <2>6, <4>2, <5>1, <5>2 DEF SendInitialSync, Deliver
      <4> QED BY <4>1, <4>2
    <3> HIDE DEF Kept
    <3> QED BY <2>2, <3>1, <3>2
  <2>7. ASSUME NEW r \in Streams, Refresh(r) PROVE Kept
    <3>1. CASE RefreshSend(r, owner[r])
      <4>1. owner[r] \in Peers
        BY <1>0, <3>1 DEF RefreshSend, TypeInv, RefresherStarted, OwnerKnown
      <4>2. TurnUpdate \in Updates /\ ~TurnUpdate.hasMap
        BY DEF TurnUpdate, Updates
      <4> QED BY <1>0, <1>1, <1>f, <2>7, <3>1, <4>1, <4>2, HoldsSend, BelowSend
              DEF Refresh, RefreshSend
    <3>2. CASE RefreshSelect(r) /\ UNCHANGED <<channelVars, missed>>
      <4>1. UNCHANGED <<chanBuf, blocked, view>>
        BY <2>7, <3>2 DEF Refresh, channelVars
      <4> HIDE DEF Kept
      <4> QED BY <2>2, <4>1
    <3> HIDE DEF Kept
    <3> QED BY <2>7, <3>1, <3>2 DEF Refresh
  <2>8. CASE Unblock
    BY <1>0, <1>1, <2>8, HoldsUnblock, BelowUnblock DEF Unblock, streamVars
  <2>9. CASE UNCHANGED vars
    <3>1. UNCHANGED <<chanBuf, blocked, view>>
      BY <2>9 DEF vars, channelVars
    <3> HIDE DEF Kept
    <3> QED BY <2>2, <3>1
  <2>10. ASSUME NEW r \in Streams, SyncStep(r), ~SendInitialSync(r), ~SyncForward(r),
                ~SyncForwardBroken(r)
         PROVE  Kept
    <3>1. UNCHANGED <<chanBuf, blocked, view>>
      BY <2>10 DEF SyncStep, SyncGetPeer, SyncCreateChannel, CreateChannel,
                SyncMarkConnected, SyncSetupRefresh,
                SyncChannelClosed, SyncDoneCloseChannel, CloseChannel,
                SyncDoneCancelRefresh, SyncDoneMarkDisconnected, channelVars
    <3> HIDE DEF Kept
    <3> QED BY <2>2, <3>1
  <2> HIDE DEF Kept
  <2> QED BY <2>3, <2>4, <2>5, <2>6, <2>7, <2>8, <2>9, <2>10
<1> QED BY <1>2, <1>3

\* What is published reaches the streams of its peer that have a channel.
LEMMA BelowPublish ==
    ASSUME BaseInv, NEW t, NEW q \in Peers, NEW m \in Updates, Publish(t, q, m),
           UNCHANGED <<view, owner>>, NEW s \in Streams, NothingNew(s), NEW n \in Nat,
           Below(s, n),
           owner[s] = q /\ pc[s] # "createChannel" /\ m.hasMap => m.serial < n
    PROVE  Below(s, n)'
<1>1. peerChannels[q] = s => owner[s] = q /\ pc[s] # "createChannel"
  BY NoneAssumption DEF BaseInv, ChannelInv, Early
<1> QED BY <1>1, BelowSend DEF Publish, BaseInv

\* The last missed serial only grows, and only by what is published in the
\* window before the channel is created.
LEMMA PublishMissed ==
    ASSUME TypeInv, NEW t, NEW q, NEW m \in Updates, Publish(t, q, m), NEW s \in Streams
    PROVE  /\ missed[s] \in Nat /\ missed'[s] \in Nat /\ missed'[s] >= missed[s]
           /\ missed'[s] \in {missed[s], m.serial}
           /\ owner[s] # q => missed'[s] = missed[s]
           /\ owner[s] = q /\ pc[s] = "createChannel" => missed'[s] >= m.serial
BY DEF Publish, TypeInv, TypeOK, StreamType, Updates

\* A current map that is published to the peer of an attached stream gets
\* there, or falls into the window and is what the stream missed last.
LEMMA PublishedTold ==
    ASSUME BaseInv, NEW s \in Streams, Attached(s), owner[s] \in Peers,
           NEW t, NEW m \in Updates, Publish(t, owner[s], m), NothingNew(s),
           UNCHANGED <<view, owner, ip, serial, hist>>, m.hasMap, Fresh(m.serial)
    PROVE  Holds(s)' \/ Fresh(missed[s])' \/ Behind(s)'
<1>1. CASE pc[s] # "createChannel"
  <2>1. peerChannels[owner[s]] = s
    BY <1>1 DEF Attached, BaseInv, OpenInv
  <2> QED BY <2>1, HoldsSent DEF Publish, BaseInv
<1>2. CASE pc[s] = "createChannel"
  <2>1. missed'[s] \in Nat /\ missed'[s] >= m.serial /\ m.serial \in Nat /\ serial \in Nat
    BY <1>2, PublishMissed DEF BaseInv, Updates, TypeInv, TypeOK, AccountType
  <2>2. CASE missed'[s] <= serial
    <3>1. FreshIn(hist, serial, Registered, missed'[s])
      BY <2>1, <2>2, FreshUp DEF Fresh
    <3>2. FreshNext(missed'[s])
      BY <3>1, FreshKept DEF Fresh
    <3> QED BY <3>2 DEF Fresh, FreshNext
  <2>3. CASE missed'[s] > serial
    <3>1. PICK n \in Nat : n = missed'[s]
      BY <2>1
    <3>2. Below(s, n)
      BY <2>1, <2>3, <3>1, BelowAll
    <3>3. Below(s, n)'
      BY <1>2, <3>2, BelowPublish
    <3> QED BY <2>1, <3>1, <3>3 DEF Behind
  <2> QED BY <2>1, <2>2, <2>3
<1> QED BY <1>1, <1>2

\* Nobody is told of a change whose write failed.
LEMMA TellUnpublished ==
    ASSUME BaseInv, NEW s \in Streams, Attached(s), owner[s] \in Peers, Unpublished,
           UNCHANGED <<chanBuf, blocked, owner, view>>, NothingNew(s)
    PROVE  Tell(s)'
<1>1. serial \in Nat /\ missed'[s] = serial + 1
  BY DEF BaseInv, TypeInv, TypeOK, AccountType, Unpublished, Attached, HasChannel
<1>2. PICK n \in Nat : n = serial + 1
  BY <1>1
<1>3. Below(s, n)'
  BY <1>1, <1>2, BelowAll, BelowKept
<1>4. Behind(s)'
  BY <1>1, <1>2, <1>3 DEF Behind
<1> QED BY <1>4 DEF Tell

\* The steps of the Login calls.
LEMMA TellLogin ==
    ASSUME BaseInv, TellInv, [Next]_vars, NEW s \in Streams, Attached(s)', NEW l \in Logins,
           LoginStep(l) \/ \E p \in Peers : LoginGetPeer(l, p)
    PROVE  Tell(s)'
<1>0. /\ TypeInv /\ serial \in Nat /\ AccountInv /\ login \in [Logins -> ThreadStates]
      /\ login[l] \in ThreadStates /\ Registered \subseteq Peers /\ Registered \in hist[serial]
      /\ AccountType /\ missed[s] \in Nat
  BY DEF BaseInv, MapInv, TypeInv, TypeOK, AccountType, ThreadType, AccountInv, Registered,
         StreamType
<1>a. UNCHANGED <<pc, owner, view, admin, broken, chanClosed>> /\ ~SendInitialSync(s)
  <2>1. UNCHANGED <<pc, owner, view, admin, broken, chanClosed>>
    BY DEF LoginStep, LoginGetPeer, AddPeer, AddPeerNoAddress, AddPeerNotSaved,
           RegisterGetNetworkMap, RegisterNotify, LoginReturn, Publish, SendUpdate,
           channelVars, streamVars
  <2>2. SendInitialSync(s) => pc'[s] # pc[s]
    BY <1>0 DEF SendInitialSync, Goto, TypeInv, TypeOK, StreamType
  <2> QED BY <2>1, <2>2
<1>b. Attached(s) /\ owner'[s] = owner[s] /\ owner[s] \in Peers /\ Tell(s)
  BY <1>0, <1>a, AttachedStep DEF TellInv
<1> DEFINE p == owner[s]
<1>c. ASSUME UNCHANGED serial, \A n \in Nat : Below(s, n) => Below(s, n)', BeingDeleted(s)
      PROVE  BeingDeleted(s)'
  BY <1>a, <1>c DEF BeingDeleted
<1>1. ASSUME UNCHANGED <<ip, serial, hist, chanBuf, blocked, missed>>,
             \A k \in Logins : k # l => login'[k] = login[k],
             login[l].pc = "networkMap" /\ login[l].peer \in Registered =>
                /\ login'[l].pc = "notify" /\ login'[l].serial = serial
                /\ login'[l].todo = Registered \ {login[l].peer},
             login'[l].pc = "notify" =>
                login[l].pc = "networkMap" /\ login[l].peer \in Registered,
             login[l].pc = "notify" => login[l].todo = {}
      PROVE  Tell(s)'
  <2>1. Registered' = Registered /\ \A n : FreshNext(n) <=> Fresh(n)
    BY <1>1, FreshKept DEF Registered
  <2>2. CASE login'[l].pc = "notify" /\ p \in login'[l].todo
    <3>1. login'[l].serial = serial /\ p \in Registered
      BY <1>1, <2>2
    <3>2. FreshNext(login'[l].serial)
      BY <1>0, <2>1, <3>1, FreshNow DEF Fresh
    <3>3. Due(p)'
      BY <1>a, <2>2, <3>2 DEF Due, Fresh, FreshNext
    <3> QED BY <1>a, <2>1, <3>1, <3>3 DEF Tell
  <2>3. CASE ~(login'[l].pc = "notify" /\ p \in login'[l].todo)
    <3>1. NothingNew(s)
      BY <1>1, <2>3 DEF NothingNew
    <3>2. /\ Holds(s) => Holds(s)'
          /\ \A n \in Nat : Below(s, n) => Below(s, n)'
      BY <1>1, <1>a, <2>1, <3>1, HoldsKept, BelowKept
    <3>3. Behind(s) => Behind(s)'
      BY <1>0, <1>1, <3>2, BehindKept
    <3>4. BeingDeleted(s) => BeingDeleted(s)'
      BY <1>1, <1>c, <3>2
    <3>5. Fresh(missed[s]) => Fresh(missed[s])'
      BY <1>1, <2>1 DEF Fresh, FreshNext
    <3>6. ASSUME Due(p), p \in Registered PROVE Due(p)'
      <4>1. CASE \E k \in Logins : login[k].pc = "networkMap" /\ login[k].peer \in Registered \ {p}
        <5>1. PICK k \in Logins : login[k].pc = "networkMap" /\ login[k].peer \in Registered \ {p}
          BY <4>1
        <5>2. k # l
          BY <1>1, <2>3, <3>6, <5>1
        <5> QED BY <1>1, <1>a, <2>1, <5>1, <5>2 DEF Due
      <4>2. CASE \E k \in Logins : /\ login[k].pc = "notify" /\ p \in login[k].todo
                                   /\ Fresh(login[k].serial)
        <5>1. PICK k \in Logins : /\ login[k].pc = "notify" /\ p \in login[k].todo
                                  /\ Fresh(login[k].serial)
          BY <4>2
        <5>2. login'[k] = login[k]
          BY <1>1, <5>1
        <5> QED BY <1>a, <2>1, <5>1, <5>2 DEF Due, Fresh, FreshNext
      <4>3. CASE \E a \in Admins : admin[a].pc # "idle" /\ p \in admin[a].todo
        BY <1>a, <4>3 DEF Due
      <4> QED BY <3>6, <4>1, <4>2, <4>3 DEF Due
    <3> QED BY <1>a, <1>b, <2>1, <3>2, <3>3, <3>4, <3>5, <3>6 DEF Tell
  <2> QED BY <2>2, <2>3
<1>2. CASE \/ \E q \in Peers : LoginGetPeer(l, q)
           \/ AddPeerNoAddress(l) \/ LoginReturn(l)
  <2>1. login'[l].pc # "notify"
    <3>1. CASE \E q \in Peers : LoginGetPeer(l, q)
      <4>1. PICK q \in Peers : LoginGetPeer(l, q)
        BY <3>1
      <4> DEFINE r == [Idle EXCEPT !.pc = "addPeer", !.peer = q]
      <4>2. r.pc = "addPeer"
        BY DEF Idle
      <4>3. login'[l] = r
        BY <1>0, <4>1 DEF LoginGetPeer
      <4> HIDE DEF r
      <4> QED BY <4>2, <4>3
    <3>2. CASE AddPeerNoAddress(l) \/ LoginReturn(l)
      BY <1>0, <3>2 DEF AddPeerNoAddress, LoginReturn, Idle
    <3> QED BY <1>2, <3>1, <3>2
  <2> QED BY <1>0, <1>1, <1>2, <2>1
          DEF LoginGetPeer, AddPeerNoAddress, LoginReturn, accountVars, channelVars, streamVars
<1>3. CASE RegisterGetNetworkMap(l)
  <2>1. login[l].peer \in Registered =>
           /\ login'[l].pc = "notify" /\ login'[l].serial = serial
           /\ login'[l].todo = Registered \ {login[l].peer}
    BY <1>0, <1>3 DEF RegisterGetNetworkMap, ThreadStates
  <2>2. login[l].peer \notin Registered => login'[l].pc # "notify"
    BY <1>0, <1>3 DEF RegisterGetNetworkMap, Idle
  <2> QED BY <1>0, <1>1, <1>3, <2>1, <2>2
          DEF RegisterGetNetworkMap, accountVars, channelVars, streamVars
<1>4. CASE RegisterNotify(l)
  <2>1. PICK q \in login[l].todo :
          /\ Publish(l, q, RegistrationUpdate(l, q))
          /\ login' = [login EXCEPT ![l] = [@ EXCEPT !.todo = login[l].todo \ {q}]]
    BY <1>4 DEF RegisterNotify
  <2>2. UNCHANGED <<ip, serial, hist>> /\ login[l].pc = "notify" /\ q \in Peers
    BY <1>0, <1>4 DEF RegisterNotify, accountVars, ThreadStates
  <2>3. Registered' = Registered /\ \A n : FreshNext(n) <=> Fresh(n)
    BY <2>2, FreshKept DEF Registered
  <2>4. /\ login'[l].pc = "notify" /\ login'[l].serial = login[l].serial
        /\ login'[l].todo = login[l].todo \ {q}
        /\ \A k \in Logins : k # l => login'[k] = login[k]
    BY <1>0, <2>1, <2>2 DEF ThreadStates
  <2> DEFINE m == RegistrationUpdate(l, q)
  <2>m. m.hasMap /\ m \in Updates /\ m.serial = login[l].serial
    <3>1. /\ login[l].peer \in Peers /\ login[l].ip \in IPs /\ login[l].serial \in Nat
          /\ login[l].peers \in SUBSET [key : Peers, ip : IPs]
      BY <1>0, <2>2 DEF ThreadStates, TypeInv, LoginKnown
    <3> DEFINE ps == {[key |-> login[l].peer, ip |-> login[l].ip]}
                         \cup {r \in login[l].peers : r.key # q}
    <3>2. ps \in SUBSET [key : Peers, ip : IPs]
      BY <3>1
    <3>3. RegistrationUpdate(l, q) = NetworkMapMsg(ps, "static", login[l].serial)
      BY DEF RegistrationUpdate
    <3> HIDE DEF ps
    <3> QED BY <3>1, <3>2, <3>3, MapMsgType DEF NetworkMapMsg
  <2>p. Publish(l, q, m)
    BY <2>1
  <2> HIDE DEF m
  <2>n. NothingNew(s)
    BY <2>2, <2>4 DEF NothingNew
  <2>5. Holds(s) => Holds(s)'
    BY <1>0, <1>a, <2>2, <2>m, <2>p, HoldsSend DEF Publish
  <2>6. ASSUME NEW n \in Nat, Below(s, n) PROVE Below(s, n)'
    <3>1. owner[s] = q => m.serial < n
      BY <2>2, <2>6, <2>m DEF Below
    <3> QED BY <1>a, <2>2, <2>6, <2>m, <2>n, <2>p, <3>1, BelowPublish
  <2>7. /\ missed'[s] \in Nat /\ missed'[s] >= missed[s]
        /\ missed'[s] \in {missed[s], m.serial}
    BY <1>0, <2>2, <2>m, <2>p, PublishMissed
  <2>8. Behind(s) => Behind(s)'
    BY <1>0, <2>6, <2>7, BehindKept
  <2>9. ASSUME Fresh(missed[s]) PROVE Fresh(missed[s])'
    <3>1. m.serial \in 0..serial
      BY <1>0, <2>2, <2>m DEF AccountInv, LoginCoherentIn
    <3>2. missed'[s] <= serial
      BY <1>0, <2>7, <2>9, <3>1 DEF Fresh, FreshIn
    <3>3. FreshNext(missed'[s])
      BY <1>0, <2>3, <2>7, <2>9, <3>2, FreshUp DEF Fresh
    <3> QED BY <3>3 DEF Fresh, FreshNext
  <2>10. BeingDeleted(s) => BeingDeleted(s)'
    BY <1>c, <2>2, <2>6
  <2>11. ASSUME Due(p) PROVE Due(p)' \/ Holds(s)' \/ Fresh(missed[s])' \/ Behind(s)'
    <3>1. CASE q = p /\ Fresh(login[l].serial)
      BY <1>a, <1>b, <2>2, <2>m, <2>n, <2>p, <3>1, PublishedTold
    <3>2. CASE q = p /\ ~Fresh(login[l].serial)
      BY <1>a, <2>2, <2>3, <2>4, <2>11, <3>2 DEF Due, Fresh, FreshNext
    <3>3. CASE q # p
      BY <1>a, <2>2, <2>3, <2>4, <2>11, <3>3 DEF Due, Fresh, FreshNext
    <3> QED BY <3>1, <3>2, <3>3
  <2> QED BY <1>a, <1>b, <2>3, <2>5, <2>8, <2>9, <2>10, <2>11 DEF Tell
<1>5. CASE AddPeer(l)
  <2> DEFINE q == login[l].peer
  <2>0. q \in Peers /\ login[l].pc = "addPeer"
    BY <1>5 DEF AddPeer, BaseInv, TypeInv, LoginKnown
  <2>1. PICK a \in IPs :
          /\ ip' = [ip EXCEPT ![q] = a]
          /\ IncSerial(Registered \cup {q})
          /\ login' = [login EXCEPT ![l] = [@ EXCEPT !.pc = "networkMap", !.ip = a]]
    BY <1>5 DEF AddPeer
  <2>2. amMuxFree /\ UNCHANGED <<chanBuf, blocked, missed>>
    BY <1>5 DEF AddPeer, channelVars, streamVars
  <2>3. Registered' = Registered \cup {q}
    BY <1>0, <2>0, <2>1, SyncConstantsAssumption DEF Registered, AccountType
  <2>4. Behind(s) \/ (p \in Registered /\ (Holds(s) \/ Due(p) \/ Fresh(missed[s])))
    BY <1>b, <2>2 DEF Tell, BeingDeleted, amMuxFree
  <2>5. /\ login'[l].pc = "networkMap" /\ login'[l].peer = q
        /\ \A k \in Logins : k # l => login'[k] = login[k]
    BY <1>0, <2>1 DEF ThreadStates
  <2>n. NothingNew(s)
    BY <2>5 DEF NothingNew
  <2>6. CASE Behind(s)
    <3>1. \A n \in Nat : Below(s, n) => Below(s, n)'
      BY <1>a, <2>2, <2>n, BelowKept
    <3>2. Behind(s)'
      BY <1>0, <2>2, <2>6, <3>1, BehindKept
    <3> QED BY <3>2 DEF Tell
  <2>7. CASE ~Behind(s) /\ q # p
    <3>1. Due(p)'
      BY <1>a, <2>3, <2>5, <2>7 DEF Due
    <3> QED BY <1>a, <2>3, <2>4, <2>7, <3>1 DEF Tell
  <2>8. CASE ~Behind(s) /\ q = p
    <3>1. Registered' = Registered
      BY <2>3, <2>4, <2>8
    <3>2. /\ serial' = serial + 1 /\ Registered \in hist'[serial + 1]
          /\ \A k \in 0..serial : hist'[k] = hist[k]
      <4>1. IncSerial(Registered)
        <5>1. Registered \cup {q} = Registered
          BY <2>4, <2>8
        <5> QED BY <2>1, <5>1
      <4>2. hist'[serial'] = {Registered}
        BY <1>0, <4>1, IncSerialExtends
      <4> QED BY <1>0, <4>1, <4>2, IncSerialExtends
    <3>3. \A n : Fresh(n) => FreshNext(n)
      BY <1>0, <3>1, <3>2, FreshSame DEF Fresh, FreshNext
    <3>4. Holds(s) => Holds(s)'
      BY <1>a, <2>2, <3>3, HoldsKept
    <3>5. Due(p) => Due(p)'
      BY <1>a, <2>0, <2>5, <3>1, <3>3, DueKept
    <3>6. Fresh(missed[s]) => Fresh(missed[s])'
      BY <2>2, <3>3 DEF Fresh, FreshNext
    <3> QED BY <1>a, <2>4, <2>8, <3>1, <3>4, <3>5, <3>6 DEF Tell
  <2> QED BY <2>6, <2>7, <2>8
<1>6. CASE AddPeerNotSaved(l)
  <2>1. /\ Unpublished /\ UNCHANGED <<chanBuf, blocked>>
        /\ login' = [login EXCEPT ![l] = Idle]
    BY <1>6 DEF AddPeerNotSaved, channelVars
  <2>2. NothingNew(s)
    BY <1>0, <2>1 DEF NothingNew, Idle
  <2> QED BY <1>a, <1>b, <2>1, <2>2, TellUnpublished
<1> QED BY <1>2, <1>3, <1>4, <1>5, <1>6 DEF LoginStep


\* The steps of the DeletePeer calls.
LEMMA TellAdmin ==
    ASSUME BaseInv, TellInv, [Next]_vars, NEW s \in Streams, Attached(s)', NEW a \in Admins,
           AdminStep(a) \/ \E p \in Peers : DeletePeer(a, p)
    PROVE  Tell(s)'
<1>0. /\ TypeInv /\ serial \in Nat /\ AccountInv /\ admin \in [Admins -> ThreadStates]
      /\ admin[a] \in ThreadStates /\ Registered \subseteq Peers /\ AccountType
      /\ \A b, c \in Admins : admin[b].pc # "idle" /\ admin[c].pc # "idle" => b = c
      /\ missed[s] \in Nat /\ Registered \in hist[serial]
  BY DEF BaseInv, MapInv, TypeInv, TypeOK, AccountType, ThreadType, AccountInv, Registered,
         StreamType
<1>a. UNCHANGED <<pc, owner, view, login, broken>> /\ ~SendInitialSync(s)
  <2>1. UNCHANGED <<pc, owner, view, login, broken>>
    BY DEF AdminStep, DeletePeer, DeleteNotifyDeleted, DeleteNotifyOthers,
           DeleteCloseChannel, streamVars
  <2>2. SendInitialSync(s) => pc'[s] # pc[s]
    BY <1>0 DEF SendInitialSync, Goto, TypeInv, TypeOK, StreamType
  <2> QED BY <2>1, <2>2
<1>b. Attached(s) /\ owner'[s] = owner[s] /\ owner[s] \in Peers /\ Tell(s)
  BY <1>0, <1>a, AttachedStep DEF TellInv
<1>n. NothingNew(s)
  BY <1>a DEF NothingNew
<1> DEFINE p == owner[s]
<1>1. ASSUME NEW q \in Peers, DeletePeer(a, q) PROVE Tell(s)'
  <2> DEFINE r == [Idle EXCEPT !.pc = "notifyDeleted", !.peer = q, !.todo = Registered \ {q}]
  <2>1. r.pc = "notifyDeleted" /\ r.peer = q /\ r.todo = Registered \ {q}
    BY DEF Idle
  <2>2. /\ amMuxFree /\ admin'[a] = r /\ ip' = [ip EXCEPT ![q] = None]
        /\ UNCHANGED <<chanBuf, blocked, missed>> /\ serial' = serial + 1
    BY <1>0, <1>1 DEF DeletePeer, IncSerial, channelVars, streamVars
  <2> HIDE DEF r
  <2>3. Registered' = Registered \ {q}
    BY <1>0, <2>2 DEF Registered, AccountType
  <2>b. \A n \in Nat : Below(s, n) => Below(s, n)'
    BY <1>a, <1>n, <2>2, BelowKept
  <2>4. CASE Behind(s)
    <3>1. Behind(s)'
      BY <1>0, <2>2, <2>4, <2>b, BehindKept
    <3> QED BY <3>1 DEF Tell
  <2>5. CASE q = p
    <3>1. PICK n \in Nat : n = serial + 1
      BY <1>0
    <3>2. Below(s, n)' /\ n <= serial'
      BY <1>0, <1>b, <2>2, <2>b, <3>1, BelowAll
    <3>3. BeingDeleted(s)'
      BY <1>a, <2>1, <2>2, <2>5, <3>2 DEF BeingDeleted
    <3> QED BY <1>a, <2>3, <2>5, <3>3 DEF Tell
  <2>6. CASE q # p /\ ~Behind(s)
    <3>1. p \in Registered
      BY <1>b, <2>2, <2>6 DEF Tell, BeingDeleted, amMuxFree
    <3>2. Due(p)'
      BY <1>a, <2>1, <2>2, <2>6, <3>1 DEF Due
    <3> QED BY <1>a, <2>3, <2>6, <3>1, <3>2 DEF Tell
  <2> QED BY <2>4, <2>5, <2>6
<1>2. CASE DeleteNotifyDeleted(a)
  <2> DEFINE d == admin[a].peer
             m == NetworkMapMsg({}, "none", serial)
  <2>1. /\ Publish(a, d, m)
        /\ UNCHANGED <<ip, serial, hist>> /\ admin[a].pc = "notifyDeleted"
        /\ d \in Peers
        /\ admin'[a].pc = "notifyOthers" /\ admin'[a].peer = d
        /\ admin'[a].todo = admin[a].todo
        /\ \A b \in Admins : b # a => admin'[b] = admin[b]
    BY <1>0, <1>2 DEF DeleteNotifyDeleted, accountVars, ThreadStates, TypeInv, AdminKnown
  <2>2. Registered' = Registered /\ \A n : FreshNext(n) <=> Fresh(n)
    BY <2>1, FreshKept DEF Registered
  <2>3. m \in Updates /\ m.serial = serial
    BY <1>0, MapMsgType DEF NetworkMapMsg
  <2> HIDE DEF m
  <2>4. /\ missed'[s] \in Nat /\ missed'[s] >= missed[s]
        /\ p # d => missed'[s] = missed[s]
        /\ p = d /\ pc[s] = "createChannel" => missed'[s] >= serial
    BY <1>0, <2>1, <2>3, PublishMissed
  <2>5. ASSUME p # d \/ pc[s] = "createChannel", NEW n \in Nat, Below(s, n)
        PROVE  Below(s, n)'
    BY <1>a, <1>n, <2>1, <2>3, <2>5, BelowPublish
  <2>6. CASE p # d
    <3>1. Behind(s) => Behind(s)'
      BY <1>0, <2>4, <2>5, <2>6, BehindKept
    <3>2. Holds(s) => Holds(s)'
      BY <1>0, <1>a, <2>1, <2>3, HoldsSend DEF Publish
    <3>3. Due(p) => Due(p)'
      BY <1>a, <2>1, <2>2 DEF Due, Fresh, FreshNext
    <3>4. Fresh(missed[s]) => Fresh(missed[s])'
      BY <2>2, <2>4, <2>6 DEF Fresh, FreshNext
    <3>5. ~BeingDeleted(s)
      BY <1>0, <2>1, <2>6 DEF BeingDeleted
    <3> QED BY <1>a, <1>b, <2>2, <3>1, <3>2, <3>3, <3>4, <3>5 DEF Tell
  <2>7. CASE p = d /\ pc[s] # "createChannel"
    <3>1. BeingDeleted(s)'
      BY <1>a, <2>1, <2>7 DEF BeingDeleted
    <3>2. p \notin Registered
      BY <1>0, <2>1, <2>7 DEF AccountInv
    <3> QED BY <1>a, <2>2, <3>1, <3>2 DEF Tell
  <2>8. CASE p = d /\ pc[s] = "createChannel"
    <3>1. p \notin Registered
      BY <1>0, <2>1, <2>8 DEF AccountInv
    <3>2. CASE Behind(s)
      <4>1. Behind(s)'
        BY <1>0, <2>4, <2>5, <2>8, <3>2, BehindKept
      <4> QED BY <4>1 DEF Tell
    <3>3. CASE BeingDeleted(s)
      <4>1. PICK n \in Nat : Below(s, n) /\ n <= serial
        BY <1>0, <2>1, <2>8, <3>3 DEF BeingDeleted
      <4>2. Below(s, n)' /\ n <= missed'[s]
        BY <1>0, <2>4, <2>5, <2>8, <4>1
      <4>3. Behind(s)'
        BY <4>2 DEF Behind
      <4> QED BY <4>3 DEF Tell
    <3> QED BY <1>b, <3>1, <3>2, <3>3 DEF Tell
  <2> QED BY <2>6, <2>7, <2>8
<1>3. CASE DeleteNotifyOthers(a)
  <2>1. PICK q \in admin[a].todo :
          /\ Publish(a, q, NetworkMapMsg(PeersFor(q), "none", serial))
          /\ admin' = [admin EXCEPT ![a].todo = @ \ {q}]
    BY <1>3 DEF DeleteNotifyOthers
  <2>2. /\ UNCHANGED <<ip, serial, hist>> /\ admin[a].pc = "notifyOthers" /\ q \in Peers
        /\ admin'[a].pc = "notifyOthers" /\ admin'[a].peer = admin[a].peer
        /\ admin'[a].todo = admin[a].todo \ {q}
        /\ \A b \in Admins : b # a => admin'[b] = admin[b]
    BY <1>0, <1>3, <2>1 DEF DeleteNotifyOthers, accountVars, ThreadStates
  <2>3. Registered' = Registered /\ \A n : FreshNext(n) <=> Fresh(n)
    BY <2>2, FreshKept DEF Registered
  <2> DEFINE m == NetworkMapMsg(PeersFor(q), "none", serial)
  <2>4. m \in Updates /\ m.hasMap /\ m.serial = serial
    <3>1. m \in Updates
      BY <1>0, PeersForType, MapMsgType
    <3> QED BY <3>1 DEF NetworkMapMsg
  <2>p. Publish(a, q, m)
    BY <2>1
  <2> HIDE DEF m
  <2>5. CASE q = p
    <3>1. Fresh(m.serial)
      BY <1>0, <2>4, FreshNow DEF Fresh
    <3>2. Holds(s)' \/ Fresh(missed[s])' \/ Behind(s)'
      BY <1>a, <1>b, <1>n, <2>2, <2>4, <2>5, <2>p, <3>1, PublishedTold
    <3>3. p \in Registered
      BY <1>0, <2>2, <2>5 DEF AccountInv
    <3> QED BY <1>a, <2>3, <3>2, <3>3 DEF Tell
  <2>6. CASE q # p
    <3>0. missed'[s] = missed[s]
      BY <1>0, <2>2, <2>4, <2>6, <2>p, PublishMissed
    <3>1. ASSUME NEW n \in Nat, Below(s, n) PROVE Below(s, n)'
      BY <1>a, <1>n, <2>2, <2>4, <2>6, <2>p, <3>1, BelowPublish
    <3>2. Behind(s) => Behind(s)'
      BY <1>0, <3>0, <3>1, BehindKept
    <3>3. Holds(s) => Holds(s)'
      BY <1>0, <1>a, <2>2, <2>4, <2>p, HoldsSend DEF Publish
    <3>4. Due(p) => Due(p)'
      BY <1>a, <2>2, <2>3, <2>6 DEF Due, Fresh, FreshNext
    <3>5. Fresh(missed[s]) => Fresh(missed[s])'
      BY <2>3, <3>0 DEF Fresh, FreshNext
    <3>6. BeingDeleted(s) => BeingDeleted(s)'
      BY <1>0, <1>a, <2>2, <3>1 DEF BeingDeleted
    <3> QED BY <1>a, <1>b, <2>3, <3>2, <3>3, <3>4, <3>5, <3>6 DEF Tell
  <2> QED BY <2>5, <2>6
<1>4. CASE DeleteCloseChannel(a)
  <2>1. /\ UNCHANGED <<ip, serial, hist, chanBuf, blocked, missed>>
        /\ admin[a].pc = "notifyOthers" /\ admin[a].todo = {}
        /\ chanClosed'[s] <=> chanClosed[s] \/ peerChannels[admin[a].peer] = s
        /\ \A b \in Admins : b # a => admin'[b] = admin[b]
    BY <1>0, <1>4 DEF DeleteCloseChannel, CloseChannel, CloseRegistered, accountVars, streamVars
  <2>2. Registered' = Registered /\ \A n : FreshNext(n) <=> Fresh(n)
    BY <2>1, FreshKept DEF Registered
  <2>3. Holds(s) => Holds(s)'
    BY <1>a, <2>1, <2>2, HoldsKept
  <2>4. Due(p) => Due(p)'
    BY <1>a, <2>1, <2>2 DEF Due, Fresh, FreshNext
  <2>5. ~BeingDeleted(s)
    <3> SUFFICES ASSUME BeingDeleted(s) PROVE FALSE
      OBVIOUS
    <3>1. admin[a].peer = p /\ pc[s] # "createChannel"
      BY <1>0, <2>1 DEF BeingDeleted
    <3>2. peerChannels[p] = s
      BY <1>b, <3>1 DEF Attached, BaseInv, OpenInv
    <3> QED BY <2>1, <3>1, <3>2 DEF Attached
  <2>6. \A n \in Nat : Below(s, n) => Below(s, n)'
    BY <1>a, <1>n, <2>1, BelowKept
  <2>7. Behind(s) => Behind(s)'
    BY <1>0, <2>1, <2>6, BehindKept
  <2>8. Fresh(missed[s]) => Fresh(missed[s])'
    BY <2>1, <2>2 DEF Fresh, FreshNext
  <2> QED BY <1>a, <1>b, <2>2, <2>3, <2>4, <2>5, <2>7, <2>8 DEF Tell
<1> QED BY <1>1, <1>2, <1>3, <1>4 DEF AdminStep

\* A deletion whose write fails.
LEMMA TellNotDeleted ==
    ASSUME BaseInv, TellInv, [Next]_vars, NEW s \in Streams, Attached(s)', NEW q \in Peers,
           DeletePeerNotSaved(q)
    PROVE  Tell(s)'
<1>1. /\ Unpublished
      /\ UNCHANGED <<chanBuf, blocked, pc, owner, broken, view, login>>
  BY DEF DeletePeerNotSaved, channelVars, threadVars
<1>2. ~SendInitialSync(s)
  BY <1>1 DEF SendInitialSync, Goto, BaseInv, TypeInv, TypeOK, StreamType
<1>3. Attached(s) /\ owner[s] \in Peers
  BY <1>2, AttachedStep DEF BaseInv
<1>4. NothingNew(s)
  BY <1>1 DEF NothingNew
<1> QED BY <1>1, <1>3, <1>4, TellUnpublished

LEMMA TellStep == BaseInv /\ TellInv /\ [Next]_vars => TellInv'
<1> SUFFICES ASSUME BaseInv, TellInv, [Next]_vars, NEW s \in Streams, Attached(s)'
             PROVE  Tell(s)'
  BY DEF TellInv
<1>1. ViewMatchesSerial'
  BY MapStep DEF BaseInv, MapInv
<1> QED BY <1>1, TellStreams, TellLogin, TellAdmin, TellNotDeleted DEF Next

\* Once everything has settled, only what the client has is left.
LEMMA TellConverged == BaseInv /\ TellInv => ConvergedUnlessMissed
<1> SUFFICES ASSUME BaseInv, TellInv, Quiescent, NEW s \in Streams, Healthy(s),
                    owner[s] \in Registered, Recovered(s)
             PROVE  Converged(s)
  BY DEF ConvergedUnlessMissed
<1> DEFINE p == owner[s]
           v == view[p].serial
<1>0. /\ serial \in Nat /\ missed[s] \in Nat /\ v \in 0..serial /\ missed[s] <= v
      /\ \A k1, k2 \in hist[v] : k1 = k2
      /\ \E keys \in hist[v] : Keys(view[p].peers) = Visible(keys, p)
  BY DEF BaseInv, MapInv, ViewMatchesSerial, Registered, TypeInv, TypeOK, AccountType,
         StreamType, Recovered
<1>1. Behind(s) \/ Holds(s) \/ Due(p) \/ Fresh(missed[s])
  BY DEF Healthy, Attached, HasChannel, TellInv, Tell
<1>2. ~Due(p)
  BY DEF Quiescent, Due, amMuxFree
<1>3. chanBuf[s] = <<>> /\ blocked = {}
  BY DEF Quiescent, Healthy
<1>4. ~Behind(s)
  BY <1>0 DEF Behind, Below
<1>5. Fresh(v)
  <2>1. CASE Fresh(missed[s])
    BY <1>0, <2>1, FreshUp DEF Fresh
  <2>2. CASE Holds(s)
    BY <1>3, <2>2 DEF Holds
  <2> QED BY <1>1, <1>2, <1>4, <2>1, <2>2
<1>6. Registered \in hist[v]
  BY <1>0, <1>5 DEF Fresh, FreshIn
<1> QED BY <1>0, <1>6 DEF Converged, Visible

(***************************************************************************)
(* When all that was published is consumed and no change is under way, a   *)
(* client with a healthy stream has exactly the registered peers, if its   *)
(* serial is later than the last change that its stream missed: one that   *)
(* fell between its initial sync and the creation of its channel           *)
(* (grpcserver.go:102-107), or one that was not published because a write  *)
(* failed (peer.go:137-146, 377-380).  No other interleaving of            *)
(* registrations, deletions, reconnections and full channels loses an      *)
(* update, and the next one the client is told of makes up for both.       *)
(***************************************************************************)
THEOREM HealthyClientsConverge == Spec => []ConvergedUnlessMissed
<1>1. Init => CurrentInv /\ OpenInv /\ TellInv
  BY DEF Init, CurrentInv, OpenInv, TellInv, Attached, HasChannel
<1>2. BaseInv /\ [Next]_vars => BaseInv'
  BY TypeStep, ChannelStep, MapStep, CurrentStep, OpenStep DEF BaseInv
<1>3. Init => BaseInv
  BY <1>1, TypeInit, ChannelInit, MapInit DEF BaseInv
<1> QED BY <1>1, <1>2, <1>3, TellStep, TellConverged, PTL DEF Spec
=============================================================================
