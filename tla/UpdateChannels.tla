--------------------------- MODULE UpdateChannels ---------------------------
(***************************************************************************)
(* The management service's PeersUpdateManager                             *)
(* (management/server/updatechannel.go): one buffered Go channel per       *)
(* connected peer, all of them guarded by a single mutex, channelsMux.     *)
(*                                                                         *)
(* A channel is named after the Sync call that created it, so that a       *)
(* channel that was replaced or closed stays distinct from its successor.  *)
(* A SendUpdate that meets a full buffer blocks inside the critical        *)
(* section: it is the one element of "blocked" and, for as long as it is   *)
(* there, nobody else gets channelsMux.                                    *)
(***************************************************************************)
EXTENDS Naturals, Sequences

CONSTANTS
    Peers,      \* WireGuard public keys
    Streams,    \* the Sync calls, and the channels they create
    ChanCap,    \* the channels' capacity (100 in the code)
    None        \* the nil of maps and pointers

ASSUME ChanCapAssumption == ChanCap \in Nat \ {0}
ASSUME NoneAssumption == None \notin Streams

VARIABLES
    peerChannels,   \* peer -> its registered channel, or None
    chanBuf,        \* channel -> the updates it holds
    chanClosed,     \* channel -> has close() been called on it
    blocked         \* the SendUpdate that waits for room, holding channelsMux

channelVars == <<peerChannels, chanBuf, chanClosed, blocked>>

ChannelsInit ==
    /\ peerChannels = [p \in Peers |-> None]
    /\ chanBuf = [c \in Streams |-> <<>>]
    /\ chanClosed = [c \in Streams |-> FALSE]
    /\ blocked = {}

channelsMuxFree == blocked = {}

Blocked(t) == \E b \in blocked : b.by = t

HasRoom(c) == Len(chanBuf[c]) < ChanCap

(***************************************************************************)
(* SendUpdate called by thread t: dropped without an error when the peer   *)
(* has no channel, buffered when there is room, blocked otherwise.         *)
(***************************************************************************)
SendUpdate(t, p, m) ==
    /\ channelsMuxFree
    /\ LET c == peerChannels[p] IN
       \/ /\ c = None
          /\ UNCHANGED <<chanBuf, blocked>>
       \/ /\ c # None
          /\ HasRoom(c)
          /\ chanBuf' = [chanBuf EXCEPT ![c] = Append(@, m)]
          /\ UNCHANGED blocked
       \/ /\ c # None
          /\ ~HasRoom(c)
          /\ blocked' = {[by |-> t, chan |-> c, msg |-> m]}
          /\ UNCHANGED chanBuf
    /\ UNCHANGED <<peerChannels, chanClosed>>

\* Mutant: the send does not wait for room.
UnblockSendNoRoom ==
    \E b \in blocked :
        /\ chanBuf' = [chanBuf EXCEPT ![b.chan] = Append(@, b.msg)]
        /\ blocked' = {}
        /\ UNCHANGED <<peerChannels, chanClosed>>

\* The blocked channel send goes through and channelsMux is released.
UnblockSend ==
    \E b \in blocked :
        /\ HasRoom(b.chan)
        /\ chanBuf' = [chanBuf EXCEPT ![b.chan] = Append(@, b.msg)]
        /\ blocked' = {}
        /\ UNCHANGED <<peerChannels, chanClosed>>

\* close() of the channel registered for p, if there is one.
CloseRegistered(p) ==
    chanClosed' = [c \in Streams |-> chanClosed[c] \/ peerChannels[p] = c]

CreateChannel(s, p) ==
    /\ channelsMuxFree
    /\ CloseRegistered(p)
    /\ peerChannels' = [peerChannels EXCEPT ![p] = s]
    /\ UNCHANGED <<chanBuf, blocked>>

\* Mutant: the channel is closed without taking channelsMux.
CloseChannelNoMux(p) ==
    /\ CloseRegistered(p)
    /\ peerChannels' = [peerChannels EXCEPT ![p] = None]
    /\ UNCHANGED <<chanBuf, blocked>>

CloseChannel(p) ==
    /\ channelsMuxFree
    /\ CloseRegistered(p)
    /\ peerChannels' = [peerChannels EXCEPT ![p] = None]
    /\ UNCHANGED <<chanBuf, blocked>>

\* A receive from channel c; Go drains a closed channel before reporting it.
ChanReceive(c) ==
    /\ chanBuf[c] # <<>>
    /\ chanBuf' = [chanBuf EXCEPT ![c] = Tail(@)]
    /\ UNCHANGED <<peerChannels, chanClosed, blocked>>

(***************************************************************************)
(* Sending on a closed Go channel panics and takes the whole server down.  *)
(* Neither a registered channel nor the channel a blocked SendUpdate waits *)
(* for (updatechannel.go:30) is ever closed, although streams replace and  *)
(* delete channels while senders wait.                                     *)
(***************************************************************************)
NoSendOnClosedChannel ==
    /\ \A p \in Peers : peerChannels[p] # None => ~chanClosed[peerChannels[p]]
    /\ \A b \in blocked : ~chanClosed[b.chan]
=============================================================================
