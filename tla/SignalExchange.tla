--------------------------- MODULE SignalExchange ---------------------------
(***************************************************************************)
(* The signal service and its clients' streams: the registry of connected  *)
(* peers (signal/peer/peer.go), the ConnectStream and Send handlers        *)
(* (signal/server/signal.go), and the client's Receive loop with           *)
(* WaitStreamConnected (signal/client/grpc.go).                            *)
(*                                                                         *)
(* A client whose stream breaks opens another one at once; the handler of  *)
(* the old stream may notice much later, and handlers are goroutines that  *)
(* may even register in another order than their streams were opened.      *)
(***************************************************************************)
EXTENDS Naturals, FiniteSets

CONSTANTS
    Peers,      \* the clients, by their public key
    Streams,    \* ConnectStream calls
    Sends,      \* Send calls
    MaxBreaks,  \* bound on the streams the network breaks
    None

ASSUME SignalAssumption == None \notin Streams /\ MaxBreaks \in Nat

VARIABLES
    registry,   \* Registry.Peers: peer -> the stream registered for it
    handler,    \* stream -> where its ConnectStream handler is
    owner,      \* stream -> the peer in its id header
    broken,     \* stream -> the transport is gone
    breaks,     \* number of broken streams
    overlap,    \* history: a handler of the same peer ran when it was opened
    current,    \* client -> c.stream
    receive,    \* client -> where its Receive loop is
    status,     \* client -> c.status
    connectedCh,\* client -> is c.connectedCh there
    waiter,     \* client -> where its WaitStreamConnected call is
    late,       \* history: the connection was announced after that call had
                \* looked at the status and before it got its channel
    send        \* Send call -> its progress

serverVars == <<registry, handler, owner, broken, breaks, overlap>>
clientVars == <<current, receive, status, connectedCh, waiter, late>>
vars == <<serverVars, clientVars, send>>

NewSend == [pc |-> "new", from |-> None, to |-> None, stream |-> None, seen |-> None]

Init ==
    /\ registry = [p \in Peers |-> None]
    /\ handler = [s \in Streams |-> "unused"]
    /\ owner = [s \in Streams |-> None]
    /\ broken = [s \in Streams |-> FALSE]
    /\ breaks = 0
    /\ overlap = [s \in Streams |-> FALSE]
    /\ current = [p \in Peers |-> None]
    /\ receive = [p \in Peers |-> "operation"]
    /\ status = [p \in Peers |-> "disconnected"]
    /\ connectedCh = [p \in Peers |-> FALSE]
    /\ waiter = [p \in Peers |-> "idle"]
    /\ late = [p \in Peers |-> FALSE]
    /\ send = [m \in Sends |-> NewSend]

Running(s) == handler[s] \notin {"unused", "done"}

-----------------------------------------------------------------------------
(* The network *)

Break(s) ==
    /\ Running(s)
    /\ ~broken[s]
    /\ breaks < MaxBreaks
    /\ breaks' = breaks + 1
    /\ broken' = [broken EXCEPT ![s] = TRUE]
    /\ UNCHANGED <<registry, handler, owner, overlap, clientVars, send>>

-----------------------------------------------------------------------------
(* The ConnectStream handler of stream s *)

\* Mutant: the peer is not stored in the registry.
ConnectPeerNoRegister(s) ==
    /\ handler[s] = "connectPeer"
    /\ handler' = [handler EXCEPT ![s] = "sendHeader"]
    /\ UNCHANGED <<registry, owner, broken, breaks, overlap, clientVars, send>>

\* connectPeer registers the stream, over one that may be there.
ConnectPeer(s) ==
    /\ handler[s] = "connectPeer"
    /\ registry' = [registry EXCEPT ![owner[s]] = s]
    /\ handler' = [handler EXCEPT ![s] = "sendHeader"]
    /\ UNCHANGED <<owner, broken, breaks, overlap, clientVars, send>>

\* Mutant: the deferred Deregister is not there yet when SendHeader fails.
SendHeaderNoDefer(s) ==
    /\ handler[s] = "sendHeader"
    /\ handler' = [handler EXCEPT ![s] = IF broken[s] THEN "done" ELSE "recv"]
    /\ UNCHANGED <<registry, owner, broken, breaks, overlap, clientVars, send>>

SendHeader(s) ==
    /\ handler[s] = "sendHeader"
    /\ handler' = [handler EXCEPT ![s] = IF broken[s] THEN "deregister" ELSE "recv"]
    /\ UNCHANGED <<registry, owner, broken, breaks, overlap, clientVars, send>>

\* Recv fails once the stream is broken; clients never half-close.
RecvError(s) ==
    /\ handler[s] = "recv"
    /\ broken[s]
    /\ handler' = [handler EXCEPT ![s] = "deregister"]
    /\ UNCHANGED <<registry, owner, broken, breaks, overlap, clientVars, send>>

\* Deregister deletes what is registered under the peer's id.
Deregister(s) ==
    /\ handler[s] = "deregister"
    /\ registry' = [registry EXCEPT ![owner[s]] = None]
    /\ handler' = [handler EXCEPT ![s] = "done"]
    /\ UNCHANGED <<owner, broken, breaks, overlap, clientVars, send>>

-----------------------------------------------------------------------------
(* The Send handler *)

\* The client of q has a stream that was confirmed and works.
Established(q) ==
    /\ receive[q] = "receive"
    /\ handler[current[q]] = "recv"
    /\ ~broken[current[q]]

\* IsPeerRegistered(msg.Key).
SendCheck(m, p, q) ==
    /\ send[m].pc = "new"
    /\ send' = [send EXCEPT ![m] =
                   [NewSend EXCEPT !.pc = IF registry[p] # None THEN "get" ELSE "refused",
                                   !.from = p, !.to = q]]
    /\ UNCHANGED <<serverVars, clientVars>>

\* Mutant: the peer that is looked up is the one the message comes from.
SendGetBack(m) ==
    LET q == send[m].to
        s == registry[send[m].from]
    IN  /\ send[m].pc = "get"
        /\ send' = [send EXCEPT
               ![m].pc = IF s # None THEN "send" ELSE "dropped",
               ![m].stream = s,
               ![m].seen = IF Established(q) /\ ~overlap[current[q]] THEN current[q]
                           ELSE None]
        /\ UNCHANGED <<serverVars, clientVars>>

\* registry.Get(msg.RemoteKey); a message to an unknown peer is dropped and
\* its sender not told.  The history field is the addressee's stream, if it
\* has an established one that was opened when no other one of it was there.
SendGet(m) ==
    LET q == send[m].to
        s == registry[q]
    IN  /\ send[m].pc = "get"
        /\ send' = [send EXCEPT
               ![m].pc = IF s # None THEN "send" ELSE "dropped",
               ![m].stream = s,
               ![m].seen = IF Established(q) /\ ~overlap[current[q]] THEN current[q]
                           ELSE None]
        /\ UNCHANGED <<serverVars, clientVars>>

\* Stream.Send on the stream that was found, whatever has become of it and of
\* its registration; an error is only logged.
SendForward(m) ==
    /\ send[m].pc = "send"
    /\ send' = [send EXCEPT ![m].pc = IF ~broken[send[m].stream] THEN "delivered"
                                      ELSE "dropped"]
    /\ UNCHANGED <<serverVars, clientVars>>

-----------------------------------------------------------------------------
(* The client's Receive loop *)

\* Mutant: a client that is still marked as connected does not connect again.
ConnectUnlessConnected(p, s) ==
    /\ receive[p] = "operation"
    /\ status[p] = "disconnected"
    /\ handler[s] = "unused"
    /\ receive' = [receive EXCEPT ![p] = "header"]
    /\ current' = [current EXCEPT ![p] = s]
    /\ handler' = [handler EXCEPT ![s] = "connectPeer"]
    /\ owner' = [owner EXCEPT ![s] = p]
    /\ overlap' = [overlap EXCEPT
                      ![s] = \E t \in Streams : owner[t] = p /\ Running(t)]
    /\ UNCHANGED <<registry, broken, breaks, status, connectedCh, waiter, late, send>>

\* The operation: notifyStreamDisconnected, then connect opens a stream.
Connect(p, s) ==
    /\ receive[p] = "operation"
    /\ handler[s] = "unused"
    /\ status' = [status EXCEPT ![p] = "disconnected"]
    /\ receive' = [receive EXCEPT ![p] = "header"]
    /\ current' = [current EXCEPT ![p] = s]
    /\ handler' = [handler EXCEPT ![s] = "connectPeer"]
    /\ owner' = [owner EXCEPT ![s] = p]
    /\ overlap' = [overlap EXCEPT
                      ![s] = \E t \in Streams : owner[t] = p /\ Running(t)]
    /\ UNCHANGED <<registry, broken, breaks, connectedCh, waiter, late, send>>

\* The registration header arrives (one that was in flight when the stream
\* broke may as well), or the stream fails before it does.
Header(p) ==
    /\ receive[p] = "header"
    /\ \/ /\ handler[current[p]] = "recv"
          /\ receive' = [receive EXCEPT ![p] = "notify"]
       \/ /\ broken[current[p]]
          /\ receive' = [receive EXCEPT ![p] = "operation"]
    /\ UNCHANGED <<serverVars, current, status, connectedCh, waiter, late, send>>

\* Mutant: the channel is forgotten without being closed.
NotifyStreamConnectedNoClose(p) ==
    /\ receive[p] = "notify"
    /\ receive' = [receive EXCEPT ![p] = "receive"]
    /\ status' = [status EXCEPT ![p] = "connected"]
    /\ connectedCh' = [connectedCh EXCEPT ![p] = FALSE]
    /\ late' = [late EXCEPT ![p] = @ \/ waiter[p] = "getChan"]
    /\ UNCHANGED <<waiter, serverVars, current, send>>

\* notifyStreamConnected closes and forgets the channel, which releases the
\* goroutine that waits on it.
NotifyStreamConnected(p) ==
    /\ receive[p] = "notify"
    /\ receive' = [receive EXCEPT ![p] = "receive"]
    /\ status' = [status EXCEPT ![p] = "connected"]
    /\ connectedCh' = [connectedCh EXCEPT ![p] = FALSE]
    /\ waiter' = [waiter EXCEPT ![p] = IF @ = "waiting" /\ connectedCh[p]
                                       THEN "returned" ELSE @]
    /\ late' = [late EXCEPT ![p] = @ \/ waiter[p] = "getChan"]
    /\ UNCHANGED <<serverVars, current, send>>

\* Recv fails; the operation is retried.
ReceiveError(p) ==
    /\ receive[p] = "receive"
    /\ broken[current[p]]
    /\ receive' = [receive EXCEPT ![p] = "operation"]
    /\ UNCHANGED <<serverVars, current, status, connectedCh, waiter, late, send>>

-----------------------------------------------------------------------------
(* WaitStreamConnected: the status is read without the mutex *)

WaitCheck(p) ==
    /\ waiter[p] = "idle"
    /\ waiter' = [waiter EXCEPT
                     ![p] = IF status[p] = "connected" THEN "returned" ELSE "getChan"]
    /\ UNCHANGED <<serverVars, current, receive, status, connectedCh, late, send>>

getStreamStatusChan(p) ==
    /\ waiter[p] = "getChan"
    /\ connectedCh' = [connectedCh EXCEPT ![p] = TRUE]
    /\ waiter' = [waiter EXCEPT ![p] = "waiting"]
    /\ UNCHANGED <<serverVars, current, receive, status, late, send>>

-----------------------------------------------------------------------------

HandlerStep(s) ==
    \/ ConnectPeer(s)
    \/ SendHeader(s)
    \/ RecvError(s)
    \/ Deregister(s)

ReceiveStep(p) ==
    \/ \E s \in Streams : Connect(p, s)
    \/ Header(p)
    \/ NotifyStreamConnected(p)
    \/ ReceiveError(p)

WaitStep(p) == WaitCheck(p) \/ getStreamStatusChan(p)

Next ==
    \/ \E s \in Streams : Break(s) \/ HandlerStep(s)
    \/ \E p \in Peers : ReceiveStep(p) \/ WaitStep(p)
    \/ \E m \in Sends, p, q \in Peers : p # q /\ SendCheck(m, p, q)
    \/ \E m \in Sends : SendGet(m) \/ SendForward(m)

Spec == Init /\ [][Next]_vars

\* Goroutines that can run do; nothing forces the network to break.
Fairness ==
    /\ \A s \in Streams : WF_vars(HandlerStep(s))
    /\ \A p \in Peers : WF_vars(ReceiveStep(p)) /\ WF_vars(WaitStep(p))

FairSpec == Spec /\ Fairness

-----------------------------------------------------------------------------
(* Properties *)

\* The type of every variable.
TypeOK ==
    /\ registry \in [Peers -> Streams \cup {None}]
    /\ handler \in [Streams -> {"unused", "connectPeer", "sendHeader", "recv",
                                "deregister", "done"}]
    /\ owner \in [Streams -> Peers \cup {None}]
    /\ broken \in [Streams -> BOOLEAN]
    /\ breaks \in 0..MaxBreaks
    /\ overlap \in [Streams -> BOOLEAN]
    /\ current \in [Peers -> Streams \cup {None}]
    /\ receive \in [Peers -> {"operation", "header", "notify", "receive"}]
    /\ status \in [Peers -> {"disconnected", "connected"}]
    /\ connectedCh \in [Peers -> BOOLEAN]
    /\ waiter \in [Peers -> {"idle", "getChan", "waiting", "returned"}]
    /\ late \in [Peers -> BOOLEAN]
    /\ send \in [Sends -> [pc : {"new", "get", "send", "refused", "delivered", "dropped"},
                           from : Peers \cup {None}, to : Peers \cup {None},
                           stream : Streams \cup {None}, seen : Streams \cup {None}]]

(***************************************************************************)
(* The registry never points to a stream whose handler has returned, so    *)
(* that no message is looked up (signal.go:35) to a dead gRPC stream,      *)
(* although a handler deletes by id and streams of a peer overlap          *)
(* (signal.go:57-60).                                                      *)
(***************************************************************************)
NoFinishedStreamRegistered ==
    \A p \in Peers : registry[p] # None =>
        owner[registry[p]] = p /\ Running(registry[p])

(***************************************************************************)
(* A client that saw the registration header (signal.go:62) stays          *)
(* registered with that stream, unless a handler of an earlier stream of   *)
(* the same peer was still running when the stream was opened.             *)
(***************************************************************************)
ReachableUnlessOverlap ==
    \A p \in Peers :
        (receive[p] \in {"notify", "receive"} /\ Established(p) /\ ~overlap[current[p]])
            => registry[p] = current[p]

(***************************************************************************)
(* A message is dropped, which its sender is not told (signal.go:35-45),   *)
(* only when its addressee had no established stream at the look-up, or    *)
(* one whose registration a handler of an earlier stream may have deleted, *)
(* or when that stream has broken since: what is registered, replaced or   *)
(* deregistered between the look-up and Stream.Send loses nothing, and a   *)
(* message that is delivered goes to a stream of its addressee.            *)
(***************************************************************************)
ReachableIsDelivered ==
    \A m \in Sends :
        /\ send[m].pc = "dropped" => send[m].seen = None \/ broken[send[m].seen]
        /\ send[m].pc = "delivered" => owner[send[m].stream] = send[m].to

(***************************************************************************)
(* WaitStreamConnected reads the status without the mutex (grpc.go:208):   *)
(* a caller is left waiting on a connected client only when the connection *)
(* was announced between that look and its getting the channel, and in no  *)
(* other order of connections, breaks and waits.                           *)
(***************************************************************************)
OnlyLateWaiterIsLeft ==
    \A p \in Peers : waiter[p] = "waiting" /\ status[p] = "connected" => late[p]

(***************************************************************************)
(* The Receive loop gets a client back on the exchange: once the network   *)
(* stops breaking streams every client reports "connected" and has a       *)
(* working stream for good (grpc.go:106-149).                              *)
(***************************************************************************)
EventuallyConnected ==
    \A p \in Peers : <>[](status[p] = "connected" /\ Established(p))
=============================================================================
