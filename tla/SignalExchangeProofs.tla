------------------------ MODULE SignalExchangeProofs ------------------------
(***************************************************************************)
(* Proofs about SignalExchange, for any number of clients, streams and     *)
(* broken streams.                                                         *)
(***************************************************************************)
EXTENDS SignalExchange, TLAPS

\* A message that is about to be looked up has an addressee.
TypeInv ==
    /\ TypeOK
    /\ \A m \in Sends : send[m].pc = "get" => send[m].to \in Peers

\* A stream that was opened knows its peer, and a client's stream was opened
\* by that client.
OwnerInv ==
    /\ \A s \in Streams : handler[s] # "unused" => owner[s] \in Peers
    /\ \A p \in Peers : current[p] # None =>
          /\ handler[current[p]] # "unused"
          /\ owner[current[p]] = p
    /\ \A p \in Peers : receive[p] # "operation" => current[p] # None

\* A client's stream that overlapped no other one is its only running one,
\* and is registered from ConnectPeer until Deregister.
AloneInv ==
    \A p \in Peers : (current[p] # None /\ ~overlap[current[p]]) =>
        /\ \A t \in Streams \ {current[p]} : owner[t] = p => ~Running(t)
        /\ handler[current[p]] \in {"sendHeader", "recv", "deregister"}
              => registry[p] = current[p]

\* The stream that was found for a message is one of its addressee, and the
\* client's own one if that is established and overlapped no other.
Routed(m) ==
    /\ send[m].pc \in {"send", "delivered"} =>
          /\ send[m].stream \in Streams
          /\ handler[send[m].stream] # "unused"
          /\ owner[send[m].stream] = send[m].to
    /\ send[m].pc = "send" => send[m].seen \in {None, send[m].stream}
    /\ send[m].pc = "dropped" => send[m].seen = None \/ broken[send[m].seen]

SendInv == \A m \in Sends : Routed(m)

SendRecords ==
    [pc : {"new", "get", "send", "refused", "delivered", "dropped"},
     from : Peers \cup {None}, to : Peers \cup {None},
     stream : Streams \cup {None}, seen : Streams \cup {None}]

\* A call that was told "not connected" and whose client has connected since
\* was overtaken by the announcement; one that waits has its channel.
WaiterInv ==
    \A p \in Peers :
        /\ waiter[p] \in {"getChan", "waiting"} /\ status[p] = "connected" => late[p]
        /\ waiter[p] = "waiting" => connectedCh[p]

RegistryInv == TypeInv /\ OwnerInv /\ NoFinishedStreamRegistered /\ AloneInv

-----------------------------------------------------------------------------

LEMMA SignalTypeInit == Init => TypeInv
BY SignalAssumption DEF Init, TypeInv, TypeOK, NewSend

LEMMA SignalTypeStep == TypeInv /\ [Next]_vars => TypeInv'
<1> SUFFICES ASSUME TypeInv, [Next]_vars PROVE TypeInv'
  OBVIOUS
<1> USE SignalAssumption DEF TypeInv, TypeOK, serverVars, clientVars
<1>1. ASSUME NEW s \in Streams, Break(s) PROVE TypeInv'
  BY <1>1 DEF Break, Running
<1>2. ASSUME NEW s \in Streams, HandlerStep(s) PROVE TypeInv'
  <2>1. CASE ConnectPeer(s)
    BY <2>1 DEF ConnectPeer
  <2>2. CASE SendHeader(s)
    BY <2>2 DEF SendHeader
  <2>3. CASE RecvError(s)
    BY <2>3 DEF RecvError
  <2>4. CASE Deregister(s)
    BY <2>4 DEF Deregister
  <2> QED BY <1>2, <2>1, <2>2, <2>3, <2>4 DEF HandlerStep
<1>3. ASSUME NEW p \in Peers, ReceiveStep(p) PROVE TypeInv'
  <2>1. ASSUME NEW s \in Streams, Connect(p, s) PROVE TypeInv'
    BY <2>1 DEF Connect, Running
  <2>2. CASE Header(p)
    BY <2>2 DEF Header
  <2>3. CASE NotifyStreamConnected(p)
    BY <2>3 DEF NotifyStreamConnected
  <2>4. CASE ReceiveError(p)
    BY <2>4 DEF ReceiveError
  <2> QED BY <1>3, <2>1, <2>2, <2>3, <2>4 DEF ReceiveStep
<1>4. ASSUME NEW p \in Peers, WaitStep(p) PROVE TypeInv'
  BY <1>4 DEF WaitStep, WaitCheck, getStreamStatusChan
<1>5. ASSUME NEW m \in Sends, NEW p \in Peers, NEW q \in Peers, SendCheck(m, p, q)
      PROVE  TypeInv'
  <2>1. send'[m] \in SendRecords /\ send'[m].to = q
    BY <1>5 DEF SendCheck, NewSend, SendRecords
  <2> QED BY <1>5, <2>1 DEF SendCheck, SendRecords
<1>6. ASSUME NEW m \in Sends, SendGet(m) PROVE TypeInv'
  <2>0. send[m] \in SendRecords /\ send[m].to \in Peers
    BY <1>6 DEF SendGet, SendRecords
  <2>1. registry[send[m].to] \in Streams \cup {None}
    BY <2>0
  <2>2. current[send[m].to] \in Streams \cup {None}
    BY <2>0
  <2>3. send' = [send EXCEPT ![m] = [send[m] EXCEPT
            !.pc = IF registry[send[m].to] # None THEN "send" ELSE "dropped",
            !.stream = registry[send[m].to],
            !.seen = IF Established(send[m].to) /\ ~overlap[current[send[m].to]]
                     THEN current[send[m].to] ELSE None]]
    BY <1>6 DEF SendGet
  <2>4. send'[m] \in SendRecords /\ send'[m].pc # "get"
    BY <2>0, <2>1, <2>2, <2>3 DEF SendRecords
  <2> QED BY <1>6, <2>3, <2>4 DEF SendGet, SendRecords
<1>7. ASSUME NEW m \in Sends, SendForward(m) PROVE TypeInv'
  <2>0. send[m] \in SendRecords
    BY <1>7 DEF SendRecords
  <2>1. send' = [send EXCEPT ![m] = [send[m] EXCEPT
            !.pc = IF ~broken[send[m].stream] THEN "delivered" ELSE "dropped"]]
    BY <1>7 DEF SendForward
  <2>2. send'[m] \in SendRecords /\ send'[m].pc # "get"
    BY <2>0, <2>1 DEF SendRecords
  <2> QED BY <1>7, <2>1, <2>2 DEF SendForward, SendRecords
<1>8. CASE UNCHANGED vars
  BY <1>8 DEF vars
<1> QED BY <1>1, <1>2, <1>3, <1>4, <1>5, <1>6, <1>7, <1>8 DEF Next

-----------------------------------------------------------------------------

LEMMA RegistryInit == Init => RegistryInv
BY SignalTypeInit
   DEF Init, RegistryInv, OwnerInv, AloneInv, NoFinishedStreamRegistered

LEMMA RegistryStep == RegistryInv /\ [Next]_vars => RegistryInv'
<1> SUFFICES ASSUME RegistryInv, [Next]_vars
             PROVE  (OwnerInv /\ NoFinishedStreamRegistered /\ AloneInv)'
  BY SignalTypeStep DEF RegistryInv
<1>0. TypeOK /\ TypeOK'
  BY SignalTypeStep DEF RegistryInv, TypeInv
<1> USE SignalAssumption, <1>0
        DEF RegistryInv, OwnerInv, AloneInv, NoFinishedStreamRegistered, Running,
            serverVars, clientVars
<1> DEFINE Goal == (OwnerInv /\ NoFinishedStreamRegistered /\ AloneInv)'
<1>1. ASSUME NEW s \in Streams, Break(s) PROVE Goal
  BY <1>1 DEF Break
<1>2. ASSUME NEW s \in Streams, HandlerStep(s) PROVE Goal
  <2>1. CASE ConnectPeer(s)
    BY <2>1 DEF ConnectPeer, TypeOK
  <2>2. CASE SendHeader(s)
    BY <2>2 DEF SendHeader, TypeOK
  <2>3. CASE RecvError(s)
    BY <2>3 DEF RecvError, TypeOK
  <2>4. CASE Deregister(s)
    BY <2>4 DEF Deregister, TypeOK
  <2> QED BY <1>2, <2>1, <2>2, <2>3, <2>4 DEF HandlerStep
<1>3. ASSUME NEW p \in Peers, ReceiveStep(p) PROVE Goal
  <2>1. ASSUME NEW s \in Streams, Connect(p, s) PROVE Goal
    BY <2>1 DEF Connect, TypeOK
  <2>2. CASE Header(p)
    BY <2>2 DEF Header, TypeOK
  <2>3. CASE NotifyStreamConnected(p)
    BY <2>3 DEF NotifyStreamConnected, TypeOK
  <2>4. CASE ReceiveError(p)
    BY <2>4 DEF ReceiveError, TypeOK
  <2> QED BY <1>3, <2>1, <2>2, <2>3, <2>4 DEF ReceiveStep
<1>4. ASSUME NEW p \in Peers, WaitStep(p) PROVE Goal
  BY <1>4 DEF WaitStep, WaitCheck, getStreamStatusChan
<1>5. ASSUME NEW m \in Sends, NEW p \in Peers, NEW q \in Peers, SendCheck(m, p, q)
      PROVE  Goal
  BY <1>5 DEF SendCheck
<1>6. ASSUME NEW m \in Sends, SendGet(m) \/ SendForward(m) PROVE Goal
  BY <1>6 DEF SendGet, SendForward
<1>7. CASE UNCHANGED vars
  BY <1>7 DEF vars
<1> QED BY <1>1, <1>2, <1>3, <1>4, <1>5, <1>6, <1>7 DEF Next

-----------------------------------------------------------------------------

(***************************************************************************)
(* Every reachable state of the exchange is well typed.                    *)
(***************************************************************************)
THEOREM SignalTypeCorrect == Spec => []TypeOK
<1>1. Init => TypeInv
  BY SignalTypeInit
<1>2. TypeInv /\ [Next]_vars => TypeInv'
  BY SignalTypeStep
<1>3. TypeInv => TypeOK
  BY DEF TypeInv
<1> QED BY <1>1, <1>2, <1>3, PTL DEF Spec

(***************************************************************************)
(* The registry of signal/peer/peer.go never holds a stream whose          *)
(* ConnectStream handler has returned.                                     *)
(***************************************************************************)
THEOREM NeverFinishedStreamRegistered == Spec => []NoFinishedStreamRegistered
<1>1. Init => RegistryInv
  BY RegistryInit
<1>2. RegistryInv /\ [Next]_vars => RegistryInv'
  BY RegistryStep
<1>3. RegistryInv => NoFinishedStreamRegistered
  BY DEF RegistryInv
<1> QED BY <1>1, <1>2, <1>3, PTL DEF Spec

(***************************************************************************)
(* A client with an established stream can be reached, unless a handler of *)
(* an earlier stream of it ran when the stream was opened.                 *)
(***************************************************************************)
THEOREM ConfirmedIsReachable == Spec => []ReachableUnlessOverlap
<1>1. Init => RegistryInv
  BY RegistryInit
<1>2. RegistryInv /\ [Next]_vars => RegistryInv'
  BY RegistryStep
<1>3. RegistryInv => ReachableUnlessOverlap
  BY DEF RegistryInv, OwnerInv, AloneInv, ReachableUnlessOverlap, Established
<1> QED BY <1>1, <1>2, <1>3, PTL DEF Spec

LEMMA SendStep == RegistryInv /\ SendInv /\ [Next]_vars => SendInv'
<1> SUFFICES ASSUME RegistryInv, SendInv, [Next]_vars
             PROVE  SendInv'
  OBVIOUS
<1>0. TypeOK /\ TypeInv
  BY DEF RegistryInv, TypeInv
<1>r. \A m \in Sends : send[m] \in SendRecords
  BY <1>0 DEF TypeOK, SendRecords
\* Streams keep their owner once they are opened, and never heal.
<1>1. ASSUME \A s \in Streams : handler[s] # "unused" =>
                handler'[s] # "unused" /\ owner'[s] = owner[s],
             \A s \in Streams : broken[s] => broken'[s],
             NEW m \in Sends, send'[m] = send[m]
      PROVE  Routed(m)'
  <2>1. send[m].seen \in Streams \cup {None}
    BY <1>r DEF SendRecords
  <2> QED BY <1>1, <2>1 DEF SendInv, Routed
<1>2. ASSUME NEW s \in Streams, Break(s) PROVE SendInv'
  <2>1. /\ \A t \in Streams : broken[t] => broken'[t]
        /\ UNCHANGED <<handler, owner, send>>
    BY <1>0, <1>2 DEF Break, TypeOK
  <2> QED BY <1>1, <2>1 DEF SendInv
<1>3. ASSUME NEW s \in Streams, HandlerStep(s) PROVE SendInv'
  <2>1. /\ \A t \in Streams : handler[t] # "unused" => handler'[t] # "unused"
        /\ UNCHANGED <<broken, owner, send>>
    BY <1>0, <1>3 DEF HandlerStep, ConnectPeer, SendHeader, RecvError, Deregister, TypeOK
  <2> QED BY <1>1, <2>1 DEF SendInv
<1>4. ASSUME NEW p \in Peers, NEW s \in Streams, Connect(p, s) PROVE SendInv'
  <2>1. /\ \A t \in Streams : handler[t] # "unused" =>
                 handler'[t] # "unused" /\ owner'[t] = owner[t]
        /\ UNCHANGED <<broken, send>>
    BY <1>0, <1>4 DEF Connect, TypeOK
  <2> QED BY <1>1, <2>1 DEF SendInv
<1>5. ASSUME UNCHANGED <<handler, owner, broken, send>> PROVE SendInv'
  BY <1>1, <1>5 DEF SendInv
<1>6. ASSUME NEW m \in Sends, NEW p \in Peers, NEW q \in Peers, SendCheck(m, p, q)
      PROVE  SendInv'
  <2>1. /\ send'[m].pc \in {"get", "refused"}
        /\ \A n \in Sends \ {m} : send'[n] = send[n]
        /\ UNCHANGED <<handler, owner, broken>>
    BY <1>0, <1>6 DEF SendCheck, NewSend, TypeOK, serverVars
  <2>2. Routed(m)'
    BY <2>1 DEF Routed
  <2> QED BY <1>1, <2>1, <2>2 DEF SendInv
<1>7. ASSUME NEW m \in Sends, SendGet(m) PROVE SendInv'
  <2> DEFINE q == send[m].to
             ok == Established(q) /\ ~overlap[current[q]]
  <2>0. q \in Peers
    BY <1>0, <1>7 DEF SendGet, TypeInv
  <2>1. ok => registry[q] = current[q] /\ current[q] # None
    BY <2>0 DEF RegistryInv, OwnerInv, AloneInv, Established
  <2>2. send' = [send EXCEPT ![m] = [send[m] EXCEPT
            !.pc = IF registry[q] # None THEN "send" ELSE "dropped",
            !.stream = registry[q],
            !.seen = IF ok THEN current[q] ELSE None]]
    BY <1>0, <1>7 DEF SendGet, TypeOK
  <2>3. /\ \A n \in Sends \ {m} : send'[n] = send[n]
        /\ UNCHANGED <<handler, owner, broken>>
    BY <1>0, <1>7, <2>2 DEF SendGet, serverVars, TypeOK
  <2>4. /\ send'[m].pc = IF registry[q] # None THEN "send" ELSE "dropped"
        /\ send'[m].stream = registry[q]
        /\ send'[m].seen = IF ok THEN current[q] ELSE None
        /\ send'[m].to = q
    BY <1>0, <1>r, <2>2 DEF SendRecords, TypeOK
  <2>5. registry[q] # None =>
            registry[q] \in Streams /\ owner[registry[q]] = q /\ handler[registry[q]] # "unused"
    BY <1>0, <2>0 DEF RegistryInv, NoFinishedStreamRegistered, Running, TypeOK
  <2>6. Routed(m)'
    BY <2>1, <2>3, <2>4, <2>5 DEF Routed
  <2> QED BY <1>1, <2>3, <2>6 DEF SendInv
<1>8. ASSUME NEW m \in Sends, SendForward(m) PROVE SendInv'
  <2>1. /\ \A n \in Sends \ {m} : send'[n] = send[n]
        /\ UNCHANGED <<handler, owner, broken>>
        /\ send'[m].pc = IF ~broken[send[m].stream] THEN "delivered" ELSE "dropped"
        /\ send'[m].stream = send[m].stream
        /\ send'[m].seen = send[m].seen
        /\ send'[m].to = send[m].to
        /\ send[m].pc = "send"
    BY <1>0, <1>8 DEF SendForward, serverVars, TypeOK
  <2>2. Routed(m)
    BY DEF SendInv
  <2>3. Routed(m)'
    BY <2>1, <2>2 DEF Routed
  <2> QED BY <1>1, <2>1, <2>3 DEF SendInv
<1>9. ASSUME NEW p \in Peers,
             WaitStep(p) \/ Header(p) \/ NotifyStreamConnected(p) \/ ReceiveError(p)
      PROVE  UNCHANGED <<handler, owner, broken, send>>
  BY <1>9 DEF WaitStep, WaitCheck, getStreamStatusChan, Header, NotifyStreamConnected,
              ReceiveError, serverVars
<1>10. CASE UNCHANGED vars
  BY <1>5, <1>10 DEF vars, serverVars
<1> QED
  BY <1>2, <1>3, <1>4, <1>5, <1>6, <1>7, <1>8, <1>9, <1>10 DEF Next, ReceiveStep

(***************************************************************************)
(* Whatever breaks, registers, replaces or deregisters streams between the *)
(* look-up and Stream.Send, a message for a client whose established       *)
(* stream overlapped no earlier one is dropped only if that stream has     *)
(* broken, and what is delivered goes to a stream of its addressee.        *)
(***************************************************************************)
THEOREM NeverDroppedIfReachable == Spec => []ReachableIsDelivered
<1>1. Init => RegistryInv /\ SendInv
  BY RegistryInit DEF Init, NewSend, SendInv, Routed
<1>2. RegistryInv /\ SendInv /\ [Next]_vars => RegistryInv' /\ SendInv'
  BY RegistryStep, SendStep
<1>3. SendInv => ReachableIsDelivered
  BY DEF SendInv, Routed, ReachableIsDelivered
<1> QED BY <1>1, <1>2, <1>3, PTL DEF Spec

(***************************************************************************)
(* A WaitStreamConnected call is left waiting on a connected client only   *)
(* by an announcement between its look at the status and its getting the   *)
(* channel.                                                                *)
(***************************************************************************)
THEOREM OnlyLateWaiters == Spec => []OnlyLateWaiterIsLeft
<1>1. Init => TypeInv /\ WaiterInv
  BY SignalTypeInit DEF Init, WaiterInv
<1>2. TypeInv /\ WaiterInv /\ [Next]_vars => TypeInv' /\ WaiterInv'
  <2> SUFFICES ASSUME TypeInv, WaiterInv, [Next]_vars
               PROVE  WaiterInv'
    BY SignalTypeStep
  <2>0. TypeOK
    BY DEF TypeInv
  <2>1. CASE UNCHANGED <<waiter, connectedCh, status, late>>
    BY <2>1 DEF WaiterInv
  <2>2. ASSUME NEW p \in Peers, NEW s \in Streams, Connect(p, s) PROVE WaiterInv'
    BY <2>0, <2>2 DEF Connect, WaiterInv, TypeOK
  <2>3. ASSUME NEW p \in Peers, NotifyStreamConnected(p) PROVE WaiterInv'
    BY <2>0, <2>3 DEF NotifyStreamConnected, WaiterInv, TypeOK
  <2>4. ASSUME NEW p \in Peers, WaitCheck(p) PROVE WaiterInv'
    BY <2>0, <2>4 DEF WaitCheck, WaiterInv, TypeOK
  <2>5. ASSUME NEW p \in Peers, getStreamStatusChan(p) PROVE WaiterInv'
    BY <2>0, <2>5 DEF getStreamStatusChan, WaiterInv, TypeOK
  <2>6. ASSUME NEW p \in Peers, Header(p) \/ ReceiveError(p)
        PROVE  UNCHANGED <<waiter, connectedCh, status, late>>
    BY <2>6 DEF Header, ReceiveError
  <2>7. ASSUME NEW s \in Streams, Break(s) \/ HandlerStep(s)
        PROVE  UNCHANGED <<waiter, connectedCh, status, late>>
    BY <2>7 DEF Break, HandlerStep, ConnectPeer, SendHeader, RecvError, Deregister, clientVars
  <2> QED BY <2>1, <2>2, <2>3, <2>4, <2>5, <2>6, <2>7
          DEF Next, ReceiveStep, WaitStep, vars, clientVars, SendCheck, SendGet, SendForward
<1>3. WaiterInv => OnlyLateWaiterIsLeft
  BY DEF WaiterInv, OnlyLateWaiterIsLeft
<1> QED BY <1>1, <1>2, <1>3, PTL DEF Spec
=============================================================================
