----------------------------- MODULE EngineSync -----------------------------
(***************************************************************************)
(* What a client's Engine does with a SyncResponse: handleSync and         *)
(* updateNetworkMap (client/internal/engine.go).  Pure operators on the    *)
(* engine's view of the network:                                           *)
(*   serial  networkSerial                                                 *)
(*   peers   the remote peers it has a connection object for, each with    *)
(*           the allowed IP the object was created with                    *)
(*   turn    which kind of TURN credentials it holds                       *)
(***************************************************************************)
EXTENDS Naturals

Keys(peers) == {r.key : r \in peers}

NewEngine == [serial |-> 0, peers |-> {}, turn |-> "none"]

\* updateTURNs: an update without TURN servers keeps the ones in use.
updateTURNs(view, m) ==
    [view EXCEPT !.turn = IF m.turn = "none" THEN @ ELSE m.turn]

\* removePeers followed by addNewPeers: a peer that stays keeps its object.
RemoveThenAdd(peers, update) ==
    {r \in peers : r.key \in Keys(update)}
        \cup {r \in update : r.key \notin Keys(peers)}

\* Mutant: an outdated map is applied as well.
updateNetworkMapAnySerial(view, m) ==
    [view EXCEPT !.serial = m.serial,
                 !.peers = RemoveThenAdd(view.peers, m.peers)]

\* Mutant: peers that left the map are kept.
updateNetworkMapKeepsRemoved(view, m) ==
    IF view.serial > m.serial THEN view
    ELSE [view EXCEPT !.serial = m.serial,
                      !.peers = @ \cup {r \in m.peers : r.key \notin Keys(@)}]

\* An empty map (remotePeersIsEmpty) is removeAllPeers, which RemoveThenAdd
\* yields as well.
updateNetworkMap(view, m) ==
    IF view.serial > m.serial THEN view
    ELSE [view EXCEPT !.serial = m.serial,
                      !.peers = RemoveThenAdd(view.peers, m.peers)]

handleSync(view, m) ==
    LET v == updateTURNs(view, m)
    IN  IF m.hasMap THEN updateNetworkMap(v, m) ELSE v
=============================================================================
