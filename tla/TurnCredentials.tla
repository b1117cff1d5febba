-------------------------- MODULE TurnCredentials --------------------------
(***************************************************************************)
(* TimeBasedAuthSecretsManager (management/server/turncredentials.go): for *)
(* every connected peer a goroutine that sends fresh TURN credentials at   *)
(* 3/4 of their lifetime.  The goroutine, like its cancel channel, is      *)
(* named after the Sync call whose SetupRefresh started it.                *)
(***************************************************************************)
EXTENDS UpdateChannels

VARIABLES
    cancelMap,   \* peer -> the goroutine whose cancel channel is registered
    refresher,   \* goroutine -> where it is
    cancelled    \* goroutine -> has its cancel channel been closed

turnVars == <<cancelMap, refresher, cancelled>>

TurnInit ==
    /\ cancelMap = [p \in Peers |-> None]
    /\ refresher = [s \in Streams |-> "none"]
    /\ cancelled = [s \in Streams |-> FALSE]

\* A SyncResponse that holds nothing but TURN servers: no network map.
TurnUpdate == [hasMap |-> FALSE, serial |-> 0, peers |-> {}, turn |-> "timed"]

\* cancel: close the registered cancel channel; the callers set cancelMap.
cancel(p) == cancelled' = [s \in Streams |-> cancelled[s] \/ cancelMap[p] = s]

CancelRefresh(p) ==
    /\ cancel(p)
    /\ cancelMap' = [cancelMap EXCEPT ![p] = None]
    /\ UNCHANGED refresher

\* Mutant: the goroutine of an earlier stream is not cancelled.
SetupRefreshNoCancel(s, p) ==
    /\ cancelMap' = [cancelMap EXCEPT ![p] = s]
    /\ refresher' = [refresher EXCEPT ![s] = "select"]
    /\ UNCHANGED cancelled

SetupRefresh(s, p) ==
    /\ cancel(p)
    /\ cancelMap' = [cancelMap EXCEPT ![p] = s]
    /\ refresher' = [refresher EXCEPT ![s] = "select"]

\* The goroutine's select: return when cancelled, else sleep.
RefreshSelect(s) ==
    /\ refresher[s] = "select"
    /\ ~Blocked(s)
    /\ refresher' = [refresher EXCEPT
                        ![s] = IF cancelled[s] THEN "exited" ELSE "asleep"]
    /\ UNCHANGED <<cancelMap, cancelled>>

\* It wakes up and sends, without looking at its cancel channel again.
RefreshSend(s, p) ==
    /\ refresher[s] = "asleep"
    /\ SendUpdate(s, p, TurnUpdate)
    /\ refresher' = [refresher EXCEPT ![s] = "select"]
    /\ UNCHANGED <<cancelMap, cancelled>>

LiveRefreshers == {s \in Streams : refresher[s] # "none" /\ ~cancelled[s]}
=============================================================================
