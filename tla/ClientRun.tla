----------------------------- MODULE ClientRun -----------------------------
(***************************************************************************)
(* RunClient of the client (client/internal/connect.go): the loop that     *)
(* logs in to the management service, starts an Engine, waits until it is  *)
(* cancelled and tries again, and the status it shares with everything     *)
(* else in the daemon (client/internal/state.go).                          *)
(*                                                                         *)
(* Every run has the context it was started with.  Cancelling a context    *)
(* does not wait for its run: an old run still closes its engine, and      *)
(* still writes the status, while a new run is on its way.  All engines    *)
(* use the one WireGuard interface of the host.                            *)
(***************************************************************************)
EXTENDS Naturals, FiniteSets

CONSTANT MaxCtx     \* how many contexts the daemon creates in a behaviour

ASSUME MaxCtxAssumption == MaxCtx \in Nat \ {0}

Ctx == 1..MaxCtx
NoCtx == 0

VARIABLES
    status,      \* contextState.status
    err,         \* contextState.err: "none", "error", "reset" (ErrResetConnection)
    nctx,        \* contexts created so far: 1..nctx
    cancelled,   \* the contexts that are cancelled
    registered,  \* the management service knows this peer
    run,         \* context -> the RunClient that was started with it
    stale,       \* some stream of a cancelled engine has not returned yet
    iface        \* the run whose engine set up the WireGuard interface last

runVars == <<status, err, nctx, cancelled, registered, run, stale, iface>>

Statuses == {"Idle", "Connecting", "Connected", "NeedsLogin", "LoginFailed"}

(***************************************************************************)
(* pc: "none" (no run), "op" (the operation starts), "mgmt", "engine",     *)
(* "set" (the engine is started), "up" (waits for engineCtx), "close",     *)
(* "check", "retry" (back-off), "exit" (the deferred function), "idle"     *)
(* (it goes on to set the status), "wrap" (the goroutine of Up), "done".   *)
(***************************************************************************)
RunPcs == {"none", "op", "mgmt", "engine", "set", "up", "close", "check",
           "retry", "exit", "idle", "wrap", "done"}

NoRun(l) == [pc |-> l, failed |-> FALSE, engineDone |-> FALSE]

Finished(c) == run[c].pc \in {"none", "done"}

ClientRunInit ==
    /\ status = "Idle" /\ err = "none"
    /\ nctx = 0 /\ cancelled = {}
    /\ registered \in BOOLEAN
    /\ run = [c \in Ctx |-> NoRun("none")]
    /\ stale = FALSE
    /\ iface = NoCtx

-----------------------------------------------------------------------------
(* contextState *)

Set(update) == status' = update /\ err' = "none"

Status(s) == err = "none" /\ status = s

Wrap(e) == err' = e /\ UNCHANGED status

Goto(c, l) == run' = [run EXCEPT ![c].pc = l]

-----------------------------------------------------------------------------
(* RunClient *)

\* The goroutine that calls RunClient.
RunClient(c) == run' = [run EXCEPT ![c] = NoRun("op")]

\* Mutant: the operation does not look whether its context is cancelled.
RunOperationAnyway(c) ==
    /\ run[c].pc = "op"
    /\ Set("Connecting")
    /\ Goto(c, "mgmt")
    /\ UNCHANGED <<nctx, cancelled, registered, stale, iface>>

\* A cancelled context ends the loop; else a new engineCtx.
RunOperation(c) ==
    /\ run[c].pc = "op"
    /\ \/ /\ c \in cancelled
          /\ Goto(c, "exit")
          /\ UNCHANGED <<status, err>>
       \/ /\ c \notin cancelled
          /\ Set("Connecting")
          /\ Goto(c, "mgmt")
    /\ UNCHANGED <<nctx, cancelled, registered, stale, iface>>

\* connectToManagement: its dial, its key request or its Login may fail, and
\* Login says PermissionDenied to a peer that is not registered.
connectToManagement == {"error", IF registered THEN "ok" ELSE "denied"}

\* A refused peer ends the run; other errors go to the back-off.
RunManagement(c) ==
    /\ run[c].pc = "mgmt"
    /\ \/ "ok" \in connectToManagement /\ Goto(c, "engine") /\ UNCHANGED <<status, err>>
       \/ "denied" \in connectToManagement /\ Set("NeedsLogin") /\ Goto(c, "exit")
       \/ "error" \in connectToManagement /\ Wrap("error") /\ Goto(c, "retry")
    /\ UNCHANGED <<nctx, cancelled, registered, stale, iface>>

\* WGIface.Create with the kernel module removes an interface of that name and
\* adds a new one; it fails before, between or after the two.
CreateWithKernel(c, ok) ==
    \/ iface' = c
    \/ ~ok /\ iface' \in {iface, NoCtx}

\* connectToSignal, createEngineConfig and Engine.Start, which no context
\* stops.  What a failed start has created stays.
RunEngine(c) ==
    /\ run[c].pc = "engine"
    /\ \/ CreateWithKernel(c, TRUE) /\ Goto(c, "set") /\ UNCHANGED <<status, err>>
       \/ CreateWithKernel(c, FALSE) /\ Wrap("error") /\ Goto(c, "retry")
    /\ UNCHANGED <<nctx, cancelled, registered, stale>>

RunConnected(c) ==
    /\ run[c].pc = "set"
    /\ Set("Connected")
    /\ Goto(c, "up")
    /\ UNCHANGED <<nctx, cancelled, registered, stale, iface>>

\* receiveManagementEvents or receiveSignalEvents ends: ErrResetConnection,
\* and the engine is cancelled.  The other stream follows.
StreamEnds(c) ==
    /\ run[c].pc \in {"set", "up"}
    /\ ~run[c].engineDone
    /\ Wrap("reset")
    /\ run' = [run EXCEPT ![c].engineDone = TRUE]
    /\ stale' = TRUE
    /\ UNCHANGED <<nctx, cancelled, registered, iface>>

\* A stream that returns because its engine was cancelled says the same.
StaleStreamEnds ==
    /\ stale
    /\ Wrap("reset")
    /\ stale' \in BOOLEAN
    /\ UNCHANGED <<nctx, cancelled, registered, run, iface>>

RunEngineDone(c) ==
    /\ run[c].pc = "up"
    /\ run[c].engineDone \/ c \in cancelled
    /\ run' = [run EXCEPT ![c].pc = "close", ![c].engineDone = FALSE]
    /\ stale' = (stale \/ ~run[c].engineDone)
    /\ UNCHANGED <<status, err, nctx, cancelled, registered, iface>>

\* Engine.Stop deletes the interface by its name, whoever created it, and
\* fails when there is none.
EngineStop ==
    /\ iface # NoCtx
    /\ iface' = NoCtx

\* The clients are closed and the engine is stopped; both may fail.
RunClose(c) ==
    /\ run[c].pc = "close"
    /\ \/ EngineStop /\ Goto(c, "check") /\ UNCHANGED <<status, err>>
       \/ (EngineStop \/ UNCHANGED iface) /\ Wrap("error") /\ Goto(c, "retry")
    /\ UNCHANGED <<nctx, cancelled, registered, stale>>

\* Only a reset that nobody has overwritten makes the loop go on.
RunCheck(c) ==
    /\ run[c].pc = "check"
    /\ Goto(c, IF err = "reset" THEN "retry" ELSE "exit")
    /\ UNCHANGED <<status, err, nctx, cancelled, registered, stale, iface>>

\* The back-off: another operation, or the end of its patience.
RunRetry(c) ==
    /\ run[c].pc = "retry"
    /\ \/ Goto(c, "op")
       \/ run' = [run EXCEPT ![c].pc = "exit", ![c].failed = TRUE]
    /\ UNCHANGED <<status, err, nctx, cancelled, registered, stale, iface>>

\* The goroutine of Up keeps the error of a run that failed; the one of Start,
\* whose context is the first, only logs it.
RunEnds(c) ==
    run' = [run EXCEPT ![c] = NoRun(IF run[c].failed /\ c # 1 THEN "wrap" ELSE "done")]

\* Mutant: the deferred function leaves a status that is not an error.
RunExitKeeps(c) ==
    /\ run[c].pc = "exit"
    /\ IF err = "none" THEN RunEnds(c) ELSE Goto(c, "idle")
    /\ UNCHANGED <<status, err, nctx, cancelled, registered, stale, iface>>

\* The deferred function of RunClient reads the status ...
RunExit(c) ==
    /\ run[c].pc = "exit"
    /\ IF Status("NeedsLogin") THEN RunEnds(c) ELSE Goto(c, "idle")
    /\ UNCHANGED <<status, err, nctx, cancelled, registered, stale, iface>>

\* ... and then sets it.
RunSetIdle(c) ==
    /\ run[c].pc = "idle"
    /\ Set("Idle")
    /\ RunEnds(c)
    /\ UNCHANGED <<nctx, cancelled, registered, stale, iface>>

RunWrap(c) ==
    /\ run[c].pc = "wrap"
    /\ Wrap("error")
    /\ Goto(c, "done")
    /\ UNCHANGED <<nctx, cancelled, registered, stale, iface>>

RunStep(c) ==
    \/ RunOperation(c) \/ RunManagement(c) \/ RunEngine(c) \/ RunConnected(c)
    \/ RunEngineDone(c) \/ RunClose(c) \/ RunCheck(c) \/ RunRetry(c)
    \/ RunExit(c) \/ RunSetIdle(c) \/ RunWrap(c)
=============================================================================
