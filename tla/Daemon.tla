------------------------------- MODULE Daemon -------------------------------
(***************************************************************************)
(* The client daemon: the gRPC handlers Login, WaitSSOLogin, Up, Down and  *)
(* Status (client/server/server.go), called concurrently by the commands   *)
(* of client/cmd and by the tray application (client/ui/client_ui.go).     *)
(*                                                                         *)
(* s.mutex protects single assignments of Login and WaitSSOLogin, not the  *)
(* handlers: each of their critical sections is a step here, and what they *)
(* do to the shared status interleaves with other calls and with runs of   *)
(* RunClient that were cancelled and have not noticed.                     *)
(***************************************************************************)
EXTENDS ClientRun

CONSTANTS
    Callers,    \* commands and clicks that are under way at one time
    Programs    \* what they may be

ASSUME ProgramsAssumption ==
    Programs \subseteq {"cmdUp", "cmdLogin", "cmdDown", "menuUp", "menuDown", "settings"}

VARIABLES
    service,    \* "starting", "serving", "stopped", "crashed"
    act,        \* s.actCancel: the context it cancels, NoCtx for nil
    config,     \* s.config is set
    flow,       \* s.oauthAuthFlow; flow.wait is the context waitCancel belongs to
    caller      \* Callers -> the program it runs and where its call is

daemonVars == <<service, act, config, flow, caller>>
vars == <<runVars, daemonVars>>

NoCall == [prog |-> "none", key |-> FALSE, pc |-> "rest", ctx |-> NoCtx,
           waitDone |-> FALSE, code |-> NoCtx, reply |-> "none"]

Init ==
    /\ ClientRunInit
    /\ service = "starting"
    /\ act = NoCtx
    /\ config = FALSE
    /\ flow = [client |-> FALSE, code |-> NoCtx, exp |-> "past", wait |-> NoCtx]
    /\ caller = [p \in Callers |-> NoCall]

-----------------------------------------------------------------------------
(* Contexts.  A new one is cancelled from the start once the service stops. *)

Live(c) == c \in 1..nctx /\ c \notin cancelled

Cancel(c) == IF c = NoCtx THEN {} ELSE {c}

\* Mutant: the new context replaces the old one, which stays alive.
NewCtxOnly ==
    /\ nctx < MaxCtx
    /\ nctx' = nctx + 1
    /\ cancelled' = cancelled \union (IF service = "stopped" THEN {nctx + 1} ELSE {})
    /\ act' = nctx + 1

\* actCancel(), context.WithCancel and the assignment of s.actCancel.
NewCtx ==
    /\ nctx < MaxCtx
    /\ nctx' = nctx + 1
    /\ cancelled' = cancelled \union Cancel(act)
                        \union (IF service = "stopped" THEN {nctx + 1} ELSE {})
    /\ act' = nctx + 1

-----------------------------------------------------------------------------
(* Server.Start, once, before any call is served, and program.Stop *)

\* Without a configuration file one is created and a login is needed; an
\* error ends the process.
Start ==
    /\ service = "starting"
    /\ nctx' = 1 /\ act' = 1
    /\ \/ service' = "serving" /\ config' = TRUE /\ RunClient(1) /\ UNCHANGED <<status, err>>
       \/ service' = "serving" /\ Set("NeedsLogin") /\ UNCHANGED <<config, run>>
       \/ service' = "crashed" /\ UNCHANGED <<status, err, config, run>>
    /\ UNCHANGED <<cancelled, registered, stale, iface, flow, caller>>

\* The root context is cancelled, and all others with it.
Stop ==
    /\ service = "serving"
    /\ service' = "stopped"
    /\ cancelled' = 1..nctx
    /\ UNCHANGED <<status, err, nctx, registered, run, stale, iface,
                   act, config, flow, caller>>

-----------------------------------------------------------------------------
(* The programs that call the daemon: which call follows a reply *)

At(p, l) == caller[p].pc = l

Move(p, l) == caller' = [caller EXCEPT ![p].pc = l]

\* The handler has an answer; its deferred function comes next.
Answer(p, r) == caller' = [caller EXCEPT ![p].pc = "defer", ![p].reply = r]

FirstCall(prog) ==
    CASE prog \in {"cmdUp", "menuDown"} -> "status"
      [] prog \in {"cmdLogin", "menuUp", "settings"} -> "login"
      [] prog = "cmdDown" -> "down"

\* netbird up: an answer of Login, and of WaitSSOLogin.
cmdUpNext(reply) ==
    CASE reply = "sso" -> {"wait"}
      [] reply \in {"ok", "waited"} -> {"up"}
      [] reply = "retry" -> {"login", "rest"}
      [] OTHER -> {"rest"}

cmdLoginNext(reply) ==
    CASE reply = "sso" -> {"wait"}
      [] reply = "retry" -> {"login", "rest"}
      [] OTHER -> {"rest"}

menuUpNext(reply) ==
    CASE reply = "sso" -> {"wait"}
      [] reply \in {"ok", "waited"} -> {"status"}
      [] OTHER -> {"rest"}

\* The settings form does not look whether a login on the web is needed.
settingsNext(reply) ==
    IF reply \in {"ok", "sso"} THEN {"up"} ELSE {"rest"}

NextCalls(prog, reply) ==
    CASE prog = "cmdUp" -> cmdUpNext(reply)
      [] prog = "cmdLogin" -> cmdLoginNext(reply)
      [] prog = "menuUp" -> menuUpNext(reply)
      [] prog = "settings" -> settingsNext(reply)
      [] OTHER -> {"rest"}

\* The handler returns to the program, which gives up or goes on.
Return(p) ==
    \E l \in NextCalls(caller[p].prog, caller[p].reply) :
        caller' = [caller EXCEPT ![p] =
                      IF l = "rest" THEN NoCall
                      ELSE [@ EXCEPT !.pc = l, !.ctx = NoCtx, !.waitDone = FALSE, !.reply = "none"]]

Begin(p) ==
    /\ service = "serving"
    /\ At(p, "rest")
    /\ \E prog \in Programs, key \in BOOLEAN :
          /\ key => prog \in {"cmdUp", "cmdLogin"}
          /\ caller' = [caller EXCEPT ![p] =
                           [NoCall EXCEPT !.prog = prog, !.key = key, !.pc = FirstCall(prog)]]
    /\ UNCHANGED <<runVars, service, act, config, flow>>

-----------------------------------------------------------------------------
(* Status, Up and Down *)

\* What the answer of Status makes a program do.
cmdUpAfterStatus == IF status = "Connected" THEN "rest" ELSE "login"

menuUpAfterStatus == IF status = "Connected" THEN "rest" ELSE "up"

menuDownClick == IF status = "Connected" THEN "down" ELSE "rest"

AfterStatus(prog) ==
    CASE err # "none" -> "rest"
      [] err = "none" /\ prog = "cmdUp" -> cmdUpAfterStatus
      [] err = "none" /\ prog = "menuUp" -> menuUpAfterStatus
      [] OTHER -> menuDownClick

StatusCall(p) ==
    /\ service = "serving"
    /\ At(p, "status")
    /\ LET l == AfterStatus(caller[p].prog)
       IN  caller' = [caller EXCEPT ![p] =
                         IF l = "rest" THEN NoCall ELSE [@ EXCEPT !.pc = l]]
    /\ UNCHANGED <<runVars, service, act, config, flow>>

\* Up starts a run when the status is Idle.
Up(p) ==
    /\ service = "serving"
    /\ At(p, "up")
    /\ Status("Idle")
    /\ NewCtx
    /\ IF config THEN RunClient(nctx + 1) ELSE UNCHANGED run
    /\ caller' = [caller EXCEPT ![p] = NoCall]
    /\ UNCHANGED <<status, err, registered, stale, iface, service, config, flow>>

UpRefused(p) ==
    /\ service = "serving"
    /\ At(p, "up")
    /\ ~Status("Idle")
    /\ caller' = [caller EXCEPT ![p] = NoCall]
    /\ UNCHANGED <<runVars, service, act, config, flow>>

\* Down cancels and does not wait.
Down(p) ==
    /\ service = "serving"
    /\ At(p, "down")
    /\ cancelled' = cancelled \union Cancel(act)
    /\ caller' = [caller EXCEPT ![p] = NoCall]
    /\ UNCHANGED <<status, err, nctx, registered, run, stale, iface, service, act, config, flow>>

\* A call that reaches a service that has stopped fails.
CallFails(p) ==
    /\ service = "stopped"
    /\ caller[p].pc \in {"status", "login", "wait", "up", "down"}
    /\ caller' = [caller EXCEPT ![p] = NoCall]
    /\ UNCHANGED <<runVars, service, act, config, flow>>

-----------------------------------------------------------------------------
(* internal.Login, as loginAttempt calls it *)

\* loginPeer: a peer that is not known is registered, when there is a setup
\* key or a token to register it with.
loginPeer(cred) ==
    IF registered THEN {"ok"} ELSE IF cred THEN {"ok", "denied"} ELSE {"denied"}

\* An error may come from the connection, before the registration or, when
\* the client is closed, after it.
LoginResult(cred, res) ==
    /\ res \in loginPeer(cred) \union {"error"}
    /\ \/ res = "ok" /\ registered' = TRUE
       \/ res = "denied" /\ UNCHANGED registered
       \/ res = "error" /\ registered' \in {registered, registered \/ cred}

\* Mutant: the status is set for a refusal only.
loginAttemptUnset(res) == IF res = "denied" THEN "NeedsLogin" ELSE ""

\* The status loginAttempt gives to a failure.
loginAttempt(res) == IF res = "denied" THEN "NeedsLogin" ELSE "LoginFailed"

\* What a failure is to the caller: up.go and login.go repeat the call unless
\* the code says that this is useless.
Failure(res) == IF res = "denied" THEN "fail" ELSE "retry"

-----------------------------------------------------------------------------
(* Login *)

LoginCancel(p) ==
    /\ service = "serving"
    /\ At(p, "login")
    /\ NewCtx
    /\ caller' = [caller EXCEPT ![p].pc = "config", ![p].ctx = nctx + 1]
    /\ UNCHANGED <<status, err, registered, run, stale, iface, service, config, flow>>

\* GetConfig reads the file or creates it (see ClientConfig), and may fail.
LoginConfig(p) ==
    /\ At(p, "config")
    /\ \/ config' = TRUE /\ Move(p, "try")
       \/ UNCHANGED config /\ Answer(p, "retry")
    /\ UNCHANGED <<runVars, service, act, flow>>

\* The first attempt, without credentials.
LoginTry(p) ==
    /\ At(p, "try")
    /\ \/ LoginResult(FALSE, "ok") /\ Set("Idle") /\ Answer(p, "ok")
       \/ /\ \E res \in {"denied", "error"} : LoginResult(FALSE, res)
          /\ Set("Connecting")
          /\ Move(p, IF caller[p].key THEN "key" ELSE "flow")
    /\ UNCHANGED <<nctx, cancelled, run, stale, iface, service, act, config, flow>>

LoginSetupKey(p) ==
    /\ At(p, "key")
    /\ \/ LoginResult(TRUE, "ok") /\ Answer(p, "ok") /\ UNCHANGED <<status, err>>
       \/ \E res \in {"denied", "error"} :
             LoginResult(TRUE, res) /\ Set(loginAttempt(res)) /\ Answer(p, Failure(res))
    /\ UNCHANGED <<nctx, cancelled, run, stale, iface, service, act, config, flow>>

\* waitCancel() ends the wait of the caller it belongs to, if that still waits.
CancelWaitAndMove(p, l) ==
    caller' = [q \in Callers |->
                  [caller[q] EXCEPT
                      !.pc = IF q = p THEN l ELSE @,
                      !.waitDone = @ \/ (flow.wait # NoCtx /\ caller[q].ctx = flow.wait)]]

\* GetDeviceAuthorizationFlowInfo: no provider, or another error.
LoginFlowFails(p) ==
    /\ At(p, "flow")
    /\ Set("LoginFailed")
    /\ \E r \in {"fail", "retry"} : Answer(p, r)
    /\ UNCHANGED <<nctx, cancelled, registered, run, stale, iface, service, act, config, flow>>

\* The information of an earlier login is used again for as long as it is
\* valid for another 90 seconds.
LoginFlowPrevious(p) ==
    /\ At(p, "flow")
    /\ flow.client /\ flow.exp = "fresh"
    /\ Move(p, "previous")
    /\ UNCHANGED <<runVars, service, act, config, flow>>

\* It is read without the mutex.
LoginReadPrevious(p) ==
    /\ At(p, "previous")
    /\ caller' = [caller EXCEPT ![p].pc = "defer", ![p].reply = "sso", ![p].code = flow.code]
    /\ UNCHANGED <<runVars, service, act, config, flow>>

\* A new flow.  The wait of the previous one is cancelled, unless that is of
\* another client ID, as after a change of the provider or of the service.
LoginFlowNew(p) ==
    /\ At(p, "flow")
    /\ \/ Move(p, "request")
       \/ flow.client /\ flow.exp # "fresh" /\ flow.wait # NoCtx /\ CancelWaitAndMove(p, "request")
    /\ UNCHANGED <<runVars, service, act, config, flow>>

\* No one ever waited: waitCancel is nil, and the call of it ends the daemon.
LoginFlowPanics(p) ==
    /\ At(p, "flow")
    /\ flow.client /\ flow.exp # "fresh" /\ flow.wait = NoCtx
    /\ service' = "crashed"
    /\ UNCHANGED <<runVars, act, config, flow, caller>>

\* RequestDeviceCode, which no context cancels.
LoginRequestCode(p) ==
    /\ At(p, "request")
    /\ \/ Answer(p, "retry") /\ UNCHANGED flow
       \/ /\ flow' = [flow EXCEPT !.client = TRUE, !.code = caller[p].ctx, !.exp = "fresh"]
          /\ caller' = [caller EXCEPT ![p].pc = "needsLogin", ![p].code = caller[p].ctx]
    /\ UNCHANGED <<runVars, service, act, config>>

LoginNeedsSSO(p) ==
    /\ At(p, "needsLogin")
    /\ Set("NeedsLogin")
    /\ Answer(p, "sso")
    /\ UNCHANGED <<nctx, cancelled, registered, run, stale, iface, service, act, config, flow>>

\* The deferred function of Login and of WaitSSOLogin reads the status ...
Deferred(p) ==
    /\ At(p, "defer")
    /\ IF Status("NeedsLogin") \/ Status("LoginFailed") THEN Return(p) ELSE Move(p, "setIdle")
    /\ UNCHANGED <<runVars, service, act, config, flow>>

\* ... and then sets it.
DeferredSetIdle(p) ==
    /\ At(p, "setIdle")
    /\ Set("Idle")
    /\ Return(p)
    /\ UNCHANGED <<nctx, cancelled, registered, run, stale, iface, service, act, config, flow>>

-----------------------------------------------------------------------------
(* WaitSSOLogin.  Its callers have a user code, so there is a client. *)

WaitCancel(p) ==
    /\ service = "serving"
    /\ At(p, "wait")
    /\ NewCtx
    /\ caller' = [caller EXCEPT ![p].pc = "connecting", ![p].ctx = nctx + 1]
    /\ UNCHANGED <<status, err, registered, run, stale, iface, service, config, flow>>

WaitConnecting(p) ==
    /\ At(p, "connecting")
    /\ Set("Connecting")
    /\ Move(p, "code")
    /\ UNCHANGED <<nctx, cancelled, registered, run, stale, iface, service, act, config, flow>>

WaitWrongCode(p) ==
    /\ At(p, "code")
    /\ flow.code # caller[p].code
    /\ Set("LoginFailed")
    /\ Answer(p, "fail")
    /\ UNCHANGED <<nctx, cancelled, registered, run, stale, iface, service, act, config, flow>>

\* The wait before this one is cancelled ...
WaitCode(p) ==
    /\ At(p, "code")
    /\ flow.code = caller[p].code
    /\ CancelWaitAndMove(p, "register")
    /\ UNCHANGED <<runVars, service, act, config, flow>>

\* ... and this one takes its place.
WaitRegister(p) ==
    /\ At(p, "register")
    /\ flow' = [flow EXCEPT !.wait = caller[p].ctx]
    /\ Move(p, "token")
    /\ UNCHANGED <<runVars, service, act, config>>

\* WaitToken polls until the user has logged in, the provider or the time-out
\* ends it, or its context is cancelled: that is a success to the caller.
WaitToken(p) ==
    /\ At(p, "token")
    /\ \/ Move(p, "jwt")
       \/ Move(p, "expired")
       \/ (caller[p].ctx \in cancelled \/ caller[p].waitDone) /\ Answer(p, "waited")
    /\ UNCHANGED <<runVars, service, act, config, flow>>

WaitExpired(p) ==
    /\ At(p, "expired")
    /\ flow' = [flow EXCEPT !.exp = "past"]
    /\ Move(p, "failed")
    /\ UNCHANGED <<runVars, service, act, config>>

WaitFailed(p) ==
    /\ At(p, "failed")
    /\ Set("LoginFailed")
    /\ Answer(p, "fail")
    /\ UNCHANGED <<nctx, cancelled, registered, run, stale, iface, service, act, config, flow>>

WaitLogin(p) ==
    /\ At(p, "jwt")
    /\ \/ LoginResult(TRUE, "ok") /\ Answer(p, "waited") /\ UNCHANGED <<status, err>>
       \/ \E res \in {"denied", "error"} :
             LoginResult(TRUE, res) /\ Set(loginAttempt(res)) /\ Answer(p, "fail")
    /\ UNCHANGED <<nctx, cancelled, run, stale, iface, service, act, config, flow>>

-----------------------------------------------------------------------------
(* The environment *)

\* Time passes: the device flow comes close to its end.
FlowAges ==
    /\ flow.exp = "fresh"
    /\ flow' = [flow EXCEPT !.exp = "past"]
    /\ UNCHANGED <<runVars, service, act, config, caller>>

\* An administrator deletes the peer in the management service.
Unregister ==
    /\ registered
    /\ registered' = FALSE
    /\ UNCHANGED <<status, err, nctx, cancelled, run, stale, iface, daemonVars>>

-----------------------------------------------------------------------------

\* The steps of a handler that go on by themselves.
HandlerStep(p) ==
    \/ LoginConfig(p) \/ LoginTry(p) \/ LoginSetupKey(p) \/ LoginFlowFails(p)
    \/ LoginFlowPrevious(p) \/ LoginReadPrevious(p) \/ LoginFlowNew(p)
    \/ LoginFlowPanics(p) \/ LoginRequestCode(p) \/ LoginNeedsSSO(p)
    \/ WaitConnecting(p) \/ WaitWrongCode(p) \/ WaitCode(p) \/ WaitRegister(p)
    \/ WaitToken(p) \/ WaitExpired(p) \/ WaitFailed(p) \/ WaitLogin(p)
    \/ Deferred(p) \/ DeferredSetIdle(p)

Call(p) ==
    \/ StatusCall(p) \/ Up(p) \/ UpRefused(p) \/ Down(p) \/ CallFails(p)
    \/ LoginCancel(p) \/ WaitCancel(p)

ClientStep(c) == RunStep(c) /\ UNCHANGED daemonVars

Streams == (StaleStreamEnds \/ \E c \in Ctx : StreamEnds(c)) /\ UNCHANGED daemonVars

Next ==
    \/ Start
    \/ /\ service \in {"serving", "stopped"}
       /\ \/ Stop
          \/ \E p \in Callers : Begin(p) \/ Call(p) \/ HandlerStep(p)
          \/ \E c \in Ctx : ClientStep(c)
          \/ Streams
          \/ FlowAges
          \/ Unregister

Alive == service \in {"serving", "stopped"}

\* Goroutines are scheduled, the calls they make come back, and a wait for the
\* user ends with the time-out of its context.
Fairness ==
    /\ \A c \in Ctx : WF_vars(Alive /\ ClientStep(c))
    /\ \A p \in Callers : WF_vars(Alive /\ HandlerStep(p))
    /\ WF_vars(Alive /\ StaleStreamEnds /\ UNCHANGED daemonVars)

Spec == Init /\ [][Next]_vars

FairSpec == Spec /\ Fairness

-----------------------------------------------------------------------------
(* Properties *)

HandlerPcs == {"config", "try", "key", "flow", "previous", "request", "needsLogin",
               "connecting", "code", "register", "token", "expired", "failed", "jwt",
               "defer", "setIdle"}

CallPcs == {"rest", "status", "login", "wait", "up", "down"}

\* The type of every variable: a login that failed leaves a status that exists
\* (server.go:101-116).
TypeOK ==
    /\ status \in Statuses /\ err \in {"none", "error", "reset"}
    /\ nctx \in 0..MaxCtx /\ cancelled \subseteq 1..nctx /\ act \in 0..nctx
    /\ registered \in BOOLEAN /\ config \in BOOLEAN
    /\ run \in [Ctx -> [pc : RunPcs, failed : BOOLEAN, engineDone : BOOLEAN]]
    /\ stale \in BOOLEAN /\ iface \in 0..MaxCtx
    /\ service \in {"starting", "serving", "stopped", "crashed"}
    /\ flow \in [client : BOOLEAN, code : 0..MaxCtx, exp : {"fresh", "past"},
                 wait : 0..MaxCtx]
    /\ caller \in [Callers -> [prog : Programs \union {"none"}, key : BOOLEAN,
                               pc : HandlerPcs \union CallPcs, ctx : 0..MaxCtx,
                               waitDone : BOOLEAN, code : 0..MaxCtx,
                               reply : {"none", "ok", "sso", "waited", "fail", "retry"}]]

\* Down reaches whatever still runs: of all the contexts that Start, Login,
\* WaitSSOLogin and Up have created, in whichever order their critical
\* sections came, only the one that actCancel cancels can be alive
\* (server.go:119-132, 243-256, 332-343, 360-370).
OnlyActIsLive == \A c \in 1..nctx : Live(c) => c = act

\* A status that shows activity has someone behind it: Connecting a run or a
\* handler that is not over, Connected a run that has started its engine and
\* has yet to leave.  No order of the unsynchronised reads and writes in the
\* deferred functions leaves such a status behind (connect.go:34-39,
\* server.go:135-140 and 263-268).
ActiveStatusHasOwner ==
    /\ status = "Connecting" =>
          \/ \E c \in Ctx : run[c].pc \notin {"none", "wrap", "done"}
          \/ \E p \in Callers : caller[p].pc \in HandlerPcs
    /\ status = "Connected" =>
          \E c \in Ctx : run[c].pc \in {"up", "close", "check", "retry", "op", "exit", "idle"}

\* How far a run has come on its way out, when its context is cancelled.
Rank(l) ==
    CASE l = "mgmt" -> 1  [] l = "engine" -> 2 [] l = "set" -> 3   [] l = "up" -> 4
      [] l = "close" -> 5 [] l = "check" -> 6  [] l = "retry" -> 7 [] l = "op" -> 8
      [] l = "exit" -> 9  [] l = "idle" -> 10  [] l = "wrap" -> 11 [] OTHER -> 12

OnTheWayOut ==
    \A c \in cancelled : run'[c].pc # run[c].pc => Rank(run[c].pc) < Rank(run'[c].pc)

TakenByLateRun ==
    \A c \in Ctx : Live(c) /\ iface = c /\ iface' # c =>
        \E d \in 1..c : /\ d # c => d \in cancelled
                        /\ run[d].pc \in {"engine", "close"} /\ run'[d].pc # run[d].pc

LateRun == OnTheWayOut /\ TakenByLateRun

\* A cancelled run is not waited for, and its engine replaces and deletes the
\* interface by its name, also when that is its successor's by now.  What the
\* live run created is lost to no one else, and to each of them at most once
\* at the start and once at the stop of its engine: whatever its streams, its
\* back-off and the status say, a cancelled run never goes back to log in or
\* to start an engine, "if context cancelled we not start new backoff cycle",
\* and a context that is cancelled before it has a run never gets one
\* (connect.go:42-48, engine.go:130-137, iface_linux.go:66-72).
OnlyLateRunsTakeOver == [][LateRun]_vars

\* A run whose context is cancelled, by Down, by a later call or by the stop
\* of the service, comes to its end, whatever its streams and its back-off do
\* (connect.go:42-48).
CancelledRunEnds ==
    \A c \in Ctx : c \in cancelled ~> (Finished(c) \/ service = "crashed")
=============================================================================
