---------------------------- MODULE DaemonProofs ----------------------------
(***************************************************************************)
(* Proofs about Daemon, for any number of callers, programs and contexts.  *)
(*                                                                         *)
(* Everything rests on the order in which contexts are made: the one that  *)
(* actCancel cancels is the last one (LastInv), and what comes after it    *)
(* has no run yet (FreshInv).                                              *)
(***************************************************************************)
EXTENDS Daemon, TLAPS

RunType == [pc : RunPcs, failed : BOOLEAN, engineDone : BOOLEAN]

CallType == [prog : Programs \union {"none"}, key : BOOLEAN,
             pc : HandlerPcs \union CallPcs, ctx : 0..MaxCtx,
             waitDone : BOOLEAN, code : 0..MaxCtx,
             reply : {"none", "ok", "sso", "waited", "fail", "retry"}]

\* actCancel belongs to the context that was made last; there is none before
\* Start.
LastInv == act = nctx /\ (service = "starting" => nctx = 0)

\* A context that does not exist yet has no run.
FreshInv == \A c \in Ctx : c > nctx => run[c].pc = "none"

\* A run is under way: it has not come to the end of its deferred function.
UnderWay(c) == run[c].pc \notin {"none", "wrap", "done"}

CtxInv == TypeOK /\ LastInv /\ FreshInv

-----------------------------------------------------------------------------
(* Types *)

LEMMA InitType == Init => TypeOK
<1> SUFFICES ASSUME Init PROVE TypeOK
  OBVIOUS
<1>1. run \in [Ctx -> RunType]
  BY DEF Init, ClientRunInit, NoRun, RunType, RunPcs
<1>2. caller \in [Callers -> CallType]
  BY MaxCtxAssumption DEF Init, NoCall, CallType, CallPcs, NoCtx
<1>3. flow \in [client : BOOLEAN, code : 0..MaxCtx, exp : {"fresh", "past"}, wait : 0..MaxCtx]
  BY MaxCtxAssumption DEF Init, NoCtx
<1>4. nctx \in 0..MaxCtx /\ cancelled \subseteq 1..nctx /\ act \in 0..nctx /\ iface \in 0..MaxCtx
  BY MaxCtxAssumption DEF Init, ClientRunInit, NoCtx
<1> QED
  BY <1>1, <1>2, <1>3, <1>4 DEF Init, ClientRunInit, TypeOK, RunType, CallType, Statuses

\* What a program makes of a reply and of a status is a call it may make.
LEMMA NextCallsType ==
    ASSUME NEW prog, NEW reply
    PROVE  NextCalls(prog, reply) \subseteq CallPcs
BY DEF NextCalls, cmdUpNext, cmdLoginNext, menuUpNext, settingsNext, CallPcs

LEMMA AfterStatusType ==
    ASSUME NEW prog
    PROVE  AfterStatus(prog) \in CallPcs
BY DEF AfterStatus, cmdUpAfterStatus, menuUpAfterStatus, menuDownClick, CallPcs

LEMMA FirstCallType ==
    ASSUME NEW prog \in Programs
    PROVE  FirstCall(prog) \in CallPcs
BY ProgramsAssumption DEF FirstCall, CallPcs

\* The types of the caller a handler moves, answers or returns to.
LEMMA MoveType ==
    ASSUME caller \in [Callers -> CallType], NEW p \in Callers,
           NEW l \in HandlerPcs \union CallPcs, Move(p, l)
    PROVE  caller' \in [Callers -> CallType]
BY DEF Move, CallType

LEMMA AnswerType ==
    ASSUME caller \in [Callers -> CallType], NEW p \in Callers,
           NEW r \in {"none", "ok", "sso", "waited", "fail", "retry"}, Answer(p, r)
    PROVE  caller' \in [Callers -> CallType]
<1>1. caller[p] \in CallType
  OBVIOUS
<1>2. [caller[p] EXCEPT !.pc = "defer", !.reply = r] \in CallType
  BY <1>1 DEF CallType, HandlerPcs
<1>3. caller' = [caller EXCEPT ![p] = [caller[p] EXCEPT !.pc = "defer", !.reply = r]]
  BY DEF Answer
<1> QED BY <1>2, <1>3

LEMMA ReturnType ==
    ASSUME caller \in [Callers -> CallType], NEW p \in Callers, Return(p)
    PROVE  caller' \in [Callers -> CallType]
<1>1. PICK l \in NextCalls(caller[p].prog, caller[p].reply) :
        caller' = [caller EXCEPT ![p] =
                      IF l = "rest" THEN NoCall
                      ELSE [@ EXCEPT !.pc = l, !.ctx = NoCtx, !.waitDone = FALSE, !.reply = "none"]]
  BY DEF Return
<1>2. l \in CallPcs
  BY NextCallsType
<1>3. NoCall \in CallType
  BY MaxCtxAssumption DEF NoCall, CallType, CallPcs, NoCtx
<1>4. [caller[p] EXCEPT !.pc = l, !.ctx = NoCtx, !.waitDone = FALSE, !.reply = "none"] \in CallType
  <2>1. caller[p] \in CallType
    OBVIOUS
  <2>2. NoCtx \in 0..MaxCtx
    BY MaxCtxAssumption DEF NoCtx
  <2> QED BY <1>2, <2>1, <2>2 DEF CallType
<1> QED BY <1>1, <1>3, <1>4

LEMMA CancelWaitType ==
    ASSUME caller \in [Callers -> CallType], NEW p \in Callers,
           NEW l \in HandlerPcs, CancelWaitAndMove(p, l)
    PROVE  caller' \in [Callers -> CallType]
BY DEF CancelWaitAndMove, CallType

LEMMA NoCallType ==
    ASSUME caller \in [Callers -> CallType], NEW p \in Callers,
           caller' = [caller EXCEPT ![p] = NoCall]
    PROVE  caller' \in [Callers -> CallType]
<1>1. NoCall \in CallType
  BY MaxCtxAssumption DEF NoCall, CallType, CallPcs, NoCtx
<1> QED BY <1>1

LEMMA LoginResultType ==
    ASSUME registered \in BOOLEAN, NEW cred \in BOOLEAN, NEW res, LoginResult(cred, res)
    PROVE  registered' \in BOOLEAN
BY DEF LoginResult

\* A run that moves, ends or starts is a run.
LEMMA GotoType ==
    ASSUME run \in [Ctx -> RunType], NEW c \in Ctx, NEW l \in RunPcs, Goto(c, l)
    PROVE  run' \in [Ctx -> RunType]
BY DEF Goto, RunType

LEMMA RunEndsType ==
    ASSUME run \in [Ctx -> RunType], NEW c \in Ctx, RunEnds(c)
    PROVE  run' \in [Ctx -> RunType]
<1>1. \A l \in RunPcs : NoRun(l) \in RunType
  BY DEF NoRun, RunType
<1>2. PICK l \in RunPcs : run' = [run EXCEPT ![c] = NoRun(l)]
  BY DEF RunEnds, RunPcs
<1> QED BY <1>1, <1>2

LEMMA RunClientType ==
    ASSUME run \in [Ctx -> RunType], NEW c \in Ctx, RunClient(c)
    PROVE  /\ run' \in [Ctx -> RunType]
           /\ run'[c].pc = "op"
           /\ \A d \in Ctx : d # c => run'[d] = run[d]
<1>1. NoRun("op") \in RunType /\ NoRun("op").pc = "op"
  BY DEF NoRun, RunType, RunPcs
<1> QED BY <1>1 DEF RunClient

\* What a step of a run leaves alone: everything of the daemon, the contexts,
\* and the other runs.
LEMMA RunStepFrame ==
    ASSUME TypeOK, NEW c \in Ctx, ClientStep(c)
    PROVE  /\ UNCHANGED <<daemonVars, nctx, cancelled, registered>>
           /\ \A d \in Ctx : d # c => run'[d] = run[d]
           /\ run[c].pc \notin {"none", "done"} /\ run'[c].pc # "none"
<1> USE DEF ClientStep
<1>0. run \in [Ctx -> RunType]
  BY DEF TypeOK, RunType
<1>1. CASE RunOperation(c)
  BY <1>0, <1>1 DEF RunOperation, Goto, RunType
<1>2. CASE RunManagement(c)
  BY <1>0, <1>2 DEF RunManagement, Goto, RunType
<1>3. CASE RunEngine(c)
  BY <1>0, <1>3 DEF RunEngine, Goto, RunType
<1>4. CASE RunConnected(c)
  BY <1>0, <1>4 DEF RunConnected, Goto, RunType
<1>5. CASE RunEngineDone(c)
  BY <1>0, <1>5 DEF RunEngineDone, RunType
<1>6. CASE RunClose(c)
  BY <1>0, <1>6 DEF RunClose, Goto, RunType
<1>7. CASE RunCheck(c)
  BY <1>0, <1>7 DEF RunCheck, Goto, RunType
<1>8. CASE RunRetry(c)
  BY <1>0, <1>8 DEF RunRetry, Goto, RunType
<1>9. CASE RunExit(c)
  BY <1>0, <1>9 DEF RunExit, RunEnds, NoRun, Goto, RunType
<1>10. CASE RunSetIdle(c)
  BY <1>0, <1>10 DEF RunSetIdle, RunEnds, NoRun, RunType
<1>11. CASE RunWrap(c)
  BY <1>0, <1>11 DEF RunWrap, Goto, RunType
<1> QED
  BY <1>1, <1>2, <1>3, <1>4, <1>5, <1>6, <1>7, <1>8, <1>9, <1>10, <1>11 DEF RunStep

LEMMA RunStepType ==
    ASSUME TypeOK, NEW c \in Ctx, ClientStep(c)
    PROVE  /\ run' \in [Ctx -> RunType]
           /\ status' \in Statuses /\ err' \in {"none", "error", "reset"}
           /\ stale' \in BOOLEAN /\ iface' \in 0..MaxCtx
<1> USE DEF ClientStep
<1>0. /\ run \in [Ctx -> RunType] /\ status \in Statuses /\ err \in {"none", "error", "reset"}
      /\ stale \in BOOLEAN /\ iface \in 0..MaxCtx /\ c \in 0..MaxCtx /\ NoCtx \in 0..MaxCtx
  BY MaxCtxAssumption DEF TypeOK, RunType, Ctx, NoCtx
<1>a. {"op", "mgmt", "engine", "set", "up", "close", "check", "retry", "exit", "idle",
       "wrap", "done"} \subseteq RunPcs
  BY DEF RunPcs
<1>1. CASE RunOperation(c)
  BY <1>0, <1>1, <1>a, GotoType DEF RunOperation, Set, Statuses
<1>2. CASE RunManagement(c)
  BY <1>0, <1>2, <1>a, GotoType DEF RunManagement, Set, Wrap, Statuses
<1>3. CASE RunEngine(c)
  BY <1>0, <1>3, <1>a, GotoType DEF RunEngine, Wrap, CreateWithKernel
<1>4. CASE RunConnected(c)
  BY <1>0, <1>4, <1>a, GotoType DEF RunConnected, Set, Statuses
<1>5. CASE RunEngineDone(c)
  <2>1. run' \in [Ctx -> RunType]
    <3>1. [run[c] EXCEPT !.pc = "close", !.engineDone = FALSE] \in RunType
      BY <1>0, <1>a DEF RunType
    <3>2. run' = [run EXCEPT ![c] = [run[c] EXCEPT !.pc = "close", !.engineDone = FALSE]]
      BY <1>5 DEF RunEngineDone
    <3> QED BY <1>0, <3>1, <3>2
  <2>2. stale' \in BOOLEAN
    BY <1>5 DEF RunEngineDone
  <2> QED BY <1>0, <1>5, <2>1, <2>2 DEF RunEngineDone
<1>6. CASE RunClose(c)
  BY <1>0, <1>6, <1>a, GotoType DEF RunClose, Wrap, EngineStop
<1>7. CASE RunCheck(c)
  BY <1>0, <1>7, <1>a, GotoType DEF RunCheck
<1>8. CASE RunRetry(c)
  <2>1. run' \in [Ctx -> RunType]
    <3>1. [run[c] EXCEPT !.pc = "exit", !.failed = TRUE] \in RunType
      BY <1>0, <1>a DEF RunType
    <3>2. \/ Goto(c, "op")
          \/ run' = [run EXCEPT ![c] = [run[c] EXCEPT !.pc = "exit", !.failed = TRUE]]
      BY <1>8 DEF RunRetry
    <3> QED BY <1>0, <1>a, <3>1, <3>2, GotoType
  <2> QED BY <1>0, <1>8, <2>1 DEF RunRetry
<1>9. CASE RunExit(c)
  BY <1>0, <1>9, <1>a, GotoType, RunEndsType DEF RunExit
<1>10. CASE RunSetIdle(c)
  BY <1>0, <1>10, RunEndsType DEF RunSetIdle, Set, Statuses
<1>11. CASE RunWrap(c)
  BY <1>0, <1>11, <1>a, GotoType DEF RunWrap, Wrap
<1> QED
  BY <1>1, <1>2, <1>3, <1>4, <1>5, <1>6, <1>7, <1>8, <1>9, <1>10, <1>11 DEF RunStep

\* What a handler that goes on leaves alone: the contexts and the runs.
LEMMA HandlerFrame ==
    ASSUME NEW p \in Callers, HandlerStep(p)
    PROVE  /\ UNCHANGED <<nctx, cancelled, run, stale, iface, act>>
           /\ service' \in {service, "crashed"}
BY DEF HandlerStep, LoginConfig, LoginTry, LoginSetupKey, LoginFlowFails, LoginFlowPrevious,
       LoginReadPrevious, LoginFlowNew, LoginFlowPanics, LoginRequestCode, LoginNeedsSSO,
       WaitConnecting, WaitWrongCode, WaitCode, WaitRegister, WaitToken, WaitExpired,
       WaitFailed, WaitLogin, Deferred, DeferredSetIdle, runVars

FlowType == [client : BOOLEAN, code : 0..MaxCtx, exp : {"fresh", "past"}, wait : 0..MaxCtx]

LEMMA HandlerType ==
    ASSUME TypeOK, NEW p \in Callers, HandlerStep(p)
    PROVE  /\ status' \in Statuses /\ err' \in {"none", "error", "reset"}
           /\ registered' \in BOOLEAN /\ config' \in BOOLEAN
           /\ flow' \in FlowType
           /\ caller' \in [Callers -> CallType]
<1>0. /\ status \in Statuses /\ err \in {"none", "error", "reset"}
      /\ registered \in BOOLEAN /\ config \in BOOLEAN
      /\ flow \in FlowType
      /\ caller \in [Callers -> CallType]
  BY DEF TypeOK, FlowType, CallType
<1>a. {"config", "try", "key", "flow", "previous", "request", "needsLogin", "connecting",
       "code", "register", "token", "expired", "failed", "jwt", "defer", "setIdle"}
         \subseteq HandlerPcs
  BY DEF HandlerPcs
<1>b. {"Idle", "Connecting", "NeedsLogin", "LoginFailed"} \subseteq Statuses
  BY DEF Statuses
<1>c. caller[p] \in CallType /\ caller[p].ctx \in 0..MaxCtx
  BY <1>0 DEF CallType
<1>d. \A res : loginAttempt(res) \in Statuses /\ Failure(res) \in {"fail", "retry"}
  BY DEF loginAttempt, Failure, Statuses
<1>1. CASE LoginConfig(p)
  <2>1. Move(p, "try") \/ Answer(p, "retry")
    BY <1>1 DEF LoginConfig
  <2>2. caller' \in [Callers -> CallType]
    BY <1>0, <1>a, <2>1, MoveType, AnswerType
  <2> QED BY <1>0, <1>1, <2>2 DEF LoginConfig, runVars
<1>2. CASE LoginTry(p)
  <2>1. \/ Answer(p, "ok")
        \/ Move(p, IF caller[p].key THEN "key" ELSE "flow")
    BY <1>2 DEF LoginTry
  <2>2. caller' \in [Callers -> CallType]
    BY <1>0, <1>a, <2>1, MoveType, AnswerType
  <2>3. registered' \in BOOLEAN
    BY <1>0, <1>2, LoginResultType DEF LoginTry
  <2> QED BY <1>0, <1>2, <1>b, <2>2, <2>3 DEF LoginTry, Set
<1>3. CASE LoginSetupKey(p)
  <2>1. Answer(p, "ok") \/ \E res \in {"denied", "error"} : Answer(p, Failure(res))
    BY <1>3 DEF LoginSetupKey
  <2>2. caller' \in [Callers -> CallType]
    BY <1>0, <1>d, <2>1, AnswerType
  <2>3. registered' \in BOOLEAN
    BY <1>0, <1>3, LoginResultType DEF LoginSetupKey
  <2> QED BY <1>0, <1>3, <1>d, <2>2, <2>3 DEF LoginSetupKey, Set
<1>4. CASE LoginFlowFails(p)
  BY <1>0, <1>4, <1>b, AnswerType DEF LoginFlowFails, Set
<1>5. CASE LoginFlowPrevious(p)
  BY <1>0, <1>5, <1>a, MoveType DEF LoginFlowPrevious, runVars
<1>6. CASE LoginReadPrevious(p)
  <2>1. flow.code \in 0..MaxCtx
    BY <1>0 DEF FlowType
  <2>2. [caller[p] EXCEPT !.pc = "defer", !.reply = "sso", !.code = flow.code] \in CallType
    BY <1>a, <1>c, <2>1 DEF CallType
  <2>3. caller' = [caller EXCEPT ![p] =
                     [caller[p] EXCEPT !.pc = "defer", !.reply = "sso", !.code = flow.code]]
    BY <1>6 DEF LoginReadPrevious
  <2> QED BY <1>0, <1>6, <2>2, <2>3 DEF LoginReadPrevious, runVars
<1>7. CASE LoginFlowNew(p)
  BY <1>0, <1>7, <1>a, MoveType, CancelWaitType DEF LoginFlowNew, runVars
<1>8. CASE LoginFlowPanics(p)
  BY <1>0, <1>8 DEF LoginFlowPanics, runVars
<1>9. CASE LoginRequestCode(p)
  <2>1. [caller[p] EXCEPT !.pc = "needsLogin", !.code = caller[p].ctx] \in CallType
    BY <1>a, <1>c DEF CallType
  <2>2. [flow EXCEPT !.client = TRUE, !.code = caller[p].ctx, !.exp = "fresh"] \in FlowType
    BY <1>0, <1>c DEF FlowType
  <2>3. \/ Answer(p, "retry") /\ UNCHANGED flow
        \/ /\ flow' = [flow EXCEPT !.client = TRUE, !.code = caller[p].ctx, !.exp = "fresh"]
           /\ caller' = [caller EXCEPT ![p] =
                            [caller[p] EXCEPT !.pc = "needsLogin", !.code = caller[p].ctx]]
    BY <1>9 DEF LoginRequestCode
  <2>4. flow' \in FlowType /\ caller' \in [Callers -> CallType]
    BY <1>0, <2>1, <2>2, <2>3, AnswerType
  <2> QED BY <1>0, <1>9, <2>4 DEF LoginRequestCode, runVars
<1>10. CASE LoginNeedsSSO(p)
  BY <1>0, <1>10, <1>b, AnswerType DEF LoginNeedsSSO, Set
<1>11. CASE WaitConnecting(p)
  BY <1>0, <1>11, <1>a, <1>b, MoveType DEF WaitConnecting, Set
<1>12. CASE WaitWrongCode(p)
  BY <1>0, <1>12, <1>b, AnswerType DEF WaitWrongCode, Set
<1>13. CASE WaitCode(p)
  BY <1>0, <1>13, <1>a, CancelWaitType DEF WaitCode, runVars
<1>14. CASE WaitRegister(p)
  <2>1. flow' \in FlowType
    BY <1>0, <1>14, <1>c DEF WaitRegister, FlowType
  <2> QED BY <1>0, <1>14, <1>a, <2>1, MoveType DEF WaitRegister, runVars
<1>15. CASE WaitToken(p)
  BY <1>0, <1>15, <1>a, MoveType, AnswerType DEF WaitToken, runVars
<1>16. CASE WaitExpired(p)
  <2>1. flow' \in FlowType
    BY <1>0, <1>16 DEF WaitExpired, FlowType
  <2> QED BY <1>0, <1>16, <1>a, <2>1, MoveType DEF WaitExpired, runVars
<1>17. CASE WaitFailed(p)
  BY <1>0, <1>17, <1>b, AnswerType DEF WaitFailed, Set
<1>18. CASE WaitLogin(p)
  <2>1. Answer(p, "waited") \/ Answer(p, "fail")
    BY <1>18 DEF WaitLogin
  <2>2. caller' \in [Callers -> CallType]
    BY <1>0, <2>1, AnswerType
  <2>3. registered' \in BOOLEAN
    BY <1>0, <1>18, LoginResultType DEF WaitLogin
  <2> QED BY <1>0, <1>18, <1>d, <2>2, <2>3 DEF WaitLogin, Set
<1>19. CASE Deferred(p)
  BY <1>0, <1>19, <1>a, MoveType, ReturnType DEF Deferred, runVars
<1>20. CASE DeferredSetIdle(p)
  BY <1>0, <1>20, <1>b, ReturnType DEF DeferredSetIdle, Set
<1> QED
  BY <1>1, <1>2, <1>3, <1>4, <1>5, <1>6, <1>7, <1>8, <1>9, <1>10, <1>11, <1>12, <1>13,
     <1>14, <1>15, <1>16, <1>17, <1>18, <1>19, <1>20 DEF HandlerStep

\* What a call may do when it arrives: nothing to contexts and runs; a new
\* context, maybe with a run; or what Down does.  Whoever is in a handler stays.
CallKinds ==
    \/ UNCHANGED <<nctx, cancelled, act, run>>
    \/ NewCtx /\ (RunClient(nctx + 1) \/ UNCHANGED run)
    \/ cancelled' = cancelled \union Cancel(act) /\ UNCHANGED <<nctx, act, run>>

LEMMA CallStep ==
    ASSUME TypeOK, NEW p \in Callers, Begin(p) \/ Call(p)
    PROVE  /\ UNCHANGED <<status, err, registered, stale, iface, service, config, flow>>
           /\ caller' \in [Callers -> CallType]
           /\ \A q \in Callers : caller[q].pc \in HandlerPcs => caller'[q].pc \in HandlerPcs
           /\ CallKinds
<1>0. caller \in [Callers -> CallType] /\ caller[p] \in CallType /\ nctx \in 0..MaxCtx
  BY DEF TypeOK, CallType
<1>n. NoCall \in CallType
  BY MaxCtxAssumption DEF NoCall, CallType, CallPcs, NoCtx
<1>h. HandlerPcs \cap CallPcs = {} /\ {"config", "connecting"} \subseteq HandlerPcs
  BY DEF HandlerPcs, CallPcs
<1>c. {"rest", "status", "login", "wait", "up", "down"} = CallPcs
  BY DEF CallPcs
<1>1. ASSUME caller[p].pc \in CallPcs, NEW r \in CallType, caller' = [caller EXCEPT ![p] = r]
      PROVE  /\ caller' \in [Callers -> CallType]
             /\ \A q \in Callers : caller[q].pc \in HandlerPcs => caller'[q].pc \in HandlerPcs
  BY <1>0, <1>1, <1>h
<1>2. CASE Begin(p)
  <2>1. PICK prog \in Programs, key \in BOOLEAN :
          caller' = [caller EXCEPT ![p] =
                       [NoCall EXCEPT !.prog = prog, !.key = key, !.pc = FirstCall(prog)]]
    BY <1>2 DEF Begin
  <2>2. [NoCall EXCEPT !.prog = prog, !.key = key, !.pc = FirstCall(prog)] \in CallType
    BY <1>n, FirstCallType DEF CallType
  <2> QED BY <1>1, <1>2, <1>c, <2>1, <2>2 DEF Begin, At, runVars, CallKinds
<1>3. CASE StatusCall(p)
  <2> DEFINE l == AfterStatus(caller[p].prog)
  <2>1. l \in CallPcs
    BY AfterStatusType
  <2>2. [caller[p] EXCEPT !.pc = l] \in CallType
    BY <1>0, <2>1 DEF CallType
  <2>3. caller' = [caller EXCEPT ![p] = NoCall]
        \/ caller' = [caller EXCEPT ![p] = [caller[p] EXCEPT !.pc = l]]
    BY <1>3 DEF StatusCall
  <2> HIDE DEF l
  <2> QED BY <1>1, <1>3, <1>n, <1>c, <2>2, <2>3 DEF StatusCall, At, runVars, CallKinds
<1>4. CASE Up(p)
  BY <1>1, <1>4, <1>n, <1>c DEF Up, At, CallKinds
<1>5. CASE UpRefused(p)
  BY <1>1, <1>5, <1>n, <1>c DEF UpRefused, At, runVars, CallKinds
<1>6. CASE Down(p)
  BY <1>1, <1>6, <1>n, <1>c DEF Down, At, CallKinds
<1>7. CASE CallFails(p)
  BY <1>1, <1>7, <1>n, <1>c DEF CallFails, runVars, CallKinds
<1>8. CASE LoginCancel(p)
  <2>0. nctx + 1 \in 0..MaxCtx
    BY <1>0, <1>8, MaxCtxAssumption DEF LoginCancel, NewCtx
  <2>1. [caller[p] EXCEPT !.pc = "config", !.ctx = nctx + 1] \in CallType
    BY <1>0, <1>h, <2>0 DEF CallType
  <2>2. caller' = [caller EXCEPT ![p] = [caller[p] EXCEPT !.pc = "config", !.ctx = nctx + 1]]
    BY <1>8 DEF LoginCancel
  <2> QED BY <1>1, <1>8, <1>c, <2>1, <2>2 DEF LoginCancel, At, CallKinds
<1>9. CASE WaitCancel(p)
  <2>0. nctx + 1 \in 0..MaxCtx
    BY <1>0, <1>9, MaxCtxAssumption DEF WaitCancel, NewCtx
  <2>1. [caller[p] EXCEPT !.pc = "connecting", !.ctx = nctx + 1] \in CallType
    BY <1>0, <1>h, <2>0 DEF CallType
  <2>2. caller' = [caller EXCEPT ![p] = [caller[p] EXCEPT !.pc = "connecting", !.ctx = nctx + 1]]
    BY <1>9 DEF WaitCancel
  <2> QED BY <1>1, <1>9, <1>c, <2>1, <2>2 DEF WaitCancel, At, CallKinds
<1> QED BY <1>2, <1>3, <1>4, <1>5, <1>6, <1>7, <1>8, <1>9 DEF Call

\* Contexts and runs after a call.
LEMMA CallKindsCtx ==
    ASSUME CtxInv, CallKinds, UNCHANGED service, service # "starting"
    PROVE  /\ nctx' \in 0..MaxCtx /\ cancelled' \subseteq 1..nctx' /\ act' \in 0..nctx'
           /\ run' \in [Ctx -> RunType]
           /\ LastInv' /\ FreshInv'
<1>0. /\ nctx \in 0..MaxCtx /\ cancelled \subseteq 1..nctx /\ act \in 0..nctx
      /\ run \in [Ctx -> RunType] /\ LastInv /\ FreshInv /\ MaxCtx \in Nat
  BY MaxCtxAssumption DEF CtxInv, TypeOK, RunType
<1>1. CASE UNCHANGED <<nctx, cancelled, act, run>>
  BY <1>0, <1>1 DEF LastInv, FreshInv
<1>2. CASE NewCtx /\ (RunClient(nctx + 1) \/ UNCHANGED run)
  <2>1. /\ nctx < MaxCtx /\ nctx' = nctx + 1 /\ act' = nctx + 1
        /\ cancelled' \subseteq (cancelled \union {act, nctx + 1}) \ {0}
    BY <1>0, <1>2 DEF NewCtx, Cancel, NoCtx
  <2>2. nctx + 1 \in Ctx /\ \A c \in Ctx : c \in Nat
    BY <1>0, <2>1 DEF Ctx
  <2>3. /\ run' \in [Ctx -> RunType]
        /\ \A d \in Ctx : d # nctx + 1 => run'[d] = run[d]
    BY <1>0, <1>2, <2>2, RunClientType
  <2> QED BY <1>0, <2>1, <2>2, <2>3 DEF LastInv, FreshInv
<1>3. CASE cancelled' = cancelled \union Cancel(act) /\ UNCHANGED <<nctx, act, run>>
  BY <1>0, <1>3 DEF Cancel, NoCtx, LastInv, FreshInv
<1> QED BY <1>1, <1>2, <1>3 DEF CallKinds

LEMMA StreamsStep ==
    ASSUME TypeOK, Streams
    PROVE  /\ UNCHANGED <<daemonVars, status, nctx, cancelled, registered, iface>>
           /\ run' \in [Ctx -> RunType]
           /\ err' \in {"none", "error", "reset"} /\ stale' \in BOOLEAN
           /\ \A d \in Ctx : run'[d].pc = run[d].pc
<1>0. run \in [Ctx -> RunType]
  BY DEF TypeOK, RunType
<1>1. CASE StaleStreamEnds /\ UNCHANGED daemonVars
  BY <1>0, <1>1 DEF StaleStreamEnds, Wrap
<1>2. ASSUME NEW c \in Ctx, StreamEnds(c), UNCHANGED daemonVars
      PROVE  /\ UNCHANGED <<daemonVars, status, nctx, cancelled, registered, iface>>
             /\ run' \in [Ctx -> RunType]
             /\ err' \in {"none", "error", "reset"} /\ stale' \in BOOLEAN
             /\ \A d \in Ctx : run'[d].pc = run[d].pc
  BY <1>0, <1>2 DEF StreamEnds, Wrap, RunType
<1> QED BY <1>1, <1>2 DEF Streams

\* Start makes the first context, and maybe its run.
LEMMA StartStep ==
    ASSUME CtxInv, Start
    PROVE  /\ UNCHANGED <<cancelled, registered, stale, iface, flow, caller>>
           /\ nctx = 0 /\ cancelled = {} /\ nctx' = 1 /\ act' = 1
           /\ service' \in {"serving", "crashed"} /\ config' \in BOOLEAN
           /\ status' \in {status, "NeedsLogin"} /\ status' \in Statuses
           /\ err' \in {"none", "error", "reset"}
           /\ \/ UNCHANGED run
              \/ run' \in [Ctx -> RunType] /\ run'[1].pc = "op"
           /\ run' \in [Ctx -> RunType]
           /\ \A d \in Ctx : d # 1 => run'[d].pc = "none"
<1>0. /\ nctx = 0 /\ cancelled = {} /\ run \in [Ctx -> RunType] /\ 1 \in Ctx
      /\ \A c \in Ctx : run[c].pc = "none"
      /\ status \in Statuses /\ err \in {"none", "error", "reset"} /\ config \in BOOLEAN
  BY MaxCtxAssumption DEF CtxInv, LastInv, FreshInv, TypeOK, RunType, Ctx, Start
<1>1. /\ UNCHANGED <<cancelled, registered, stale, iface, flow, caller>>
      /\ nctx' = 1 /\ act' = 1
  BY DEF Start
<1>2. CASE service' = "serving" /\ config' = TRUE /\ RunClient(1) /\ UNCHANGED <<status, err>>
  BY <1>0, <1>1, <1>2, RunClientType
<1>3. CASE service' = "serving" /\ Set("NeedsLogin") /\ UNCHANGED <<config, run>>
  BY <1>0, <1>1, <1>3 DEF Set, Statuses
<1>4. CASE service' = "crashed" /\ UNCHANGED <<status, err, config, run>>
  BY <1>0, <1>1, <1>4
<1> QED BY <1>2, <1>3, <1>4 DEF Start

\* The types, with RunType, CallType and FlowType named.
TypeParts ==
    /\ status \in Statuses /\ err \in {"none", "error", "reset"}
    /\ nctx \in 0..MaxCtx /\ cancelled \subseteq 1..nctx /\ act \in 0..nctx
    /\ registered \in BOOLEAN /\ config \in BOOLEAN
    /\ run \in [Ctx -> RunType]
    /\ stale \in BOOLEAN /\ iface \in 0..MaxCtx
    /\ service \in {"starting", "serving", "stopped", "crashed"}
    /\ flow \in FlowType
    /\ caller \in [Callers -> CallType]

LEMMA TypeOKParts == TypeOK <=> TypeParts
BY DEF TypeOK, TypeParts, RunType, FlowType, CallType

\* The contexts and the types are inductive together.
LEMMA NextCtxInv ==
    ASSUME CtxInv, [Next]_vars
    PROVE  CtxInv'
<1>0. TypeOK /\ TypeParts /\ LastInv /\ FreshInv /\ MaxCtx \in Nat /\ MaxCtx >= 1
  BY MaxCtxAssumption, TypeOKParts DEF CtxInv
<1> SUFFICES TypeParts' /\ LastInv' /\ FreshInv'
  BY DEF CtxInv, TypeOK, TypeParts, RunType, FlowType, CallType
<1>1. CASE Start
  <2>1. nctx' \in 0..MaxCtx /\ cancelled' \subseteq 1..nctx' /\ act' \in 0..nctx' /\ LastInv'
    BY <1>0, <1>1, StartStep DEF LastInv
  <2>2. FreshInv'
    BY <1>1, StartStep DEF FreshInv, Ctx
  <2> QED BY <1>0, <1>1, <2>1, <2>2, StartStep DEF TypeParts
<1>2. CASE Stop
  BY <1>0, <1>2 DEF Stop, TypeParts, LastInv, FreshInv
<1>3. ASSUME service # "starting", NEW p \in Callers, Begin(p) \/ Call(p)
      PROVE  TypeParts' /\ LastInv' /\ FreshInv'
  BY <1>0, <1>3, CallStep, CallKindsCtx DEF TypeParts
<1>4. ASSUME service # "starting", NEW p \in Callers, HandlerStep(p)
      PROVE  TypeParts' /\ LastInv' /\ FreshInv'
  <2>1. TypeParts'
    BY <1>0, <1>4, HandlerFrame, HandlerType DEF TypeParts
  <2>2. LastInv' /\ FreshInv'
    BY <1>0, <1>4, HandlerFrame DEF LastInv, FreshInv
  <2> QED BY <2>1, <2>2
<1>5. ASSUME NEW c \in Ctx, ClientStep(c)
      PROVE  TypeParts' /\ LastInv' /\ FreshInv'
  <2>1. TypeParts'
    BY <1>0, <1>5, RunStepFrame, RunStepType DEF TypeParts, daemonVars
  <2>2. LastInv' /\ FreshInv'
    BY <1>0, <1>5, RunStepFrame DEF LastInv, FreshInv, daemonVars
  <2> QED BY <2>1, <2>2
<1>6. CASE Streams
  BY <1>0, <1>6, StreamsStep DEF TypeParts, LastInv, FreshInv, daemonVars
<1>7. CASE FlowAges
  BY <1>0, <1>7 DEF FlowAges, TypeParts, LastInv, FreshInv, runVars, FlowType
<1>8. CASE Unregister
  BY <1>0, <1>8 DEF Unregister, TypeParts, LastInv, FreshInv, daemonVars
<1>9. CASE UNCHANGED vars
  BY <1>0, <1>9 DEF vars, runVars, daemonVars, TypeParts, LastInv, FreshInv
<1> QED
  BY <1>1, <1>2, <1>3, <1>4, <1>5, <1>6, <1>7, <1>8, <1>9 DEF Next

LEMMA InitCtxInv == Init => CtxInv
BY InitType DEF Init, ClientRunInit, CtxInv, LastInv, FreshInv, NoRun, NoCtx

LEMMA CtxCorrect == Spec => []CtxInv
BY InitCtxInv, NextCtxInv, PTL DEF Spec

\* Every variable keeps its type, whatever callers, handlers, runs and streams
\* interleave: no path through the handlers leaves a status that does not
\* exist (server.go:101-116).
THEOREM DaemonTypeCorrect == Spec => []TypeOK
BY CtxCorrect, PTL DEF CtxInv

-----------------------------------------------------------------------------
(* Only the context that actCancel cancels can be alive *)

LEMMA NextOnlyActIsLive ==
    ASSUME CtxInv, OnlyActIsLive, [Next]_vars
    PROVE  OnlyActIsLive'
<1>0. /\ TypeOK /\ nctx \in 0..MaxCtx /\ cancelled \subseteq 1..nctx /\ act = nctx
      /\ \A c \in 1..nctx : c \notin cancelled => c = act
  BY DEF CtxInv, TypeOK, LastInv, OnlyActIsLive, Live
<1> SUFFICES \A c \in 1..nctx' : c \notin cancelled' => c = act'
  BY DEF OnlyActIsLive, Live
<1>1. CASE Start
  BY <1>1, StartStep
<1>2. CASE Stop
  BY <1>2 DEF Stop
<1>3. ASSUME NEW p \in Callers, Begin(p) \/ Call(p)
      PROVE  \A c \in 1..nctx' : c \notin cancelled' => c = act'
  <2>1. CallKinds
    BY <1>0, <1>3, CallStep
  <2>2. CASE UNCHANGED <<nctx, cancelled, act, run>>
    BY <1>0, <2>2
  <2>3. CASE NewCtx
    BY <1>0, <2>3 DEF NewCtx, Cancel, NoCtx
  <2>4. CASE cancelled' = cancelled \union Cancel(act) /\ UNCHANGED <<nctx, act, run>>
    BY <1>0, <2>4
  <2> QED BY <2>1, <2>2, <2>3, <2>4 DEF CallKinds
<1>4. ASSUME NEW p \in Callers, HandlerStep(p)
      PROVE  \A c \in 1..nctx' : c \notin cancelled' => c = act'
  BY <1>0, <1>4, HandlerFrame
<1>5. ASSUME NEW c \in Ctx, ClientStep(c)
      PROVE  \A d \in 1..nctx' : d \notin cancelled' => d = act'
  BY <1>0, <1>5, RunStepFrame DEF daemonVars
<1>6. CASE Streams
  BY <1>0, <1>6, StreamsStep DEF daemonVars
<1>7. CASE FlowAges \/ Unregister \/ UNCHANGED vars
  BY <1>0, <1>7 DEF FlowAges, Unregister, vars, runVars, daemonVars
<1> QED BY <1>1, <1>2, <1>3, <1>4, <1>5, <1>6, <1>7 DEF Next

\* Whatever the order of the critical sections of Start, Login, WaitSSOLogin
\* and Up, Down reaches all that still runs: a context that is not cancelled
\* is the one of actCancel (server.go:119-132, 243-256, 332-343, 360-370).
THEOREM DownReachesAll == Spec => []OnlyActIsLive
<1>1. Init => OnlyActIsLive
  BY DEF Init, ClientRunInit, OnlyActIsLive
<1> QED BY <1>1, NextOnlyActIsLive, CtxCorrect, PTL DEF Spec

-----------------------------------------------------------------------------
(* A status that shows activity has an owner *)

\* What a handler may leave behind when it goes on: it never says Connected,
\* and it never leaves while the status is Connecting.
LEMMA HandlerOwns ==
    ASSUME TypeOK, NEW p \in Callers, HandlerStep(p)
    PROVE  /\ status' = "Connected" => status = "Connected"
           /\ status' = "Connecting" =>
                 \E q \in Callers : caller'[q].pc \in HandlerPcs
<1>0. caller \in [Callers -> CallType] /\ caller[p].pc \in HandlerPcs
  <2>1. caller \in [Callers -> CallType]
    BY DEF TypeOK, CallType
  <2>2. caller[p].pc \in HandlerPcs
    BY DEF HandlerStep, LoginConfig, LoginTry, LoginSetupKey, LoginFlowFails,
       LoginFlowPrevious, LoginReadPrevious, LoginFlowNew, LoginFlowPanics, LoginRequestCode,
       LoginNeedsSSO, WaitConnecting, WaitWrongCode, WaitCode, WaitRegister, WaitToken,
       WaitExpired, WaitFailed, WaitLogin, Deferred, DeferredSetIdle, At, HandlerPcs
  <2> QED BY <2>1, <2>2
<1>1. \A l : Move(p, l) => caller'[p].pc = l
  BY <1>0 DEF Move, CallType
<1>2. \A r : Answer(p, r) => caller'[p].pc = "defer"
  BY <1>0 DEF Answer, CallType
<1>3. \A l : CancelWaitAndMove(p, l) => caller'[p].pc = l
  BY <1>0 DEF CancelWaitAndMove, CallType
<1>a. {"config", "try", "key", "flow", "previous", "request", "needsLogin", "connecting",
       "code", "register", "token", "expired", "failed", "jwt", "defer", "setIdle"}
         = HandlerPcs
  BY DEF HandlerPcs
<1>b. \A res : loginAttempt(res) \notin {"Connected", "Connecting"}
  BY DEF loginAttempt
<1>4. CASE LoginConfig(p) \/ LoginFlowPrevious(p) \/ LoginFlowNew(p) \/ WaitCode(p)
           \/ WaitRegister(p) \/ WaitToken(p) \/ WaitExpired(p) \/ WaitConnecting(p)
  BY <1>1, <1>2, <1>3, <1>4, <1>a DEF LoginConfig, LoginFlowPrevious, LoginFlowNew, WaitCode,
     WaitRegister, WaitToken, WaitExpired, WaitConnecting, Set, runVars
<1>5. CASE LoginTry(p) \/ LoginFlowFails(p) \/ LoginNeedsSSO(p) \/ WaitWrongCode(p)
           \/ WaitFailed(p)
  BY <1>1, <1>2, <1>5, <1>a DEF LoginTry, LoginFlowFails, LoginNeedsSSO, WaitWrongCode,
     WaitFailed, Set
<1>6. CASE LoginSetupKey(p) \/ WaitLogin(p)
  BY <1>2, <1>6, <1>a, <1>b DEF LoginSetupKey, WaitLogin, Set
<1>7. CASE LoginFlowPanics(p)
  BY <1>0, <1>7 DEF LoginFlowPanics, runVars
<1>8. CASE LoginReadPrevious(p)
  BY <1>0, <1>8, <1>a DEF LoginReadPrevious, CallType, runVars
<1>9. CASE LoginRequestCode(p)
  <2>1. caller'[p].pc \in {"defer", "needsLogin"}
    BY <1>0, <1>2, <1>9 DEF LoginRequestCode, CallType
  <2> QED BY <1>9, <1>a, <2>1 DEF LoginRequestCode, runVars
<1>10. CASE Deferred(p)
  BY <1>1, <1>10, <1>a DEF Deferred, Status, runVars
<1>11. CASE DeferredSetIdle(p)
  BY <1>11 DEF DeferredSetIdle, Set
<1> QED BY <1>4, <1>5, <1>6, <1>7, <1>8, <1>9, <1>10, <1>11 DEF HandlerStep

\* A run leaves while the status is neither Connecting nor Connected.
LEMMA RunOwns ==
    ASSUME TypeOK, NEW c \in Ctx, ClientStep(c)
    PROVE  /\ status' = "Connecting" => UnderWay(c)' \/ (status = "Connecting" /\ ~UnderWay(c))
           /\ status' = "Connected" =>
                 \/ run'[c].pc \in {"up", "close", "check", "retry", "op", "exit", "idle"}
                 \/ /\ status = "Connected"
                    /\ run[c].pc \notin {"up", "close", "check", "retry", "op", "exit", "idle"}
<1> USE DEF ClientStep, UnderWay
<1>0. run \in [Ctx -> RunType]
  BY DEF TypeOK, RunType
<1>1. CASE RunOperation(c)
  BY <1>0, <1>1 DEF RunOperation, Goto, RunType, Set
<1>2. CASE RunManagement(c)
  BY <1>0, <1>2 DEF RunManagement, Goto, RunType, Set, Wrap
<1>3. CASE RunEngine(c)
  BY <1>0, <1>3 DEF RunEngine, Goto, RunType, Wrap
<1>4. CASE RunConnected(c)
  BY <1>0, <1>4 DEF RunConnected, Goto, RunType, Set
<1>5. CASE RunEngineDone(c)
  BY <1>0, <1>5 DEF RunEngineDone, RunType
<1>6. CASE RunClose(c)
  BY <1>0, <1>6 DEF RunClose, Goto, RunType, Wrap
<1>7. CASE RunCheck(c)
  BY <1>0, <1>7 DEF RunCheck, Goto, RunType
<1>8. CASE RunRetry(c)
  BY <1>0, <1>8 DEF RunRetry, Goto, RunType
<1>9. CASE RunExit(c)
  BY <1>0, <1>9 DEF RunExit, Goto, RunType, Status
<1>10. CASE RunSetIdle(c)
  BY <1>0, <1>10 DEF RunSetIdle, Set
<1>11. CASE RunWrap(c)
  BY <1>0, <1>11 DEF RunWrap, Goto, RunType, Wrap
<1> QED
  BY <1>1, <1>2, <1>3, <1>4, <1>5, <1>6, <1>7, <1>8, <1>9, <1>10, <1>11 DEF RunStep

LEMMA NextActiveStatusHasOwner ==
    ASSUME CtxInv, ActiveStatusHasOwner, [Next]_vars
    PROVE  ActiveStatusHasOwner'
<1> USE DEF ActiveStatusHasOwner
<1>0. TypeOK /\ LastInv /\ FreshInv /\ nctx \in 0..MaxCtx /\ run \in [Ctx -> RunType]
      /\ 1 \in Ctx /\ \A c \in Ctx : c \in Nat
  BY MaxCtxAssumption DEF CtxInv, TypeOK, RunType, Ctx
<1>1. CASE Start
  BY <1>0, <1>1, StartStep
<1>2. CASE Stop
  BY <1>2 DEF Stop
<1>3. ASSUME NEW p \in Callers, Begin(p) \/ Call(p)
      PROVE  ActiveStatusHasOwner'
  <2>1. \A c \in Ctx : run[c].pc = "none" \/ run'[c] = run[c]
    <3>1. CASE NewCtx /\ RunClient(nctx + 1)
      <4>1. nctx + 1 \in Ctx /\ nctx + 1 > nctx
        BY <1>0, <3>1, MaxCtxAssumption DEF NewCtx, Ctx
      <4>2. run[nctx + 1].pc = "none"
        BY <1>0, <4>1 DEF FreshInv
      <4> QED BY <1>0, <3>1, <4>1, <4>2, RunClientType
    <3>2. CASE UNCHANGED run
      BY <3>2
    <3> QED BY <1>0, <1>3, <3>1, <3>2, CallStep DEF CallKinds
  <2>2. /\ UNCHANGED status
        /\ \A q \in Callers : caller[q].pc \in HandlerPcs => caller'[q].pc \in HandlerPcs
    BY <1>0, <1>3, CallStep
  <2> QED BY <2>1, <2>2
<1>4. ASSUME NEW p \in Callers, HandlerStep(p)
      PROVE  ActiveStatusHasOwner'
  BY <1>0, <1>4, HandlerFrame, HandlerOwns
<1>5. ASSUME NEW c \in Ctx, ClientStep(c)
      PROVE  ActiveStatusHasOwner'
  <2>1. UNCHANGED caller /\ \A d \in Ctx : d # c => run'[d] = run[d]
    BY <1>0, <1>5, RunStepFrame DEF daemonVars
  <2> QED BY <1>0, <1>5, <2>1, RunOwns DEF UnderWay
<1>6. CASE Streams
  BY <1>0, <1>6, StreamsStep DEF daemonVars
<1>7. CASE FlowAges \/ Unregister \/ UNCHANGED vars
  BY <1>7 DEF FlowAges, Unregister, vars, runVars, daemonVars
<1> QED BY <1>1, <1>2, <1>3, <1>4, <1>5, <1>6, <1>7 DEF Next

\* Connecting and Connected are never left behind by the unsynchronised reads
\* and writes of the deferred functions: whoever leaves has set the status to
\* Idle, or has seen it say that a login is needed (connect.go:34-39,
\* server.go:135-140 and 263-268).
THEOREM StatusIsOwned == Spec => []ActiveStatusHasOwner
<1>1. Init => ActiveStatusHasOwner
  BY DEF Init, ClientRunInit, ActiveStatusHasOwner
<1> QED BY <1>1, NextActiveStatusHasOwner, CtxCorrect, PTL DEF Spec

-----------------------------------------------------------------------------
(* Only late runs take the interface over, and they only leave *)

\* A step of a run: it touches the interface at "engine" and at "close", and
\* moves on when it does; and when its context is cancelled it comes closer to
\* its end.
LEMMA RunAdvances ==
    ASSUME TypeOK, NEW c \in Ctx, ClientStep(c)
    PROVE  /\ iface' # iface => /\ run[c].pc \in {"engine", "close"}
                                /\ run'[c].pc # run[c].pc
           /\ c \in cancelled => Rank(run[c].pc) < Rank(run'[c].pc)
<1> USE DEF ClientStep, Rank
<1>0. run \in [Ctx -> RunType]
  BY DEF TypeOK, RunType
<1>g. \A l : Goto(c, l) => run'[c].pc = l
  BY <1>0 DEF Goto, RunType
<1>e. RunEnds(c) => run'[c].pc \in {"wrap", "done"}
  BY <1>0 DEF RunEnds, NoRun
<1>1. CASE RunOperation(c)
  BY <1>1, <1>g DEF RunOperation
<1>2. CASE RunManagement(c)
  BY <1>2, <1>g DEF RunManagement
<1>3. CASE RunEngine(c)
  <2>1. run[c].pc = "engine" /\ run'[c].pc \in {"set", "retry"}
    BY <1>3, <1>g DEF RunEngine
  <2> QED BY <2>1
<1>4. CASE RunConnected(c)
  BY <1>4, <1>g DEF RunConnected
<1>5. CASE RunEngineDone(c)
  BY <1>0, <1>5 DEF RunEngineDone, RunType
<1>6. CASE RunClose(c)
  BY <1>6, <1>g DEF RunClose
<1>7. CASE RunCheck(c)
  BY <1>7, <1>g DEF RunCheck
<1>8. CASE RunRetry(c)
  <2>1. run'[c].pc \in {"op", "exit"}
    BY <1>0, <1>8, <1>g DEF RunRetry, RunType
  <2> QED BY <1>8, <2>1 DEF RunRetry
<1>9. CASE RunExit(c)
  BY <1>9, <1>g, <1>e DEF RunExit
<1>10. CASE RunSetIdle(c)
  BY <1>10, <1>e DEF RunSetIdle
<1>11. CASE RunWrap(c)
  BY <1>11, <1>g DEF RunWrap
<1> QED
  BY <1>1, <1>2, <1>3, <1>4, <1>5, <1>6, <1>7, <1>8, <1>9, <1>10, <1>11 DEF RunStep

LEMMA NextLateRun ==
    ASSUME CtxInv, OnlyActIsLive, [Next]_vars
    PROVE  LateRun
<1>0. /\ TypeOK /\ LastInv /\ FreshInv /\ nctx \in 0..MaxCtx /\ run \in [Ctx -> RunType]
      /\ cancelled \subseteq 1..nctx /\ cancelled \subseteq Ctx
      /\ \A c \in Ctx : c \in Nat /\ c >= 1
  BY MaxCtxAssumption DEF CtxInv, TypeOK, RunType, Ctx
<1>1. ASSUME UNCHANGED iface, \A c \in cancelled : run'[c].pc = run[c].pc
      PROVE  LateRun
  BY <1>1 DEF LateRun, OnTheWayOut, TakenByLateRun
<1>2. CASE Start
  BY <1>1, <1>2, StartStep
<1>3. ASSUME NEW p \in Callers, Begin(p) \/ Call(p)
      PROVE  LateRun
  <2>1. UNCHANGED iface /\ CallKinds
    BY <1>0, <1>3, CallStep
  <2>2. CASE NewCtx /\ RunClient(nctx + 1)
    <3>1. nctx + 1 \in Ctx /\ nctx + 1 \notin cancelled
      BY <1>0, <2>2, MaxCtxAssumption DEF NewCtx, Ctx
    <3> QED BY <1>0, <1>1, <2>1, <2>2, <3>1, RunClientType
  <2>3. CASE UNCHANGED run
    BY <1>1, <2>1, <2>3
  <2> QED BY <2>1, <2>2, <2>3 DEF CallKinds
<1>4. ASSUME NEW d \in Ctx, ClientStep(d)
      PROVE  LateRun
  <2>1. /\ \A c \in Ctx : c # d => run'[c] = run[c]
        /\ run[d].pc # "none"
    BY <1>0, <1>4, RunStepFrame
  <2>2. OnTheWayOut
    BY <1>0, <1>4, <2>1, RunAdvances DEF OnTheWayOut
  <2>3. TakenByLateRun
    <3> SUFFICES ASSUME NEW c \in Ctx, Live(c), iface = c, iface' # c
                 PROVE  \E b \in 1..c : /\ b # c => b \in cancelled
                                        /\ run[b].pc \in {"engine", "close"}
                                        /\ run'[b].pc # run[b].pc
      BY DEF TakenByLateRun
    <3>1. run[d].pc \in {"engine", "close"} /\ run'[d].pc # run[d].pc
      BY <1>0, <1>4, RunAdvances
    <3>2. c = nctx
      BY <1>0 DEF OnlyActIsLive, LastInv, Live
    <3>3. d \in 1..nctx
      BY <1>0, <2>1 DEF FreshInv
    <3>4. d # c => d \in cancelled
      BY <1>0, <3>2, <3>3 DEF OnlyActIsLive, LastInv, Live
    <3> QED BY <3>1, <3>2, <3>3, <3>4
  <2> QED BY <2>2, <2>3 DEF LateRun
<1>5. CASE Streams
  BY <1>0, <1>1, <1>5, StreamsStep
<1>6. CASE \/ Stop \/ FlowAges \/ Unregister \/ UNCHANGED vars
           \/ \E p \in Callers : HandlerStep(p)
  BY <1>1, <1>6, HandlerFrame DEF Stop, FlowAges, Unregister, vars, runVars
<1> QED BY <1>2, <1>3, <1>4, <1>5, <1>6 DEF Next

\* What the live run created of the WireGuard interface is taken or deleted by
\* its own run or by an older one that is cancelled, at the start or at the
\* stop of an engine, and a cancelled run only ever comes closer to its end:
\* it never logs in or starts an engine again (connect.go:42-48,
\* engine.go:130-137, iface_linux.go:66-72).
THEOREM LateRunsOnlyLeave == Spec => OnlyLateRunsTakeOver
<1>1. CtxInv /\ OnlyActIsLive /\ [Next]_vars => [LateRun]_vars
  BY NextLateRun
<1> QED BY <1>1, CtxCorrect, DownReachesAll, PTL DEF Spec, OnlyLateRunsTakeOver
=============================================================================
