----------------------------- MODULE ClientLogin ----------------------------
(***************************************************************************)
(* A console login of the client: foregroundLogin (client/cmd/login.go),   *)
(* internal.Login and the device flow, the calls of the management client  *)
(* (management/client/grpc.go), and the handlers that answer them in       *)
(* management/server/grpcserver.go.                                        *)
(*                                                                         *)
(* Calls are lost and time out, also when the server still works on them;  *)
(* the server makes a new key each time it starts; the client retries.     *)
(***************************************************************************)
EXTENDS ClientConfig

CONSTANTS
    MaxTries,       \* bound: attempts of one WithBackOff cycle
    MaxStarts,      \* bound: starts of one management service
    SSOServers      \* services that are set up for the device flow and tokens

ASSUME LoginAssumption ==
    /\ MaxTries \in Nat \ {0} /\ MaxStarts \in Nat \ {0} /\ SSOServers \subseteq Servers

VARIABLES
    server,     \* Servers -> number of the start, peers, one-off key not used
    login,      \* Procs -> state of foregroundLogin
    requests    \* Login calls that a server has yet to answer

loginVars == <<server, login, requests>>
vars == <<configVars, loginVars>>

NoLogin == [phase |-> "probe", key |-> 0, jwt |-> FALSE, tries |-> 0,
            reply |-> None, answered |-> FALSE]

Init ==
    /\ ConfigInit
    /\ server = [s \in Servers |->
                   [start |-> 1, unused |-> TRUE,
                    peers |-> IF old # None /\ s = DefaultServer THEN {1} ELSE {}]]
    /\ login = [p \in Procs |-> NoLogin]
    /\ requests = {}

-----------------------------------------------------------------------------
(* Keys and sealed messages: box.Open succeeds exactly for the two keys     *)
(* that box.Seal was given, one private and one public on either side.      *)

PeerKey(k) == <<"peer", k>>

ServerKey(s, n) == <<s, n>>

Encrypt(msg, remote, own) == [keys |-> {remote, own}, msg |-> msg]

Decrypts(m, remote, own) == m.keys = {remote, own}

EncryptMessage(remote, own, msg) == Encrypt(msg, remote, own)

DecryptMessage(remote, own, m) == Decrypts(m, remote, own)

-----------------------------------------------------------------------------
(* The management service *)

\* A call that was given up by its client is nobody's.
Answer(rq, reply) ==
    /\ requests' = requests \ {rq}
    /\ login' = IF rq.proc = None THEN login ELSE [login EXCEPT ![rq.proc].reply = reply]

Refuse(code) == [code |-> code, body |-> None]

Accept(rq) ==
    [code |-> "OK",
     body |-> EncryptMessage(PeerKey(rq.wg), ServerKey(rq.srv, server[rq.srv].start), "config")]

Readable(rq) ==
    DecryptMessage(PeerKey(rq.wg), ServerKey(rq.srv, server[rq.srv].start), rq.body)

GetPeer(rq) == rq.wg \in server[rq.srv].peers

\* Server.Login up to registerPeer: the look at the peer and the registration
\* are not one step.  UpdatePeerMeta may fail.
ServerLogin(rq) ==
    /\ rq \in requests /\ rq.stage = "sent"
    /\ \/ ~Readable(rq) /\ Answer(rq, Refuse("InvalidArgument")) /\ UNCHANGED faults
       \/ Readable(rq) /\ GetPeer(rq) /\ Answer(rq, Accept(rq)) /\ UNCHANGED faults
       \/ Readable(rq) /\ GetPeer(rq) /\ Answer(rq, Refuse("Internal")) /\ Fault
       \/ /\ Readable(rq) /\ ~GetPeer(rq) /\ rq.body.msg = "none"
          /\ Answer(rq, Refuse("PermissionDenied")) /\ UNCHANGED faults
       \/ /\ Readable(rq) /\ ~GetPeer(rq) /\ rq.body.msg # "none"
          /\ requests' = (requests \ {rq}) \union {[rq EXCEPT !.stage = "register"]}
          /\ UNCHANGED <<login, faults>>
    /\ UNCHANGED <<disk, old, nkeys, replaced, proc, runs, server>>

\* AddPeer takes a one-off key that is known and unused.
Admitted(rq) ==
    \/ rq.body.msg = "oneoff" /\ server[rq.srv].unused
    \/ rq.body.msg = "jwt" /\ rq.srv \in SSOServers

RefusalCode(rq) ==
    CASE rq.body.msg = "oneoff" -> "FailedPrecondition"
      [] rq.body.msg = "jwt" -> "Internal"
      [] OTHER -> "NotFound"

AddPeer(rq) ==
    server' = [server EXCEPT ![rq.srv].peers = @ \union {rq.wg},
                             ![rq.srv].unused = @ /\ rq.body.msg # "oneoff"]

\* Mutant: the answer of AddPeer is not looked at.
registerPeerAnyway(rq) ==
    /\ rq \in requests /\ rq.stage = "register"
    /\ IF Admitted(rq) THEN AddPeer(rq) ELSE UNCHANGED server
    /\ Answer(rq, Accept(rq))
    /\ UNCHANGED configVars

\* Server.registerPeer: a failure comes before the peer is added (the token,
\* the account, the write) or after it (the map, the updates of others).
registerPeer(rq) ==
    /\ rq \in requests /\ rq.stage = "register"
    /\ \/ Admitted(rq) /\ AddPeer(rq) /\ Answer(rq, Accept(rq)) /\ UNCHANGED faults
       \/ Admitted(rq) /\ AddPeer(rq) /\ Answer(rq, Refuse("Internal")) /\ Fault
       \/ Admitted(rq) /\ UNCHANGED server /\ Answer(rq, Refuse("Internal")) /\ Fault
       \/ /\ ~Admitted(rq) /\ UNCHANGED server
          /\ Answer(rq, Refuse(RefusalCode(rq))) /\ UNCHANGED faults
    /\ UNCHANGED <<disk, old, nkeys, replaced, proc, runs>>

\* NewServer makes a key; the peers are in the store, open calls are cut off.
NewServer(s) ==
    /\ server[s].start < MaxStarts
    /\ Fault
    /\ server' = [server EXCEPT ![s].start = @ + 1]
    /\ requests' = {rq \in requests : rq.srv # s}
    /\ login' = [p \in Procs |->
                   IF \E rq \in requests : rq.srv = s /\ rq.proc = p
                   THEN [login[p] EXCEPT !.reply = Refuse("Unavailable")] ELSE login[p]]
    /\ UNCHANGED <<disk, old, nkeys, replaced, proc, runs>>

-----------------------------------------------------------------------------
(* foregroundLogin: what an answer of internal.Login leads to *)

Abandon(p) == End(p, "error") /\ login' = [login EXCEPT ![p] = NoLogin]

\* Mutant: the time that has gone is not looked at.
RetryForever(p) ==
    /\ Goto(p, "dial")
    /\ login' = [login EXCEPT ![p].tries = @ + 1, ![p].reply = None]

\* Mutant: a call that was not answered ends the command.
RetryNever(p) == Abandon(p)

\* WithBackOff repeats the whole of internal.Login.
Retry(p) ==
    IF login[p].tries + 1 < MaxTries
    THEN Goto(p, "dial") /\ login' = [login EXCEPT ![p].tries = @ + 1, ![p].reply = None]
    ELSE Abandon(p)

Enter(p, phase) ==
    /\ Goto(p, "dial")
    /\ login' = [login EXCEPT ![p].phase = phase, ![p].tries = 0,
                              ![p].reply = None]

Pointless == {"InvalidArgument", "PermissionDenied"}

\* The first cycle, without credentials, finds out whether they are needed.
probeDone(p, code) ==
    CASE code = "OK" -> Enter(p, "final")
      [] code \in Pointless ->
            Enter(p, IF proc[p].cmd.setup = "none" THEN "sso" ELSE "final")
      [] OTHER -> Retry(p)

\* The second cycle: a refusal for good is no error either.
finalDone(p, code) ==
    IF code \in Pointless \union {"OK"}
    THEN /\ proc' = [proc EXCEPT ![p].pc = "rest", ![p].result = "ok"]
         /\ login' = [login EXCEPT ![p] = [NoLogin EXCEPT !.answered = (code = "OK")]]
    ELSE Retry(p)

\* The device flow is tried once.
LoginDone(p, code) ==
    CASE login[p].phase = "probe" -> probeDone(p, code)
      [] login[p].phase = "final" -> finalDone(p, code)
      [] OTHER -> Abandon(p)

-----------------------------------------------------------------------------
(* internal.Login and the calls of the management client *)

URL(p) == proc[p].cfg.url

\* The connection, or a call that changes nothing, is not answered in time.
CallFails(p) ==
    /\ proc[p].pc \in {"dial", "flow"}
    /\ Fault
    /\ LoginDone(p, "DeadlineExceeded")
    /\ UNCHANGED <<disk, old, nkeys, replaced, runs, server, requests>>

\* The connection is made; nothing else depends on it.
NewClient(p) == At(p, "dial")

GetServerPublicKey(p) ==
    /\ NewClient(p)
    /\ login' = [login EXCEPT ![p].key = server[URL(p)].start]
    /\ Goto(p, IF login[p].phase = "sso" THEN "flow" ELSE "login")
    /\ UNCHANGED <<disk, old, nkeys, replaced, runs, faults, server, requests>>

\* GrpcClient.login: seal the request and wait for two seconds.
Send(p, cred) ==
    /\ requests' = requests \union
          {[proc |-> p, srv |-> URL(p), wg |-> proc[p].cfg.key, stage |-> "sent",
            body |-> EncryptMessage(ServerKey(URL(p), login[p].key),
                                    PeerKey(proc[p].cfg.key), cred)]}
    /\ UNCHANGED <<disk, old, nkeys, replaced, runs, faults, server, login>>

Login(p) ==
    /\ At(p, "login")
    /\ Send(p, "none")
    /\ Goto(p, "loginWait")

Credential(p) ==
    IF login[p].phase = "probe" THEN "none"
    ELSE IF login[p].jwt THEN "jwt" ELSE proc[p].cmd.setup

\* registerPeer of the client: what is no UUID, as the empty key, and comes
\* without a token is refused at once.
RegisterRefused(p) ==
    /\ At(p, "register")
    /\ Credential(p) \in {"none", "malformed"}
    /\ LoginDone(p, "InvalidArgument")
    /\ UNCHANGED <<disk, old, nkeys, replaced, runs, faults, server, requests>>

Register(p) ==
    /\ At(p, "register")
    /\ Credential(p) \notin {"none", "malformed"}
    /\ Send(p, Credential(p))
    /\ Goto(p, "registerWait")

\* The answer is opened with the key that was asked for before the call.
Code(p) ==
    LET r == login[p].reply
    IN  IF r.code = "OK" /\ ~DecryptMessage(ServerKey(URL(p), login[p].key),
                                            PeerKey(proc[p].cfg.key), r.body)
        THEN "error" ELSE r.code

\* loginPeer: a peer that is not known is registered.
Receive(p) ==
    /\ proc[p].pc \in {"loginWait", "registerWait"}
    /\ login[p].reply # None
    /\ IF At(p, "loginWait") /\ Code(p) = "PermissionDenied"
       THEN Goto(p, "register") /\ login' = [login EXCEPT ![p].reply = None]
       ELSE LoginDone(p, Code(p))
    /\ UNCHANGED <<disk, old, nkeys, replaced, runs, faults, server, requests>>

\* The time is up.  The call may reach the server, or its answer may be on the
\* way: the handler is not stopped.
Timeout(p) ==
    /\ proc[p].pc \in {"loginWait", "registerWait"}
    /\ Fault
    /\ LoginDone(p, "DeadlineExceeded")
    /\ LET mine == {rq \in requests : rq.proc = p}
       IN  \/ requests' = requests \ mine
           \/ requests' = (requests \ mine) \union {[rq EXCEPT !.proc = None] : rq \in mine}
    /\ UNCHANGED <<disk, old, nkeys, replaced, runs, server>>

-----------------------------------------------------------------------------
(* foregroundGetTokenInfo *)

\* The handler: it changes nothing, so that the call is one step.
ServerFlow(s, wg, body) ==
    CASE ~DecryptMessage(PeerKey(wg), ServerKey(s, server[s].start), body) -> "InvalidArgument"
      [] s \notin SSOServers -> "NotFound"
      [] OTHER -> "OK"

GetDeviceAuthorizationFlow(p) ==
    ServerFlow(URL(p), proc[p].cfg.key,
               EncryptMessage(ServerKey(URL(p), login[p].key), PeerKey(proc[p].cfg.key), "flow"))

GetDeviceAuthorizationFlowInfo(p) ==
    /\ At(p, "flow")
    /\ IF GetDeviceAuthorizationFlow(p) = "OK"
       THEN Goto(p, "code") /\ UNCHANGED login
       ELSE Abandon(p)
    /\ UNCHANGED <<disk, old, nkeys, replaced, runs, faults, server, requests>>

\* The identity provider hands out a code, or does not.
RequestDeviceCode(p) ==
    /\ At(p, "code")
    /\ (Goto(p, "token") /\ UNCHANGED login) \/ Abandon(p)
    /\ UNCHANGED <<disk, old, nkeys, replaced, runs, faults, server, requests>>

\* How the polling of the token endpoint ends, and which end is a token.
requestToken == {"token", "otherAudience", "denied", "unreachable", "expired"}

isValidAccessToken(answer) == answer = "token"

\* The user logs in on the web; or refuses, or waits for too long.
WaitToken(p) ==
    /\ At(p, "token")
    /\ \E answer \in requestToken :
          \/ /\ isValidAccessToken(answer)
             /\ Goto(p, "dial")
             /\ login' = [login EXCEPT ![p].phase = "final", ![p].jwt = TRUE]
          \/ ~isValidAccessToken(answer) /\ Abandon(p)
    /\ UNCHANGED <<disk, old, nkeys, replaced, runs, faults, server, requests>>

-----------------------------------------------------------------------------

Start(p) == Begin(p) /\ login' = [login EXCEPT ![p] = NoLogin] /\ UNCHANGED <<server, requests>>

\* A killed process leaves its call to the server.
Kill(p) ==
    /\ Killed(p)
    /\ login' = [login EXCEPT ![p] = NoLogin]
    /\ requests' = {[rq EXCEPT !.proc = IF @ = p THEN None ELSE @] : rq \in requests}
    /\ UNCHANGED server

ClientStep(p) ==
    \/ ConfigStep(p) /\ UNCHANGED loginVars
    \/ GetServerPublicKey(p) \/ Login(p) \/ RegisterRefused(p)
    \/ Register(p) \/ Receive(p) \/ GetDeviceAuthorizationFlowInfo(p)
    \/ RequestDeviceCode(p) \/ WaitToken(p)

ServerStep == \E rq \in requests : ServerLogin(rq) \/ registerPeer(rq)

Next ==
    \/ \E p \in Procs : Start(p) \/ Kill(p) \/ ClientStep(p) \/ CallFails(p) \/ Timeout(p)
    \/ ServerStep
    \/ \E s \in Servers : NewServer(s)

Spec == Init /\ [][Next]_vars

\* A process that is not killed goes on, and a server answers what it was sent.
FairSpec == Spec /\ (\A p \in Procs : WF_vars(ClientStep(p))) /\ WF_vars(ServerStep)

-----------------------------------------------------------------------------
(* Properties *)

Pcs == {"rest", "rebrand", "copy", "copyData", "stat", "create", "read", "write", "dial",
        "login", "loginWait", "register", "registerWait", "flow", "code", "token"}

Credentials == {"none", "unknown", "oneoff", "jwt"}

Codes == {"OK", "InvalidArgument", "PermissionDenied", "NotFound", "FailedPrecondition",
          "Internal", "Unavailable"}

WgKeys == {PeerKey(k) : k \in 1..MaxKeys}
            \union {ServerKey(s, n) : s \in Servers, n \in 1..MaxStarts}

IsSealed(m, msgs) == m.keys \subseteq WgKeys /\ m.msg \in msgs

\* The type of every variable; a process does not repeat a call for ever, and
\* what it accepted is an answer sealed for it (root.go:162-178).
TypeOK ==
    /\ disk \in ConfigType \union {None, Torn} /\ old \in ConfigType \union {None}
    /\ nkeys \in 0..MaxKeys /\ replaced \subseteq 1..nkeys
    /\ runs \in 0..MaxRuns /\ faults \in 0..MaxFaults
    /\ proc \in [Procs -> [pc : Pcs, cmd : Commands \union {NoCommand},
                           cfg : ConfigType \union {None},
                           result : {"none", "ok", "error", "killed"}]]
    /\ server \in [Servers -> [start : 1..MaxStarts, unused : BOOLEAN, peers : SUBSET (1..nkeys)]]
    /\ \A p \in Procs :
          /\ login[p].phase \in {"probe", "sso", "final"} /\ login[p].key \in 0..MaxStarts
          /\ login[p].tries < MaxTries
          /\ login[p].reply # None =>
                /\ login[p].reply.code \in Codes
                /\ login[p].reply.code = "OK" => IsSealed(login[p].reply.body, {"config"})
    /\ \A rq \in requests :
          /\ rq.proc \in Procs \union {None} /\ rq.srv \in Servers /\ rq.wg \in 1..nkeys
          /\ rq.stage \in {"sent", "register"} /\ IsSealed(rq.body, Credentials)

\* A key that a management service has registered is the one in the file, so
\* that the next start is the same peer: it was saved before it was used, and
\* no crash, failed write or change of the settings loses it.  Only after two
\* first starts have raced, each with a key of its own, is a key overwritten,
\* by the second of them or by a refresh of what was read between them
\* (config.go:44-69, 103-149).
KeyIsOnDisk ==
    \A s \in Servers : \A k \in server[s].peers :
        \/ Whole(disk) /\ disk.key = k
        \/ k \in replaced
        \/ old # None /\ k = old.key

\* A machine that was registered by an earlier version keeps its identity: no
\* process makes a new key while the old file waits to be moved, whichever
\* process is killed in the middle of the copy (root.go:180-201, 279-288).
IdentitySurvivesRebrand == old # None /\ Whole(disk) => disk.key = old.key

\* A login that was answered is a registration that lasts: the peer is known
\* to the service the configuration names, also when answers were lost, the
\* call was repeated or the service restarted (login.go:59-95, grpcserver.go:245-310).
AnsweredIsRegistered ==
    \A p \in Procs :
        login[p].answered => proc[p].cfg.key \in server[URL(p)].peers

\* A console login with a key that may be used ends with the peer registered,
\* whichever call of it is lost or is answered after its time: the repeated
\* call finds the peer, or fails once more while the first is on its way.
\* Unless it is killed, another first start has used the key for another peer,
\* or the service restarted (cmd/login.go:109-145, root.go:162-178).
ValidKeyLogsIn ==
    \A p \in Procs :
        (proc[p].pc = "dial" /\ proc[p].cmd.setup = "oneoff")
            ~> /\ At(p, "rest")
               /\ \/ proc[p].result = "killed" \/ replaced # {}
                  \/ /\ proc[p].result = "ok"
                     /\ login[p].answered \/ server[URL(p)].start > 1
=============================================================================
