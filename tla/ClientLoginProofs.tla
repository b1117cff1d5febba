------------------------- MODULE ClientLoginProofs --------------------------
(***************************************************************************)
(* Proofs about ClientConfig and ClientLogin, for any processes, services, *)
(* commands and bounds: what a service has registered is not lost by the   *)
(* machine, an earlier version's identity is kept, and a login that was    *)
(* answered is a registration.                                             *)
(*                                                                         *)
(* The inductive invariant has a part for the file and one for the calls.  *)
(* ConfigInv tells the two kinds of machine apart: one with an old file    *)
(* never makes a key, one without never copies, and until two first starts *)
(* have raced its processes hold the key that is on disk.  LoginInv says   *)
(* whose call a request is, and what the peer's service knows when it has  *)
(* answered.                                                               *)
(***************************************************************************)
EXTENDS ClientLogin, TLAPS

\* Where a process has a configuration, has a key of the service, and waits
\* for an answer.
Configured == {"write", "dial", "login", "loginWait", "register", "registerWait",
               "flow", "code", "token"}

Keyed == {"login", "loginWait", "register", "registerWait", "flow"}

Waits == {"loginWait", "registerWait"}

ProcType == [pc : Pcs, cmd : Commands \union {NoCommand}, cfg : ConfigType \union {None},
             result : {"none", "ok", "error", "killed"}]

ConfigTypeInv ==
    /\ disk \in ConfigType \union {None, Torn} /\ old \in ConfigType \union {None}
    /\ nkeys \in 0..MaxKeys /\ replaced \subseteq 1..nkeys
    /\ runs \in 0..MaxRuns /\ faults \in 0..MaxFaults
    /\ proc \in [Procs -> ProcType]
    /\ Whole(disk) => disk.key <= nkeys
    /\ \A p \in Procs : proc[p].cfg # None => proc[p].cfg.key <= nkeys
    /\ \A p \in Procs : proc[p].pc \in Configured => proc[p].cfg # None

\* A machine with an old file: its key is the only one there ever is.
OldInv ==
    old # None =>
        /\ nkeys = 1 /\ old.key = 1
        /\ \A p \in Procs : /\ proc[p].pc # "create"
                            /\ proc[p].pc \in {"stat", "copyData"} => disk # None

\* A machine without: nothing is copied, and a configuration in use has been
\* saved; its key is the one in the file, until two first starts have raced.
FreshInv ==
    old = None =>
        /\ disk # Torn
        /\ \A p \in Procs : /\ proc[p].pc \notin {"copy", "copyData"}
                            /\ proc[p].cfg # None =>
                                  Whole(disk) /\ (replaced = {} => proc[p].cfg.key = disk.key)

\* The key is in the file, was overwritten after a race, or is the old one.
Kept(k) == (Whole(disk) /\ disk.key = k) \/ k \in replaced \/ (old # None /\ k = old.key)

KeptInv == \A p \in Procs : proc[p].cfg # None => Kept(proc[p].cfg.key)

ConfigInv == ConfigTypeInv /\ OldInv /\ FreshInv /\ KeptInv

SealedType(msgs) == [keys : SUBSET WgKeys, msg : msgs]

ReplyType == [code : {"OK"}, body : SealedType({"config"})]
                \union [code : Codes \ {"OK"}, body : {None}]

LoginType == [phase : {"probe", "sso", "final"}, key : 0..MaxStarts, jwt : BOOLEAN,
              tries : 0..(MaxTries - 1), reply : ReplyType \union {None}, answered : BOOLEAN]

RequestType == [proc : Procs \union {None}, srv : Servers, wg : 1..MaxKeys,
                stage : {"sent", "register"}, body : SealedType(Credentials)]

ServerType == [start : 1..MaxStarts, unused : BOOLEAN, peers : SUBSET (1..MaxKeys)]

Known(k, s) == k \in server[s].peers

ServerInv ==
    /\ server \in [Servers -> ServerType]
    /\ \A s \in Servers : \A k \in server[s].peers : k <= nkeys /\ Kept(k)

\* What login[p] = l says of the process pr.
Agrees(pr, l) ==
    /\ pr.pc \in Keyed => l.key # 0
    /\ l.reply # None => pr.pc \in Waits
    /\ l.reply # None /\ l.reply.code = "OK" => Known(pr.cfg.key, pr.cfg.url)
    /\ l.answered => pr.pc = "rest" /\ pr.cfg # None /\ Known(pr.cfg.key, pr.cfg.url)

PhaseInv == login \in [Procs -> LoginType] /\ \A p \in Procs : Agrees(proc[p], login[p])

\* A call that a process waits for was made with its configuration.
IsOf(rq, p) ==
    /\ proc[p].pc \in Waits /\ login[p].reply = None
    /\ rq.srv = proc[p].cfg.url /\ rq.wg = proc[p].cfg.key

RequestInv ==
    /\ requests \subseteq RequestType
    /\ \A rq \in requests : rq.wg <= nkeys /\ Kept(rq.wg)
    /\ \A rq \in requests : rq.proc # None => IsOf(rq, rq.proc)
    /\ \A r1, r2 \in requests : r1.proc # None /\ r1.proc = r2.proc => r1 = r2

LoginInv == ServerInv /\ PhaseInv /\ RequestInv

Inv == ConfigInv /\ LoginInv

-----------------------------------------------------------------------------
(* The configuration file *)

LEMMA WholeType ==
    ASSUME ConfigTypeInv, Whole(disk)
    PROVE  disk \in ConfigType /\ disk.key \in 1..nkeys
<1>1. disk \in ConfigType
  BY DEF ConfigTypeInv, Whole
<1> QED BY <1>1, ConfigAssumption DEF ConfigTypeInv, ConfigType

LEMMA CommandFacts == \A c \in Commands \union {NoCommand} : c \in CommandType
BY ConfigAssumption DEF NoCommand, CommandType

LEMMA IdleFacts ==
    ASSUME NEW result \in {"none", "ok", "error", "killed"}
    PROVE  /\ Idle(result) \in ProcType
           /\ Idle(result).pc = "rest" /\ Idle(result).cfg = None
BY DEF Idle, ProcType, Pcs

LEMMA MoveFacts ==
    ASSUME NEW r \in ProcType, NEW l \in Pcs
    PROVE  /\ [r EXCEPT !.pc = l] \in ProcType
           /\ [r EXCEPT !.pc = l].pc = l
           /\ [r EXCEPT !.pc = l].cfg = r.cfg
           /\ [r EXCEPT !.pc = l].cmd = r.cmd
BY DEF ProcType

\* What process p may become while the file stays as it is.
Fits(p, r) ==
    /\ r \in ProcType
    /\ r.pc \in Configured => r.cfg # None
    /\ r.cfg # None => r.cfg = proc[p].cfg \/ (Whole(disk) /\ r.cfg.key = disk.key)
    /\ r.pc \in {"copy", "copyData"} => old # None
    /\ r.pc = "create" => old = None
    /\ r.pc \in {"stat", "copyData"} => old = None \/ disk # None

\* A step of one process that leaves the file alone.
LEMMA FileFrame ==
    ASSUME ConfigInv, NEW p \in Procs, NEW r, Fits(p, r),
           proc' = [proc EXCEPT ![p] = r],
           UNCHANGED <<disk, old, nkeys, replaced>>,
           runs' \in 0..MaxRuns, faults' \in 0..MaxFaults
    PROVE  ConfigInv'
<1> USE DEF ConfigInv
<1>1. proc \in [Procs -> ProcType] /\ proc' \in [Procs -> ProcType] /\ proc'[p] = r
  BY DEF ConfigTypeInv, Fits
<1>2. \A q \in Procs : q # p => proc'[q] = proc[q]
  BY <1>1
<1>3. Whole(disk)' = Whole(disk)
  BY DEF Whole
<1>4. r.cfg # None => /\ r.cfg.key <= nkeys /\ Kept(r.cfg.key)
                      /\ old = None => Whole(disk) /\ (replaced = {} => r.cfg.key = disk.key)
  <2>1. CASE r.cfg = proc[p].cfg
    BY <2>1 DEF ConfigTypeInv, KeptInv, FreshInv
  <2>2. CASE Whole(disk) /\ r.cfg.key = disk.key
    BY <2>2, WholeType DEF ConfigTypeInv, Kept
  <2> QED BY <2>1, <2>2 DEF Fits
<1>5. ConfigTypeInv'
  BY <1>1, <1>2, <1>3, <1>4 DEF ConfigTypeInv, Fits
<1>6. OldInv'
  BY <1>1, <1>2 DEF OldInv, Fits
<1>7. FreshInv'
  BY <1>1, <1>2, <1>3, <1>4 DEF FreshInv, Fits
<1>8. KeptInv'
  <2>1. \A k : Kept(k) => Kept(k)'
    BY <1>3 DEF Kept
  <2> QED BY <1>1, <1>2, <1>4, <2>1 DEF KeptInv
<1> QED BY <1>5, <1>6, <1>7, <1>8

LEMMA FaultCount == ConfigTypeInv /\ Fault => faults' \in 0..MaxFaults
BY ConfigAssumption DEF ConfigTypeInv, Fault

LEMMA EndFits ==
    ASSUME NEW p \in Procs, NEW result \in {"none", "ok", "error", "killed"}
    PROVE  Fits(p, Idle(result))
BY IdleFacts DEF Fits, Configured

\* Whatever ends the process leaves the file to the others.
LEMMA EndKeepsConfig ==
    ASSUME ConfigInv, NEW p \in Procs, NEW result \in {"ok", "error", "killed"}, End(p, result),
           UNCHANGED <<disk, old, nkeys, replaced, runs>>, faults' \in 0..MaxFaults
    PROVE  ConfigInv'
<1>1. proc' = [proc EXCEPT ![p] = Idle(result)]
  BY DEF End
<1>2. runs' \in 0..MaxRuns
  BY DEF ConfigInv, ConfigTypeInv
<1> QED BY <1>1, <1>2, EndFits, FileFrame

LEMMA GotoIs ==
    ASSUME ConfigTypeInv, NEW p \in Procs, NEW l, Goto(p, l)
    PROVE  proc' = [proc EXCEPT ![p] = [proc[p] EXCEPT !.pc = l]]
BY DEF ConfigTypeInv, Goto

LEMMA MoveKeepsConfig ==
    ASSUME ConfigInv, NEW p \in Procs, NEW l \in Pcs, Goto(p, l),
           Fits(p, [proc[p] EXCEPT !.pc = l]),
           UNCHANGED <<disk, old, nkeys, replaced, runs, faults>>
    PROVE  ConfigInv'
<1>1. proc' = [proc EXCEPT ![p] = [proc[p] EXCEPT !.pc = l]]
  BY GotoIs DEF ConfigInv
<1>2. runs' \in 0..MaxRuns /\ faults' \in 0..MaxFaults
  BY DEF ConfigInv, ConfigTypeInv
<1> QED BY <1>1, <1>2, FileFrame

LEMMA MoveFits ==
    ASSUME ConfigInv, NEW p \in Procs, NEW l \in Pcs \ {"create", "copy", "copyData", "stat"},
           l \in Configured => proc[p].cfg # None
    PROVE  Fits(p, [proc[p] EXCEPT !.pc = l])
<1>1. proc[p] \in ProcType
  BY DEF ConfigInv, ConfigTypeInv
<1> QED BY <1>1, MoveFacts DEF Fits

LEMMA BeginKeepsConfig ==
    ASSUME ConfigInv, NEW p \in Procs, Begin(p)
    PROVE  ConfigInv'
<1> PICK c \in Commands :
        /\ c.kind = "daemon" => old = None \/ Whole(disk)
        /\ proc' = [proc EXCEPT ![p] =
                        [Idle("none") EXCEPT !.cmd = c,
                             !.pc = IF c.kind = "daemon" THEN "stat" ELSE "rebrand"]]
  BY DEF Begin
<1> DEFINE l == IF c.kind = "daemon" THEN "stat" ELSE "rebrand"
           r == [Idle("none") EXCEPT !.cmd = c, !.pc = l]
<1>1. l \in {"stat", "rebrand"} /\ (l = "stat" => old = None \/ Whole(disk))
  OBVIOUS
<1>2. r \in ProcType /\ r.pc = l /\ r.cfg = None
  <2> HIDE DEF l
  <2> DEFINE i == Idle("none")
  <2>1. i \in ProcType /\ i.cfg = None
    BY IdleFacts
  <2> HIDE DEF i
  <2>2. [i EXCEPT !.cmd = c, !.pc = l] \in ProcType
    BY <1>1, <2>1 DEF ProcType, Pcs
  <2>3. [i EXCEPT !.cmd = c, !.pc = l].pc = l /\ [i EXCEPT !.cmd = c, !.pc = l].cfg = None
    BY <2>1 DEF ProcType
  <2> QED BY <2>2, <2>3 DEF i
<1>3. Fits(p, r)
  <2> HIDE DEF l, r
  <2> QED BY <1>1, <1>2 DEF Fits, Configured, Whole
<1>4. runs' \in 0..MaxRuns
  BY ConfigAssumption DEF ConfigInv, ConfigTypeInv, Begin
<1>5. faults' \in 0..MaxFaults /\ UNCHANGED <<disk, old, nkeys, replaced>>
  BY DEF ConfigInv, ConfigTypeInv, Begin
<1> QED BY <1>3, <1>4, <1>5, FileFrame

\* The steps of a process that do not write the file.
LEMMA LooksKeepConfig ==
    ASSUME ConfigInv, NEW p \in Procs, handleRebrand(p) \/ GetConfig(p)
    PROVE  ConfigInv'
<1>0. proc[p] \in ProcType
  BY DEF ConfigInv, ConfigTypeInv
<1>1. CASE handleRebrand(p)
  <2> DEFINE l == IF migrateToNetbird THEN "copy" ELSE "stat"
  <2>1. l \in Pcs /\ Goto(p, l)
    BY <1>1 DEF handleRebrand, Pcs
  <2>2. l \in {"copy", "stat"} /\ (l = "copy" => old # None) /\ (l = "stat" => old = None \/ disk # None)
    BY DEF migrateToNetbird
  <2> HIDE DEF l
  <2>3. Fits(p, [proc[p] EXCEPT !.pc = l])
    BY <1>0, <2>1, <2>2, MoveFacts DEF Fits, Configured
  <2> QED BY <1>1, <2>1, <2>3, MoveKeepsConfig DEF handleRebrand
<1>2. CASE GetConfig(p)
  <2> DEFINE l == IF disk = None THEN "create" ELSE "read"
  <2>1. l \in Pcs /\ Goto(p, l)
    BY <1>2 DEF GetConfig, Pcs
  <2>2. l \in {"create", "read"} /\ (l = "create" => disk = None)
    OBVIOUS
  <2>3. l = "create" => old = None
    BY <2>2, <1>2 DEF GetConfig, At, ConfigInv, OldInv
  <2> HIDE DEF l
  <2>4. Fits(p, [proc[p] EXCEPT !.pc = l])
    BY <1>0, <2>1, <2>2, <2>3, MoveFacts DEF Fits, Configured
  <2> QED BY <1>2, <2>1, <2>4, MoveKeepsConfig DEF GetConfig
<1> QED BY <1>1, <1>2

LEMMA AfterConfigIs == \A p \in Procs : AfterConfig(p) \in {"rest", "dial"}
BY DEF AfterConfig

LEMMA UpdatedFacts ==
    ASSUME NEW c \in ConfigType, NEW cmd \in CommandType, parseURL(Updated(c, cmd).url)
    PROVE  Updated(c, cmd) \in ConfigType /\ Updated(c, cmd).key = c.key
<1> DEFINE url == IF cmd.url = NoURL THEN c.url ELSE cmd.url
           psk == IF cmd.psk = Stars THEN c.psk ELSE cmd.psk
<1>1. Updated(c, cmd) = [key |-> c.key, url |-> url, psk |-> psk]
  <2>1. Updated(c, cmd) = [c EXCEPT !.url = url, !.psk = psk]
    BY DEF Updated
  <2> HIDE DEF url, psk
  <2> QED BY <2>1 DEF ConfigType
<1>2. psk \in PreSharedKeys \union {NoKey, Stars}
  BY DEF ConfigType, CommandType
<1> QED BY <1>1, <1>2 DEF ConfigType, parseURL

LEMMA ReadKeepsConfig ==
    ASSUME ConfigInv, NEW p \in Procs, ReadConfig(p)
    PROVE  ConfigInv'
<1> DEFINE c == Updated(disk, proc[p].cmd)
<1>0. proc \in [Procs -> ProcType] /\ proc[p] \in ProcType
  BY DEF ConfigInv, ConfigTypeInv
<1>1. ASSUME Whole(disk), parseURL(c.url), NEW l \in {AfterConfig(p), "write"},
             proc' = [proc EXCEPT ![p].cfg = c, ![p].pc = l]
      PROVE  ConfigInv'
  <2>1. c \in ConfigType /\ c.key = disk.key
    BY <1>0, <1>1, WholeType, UpdatedFacts, CommandFacts DEF ConfigInv, ProcType
  <2>2. l \in {"rest", "dial", "write"}
    BY AfterConfigIs
  <2> HIDE DEF c
  <2> DEFINE r == [proc[p] EXCEPT !.cfg = c, !.pc = l]
  <2>3. proc' = [proc EXCEPT ![p] = r]
    BY <1>0, <1>1
  <2>4. r \in ProcType /\ r.cfg = c /\ r.pc = l
    BY <1>0, <2>1, <2>2 DEF ProcType, Pcs
  <2>5. c # None
    BY <2>1, ConfigAssumption
  <2> HIDE DEF r
  <2>6. Fits(p, r)
    BY <1>1, <2>1, <2>2, <2>4, <2>5 DEF Fits
  <2>7. UNCHANGED <<disk, old, nkeys, replaced>> /\ runs' \in 0..MaxRuns /\ faults' \in 0..MaxFaults
    BY DEF ReadConfig, ConfigInv, ConfigTypeInv
  <2> QED BY <2>3, <2>6, <2>7, FileFrame
<1>2. CASE End(p, "error")
  <2>1. UNCHANGED <<disk, old, nkeys, replaced, runs>> /\ faults' \in 0..MaxFaults
    BY DEF ReadConfig, ConfigInv, ConfigTypeInv
  <2> QED BY <1>2, <2>1, EndKeepsConfig
<1> QED BY <1>1, <1>2 DEF ReadConfig

\* A machine with an old file has one key, and whatever is written holds it.
LEMMA WriteOld ==
    ASSUME ConfigInv, old # None, UNCHANGED <<old, nkeys, runs>>,
           replaced' \subseteq 1..nkeys, faults' \in 0..MaxFaults,
           disk' \in ConfigType \union {Torn}, Whole(disk)' => disk'.key <= nkeys,
           NEW p \in Procs, NEW r \in ProcType, proc' = [proc EXCEPT ![p] = r],
           r.pc # "create", r.pc \in Configured => r.cfg # None,
           r.cfg # None => r.cfg.key <= nkeys
    PROVE  ConfigInv' /\ \A k \in 1..nkeys : Kept(k)'
<1>1. proc \in [Procs -> ProcType] /\ proc' \in [Procs -> ProcType] /\ proc'[p] = r
  BY DEF ConfigInv, ConfigTypeInv
<1>2. \A q \in Procs : q # p => proc'[q] = proc[q]
  BY <1>1
<1>3. disk' # None
  BY ConfigAssumption
<1>4. ConfigTypeInv'
  BY <1>1, <1>2 DEF ConfigInv, ConfigTypeInv
<1>5. OldInv'
  BY <1>1, <1>2, <1>3 DEF ConfigInv, OldInv
<1>6. \A k \in 1..nkeys : Kept(k)'
  <2>1. nkeys = 1 /\ old.key = 1
    BY DEF ConfigInv, OldInv
  <2>2. \A k \in 1..nkeys : k = old.key
    BY <2>1
  <2> QED BY <2>2 DEF Kept
<1>7. KeptInv'
  <2> SUFFICES ASSUME NEW q \in Procs, proc'[q].cfg # None
               PROVE  Kept(proc[q].cfg.key)'
    BY DEF KeptInv
  <2>1. proc'[q].cfg \in ConfigType
    BY <1>1 DEF ProcType
  <2>2. proc'[q].cfg.key <= nkeys /\ proc'[q].cfg.key \in 1..MaxKeys
    BY <1>4, <2>1 DEF ConfigTypeInv, ConfigType
  <2>3. proc'[q].cfg.key \in 1..nkeys
    BY <2>2 DEF ConfigInv, ConfigTypeInv
  <2> QED BY <1>6, <2>3
<1> QED BY <1>4, <1>5, <1>6, <1>7 DEF ConfigInv, FreshInv

\* On a machine without one, what is in the file is what the writer uses, and
\* a key that it overwrites is recorded.
LEMMA WriteNew ==
    ASSUME ConfigInv, old = None, old' = old, runs' \in 0..MaxRuns, faults' \in 0..MaxFaults,
           nkeys' \in 0..MaxKeys, nkeys <= nkeys',
           replaced \subseteq replaced', replaced' \subseteq 1..nkeys',
           NEW p \in Procs, NEW r \in ProcType, proc' = [proc EXCEPT ![p] = r],
           r.pc \notin {"copy", "copyData"},
           r.cfg \in ConfigType, r.cfg.key <= nkeys', disk' = r.cfg,
           Whole(disk) /\ disk.key # r.cfg.key => disk.key \in replaced'
    PROVE  ConfigInv' /\ \A k : Kept(k) => Kept(k)'
<1>1. proc \in [Procs -> ProcType] /\ proc' \in [Procs -> ProcType] /\ proc'[p] = r
  BY DEF ConfigInv, ConfigTypeInv
<1>2. \A q \in Procs : q # p => proc'[q] = proc[q]
  BY <1>1
<1>3. disk' # None /\ disk' # Torn /\ r.cfg # None /\ Whole(disk)'
  BY ConfigAssumption DEF Whole
<1>4. ConfigTypeInv'
  <2>1. \A q \in Procs : proc'[q].cfg # None => proc'[q].cfg.key <= nkeys'
    <3> SUFFICES ASSUME NEW q \in Procs, q # p, proc[q].cfg # None
                 PROVE  proc[q].cfg.key <= nkeys'
      BY <1>1, <1>2
    <3>1. proc[q].cfg \in ConfigType /\ proc[q].cfg.key <= nkeys
      BY <1>1 DEF ConfigInv, ConfigTypeInv, ProcType
    <3>2. proc[q].cfg.key \in Nat /\ nkeys \in Nat /\ nkeys' \in Nat
      BY <3>1 DEF ConfigType, ConfigInv, ConfigTypeInv
    <3> QED BY <3>1, <3>2
  <2> QED BY <1>1, <1>2, <1>3, <2>1 DEF ConfigInv, ConfigTypeInv
<1>5. FreshInv'
  <2>1. replaced' = {} => \A q \in Procs : proc'[q].cfg # None => proc'[q].cfg.key = disk'.key
    <3> SUFFICES ASSUME replaced' = {}, NEW q \in Procs, q # p, proc[q].cfg # None
                 PROVE  proc[q].cfg.key = r.cfg.key
      BY <1>1, <1>2
    <3>1. Whole(disk) /\ proc[q].cfg.key = disk.key
      BY DEF ConfigInv, FreshInv
    <3> QED BY <3>1
  <2>2. \A q \in Procs : proc'[q].pc \notin {"copy", "copyData"}
    BY <1>1, <1>2 DEF ConfigInv, FreshInv
  <2> QED BY <1>3, <2>1, <2>2 DEF FreshInv
<1>6. \A k : Kept(k) => Kept(k)'
  BY <1>3 DEF Kept
<1>7. KeptInv'
  <2>1. Kept(r.cfg.key)'
    BY <1>3 DEF Kept
  <2> QED BY <1>1, <1>2, <1>6, <2>1 DEF ConfigInv, KeptInv
<1> QED BY <1>4, <1>5, <1>6, <1>7 DEF ConfigInv, OldInv

\* No step of a process loses a key that was kept.
KeepsKeys == \A k \in 1..nkeys : Kept(k) => Kept(k)'

LEMMA SameFileKeepsKeys == UNCHANGED <<disk, old, replaced>> => KeepsKeys
BY DEF KeepsKeys, Kept, Whole

LEMMA CopyKeepsConfig ==
    ASSUME ConfigInv, NEW p \in Procs, cpFileCreate(p) \/ cpFileCopy(p)
    PROVE  ConfigInv' /\ KeepsKeys
<1>0. /\ proc[p] \in ProcType /\ old \in ConfigType \union {None}
      /\ disk \in ConfigType \union {None, Torn}
      /\ replaced \subseteq 1..nkeys /\ faults \in 0..MaxFaults
  BY DEF ConfigInv, ConfigTypeInv
<1>1. old # None
  BY DEF cpFileCreate, cpFileCopy, At, ConfigInv, FreshInv
<1>2. nkeys = 1 /\ old.key = 1 /\ old \in ConfigType
  BY <1>0, <1>1 DEF ConfigInv, OldInv
<1>3. proc[p].cfg # None => proc[p].cfg.key <= nkeys
  BY DEF ConfigInv, ConfigTypeInv
<1>4. CASE cpFileCreate(p)
  <2> DEFINE r == [proc[p] EXCEPT !.pc = "copyData"]
  <2>1. r \in ProcType /\ r.pc = "copyData" /\ r.cfg = proc[p].cfg
    BY <1>0, MoveFacts DEF Pcs
  <2>2. proc' = [proc EXCEPT ![p] = r]
    BY <1>4, GotoIs DEF cpFileCreate, ConfigInv
  <2>3. /\ disk' = Torn /\ UNCHANGED <<old, nkeys, runs>>
        /\ replaced' \subseteq 1..nkeys /\ faults' \in 0..MaxFaults
    BY <1>0, <1>4 DEF cpFileCreate
  <2>4. ~Whole(disk)'
    BY <2>3 DEF Whole
  <2> HIDE DEF r
  <2>5. ConfigInv' /\ \A k \in 1..nkeys : Kept(k)'
    BY <1>1, <1>3, <2>1, <2>2, <2>3, <2>4, WriteOld DEF Configured
  <2> QED BY <2>5 DEF KeepsKeys
<1>5. CASE /\ At(p, "copyData") /\ disk' = (IF disk = Torn THEN old ELSE disk)
           /\ Goto(p, "stat") /\ UNCHANGED <<faults, old, nkeys, replaced, runs>>
  <2> DEFINE r == [proc[p] EXCEPT !.pc = "stat"]
  <2>1. r \in ProcType /\ r.pc = "stat" /\ r.cfg = proc[p].cfg
    BY <1>0, MoveFacts DEF Pcs
  <2>2. proc' = [proc EXCEPT ![p] = r]
    BY <1>5, GotoIs DEF ConfigInv
  <2>3. disk # None
    BY <1>1, <1>5 DEF At, ConfigInv, OldInv
  <2>4. disk' \in ConfigType /\ disk'.key <= nkeys
    BY <1>0, <1>2, <1>5, <2>3 DEF ConfigInv, ConfigTypeInv, Whole
  <2> HIDE DEF r
  <2>5. ConfigInv' /\ \A k \in 1..nkeys : Kept(k)'
    BY <1>0, <1>1, <1>3, <1>5, <2>1, <2>2, <2>4, WriteOld DEF Configured
  <2> QED BY <2>5 DEF KeepsKeys
<1>6. CASE Fault /\ End(p, "error") /\ UNCHANGED <<disk, old, nkeys, replaced, runs>>
  <2>1. ConfigInv'
    BY <1>6, EndKeepsConfig, FaultCount DEF ConfigInv
  <2> QED BY <1>6, <2>1, SameFileKeepsKeys
<1> QED BY <1>4, <1>5, <1>6 DEF cpFileCopy

LEMMA CreateKeepsConfig ==
    ASSUME ConfigInv, NEW p \in Procs, createNewConfig(p)
    PROVE  ConfigInv' /\ KeepsKeys
<1> DEFINE c == NewConfig(proc[p].cmd)
           l == AfterConfig(p)
<1>0. /\ proc \in [Procs -> ProcType] /\ proc[p] \in ProcType
      /\ runs \in 0..MaxRuns /\ faults \in 0..MaxFaults
      /\ nkeys \in 0..MaxKeys /\ replaced \subseteq 1..nkeys
  BY DEF ConfigInv, ConfigTypeInv
<1>1. old = None
  BY DEF createNewConfig, At, ConfigInv, OldInv
<1>2. /\ UNCHANGED <<old, runs>> /\ nkeys' = nkeys + 1 /\ nkeys' \in 0..MaxKeys /\ nkeys <= nkeys'
      /\ nkeys + 1 \in 1..MaxKeys
  BY <1>0, ConfigAssumption DEF createNewConfig
<1>3. CASE /\ parseURL(c.url) /\ WriteJson(c)
           /\ replaced' = replaced \union Overwritten(c)
           /\ proc' = [proc EXCEPT ![p].pc = l, ![p].cfg = c]
  <2> DEFINE r == [proc[p] EXCEPT !.pc = l, !.cfg = c]
             url == IF proc[p].cmd.url = NoURL THEN DefaultServer ELSE proc[p].cmd.url
  <2>1. c = [key |-> nkeys + 1, url |-> url, psk |-> proc[p].cmd.psk]
    BY DEF NewConfig
  <2>2. url \in Servers
    BY <1>3, <2>1 DEF parseURL
  <2>3. proc[p].cmd.psk \in PreSharedKeys \union {NoKey, Stars}
    BY <1>0, CommandFacts DEF ProcType, CommandType
  <2> HIDE DEF url
  <2>4. c \in ConfigType /\ c.key = nkeys + 1
    BY <1>2, <2>1, <2>2, <2>3 DEF ConfigType
  <2>5. l \in {"rest", "dial"}
    BY AfterConfigIs
  <2> HIDE DEF c, l
  <2>6. proc' = [proc EXCEPT ![p] = r]
    BY <1>0, <1>3
  <2>7. r \in ProcType /\ r.cfg = c /\ r.pc = l
    BY <1>0, <2>4, <2>5 DEF ProcType, Pcs
  <2>8. /\ replaced \subseteq replaced' /\ replaced' \subseteq 1..nkeys'
        /\ Whole(disk) /\ disk.key # c.key => disk.key \in replaced'
    <3>1. Whole(disk) => disk.key \in 1..nkeys
      BY WholeType DEF ConfigInv
    <3>2. replaced' = replaced \union Overwritten(c)
      BY <1>3
    <3>3. Overwritten(c) \subseteq 1..nkeys
      BY <3>1 DEF Overwritten
    <3>4. Whole(disk) /\ disk.key # c.key => disk.key \in Overwritten(c)
      BY DEF Overwritten
    <3>5. 1..nkeys \subseteq 1..nkeys'
      BY <1>0, <1>2
    <3>6. replaced' \subseteq 1..nkeys
      BY <1>0, <3>2, <3>3
    <3> QED BY <3>2, <3>4, <3>5, <3>6
  <2>9. disk' = c /\ faults' = faults
    BY <1>3 DEF WriteJson
  <2>10. r.cfg.key <= nkeys'
    BY <1>0, <1>2, <2>4, <2>7
  <2> HIDE DEF r
  <2>11. ConfigInv' /\ \A k : Kept(k) => Kept(k)'
    BY <1>0, <1>1, <1>2, <2>4, <2>5, <2>6, <2>7, <2>8, <2>9, <2>10, WriteNew
  <2> QED BY <2>11 DEF KeepsKeys
<1>4. CASE End(p, "error") /\ UNCHANGED <<disk, replaced>> /\ faults' \in 0..MaxFaults
  <2>1. \A k : Kept(k) => Kept(k)'
    BY <1>2, <1>4 DEF Kept, Whole
  <2>2. proc' = [proc EXCEPT ![p] = Idle("error")]
    BY <1>4 DEF End
  <2>3. /\ proc' \in [Procs -> ProcType] /\ proc'[p].cfg = None /\ proc'[p].pc = "rest"
        /\ \A q \in Procs : q # p => proc'[q] = proc[q]
    BY <1>0, <2>2, IdleFacts
  <2>4. ConfigTypeInv'
    <3>1. \A q \in Procs : proc[q].cfg # None => proc[q].cfg.key <= nkeys + 1
      <4> SUFFICES ASSUME NEW q \in Procs, proc[q].cfg # None
                   PROVE  proc[q].cfg.key <= nkeys + 1
        OBVIOUS
      <4>1. proc[q].cfg \in ConfigType /\ proc[q].cfg.key <= nkeys
        BY <1>0 DEF ConfigInv, ConfigTypeInv, ProcType
      <4>2. proc[q].cfg.key \in Nat
        BY <4>1 DEF ConfigType
      <4> QED BY <1>0, <4>1, <4>2
    <3>2. Whole(disk) => disk.key <= nkeys + 1
      BY <1>0, WholeType DEF ConfigInv
    <3>3. Whole(disk)' = Whole(disk)
      BY <1>4 DEF Whole
    <3> QED BY <1>0, <1>2, <1>4, <2>3, <3>1, <3>2, <3>3 DEF ConfigInv, ConfigTypeInv, Configured
  <2>5. FreshInv'
    BY <1>1, <1>2, <1>4, <2>3 DEF ConfigInv, FreshInv, Whole
  <2>6. KeptInv'
    BY <2>1, <2>3 DEF ConfigInv, KeptInv
  <2> QED BY <1>1, <1>2, <2>1, <2>4, <2>5, <2>6 DEF ConfigInv, OldInv, KeepsKeys
<1>5. WriteJsonFails => disk' = disk /\ faults' \in 0..MaxFaults
  BY FaultCount DEF WriteJsonFails, ConfigInv
<1> QED BY <1>0, <1>3, <1>4, <1>5 DEF createNewConfig

LEMMA RefreshKeepsConfig ==
    ASSUME ConfigInv, NEW p \in Procs, ReadConfigRefresh(p)
    PROVE  ConfigInv' /\ KeepsKeys
<1> DEFINE c == proc[p].cfg
           l == AfterConfig(p)
<1>0. /\ proc \in [Procs -> ProcType] /\ proc[p] \in ProcType
      /\ runs \in 0..MaxRuns /\ faults \in 0..MaxFaults
      /\ nkeys \in 0..MaxKeys /\ replaced \subseteq 1..nkeys
  BY DEF ConfigInv, ConfigTypeInv
<1>1. c \in ConfigType /\ c # None /\ c.key <= nkeys
  BY <1>0 DEF ReadConfigRefresh, At, ConfigInv, ConfigTypeInv, Configured, ProcType
<1>2. UNCHANGED <<old, nkeys, runs>>
  BY DEF ReadConfigRefresh
<1>3. CASE /\ WriteJson(c)
           /\ replaced' = IF replaced = {} THEN {} ELSE replaced \union Overwritten(c)
           /\ Goto(p, l)
  <2> DEFINE r == [proc[p] EXCEPT !.pc = l]
  <2>1. l \in {"rest", "dial"}
    BY AfterConfigIs
  <2> HIDE DEF l
  <2>2. r \in ProcType /\ r.pc = l /\ r.cfg = c
    <3>1. l \in Pcs
      BY <2>1 DEF Pcs
    <3> QED BY <1>0, <3>1, MoveFacts
  <2>3. proc' = [proc EXCEPT ![p] = r]
    BY <1>3, GotoIs DEF ConfigInv
  <2>4. disk' = c /\ faults' = faults
    BY <1>3 DEF WriteJson
  <2>5. replaced \subseteq replaced' /\ replaced' \subseteq 1..nkeys
    <3>1. Whole(disk) => disk.key \in 1..nkeys
      BY WholeType DEF ConfigInv
    <3>2. Overwritten(c) \subseteq 1..nkeys
      BY <3>1 DEF Overwritten
    <3> QED BY <1>0, <1>3, <3>2
  <2>6. CASE old # None
    <3> HIDE DEF r, c
    <3>1. ConfigInv' /\ \A k \in 1..nkeys : Kept(k)'
      BY <1>0, <1>1, <1>2, <2>1, <2>2, <2>3, <2>4, <2>5, <2>6, WriteOld
    <3> QED BY <3>1 DEF KeepsKeys
  <2>7. CASE old = None
    <3>1. Whole(disk) /\ disk.key # c.key => disk.key \in replaced'
      <4>1. replaced = {} => c.key = disk.key
        BY <1>1, <2>7 DEF ConfigInv, FreshInv
      <4> QED BY <1>3, <4>1 DEF Overwritten
    <3>2. nkeys' \in 0..MaxKeys /\ nkeys <= nkeys' /\ runs' \in 0..MaxRuns
      BY <1>0, <1>2
    <3> HIDE DEF r, c
    <3>3. ConfigInv' /\ \A k : Kept(k) => Kept(k)'
      BY <1>0, <1>1, <1>2, <2>1, <2>2, <2>3, <2>4, <2>5, <2>7, <3>1, <3>2, WriteNew
    <3> QED BY <3>3 DEF KeepsKeys
  <2> QED BY <2>6, <2>7
<1>4. CASE WriteJsonFails /\ End(p, "error") /\ UNCHANGED replaced
  <2>1. disk' = disk /\ faults' \in 0..MaxFaults
    BY <1>4, FaultCount DEF WriteJsonFails, ConfigInv
  <2>2. ConfigInv'
    BY <1>2, <1>4, <2>1, EndKeepsConfig
  <2> QED BY <1>2, <1>4, <2>1, <2>2, SameFileKeepsKeys
<1> QED BY <1>3, <1>4 DEF ReadConfigRefresh

LEMMA KillKeepsConfig ==
    ASSUME ConfigInv, NEW p \in Procs, Killed(p)
    PROVE  ConfigInv' /\ KeepsKeys
<1>1. ConfigInv'
  BY EndKeepsConfig, FaultCount DEF Killed, ConfigInv
<1> QED BY <1>1, SameFileKeepsKeys DEF Killed

LEMMA ConfigStepKeepsConfig ==
    ASSUME ConfigInv, NEW p \in Procs, ConfigStep(p)
    PROVE  ConfigInv' /\ KeepsKeys
<1>1. CASE handleRebrand(p) \/ GetConfig(p)
  BY <1>1, LooksKeepConfig, SameFileKeepsKeys DEF handleRebrand, GetConfig
<1>2. CASE ReadConfig(p)
  BY <1>2, ReadKeepsConfig, SameFileKeepsKeys DEF ReadConfig
<1> QED BY <1>1, <1>2, CopyKeepsConfig, CreateKeepsConfig, RefreshKeepsConfig DEF ConfigStep

-----------------------------------------------------------------------------
(* A process of the login: its state and that of its call change together *)

\* Process p becomes r, and its login l.
Turn(p, r, l) ==
    /\ Fits(p, r) /\ l \in LoginType /\ Agrees(r, l)
    /\ proc' = [proc EXCEPT ![p] = r]
    /\ login' = [login EXCEPT ![p] = l]

\* The call rq is the one that r and l wait for.
Asked(rq, r, l) ==
    r.pc \in Waits /\ l.reply = None /\ rq.srv = r.cfg.url /\ rq.wg = r.cfg.key

\* A step of one process that loses no key and changes no service.
LEMMA ProcessFrame ==
    ASSUME Inv, ConfigInv', KeepsKeys, nkeys <= nkeys', server' = server,
           NEW p \in Procs, NEW r, NEW l \in LoginType, Agrees(r, l),
           proc' = [proc EXCEPT ![p] = r], login' = [login EXCEPT ![p] = l],
           requests' \subseteq RequestType,
           \A rq \in requests' : rq.wg <= nkeys /\ Kept(rq.wg),
           \A rq \in requests' : rq.proc # None => IF rq.proc = p THEN Asked(rq, r, l)
                                                                 ELSE rq \in requests,
           \A r1, r2 \in requests' : r1.proc = p /\ r2.proc = p => r1 = r2
    PROVE  Inv'
<1>1. nkeys \in Nat /\ nkeys' \in Nat
  BY DEF Inv, ConfigInv, ConfigTypeInv
<1>2. \A k, s : Known(k, s) <=> Known(k, s)'
  BY DEF Known
<1>3. \A k \in 1..MaxKeys : k <= nkeys /\ Kept(k) => k <= nkeys' /\ Kept(k)'
  <2> SUFFICES ASSUME NEW k \in 1..MaxKeys, k <= nkeys, Kept(k)
               PROVE  k <= nkeys' /\ Kept(k)'
    OBVIOUS
  <2>1. k \in 1..nkeys /\ k <= nkeys'
    BY <1>1
  <2> QED BY <2>1 DEF KeepsKeys
<1>4. ServerInv'
  <2>1. \A s \in Servers : \A k \in server[s].peers : k \in 1..MaxKeys
    BY DEF Inv, LoginInv, ServerInv, ServerType
  <2> QED BY <1>3, <2>1 DEF Inv, LoginInv, ServerInv
<1>5. /\ proc'[p] = r /\ \A q \in Procs : q # p => proc'[q] = proc[q]
      /\ login'[p] = l /\ \A q \in Procs : q # p => login'[q] = login[q]
      /\ login' \in [Procs -> LoginType]
  BY DEF Inv, ConfigInv, ConfigTypeInv, LoginInv, PhaseInv
<1>6. PhaseInv'
  <2>1. \A x, y : Agrees(x, y) <=> Agrees(x, y)'
    BY <1>2 DEF Agrees
  <2>2. \A q \in Procs : Agrees(proc'[q], login'[q])
    BY <1>5 DEF Inv, LoginInv, PhaseInv
  <2> QED BY <1>5, <2>1, <2>2 DEF PhaseInv
<1>7. RequestInv'
  <2>1. \A rq \in requests' : rq.proc # None => IsOf(rq, rq.proc)'
    <3> SUFFICES ASSUME NEW rq \in requests', rq.proc # None
                 PROVE  IsOf(rq, rq.proc)'
      OBVIOUS
    <3>1. rq.proc \in Procs
      BY DEF RequestType
    <3>2. CASE rq.proc = p
      BY <1>5, <3>2 DEF Asked, IsOf
    <3>3. CASE rq.proc # p
      BY <1>5, <3>1, <3>3 DEF IsOf, Inv, LoginInv, RequestInv
    <3> QED BY <3>2, <3>3
  <2>2. \A r1, r2 \in requests' : r1.proc # None /\ r1.proc = r2.proc => r1 = r2
    BY DEF Inv, LoginInv, RequestInv
  <2>3. \A rq \in requests' : rq.wg <= nkeys' /\ Kept(rq.wg)'
    BY <1>3 DEF RequestType
  <2> QED BY <2>1, <2>2, <2>3 DEF RequestInv
<1> QED BY <1>4, <1>6, <1>7 DEF Inv, LoginInv

LEMMA TurnKeepsInv ==
    ASSUME Inv, NEW p \in Procs, NEW r, NEW l, Turn(p, r, l),
           UNCHANGED <<disk, old, nkeys, replaced, runs, server>>, faults' \in 0..MaxFaults,
           requests' \subseteq RequestType,
           \A rq \in requests' : rq.wg <= nkeys /\ Kept(rq.wg),
           \A rq \in requests' : rq.proc # None => IF rq.proc = p THEN Asked(rq, r, l)
                                                                 ELSE rq \in requests,
           \A r1, r2 \in requests' : r1.proc = p /\ r2.proc = p => r1 = r2
    PROVE  Inv'
<1>1. runs' \in 0..MaxRuns /\ nkeys <= nkeys'
  BY DEF Inv, ConfigInv, ConfigTypeInv
<1>2. ConfigInv'
  BY <1>1, FileFrame DEF Inv, Turn
<1>3. KeepsKeys
  BY SameFileKeepsKeys
<1> QED BY <1>1, <1>2, <1>3, ProcessFrame DEF Turn

\* The process has no call that is open.
NoCall(p) == \A rq \in requests : rq.proc # p

LEMMA NoCallUnlessWaiting ==
    ASSUME Inv, NEW p \in Procs, proc[p].pc \notin Waits \/ login[p].reply # None
    PROVE  NoCall(p)
BY ConfigAssumption DEF NoCall, Inv, LoginInv, RequestInv, IsOf

LEMMA AloneKeepsInv ==
    ASSUME Inv, NEW p \in Procs, NoCall(p), NEW r, NEW l, Turn(p, r, l),
           UNCHANGED <<disk, old, nkeys, replaced, runs, server, requests>>,
           faults' \in 0..MaxFaults
    PROVE  Inv'
<1>1. /\ requests' \subseteq RequestType
      /\ \A rq \in requests' : rq.wg <= nkeys /\ Kept(rq.wg)
      /\ \A rq \in requests' : rq.proc # p /\ rq \in requests
  BY DEF Inv, LoginInv, RequestInv, NoCall
<1> QED BY <1>1, TurnKeepsInv

LEMMA NoLoginFacts ==
    /\ NoLogin \in LoginType /\ NoLogin.reply = None /\ NoLogin.answered = FALSE
    /\ \A o \in BOOLEAN : /\ [NoLogin EXCEPT !.answered = o] \in LoginType
                          /\ [NoLogin EXCEPT !.answered = o].reply = None
                          /\ [NoLogin EXCEPT !.answered = o].answered = o
<1>1. 0 \in 0..MaxStarts /\ 0 \in 0..(MaxTries - 1)
  BY LoginAssumption
<1>2. NoLogin \in LoginType /\ NoLogin.reply = None /\ NoLogin.answered = FALSE
  BY <1>1 DEF NoLogin, LoginType
<1>3. ASSUME NEW o \in BOOLEAN
      PROVE  /\ [NoLogin EXCEPT !.answered = o] \in LoginType
             /\ [NoLogin EXCEPT !.answered = o].reply = None
             /\ [NoLogin EXCEPT !.answered = o].answered = o
  BY <1>2, Zenon DEF LoginType
<1> QED BY <1>2, <1>3

LEMMA AgainFacts ==
    ASSUME NEW l \in LoginType, NEW t \in 0..(MaxTries - 1), NEW ph \in {"probe", "sso", "final"}
    PROVE  /\ [l EXCEPT !.phase = ph, !.tries = t, !.reply = None] \in LoginType
           /\ [l EXCEPT !.phase = ph, !.tries = t, !.reply = None].reply = None
           /\ [l EXCEPT !.phase = ph, !.tries = t, !.reply = None].answered = l.answered
BY DEF LoginType

LEMMA TypeFacts ==
    ASSUME Inv, NEW p \in Procs
    PROVE  /\ proc \in [Procs -> ProcType] /\ proc[p] \in ProcType
           /\ login \in [Procs -> LoginType] /\ login[p] \in LoginType
           /\ Agrees(proc[p], login[p])
           /\ faults \in 0..MaxFaults
           /\ proc[p].pc \in Configured =>
                 /\ proc[p].cfg # None /\ proc[p].cfg \in ConfigType
                 /\ proc[p].cfg.key <= nkeys /\ proc[p].cfg.key \in 1..nkeys
                 /\ proc[p].cfg.url \in Servers
<1>1. /\ proc \in [Procs -> ProcType] /\ proc[p] \in ProcType
      /\ login \in [Procs -> LoginType] /\ login[p] \in LoginType
      /\ Agrees(proc[p], login[p])
      /\ faults \in 0..MaxFaults /\ nkeys \in 0..MaxKeys
  BY DEF Inv, ConfigInv, ConfigTypeInv, LoginInv, PhaseInv
<1>2. ASSUME proc[p].pc \in Configured
      PROVE  /\ proc[p].cfg # None /\ proc[p].cfg \in ConfigType
             /\ proc[p].cfg.key <= nkeys /\ proc[p].cfg.key \in 1..nkeys
             /\ proc[p].cfg.url \in Servers
  <2>1. proc[p].cfg # None /\ proc[p].cfg \in ConfigType /\ proc[p].cfg.key <= nkeys
    BY <1>1, <1>2 DEF Inv, ConfigInv, ConfigTypeInv, ProcType
  <2> QED BY <1>1, <2>1 DEF ConfigType
<1> QED BY <1>1, <1>2

LEMMA AbandonTurns ==
    ASSUME Inv, NEW p \in Procs, Abandon(p)
    PROVE  Turn(p, Idle("error"), NoLogin)
<1>1. Agrees(Idle("error"), NoLogin)
  BY IdleFacts, NoLoginFacts DEF Agrees, Keyed
<1> QED BY <1>1, EndFits, NoLoginFacts DEF Abandon, End, Turn

\* The next attempt, of this cycle or of the next one.
LEMMA DialTurns ==
    ASSUME Inv, NEW p \in Procs, proc[p].pc \in Configured, Goto(p, "dial"),
           NEW t \in 0..(MaxTries - 1), NEW ph \in {"probe", "sso", "final"},
           login' = [login EXCEPT ![p] = [login[p] EXCEPT !.phase = ph, !.tries = t, !.reply = None]]
    PROVE  \E r, l : Turn(p, r, l)
<1> DEFINE r == [proc[p] EXCEPT !.pc = "dial"]
           l == [login[p] EXCEPT !.phase = ph, !.tries = t, !.reply = None]
<1>1. proc' = [proc EXCEPT ![p] = r]
  BY GotoIs DEF Inv, ConfigInv
<1>2. l \in LoginType /\ l.reply = None /\ l.answered = login[p].answered
  <2>1. login[p] \in LoginType
    BY TypeFacts
  <2> QED BY <2>1, AgainFacts, Zenon
<1>3. r.pc = "dial"
  BY TypeFacts, MoveFacts DEF Pcs
<1>4. proc[p].pc # "rest"
  BY DEF Configured
<1>5. ~l.answered
  BY <1>2, <1>4, TypeFacts DEF Agrees
<1>6. Fits(p, r)
  BY TypeFacts, MoveFits DEF Inv, Pcs
<1> HIDE DEF r, l
<1>7. Agrees(r, l)
  BY <1>2, <1>3, <1>5 DEF Agrees, Keyed
<1>8. login' = [login EXCEPT ![p] = l]
  BY DEF l
<1> QED BY <1>1, <1>2, <1>6, <1>7, <1>8 DEF Turn

LEMMA RetryTurns ==
    ASSUME Inv, NEW p \in Procs, proc[p].pc \in Configured, Retry(p)
    PROVE  \E r, l : Turn(p, r, l)
<1>0. login \in [Procs -> LoginType] /\ login[p] \in LoginType
  BY TypeFacts
<1>1. CASE login[p].tries + 1 < MaxTries
  <2> DEFINE t == login[p].tries + 1
             ph == login[p].phase
  <2>1. t \in 0..(MaxTries - 1) /\ ph \in {"probe", "sso", "final"}
    BY <1>0, <1>1, LoginAssumption DEF LoginType
  <2>2. Goto(p, "dial") /\ login' = [login EXCEPT ![p].tries = @ + 1, ![p].reply = None]
    BY <1>1 DEF Retry
  <2>3. login' = [login EXCEPT ![p] = [login[p] EXCEPT !.tries = t, !.reply = None]]
    BY <1>0, <2>2
  <2>4. [login[p] EXCEPT !.tries = t, !.reply = None]
          = [login[p] EXCEPT !.phase = ph, !.tries = t, !.reply = None]
    <3> HIDE DEF t
    <3> QED BY <1>0 DEF LoginType
  <2>5. login' = [login EXCEPT ![p] = [login[p] EXCEPT !.phase = ph, !.tries = t, !.reply = None]]
    BY <2>3, <2>4
  <2> HIDE DEF t, ph
  <2> QED BY <2>1, <2>2, <2>5, DialTurns
<1>2. CASE ~(login[p].tries + 1 < MaxTries)
  BY <1>2, AbandonTurns DEF Retry
<1> QED BY <1>1, <1>2

LEMMA EnterTurns ==
    ASSUME Inv, NEW p \in Procs, proc[p].pc \in Configured,
           NEW ph \in {"probe", "sso", "final"}, Enter(p, ph)
    PROVE  \E r, l : Turn(p, r, l)
<1>1. login' = [login EXCEPT ![p] = [login[p] EXCEPT !.phase = ph, !.tries = 0, !.reply = None]]
  BY TypeFacts DEF Enter
<1>2. 0 \in 0..(MaxTries - 1)
  BY LoginAssumption
<1> QED BY <1>1, <1>2, DialTurns DEF Enter

LEMMA FinishTurns ==
    ASSUME Inv, NEW p \in Procs, proc[p].pc \in Configured, NEW code,
           code = "OK" => Known(proc[p].cfg.key, proc[p].cfg.url), finalDone(p, code)
    PROVE  \E r, l : Turn(p, r, l)
<1>1. CASE code \in Pointless \union {"OK"}
  <2> DEFINE o == (code = "OK")
             r == [proc[p] EXCEPT !.pc = "rest", !.result = "ok"]
             l == [NoLogin EXCEPT !.answered = o]
  <2>1. proc' = [proc EXCEPT ![p] = r]
    BY <1>1, TypeFacts DEF finalDone
  <2>2. r \in ProcType /\ r.pc = "rest" /\ r.cfg = proc[p].cfg
    BY TypeFacts DEF ProcType, Pcs
  <2>3. Fits(p, r)
    BY <2>2 DEF Fits, Configured
  <2>4. o \in BOOLEAN
    OBVIOUS
  <2>5. o => Known(proc[p].cfg.key, proc[p].cfg.url)
    OBVIOUS
  <2>6. login' = [login EXCEPT ![p] = l]
    BY <1>1 DEF finalDone
  <2> HIDE DEF r, o
  <2>7. l \in LoginType /\ l.reply = None /\ l.answered = o
    BY <2>4, NoLoginFacts
  <2> HIDE DEF l
  <2>8. Agrees(r, l)
    BY <2>2, <2>5, <2>7, TypeFacts DEF Agrees, Keyed
  <2> QED BY <2>1, <2>3, <2>6, <2>7, <2>8 DEF Turn
<1>2. CASE code \notin Pointless \union {"OK"}
  BY <1>2, RetryTurns DEF finalDone
<1> QED BY <1>1, <1>2

LEMMA ProbeTurns ==
    ASSUME Inv, NEW p \in Procs, proc[p].pc \in Configured, NEW code, probeDone(p, code)
    PROVE  \E r, l : Turn(p, r, l)
<1>1. CASE code = "OK"
  BY <1>1, EnterTurns DEF probeDone, Pointless
<1>2. CASE code # "OK" /\ code \in Pointless
  <2> DEFINE ph == IF proc[p].cmd.setup = "none" THEN "sso" ELSE "final"
  <2>1. ph \in {"probe", "sso", "final"} /\ Enter(p, ph)
    BY <1>2 DEF probeDone
  <2> HIDE DEF ph
  <2> QED BY <2>1, EnterTurns
<1>3. CASE code # "OK" /\ code \notin Pointless
  BY <1>3, RetryTurns DEF probeDone
<1> QED BY <1>1, <1>2, <1>3

LEMMA DoneTurns ==
    ASSUME Inv, NEW p \in Procs, proc[p].pc \in Configured, NEW code,
           code = "OK" => Known(proc[p].cfg.key, proc[p].cfg.url), LoginDone(p, code)
    PROVE  \E r, l : Turn(p, r, l)
<1>1. CASE login[p].phase = "probe"
  BY <1>1, ProbeTurns DEF LoginDone
<1>2. CASE login[p].phase = "final"
  BY <1>2, FinishTurns DEF LoginDone
<1>3. CASE login[p].phase \notin {"probe", "final"}
  BY <1>3, AbandonTurns DEF LoginDone
<1> QED BY <1>1, <1>2, <1>3

-----------------------------------------------------------------------------
(* The steps of the client *)

LEMMA CallFailsKeepsInv ==
    ASSUME Inv, NEW p \in Procs, CallFails(p)
    PROVE  Inv'
<1>1. proc[p].pc \in {"dial", "flow"} /\ LoginDone(p, "DeadlineExceeded")
  BY DEF CallFails
<1>2. PICK r, l : Turn(p, r, l)
  BY <1>1, DoneTurns DEF Configured
<1>3. NoCall(p)
  BY <1>1, NoCallUnlessWaiting DEF Waits
<1>4. faults' \in 0..MaxFaults
  BY FaultCount DEF CallFails, Inv, ConfigInv
<1> QED BY <1>2, <1>3, <1>4, AloneKeepsInv DEF CallFails

\* A step to l that leaves the reply as it is, or drops it.
LEMMA GotoTurns ==
    ASSUME Inv, NEW p \in Procs, NEW l \in Configured, proc[p].pc \in Configured, Goto(p, l),
           NEW lg \in LoginType, lg.reply = None, lg.answered = login[p].answered,
           l \in Keyed => lg.key # 0,
           login' = [login EXCEPT ![p] = lg]
    PROVE  Turn(p, [proc[p] EXCEPT !.pc = l], lg)
<1> DEFINE r == [proc[p] EXCEPT !.pc = l]
<1>1. proc' = [proc EXCEPT ![p] = r]
  BY GotoIs DEF Inv, ConfigInv
<1>2. l \in Pcs \ {"create", "copy", "copyData", "stat"}
  BY DEF Configured, Pcs
<1>3. r.pc = l
  BY <1>2, TypeFacts, MoveFacts
<1>4. proc[p].pc # "rest"
  BY DEF Configured
<1>5. ~lg.answered
  BY <1>4, TypeFacts DEF Agrees
<1>6. Fits(p, r)
  BY <1>2, TypeFacts, MoveFits DEF Inv
<1> HIDE DEF r
<1>7. Agrees(r, lg)
  BY <1>3, <1>5 DEF Agrees
<1>8. Turn(p, r, lg)
  BY <1>1, <1>6, <1>7 DEF Turn
<1> QED BY <1>8 DEF r

LEMMA KeyFacts ==
    ASSUME NEW l \in LoginType, NEW n \in 0..MaxStarts
    PROVE  /\ [l EXCEPT !.key = n] \in LoginType
           /\ [l EXCEPT !.key = n].key = n
           /\ [l EXCEPT !.key = n].reply = l.reply
           /\ [l EXCEPT !.key = n].answered = l.answered
BY DEF LoginType

LEMMA NoReplyUnlessWaiting ==
    ASSUME Inv, NEW p \in Procs, proc[p].pc \notin Waits
    PROVE  login[p].reply = None
BY TypeFacts DEF Agrees

LEMMA GetServerPublicKeyKeepsInv ==
    ASSUME Inv, NEW p \in Procs, GetServerPublicKey(p)
    PROVE  Inv'
<1> DEFINE n == server[URL(p)].start
           lg == [login[p] EXCEPT !.key = n]
           l == IF login[p].phase = "sso" THEN "flow" ELSE "login"
<1>1. proc[p].pc = "dial"
  BY DEF GetServerPublicKey, NewClient, At
<1>2. proc[p].cfg.url \in Servers
  BY <1>1, TypeFacts DEF Configured
<1>3. n \in 1..MaxStarts
  BY <1>2 DEF URL, Inv, LoginInv, ServerInv, ServerType
<1>4. login' = [login EXCEPT ![p] = lg]
  BY TypeFacts DEF GetServerPublicKey
<1> HIDE DEF n
<1>5. n \in 0..MaxStarts /\ n # 0
  BY <1>3
<1>6. login[p].reply = None /\ NoCall(p)
  BY <1>1, NoReplyUnlessWaiting, NoCallUnlessWaiting DEF Waits
<1>7. lg \in LoginType /\ lg.key = n /\ lg.reply = login[p].reply /\ lg.answered = login[p].answered
  <2>1. login[p] \in LoginType
    BY TypeFacts
  <2> QED BY <1>5, <2>1, KeyFacts, Zenon
<1>8. l \in Configured /\ Goto(p, l)
  BY DEF Configured, GetServerPublicKey
<1> HIDE DEF l, lg
<1>9. Turn(p, [proc[p] EXCEPT !.pc = l], lg)
  BY <1>1, <1>4, <1>5, <1>6, <1>7, <1>8, GotoTurns DEF Configured
<1>10. UNCHANGED <<disk, old, nkeys, replaced, runs, server, requests>> /\ faults' \in 0..MaxFaults
  BY TypeFacts DEF GetServerPublicKey
<1> QED BY <1>6, <1>9, <1>10, AloneKeepsInv

LEMMA SealedFacts ==
    ASSUME NEW k \in 1..MaxKeys, NEW s \in Servers, NEW n \in 1..MaxStarts, NEW msgs, NEW m \in msgs
    PROVE  /\ EncryptMessage(ServerKey(s, n), PeerKey(k), m) \in SealedType(msgs)
           /\ EncryptMessage(PeerKey(k), ServerKey(s, n), m) \in SealedType(msgs)
<1>1. PeerKey(k) \in WgKeys /\ ServerKey(s, n) \in WgKeys
  BY DEF WgKeys
<1> HIDE DEF WgKeys
<1> QED BY <1>1 DEF EncryptMessage, Encrypt, SealedType

LEMMA SendKeepsInv ==
    ASSUME Inv, NEW p \in Procs, proc[p].pc \in {"login", "register"},
           NEW cred \in Credentials, Send(p, cred), NEW w \in Waits, Goto(p, w)
    PROVE  Inv'
<1> DEFINE rq == [proc |-> p, srv |-> URL(p), wg |-> proc[p].cfg.key, stage |-> "sent",
                  body |-> EncryptMessage(ServerKey(URL(p), login[p].key),
                                          PeerKey(proc[p].cfg.key), cred)]
           r == [proc[p] EXCEPT !.pc = w]
           l == login[p]
<1>1. /\ proc[p].pc \in Configured /\ proc[p].pc \in Keyed /\ proc[p].pc \notin Waits
      /\ w \in Configured /\ w \in Keyed /\ w \in Pcs
  BY DEF Configured, Keyed, Waits, Pcs
<1>2. /\ l \in LoginType /\ l.reply = None /\ l.key # 0 /\ NoCall(p)
      /\ login' = [login EXCEPT ![p] = l]
  BY <1>1, TypeFacts, NoReplyUnlessWaiting, NoCallUnlessWaiting DEF Agrees, Send
<1>3. Turn(p, r, l)
  <2> HIDE DEF l
  <2>1. l.answered = login[p].answered
    BY DEF l
  <2> QED BY <1>1, <1>2, <2>1, GotoTurns
<1>4. r.pc = w /\ r.cfg = proc[p].cfg
  BY <1>1, TypeFacts, MoveFacts
<1>5. URL(p) \in Servers /\ proc[p].cfg.key \in 1..nkeys /\ Kept(proc[p].cfg.key)
  BY <1>1, TypeFacts DEF URL, Inv, ConfigInv, KeptInv
<1>6. proc[p].cfg.key \in 1..MaxKeys /\ nkeys \in Nat
  BY <1>1, TypeFacts DEF ConfigType, Inv, ConfigInv, ConfigTypeInv
<1>7. l.key \in 1..MaxStarts
  BY <1>2 DEF LoginType
<1>8. rq \in RequestType
  <2>1. EncryptMessage(ServerKey(URL(p), l.key), PeerKey(proc[p].cfg.key), cred)
            \in SealedType(Credentials)
    BY <1>5, <1>6, <1>7, SealedFacts
  <2> QED BY <1>5, <1>6, <2>1 DEF RequestType
<1>9. rq.proc = p /\ rq.srv = URL(p) /\ rq.wg = proc[p].cfg.key
  OBVIOUS
<1>10. requests' = requests \union {rq}
  BY DEF Send
<1>11. UNCHANGED <<disk, old, nkeys, replaced, runs, server>> /\ faults' \in 0..MaxFaults
  BY TypeFacts DEF Send
<1> HIDE DEF rq, r, l
<1>12. requests' \subseteq RequestType
  BY <1>8, <1>10 DEF Inv, LoginInv, RequestInv
<1>13. \A x \in requests' : x.wg <= nkeys /\ Kept(x.wg)
  <2>1. rq.wg <= nkeys /\ Kept(rq.wg)
    BY <1>5, <1>6, <1>9
  <2> QED BY <2>1, <1>10 DEF Inv, LoginInv, RequestInv
<1>14. Asked(rq, r, l)
  BY <1>2, <1>4, <1>9 DEF Asked, URL
<1>15. \A x \in requests' : x.proc = p => x = rq
  BY <1>2, <1>10 DEF NoCall
<1>16. \A x \in requests' : x.proc # None => IF x.proc = p THEN Asked(x, r, l) ELSE x \in requests
  BY <1>9, <1>10, <1>14, <1>15
<1> QED BY <1>3, <1>11, <1>12, <1>13, <1>15, <1>16, TurnKeepsInv

LEMMA LoginKeepsInv ==
    ASSUME Inv, NEW p \in Procs, Login(p)
    PROVE  Inv'
BY SendKeepsInv DEF Login, At, Waits, Credentials

LEMMA CredentialFacts ==
    ASSUME Inv, NEW p \in Procs, Credential(p) \notin {"none", "malformed"}
    PROVE  Credential(p) \in Credentials
<1>1. proc[p].cmd.setup \in {"none", "malformed", "unknown", "oneoff"}
  BY TypeFacts, CommandFacts DEF ProcType, CommandType
<1> QED BY <1>1 DEF Credential, Credentials

LEMMA RegisterKeepsInv ==
    ASSUME Inv, NEW p \in Procs, Register(p)
    PROVE  Inv'
<1>1. /\ proc[p].pc = "register" /\ Credential(p) \notin {"none", "malformed"}
      /\ Send(p, Credential(p)) /\ Goto(p, "registerWait")
  BY DEF Register, At
<1>2. Credential(p) \in Credentials
  BY <1>1, CredentialFacts
<1> QED BY <1>1, <1>2, SendKeepsInv DEF Waits

LEMMA RegisterRefusedKeepsInv ==
    ASSUME Inv, NEW p \in Procs, RegisterRefused(p)
    PROVE  Inv'
<1>1. proc[p].pc = "register" /\ LoginDone(p, "InvalidArgument")
  BY DEF RegisterRefused, At
<1>2. PICK r, l : Turn(p, r, l)
  BY <1>1, DoneTurns DEF Configured
<1>3. NoCall(p)
  BY <1>1, NoCallUnlessWaiting DEF Waits
<1>4. UNCHANGED <<disk, old, nkeys, replaced, runs, server, requests>> /\ faults' \in 0..MaxFaults
  BY TypeFacts DEF RegisterRefused
<1> QED BY <1>2, <1>3, <1>4, AloneKeepsInv

LEMMA ReplyFacts ==
    ASSUME NEW l \in LoginType, NEW x \in ReplyType \union {None}
    PROVE  /\ [l EXCEPT !.reply = x] \in LoginType
           /\ [l EXCEPT !.reply = x].reply = x
           /\ [l EXCEPT !.reply = x].key = l.key
           /\ [l EXCEPT !.reply = x].answered = l.answered
<1> HIDE DEF ReplyType
<1> QED BY DEF LoginType

\* What was answered, and opened with the right key, is what the service knows.
LEMMA ReceiveKeepsInv ==
    ASSUME Inv, NEW p \in Procs, Receive(p)
    PROVE  Inv'
<1>1. /\ proc[p].pc \in Waits /\ proc[p].pc \in Keyed /\ proc[p].pc \in Configured
      /\ login[p].reply # None
  BY DEF Receive, Waits, Keyed, Configured
<1>2. NoCall(p)
  BY <1>1, NoCallUnlessWaiting
<1>3. UNCHANGED <<disk, old, nkeys, replaced, runs, server, requests>> /\ faults' \in 0..MaxFaults
  BY TypeFacts DEF Receive
<1>4. CASE Goto(p, "register") /\ login' = [login EXCEPT ![p].reply = None]
  <2> DEFINE l == [login[p] EXCEPT !.reply = None]
  <2>1. login' = [login EXCEPT ![p] = l]
    BY <1>4, TypeFacts
  <2>2. login[p] \in LoginType /\ login[p].key # 0
    BY <1>1, TypeFacts DEF Agrees
  <2>3. l \in LoginType /\ l.reply = None /\ l.key = login[p].key /\ l.answered = login[p].answered
    BY <2>2, ReplyFacts, Zenon
  <2> HIDE DEF l
  <2>4. Turn(p, [proc[p] EXCEPT !.pc = "register"], l)
    BY <1>1, <1>4, <2>1, <2>2, <2>3, GotoTurns DEF Configured
  <2> QED BY <1>2, <1>3, <2>4, AloneKeepsInv
<1>5. CASE LoginDone(p, Code(p))
  <2>1. Code(p) = "OK" => Known(proc[p].cfg.key, proc[p].cfg.url)
    BY <1>1, TypeFacts DEF Code, Agrees
  <2>2. PICK r, l : Turn(p, r, l)
    BY <1>1, <1>5, <2>1, DoneTurns
  <2> QED BY <1>2, <1>3, <2>2, AloneKeepsInv
<1> QED BY <1>4, <1>5 DEF Receive

\* A call that nobody waits for any more is left to the server, or is lost.
LEMMA TimeoutKeepsInv ==
    ASSUME Inv, NEW p \in Procs, Timeout(p)
    PROVE  Inv'
<1> DEFINE mine == {rq \in requests : rq.proc = p}
           orphans == {[rq EXCEPT !.proc = None] : rq \in mine}
<1>1. proc[p].pc \in Configured /\ LoginDone(p, "DeadlineExceeded")
  BY DEF Timeout, Configured
<1>2. PICK r, l : Turn(p, r, l)
  BY <1>1, DoneTurns
<1>3. faults' \in 0..MaxFaults /\ UNCHANGED <<disk, old, nkeys, replaced, runs, server>>
  BY FaultCount DEF Timeout, Inv, ConfigInv
<1>4. \A x \in requests' : x \in (requests \ mine) \union orphans
  BY DEF Timeout
<1>5. /\ requests \subseteq RequestType
      /\ \A rq \in requests : rq.wg <= nkeys /\ Kept(rq.wg)
  BY DEF Inv, LoginInv, RequestInv
<1>6. \A x \in orphans : /\ x \in RequestType /\ x.proc = None
                         /\ x.wg <= nkeys /\ Kept(x.wg)
  <2> SUFFICES ASSUME NEW rq \in requests
               PROVE  LET x == [rq EXCEPT !.proc = None]
                      IN  x \in RequestType /\ x.proc = None /\ x.wg = rq.wg
    BY <1>5
  <2> QED BY <1>5 DEF RequestType
<1>7. p # None
  BY ConfigAssumption
<1>8. \A x \in requests' : /\ x \in RequestType /\ x.wg <= nkeys /\ Kept(x.wg)
                           /\ x.proc # p
                           /\ x.proc # None => x \in requests
  <2> SUFFICES ASSUME NEW x \in (requests \ mine) \union orphans
               PROVE  /\ x \in RequestType /\ x.wg <= nkeys /\ Kept(x.wg)
                      /\ x.proc # p
                      /\ x.proc # None => x \in requests
    BY <1>4
  <2>1. CASE x \in requests \ mine
    BY <1>5, <2>1
  <2>2. CASE x \in orphans
    <3> HIDE DEF orphans
    <3> QED BY <1>6, <1>7, <2>2
  <2> QED BY <2>1, <2>2
<1> HIDE DEF mine, orphans
<1> QED BY <1>2, <1>3, <1>8, TurnKeepsInv

LEMMA AbandonKeepsInv ==
    ASSUME Inv, NEW p \in Procs, NoCall(p), Abandon(p),
           UNCHANGED <<disk, old, nkeys, replaced, runs, faults, server, requests>>
    PROVE  Inv'
<1>1. faults' \in 0..MaxFaults
  BY TypeFacts
<1> QED BY <1>1, AbandonTurns, AloneKeepsInv

LEMMA DeviceMoveKeepsInv ==
    ASSUME Inv, NEW p \in Procs, proc[p].pc \in {"flow", "code"}, NEW l \in {"code", "token"},
           Goto(p, l), UNCHANGED <<disk, old, nkeys, replaced, runs, faults, server, login, requests>>
    PROVE  Inv'
<1> DEFINE lg == login[p]
<1>1. proc[p].pc \in Configured /\ proc[p].pc \notin Waits /\ l \in Configured /\ l \notin Keyed
  BY DEF Configured, Waits, Keyed
<1>2. NoCall(p) /\ lg.reply = None /\ lg \in LoginType /\ login' = [login EXCEPT ![p] = lg]
  BY <1>1, NoCallUnlessWaiting, NoReplyUnlessWaiting, TypeFacts
<1>3. lg.answered = login[p].answered
  OBVIOUS
<1> HIDE DEF lg
<1>4. Turn(p, [proc[p] EXCEPT !.pc = l], lg)
  BY <1>1, <1>2, <1>3, GotoTurns
<1>5. faults' \in 0..MaxFaults
  BY TypeFacts
<1> QED BY <1>2, <1>4, <1>5, AloneKeepsInv

LEMMA TokenFacts ==
    ASSUME NEW l \in LoginType
    PROVE  /\ [l EXCEPT !.phase = "final", !.jwt = TRUE] \in LoginType
           /\ [l EXCEPT !.phase = "final", !.jwt = TRUE].reply = l.reply
           /\ [l EXCEPT !.phase = "final", !.jwt = TRUE].answered = l.answered
BY Zenon DEF LoginType

LEMMA DeviceFlowKeepsInv ==
    ASSUME Inv, NEW p \in Procs,
           GetDeviceAuthorizationFlowInfo(p) \/ RequestDeviceCode(p) \/ WaitToken(p)
    PROVE  Inv'
<1>1. proc[p].pc \in {"flow", "code", "token"}
  BY DEF GetDeviceAuthorizationFlowInfo, RequestDeviceCode, WaitToken, At
<1>2. UNCHANGED <<disk, old, nkeys, replaced, runs, faults, server, requests>>
  BY DEF GetDeviceAuthorizationFlowInfo, RequestDeviceCode, WaitToken
<1>3. NoCall(p) /\ login[p].reply = None
  BY <1>1, NoCallUnlessWaiting, NoReplyUnlessWaiting DEF Waits
<1>4. CASE Abandon(p)
  BY <1>2, <1>3, <1>4, AbandonKeepsInv
<1>5. CASE GetDeviceAuthorizationFlowInfo(p) /\ ~Abandon(p)
  <2>1. proc[p].pc = "flow" /\ Goto(p, "code") /\ UNCHANGED login
    BY <1>5 DEF GetDeviceAuthorizationFlowInfo, At
  <2> QED BY <1>2, <2>1, DeviceMoveKeepsInv
<1>6. CASE RequestDeviceCode(p) /\ ~Abandon(p)
  <2>1. proc[p].pc = "code" /\ Goto(p, "token") /\ UNCHANGED login
    BY <1>6 DEF RequestDeviceCode, At
  <2> QED BY <1>2, <2>1, DeviceMoveKeepsInv
<1>7. CASE WaitToken(p) /\ ~Abandon(p)
  <2> DEFINE lg == [login[p] EXCEPT !.phase = "final", !.jwt = TRUE]
  <2>1. /\ proc[p].pc = "token" /\ Goto(p, "dial")
        /\ login' = [login EXCEPT ![p].phase = "final", ![p].jwt = TRUE]
    BY <1>7 DEF WaitToken, At
  <2>2. login \in [Procs -> LoginType] /\ login[p] \in LoginType
    BY TypeFacts
  <2>3. login' = [login EXCEPT ![p] = lg]
    BY <2>1, <2>2, Zenon
  <2>4. lg \in LoginType /\ lg.reply = None /\ lg.answered = login[p].answered
    BY <1>3, <2>2, TokenFacts, Zenon
  <2> HIDE DEF lg
  <2>5. Turn(p, [proc[p] EXCEPT !.pc = "dial"], lg)
    BY <2>1, <2>3, <2>4, GotoTurns DEF Configured, Keyed
  <2>6. faults' \in 0..MaxFaults
    BY <1>2, TypeFacts
  <2> QED BY <1>2, <1>3, <2>5, <2>6, AloneKeepsInv
<1> QED BY <1>4, <1>5, <1>6, <1>7

LEMMA StartKeepsInv ==
    ASSUME Inv, NEW p \in Procs, Start(p)
    PROVE  Inv'
<1>1. Begin(p) /\ login' = [login EXCEPT ![p] = NoLogin] /\ UNCHANGED <<server, requests>>
  BY DEF Start
<1>2. ConfigInv' /\ KeepsKeys /\ nkeys <= nkeys'
  <2>1. ConfigInv'
    BY <1>1, BeginKeepsConfig DEF Inv
  <2>2. UNCHANGED <<disk, old, nkeys, replaced>> /\ nkeys \in Nat
    BY <1>1 DEF Begin, Inv, ConfigInv, ConfigTypeInv
  <2> QED BY <2>1, <2>2, SameFileKeepsKeys
<1>3. NoCall(p)
  BY <1>1, NoCallUnlessWaiting DEF Begin, At, Waits
<1>4. PICK c \in Commands : proc' = [proc EXCEPT ![p] =
                        [Idle("none") EXCEPT !.cmd = c,
                             !.pc = IF c.kind = "daemon" THEN "stat" ELSE "rebrand"]]
  BY <1>1 DEF Begin
<1> DEFINE r == [Idle("none") EXCEPT !.cmd = c,
                    !.pc = IF c.kind = "daemon" THEN "stat" ELSE "rebrand"]
<1>5. proc'[p] = r /\ proc'[p].pc \notin Keyed
  <2>1. proc'[p] = r
    BY <1>4, TypeFacts
  <2>2. r.pc = IF c.kind = "daemon" THEN "stat" ELSE "rebrand"
    BY DEF Idle
  <2> QED BY <2>1, <2>2 DEF Keyed
<1>6. Agrees(r, NoLogin)
  BY <1>5, NoLoginFacts DEF Agrees
<1>7. /\ requests' \subseteq RequestType
      /\ \A rq \in requests' : rq.wg <= nkeys /\ Kept(rq.wg)
      /\ \A rq \in requests' : rq.proc # p /\ rq \in requests
  BY <1>1, <1>3 DEF Inv, LoginInv, RequestInv, NoCall
<1> HIDE DEF r
<1>8. proc' = [proc EXCEPT ![p] = r]
  BY <1>4 DEF r
<1> QED BY <1>1, <1>2, <1>6, <1>7, <1>8, NoLoginFacts, ProcessFrame

LEMMA KillKeepsInv ==
    ASSUME Inv, NEW p \in Procs, Kill(p)
    PROVE  Inv'
<1>1. /\ Killed(p) /\ login' = [login EXCEPT ![p] = NoLogin] /\ server' = server
      /\ requests' = {[rq EXCEPT !.proc = IF @ = p THEN None ELSE @] : rq \in requests}
  BY DEF Kill
<1>2. ConfigInv' /\ KeepsKeys /\ nkeys <= nkeys'
  BY <1>1, KillKeepsConfig DEF Killed, Inv, ConfigInv, ConfigTypeInv
<1>3. proc' = [proc EXCEPT ![p] = Idle("killed")] /\ Agrees(Idle("killed"), NoLogin)
  BY <1>1, IdleFacts, NoLoginFacts DEF Killed, End, Agrees, Keyed
<1>4. /\ requests \subseteq RequestType
      /\ \A rq \in requests : rq.wg <= nkeys /\ Kept(rq.wg)
  BY DEF Inv, LoginInv, RequestInv
<1>5. p # None
  BY ConfigAssumption
<1>6. \A x \in requests' : /\ x \in RequestType /\ x.wg <= nkeys /\ Kept(x.wg)
                           /\ x.proc # p /\ x.proc # None => x \in requests
                           /\ x.proc # p
  <2> SUFFICES ASSUME NEW rq \in requests, NEW x,
                      x = [rq EXCEPT !.proc = IF rq.proc = p THEN None ELSE rq.proc]
               PROVE  /\ x \in RequestType /\ x.wg <= nkeys /\ Kept(x.wg)
                      /\ x.proc # p /\ x.proc # None => x \in requests
                      /\ x.proc # p
    BY <1>1
  <2>1. rq \in RequestType /\ rq.wg <= nkeys /\ Kept(rq.wg)
    BY <1>4
  <2>2. CASE rq.proc = p
    <3>1. x = [rq EXCEPT !.proc = None]
      BY <2>2
    <3>2. x \in RequestType /\ x.proc = None /\ x.wg = rq.wg
      BY <2>1, <3>1 DEF RequestType
    <3> QED BY <1>5, <2>1, <3>2
  <2>3. CASE rq.proc # p
    <3>1. x = [rq EXCEPT !.proc = rq.proc]
      BY <2>3
    <3>2. x = rq
      BY <2>1, <3>1 DEF RequestType
    <3> QED BY <2>1, <2>3, <3>2
  <2> QED BY <2>2, <2>3
<1>7. /\ requests' \subseteq RequestType
      /\ \A rq \in requests' : rq.wg <= nkeys /\ Kept(rq.wg)
      /\ \A rq \in requests' : rq.proc # p /\ (rq.proc # None => rq \in requests)
  BY <1>6
<1> QED BY <1>1, <1>2, <1>3, <1>7, NoLoginFacts, ProcessFrame

\* A step of GetConfig or of the migration is one of process p, which does not
\* log in yet.
LEMMA ConfigStepIsLocal ==
    ASSUME ConfigInv, NEW p \in Procs, ConfigStep(p)
    PROVE  /\ proc' = [proc EXCEPT ![p] = proc'[p]] /\ proc'[p].pc \notin Keyed
           /\ proc[p].pc # "rest" /\ proc[p].pc \notin Waits
           /\ nkeys <= nkeys'
<1>0. proc \in [Procs -> ProcType] /\ proc[p] \in ProcType /\ nkeys \in Nat
  BY DEF ConfigInv, ConfigTypeInv
<1>1. ASSUME NEW l \in Pcs \ Keyed, Goto(p, l)
      PROVE  proc' = [proc EXCEPT ![p] = proc'[p]] /\ proc'[p].pc \notin Keyed
  <2>1. proc' = [proc EXCEPT ![p] = [proc[p] EXCEPT !.pc = l]]
    BY <1>1, GotoIs DEF ConfigInv
  <2>2. proc'[p] = [proc[p] EXCEPT !.pc = l] /\ [proc[p] EXCEPT !.pc = l].pc = l
    BY <1>0, <2>1, MoveFacts
  <2> QED BY <1>1, <2>1, <2>2
<1>2. ASSUME End(p, "error")
      PROVE  proc' = [proc EXCEPT ![p] = proc'[p]] /\ proc'[p].pc \notin Keyed
  <2>1. proc' = [proc EXCEPT ![p] = Idle("error")] /\ proc'[p] = Idle("error")
    BY <1>0, <1>2 DEF End
  <2> QED BY <2>1, IdleFacts DEF Keyed
<1>3. ASSUME NEW l \in Pcs \ Keyed, NEW c, proc' = [proc EXCEPT ![p].pc = l, ![p].cfg = c]
      PROVE  proc' = [proc EXCEPT ![p] = proc'[p]] /\ proc'[p].pc \notin Keyed
  <2>1. proc' = [proc EXCEPT ![p] = [proc[p] EXCEPT !.pc = l, !.cfg = c]]
    BY <1>0, <1>3
  <2>2. [proc[p] EXCEPT !.pc = l, !.cfg = c].pc = l
    BY <1>0 DEF ProcType
  <2>3. proc'[p] = [proc[p] EXCEPT !.pc = l, !.cfg = c]
    BY <1>0, <2>1
  <2> QED BY <1>3, <2>1, <2>2, <2>3
<1>4. AfterConfig(p) \in Pcs \ Keyed
  BY AfterConfigIs DEF Pcs, Keyed
<1>5. CASE handleRebrand(p) \/ GetConfig(p)
  <2>1. PICK l \in {"copy", "stat", "create", "read"} : Goto(p, l)
    BY <1>5 DEF handleRebrand, GetConfig
  <2>2. l \in Pcs \ Keyed
    BY DEF Pcs, Keyed
  <2> QED BY <1>0, <1>1, <1>5, <2>1, <2>2 DEF handleRebrand, GetConfig, At, Waits
<1>6. CASE cpFileCreate(p) \/ cpFileCopy(p)
  <2>1. "copyData" \in Pcs \ Keyed /\ "stat" \in Pcs \ Keyed
    BY DEF Pcs, Keyed
  <2> QED BY <1>0, <1>1, <1>2, <1>6, <2>1 DEF cpFileCreate, cpFileCopy, At, Waits
<1>7. CASE createNewConfig(p)
  <2>1. \/ End(p, "error")
        \/ \E c : proc' = [proc EXCEPT ![p].pc = AfterConfig(p), ![p].cfg = c]
    BY <1>7 DEF createNewConfig
  <2>2. At(p, "create") /\ nkeys' = nkeys + 1
    BY <1>7 DEF createNewConfig
  <2>3. nkeys <= nkeys' /\ proc[p].pc # "rest" /\ proc[p].pc \notin Waits
    BY <1>0, <2>2 DEF At, Waits
  <2> QED BY <1>2, <1>3, <1>4, <2>1, <2>3
<1>8. CASE ReadConfig(p)
  <2> DEFINE c == Updated(disk, proc[p].cmd)
  <2>1. {AfterConfig(p), "write"} \subseteq Pcs \ Keyed
    BY <1>4 DEF Pcs, Keyed
  <2>2. \/ End(p, "error")
        \/ \E l \in {AfterConfig(p), "write"} :
              proc' = [proc EXCEPT ![p].cfg = c, ![p].pc = l]
    BY <1>8 DEF ReadConfig
  <2>3. At(p, "read") /\ nkeys' = nkeys
    BY <1>8 DEF ReadConfig
  <2>4. nkeys <= nkeys' /\ proc[p].pc # "rest" /\ proc[p].pc \notin Waits
    BY <1>0, <2>3 DEF At, Waits
  <2> HIDE DEF c
  <2>5. ASSUME NEW l \in {AfterConfig(p), "write"},
               proc' = [proc EXCEPT ![p].cfg = c, ![p].pc = l]
        PROVE  proc' = [proc EXCEPT ![p] = proc'[p]] /\ proc'[p].pc \notin Keyed
    <3>1. proc' = [proc EXCEPT ![p] = [proc[p] EXCEPT !.cfg = c, !.pc = l]]
      BY <1>0, <2>5
    <3>2. [proc[p] EXCEPT !.cfg = c, !.pc = l].pc = l
      BY <1>0 DEF ProcType
    <3>3. proc'[p] = [proc[p] EXCEPT !.cfg = c, !.pc = l]
      BY <1>0, <3>1
    <3> QED BY <2>1, <3>1, <3>2, <3>3
  <2> QED BY <1>2, <2>2, <2>4, <2>5
<1>9. CASE ReadConfigRefresh(p)
  <2>1. End(p, "error") \/ Goto(p, AfterConfig(p))
    BY <1>9 DEF ReadConfigRefresh
  <2>2. At(p, "write") /\ nkeys' = nkeys
    BY <1>9 DEF ReadConfigRefresh
  <2>3. nkeys <= nkeys' /\ proc[p].pc # "rest" /\ proc[p].pc \notin Waits
    BY <1>0, <2>2 DEF At, Waits
  <2> QED BY <1>1, <1>2, <1>4, <2>1, <2>3
<1> QED BY <1>5, <1>6, <1>7, <1>8, <1>9 DEF ConfigStep

LEMMA ConfigStepKeepsInv ==
    ASSUME Inv, NEW p \in Procs, ConfigStep(p), UNCHANGED loginVars
    PROVE  Inv'
<1> DEFINE r == proc'[p]
           l == login[p]
<1>1. ConfigInv' /\ KeepsKeys
  BY ConfigStepKeepsConfig DEF Inv
<1>2. /\ proc' = [proc EXCEPT ![p] = r] /\ r.pc \notin Keyed
      /\ proc[p].pc # "rest" /\ proc[p].pc \notin Waits /\ nkeys <= nkeys'
  BY ConfigStepIsLocal DEF Inv
<1>3. l \in LoginType /\ l.reply = None /\ ~l.answered /\ NoCall(p)
  BY <1>2, TypeFacts, NoReplyUnlessWaiting, NoCallUnlessWaiting DEF Agrees
<1>4. UNCHANGED <<server, login, requests>>
  BY DEF loginVars
<1>5. login' = [login EXCEPT ![p] = l]
  BY <1>4, TypeFacts
<1>6. /\ requests' \subseteq RequestType
      /\ \A rq \in requests' : rq.wg <= nkeys /\ Kept(rq.wg)
      /\ \A rq \in requests' : rq.proc # p /\ rq \in requests
  BY <1>3, <1>4 DEF Inv, LoginInv, RequestInv, NoCall
<1> HIDE DEF r, l
<1>7. Agrees(r, l)
  BY <1>2, <1>3 DEF Agrees
<1> QED BY <1>1, <1>2, <1>3, <1>4, <1>5, <1>6, <1>7, ProcessFrame

-----------------------------------------------------------------------------
(* The steps of the service *)

LEMMA FaultsKeepConfig ==
    ASSUME ConfigInv, UNCHANGED <<disk, old, nkeys, replaced, proc, runs>>,
           faults' \in 0..MaxFaults
    PROVE  ConfigInv' /\ \A k : Kept(k) <=> Kept(k)'
<1>1. Whole(disk)' = Whole(disk)
  BY DEF Whole
<1>2. \A k : Kept(k) <=> Kept(k)'
  BY <1>1 DEF Kept
<1>3. ConfigTypeInv' /\ OldInv' /\ FreshInv'
  BY <1>1 DEF ConfigInv, ConfigTypeInv, OldInv, FreshInv
<1>4. KeptInv'
  BY <1>2 DEF ConfigInv, KeptInv
<1> QED BY <1>2, <1>3, <1>4 DEF ConfigInv

\* What was known stays known.
KeepsPeers == \A s \in Servers : \A k : Known(k, s) => Known(k, s)'

LEMMA PeersAgree ==
    ASSUME Inv, KeepsPeers, NEW p \in Procs, proc'[p] = proc[p], login'[p] = login[p]
    PROVE  Agrees(proc[p], login[p])'
<1>1. Agrees(proc[p], login[p])
  BY TypeFacts
<1>2. (login[p].reply # None \/ login[p].answered) => proc[p].cfg.url \in Servers
  <2>1. login[p].reply # None => proc[p].pc \in Configured
    BY <1>1 DEF Agrees, Waits, Configured
  <2>2. login[p].answered => proc[p].cfg \in ConfigType
    BY <1>1, TypeFacts DEF Agrees, ProcType
  <2> QED BY <2>1, <2>2, TypeFacts DEF ConfigType
<1> QED BY <1>1, <1>2 DEF Agrees, KeepsPeers

LEMMA AnswerKeepsInv ==
    ASSUME Inv, NEW rq \in requests, NEW reply \in ReplyType, Answer(rq, reply),
           UNCHANGED <<disk, old, nkeys, replaced, proc, runs>>, faults' \in 0..MaxFaults,
           ServerInv', KeepsPeers, reply.code = "OK" => Known(rq.wg, rq.srv)'
    PROVE  Inv'
<1>1. ConfigInv' /\ \A k : Kept(k) <=> Kept(k)'
  BY FaultsKeepConfig DEF Inv
<1>2. /\ requests' = requests \ {rq}
      /\ login' = IF rq.proc = None THEN login ELSE [login EXCEPT ![rq.proc].reply = reply]
  BY DEF Answer
<1>3. rq.proc \in Procs \union {None} /\ login \in [Procs -> LoginType]
  BY DEF Inv, LoginInv, RequestInv, RequestType, PhaseInv
<1>4. \A q \in Procs : q # rq.proc => login'[q] = login[q]
  BY <1>2, <1>3
<1>5. CASE rq.proc = None
  <2>1. login' = login
    BY <1>2, <1>5
  <2>2. PhaseInv'
    BY <1>3, <2>1, PeersAgree DEF PhaseInv
  <2>3. RequestInv'
    BY <1>1, <1>2, <2>1 DEF Inv, LoginInv, RequestInv, IsOf
  <2> QED BY <1>1, <2>2, <2>3 DEF Inv, LoginInv
<1>6. CASE rq.proc # None
  <2> DEFINE p == rq.proc
             l == [login[p] EXCEPT !.reply = reply]
  <2>1. p \in Procs /\ IsOf(rq, p)
    BY <1>3, <1>6 DEF Inv, LoginInv, RequestInv
  <2>2. login' = [login EXCEPT ![p] = l] /\ login[p] \in LoginType
    BY <1>2, <1>3, <1>6
  <2>3. l \in LoginType /\ l.reply = reply /\ l.key = login[p].key /\ l.answered = login[p].answered
    BY <2>2, ReplyFacts, Zenon
  <2> HIDE DEF l
  <2>4. login' \in [Procs -> LoginType] /\ login'[p] = l
    BY <1>3, <2>1, <2>2, <2>3
  <2>5. Agrees(proc[rq.proc], login[rq.proc])'
    <3>1. Agrees(proc[p], login[p]) /\ proc[p].pc # "rest"
      BY <2>1, TypeFacts DEF IsOf, Waits
    <3>2. ~l.answered /\ (proc[p].pc \in Keyed => l.key # 0)
      BY <2>3, <3>1 DEF Agrees
    <3>3. /\ proc[p].pc \in Waits
          /\ reply.code = "OK" => proc[p].cfg.key \in server'[proc[p].cfg.url].peers
      BY <2>1 DEF IsOf, Known
    <3> QED BY <2>3, <2>4, <3>2, <3>3 DEF Agrees, Known
  <2>6. PhaseInv'
    <3>1. \A q \in Procs : Agrees(proc[q], login[q])'
      BY <1>4, <2>4, <2>5, PeersAgree
    <3> QED BY <2>4, <3>1 DEF PhaseInv
  <2>7. RequestInv'
    <3>1. \A x \in requests' : x.proc # None => x.proc \in Procs /\ x.proc # p /\ IsOf(x, x.proc)
      BY <1>2, <1>6 DEF Inv, LoginInv, RequestInv, RequestType
    <3>2. \A x \in requests' : x.proc # None => IsOf(x, x.proc)'
      BY <1>4, <3>1 DEF IsOf
    <3> QED BY <1>1, <1>2, <3>2 DEF Inv, LoginInv, RequestInv
  <2> QED BY <1>1, <2>6, <2>7 DEF Inv, LoginInv
<1> QED BY <1>5, <1>6

LEMMA SameServers ==
    ASSUME Inv, UNCHANGED <<disk, old, nkeys, replaced, proc, runs, server>>,
           faults' \in 0..MaxFaults
    PROVE  ServerInv' /\ KeepsPeers
<1>1. \A k : Kept(k) <=> Kept(k)'
  BY FaultsKeepConfig DEF Inv
<1> QED BY <1>1 DEF Inv, LoginInv, ServerInv, KeepsPeers, Known

LEMMA RefuseType == \A code \in Codes \ {"OK"} : Refuse(code) \in ReplyType /\ Refuse(code).code # "OK"
BY DEF Refuse, ReplyType

LEMMA AcceptType ==
    ASSUME Inv, NEW rq \in requests
    PROVE  Accept(rq) \in ReplyType
<1>1. rq.wg \in 1..MaxKeys /\ rq.srv \in Servers
  BY DEF Inv, LoginInv, RequestInv, RequestType
<1>2. server[rq.srv].start \in 1..MaxStarts
  BY <1>1 DEF Inv, LoginInv, ServerInv, ServerType
<1>3. EncryptMessage(PeerKey(rq.wg), ServerKey(rq.srv, server[rq.srv].start), "config")
         \in SealedType({"config"})
  BY <1>1, <1>2, SealedFacts
<1> QED BY <1>3 DEF Accept, ReplyType

LEMMA ServerLoginKeepsInv ==
    ASSUME Inv, NEW rq \in requests, ServerLogin(rq)
    PROVE  Inv'
<1>1. UNCHANGED <<disk, old, nkeys, replaced, proc, runs, server>>
  BY DEF ServerLogin
<1>2. faults' \in 0..MaxFaults
  BY FaultCount DEF ServerLogin, Inv, ConfigInv, ConfigTypeInv
<1>3. ServerInv' /\ KeepsPeers
  BY <1>1, <1>2, SameServers
<1>4. CASE GetPeer(rq) /\ Answer(rq, Accept(rq))
  <2>1. Known(rq.wg, rq.srv)'
    BY <1>1, <1>4 DEF GetPeer, Known
  <2> QED BY <1>1, <1>2, <1>3, <1>4, <2>1, AcceptType, AnswerKeepsInv
<1>5. ASSUME NEW code \in Codes \ {"OK"}, Answer(rq, Refuse(code))
      PROVE  Inv'
  BY <1>1, <1>2, <1>3, <1>5, RefuseType, AnswerKeepsInv
<1>6. CASE /\ requests' = (requests \ {rq}) \union {[rq EXCEPT !.stage = "register"]}
           /\ UNCHANGED login
  <2> DEFINE x == [rq EXCEPT !.stage = "register"]
  <2>1. rq \in RequestType /\ x \in RequestType /\ x.proc = rq.proc /\ x.srv = rq.srv /\ x.wg = rq.wg
    BY DEF Inv, LoginInv, RequestInv, RequestType
  <2> HIDE DEF x
  <2>2. requests' = (requests \ {rq}) \union {x} /\ login' = login
    BY <1>6 DEF x
  <2>3. ConfigInv' /\ \A k : Kept(k) <=> Kept(k)'
    BY <1>1, <1>2, FaultsKeepConfig DEF Inv
  <2>4. PhaseInv'
    BY <1>1, <1>3, <2>2, PeersAgree DEF PhaseInv, Inv, LoginInv
  <2>5. RequestInv'
    <3>1. requests' \subseteq RequestType
      BY <2>1, <2>2 DEF Inv, LoginInv, RequestInv
    <3>2. \A y \in requests' : y.wg <= nkeys' /\ Kept(y.wg)'
      BY <1>1, <2>1, <2>2, <2>3 DEF Inv, LoginInv, RequestInv
    <3>3. \A y \in requests' : y.proc # None => IsOf(y, y.proc)'
      BY <1>1, <2>1, <2>2 DEF Inv, LoginInv, RequestInv, IsOf
    <3>4. \A r1, r2 \in requests' : r1.proc # None /\ r1.proc = r2.proc => r1 = r2
      BY <2>1, <2>2 DEF Inv, LoginInv, RequestInv
    <3> QED BY <3>1, <3>2, <3>3, <3>4 DEF RequestInv
  <2> QED BY <1>3, <2>3, <2>4, <2>5 DEF Inv, LoginInv
<1>7. {"InvalidArgument", "Internal", "PermissionDenied"} \subseteq Codes \ {"OK"}
  BY DEF Codes
<1> QED BY <1>4, <1>5, <1>6, <1>7 DEF ServerLogin

LEMMA AddPeerFacts ==
    ASSUME Inv, NEW rq \in requests, AddPeer(rq),
           UNCHANGED <<disk, old, nkeys, replaced, proc, runs>>, faults' \in 0..MaxFaults
    PROVE  ServerInv' /\ KeepsPeers /\ Known(rq.wg, rq.srv)'
<1> DEFINE s == rq.srv
           u == server[s].unused /\ rq.body.msg # "oneoff"
           v == server[s].peers \union {rq.wg}
           x == [server[s] EXCEPT !.peers = v, !.unused = u]
<1>1. s \in Servers /\ rq.wg \in 1..MaxKeys /\ rq.wg <= nkeys /\ Kept(rq.wg)
  BY DEF Inv, LoginInv, RequestInv, RequestType
<1>2. server \in [Servers -> ServerType] /\ server[s] \in ServerType
  BY <1>1 DEF Inv, LoginInv, ServerInv
<1>3. u \in BOOLEAN /\ v \in SUBSET (1..MaxKeys)
  BY <1>1, <1>2 DEF ServerType
<1>4. server' = [server EXCEPT ![s] = x]
  BY <1>1, <1>2, Zenon DEF AddPeer
<1> HIDE DEF u, v
<1>5. x \in ServerType /\ x.peers = v
  BY <1>2, <1>3 DEF ServerType
<1> HIDE DEF x
<1>6. /\ server' \in [Servers -> ServerType] /\ server'[s] = x
      /\ \A t \in Servers : t # s => server'[t] = server[t]
  BY <1>1, <1>2, <1>4, <1>5
<1>7. \A k : Kept(k) <=> Kept(k)'
  BY FaultsKeepConfig DEF Inv
<1>8. \A t \in Servers : \A k \in server'[t].peers : k \in server[t].peers \/ k = rq.wg
  BY <1>5, <1>6 DEF v
<1>9. ServerInv'
  BY <1>1, <1>6, <1>7, <1>8 DEF Inv, LoginInv, ServerInv
<1>10. KeepsPeers
  BY <1>5, <1>6 DEF KeepsPeers, Known, v
<1>11. Known(rq.wg, rq.srv)'
  BY <1>5, <1>6 DEF Known, v
<1> QED BY <1>9, <1>10, <1>11

LEMMA registerPeerKeepsInv ==
    ASSUME Inv, NEW rq \in requests, registerPeer(rq)
    PROVE  Inv'
<1>1. UNCHANGED <<disk, old, nkeys, replaced, proc, runs>>
  BY DEF registerPeer
<1>2. faults' \in 0..MaxFaults
  BY FaultCount DEF registerPeer, Inv, ConfigInv, ConfigTypeInv
<1>3. CASE AddPeer(rq) /\ Answer(rq, Accept(rq))
  BY <1>1, <1>2, <1>3, AddPeerFacts, AcceptType, AnswerKeepsInv
<1>4. ASSUME NEW code \in Codes \ {"OK"}, Answer(rq, Refuse(code)), AddPeer(rq) \/ UNCHANGED server
      PROVE  Inv'
  <2>1. ServerInv' /\ KeepsPeers
    BY <1>1, <1>2, <1>4, AddPeerFacts, SameServers
  <2> QED BY <1>1, <1>2, <1>4, <2>1, RefuseType, AnswerKeepsInv
<1>5. "Internal" \in Codes \ {"OK"} /\ RefusalCode(rq) \in Codes \ {"OK"}
  <2>1. {"FailedPrecondition", "Internal", "NotFound"} \subseteq Codes \ {"OK"}
    BY DEF Codes
  <2>2. RefusalCode(rq) \in {"FailedPrecondition", "Internal", "NotFound"}
    BY DEF RefusalCode
  <2> QED BY <2>1, <2>2
<1> QED BY <1>3, <1>4, <1>5 DEF registerPeer

\* A start of the service cuts the calls off; what it knows is in its store.
LEMMA NewServerKeepsInv ==
    ASSUME Inv, NEW s \in Servers, NewServer(s)
    PROVE  Inv'
<1> DEFINE cut(p) == \E rq \in requests : rq.srv = s /\ rq.proc = p
           lost(p) == [login[p] EXCEPT !.reply = Refuse("Unavailable")]
<1>1. UNCHANGED <<disk, old, nkeys, replaced, proc, runs>> /\ faults' \in 0..MaxFaults
  BY FaultCount DEF NewServer, Inv, ConfigInv
<1>2. ConfigInv' /\ \A k : Kept(k) <=> Kept(k)'
  BY <1>1, FaultsKeepConfig DEF Inv
<1>3. ServerInv' /\ KeepsPeers
  <2> DEFINE x == [server[s] EXCEPT !.start = server[s].start + 1]
  <2>1. server \in [Servers -> ServerType] /\ server[s] \in ServerType
    BY DEF Inv, LoginInv, ServerInv
  <2>2. server[s].start + 1 \in 1..MaxStarts
    BY <2>1, LoginAssumption DEF NewServer, ServerType
  <2>3. server' = [server EXCEPT ![s] = x]
    BY <2>1 DEF NewServer
  <2>4. x \in ServerType /\ x.peers = server[s].peers
    BY <2>1, <2>2 DEF ServerType
  <2> HIDE DEF x
  <2>5. /\ server' \in [Servers -> ServerType]
        /\ \A t \in Servers : server'[t].peers = server[t].peers
    BY <2>1, <2>3, <2>4
  <2> QED BY <1>1, <1>2, <2>5 DEF Inv, LoginInv, ServerInv, KeepsPeers, Known
<1>4. /\ requests' = {rq \in requests : rq.srv # s}
      /\ \A p \in Procs : login'[p] = IF cut(p) THEN lost(p) ELSE login[p]
  BY DEF NewServer
<1>5. ASSUME NEW p \in Procs
      PROVE  lost(p) \in LoginType /\ (cut(p) => Agrees(proc[p], lost(p)))
  <2> DEFINE x == Refuse("Unavailable")
             l == [login[p] EXCEPT !.reply = x]
  <2>1. x \in ReplyType /\ x.code # "OK"
    BY RefuseType DEF Codes
  <2>2. login[p] \in LoginType
    BY TypeFacts
  <2> HIDE DEF x
  <2>3. l \in LoginType /\ l.reply = x /\ l.key = login[p].key /\ l.answered = login[p].answered
    BY <2>1, <2>2, ReplyFacts, Zenon
  <2>4. cut(p) => proc[p].pc \in Waits /\ proc[p].pc # "rest"
    BY ConfigAssumption DEF Inv, LoginInv, RequestInv, IsOf, Waits
  <2> HIDE DEF l, cut
  <2>5. cut(p) => Agrees(proc[p], l)
    BY <2>1, <2>3, <2>4, TypeFacts DEF Agrees
  <2> QED BY <2>3, <2>5 DEF l, x
<1>6. login' \in [Procs -> LoginType]
  <2>1. \A p \in Procs : login[p] \in LoginType
    BY TypeFacts
  <2> HIDE DEF cut, lost
  <2>2. \A p \in Procs : (IF cut(p) THEN lost(p) ELSE login[p]) \in LoginType
    BY <1>5, <2>1
  <2>3. login' = [p \in Procs |-> IF cut(p) THEN lost(p) ELSE login[p]]
    BY DEF NewServer, cut, lost
  <2> QED BY <2>2, <2>3
<1>7. \A p \in Procs : Agrees(proc[p], login[p])'
  <2> SUFFICES ASSUME NEW p \in Procs
               PROVE  Agrees(proc[p], login[p])'
    OBVIOUS
  <2>1. CASE ~cut(p)
    BY <1>1, <1>3, <1>4, <2>1, PeersAgree
  <2>2. CASE cut(p)
    <3>1. login'[p] = lost(p) /\ Agrees(proc[p], lost(p)) /\ proc[p].pc \in Waits
      BY <1>4, <1>5, <2>2, ConfigAssumption DEF Inv, LoginInv, RequestInv, IsOf
    <3>2. lost(p).reply.code # "OK" /\ ~lost(p).answered
      <4>1. lost(p).reply = Refuse("Unavailable")
        BY TypeFacts, RefuseType, ReplyFacts DEF Codes
      <4>2. Refuse("Unavailable").code # "OK"
        BY RefuseType DEF Codes
      <4> HIDE DEF lost
      <4> QED BY <3>1, <4>1, <4>2 DEF Agrees, Waits
    <3> HIDE DEF lost
    <3> QED BY <1>1, <3>1, <3>2 DEF Agrees
  <2> QED BY <2>1, <2>2
<1>8. RequestInv'
  <2>1. \A x \in requests' : x \in requests /\ x.srv # s
    BY <1>4
  <2>2. \A x \in requests' : x.proc # None => x.proc \in Procs /\ IsOf(x, x.proc)'
    <3> SUFFICES ASSUME NEW x \in requests', x.proc # None
                 PROVE  x.proc \in Procs /\ IsOf(x, x.proc)'
      OBVIOUS
    <3>1. x.proc \in Procs /\ IsOf(x, x.proc)
      BY <2>1 DEF Inv, LoginInv, RequestInv, RequestType
    <3>2. ~cut(x.proc)
      BY <2>1, <3>1 DEF Inv, LoginInv, RequestInv
    <3>3. login'[x.proc] = login[x.proc]
      BY <1>4, <3>1, <3>2
    <3> QED BY <1>1, <3>1, <3>3 DEF IsOf
  <2> QED BY <1>1, <1>2, <2>1, <2>2 DEF Inv, LoginInv, RequestInv
<1> QED BY <1>2, <1>3, <1>6, <1>7, <1>8 DEF Inv, LoginInv, PhaseInv

-----------------------------------------------------------------------------
(* The theorems *)

LEMMA InitInv == Init => Inv
<1> SUFFICES ASSUME Init PROVE Inv
  OBVIOUS
<1> DEFINE first == [key |-> 1, url |-> DefaultServer, psk |-> NoKey]
<1>1. first \in ConfigType /\ first.key = 1
  BY ConfigAssumption DEF ConfigType
<1>2. /\ disk = None /\ old \in {None, first} /\ nkeys = (IF old = None THEN 0 ELSE 1)
      /\ replaced = {} /\ runs = 0 /\ faults = 0
      /\ proc = [p \in Procs |-> Idle("none")]
  BY DEF Init, ConfigInit
<1>3. \A p \in Procs : /\ proc[p] \in ProcType /\ proc[p] = Idle("none")
                       /\ proc[p].pc = "rest" /\ proc[p].cfg = None
  BY <1>2, IdleFacts
<1> HIDE DEF first
<1>4. old \in ConfigType \union {None} /\ (old # None => nkeys = 1 /\ old.key = 1)
  BY <1>1, <1>2
<1>5. ~Whole(disk)
  BY <1>2 DEF Whole
<1>6. ConfigInv
  <2>1. ConfigTypeInv
    BY <1>2, <1>3, <1>4, <1>5, ConfigAssumption DEF ConfigTypeInv, Configured
  <2>2. OldInv /\ FreshInv /\ KeptInv
    BY <1>2, <1>3, <1>4, ConfigAssumption DEF OldInv, FreshInv, KeptInv
  <2> QED BY <2>1, <2>2 DEF ConfigInv
<1>7. ServerInv
  <2> DEFINE known(s) == IF old # None /\ s = DefaultServer THEN {1} ELSE {}
  <2>1. server = [s \in Servers |-> [start |-> 1, unused |-> TRUE, peers |-> known(s)]]
    BY DEF Init
  <2>2. \A s \in Servers : known(s) \in SUBSET (1..MaxKeys) /\ \A k \in known(s) : old # None /\ k = 1
    BY ConfigAssumption
  <2>3. 1 \in 1..MaxStarts
    BY LoginAssumption
  <2> HIDE DEF known
  <2>4. \A s \in Servers : server[s] \in ServerType /\ server[s].peers = known(s)
    BY <2>1, <2>2, <2>3 DEF ServerType
  <2>5. server \in [Servers -> ServerType]
    BY <2>1, <2>4
  <2>6. old # None => 1 <= nkeys /\ Kept(1)
    BY <1>4 DEF Kept
  <2> QED BY <2>2, <2>4, <2>5, <2>6 DEF ServerInv
<1>8. PhaseInv
  <2>1. login \in [Procs -> LoginType] /\ \A p \in Procs : login[p] = NoLogin
    BY NoLoginFacts DEF Init
  <2> QED BY <1>3, <2>1, NoLoginFacts DEF PhaseInv, Agrees, Keyed
<1>9. RequestInv
  BY DEF Init, RequestInv
<1> QED BY <1>6, <1>7, <1>8, <1>9 DEF Inv, LoginInv

LEMMA ClientStepKeepsInv ==
    ASSUME Inv, NEW p \in Procs, ClientStep(p)
    PROVE  Inv'
BY ConfigStepKeepsInv, GetServerPublicKeyKeepsInv, LoginKeepsInv, RegisterRefusedKeepsInv,
   RegisterKeepsInv, ReceiveKeepsInv, DeviceFlowKeepsInv
   DEF ClientStep

LEMMA StutterKeepsInv == Inv /\ UNCHANGED vars => Inv'
<1> SUFFICES ASSUME Inv, UNCHANGED vars PROVE Inv'
  OBVIOUS
<1>1. UNCHANGED <<disk, old, nkeys, replaced, proc, runs, faults, server, login, requests>>
  BY DEF vars, configVars, loginVars
<1>2. faults' \in 0..MaxFaults
  BY <1>1 DEF Inv, ConfigInv, ConfigTypeInv
<1>3. ConfigInv' /\ \A k : Kept(k) <=> Kept(k)'
  BY <1>1, <1>2, FaultsKeepConfig DEF Inv
<1>4. ServerInv' /\ KeepsPeers
  BY <1>1, <1>2, SameServers
<1>5. PhaseInv'
  BY <1>1, <1>4, PeersAgree DEF Inv, LoginInv, PhaseInv
<1>6. RequestInv'
  BY <1>1, <1>3 DEF Inv, LoginInv, RequestInv, IsOf
<1> QED BY <1>3, <1>4, <1>5, <1>6 DEF Inv, LoginInv

LEMMA NextKeepsInv == Inv /\ [Next]_vars => Inv'
<1> SUFFICES ASSUME Inv, [Next]_vars PROVE Inv'
  OBVIOUS
<1>1. ASSUME NEW p \in Procs,
             Start(p) \/ Kill(p) \/ ClientStep(p) \/ CallFails(p) \/ Timeout(p)
      PROVE  Inv'
  BY <1>1, StartKeepsInv, KillKeepsInv, ClientStepKeepsInv, CallFailsKeepsInv, TimeoutKeepsInv
<1>2. CASE ServerStep
  BY <1>2, ServerLoginKeepsInv, registerPeerKeepsInv DEF ServerStep
<1>3. ASSUME NEW s \in Servers, NewServer(s)
      PROVE  Inv'
  BY <1>3, NewServerKeepsInv
<1>4. CASE UNCHANGED vars
  BY <1>4, StutterKeepsInv
<1> QED BY <1>1, <1>2, <1>3, <1>4 DEF Next

LEMMA InvHolds == Spec => []Inv
BY InitInv, NextKeepsInv, PTL DEF Spec

\* Every variable keeps its type; no process repeats a call for ever, and what
\* it accepts is an answer that was sealed (ClientLogin's TypeOK).
THEOREM LoginTypeCorrect == Spec => []TypeOK
<1>1. Inv => TypeOK
  <2> SUFFICES ASSUME Inv PROVE TypeOK
    OBVIOUS
  <2>1. /\ disk \in ConfigType \union {None, Torn} /\ old \in ConfigType \union {None}
        /\ nkeys \in 0..MaxKeys /\ replaced \subseteq 1..nkeys
        /\ runs \in 0..MaxRuns /\ faults \in 0..MaxFaults
        /\ proc \in [Procs -> ProcType]
    BY DEF Inv, ConfigInv, ConfigTypeInv
  <2>2. server \in [Servers -> [start : 1..MaxStarts, unused : BOOLEAN, peers : SUBSET (1..nkeys)]]
    <3>1. /\ server \in [Servers -> ServerType]
          /\ \A s \in Servers : \A k \in server[s].peers : k <= nkeys
      BY DEF Inv, LoginInv, ServerInv
    <3>2. \A s \in Servers : server[s].peers \in SUBSET (1..nkeys)
      BY <2>1, <3>1 DEF ServerType
    <3>3. \A s \in Servers : server[s] \in
              [start : 1..MaxStarts, unused : BOOLEAN, peers : SUBSET (1..nkeys)]
      BY <3>1, <3>2 DEF ServerType
    <3> QED BY <3>1, <3>3
  <2>3. ASSUME NEW p \in Procs
        PROVE  /\ login[p].phase \in {"probe", "sso", "final"} /\ login[p].key \in 0..MaxStarts
               /\ login[p].tries < MaxTries
               /\ login[p].reply # None =>
                     /\ login[p].reply.code \in Codes
                     /\ login[p].reply.code = "OK" => IsSealed(login[p].reply.body, {"config"})
    <3>1. login[p] \in LoginType
      BY TypeFacts
    <3>2. login[p].tries < MaxTries
      BY <3>1, LoginAssumption DEF LoginType
    <3>3. login[p].reply \in ReplyType \union {None}
      BY <3>1 DEF LoginType
    <3>4. \A x \in ReplyType : x.code \in Codes /\ (x.code = "OK" => IsSealed(x.body, {"config"}))
      <4> HIDE DEF WgKeys
      <4> QED BY DEF ReplyType, SealedType, IsSealed, Codes
    <3> QED BY <3>1, <3>2, <3>3, <3>4 DEF LoginType
  <2>4. ASSUME NEW rq \in requests
        PROVE  /\ rq.proc \in Procs \union {None} /\ rq.srv \in Servers /\ rq.wg \in 1..nkeys
               /\ rq.stage \in {"sent", "register"} /\ IsSealed(rq.body, Credentials)
    <3>1. rq \in RequestType /\ rq.wg <= nkeys
      BY DEF Inv, LoginInv, RequestInv
    <3>2. rq.wg \in 1..nkeys
      BY <2>1, <3>1 DEF RequestType
    <3> HIDE DEF WgKeys, Credentials
    <3> QED BY <3>1, <3>2 DEF RequestType, SealedType, IsSealed
  <2> QED BY <2>1, <2>2, <2>3, <2>4 DEF TypeOK, ProcType
<1> QED BY <1>1, InvHolds, PTL

\* Whatever processes are killed, writes fail or settings change, and however
\* many processes there are: a key that a service has registered is in the
\* file, unless two first starts have raced (createNewConfig, ReadConfig).
THEOREM RegisteredKeyIsSaved == Spec => []KeyIsOnDisk
<1>1. Inv => KeyIsOnDisk
  BY DEF Inv, LoginInv, ServerInv, Kept, KeyIsOnDisk
<1> QED BY <1>1, InvHolds, PTL

\* A machine that an earlier version registered never gets another key: no
\* process is on its way to createNewConfig while there is an old file
\* (handleRebrand, cpFile).
THEOREM RebrandKeepsIdentity == Spec => []IdentitySurvivesRebrand
<1>1. Inv => IdentitySurvivesRebrand
  <2> SUFFICES ASSUME Inv, old # None, Whole(disk)
               PROVE  disk.key = old.key
    BY DEF IdentitySurvivesRebrand
  <2>1. disk.key \in 1..nkeys /\ nkeys = 1 /\ old.key = 1
    BY WholeType DEF Inv, ConfigInv, OldInv
  <2> QED BY <2>1
<1> QED BY <1>1, InvHolds, PTL

\* A login that the client takes for answered is a registration at the service
\* that the configuration names, with the key of the configuration
\* (internal.Login, Server.Login, registerPeer).
THEOREM AnsweredLoginLasts == Spec => []AnsweredIsRegistered
<1>1. Inv => AnsweredIsRegistered
  BY TypeFacts DEF AnsweredIsRegistered, Agrees, Known, URL
<1> QED BY <1>1, InvHolds, PTL
=============================================================================
