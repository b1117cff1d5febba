---------------------------- MODULE ClientConfig ----------------------------
(***************************************************************************)
(* The configuration file of the client (client/internal/config.go) and    *)
(* its move from the old directory (handleRebrand in client/cmd/root.go).  *)
(* Every console command and every Login of the daemon goes through        *)
(* GetConfig; no lock covers the look at the file, its reading and its     *)
(* replacement, and a process may be killed between any two of them.       *)
(*                                                                         *)
(* A configuration is a key, a management service and a pre-shared key.    *)
(* Of AdminURL only the writes remain that it makes ReadConfig do, as      *)
(* after createNewConfig, which does not store it.                         *)
(***************************************************************************)
EXTENDS Naturals, FiniteSets

CONSTANTS
    Procs,          \* processes and daemon calls that use the file
    Servers,        \* management services a URL may name
    DefaultServer,  \* managementURLDefault
    PreSharedKeys,  \* pre-shared keys a user gives
    Commands,       \* the arguments a process may be started with
    None, Torn,     \* no file, a file whose contents are incomplete
    BadURL,         \* a URL that parseURL refuses
    MaxKeys,        \* bound: keys that are generated
    MaxRuns,        \* bound: processes that are started
    MaxFaults       \* bound: failed writes, lost calls and restarts

NoURL == ""
NoKey == ""
Stars == "**********"

CommandType == [kind : {"console", "daemon"}, url : Servers \union {NoURL, BadURL},
                psk : PreSharedKeys \union {NoKey, Stars},
                setup : {"none", "malformed", "unknown", "oneoff"}]

ConfigType == [key : 1..MaxKeys, url : Servers, psk : PreSharedKeys \union {NoKey, Stars}]

ASSUME ConfigAssumption ==
    /\ DefaultServer \in Servers
    /\ Commands \subseteq CommandType
    /\ BadURL \notin Servers /\ NoURL \notin Servers /\ None \notin Procs
    /\ None # Torn /\ None \notin ConfigType /\ Torn \notin ConfigType
    /\ MaxKeys \in Nat \ {0} /\ MaxRuns \in Nat /\ MaxFaults \in Nat

VARIABLES
    disk,       \* the file at configPath: None, Torn or a configuration
    old,        \* the file at oldDefaultConfigPath
    nkeys,      \* keys generated so far
    replaced,   \* history: keys that were overwritten, from the first time
                \* that createNewConfig overwrote one
    proc,       \* Procs -> the command, where it is, its copy of the file
    runs, faults

configVars == <<disk, old, nkeys, replaced, proc, runs, faults>>

NoCommand == [kind |-> "console", url |-> NoURL, psk |-> NoKey, setup |-> "none"]

Idle(result) == [pc |-> "rest", cmd |-> NoCommand, cfg |-> None, result |-> result]

ConfigInit ==
    /\ disk = None
    /\ old \in {None, [key |-> 1, url |-> DefaultServer, psk |-> NoKey]}
    /\ nkeys = IF old = None THEN 0 ELSE 1
    /\ replaced = {}
    /\ proc = [p \in Procs |-> Idle("none")]
    /\ runs = 0
    /\ faults = 0

Whole(f) == f \notin {None, Torn}

At(p, l) == proc[p].pc = l

Goto(p, l) == proc' = [proc EXCEPT ![p].pc = l]

\* The command prints what came of it.
End(p, result) == proc' = [proc EXCEPT ![p] = Idle(result)]

Fault == faults < MaxFaults /\ faults' = faults + 1

-----------------------------------------------------------------------------
(* handleRebrand: a console command moves the files of earlier versions *)

\* Mutant: the test of the new path is the wrong way round.
migrateToNetbirdInverted == old # None /\ disk # None

migrateToNetbird == old # None /\ disk = None

\* The daemon has moved the files before it serves a call, or it has ended
\* with an error.
Begin(p) ==
    /\ At(p, "rest")
    /\ runs < MaxRuns
    /\ runs' = runs + 1
    /\ \E c \in Commands :
          /\ c.kind = "daemon" => old = None \/ Whole(disk)
          /\ proc' = [proc EXCEPT ![p] =
                        [Idle("none") EXCEPT !.cmd = c,
                             !.pc = IF c.kind = "daemon" THEN "stat" ELSE "rebrand"]]
    /\ UNCHANGED <<disk, old, nkeys, replaced, faults>>

handleRebrand(p) ==
    /\ At(p, "rebrand")
    /\ Goto(p, IF migrateToNetbird THEN "copy" ELSE "stat")
    /\ UNCHANGED <<disk, old, nkeys, replaced, runs, faults>>

\* os.Create leaves an empty file, whatever was there.
cpFileCreate(p) ==
    /\ At(p, "copy")
    /\ disk' = Torn
    /\ Goto(p, "copyData")
    /\ UNCHANGED <<old, nkeys, replaced, runs, faults>>

\* io.Copy writes to the file that was created: one that was renamed into its
\* place since then is not touched.
cpFileCopy(p) ==
    /\ At(p, "copyData")
    /\ \/ /\ disk' = IF disk = Torn THEN old ELSE disk
          /\ Goto(p, "stat")
          /\ UNCHANGED faults
       \/ Fault /\ End(p, "error") /\ UNCHANGED disk
    /\ UNCHANGED <<old, nkeys, replaced, runs>>

-----------------------------------------------------------------------------
(* GetConfig *)

\* WriteJson renames a complete temporary file, or leaves the file alone.
WriteJson(c) == disk' = c /\ UNCHANGED faults

WriteJsonFails == Fault /\ UNCHANGED disk

\* The key that is no longer in the file when c is.
Overwritten(c) == IF Whole(disk) /\ disk.key # c.key THEN {disk.key} ELSE {}

\* A daemon call goes on with its own login attempt, see Daemon.
AfterConfig(p) == IF proc[p].cmd.kind = "daemon" THEN "rest" ELSE "dial"

GetConfig(p) ==
    /\ At(p, "stat")
    /\ Goto(p, IF disk = None THEN "create" ELSE "read")
    /\ UNCHANGED <<disk, old, nkeys, replaced, runs, faults>>

parseURL(url) == url \in Servers

NewConfig(cmd) ==
    [key |-> nkeys + 1, url |-> IF cmd.url = NoURL THEN DefaultServer ELSE cmd.url,
     psk |-> cmd.psk]

\* Mutant: a configuration that could not be saved is used all the same.
createNewConfigUnsaved(p) ==
    /\ At(p, "create")
    /\ nkeys < MaxKeys
    /\ nkeys' = nkeys + 1
    /\ LET c == NewConfig(proc[p].cmd)
       IN  /\ parseURL(c.url)
           /\ WriteJson(c) \/ WriteJsonFails
           /\ proc' = [proc EXCEPT ![p].pc = AfterConfig(p), ![p].cfg = c]
    /\ UNCHANGED <<old, replaced, runs>>

\* A new key is in the file before anything is done with it.
createNewConfig(p) ==
    /\ At(p, "create")
    /\ nkeys < MaxKeys
    /\ nkeys' = nkeys + 1
    /\ LET c == NewConfig(proc[p].cmd)
       IN  \/ /\ parseURL(c.url)
              /\ WriteJson(c)
              /\ replaced' = replaced \union Overwritten(c)
              /\ proc' = [proc EXCEPT ![p].pc = AfterConfig(p), ![p].cfg = c]
           \/ /\ parseURL(c.url)
              /\ WriteJsonFails
              /\ End(p, "error")
              /\ UNCHANGED replaced
           \/ /\ ~parseURL(c.url)
              /\ End(p, "error")
              /\ UNCHANGED <<disk, replaced, faults>>
    /\ UNCHANGED <<old, runs>>

\* What the arguments change; the asterisks of the settings form stand for the
\* pre-shared key that is stored, an empty argument removes it.
Updated(c, cmd) ==
    [c EXCEPT !.url = IF cmd.url = NoURL THEN @ ELSE cmd.url,
              !.psk = IF cmd.psk = Stars THEN @ ELSE cmd.psk]

\* A change is written back; so is what was read, for another AdminURL.
ReadConfig(p) ==
    /\ At(p, "read")
    /\ \/ /\ Whole(disk) /\ parseURL(Updated(disk, proc[p].cmd).url)
          /\ LET c == Updated(disk, proc[p].cmd)
             IN  \E l \in {AfterConfig(p), "write"} :
                    /\ c # disk => l = "write"
                    /\ proc' = [proc EXCEPT ![p].cfg = c, ![p].pc = l]
       \/ /\ Whole(disk) => ~parseURL(Updated(disk, proc[p].cmd).url)
          /\ End(p, "error")
    /\ UNCHANGED <<disk, old, nkeys, replaced, runs, faults>>

\* The file may have changed since it was read: once a key was replaced, the
\* one that was read before is put back.
ReadConfigRefresh(p) ==
    /\ At(p, "write")
    /\ \/ /\ WriteJson(proc[p].cfg)
          /\ replaced' = IF replaced = {} THEN {} ELSE replaced \union Overwritten(proc[p].cfg)
          /\ Goto(p, AfterConfig(p))
       \/ WriteJsonFails /\ End(p, "error") /\ UNCHANGED replaced
    /\ UNCHANGED <<old, nkeys, runs>>

\* The process is killed.
Killed(p) ==
    /\ ~At(p, "rest")
    /\ Fault
    /\ End(p, "killed")
    /\ UNCHANGED <<disk, old, nkeys, replaced, runs>>

ConfigStep(p) ==
    \/ handleRebrand(p) \/ cpFileCreate(p) \/ cpFileCopy(p) \/ GetConfig(p)
    \/ createNewConfig(p) \/ ReadConfig(p) \/ ReadConfigRefresh(p)
=============================================================================
