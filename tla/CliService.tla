----------------------------- MODULE CliService -----------------------------
(* The heartbeat service of the CLI on one machine: `bat login`, the loop  *)
(* of `bat service run` behind its PID file (commands/service/run.ts,      *)
(* lib/pid.ts), `bat service status`, and the launchd job that `install`   *)
(* and `uninstall` look after.  Several processes of the CLI run at once,  *)
(* are stopped by a signal or killed, and the system gives the number of a *)
(* dead process to another one.                                            *)
EXTENDS Integers, FiniteSets

CONSTANTS
    Shells,       \* terminals, and launchd as one of them, that run a command each
    Job,          \* the one of launchd
    Pids,         \* process numbers
    Flights,      \* bound on heartbeats of a process under way at once
    StartLimit,   \* bound on commands
    KeyLimit      \* bound on logins

ASSUME ServiceAssumption ==
    /\ IsFiniteSet(Shells) /\ Job \in Shells /\ Pids \subseteq Nat \ {0}
    /\ {Flights, StartLimit, KeyLimit} \subseteq Nat

VARIABLES
    profile,      \* config.json: key and source_key, 0 where it has none
    mintedKeys,   \* keys and source keys made so far
    revoked,      \* keys that the server no longer takes
    pidFile,      \* what bat.pid holds, 0 when there is none
    proc,         \* the command that each shell runs
    others,       \* process numbers in the hands of other programs
    plist,        \* is the plist there, and is the job loaded
    sources,      \* source keys under which the server has had heartbeats
    starts,       \* commands so far
    raced,        \* two starts were between their check and their write at once
    loginRaced    \* two logins were between their read and their write at once

serviceVars == <<profile, mintedKeys, revoked, pidFile, proc, others, plist, sources, starts, raced, loginRaced>>

NotRunning == [at |-> "off", pid |-> 0, key |-> 0, source |-> 0, flights |-> 0]

ServiceInit ==
    /\ profile = [key |-> 0, source |-> 0] /\ mintedKeys = 0 /\ revoked = {} /\ pidFile = 0
    /\ proc = [s \in Shells |-> NotRunning] /\ others = {}
    /\ plist = [file |-> FALSE, loaded |-> FALSE] /\ sources = {} /\ starts = 0
    /\ raced = FALSE /\ loginRaced = FALSE

ProcAt(s, stage) == proc[s].at = stage
Becomes(s, p) == proc' = [proc EXCEPT ![s] = p]
Looping == {s \in Shells : proc[s].at \in {"first", "loop"}}
Taken == others \cup {proc[s].pid : s \in Shells}

\* isProcessRunning: some process has the number.
IsProcessRunning(p) == p \in Taken

\* readPidFile has a number, and its process runs.
PidFileRuns == pidFile # 0 /\ IsProcessRunning(pidFile)
\* removePidFile, whatever the file holds.
RemovePidFile == pidFile' = 0

\* validateConfig.
ValidConfig == profile.key # 0 /\ profile.source # 0

-----------------------------------------------------------------------------
(* bat service run.                                                        *)

\* The checks before the PID file; launchd starts the job only while it is loaded.
StartService(s) ==
    /\ ProcAt(s, "off") /\ ValidConfig /\ starts < StartLimit /\ starts' = starts + 1
    /\ s = Job => plist.loaded
    /\ \E p \in Pids \ Taken :
         Becomes(s, [NotRunning EXCEPT !.at = "check", !.pid = p, !.key = profile.key, !.source = profile.source])
    /\ UNCHANGED <<profile, mintedKeys, revoked, pidFile, others, plist, sources, raced, loginRaced>>

\* Mutant: the start that finds another service clears up behind itself.
CheckPidFileClearing(s) ==
    /\ ProcAt(s, "check")
    /\ IF PidFileRuns THEN Becomes(s, NotRunning) /\ RemovePidFile
       ELSE Becomes(s, [proc[s] EXCEPT !.at = "write"]) /\ UNCHANGED pidFile
    /\ UNCHANGED <<profile, mintedKeys, revoked, others, plist, sources, starts, raced, loginRaced>>

\* readPidFile and isProcessRunning: a number left behind by a dead process does not stop
\* the start, one that another program has since been given does.
CheckPidFile(s) ==
    /\ ProcAt(s, "check")
    /\ Becomes(s, IF PidFileRuns THEN NotRunning ELSE [proc[s] EXCEPT !.at = "write"])
    /\ UNCHANGED <<profile, mintedKeys, revoked, pidFile, others, plist, sources, starts, raced, loginRaced>>

\* writePidFile, the signal handlers, and the first heartbeat sets out.
WritePidFile(s) ==
    /\ ProcAt(s, "write")
    /\ pidFile' = proc[s].pid /\ Becomes(s, [proc[s] EXCEPT !.at = "first", !.flights = 1])
    /\ raced' = (raced \/ \E t \in Shells \ {s} : ProcAt(t, "write"))
    /\ UNCHANGED <<profile, mintedKeys, revoked, others, plist, sources, starts, loginRaced>>

\* setInterval: the next heartbeat does not wait for the last.
HeartbeatDue(s) ==
    /\ ProcAt(s, "loop") /\ proc[s].flights < Flights
    /\ Becomes(s, [proc[s] EXCEPT !.flights = @ + 1])
    /\ UNCHANGED <<profile, mintedKeys, revoked, pidFile, others, plist, sources, starts, raced, loginRaced>>

\* What the server makes of a heartbeat: it may never arrive, and a revoked key is refused.
Receives(key, source) == {sources} \cup (IF key \in revoked THEN {} ELSE {sources \cup {source}})

\* sendHeartbeat returns, whatever came of it; the first one sets the timer, and the last
\* one of a loop that was stopped lets its process end.
SendHeartbeat(s) ==
    /\ proc[s].flights > 0
    /\ sources' \in Receives(proc[s].key, proc[s].source)
    /\ Becomes(s, IF ProcAt(s, "drain") /\ proc[s].flights = 1 THEN NotRunning
                  ELSE [proc[s] EXCEPT !.flights = @ - 1, !.at = IF @ = "first" THEN "loop" ELSE @])
    /\ UNCHANGED <<profile, mintedKeys, revoked, pidFile, others, plist, starts, raced, loginRaced>>

Draining(s) == IF proc[s].flights = 0 THEN NotRunning ELSE [proc[s] EXCEPT !.at = "drain"]

\* onSignal and cleanup: SIGINT or SIGTERM of a loop removes the PID file.
StopService(s) ==
    /\ s \in Looping /\ RemovePidFile /\ Becomes(s, Draining(s))
    /\ UNCHANGED <<profile, mintedKeys, revoked, others, plist, sources, starts, raced, loginRaced>>

\* Any command may be killed; so is one that a signal meets without a handler.
KillCommand(s) ==
    /\ ~ProcAt(s, "off") /\ Becomes(s, NotRunning)
    /\ UNCHANGED <<profile, mintedKeys, revoked, pidFile, others, plist, sources, starts, raced, loginRaced>>

\* runServiceStatus.
ServiceStatus == IF PidFileRuns THEN "running" ELSE IF pidFile = 0 THEN "stopped" ELSE "stale"

-----------------------------------------------------------------------------
(* The launchd job.                                                        *)

\* runServiceInstall, which never replaces a plist.
RunServiceInstall ==
    /\ ValidConfig /\ ~plist.file /\ plist' = [plist EXCEPT !.file = TRUE]
    /\ UNCHANGED <<profile, mintedKeys, revoked, pidFile, proc, others, sources, starts, raced, loginRaced>>

\* The user's `launchctl bootstrap`, as the command advises.
Bootstrap ==
    /\ plist.file /\ ~plist.loaded /\ plist' = [plist EXCEPT !.loaded = TRUE]
    /\ UNCHANGED <<profile, mintedKeys, revoked, pidFile, proc, others, sources, starts, raced, loginRaced>>

\* runServiceUninstall: `launchctl bootout` unloads the job and stops its process ...
RunServiceUninstall ==
    /\ plist.file /\ plist' = [file |-> FALSE, loaded |-> FALSE]
    /\ IF Job \in Looping THEN RemovePidFile /\ Becomes(Job, Draining(Job))
       ELSE Becomes(Job, NotRunning) /\ UNCHANGED pidFile
    /\ UNCHANGED <<profile, mintedKeys, revoked, others, sources, starts, raced, loginRaced>>

\* ... or fails, and the plist goes all the same.
UninstallUnloaded ==
    /\ plist.file /\ plist' = [plist EXCEPT !.file = FALSE]
    /\ UNCHANGED <<profile, mintedKeys, revoked, pidFile, proc, others, sources, starts, raced, loginRaced>>

-----------------------------------------------------------------------------
(* bat login, and the rest of the world.                                   *)

\* performLogin: the browser brings a new key.
LoginMints(s) ==
    /\ s # Job /\ ProcAt(s, "off") /\ mintedKeys < KeyLimit /\ mintedKeys' = mintedKeys + 1
    /\ \E p \in Pids \ Taken : Becomes(s, [NotRunning EXCEPT !.at = "login", !.pid = p, !.key = mintedKeys + 1])
    /\ UNCHANGED <<profile, revoked, pidFile, others, plist, sources, starts, raced, loginRaced>>

\* The source key that is there, or one of its own.
SourceOfLogin(s) == IF profile.source # 0 THEN profile.source ELSE proc[s].key

LoginReads(s) ==
    /\ ProcAt(s, "login") /\ Becomes(s, [proc[s] EXCEPT !.at = "save", !.source = SourceOfLogin(s)])
    /\ loginRaced' = (loginRaced \/ \E t \in Shells \ {s} : ProcAt(t, "save"))
    /\ UNCHANGED <<profile, mintedKeys, revoked, pidFile, others, plist, sources, starts, raced>>

LoginWrites(s) ==
    /\ ProcAt(s, "save") /\ profile' = [key |-> proc[s].key, source |-> proc[s].source]
    /\ Becomes(s, NotRunning)
    /\ UNCHANGED <<mintedKeys, revoked, pidFile, others, plist, sources, starts, raced, loginRaced>>

RevokeKey ==
    /\ \E k \in 1..mintedKeys \ revoked : revoked' = revoked \cup {k}
    /\ UNCHANGED <<profile, mintedKeys, pidFile, proc, others, plist, sources, starts, raced, loginRaced>>

\* Another program is given a free number, or ends.
OtherProgram ==
    /\ \E p \in Pids : \/ p \notin Taken /\ others' = others \cup {p}
                       \/ p \in others /\ others' = others \ {p}
    /\ UNCHANGED <<profile, mintedKeys, revoked, pidFile, proc, plist, sources, starts, raced, loginRaced>>

-----------------------------------------------------------------------------
ServiceNext ==
    \/ \E s \in Shells : \/ StartService(s) \/ CheckPidFile(s) \/ WritePidFile(s) \/ HeartbeatDue(s)
                         \/ SendHeartbeat(s) \/ StopService(s) \/ KillCommand(s)
                         \/ LoginMints(s) \/ LoginReads(s) \/ LoginWrites(s)
    \/ RunServiceInstall \/ Bootstrap \/ RunServiceUninstall \/ UninstallUnloaded
    \/ RevokeKey \/ OtherProgram

ServiceSpec == ServiceInit /\ [][ServiceNext]_serviceVars

-----------------------------------------------------------------------------
(* Properties.                                                             *)

\* At most one loop sends heartbeats, as long as no two starts have both passed the check
\* before either wrote the PID file: whatever was killed, left behind or started again by
\* launchd.
OneLoop == raced \/ Cardinality(Looping) <= 1

\* `bat service status` knows a loop that runs: no file that a killed service left, no start
\* that was refused and no service that stopped late hides it.
StatusKnowsLoop == raced \/ Looping = {} \/ ServiceStatus = "running"

\* All heartbeats of a machine come under one source key, through re-logins, killed commands
\* and old processes that still run (agents of another source would be taken for missing),
\* unless the first two logins overlapped.
OneSource == loginRaced \/ Cardinality(sources) <= 1

\* One service per machine, known to its commands and under one name.
ServiceSound == OneLoop /\ StatusKnowsLoop /\ OneSource
=============================================================================
