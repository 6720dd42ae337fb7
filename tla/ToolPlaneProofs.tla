-------------------------- MODULE ToolPlaneProofs --------------------------
(***************************************************************************)
(* Proofs about the tools around the server: the heartbeat service of the  *)
(* CLI with its login, the local environments, the updates and the doctor  *)
(* of the CLI, the release script, the loop of the Rust probe, and the     *)
(* recordings of the demo.                                                 *)
(***************************************************************************)
EXTENDS CliService, LocalEnvironments, CliUpkeep, ReleaseTrain, ProbeLoop, RecordingSanitizer, RecordedDemo, SequenceTheorems, FiniteSetTheorems, WellFoundedInduction, TLAPS

-----------------------------------------------------------------------------
(***************************************************************************)
(* CliService, for any shells and process numbers.                         *)
(***************************************************************************)

ServiceRow == [at : {"off", "check", "write", "first", "loop", "drain", "login", "save"},
               pid : Nat, key : Nat, source : Nat, flights : Nat]

ServiceTyped ==
    /\ profile \in [key : Nat, source : Nat] /\ mintedKeys \in Nat /\ pidFile \in Nat
    /\ proc \in [Shells -> ServiceRow]
    /\ raced \in BOOLEAN /\ loginRaced \in BOOLEAN
    /\ \A s \in Shells : proc[s].flights > 0 => proc[s].at \in {"first", "loop", "drain"}

\* Processes that run have numbers, each its own.
PidsDiffer ==
    /\ \A s \in Shells : proc[s].at # "off" => proc[s].pid \in Pids
    /\ \A s, t \in Shells : proc[s].at # "off" /\ proc[t].at # "off" /\ proc[s].pid = proc[t].pid => s = t

\* The file holds the number of the loop, and nobody is about to write beside it.
LoopKnown ==
    ~raced => /\ \A s \in Shells : proc[s].at \in {"first", "loop"} => pidFile = proc[s].pid
              /\ \A s, t \in Shells : proc[s].at = "write" => proc[t].at \notin {"first", "loop"}

\* There is one source key from the first login on.
SourceKnown ==
    /\ \A s \in Shells : proc[s].at = "login" => proc[s].key # 0
    /\ ~loginRaced =>
         /\ \A s \in Shells : proc[s].at \in {"check", "write", "first", "loop", "drain"} =>
              profile.source # 0 /\ proc[s].source = profile.source
         /\ \A s \in Shells : proc[s].at = "save" =>
              proc[s].source # 0 /\ (profile.source # 0 => proc[s].source = profile.source)
         /\ \A s, t \in Shells : proc[s].at = "save" /\ proc[t].at = "save" => s = t
         /\ \A k \in sources : profile.source # 0 /\ k = profile.source

ServiceInv == ServiceTyped /\ PidsDiffer /\ LoopKnown /\ SourceKnown

\* What a step makes of the process of s: nothing, one that goes on, or a new one.
Continues(s, p) ==
    /\ Becomes(s, p)
    /\ p.flights > 0 => p.at \in {"first", "loop", "drain"}
    /\ \/ p.at = "off"
       \/ p.pid = proc[s].pid /\ proc[s].at # "off"
       \/ p.pid \in Pids \ Taken

ShellStep(s) ==
    \/ StartService(s) \/ CheckPidFile(s) \/ WritePidFile(s) \/ HeartbeatDue(s)
    \/ SendHeartbeat(s) \/ StopService(s) \/ KillCommand(s)
    \/ LoginMints(s) \/ LoginReads(s) \/ LoginWrites(s)
    \/ RunServiceUninstall /\ s = Job

LEMMA PidsAreNumbers == Pids \subseteq Nat /\ 0 \notin Pids /\ NotRunning \in ServiceRow
  /\ NotRunning.at = "off" /\ NotRunning.flights = 0 /\ Job \in Shells
BY ServiceAssumption DEF NotRunning, ServiceRow

LEMMA RowOfShell ==
  ASSUME ServiceTyped, NEW s \in Shells, ShellStep(s)
  PROVE  \E p \in ServiceRow : Continues(s, p)
<1>0. /\ proc[s] \in ServiceRow /\ profile \in [key : Nat, source : Nat] /\ mintedKeys \in Nat
      /\ proc[s].flights > 0 => proc[s].at \in {"first", "loop", "drain"}
  BY DEF ServiceTyped
<1>1. CASE Becomes(s, NotRunning)
  BY <1>1, PidsAreNumbers DEF Continues
<1>2. CASE StartService(s)
  <2>1. PICK n \in Pids \ Taken :
          Becomes(s, [NotRunning EXCEPT !.at = "check", !.pid = n, !.key = profile.key, !.source = profile.source])
    BY <1>2 DEF StartService
  <2> DEFINE p == [NotRunning EXCEPT !.at = "check", !.pid = n, !.key = profile.key, !.source = profile.source]
  <2>2. p \in ServiceRow /\ p.pid = n /\ p.flights = 0
    BY <1>0, PidsAreNumbers DEF NotRunning, ServiceRow
  <2> HIDE DEF p
  <2>3. Becomes(s, p)
    BY <2>1 DEF p
  <2> QED
    BY <2>2, <2>3 DEF Continues
<1>3. CASE LoginMints(s)
  <2>1. PICK n \in Pids \ Taken :
          Becomes(s, [NotRunning EXCEPT !.at = "login", !.pid = n, !.key = mintedKeys + 1])
    BY <1>3 DEF LoginMints
  <2> DEFINE k == mintedKeys + 1
             p == [NotRunning EXCEPT !.at = "login", !.pid = n, !.key = k]
  <2>0. k \in Nat /\ n \in Nat
    BY <1>0, PidsAreNumbers
  <2>4. Becomes(s, p)
    BY <2>1
  <2> HIDE DEF k
  <2>2. p \in ServiceRow /\ p.pid = n /\ p.flights = 0
    BY <2>0, PidsAreNumbers DEF NotRunning, ServiceRow
  <2> HIDE DEF p
  <2> QED
    BY <2>2, <2>4 DEF Continues
<1>4. ASSUME NEW at \in {"write", "drain"}, Becomes(s, [proc[s] EXCEPT !.at = at]), proc[s].at # "off",
             at = "write" => proc[s].at = "check"
      PROVE  \E p \in ServiceRow : Continues(s, p)
  <2> DEFINE p == [proc[s] EXCEPT !.at = at]
  <2>1. p \in ServiceRow /\ p.pid = proc[s].pid /\ p.at = at /\ p.flights = proc[s].flights
    BY <1>0 DEF ServiceRow
  <2>2. p.flights > 0 => p.at \in {"first", "loop", "drain"}
    BY <1>0, <1>4, <2>1
  <2> HIDE DEF p
  <2>3. Becomes(s, p)
    BY <1>4 DEF p
  <2> QED
    BY <1>4, <2>1, <2>2, <2>3 DEF Continues
<1>5. CASE WritePidFile(s)
  <2> DEFINE p == [proc[s] EXCEPT !.at = "first", !.flights = 1]
  <2>1. p \in ServiceRow /\ p.pid = proc[s].pid /\ p.at = "first"
    BY <1>0 DEF ServiceRow
  <2> HIDE DEF p
  <2>2. Becomes(s, p) /\ proc[s].at # "off"
    BY <1>5 DEF WritePidFile, ProcAt, p
  <2> QED
    BY <2>1, <2>2 DEF Continues
<1>6. CASE HeartbeatDue(s)
  <2> DEFINE p == [proc[s] EXCEPT !.flights = @ + 1]
  <2>1. p \in ServiceRow /\ p.pid = proc[s].pid /\ p.at = proc[s].at
    BY <1>0 DEF ServiceRow
  <2> HIDE DEF p
  <2>2. Becomes(s, p) /\ proc[s].at = "loop"
    BY <1>6 DEF HeartbeatDue, ProcAt, p
  <2> QED
    BY <2>1, <2>2 DEF Continues
<1>7. CASE SendHeartbeat(s) /\ ~Becomes(s, NotRunning)
  <2> DEFINE at == IF proc[s].at = "first" THEN "loop" ELSE proc[s].at
             p == [proc[s] EXCEPT !.flights = @ - 1, !.at = IF @ = "first" THEN "loop" ELSE @]
  <2>0. proc[s].flights > 0 /\ proc[s].at \in {"first", "loop", "drain"}
    BY <1>0, <1>7 DEF SendHeartbeat
  <2> DEFINE left == proc[s].flights - 1
  <2>4. left \in Nat
    BY <1>0, <2>0 DEF ServiceRow
  <2>1. p \in ServiceRow /\ p.pid = proc[s].pid /\ p.at = at
    <3> HIDE DEF left
    <3>1. [proc[s] EXCEPT !.flights = left, !.at = at] \in ServiceRow
      BY <1>0, <2>0, <2>4 DEF ServiceRow
    <3>2. p = [proc[s] EXCEPT !.flights = left, !.at = at]
      BY DEF left
    <3> QED
      BY <1>0, <3>1, <3>2 DEF ServiceRow
  <2>3. Becomes(s, p)
    BY <1>7 DEF SendHeartbeat
  <2> HIDE DEF p
  <2> QED
    BY <2>0, <2>1, <2>3 DEF Continues
<1>8. CASE LoginReads(s)
  <2> DEFINE p == [proc[s] EXCEPT !.at = "save", !.source = SourceOfLogin(s)]
  <2>1. SourceOfLogin(s) \in Nat
    BY <1>0 DEF SourceOfLogin, ServiceRow
  <2>2. /\ p \in ServiceRow /\ p.pid = proc[s].pid
        /\ p.flights = proc[s].flights
    BY <1>0, <2>1 DEF ServiceRow
  <2>3. Becomes(s, p) /\ proc[s].at = "login"
    BY <1>8 DEF LoginReads, ProcAt
  <2> HIDE DEF p
  <2>4. ~(p.flights > 0)
    BY <1>0, <2>2, <2>3
  <2> QED
    BY <2>2, <2>3, <2>4 DEF Continues
<1> QED
  BY <1>1, <1>2, <1>3, <1>4, <1>5, <1>6, <1>7, <1>8 DEF ShellStep, CheckPidFile, StopService, Draining,
     KillCommand, LoginWrites, RunServiceUninstall, Looping, ProcAt

LEMMA PidsStep ==
  ASSUME ServiceTyped, PidsDiffer, NEW s \in Shells, NEW p \in ServiceRow, Continues(s, p)
  PROVE  PidsDiffer'
<1>1. proc'[s] = p /\ \A t \in Shells \ {s} : proc'[t] = proc[t]
  BY DEF Continues, Becomes, ServiceTyped
<1>2. \A t \in Shells : proc[t].pid \in Taken
  BY DEF Taken
<1> QED
  BY <1>1, <1>2 DEF PidsDiffer, Continues

LEMMA TypedServiceStep ==
  ServiceTyped /\ [ServiceNext]_serviceVars => ServiceTyped'
<1> SUFFICES ASSUME ServiceTyped, [ServiceNext]_serviceVars PROVE ServiceTyped'
  OBVIOUS
<1>1. ASSUME NEW s \in Shells, ShellStep(s)
      PROVE  ServiceTyped'
  <2>1. PICK p \in ServiceRow : Continues(s, p)
    BY <1>1, RowOfShell
  <2>2. /\ proc' \in [Shells -> ServiceRow]
        /\ \A t \in Shells : proc'[t].flights > 0 => proc'[t].at \in {"first", "loop", "drain"}
    BY <2>1 DEF Continues, Becomes, ServiceTyped
  <2>3. pidFile' \in {pidFile, 0, proc[s].pid} /\ mintedKeys' \in {mintedKeys, mintedKeys + 1}
    BY <1>1 DEF ShellStep, StartService, CheckPidFile, WritePidFile, HeartbeatDue, SendHeartbeat,
       StopService, KillCommand, LoginMints, LoginReads, LoginWrites, RunServiceUninstall, RemovePidFile
  <2>4. profile' = profile \/ profile' = [key |-> proc[s].key, source |-> proc[s].source]
    BY <1>1 DEF ShellStep, StartService, CheckPidFile, WritePidFile, HeartbeatDue, SendHeartbeat,
       StopService, KillCommand, LoginMints, LoginReads, LoginWrites, RunServiceUninstall
  <2>5. proc[s] \in ServiceRow
    BY DEF ServiceTyped
  <2>6. pidFile' \in Nat /\ mintedKeys' \in Nat /\ profile' \in [key : Nat, source : Nat]
    BY <2>3, <2>4, <2>5 DEF ServiceTyped, ServiceRow
  <2>7. raced' \in BOOLEAN /\ loginRaced' \in BOOLEAN
    BY <1>1 DEF ServiceTyped, ShellStep, StartService, CheckPidFile, WritePidFile, HeartbeatDue,
       SendHeartbeat, StopService, KillCommand, LoginMints, LoginReads, LoginWrites, RunServiceUninstall
  <2> QED
    BY <2>2, <2>6, <2>7 DEF ServiceTyped
<1>2. CASE UNCHANGED <<profile, mintedKeys, pidFile, proc, raced, loginRaced>>
  BY <1>2 DEF ServiceTyped
<1> QED
  BY <1>1, <1>2, PidsAreNumbers DEF ServiceNext, ShellStep, RunServiceInstall, Bootstrap, UninstallUnloaded,
     RevokeKey, OtherProgram, serviceVars

LEMMA LoopStep ==
  ServiceTyped /\ PidsDiffer /\ LoopKnown /\ [ServiceNext]_serviceVars => LoopKnown'
<1> SUFFICES ASSUME ServiceTyped, PidsDiffer, LoopKnown, [ServiceNext]_serviceVars PROVE LoopKnown'
  OBVIOUS
<1> DEFINE Live == {"first", "loop"}
<1>1. ASSUME NEW s \in Shells, NEW p \in ServiceRow, Becomes(s, p), UNCHANGED raced,
             p.at \in Live => p.pid = proc[s].pid /\ proc[s].at \in Live,
             p.at = "write" => proc[s].at = "write",
             \/ UNCHANGED pidFile
             \/ proc[s].at \in Live /\ p.at \notin Live
      PROVE  LoopKnown'
  <2>1. proc'[s] = p /\ \A t \in Shells \ {s} : proc'[t] = proc[t]
    BY <1>1 DEF Becomes, ServiceTyped
  <2> SUFFICES ASSUME ~raced
               PROVE  /\ \A t \in Shells : proc'[t].at \in Live => pidFile' = proc'[t].pid
                      /\ \A t, u \in Shells : proc'[t].at = "write" => proc'[u].at \notin Live
    BY <1>1 DEF LoopKnown
  <2>2. /\ \A t \in Shells : proc[t].at \in Live => pidFile = proc[t].pid
        /\ \A t, u \in Shells : proc[t].at = "write" => proc[u].at \notin Live
    BY DEF LoopKnown
  <2>3. \A t, u \in Shells : proc[t].at \in Live /\ proc[u].at \in Live => t = u
    BY <2>2 DEF PidsDiffer
  <2> QED
    BY <1>1, <2>1, <2>2, <2>3
<1>2. ASSUME NEW s \in Shells, CheckPidFile(s), ~PidFileRuns
      PROVE  LoopKnown'
  <2>1. /\ proc' = [proc EXCEPT ![s] = [proc[s] EXCEPT !.at = "write"]]
        /\ UNCHANGED <<pidFile, raced>>
    BY <1>2 DEF CheckPidFile, Becomes
  <2>2. proc'[s].at = "write" /\ \A t \in Shells \ {s} : proc'[t] = proc[t]
    BY <2>1 DEF ServiceTyped, ServiceRow
  <2>3. ~raced => \A t \in Shells : proc[t].at \notin Live
    <3> SUFFICES ASSUME ~raced, NEW t \in Shells, proc[t].at \in Live PROVE FALSE
      OBVIOUS
    <3>1. pidFile = proc[t].pid /\ proc[t].pid \in Pids
      BY DEF LoopKnown, PidsDiffer
    <3>2. proc[t].pid \in Taken
      BY DEF Taken
    <3> QED
      BY <1>2, <3>1, <3>2, PidsAreNumbers DEF PidFileRuns, IsProcessRunning
  <2> QED
    BY <2>1, <2>2, <2>3 DEF LoopKnown
<1>3. ASSUME NEW s \in Shells, WritePidFile(s)
      PROVE  LoopKnown'
  <2>1. /\ proc' = [proc EXCEPT ![s] = [proc[s] EXCEPT !.at = "first", !.flights = 1]]
        /\ pidFile' = proc[s].pid /\ proc[s].at = "write"
        /\ raced' = (raced \/ \E t \in Shells \ {s} : proc[t].at = "write")
    BY <1>3 DEF WritePidFile, Becomes, ProcAt
  <2>2. /\ proc'[s].at = "first" /\ proc'[s].pid = proc[s].pid
        /\ \A t \in Shells \ {s} : proc'[t] = proc[t]
    BY <2>1 DEF ServiceTyped, ServiceRow
  <2>3. ~raced' => ~raced /\ \A t \in Shells \ {s} : proc[t].at # "write"
    BY <2>1
  <2>4. ~raced' => \A t \in Shells : proc[t].at \notin Live
    BY <2>1, <2>3 DEF LoopKnown
  <2> QED
    BY <2>1, <2>2, <2>3, <2>4 DEF LoopKnown
<1>4. ASSUME NEW s \in Shells, ShellStep(s), ~WritePidFile(s), ~(CheckPidFile(s) /\ ~PidFileRuns)
      PROVE  LoopKnown'
  <2>1. PICK p \in ServiceRow : Continues(s, p)
    BY <1>4, RowOfShell
  <2>2. proc'[s] = p /\ proc[s] \in ServiceRow
    BY <2>1 DEF Continues, Becomes, ServiceTyped
  <2>3. /\ proc'[s].at \in Live => proc'[s].pid = proc[s].pid /\ proc[s].at \in Live
        /\ proc'[s].at = "write" => proc[s].at = "write"
        /\ UNCHANGED raced
        /\ UNCHANGED pidFile \/ (proc[s].at \in Live /\ proc'[s].at \notin Live)
    <3>1. CASE StartService(s) \/ LoginMints(s)
      <4>1. UNCHANGED <<raced, pidFile>>
        BY <3>1 DEF StartService, LoginMints
      <4>2. proc'[s].at \in {"check", "login"}
        <5>1. CASE StartService(s)
          <6>1. PICK q \in Pids \ Taken : Becomes(s, [NotRunning EXCEPT !.at = "check", !.pid = q, !.key = profile.key, !.source = profile.source])
            BY <5>1 DEF StartService
          <6>2. proc'[s] = [NotRunning EXCEPT !.at = "check", !.pid = q, !.key = profile.key, !.source = profile.source]
            BY <6>1 DEF Becomes, ServiceTyped
          <6> QED
            BY <6>2 DEF NotRunning
        <5>2. CASE LoginMints(s)
          <6>1. PICK q \in Pids \ Taken : Becomes(s, [NotRunning EXCEPT !.at = "login", !.pid = q, !.key = mintedKeys + 1])
            BY <5>2 DEF LoginMints
          <6>2. proc'[s] = [NotRunning EXCEPT !.at = "login", !.pid = q, !.key = mintedKeys + 1]
            BY <6>1 DEF Becomes, ServiceTyped
          <6> QED
            BY <6>2 DEF NotRunning
        <5> QED
          BY <3>1, <5>1, <5>2
      <4> QED
        BY <4>1, <4>2
    <3>2. CASE HeartbeatDue(s) \/ SendHeartbeat(s)
      <4>1. UNCHANGED <<raced, pidFile>>
        BY <3>2 DEF HeartbeatDue, SendHeartbeat
      <4>2. \/ proc'[s] = NotRunning
            \/ proc'[s] = [proc[s] EXCEPT !.flights = @ - 1, !.at = IF @ = "first" THEN "loop" ELSE @]
            \/ proc'[s] = [proc[s] EXCEPT !.flights = @ + 1]
        BY <3>2 DEF HeartbeatDue, SendHeartbeat, Becomes, ServiceTyped
      <4>3. proc'[s].at = "off" \/ (proc'[s].pid = proc[s].pid /\ (proc'[s].at = proc[s].at \/ (proc[s].at = "first" /\ proc'[s].at = "loop")))
        <5>1. CASE proc'[s] = NotRunning
          BY <5>1 DEF NotRunning
        <5>2. CASE proc'[s] = [proc[s] EXCEPT !.flights = @ + 1]
          BY <2>2, <5>2 DEF ServiceRow
        <5>3. CASE proc'[s] = [proc[s] EXCEPT !.flights = @ - 1, !.at = IF @ = "first" THEN "loop" ELSE @]
          <6> DEFINE at == IF proc[s].at = "first" THEN "loop" ELSE proc[s].at
          <6>1. proc'[s].pid = proc[s].pid /\ proc'[s].at = at
            BY <2>2, <5>3 DEF ServiceRow
          <6> QED
            BY <6>1
        <5> QED
          BY <4>2, <5>1, <5>2, <5>3
      <4> QED
        BY <4>1, <4>3
    <3>3. CASE StopService(s) \/ (RunServiceUninstall /\ s = Job)
      <4>1. proc'[s] = NotRunning \/ proc'[s] = [proc[s] EXCEPT !.at = "drain"]
        BY <3>3 DEF StopService, RunServiceUninstall, Becomes, Draining, ServiceTyped
      <4>2. proc'[s].at \in {"off", "drain"}
        BY <2>2, <4>1 DEF NotRunning, ServiceRow
      <4>3. UNCHANGED raced /\ (UNCHANGED pidFile \/ s \in Looping)
        BY <3>3 DEF StopService, RunServiceUninstall
      <4> QED
        BY <4>2, <4>3 DEF Looping
    <3>4. CASE KillCommand(s) \/ LoginWrites(s) \/ (CheckPidFile(s) /\ PidFileRuns)
      <4>1. proc'[s] = NotRunning /\ UNCHANGED <<raced, pidFile>>
        BY <3>4 DEF KillCommand, LoginWrites, CheckPidFile, Becomes, ServiceTyped
      <4> QED
        BY <4>1 DEF NotRunning
    <3>5. CASE LoginReads(s)
      <4>1. proc'[s] = [proc[s] EXCEPT !.at = "save", !.source = SourceOfLogin(s)] /\ UNCHANGED <<raced, pidFile>>
        BY <3>5 DEF LoginReads, Becomes, ServiceTyped
      <4>2. proc'[s].at = "save"
        BY <2>2, <4>1 DEF ServiceRow
      <4> QED
        BY <4>1, <4>2
    <3> QED
      BY <1>4, <3>1, <3>2, <3>3, <3>4, <3>5 DEF ShellStep
  <2> QED
    BY <1>1, <2>1, <2>2, <2>3 DEF Continues
<1>5. CASE UNCHANGED <<proc, raced, pidFile>>
  BY <1>5 DEF LoopKnown
<1> QED
  BY <1>2, <1>3, <1>4, <1>5, PidsAreNumbers DEF ServiceNext, ShellStep, RunServiceInstall, Bootstrap, UninstallUnloaded,
     RevokeKey, OtherProgram, serviceVars

LEMMA SourceStep ==
  ServiceTyped /\ SourceKnown /\ [ServiceNext]_serviceVars => SourceKnown'
<1> SUFFICES ASSUME ServiceTyped, SourceKnown, [ServiceNext]_serviceVars PROVE SourceKnown'
  OBVIOUS
<1> DEFINE Serving == {"check", "write", "first", "loop", "drain"}
\* A process that goes on as what it was, or ends.
<1>1. ASSUME NEW s \in Shells, NEW p \in ServiceRow, Becomes(s, p), UNCHANGED <<profile, loginRaced>>,
             p.at \notin {"login", "save"},
             p.at \in Serving => proc[s].at \in Serving /\ p.source = proc[s].source,
             sources' = sources \/ (proc[s].at \in Serving /\ sources' = sources \cup {proc[s].source})
      PROVE  SourceKnown'
  <2>1. proc'[s] = p /\ \A t \in Shells \ {s} : proc'[t] = proc[t]
    BY <1>1 DEF Becomes, ServiceTyped
  <2>2. \A t \in Shells : proc'[t].at = "login" => proc'[t].key # 0
    BY <1>1, <2>1 DEF SourceKnown
  <2> SUFFICES ASSUME ~loginRaced
               PROVE  /\ \A t \in Shells : proc'[t].at \in Serving =>
                           profile.source # 0 /\ proc'[t].source = profile.source
                      /\ \A t \in Shells : proc'[t].at = "save" =>
                           proc'[t].source # 0 /\ (profile.source # 0 => proc'[t].source = profile.source)
                      /\ \A t, u \in Shells : proc'[t].at = "save" /\ proc'[u].at = "save" => t = u
                      /\ \A k \in sources' : profile.source # 0 /\ k = profile.source
    BY <1>1, <2>2 DEF SourceKnown
  <2>3. /\ \A t \in Shells : proc[t].at \in Serving => profile.source # 0 /\ proc[t].source = profile.source
        /\ \A t \in Shells : proc[t].at = "save" =>
             proc[t].source # 0 /\ (profile.source # 0 => proc[t].source = profile.source)
        /\ \A t, u \in Shells : proc[t].at = "save" /\ proc[u].at = "save" => t = u
        /\ \A k \in sources : profile.source # 0 /\ k = profile.source
    BY DEF SourceKnown
  <2> QED
    BY <1>1, <2>1, <2>3
<1>2. ASSUME NEW s \in Shells, StartService(s)
      PROVE  SourceKnown'
  <2>1. /\ proc'[s].at = "check" /\ proc'[s].source = profile.source /\ profile.source # 0
        /\ \A t \in Shells \ {s} : proc'[t] = proc[t]
        /\ UNCHANGED <<profile, loginRaced, sources>>
    <3>1. PICK n : proc' = [proc EXCEPT ![s] = [NotRunning EXCEPT !.at = "check", !.pid = n, !.key = profile.key,
                                                                   !.source = profile.source]]
      BY <1>2 DEF StartService, Becomes
    <3>2. proc'[s] = [NotRunning EXCEPT !.at = "check", !.pid = n, !.key = profile.key, !.source = profile.source]
      BY <3>1 DEF ServiceTyped
    <3>3. \A t \in Shells \ {s} : proc'[t] = proc[t]
      BY <3>1 DEF ServiceTyped
    <3>4. proc'[s].at = "check" /\ proc'[s].source = profile.source
      BY <3>2 DEF NotRunning
    <3> QED
      BY <1>2, <3>3, <3>4 DEF StartService, ValidConfig
  <2> QED
    BY <2>1 DEF SourceKnown
<1>3. ASSUME NEW s \in Shells, LoginMints(s)
      PROVE  SourceKnown'
  <2>1. /\ proc'[s].at = "login" /\ proc'[s].key # 0
        /\ \A t \in Shells \ {s} : proc'[t] = proc[t]
        /\ UNCHANGED <<profile, loginRaced, sources>>
    <3>1. PICK n : proc' = [proc EXCEPT ![s] = [NotRunning EXCEPT !.at = "login", !.pid = n, !.key = mintedKeys + 1]]
      BY <1>3 DEF LoginMints, Becomes
    <3>2. proc'[s] = [NotRunning EXCEPT !.at = "login", !.pid = n, !.key = mintedKeys + 1]
      BY <3>1 DEF ServiceTyped
    <3>3. \A t \in Shells \ {s} : proc'[t] = proc[t]
      BY <3>1 DEF ServiceTyped
    <3>4. proc'[s].at = "login" /\ proc'[s].key = mintedKeys + 1
      BY <3>2 DEF NotRunning
    <3>5. mintedKeys + 1 # 0
      BY DEF ServiceTyped
    <3> QED
      BY <1>3, <3>3, <3>4, <3>5 DEF LoginMints
  <2> QED
    BY <2>1 DEF SourceKnown
<1>4. ASSUME NEW s \in Shells, LoginReads(s)
      PROVE  SourceKnown'
  <2>1. /\ proc' = [proc EXCEPT ![s] = [proc[s] EXCEPT !.at = "save", !.source = SourceOfLogin(s)]]
        /\ proc[s].at = "login" /\ UNCHANGED <<profile, sources>>
        /\ loginRaced' = (loginRaced \/ \E t \in Shells \ {s} : proc[t].at = "save")
    BY <1>4 DEF LoginReads, Becomes, ProcAt
  <2>2. /\ proc'[s].at = "save" /\ proc'[s].source = SourceOfLogin(s)
        /\ \A t \in Shells \ {s} : proc'[t] = proc[t]
    BY <2>1 DEF ServiceTyped, ServiceRow
  <2>3. SourceOfLogin(s) # 0 /\ (profile.source # 0 => SourceOfLogin(s) = profile.source)
    BY <2>1 DEF SourceOfLogin, SourceKnown
  <2>4. ~loginRaced' => ~loginRaced /\ \A t \in Shells \ {s} : proc[t].at # "save"
    BY <2>1
  <2> QED
    BY <2>1, <2>2, <2>3, <2>4 DEF SourceKnown
<1>5. ASSUME NEW s \in Shells, LoginWrites(s)
      PROVE  SourceKnown'
  <2>1. /\ proc' = [proc EXCEPT ![s] = NotRunning] /\ proc[s].at = "save"
        /\ profile' = [key |-> proc[s].key, source |-> proc[s].source]
        /\ UNCHANGED <<sources, loginRaced>>
    BY <1>5 DEF LoginWrites, Becomes, ProcAt
  <2>2. proc'[s] = NotRunning /\ \A t \in Shells \ {s} : proc'[t] = proc[t]
    BY <2>1 DEF ServiceTyped
  <2>3. profile'.source = proc[s].source
    BY <2>1
  <2>4. proc'[s].at = "off"
    BY <2>2 DEF NotRunning
  <2>5. ~loginRaced => proc[s].source # 0 /\ (profile.source # 0 => profile'.source = profile.source)
    BY <2>1, <2>3 DEF SourceKnown
  <2> QED
    BY <2>1, <2>2, <2>3, <2>4, <2>5 DEF SourceKnown
<1>6. ASSUME NEW s \in Shells,
             \/ CheckPidFile(s) \/ WritePidFile(s) \/ HeartbeatDue(s) \/ SendHeartbeat(s)
             \/ StopService(s) \/ KillCommand(s) \/ (RunServiceUninstall /\ s = Job)
      PROVE  SourceKnown'
  <2>0. proc[s] \in ServiceRow /\ (proc[s].flights > 0 => proc[s].at \in Serving)
    BY DEF ServiceTyped
  <2>1. PICK p \in ServiceRow : Continues(s, p)
    BY <1>6, RowOfShell DEF ShellStep
  <2>2. p = proc'[s]
    BY <2>1 DEF Continues, Becomes, ServiceTyped
  <2>3. proc'[s].at \in Serving \cup {"off"} /\ (proc'[s].at # "off" => proc[s].at \in Serving /\ proc'[s].source = proc[s].source)
    <3>1. CASE HeartbeatDue(s) \/ SendHeartbeat(s)
      <4>1. \/ proc'[s] = NotRunning
            \/ proc'[s] = [proc[s] EXCEPT !.flights = @ - 1, !.at = IF @ = "first" THEN "loop" ELSE @]
            \/ proc'[s] = [proc[s] EXCEPT !.flights = @ + 1]
        BY <3>1 DEF HeartbeatDue, SendHeartbeat, Becomes, ServiceTyped
      <4>0. proc[s].at \in Serving
        BY <2>0, <3>1 DEF HeartbeatDue, SendHeartbeat, ProcAt
      <4>2. CASE proc'[s] = NotRunning
        BY <4>2 DEF NotRunning
      <4>3. CASE proc'[s] = [proc[s] EXCEPT !.flights = @ + 1]
        BY <2>0, <4>0, <4>3 DEF ServiceRow
      <4>4. CASE proc'[s] = [proc[s] EXCEPT !.flights = @ - 1, !.at = IF @ = "first" THEN "loop" ELSE @]
        <5> DEFINE at == IF proc[s].at = "first" THEN "loop" ELSE proc[s].at
        <5>1. proc'[s].source = proc[s].source /\ proc'[s].at = at
          BY <2>0, <4>4 DEF ServiceRow
        <5> QED
          BY <4>0, <5>1
      <4> QED
        BY <4>1, <4>2, <4>3, <4>4
    <3>2. CASE StopService(s) \/ (RunServiceUninstall /\ s = Job)
      <4>1. proc'[s] = NotRunning \/ (proc'[s] = [proc[s] EXCEPT !.at = "drain"] /\ proc[s].at \in {"first", "loop"})
        BY <3>2 DEF StopService, RunServiceUninstall, Becomes, Draining, ServiceTyped, Looping
      <4> QED
        BY <2>0, <4>1 DEF NotRunning, ServiceRow
    <3>3. CASE CheckPidFile(s) \/ KillCommand(s)
      <4>1. proc'[s] = NotRunning \/ (proc'[s] = [proc[s] EXCEPT !.at = "write"] /\ proc[s].at = "check")
        BY <3>3 DEF CheckPidFile, KillCommand, Becomes, ServiceTyped, ProcAt
      <4> QED
        BY <2>0, <4>1 DEF NotRunning, ServiceRow
    <3>4. CASE WritePidFile(s)
      <4>1. proc'[s] = [proc[s] EXCEPT !.at = "first", !.flights = 1] /\ proc[s].at = "write"
        BY <3>4 DEF WritePidFile, Becomes, ServiceTyped, ProcAt
      <4> QED
        BY <2>0, <4>1 DEF ServiceRow
    <3> QED
      BY <1>6, <3>1, <3>2, <3>3, <3>4
  <2>4. UNCHANGED <<profile, loginRaced>>
    BY <1>6 DEF CheckPidFile, WritePidFile, HeartbeatDue, SendHeartbeat, StopService, KillCommand, RunServiceUninstall
  <2>5. sources' = sources \/ (proc[s].at \in Serving /\ sources' = sources \cup {proc[s].source})
    <3>1. CASE SendHeartbeat(s)
      <4>1. proc[s].at \in Serving /\ sources' \in Receives(proc[s].key, proc[s].source)
        BY <2>0, <3>1 DEF SendHeartbeat
      <4> QED
        BY <4>1 DEF Receives
    <3>2. CASE ~SendHeartbeat(s)
      BY <1>6, <3>2 DEF CheckPidFile, WritePidFile, HeartbeatDue, StopService, KillCommand, RunServiceUninstall
    <3> QED
      BY <3>1, <3>2
  <2> QED
    BY <1>1, <2>1, <2>2, <2>3, <2>4, <2>5 DEF Continues
<1>7. CASE UNCHANGED <<profile, proc, loginRaced, sources>>
  BY <1>7 DEF SourceKnown
<1> QED
  BY <1>2, <1>3, <1>4, <1>5, <1>6, <1>7, PidsAreNumbers DEF ServiceNext, RunServiceInstall, Bootstrap, UninstallUnloaded,
     RevokeKey, OtherProgram, serviceVars

LEMMA PidsKept ==
  ServiceTyped /\ PidsDiffer /\ [ServiceNext]_serviceVars => PidsDiffer'
<1> SUFFICES ASSUME ServiceTyped, PidsDiffer, [ServiceNext]_serviceVars PROVE PidsDiffer'
  OBVIOUS
<1>1. ASSUME NEW s \in Shells, ShellStep(s)
      PROVE  PidsDiffer'
  BY <1>1, RowOfShell, PidsStep
<1>2. CASE UNCHANGED proc
  BY <1>2 DEF PidsDiffer
<1> QED
  BY <1>1, <1>2, PidsAreNumbers DEF ServiceNext, ShellStep, RunServiceInstall, Bootstrap, UninstallUnloaded,
     RevokeKey, OtherProgram, serviceVars

\* A set without two members has at most one.
LEMMA NoTwo ==
  ASSUME NEW S, \A x, y \in S : x = y
  PROVE  Cardinality(S) <= 1
<1>1. CASE S = {}
  BY <1>1, FS_EmptySet
<1>2. CASE S # {}
  <2>1. PICK x \in S : TRUE
    BY <1>2
  <2>2. S = {x}
    BY <2>1
  <2> QED
    BY <2>2, FS_Singleton
<1> QED
  BY <1>1, <1>2

\* For any shells, process numbers, keys and kills: at most one loop sends heartbeats, the
\* status knows it, and one machine has one source key (`bat service` and `bat login`).
THEOREM ServiceStaysSound == ServiceSpec => []ServiceSound
<1>1. ServiceInit => ServiceInv
  <2> SUFFICES ASSUME ServiceInit PROVE ServiceInv
    OBVIOUS
  <2>1. \A s \in Shells : proc[s] = NotRunning
    BY DEF ServiceInit
  <2>2. \A s \in Shells : proc[s].at = "off" /\ ~(proc[s].flights > 0)
    BY <2>1 DEF NotRunning
  <2>3. ServiceTyped
    BY <2>2, PidsAreNumbers DEF ServiceInit, ServiceTyped
  <2> QED
    BY <2>2, <2>3 DEF ServiceInit, ServiceInv, PidsDiffer, LoopKnown, SourceKnown
<1>2. ServiceInv /\ [ServiceNext]_serviceVars => ServiceInv'
  BY TypedServiceStep, PidsKept, LoopStep, SourceStep DEF ServiceInv
<1>3. ServiceInv => ServiceSound
  <2> SUFFICES ASSUME ServiceInv PROVE ServiceSound
    OBVIOUS
  <2>1. ASSUME ~raced, NEW s \in Looping
        PROVE  pidFile = proc[s].pid /\ proc[s].pid \in Pids
    BY <2>1 DEF ServiceInv, LoopKnown, PidsDiffer, Looping
  <2>2. OneLoop
    <3> SUFFICES ASSUME ~raced PROVE Cardinality(Looping) <= 1
      BY DEF OneLoop
    <3>1. \A s, t \in Looping : s = t
      BY <2>1 DEF ServiceInv, PidsDiffer, Looping
    <3> QED
      BY <3>1, NoTwo
  <2>3. StatusKnowsLoop
    <3> SUFFICES ASSUME ~raced, NEW s \in Looping PROVE ServiceStatus = "running"
      BY DEF StatusKnowsLoop
    <3>1. pidFile # 0 /\ pidFile \in Taken
      BY <2>1, PidsAreNumbers DEF Taken, Looping
    <3> QED
      BY <3>1 DEF ServiceStatus, PidFileRuns, IsProcessRunning
  <2>4. OneSource
    <3> SUFFICES ASSUME ~loginRaced PROVE Cardinality(sources) <= 1
      BY DEF OneSource
    <3>1. \A k, l \in sources : k = l
      BY DEF ServiceInv, SourceKnown
    <3> QED
      BY <3>1, NoTwo
  <2> QED
    BY <2>2, <2>3, <2>4 DEF ServiceSound
<1> QED
  BY <1>1, <1>2, <1>3, PTL DEF ServiceSpec
-----------------------------------------------------------------------------
(***************************************************************************)
(* LocalEnvironments, for any requests to switch, calls and starts of a    *)
(* second launcher.                                                        *)
(***************************************************************************)

Store == [there : BOOLEAN, ready : BOOLEAN, anchor : Int, lock : BOOLEAN]
Stage == {"off", "look", "remove", "lock", "init", "up", "closing", "check", "wipe", "failed"}
DemoJob == [at : Stage, fresh : BOOLEAN]
Runtime == [mode : Modes, anchor : Int, open : BOOLEAN]
Instance == [mode : Modes, runtime : Nat, active : BOOLEAN, switching : BOOLEAN]
Switch == [at : {"off", "create", "drain"}, mode : Modes, old : Nat, id : Nat]

EnvTyped ==
    /\ hour \in Nat /\ disk \in Store /\ job \in [Launchers -> DemoJob] /\ outrun \in BOOLEAN /\ rivals \in Nat
    /\ runtimes \in Seq(Runtime) /\ instances \in Seq(Instance)
    /\ demoPromise \in [at : {"none", "pending", "resolved"}, runtime : Nat]
    /\ switch \in [Switches -> Switch]
    /\ callOf \in [Calls -> [instance : Nat, runtime : Nat]]
    /\ refresh \in [at : {"off", "on"}, instance : Nat]

Running(l) == job[l].at \in Holds

\* The launcher that works on the demo holds the lock of a store that is there, and nobody
\* else is about to remove it.
StoreKept ==
    ~outrun =>
         /\ disk.ready => disk.there
         /\ \A l \in Launchers : Running(l) => disk.lock /\ disk.there
         /\ \A l \in Launchers : job[l].at \in {"up", "closing"} => disk.ready
         /\ \A l, m \in Launchers : l # m /\ Running(l) => ~Running(m) /\ job[m].at \notin Removes
         /\ \A l, m \in Launchers : l # m => ~(job[l].at \in Looked /\ job[m].at \in Removes)

Demo(r) == runtimes[r].mode = "demo"

\* There is one demo runtime that is open, and then the job of the gateway runs it, and none
\* during a refresh; before the promise has resolved there is no demo runtime at all.
DemoKnown ==
    /\ \A r \in DOMAIN runtimes : Demo(r) /\ runtimes[r].open => job["gateway"].at = "up"
    /\ \A r, q \in DOMAIN runtimes : Demo(r) /\ runtimes[r].open /\ Demo(q) /\ runtimes[q].open => r = q
    /\ demoPromise.at # "resolved" =>
         /\ \A r \in DOMAIN runtimes : ~Demo(r)
         /\ \A i \in DOMAIN instances : instances[i].mode # "demo"
    /\ demoPromise.at = "resolved" => demoPromise.runtime \in DOMAIN runtimes /\ Demo(demoPromise.runtime)
    /\ refresh.at = "on" =>
         /\ refresh.instance \in DOMAIN instances /\ instances[refresh.instance].mode = "demo"
         /\ \A r \in DOMAIN runtimes : ~(Demo(r) /\ runtimes[r].open)

\* An instance has a runtime of its own mode; an e2e runtime has one instance and is open as
\* long as that is active or has calls under way.
UseKnown ==
    /\ \A i \in DOMAIN instances :
         IF instances[i].mode = "prod" THEN instances[i].runtime = 0
         ELSE instances[i].runtime \in DOMAIN runtimes /\ runtimes[instances[i].runtime].mode = instances[i].mode
    /\ \A i, j \in DOMAIN instances :
         instances[i].mode = "e2e" /\ instances[j].mode = "e2e" /\ instances[i].runtime = instances[j].runtime => i = j
    /\ \A i \in DOMAIN instances :
         instances[i].mode = "e2e" /\ instances[i].active => runtimes[instances[i].runtime].open
    /\ \A w \in Switches :
         /\ switch[w].at # "off" /\ switch[w].old # 0 => switch[w].old \in DOMAIN instances
         /\ switch[w].at = "drain" => switch[w].old # 0 /\ ~instances[switch[w].old].active
    /\ \A c \in Calls : callOf[c].runtime # 0 =>
         /\ callOf[c].runtime \in DOMAIN runtimes
         /\ runtimes[callOf[c].runtime].mode = "e2e" =>
              /\ callOf[c].instance \in DOMAIN instances
              /\ instances[callOf[c].instance].mode = "e2e"
              /\ instances[callOf[c].instance].runtime = callOf[c].runtime
              /\ runtimes[callOf[c].runtime].open

EnvInv == EnvTyped /\ StoreKept /\ DemoKnown /\ UseKnown

-----------------------------------------------------------------------------
(* Lists.                                                                  *)

LEMMA AppendIs ==
  ASSUME NEW S, NEW s \in Seq(S), NEW e \in S
  PROVE  /\ Append(s, e) \in Seq(S) /\ Len(s) \in Nat /\ Len(Append(s, e)) = Len(s) + 1
         /\ DOMAIN s = 1..Len(s) /\ DOMAIN Append(s, e) = 1..(Len(s) + 1)
         /\ \A i \in 1..Len(s) : Append(s, e)[i] = s[i]
         /\ Append(s, e)[Len(s) + 1] = e
<1>1. Append(s, e) \in Seq(S) /\ Len(Append(s, e)) = Len(s) + 1
  OBVIOUS
<1>2. Len(s) \in Nat /\ DOMAIN s = 1..Len(s) /\ DOMAIN Append(s, e) = 1..(Len(s) + 1)
  BY <1>1, LenProperties
<1>3. Append(s, e)[Len(s) + 1] = e /\ \A i \in 1..Len(s) : Append(s, e)[i] = s[i]
  BY <1>2
<1> QED
  BY <1>1, <1>2, <1>3

LEMMA ListOf ==
  ASSUME NEW S, NEW n \in Nat, NEW f \in [1..n -> S]
  PROVE  f \in Seq(S) /\ Len(f) = n
<1>1. f \in Seq(S)
  OBVIOUS
<1>2. DOMAIN f = 1..Len(f) /\ Len(f) \in Nat
  BY <1>1, LenProperties
<1>3. DOMAIN f = 1..n
  OBVIOUS
<1> QED
  BY <1>1, <1>2, <1>3

-----------------------------------------------------------------------------
(* Type correctness.                                                       *)

\* What a step may do to the instances that there are, a refresh apart.
StillThere(old, new) ==
    /\ new.mode = old.mode /\ new.runtime = old.runtime
    /\ new.active => old.active

InstancesKept ==
    /\ instances' \in Seq(Instance) /\ DOMAIN instances' = DOMAIN instances
    /\ \A i \in DOMAIN instances : StillThere(instances[i], instances'[i])

LEMMA EditKept ==
  ASSUME EnvTyped, NEW i \in DOMAIN instances, NEW e \in Instance, StillThere(instances[i], e),
         instances' = [instances EXCEPT ![i] = e]
  PROVE  InstancesKept
<1>1. DOMAIN instances = 1..Len(instances) /\ \A j \in DOMAIN instances : instances[j] \in Instance
  BY LenProperties DEF EnvTyped
<1>2. /\ instances' \in Seq(Instance) /\ Len(instances') = Len(instances)
      /\ \A j \in 1..Len(instances) : instances'[j] = IF j = i THEN e ELSE instances[j]
  BY <1>1, ExceptSeq DEF EnvTyped
<1>3. DOMAIN instances' = DOMAIN instances
  BY <1>1, <1>2, LenProperties
<1> QED
  BY <1>1, <1>2, <1>3 DEF InstancesKept, StillThere

LEMMA SameKept ==
  ASSUME EnvTyped, UNCHANGED instances
  PROVE  InstancesKept
BY DEF EnvTyped, InstancesKept, StillThere

LEMMA LeastOfNats ==
  ASSUME NEW T \in SUBSET Nat, T # {}
  PROVE  \E x \in T : \A y \in T : x <= y
<1> DEFINE R == OpToRel(<, Nat)
<1>1. IsWellFoundedOn(R, Nat)
  BY NatLessThanWellFounded
<1>2. \A x \in T, y \in T : y < x => <<y, x>> \in R
  BY DEF OpToRel
<1> HIDE DEF R
<1>3. PICK x \in T : \A y \in T : ~(<<y, x>> \in R)
  BY <1>1, WFMin
<1>4. \A y \in T : ~(y < x)
  BY <1>2, <1>3
<1>5. \A y \in T : x <= y
  BY <1>4
<1> QED
  BY <1>5

LEMMA RowsTyped ==
  ASSUME EnvTyped
  PROVE  /\ \A i \in DOMAIN instances : instances[i] \in Instance /\ i \in Nat /\ i # 0
         /\ \A r \in DOMAIN runtimes : runtimes[r] \in Runtime /\ r \in Nat /\ r # 0
         /\ Len(instances) \in Nat /\ Len(runtimes) \in Nat
         /\ DOMAIN instances = 1..Len(instances) /\ DOMAIN runtimes = 1..Len(runtimes)
<1>1. /\ DOMAIN instances = 1..Len(instances) /\ DOMAIN runtimes = 1..Len(runtimes)
      /\ Len(instances) \in Nat /\ Len(runtimes) \in Nat
      /\ instances \in [1..Len(instances) -> Instance] /\ runtimes \in [1..Len(runtimes) -> Runtime]
  BY LenProperties DEF EnvTyped
<1> QED
  BY <1>1

\* A switch: the old instance steps down, a new one comes.
SteppedDown(old) ==
    IF old = 0 THEN instances ELSE [instances EXCEPT ![old].active = FALSE]

LEMMA TakesOverDoes ==
  ASSUME EnvTyped, UseKnown, NEW w \in Switches, SwitchAt(w, "create"), NEW r \in Nat, TakesOver(w, r)
  PROVE  /\ instances' \in Seq(Instance) /\ DOMAIN instances' = 1..(Len(instances) + 1)
         /\ \A i \in DOMAIN instances : StillThere(instances[i], instances'[i])
         /\ instances'[Len(instances) + 1] = NewInstance(switch[w].mode, r)
         /\ switch[w].old # 0 => switch[w].old \in DOMAIN instances /\ ~instances'[switch[w].old].active
         /\ switch' \in [Switches -> Switch]
         /\ \A v \in Switches : v # w => switch'[v] = switch[v]
         /\ switch'[w].at # "off" => switch'[w].at = "drain" /\ switch'[w].old = switch[w].old /\ switch[w].old # 0
<1> DEFINE old == SteppedDown(switch[w].old)
           new == NewInstance(switch[w].mode, r)
<1>0. switch[w] \in Switch /\ switch[w].at = "create"
  BY DEF EnvTyped, SwitchAt
<1>1. switch[w].old # 0 => switch[w].old \in DOMAIN instances
  BY <1>0 DEF UseKnown
<1>2. old \in Seq(Instance) /\ Len(old) = Len(instances)
      /\ \A i \in DOMAIN instances : StillThere(instances[i], old[i]) /\ (i = switch[w].old => ~old[i].active)
  <2>1. CASE switch[w].old = 0
    BY <2>1, RowsTyped DEF SteppedDown, StillThere, EnvTyped
  <2>2. CASE switch[w].old # 0
    <3> DEFINE o == switch[w].old
               e == [instances[o] EXCEPT !.active = FALSE]
    <3>1. o \in 1..Len(instances) /\ instances[o] \in Instance
      BY <1>1, <2>2, RowsTyped
    <3>2. e \in Instance /\ StillThere(instances[o], e) /\ ~e.active
      BY <3>1 DEF Instance, StillThere
    <3>3. old = [instances EXCEPT ![o] = e]
      BY <2>2, <3>1 DEF SteppedDown
    <3> HIDE DEF old, e
    <3>4. /\ old \in Seq(Instance) /\ Len(old) = Len(instances)
          /\ \A j \in 1..Len(instances) : old[j] = IF j = o THEN e ELSE instances[j]
      BY <3>1, <3>2, <3>3, ExceptSeq DEF EnvTyped
    <3> QED
      BY <3>2, <3>4, RowsTyped DEF StillThere
  <2> QED
    BY <2>1, <2>2
<1>3. new \in Instance
  BY <1>0 DEF NewInstance, Instance, Switch
<1>4. instances' = Append(old, new)
  BY DEF TakesOver, SteppedDown
<1>5. switch' = [switch EXCEPT ![w] = IF switch[w].old = 0 THEN NoSwitch ELSE [switch[w] EXCEPT !.at = "drain", !.id = Len(old) + 1]]
  BY DEF TakesOver, SwitchGoes, SteppedDown
<1> HIDE DEF old, new
<1>6. /\ instances' \in Seq(Instance) /\ DOMAIN instances' = 1..(Len(instances) + 1)
      /\ \A i \in 1..Len(instances) : instances'[i] = old[i]
      /\ instances'[Len(instances) + 1] = new
  BY <1>2, <1>3, <1>4, AppendIs
<1>7. Len(old) + 1 \in Nat
  BY <1>2, RowsTyped
<1>8. \A s \in Switch : [s EXCEPT !.at = "drain", !.id = Len(old) + 1] \in Switch
  BY <1>7 DEF Switch
<1>9. NoSwitch \in Switch /\ NoSwitch.at = "off"
  BY DEF NoSwitch, Switch, Modes
<1>10. switch' \in [Switches -> Switch]
  BY <1>0, <1>5, <1>8, <1>9 DEF EnvTyped
<1>11. \A v \in Switches : v # w => switch'[v] = switch[v]
  BY <1>5 DEF EnvTyped
<1>12. switch'[w].at # "off" => switch'[w].at = "drain" /\ switch'[w].old = switch[w].old /\ switch[w].old # 0
  BY <1>0, <1>5, <1>9 DEF EnvTyped, Switch
<1> QED
  BY <1>1, <1>2, <1>6, <1>10, <1>11, <1>12, RowsTyped DEF new
LEMMA SwitchFailsDoes ==
  ASSUME EnvTyped, UseKnown, NEW w \in Switches, SwitchFails(w)
  PROVE  /\ InstancesKept
         /\ switch' \in [Switches -> Switch]
         /\ switch'[w].at = "off"
         /\ \A v \in Switches : v # w => switch'[v] = switch[v]
<1>0. switch[w] \in Switch /\ switch[w].at = "create"
  BY DEF EnvTyped, SwitchAt, SwitchFails
<1>1. switch[w].old # 0 => switch[w].old \in DOMAIN instances
  BY <1>0 DEF UseKnown
<1>2. NoSwitch \in Switch /\ NoSwitch.at = "off"
  BY DEF NoSwitch, Switch, Modes
<1>3. switch' = [switch EXCEPT ![w] = NoSwitch]
  BY DEF SwitchFails, SwitchGoes
<1>4. /\ switch' \in [Switches -> Switch] /\ switch'[w].at = "off"
      /\ \A v \in Switches : v # w => switch'[v] = switch[v]
  BY <1>2, <1>3 DEF EnvTyped
<1>5. CASE switch[w].old = 0
  BY <1>4, <1>5, SameKept DEF SwitchFails
<1>6. CASE switch[w].old # 0
  <2> DEFINE o == switch[w].old
             e == [instances[o] EXCEPT !.switching = FALSE]
  <2>1. o \in DOMAIN instances /\ instances[o] \in Instance
    BY <1>1, <1>6, RowsTyped
  <2>2. e \in Instance /\ StillThere(instances[o], e)
    BY <2>1 DEF Instance, StillThere
  <2>3. instances' = [instances EXCEPT ![o] = e]
    BY <1>6, <2>1 DEF SwitchFails
  <2> HIDE DEF e
  <2>4. InstancesKept
    BY <2>1, <2>2, <2>3, EditKept
  <2> QED
    BY <1>4, <2>4
<1> QED
  BY <1>5, <1>6

LEMMA OpenedIs ==
  ASSUME EnvTyped, UNCHANGED disk, NEW mode \in Modes, runtimes' = Opened(mode)
  PROVE  /\ runtimes' \in Seq(Runtime) /\ DOMAIN runtimes' = 1..(Len(runtimes) + 1)
         /\ \A r \in DOMAIN runtimes : runtimes'[r] = runtimes[r]
         /\ runtimes'[Len(runtimes) + 1].mode = mode /\ runtimes'[Len(runtimes) + 1].open
<1> DEFINE row == [mode |-> mode, anchor |-> disk'.anchor, open |-> TRUE]
<1>1. row \in Runtime /\ row.mode = mode /\ row.open
  BY DEF EnvTyped, Store, Runtime
<1>2. runtimes' = Append(runtimes, row)
  BY DEF Opened
<1> HIDE DEF row
<1>3. /\ runtimes' \in Seq(Runtime) /\ DOMAIN runtimes' = 1..(Len(runtimes) + 1)
      /\ \A r \in 1..Len(runtimes) : runtimes'[r] = runtimes[r]
      /\ runtimes'[Len(runtimes) + 1] = row
  BY <1>1, <1>2, AppendIs DEF EnvTyped
<1> QED
  BY <1>1, <1>3, RowsTyped

LEMMA ClosedIs ==
  ASSUME EnvTyped, NEW r \in DOMAIN runtimes, runtimes' = [runtimes EXCEPT ![r].open = FALSE]
  PROVE  /\ runtimes' \in Seq(Runtime) /\ DOMAIN runtimes' = DOMAIN runtimes
         /\ \A q \in DOMAIN runtimes : /\ runtimes'[q].mode = runtimes[q].mode
                                       /\ (q # r => runtimes'[q] = runtimes[q]) /\ (q = r => ~runtimes'[q].open)
<1> DEFINE row == [runtimes[r] EXCEPT !.open = FALSE]
<1>1. r \in 1..Len(runtimes) /\ runtimes[r] \in Runtime
  BY RowsTyped
<1>2. row \in Runtime /\ row.mode = runtimes[r].mode /\ ~row.open
  BY <1>1 DEF Runtime
<1>3. runtimes' = [runtimes EXCEPT ![r] = row]
  BY <1>1
<1> HIDE DEF row
<1>4. /\ runtimes' \in Seq(Runtime) /\ Len(runtimes') = Len(runtimes)
      /\ \A q \in 1..Len(runtimes) : runtimes'[q] = IF q = r THEN row ELSE runtimes[q]
  <2>1. runtimes \in Seq(Runtime)
    BY DEF EnvTyped
  <2>2. /\ [runtimes EXCEPT ![r] = row] \in Seq(Runtime) /\ Len([runtimes EXCEPT ![r] = row]) = Len(runtimes)
        /\ \A q \in 1..Len(runtimes) : [runtimes EXCEPT ![r] = row][q] = IF q = r THEN row ELSE runtimes[q]
    BY ONLY <1>1, <1>2, <2>1, ExceptSeq
  <2> QED
    BY <1>3, <2>2
<1>5. DOMAIN runtimes' = DOMAIN runtimes
  BY <1>4, RowsTyped, LenProperties
<1>6. \A q \in DOMAIN runtimes : runtimes'[q] = IF q = r THEN row ELSE runtimes[q]
  BY <1>4, RowsTyped
<1>7. ASSUME NEW q \in DOMAIN runtimes
      PROVE  runtimes'[q].mode = runtimes[q].mode /\ (q # r => runtimes'[q] = runtimes[q]) /\ (q = r => ~runtimes'[q].open)
  <2>1. CASE q = r
    BY <1>2, <1>6, <2>1
  <2>2. CASE q # r
    BY <1>6, <2>2
  <2> QED
    BY <2>1, <2>2
<1> QED
  BY <1>4, <1>5, <1>7

LEMMA FirstDemoIs ==
  ASSUME EnvTyped, UseKnown, DemoInstances # {}
  PROVE  /\ FirstDemo \in DOMAIN instances /\ instances[FirstDemo].mode = "demo"
         /\ instances[FirstDemo].runtime \in DOMAIN runtimes /\ Demo(instances[FirstDemo].runtime)
<1>1. DemoInstances \in SUBSET Nat /\ DemoInstances \subseteq DOMAIN instances
  BY RowsTyped DEF DemoInstances, InstanceIds
<1>2. \E i \in DemoInstances : \A j \in DemoInstances : i <= j
  BY <1>1, LeastOfNats
<1>3. FirstDemo \in DemoInstances
  BY <1>2 DEF FirstDemo
<1>4. FirstDemo \in DOMAIN instances /\ instances[FirstDemo].mode = "demo"
  BY <1>3 DEF DemoInstances, InstanceIds
<1> QED
  BY <1>4 DEF UseKnown, Demo

-----------------------------------------------------------------------------
LEMMA StagesTyped ==
  /\ \A j \in DemoJob, a \in Stage : [j EXCEPT !.at = a] \in DemoJob
  /\ \A j \in DemoJob, a \in Stage, f \in BOOLEAN : [j EXCEPT !.at = a, !.fresh = f] \in DemoJob
  /\ NoJob \in DemoJob /\ NoStore \in Store
  /\ \A a \in Stage : [NoJob EXCEPT !.at = a] \in DemoJob /\ [NoJob EXCEPT !.at = a].at = a
  /\ \A d \in Store, b \in BOOLEAN : /\ [d EXCEPT !.there = b] \in Store
                                   /\ [d EXCEPT !.lock = b] \in Store
                                   /\ [d EXCEPT !.ready = b] \in Store
<1>1. NoRecord \in Int
  BY DEF NoRecord
<1>2. NoStore \in Store
  BY <1>1 DEF NoStore, Store
<1> QED
  BY <1>2 DEF DemoJob, Stage, NoJob, Store

\* What the store and the jobs go through, whatever the launchers do.
JobsTyped ==
    /\ hour \in Nat /\ disk \in Store /\ job \in [Launchers -> DemoJob] /\ outrun \in BOOLEAN /\ rivals \in Nat

UseVars == <<runtimes, demoPromise, instances, switch, callOf, refresh>>

\* The steps that only the store and the launchers take part in.
StoreStep ==
    \/ \E l \in Launchers : \/ LookAtStore(l) \/ RemoveStale(l) \/ TakeLock(l) \/ InitDemo(l)
                           \/ CheckOwned(l) \/ WipeOwned(l)
    \/ ReleaseLock \/ RivalStarts \/ RivalStops \/ ClearLock \/ PassHour

LEMMA RemovalTyped ==
  ASSUME job \in [Launchers -> DemoJob], disk \in Store, NEW l \in Launchers, RemovalFails(l)
  PROVE  /\ job' \in [Launchers -> DemoJob] /\ disk' \in Store
         /\ \E j \in DemoJob : j.at = "failed" /\ job' = [job EXCEPT ![l] = j]
         /\ disk'.there = disk.there /\ disk'.lock = disk.lock /\ (disk'.ready => disk.ready)
<1>1. [NoJob EXCEPT !.at = "failed"] \in DemoJob /\ [NoJob EXCEPT !.at = "failed"].at = "failed"
  BY StagesTyped DEF Stage
<1>2. /\ job' = [job EXCEPT ![l] = [NoJob EXCEPT !.at = "failed"]]
      /\ disk' \in {disk, [disk EXCEPT !.ready = FALSE],
                    [disk EXCEPT !.ready = FALSE, !.anchor = NoRecord]}
  BY DEF RemovalFails, JobGoes
<1>3. disk' \in Store /\ disk'.there = disk.there /\ disk'.lock = disk.lock /\ (disk'.ready => disk.ready)
  <2>1. \A d \in Store, a \in Int :
          LET e == [d EXCEPT !.ready = FALSE, !.anchor = a]
          IN  e \in Store /\ e.there = d.there /\ e.lock = d.lock /\ ~e.ready
    BY DEF Store
  <2>2. \A d \in Store :
          LET e == [d EXCEPT !.ready = FALSE]
          IN  e \in Store /\ e.there = d.there /\ e.lock = d.lock /\ ~e.ready
    BY DEF Store
  <2>3. NoRecord \in Int
    BY DEF NoRecord
  <2> QED
    BY <1>2, <2>1, <2>2, <2>3
<1> QED
  BY <1>1, <1>2, <1>3

LEMMA JobsStep ==
  ASSUME JobsTyped, StoreStep
  PROVE  JobsTyped' /\ UNCHANGED UseVars
<1> USE DEF JobsTyped, UseVars
<1>0. /\ \A l \in Launchers, j \in DemoJob : [job EXCEPT ![l] = j] \in [Launchers -> DemoJob]
      /\ \A l \in Launchers : job[l] \in DemoJob /\ job[l].fresh \in BOOLEAN
      /\ "rival" \in Launchers
      /\ disk.there \in BOOLEAN /\ disk.lock \in BOOLEAN /\ disk.ready \in BOOLEAN /\ disk.anchor \in Int
  BY DEF DemoJob, Store, Launchers
<1>1. ASSUME NEW l \in Launchers, LookAtStore(l) PROVE JobsTyped' /\ UNCHANGED UseVars
  BY <1>0, <1>1, StagesTyped DEF LookAtStore, JobGoes, Stage, Overtaken
<1>2. ASSUME NEW l \in Launchers, RemoveStale(l) PROVE JobsTyped' /\ UNCHANGED UseVars
  <2>1. CASE disk' = [NoStore EXCEPT !.there = TRUE] /\ JobGoes(l, [at |-> "lock", fresh |-> TRUE])
    <3>1. [at |-> "lock", fresh |-> TRUE] \in DemoJob
      BY DEF DemoJob, Stage
    <3> QED
      BY <1>0, <1>2, <2>1, <3>1, StagesTyped DEF RemoveStale, JobGoes
  <2>2. CASE RemovalFails(l)
    BY <1>0, <1>2, <2>2, RemovalTyped DEF RemoveStale
  <2> QED
    BY <1>2, <2>1, <2>2 DEF RemoveStale
<1>3. ASSUME NEW l \in Launchers, TakeLock(l) PROVE JobsTyped' /\ UNCHANGED UseVars
  <2>1. [disk EXCEPT !.lock = TRUE, !.ready = @ /\ ~job[l].fresh, !.anchor = IF job[l].fresh THEN hour ELSE @] \in Store
    <3> DEFINE anchor == IF job[l].fresh THEN hour ELSE disk.anchor
               ready == disk.ready /\ ~job[l].fresh
    <3>1. anchor \in Int /\ ready \in BOOLEAN
      BY <1>0
    <3> HIDE DEF anchor, ready
    <3>2. [disk EXCEPT !.lock = TRUE, !.ready = ready, !.anchor = anchor] \in Store
      BY <3>1 DEF Store
    <3> QED
      BY <3>2 DEF anchor, ready
  <2>2. CASE LockFree
    <3>1. job' = [job EXCEPT ![l] = [job[l] EXCEPT !.at = "init"]] /\ disk' \in Store
      BY <1>3, <2>1, <2>2 DEF TakeLock, JobGoes
    <3>2. job' \in [Launchers -> DemoJob]
      BY <1>0, <3>1, StagesTyped DEF Stage
    <3> QED
      BY <1>3, <3>1, <3>2 DEF TakeLock
  <2>3. CASE ~LockFree
    BY <1>0, <1>3, <2>3, StagesTyped DEF TakeLock, JobGoes, Stage
  <2> QED
    BY <2>2, <2>3
<1>4. ASSUME NEW l \in Launchers, InitDemo(l) PROVE JobsTyped' /\ UNCHANGED UseVars
  <2>1. CASE job' = [job EXCEPT ![l] = [job[l] EXCEPT !.at = "up"]] /\ disk' = [disk EXCEPT !.ready = TRUE]
    BY <1>0, <1>4, <2>1, StagesTyped DEF InitDemo, Stage
  <2>2. CASE job' = [job EXCEPT ![l] = [NoJob EXCEPT !.at = "failed"]] /\ disk' = [disk EXCEPT !.lock = FALSE]
    BY <1>0, <1>4, <2>2, StagesTyped DEF InitDemo, Stage
  <2> QED
    BY <1>4, <2>1, <2>2 DEF InitDemo, JobGoes
<1>9. CASE ReleaseLock
  <2>1. job' = [job EXCEPT !["gateway"] = [NoJob EXCEPT !.at = IF disk.lock THEN "check" ELSE "failed"]]
        /\ disk' = [disk EXCEPT !.lock = FALSE]
    BY <1>9 DEF ReleaseLock, JobGoes
  <2>2. [NoJob EXCEPT !.at = IF disk.lock THEN "check" ELSE "failed"] \in DemoJob
    BY StagesTyped DEF Stage
  <2>3. job' \in [Launchers -> DemoJob] /\ disk' \in Store
    BY <1>0, <2>1, <2>2, StagesTyped DEF Launchers
  <2> QED
    BY <1>9, <2>3 DEF ReleaseLock
<1>10. ASSUME NEW l \in Launchers, CheckOwned(l) PROVE JobsTyped' /\ UNCHANGED UseVars
  <2>1. outrun' \in BOOLEAN
    BY <1>10 DEF CheckOwned, Overtaken
  <2>2. \E a \in Stage : job' = [job EXCEPT ![l] = [NoJob EXCEPT !.at = a]]
    BY <1>10 DEF CheckOwned, JobGoes, Stage
  <2>3. job' \in [Launchers -> DemoJob]
    BY <1>0, <2>2, StagesTyped
  <2> QED
    BY <1>10, <2>1, <2>3 DEF CheckOwned
<1>11. ASSUME NEW l \in Launchers, WipeOwned(l) PROVE JobsTyped' /\ UNCHANGED UseVars
  <2>1. CASE disk' = NoStore /\ JobGoes(l, [NoJob EXCEPT !.at = IF l = "gateway" THEN "look" ELSE "off"])
    <3>1. [NoJob EXCEPT !.at = IF l = "gateway" THEN "look" ELSE "off"] \in DemoJob
      BY StagesTyped DEF Stage
    <3>2. job' \in [Launchers -> DemoJob] /\ disk' \in Store
      BY <1>0, <2>1, <3>1, StagesTyped DEF JobGoes
    <3> QED
      BY <1>11, <3>2 DEF WipeOwned
  <2>2. CASE RemovalFails(l)
    BY <1>0, <1>11, <2>2, RemovalTyped DEF WipeOwned
  <2> QED
    BY <1>11, <2>1, <2>2 DEF WipeOwned
<1>5. CASE RivalStarts
  <2>1. \E a \in Stage : job' = [job EXCEPT !["rival"] = [NoJob EXCEPT !.at = a]]
    BY <1>5 DEF RivalStarts, BeginDemo, JobGoes, Stage
  <2>2. job' \in [Launchers -> DemoJob]
    BY <1>0, <2>1, StagesTyped
  <2> QED
    BY <1>5, <2>2 DEF RivalStarts
<1>6. CASE RivalStops
  <2>1. disk' \in Store
    BY <1>0, <1>6, StagesTyped DEF RivalStops
  <2>2. job' \in [Launchers -> DemoJob]
    BY <1>0, <1>6, StagesTyped DEF RivalStops, JobGoes
  <2> QED
    BY <1>6, <2>1, <2>2 DEF RivalStops
<1>7. CASE ClearLock
  BY <1>0, <1>7, StagesTyped DEF ClearLock
<1>8. CASE PassHour
  BY <1>8 DEF PassHour
<1> QED
  BY <1>1, <1>2, <1>3, <1>4, <1>5, <1>6, <1>7, <1>8, <1>9, <1>10, <1>11 DEF StoreStep
\* The steps of a switch, of the calls and of the refresh.
UseStep ==
    \/ \E w \in Switches : AskSwitch(w) \/ CreateE2e(w) \/ CreateProd(w) \/ CreateDemo(w) \/ CloseOld(w)
    \/ DemoResolves
    \/ \E c \in Calls : SendCall(c) \/ AnswerCall(c)
    \/ StartRefresh \/ FinishRefresh

LEMMA StepsAre ==
  ASSUME EnvNext
  PROVE  StoreStep \/ UseStep
BY DEF EnvNext, StoreStep, UseStep

\* A switch that is asked for marks the instance it leaves.
LEMMA AskSwitchDoes ==
  ASSUME EnvTyped, NEW w \in Switches, AskSwitch(w)
  PROVE  /\ InstancesKept /\ switch' \in [Switches -> Switch]
         /\ switch'[w].at = "create"
         /\ switch'[w].old # 0 => switch'[w].old \in DOMAIN instances
         /\ \A v \in Switches : v # w => switch'[v] = switch[v]
<1>1. PICK old \in {0} \cup {i \in InstanceIds : LiveInstance(i) /\ ~instances[i].switching}, mode \in Modes :
        /\ SwitchGoes(w, [at |-> "create", mode |-> mode, old |-> old, id |-> 0])
        /\ instances' = IF old = 0 THEN instances ELSE [instances EXCEPT ![old].switching = TRUE]
  BY DEF AskSwitch
<1>2. old \in Nat /\ (old # 0 => old \in DOMAIN instances)
  BY RowsTyped DEF InstanceIds
<1> DEFINE s == [at |-> "create", mode |-> mode, old |-> old, id |-> 0]
<1>3. s \in Switch /\ s.at = "create" /\ s.old = old
  BY <1>2 DEF Switch
<1>4. switch' = [switch EXCEPT ![w] = s]
  BY <1>1 DEF SwitchGoes
<1> HIDE DEF s
<1>5. /\ switch' \in [Switches -> Switch] /\ switch'[w] = s
      /\ \A v \in Switches : v # w => switch'[v] = switch[v]
  BY <1>3, <1>4 DEF EnvTyped
<1>6. CASE old = 0
  <2>1. InstancesKept
    BY <1>1, <1>6, SameKept
  <2> QED
    BY <1>3, <1>5, <1>6, <2>1
<1>7. CASE old # 0
  <2> DEFINE e == [instances[old] EXCEPT !.switching = TRUE]
  <2>1. old \in DOMAIN instances /\ instances[old] \in Instance
    BY <1>2, <1>7, RowsTyped
  <2>2. e \in Instance /\ StillThere(instances[old], e)
    BY <2>1 DEF Instance, StillThere
  <2>3. instances' = [instances EXCEPT ![old] = e]
    BY <1>1, <1>7, <2>1
  <2> HIDE DEF e
  <2>4. InstancesKept
    BY <2>1, <2>2, <2>3, EditKept
  <2> QED
    BY <1>3, <1>5, <2>1, <2>4
<1> QED
  BY <1>6, <1>7

\* A demo that does not come up gives the old instances back to all who waited for it.
LEMMA DemoFailsDoes ==
  ASSUME EnvTyped, DemoResolves, ~JobAt("gateway", "up")
  PROVE  /\ InstancesKept /\ switch' \in [Switches -> Switch]
         /\ \A w \in Switches : switch'[w] = switch[w] \/ switch'[w].at = "off"
<1> DEFINE waits == {w \in Switches : SwitchAt(w, "create") /\ switch[w].mode = "demo"}
           old == {switch[w].old : w \in waits}
           list == [i \in 1..Len(instances) |-> IF i \in old THEN [instances[i] EXCEPT !.switching = FALSE] ELSE instances[i]]
<1>1. instances' = list /\ switch' = [w \in Switches |-> IF w \in waits THEN NoSwitch ELSE switch[w]]
  BY RowsTyped DEF DemoResolves, InstanceIds
<1>2. NoSwitch \in Switch /\ NoSwitch.at = "off"
  BY DEF NoSwitch, Switch, Modes
<1>3. switch' \in [Switches -> Switch] /\ \A w \in Switches : switch'[w] = switch[w] \/ switch'[w].at = "off"
  BY <1>1, <1>2 DEF EnvTyped
<1>4. ASSUME NEW i \in 1..Len(instances)
      PROVE  list[i] \in Instance /\ StillThere(instances[i], list[i])
  <2>1. instances[i] \in Instance
    BY RowsTyped
  <2> HIDE DEF old
  <2> QED
    BY <2>1 DEF Instance, StillThere
<1>5. list \in [1..Len(instances) -> Instance]
  BY <1>4
<1> HIDE DEF list
<1>6. list \in Seq(Instance) /\ Len(list) = Len(instances)
  BY <1>5, ListOf, RowsTyped
<1>7. InstancesKept
  BY <1>1, <1>4, <1>6, RowsTyped, LenProperties DEF InstancesKept
<1> QED
  BY <1>3, <1>7

\* The refresh gives its instance the runtime that it has opened, or nothing.
LEMMA FinishRefreshDoes ==
  ASSUME EnvTyped, DemoKnown, FinishRefresh
  PROVE  /\ \/ UNCHANGED <<runtimes, instances>>
            \/ /\ JobAt("gateway", "up") /\ \A r \in DOMAIN runtimes : Demo(r) => ~runtimes[r].open
               /\ runtimes' = Opened("demo")
               /\ DOMAIN instances' = DOMAIN instances
               /\ \A i \in DOMAIN instances :
                    /\ i # refresh.instance => instances'[i] = instances[i]
                    /\ instances'[i].mode = instances[i].mode /\ instances'[i].active = instances[i].active
               /\ instances'[refresh.instance].runtime = Len(runtimes) + 1
         /\ runtimes' \in Seq(Runtime) /\ instances' \in Seq(Instance)
<1>1. CASE UNCHANGED <<runtimes, instances>>
  BY <1>1 DEF EnvTyped
<1>2. CASE /\ JobAt("gateway", "up") /\ runtimes' = Opened("demo")
           /\ instances' = [instances EXCEPT ![refresh.instance].runtime = Len(runtimes) + 1]
  <2> DEFINE i == refresh.instance
             e == [instances[i] EXCEPT !.runtime = Len(runtimes) + 1]
  <2>1. i \in 1..Len(instances) /\ instances[i] \in Instance
    BY RowsTyped DEF FinishRefresh, DemoKnown
  <2>2. e \in Instance /\ e.mode = instances[i].mode /\ e.active = instances[i].active /\ e.runtime = Len(runtimes) + 1
    BY <2>1, RowsTyped DEF Instance
  <2>3. instances' = [instances EXCEPT ![i] = e]
    BY <1>2, <2>1
  <2>4. instances \in Seq(Instance)
    BY DEF EnvTyped
  <2> HIDE DEF e, i
  <2>5. /\ [instances EXCEPT ![i] = e] \in Seq(Instance) /\ Len([instances EXCEPT ![i] = e]) = Len(instances)
        /\ \A j \in 1..Len(instances) : [instances EXCEPT ![i] = e][j] = IF j = i THEN e ELSE instances[j]
    BY ONLY <2>1, <2>2, <2>4, ExceptSeq
  <2>6. instances' \in Seq(Instance) /\ DOMAIN instances' = 1..Len(instances)
    BY <2>3, <2>5, LenProperties
  <2>7. instances'[i] = e /\ \A j \in 1..Len(instances) : j # i => instances'[j] = instances[j]
    BY <2>1, <2>3, <2>5
  <2>8. runtimes' \in Seq(Runtime)
    BY <1>2, OpenedIs DEF FinishRefresh, Modes
  <2>9. DOMAIN instances = 1..Len(instances)
    BY RowsTyped
  <2>11. \A r \in DOMAIN runtimes : Demo(r) => ~runtimes[r].open
    BY DEF FinishRefresh, DemoKnown
  <2>10. \A j \in 1..Len(instances) : instances'[j].mode = instances[j].mode /\ instances'[j].active = instances[j].active
    BY <2>2, <2>7
  <2> QED
    BY <1>2, <2>2, <2>6, <2>7, <2>8, <2>9, <2>10, <2>11 DEF i
<1> QED
  BY <1>1, <1>2 DEF FinishRefresh

LEMMA UseStepTyped ==
  ASSUME EnvTyped, UseKnown, DemoKnown, UseStep
  PROVE  EnvTyped'
<1>0. /\ \A l \in Launchers, j \in DemoJob : [job EXCEPT ![l] = j] \in [Launchers -> DemoJob]
      /\ "gateway" \in Launchers /\ job["gateway"] \in DemoJob
      /\ [NoJob EXCEPT !.at = "look"] \in DemoJob /\ NoJob \in DemoJob /\ NoStore \in Store
  BY StagesTyped DEF EnvTyped, Launchers, Stage
<1>00. Len(runtimes) + 1 \in Nat
  BY RowsTyped
<1>1. ASSUME NEW w \in Switches, AskSwitch(w) PROVE EnvTyped'
  BY <1>1, AskSwitchDoes DEF EnvTyped, AskSwitch, InstancesKept
<1>2. ASSUME NEW w \in Switches, CreateE2e(w) PROVE EnvTyped'
  <2>1. CASE runtimes' = Opened("e2e") /\ TakesOver(w, Len(runtimes) + 1)
    <3>1. instances' \in Seq(Instance) /\ switch' \in [Switches -> Switch]
      BY <1>00, <1>2, <2>1, TakesOverDoes DEF CreateE2e
    <3>2. runtimes' \in Seq(Runtime)
      BY <1>2, <2>1, OpenedIs DEF CreateE2e, Modes
    <3> QED
      BY <1>2, <3>1, <3>2 DEF CreateE2e, EnvTyped
  <2>2. CASE SwitchFails(w) /\ UNCHANGED runtimes
    BY <1>2, <2>2, SwitchFailsDoes DEF CreateE2e, EnvTyped, InstancesKept
  <2> QED
    BY <1>2, <2>1, <2>2 DEF CreateE2e
<1>3. ASSUME NEW w \in Switches, CreateProd(w) PROVE EnvTyped'
  <2>1. CASE TakesOver(w, 0)
    <3>1. instances' \in Seq(Instance) /\ switch' \in [Switches -> Switch]
      BY <1>3, <2>1, TakesOverDoes DEF CreateProd
    <3> QED
      BY <1>3, <3>1 DEF CreateProd, EnvTyped
  <2>2. CASE SwitchFails(w)
    BY <1>3, <2>2, SwitchFailsDoes DEF CreateProd, EnvTyped, InstancesKept
  <2> QED
    BY <1>3, <2>1, <2>2 DEF CreateProd
<1>4. ASSUME NEW w \in Switches, CreateDemo(w) PROVE EnvTyped'
  <2>1. CASE demoPromise.at = "none"
    <3>1. job' \in [Launchers -> DemoJob]
      BY <1>0, <1>4, <2>1 DEF CreateDemo, BeginDemo, JobGoes
    <3>2. demoPromise' \in [at : {"none", "pending", "resolved"}, runtime : Nat]
      BY <1>4, <2>1 DEF CreateDemo
    <3> QED
      BY <1>4, <2>1, <3>1, <3>2 DEF CreateDemo, EnvTyped
  <2>2. CASE demoPromise.at = "resolved"
    <3>0. demoPromise.runtime \in Nat
      BY DEF EnvTyped
    <3>1. instances' \in Seq(Instance) /\ switch' \in [Switches -> Switch]
      BY <1>4, <2>2, <3>0, TakesOverDoes DEF CreateDemo
    <3> QED
      BY <1>4, <2>2, <3>1 DEF CreateDemo, EnvTyped
  <2> QED
    BY <1>4, <2>1, <2>2 DEF CreateDemo
<1>5. ASSUME NEW w \in Switches, CloseOld(w) PROVE EnvTyped'
  <2>1. runtimes' \in Seq(Runtime)
    <3>1. CASE instances[switch[w].old].mode = "e2e"
      <4>1. switch[w].old \in DOMAIN instances
        BY <1>5 DEF CloseOld, UseKnown, SwitchAt
      <4>2. instances[switch[w].old].runtime \in DOMAIN runtimes
        BY <3>1, <4>1 DEF UseKnown
      <4> QED
        BY <1>5, <3>1, <4>2, ClosedIs DEF CloseOld
    <3>2. CASE instances[switch[w].old].mode # "e2e"
      BY <1>5, <3>2 DEF CloseOld, EnvTyped
    <3> QED
      BY <3>1, <3>2
  <2>2. switch' \in [Switches -> Switch]
    BY <1>5 DEF CloseOld, SwitchGoes, EnvTyped, NoSwitch, Switch, Modes
  <2> QED
    BY <1>5, <2>1, <2>2 DEF CloseOld, EnvTyped
<1>6. CASE DemoResolves
  <2>1. CASE JobAt("gateway", "up")
    <3>1. runtimes' \in Seq(Runtime)
      BY <1>6, <2>1, OpenedIs DEF DemoResolves, Modes
    <3>2. demoPromise' \in [at : {"none", "pending", "resolved"}, runtime : Nat]
      BY <1>6, <1>00, <2>1 DEF DemoResolves
    <3> QED
      BY <1>6, <2>1, <3>1, <3>2 DEF DemoResolves, EnvTyped
  <2>2. CASE ~JobAt("gateway", "up")
    <3>1. demoPromise' = [at |-> "none", runtime |-> 0] /\ UNCHANGED runtimes /\ job' = [job EXCEPT !["gateway"] = NoJob]
      BY <1>6, <2>2 DEF DemoResolves, JobGoes
    <3>2. instances' \in Seq(Instance) /\ switch' \in [Switches -> Switch]
      BY <1>6, <2>2, DemoFailsDoes DEF InstancesKept
    <3>3. job' \in [Launchers -> DemoJob]
      BY <1>0, <3>1
    <3> QED
      BY <1>6, <3>1, <3>2, <3>3 DEF DemoResolves, EnvTyped
  <2> QED
    BY <2>1, <2>2
<1>7. ASSUME NEW c \in Calls, SendCall(c) PROVE EnvTyped'
  <2>1. PICK i \in InstanceIds : callOf' = [callOf EXCEPT ![c] = [instance |-> i, runtime |-> instances[i].runtime]]
    BY <1>7 DEF SendCall
  <2>2. i \in Nat /\ instances[i].runtime \in Nat
    BY RowsTyped DEF InstanceIds, Instance
  <2>3. callOf' \in [Calls -> [instance : Nat, runtime : Nat]]
    BY <2>1, <2>2 DEF EnvTyped
  <2> QED
    BY <1>7, <2>3 DEF SendCall, EnvTyped
<1>8. ASSUME NEW c \in Calls, AnswerCall(c) PROVE EnvTyped'
  BY <1>8 DEF AnswerCall, EnvTyped, NoCall
<1>9. CASE StartRefresh
  <2>0. FirstDemo \in DOMAIN instances /\ FirstDemo \in Nat /\ instances[FirstDemo].runtime \in DOMAIN runtimes
    BY <1>9, FirstDemoIs, RowsTyped DEF StartRefresh
  <2>1. refresh' \in [at : {"off", "on"}, instance : Nat]
    BY <1>9, <2>0 DEF StartRefresh, EnvTyped
  <2>2. runtimes' \in Seq(Runtime)
    <3>1. CASE runtimes[instances[FirstDemo].runtime].open
      BY <1>9, <2>0, <3>1, ClosedIs DEF StartRefresh
    <3>2. CASE ~runtimes[instances[FirstDemo].runtime].open
      BY <1>9, <3>2 DEF StartRefresh, EnvTyped
    <3> QED
      BY <3>1, <3>2
  <2>3. job' = job \/ \E a \in Stage : job' = [job EXCEPT !["gateway"] = [NoJob EXCEPT !.at = a]]
    BY <1>9 DEF StartRefresh, BeginDemo, JobGoes, Stage
  <2>4. job' \in [Launchers -> DemoJob]
    BY <1>0, <2>3, StagesTyped DEF EnvTyped
  <2> QED
    BY <1>9, <2>1, <2>2, <2>4 DEF StartRefresh, EnvTyped
<1>10. CASE FinishRefresh
  <2>1. refresh' \in [at : {"off", "on"}, instance : Nat]
    BY <1>10 DEF FinishRefresh
  <2>2. runtimes' \in Seq(Runtime) /\ instances' \in Seq(Instance)
    BY <1>10, FinishRefreshDoes DEF EnvTyped
  <2> QED
    BY <1>10, <2>1, <2>2 DEF FinishRefresh, EnvTyped
<1> QED
  BY <1>1, <1>2, <1>3, <1>4, <1>5, <1>6, <1>7, <1>8, <1>9, <1>10 DEF UseStep
-----------------------------------------------------------------------------
(* The demo store.                                                         *)

\* A launcher that neither runs nor is about to change the store does no harm, whatever the
\* others do.
LEMMA IdleJob ==
  ASSUME EnvTyped, StoreKept, NEW l \in Launchers, NEW j \in DemoJob,
         j.at \in {"off", "look", "check", "failed"}, job' = [job EXCEPT ![l] = j],
         UNCHANGED <<disk, outrun>>
  PROVE  StoreKept'
<1>1. /\ \A m \in Launchers : m # l => job'[m] = job[m]
      /\ job'[l] = j
  BY DEF EnvTyped
<1> QED
  BY <1>1 DEF StoreKept, Running, Holds, Looked, Removes

LEMMA StoreSame ==
  ASSUME StoreKept, UNCHANGED <<disk, job, outrun>>
  PROVE  StoreKept'
BY DEF StoreKept, Running, Holds, Looked, Removes

\* A run that is killed, fails or is closed and gives the lock back, or leaves it.
LEMMA JobEnds ==
  ASSUME EnvTyped, StoreKept, NEW l \in Launchers, Running(l), NEW j \in DemoJob,
         j.at \in {"off", "check", "failed"}, job' = [job EXCEPT ![l] = j],
         disk' = [disk EXCEPT !.lock = FALSE] \/ UNCHANGED disk, UNCHANGED outrun
  PROVE  StoreKept'
<1>1. /\ \A m \in Launchers : m # l => job'[m] = job[m]
      /\ job'[l] = j
  BY DEF EnvTyped
<1>2. disk'.there = disk.there /\ disk'.ready = disk.ready
  BY DEF EnvTyped, Store
<1> SUFFICES ASSUME ~outrun'
             PROVE  StoreKept'
  BY DEF StoreKept
<1>3. \A m \in Launchers : m # l => ~Running(m)
  BY DEF StoreKept
<1> QED
  BY <1>1, <1>2, <1>3 DEF StoreKept, Running, Holds, Looked, Removes

\* A removal that fails.
LEMMA RemovalStays ==
  ASSUME EnvTyped, StoreKept, NEW l \in Launchers, job[l].at \in {"remove", "wipe"}, RemovalFails(l), UNCHANGED outrun
  PROVE  StoreKept'
<1>1. PICK j \in DemoJob : j.at = "failed" /\ job' = [job EXCEPT ![l] = j]
  BY RemovalTyped DEF EnvTyped
<1>2. disk'.there = disk.there /\ disk'.lock = disk.lock /\ (disk'.ready => disk.ready)
  BY RemovalTyped DEF EnvTyped
<1>3. /\ \A m \in Launchers : m # l => job'[m] = job[m]
      /\ job'[l] = j
  BY <1>1 DEF EnvTyped
<1> SUFFICES ASSUME ~outrun'
             PROVE  StoreKept'
  BY DEF StoreKept
<1>4. \A m \in Launchers : m # l => ~Running(m)
  BY DEF StoreKept, Looked, Removes
<1> QED
  BY <1>1, <1>2, <1>3, <1>4 DEF StoreKept, Running, Holds, Looked, Removes

LEMMA StoreLaunch ==
  ASSUME EnvTyped, StoreKept, NEW l \in Launchers,
         LookAtStore(l) \/ RemoveStale(l) \/ TakeLock(l) \/ InitDemo(l) \/ CheckOwned(l) \/ WipeOwned(l)
  PROVE  StoreKept'
<1>0. job \in [Launchers -> DemoJob] /\ job[l] \in DemoJob /\ disk \in Store
  BY DEF EnvTyped
<1>1. \A j \in DemoJob : job' = [job EXCEPT ![l] = j] =>
        /\ \A m \in Launchers : m # l => job'[m] = job[m]
        /\ job'[l] = j
  BY <1>0
<1>2. CASE LookAtStore(l)
  <2> SUFFICES ASSUME ~outrun'
               PROVE  StoreKept'
    BY DEF StoreKept
  <2>1. ~outrun /\ \A m \in Launchers : m # l =>
          job[m].at \notin Removes /\ (Stale => job[m].at \notin Looked)
    BY <1>2 DEF LookAtStore, Overtaken, Looked, Removes
  <2>2. CASE Stale
    <3> DEFINE j == [job[l] EXCEPT !.at = "remove"]
    <3>1. j \in DemoJob /\ j.at = "remove"
      BY <1>0 DEF DemoJob, Stage
    <3>2. job' = [job EXCEPT ![l] = j] /\ UNCHANGED disk
      BY <1>2, <2>2 DEF LookAtStore, JobGoes
    <3>3. \A m \in Launchers : ~Running(m)
      BY <2>1, <2>2 DEF Stale, StoreKept
    <3> HIDE DEF j
    <3>4. /\ \A m \in Launchers : m # l => job'[m] = job[m]
          /\ job'[l] = j
      BY <1>1, <3>1, <3>2
    <3>5. \A m \in Launchers : m # l => job'[m].at \notin Looked
      BY <2>1, <2>2, <3>4
    <3>6. ~outrun /\ \A m \in Launchers : job[m] = job'[m] \/ m = l
      BY <2>1, <3>4
    <3> QED
      BY <3>1, <3>2, <3>3, <3>4, <3>5, <3>6 DEF StoreKept, Running, Holds, Looked, Removes
  <2>3. CASE ~Stale
    <3> DEFINE j == [job[l] EXCEPT !.at = "lock", !.fresh = ~disk.there]
    <3>1. j \in DemoJob /\ j.at = "lock" /\ j.fresh = ~disk.there
      BY <1>0 DEF DemoJob, Stage, Store
    <3>2. job' = [job EXCEPT ![l] = j] /\ disk' = [disk EXCEPT !.there = TRUE]
      BY <1>2, <2>3 DEF LookAtStore, JobGoes
    <3>3. disk'.there /\ disk'.lock = disk.lock /\ disk'.ready = disk.ready
      BY <1>0, <3>2 DEF Store
    <3>4. j.fresh => \A m \in Launchers : ~Running(m)
      BY <2>1, <3>1 DEF StoreKept
    <3> HIDE DEF j
    <3>5. /\ \A m \in Launchers : m # l => job'[m] = job[m]
          /\ job'[l] = j
      BY <1>1, <3>1, <3>2
    <3> QED
      BY <2>1, <3>1, <3>3, <3>4, <3>5 DEF StoreKept, Running, Holds, Looked, Removes
  <2> QED
    BY <2>2, <2>3
<1>8. CASE RemoveStale(l) /\ RemovalFails(l)
  BY <1>8, RemovalStays DEF RemoveStale, JobAt
<1>3. CASE RemoveStale(l) /\ ~RemovalFails(l)
  <2> SUFFICES ASSUME ~outrun'
               PROVE  StoreKept'
    BY DEF StoreKept
  <2> DEFINE j == [at |-> "lock", fresh |-> TRUE]
  <2>1. j \in DemoJob /\ j.at = "lock"
    BY DEF DemoJob, Stage
  <2>2. ~outrun /\ job' = [job EXCEPT ![l] = j] /\ job[l].at = "remove"
    BY <1>3 DEF RemoveStale, JobGoes, JobAt
  <2>3. disk'.there /\ ~disk'.ready
    BY <1>3 DEF RemoveStale, NoStore
  <2>4. /\ \A m \in Launchers : ~Running(m)
        /\ \A m \in Launchers : m # l => job[m].at \notin Looked
    BY <2>2 DEF StoreKept, Running, Holds, Looked, Removes
  <2> HIDE DEF j
  <2>5. /\ \A m \in Launchers : m # l => job'[m] = job[m]
        /\ job'[l] = j
    BY <1>1, <2>1, <2>2
  <2> QED
    BY <2>1, <2>2, <2>3, <2>4, <2>5 DEF StoreKept, Running, Holds, Looked, Removes
<1>4. CASE TakeLock(l)
  <2>1. CASE LockFree
    <3> SUFFICES ASSUME ~outrun'
                 PROVE  StoreKept'
      BY DEF StoreKept
    <3> DEFINE j == [job[l] EXCEPT !.at = "init"]
    <3>1. j \in DemoJob /\ j.at = "init"
      BY <1>0 DEF DemoJob, Stage
    <3>2. /\ ~outrun /\ job' = [job EXCEPT ![l] = j] /\ job[l].at = "lock" /\ ~disk.lock /\ disk.there
          /\ disk' = [disk EXCEPT !.lock = TRUE, !.ready = @ /\ ~job[l].fresh, !.anchor = IF job[l].fresh THEN hour ELSE @]
      BY <1>4, <2>1 DEF TakeLock, JobGoes, JobAt, LockFree
    <3>3. disk'.lock /\ disk'.there = disk.there /\ disk'.ready = (disk.ready /\ ~job[l].fresh)
      BY <1>0, <3>2 DEF Store
    <3>4. /\ \A m \in Launchers : ~Running(m)
          /\ \A m \in Launchers : m # l => job[m].at \notin Removes
      BY <3>2 DEF StoreKept, Looked
    <3> HIDE DEF j
    <3>5. /\ \A m \in Launchers : m # l => job'[m] = job[m]
          /\ job'[l] = j
      BY <1>1, <3>1, <3>2
    <3> QED
      BY <3>1, <3>2, <3>3, <3>4, <3>5 DEF StoreKept, Running, Holds, Looked, Removes
  <2>2. CASE ~LockFree
    <3>1. [NoJob EXCEPT !.at = "failed"] \in DemoJob /\ [NoJob EXCEPT !.at = "failed"].at = "failed"
      BY DEF NoJob, DemoJob, Stage
    <3>2. job' = [job EXCEPT ![l] = [NoJob EXCEPT !.at = "failed"]] /\ UNCHANGED <<disk, outrun>>
      BY <1>4, <2>2 DEF TakeLock, JobGoes
    <3> QED
      BY <3>1, <3>2, IdleJob
  <2> QED
    BY <2>1, <2>2
<1>5. CASE InitDemo(l)
  <2>0. Running(l) /\ UNCHANGED outrun
    BY <1>5 DEF InitDemo, JobAt, Running, Holds
  <2>1. CASE job' = [job EXCEPT ![l] = [job[l] EXCEPT !.at = "up"]] /\ disk' = [disk EXCEPT !.ready = TRUE]
    <3> SUFFICES ASSUME ~outrun'
                 PROVE  StoreKept'
      BY DEF StoreKept
    <3> DEFINE j == [job[l] EXCEPT !.at = "up"]
    <3>1. j \in DemoJob /\ j.at = "up"
      BY <1>0 DEF DemoJob, Stage
    <3>2. disk'.ready /\ disk'.there = disk.there /\ disk'.lock = disk.lock
      BY <1>0, <2>1 DEF Store
    <3> HIDE DEF j
    <3>3. /\ \A m \in Launchers : m # l => job'[m] = job[m]
          /\ job'[l] = j
      BY <1>1, <2>1, <3>1 DEF j
    <3> QED
      BY <2>0, <3>1, <3>2, <3>3 DEF StoreKept, Running, Holds, Looked, Removes
  <2>2. CASE job' = [job EXCEPT ![l] = [NoJob EXCEPT !.at = "failed"]] /\ disk' = [disk EXCEPT !.lock = FALSE]
    <3>1. [NoJob EXCEPT !.at = "failed"] \in DemoJob /\ [NoJob EXCEPT !.at = "failed"].at = "failed"
      BY DEF NoJob, DemoJob, Stage
    <3> QED
      BY <2>0, <2>2, <3>1, JobEnds
  <2> QED
    BY <1>5, <2>1, <2>2 DEF InitDemo, JobGoes
<1>6. CASE CheckOwned(l)
  <2>1. CASE JobGoes(l, [NoJob EXCEPT !.at = "failed"]) /\ UNCHANGED outrun
    BY <1>6, <2>1, IdleJob, StagesTyped DEF CheckOwned, JobGoes, Stage
  <2>2. CASE LockFree /\ JobGoes(l, [NoJob EXCEPT !.at = "wipe"]) /\ outrun' = (outrun \/ Overtaken(l, "wipe"))
    <3> DEFINE j == [NoJob EXCEPT !.at = "wipe"]
    <3> SUFFICES ASSUME ~outrun'
                 PROVE  StoreKept'
      BY DEF StoreKept
    <3>1. j \in DemoJob /\ j.at = "wipe"
      BY StagesTyped DEF Stage
    <3>2. job' = [job EXCEPT ![l] = j] /\ UNCHANGED disk /\ ~disk.lock
      BY <1>6, <2>2 DEF CheckOwned, JobGoes, LockFree
    <3>3. ~outrun /\ \A m \in Launchers : m # l => job[m].at \notin Looked
      BY <2>2 DEF Overtaken, Removes, Looked
    <3>4. \A m \in Launchers : ~Running(m)
      BY <3>2, <3>3 DEF StoreKept
    <3> HIDE DEF j
    <3>5. /\ \A m \in Launchers : m # l => job'[m] = job[m]
          /\ job'[l] = j
      BY <1>1, <3>1, <3>2
    <3> QED
      BY <3>1, <3>2, <3>3, <3>4, <3>5 DEF StoreKept, Running, Holds, Looked, Removes
  <2> QED
    BY <1>6, <2>1, <2>2 DEF CheckOwned
<1>7. CASE WipeOwned(l)
  <2>1. CASE RemovalFails(l)
    BY <1>7, <2>1, RemovalStays DEF WipeOwned, JobAt
  <2>2. CASE disk' = NoStore /\ JobGoes(l, [NoJob EXCEPT !.at = IF l = "gateway" THEN "look" ELSE "off"])
    <3> DEFINE j == [NoJob EXCEPT !.at = IF l = "gateway" THEN "look" ELSE "off"]
    <3> SUFFICES ASSUME ~outrun'
                 PROVE  StoreKept'
      BY DEF StoreKept
    <3>1. j \in DemoJob /\ j.at \in {"look", "off"}
      BY StagesTyped DEF Stage
    <3>2. job' = [job EXCEPT ![l] = j] /\ disk' = NoStore /\ ~outrun /\ job[l].at = "wipe"
      BY <1>7, <2>2 DEF WipeOwned, JobGoes, JobAt
    <3>3. ~disk'.ready
      BY <3>2 DEF NoStore
    <3>4. \A m \in Launchers : m # l => ~Running(m)
      BY <3>2 DEF StoreKept, Looked, Removes
    <3> HIDE DEF j
    <3>5. /\ \A m \in Launchers : m # l => job'[m] = job[m]
          /\ job'[l] = j
      BY <1>1, <3>1, <3>2
    <3> QED
      BY <3>1, <3>2, <3>3, <3>4, <3>5 DEF StoreKept, Running, Holds, Looked, Removes
  <2> QED
    BY <1>7, <2>1, <2>2 DEF WipeOwned
<1> QED
  BY <1>2, <1>3, <1>4, <1>5, <1>6, <1>7, <1>8

LEMMA StoreStays ==
  ASSUME EnvInv, EnvNext
  PROVE  StoreKept'
<1> USE DEF EnvInv
<1>0. "gateway" \in Launchers /\ "rival" \in Launchers
  BY DEF Launchers
<1>1. NoJob \in DemoJob /\ NoJob.at = "off" /\ [NoJob EXCEPT !.at = "look"] \in DemoJob /\ [NoJob EXCEPT !.at = "look"].at = "look"
  BY DEF NoJob, DemoJob, Stage
<1>2. ASSUME NEW l \in Launchers,
             LookAtStore(l) \/ RemoveStale(l) \/ TakeLock(l) \/ InitDemo(l) \/ CheckOwned(l) \/ WipeOwned(l)
      PROVE  StoreKept'
  BY <1>2, StoreLaunch
<1>13. CASE ReleaseLock
  <2>1. job["gateway"].at = "closing" /\ disk' = [disk EXCEPT !.lock = FALSE] /\ UNCHANGED outrun
        /\ job' = [job EXCEPT !["gateway"] = [NoJob EXCEPT !.at = IF disk.lock THEN "check" ELSE "failed"]]
    BY <1>13 DEF ReleaseLock, JobGoes, JobAt
  <2>2. /\ [NoJob EXCEPT !.at = IF disk.lock THEN "check" ELSE "failed"] \in DemoJob
        /\ [NoJob EXCEPT !.at = IF disk.lock THEN "check" ELSE "failed"].at \in {"check", "failed"}
    BY StagesTyped DEF Stage
  <2> QED
    BY <1>0, <2>1, <2>2, JobEnds DEF Running, Holds
<1>3. CASE RivalStarts
  <2>1. PICK a \in {"look", "check"} : job' = [job EXCEPT !["rival"] = [NoJob EXCEPT !.at = a]]
    BY <1>3 DEF RivalStarts, BeginDemo, JobGoes
  <2> DEFINE j == [NoJob EXCEPT !.at = a]
  <2>2. j \in DemoJob /\ j.at \in {"look", "check"}
    BY StagesTyped DEF Stage
  <2>3. UNCHANGED <<disk, outrun>>
    BY <1>3 DEF RivalStarts
  <2>4. job' = [job EXCEPT !["rival"] = j]
    BY <2>1
  <2> HIDE DEF j
  <2> QED
    BY <1>0, <2>2, <2>3, <2>4, IdleJob
<1>4. CASE RivalStops
  <2>1. Running("rival") /\ UNCHANGED outrun /\ job' = [job EXCEPT !["rival"] = NoJob]
    BY <1>4 DEF RivalStops, JobGoes, Running, Holds
  <2>2. disk' = [disk EXCEPT !.lock = FALSE] \/ UNCHANGED disk
    BY <1>4 DEF RivalStops
  <2> QED
    BY <1>0, <1>1, <2>1, <2>2, JobEnds
<1>5. CASE ClearLock
  <2>1. disk'.there = disk.there /\ disk'.ready = disk.ready
    BY <1>5 DEF ClearLock, EnvTyped, Store
  <2>2. UNCHANGED <<job, outrun>> /\ \A l \in Launchers : ~Running(l)
    BY <1>5 DEF ClearLock, Running
  <2> QED
    BY <2>1, <2>2 DEF StoreKept, Running, Holds, Looked, Removes
<1>6. CASE PassHour
  BY <1>6, StoreSame DEF PassHour
<1>7. ASSUME NEW w \in Switches, AskSwitch(w) \/ CreateE2e(w) \/ CreateProd(w) \/ CloseOld(w) PROVE StoreKept'
  BY <1>7, StoreSame DEF AskSwitch, CreateE2e, CreateProd, CloseOld
<1>8. ASSUME NEW w \in Switches, CreateDemo(w) PROVE StoreKept'
  <2>1. CASE demoPromise.at = "none"
    BY <1>0, <1>1, <1>8, <2>1, IdleJob DEF CreateDemo, BeginDemo, JobGoes
  <2>2. CASE demoPromise.at # "none"
    BY <1>8, <2>2, StoreSame DEF CreateDemo
  <2> QED
    BY <2>1, <2>2
<1>9. CASE DemoResolves
  <2>1. CASE JobAt("gateway", "up")
    BY <1>9, <2>1, StoreSame DEF DemoResolves
  <2>2. CASE ~JobAt("gateway", "up")
    <3>1. job' = [job EXCEPT !["gateway"] = NoJob] /\ UNCHANGED <<disk, outrun>>
      BY <1>9, <2>2 DEF DemoResolves, JobGoes
    <3> QED
      BY <1>0, <1>1, <3>1, IdleJob
  <2> QED
    BY <2>1, <2>2
<1>10. ASSUME NEW c \in Calls, SendCall(c) \/ AnswerCall(c) PROVE StoreKept'
  BY <1>10, StoreSame DEF SendCall, AnswerCall
<1>11. CASE StartRefresh
  <2> DEFINE r == instances[FirstDemo].runtime
             j == [NoJob EXCEPT !.at = "closing"]
  <2>0. UNCHANGED <<disk, outrun>>
    BY <1>11 DEF StartRefresh
  <2>1. CASE runtimes[r].open /\ JobGoes("gateway", j)
    <3>1. job' = [job EXCEPT !["gateway"] = j]
      BY <2>1 DEF JobGoes
    <3>2. job["gateway"].at = "up"
      BY <1>11, <2>1, FirstDemoIs DEF DemoKnown, StartRefresh
    <3> SUFFICES ASSUME ~outrun'
                 PROVE  StoreKept'
      BY DEF StoreKept
    <3>3. j \in DemoJob /\ j.at = "closing"
      BY StagesTyped DEF Stage
    <3> HIDE DEF j
    <3>4. /\ \A m \in Launchers : m # "gateway" => job'[m] = job[m]
          /\ job'["gateway"] = j
      BY <1>0, <3>1 DEF EnvTyped
    <3> QED
      BY <1>0, <2>0, <3>2, <3>3, <3>4 DEF StoreKept, Running, Holds, Looked, Removes
  <2>2. CASE UNCHANGED job
    BY <2>0, <2>2, StoreSame
  <2>3. CASE ~runtimes[r].open /\ BeginDemo("gateway")
    BY <1>0, <1>1, <2>0, <2>3, IdleJob DEF BeginDemo, JobGoes
  <2> QED
    BY <1>11, <2>1, <2>2, <2>3 DEF StartRefresh
<1>12. CASE FinishRefresh
  BY <1>12, StoreSame DEF FinishRefresh
<1> QED
  BY <1>2, <1>3, <1>4, <1>5, <1>6, <1>7, <1>8, <1>9, <1>10, <1>11, <1>12, <1>13 DEF EnvNext
-----------------------------------------------------------------------------
(* The demo runtime.                                                       *)

\* What runs in the gateway goes on until the gateway itself ends it.
LEMMA GatewayRuns ==
  ASSUME EnvTyped, StoreStep, job["gateway"].at = "up"
  PROVE  job'["gateway"].at = "up"
<1>0. "gateway" \in Launchers /\ "rival" \in Launchers /\ "gateway" # "rival"
  BY DEF Launchers
<1>1. \A l \in Launchers, j \in DemoJob : l # "gateway" /\ job' = [job EXCEPT ![l] = j] => job'["gateway"].at = "up"
  BY <1>0 DEF EnvTyped
<1>2. ASSUME NEW l \in Launchers,
             LookAtStore(l) \/ RemoveStale(l) \/ TakeLock(l) \/ InitDemo(l) \/ CheckOwned(l) \/ WipeOwned(l)
      PROVE  job'["gateway"].at = "up"
  <2>1. l # "gateway"
    BY <1>2 DEF LookAtStore, RemoveStale, TakeLock, InitDemo, CheckOwned, WipeOwned, JobAt
  <2>2. \E j : job' = [job EXCEPT ![l] = j]
    BY <1>2 DEF LookAtStore, RemoveStale, TakeLock, InitDemo, CheckOwned, WipeOwned, RemovalFails, JobGoes
  <2> QED
    BY <1>0, <2>1, <2>2 DEF EnvTyped
<1>3. CASE RivalStarts \/ RivalStops
  <2>1. \E j : job' = [job EXCEPT !["rival"] = j]
    BY <1>3 DEF RivalStarts, RivalStops, BeginDemo, JobGoes
  <2> QED
    BY <1>0, <2>1 DEF EnvTyped
<1>4. CASE ClearLock \/ PassHour
  BY <1>4 DEF ClearLock, PassHour
<1>5. ~ReleaseLock
  BY DEF ReleaseLock, JobAt
<1> QED
  BY <1>2, <1>3, <1>4, <1>5 DEF StoreStep

LEMMA DemoSame ==
  ASSUME EnvTyped, DemoKnown, UNCHANGED <<runtimes, demoPromise, refresh>>, InstancesKept,
         job["gateway"].at = "up" => job'["gateway"].at = "up"
  PROVE  DemoKnown'
BY DEF DemoKnown, Demo, InstancesKept, StillThere

\* A switch to e2e or prod brings no demo.
LEMMA DemoBeside ==
  ASSUME EnvInv, NEW w \in Switches, SwitchAt(w, "create"), NEW r \in Nat, TakesOver(w, r),
         UNCHANGED <<job, demoPromise, refresh>>,
         switch[w].mode = "demo" => demoPromise.at = "resolved",
         \/ UNCHANGED runtimes
         \/ /\ DOMAIN runtimes' = 1..(Len(runtimes) + 1) /\ runtimes'[Len(runtimes) + 1].mode = "e2e"
            /\ \A q \in DOMAIN runtimes : runtimes'[q] = runtimes[q]
  PROVE  DemoKnown'
<1>1. /\ DOMAIN instances' = 1..(Len(instances) + 1)
      /\ \A i \in DOMAIN instances : instances'[i].mode = instances[i].mode
      /\ instances'[Len(instances) + 1].mode = switch[w].mode
  <2>1. /\ DOMAIN instances' = 1..(Len(instances) + 1)
        /\ \A i \in DOMAIN instances : StillThere(instances[i], instances'[i])
        /\ instances'[Len(instances) + 1] = NewInstance(switch[w].mode, r)
    BY TakesOverDoes DEF EnvInv
  <2>2. NewInstance(switch[w].mode, r).mode = switch[w].mode
    BY DEF NewInstance
  <2> QED
    BY <2>1, <2>2 DEF StillThere
<1>2. /\ DOMAIN instances = 1..Len(instances) /\ Len(instances) \in Nat
      /\ DOMAIN runtimes = 1..Len(runtimes) /\ Len(runtimes) \in Nat
  BY RowsTyped DEF EnvInv
<1>3. DOMAIN instances' = DOMAIN instances \cup {Len(instances) + 1}
  BY <1>1, <1>2
<1>4. /\ DOMAIN runtimes \subseteq DOMAIN runtimes' /\ \A q \in DOMAIN runtimes : runtimes'[q] = runtimes[q]
      /\ \A q \in DOMAIN runtimes' \ DOMAIN runtimes : runtimes'[q].mode # "demo"
  <2>1. CASE UNCHANGED runtimes
    BY <2>1
  <2>2. CASE /\ DOMAIN runtimes' = 1..(Len(runtimes) + 1) /\ runtimes'[Len(runtimes) + 1].mode = "e2e"
             /\ \A q \in DOMAIN runtimes : runtimes'[q] = runtimes[q]
    <3>1. DOMAIN runtimes' = DOMAIN runtimes \cup {Len(runtimes) + 1}
      BY <1>2, <2>2
    <3> QED
      BY <2>2, <3>1
  <2> QED
    BY <2>1, <2>2
<1>5. demoPromise.at # "resolved" => \A i \in DOMAIN instances' : instances'[i].mode # "demo"
  BY <1>1, <1>3 DEF EnvInv, DemoKnown
<1>6. refresh.at = "on" => refresh.instance \in DOMAIN instances' /\ instances'[refresh.instance].mode = "demo"
  BY <1>1, <1>3 DEF EnvInv, DemoKnown
<1> QED
  BY <1>4, <1>5, <1>6 DEF EnvInv, DemoKnown, Demo

LEMMA DemoStays ==
  ASSUME EnvInv, EnvNext
  PROVE  DemoKnown'
<1> USE DEF EnvInv
<1>0. "gateway" \in Launchers
  BY DEF Launchers
<1>1. CASE StoreStep
  <2>1. JobsTyped
    BY DEF JobsTyped, EnvTyped
  <2>2. UNCHANGED UseVars
    BY <1>1, <2>1, JobsStep
  <2> QED
    BY <1>1, <2>2, GatewayRuns, DemoSame, SameKept DEF UseVars
<1>2. ASSUME NEW w \in Switches, AskSwitch(w) PROVE DemoKnown'
  BY <1>2, AskSwitchDoes, DemoSame DEF AskSwitch
<1>3. ASSUME NEW w \in Switches, CreateE2e(w) PROVE DemoKnown'
  <2>1. CASE runtimes' = Opened("e2e") /\ TakesOver(w, Len(runtimes) + 1)
    <3>1. /\ DOMAIN runtimes' = 1..(Len(runtimes) + 1) /\ runtimes'[Len(runtimes) + 1].mode = "e2e"
          /\ \A q \in DOMAIN runtimes : runtimes'[q] = runtimes[q]
      BY <1>3, <2>1, OpenedIs DEF CreateE2e, Modes
    <3>2. Len(runtimes) + 1 \in Nat
      BY RowsTyped
    <3>3. UNCHANGED <<job, demoPromise, refresh>> /\ switch[w].mode # "demo" /\ SwitchAt(w, "create")
      BY <1>3 DEF CreateE2e
    <3> QED
      BY <2>1, <3>1, <3>2, <3>3, DemoBeside
  <2>2. CASE SwitchFails(w) /\ UNCHANGED runtimes
    BY <1>3, <2>2, SwitchFailsDoes, DemoSame DEF CreateE2e
  <2> QED
    BY <1>3, <2>1, <2>2 DEF CreateE2e
<1>4. ASSUME NEW w \in Switches, CreateProd(w) PROVE DemoKnown'
  <2>1. CASE TakesOver(w, 0)
    <3>1. UNCHANGED <<job, demoPromise, refresh, runtimes>> /\ switch[w].mode # "demo" /\ SwitchAt(w, "create")
      BY <1>4 DEF CreateProd
    <3> QED
      BY <2>1, <3>1, DemoBeside
  <2>2. CASE SwitchFails(w)
    BY <1>4, <2>2, SwitchFailsDoes, DemoSame DEF CreateProd
  <2> QED
    BY <1>4, <2>1, <2>2 DEF CreateProd
<1>5. ASSUME NEW w \in Switches, CreateDemo(w) PROVE DemoKnown'
  <2>1. CASE demoPromise.at = "none"
    <3>1. /\ job["gateway"].at # "up" /\ demoPromise'.at = "pending"
          /\ UNCHANGED <<runtimes, instances, refresh>>
      BY <1>5, <2>1 DEF CreateDemo
    <3> QED
      BY <2>1, <3>1 DEF DemoKnown, Demo
  <2>2. CASE demoPromise.at = "resolved"
    <3>1. UNCHANGED <<job, demoPromise, refresh, runtimes>> /\ TakesOver(w, demoPromise.runtime) /\ SwitchAt(w, "create")
      BY <1>5, <2>2 DEF CreateDemo
    <3>2. demoPromise.runtime \in Nat
      BY DEF EnvTyped
    <3> QED
      BY <2>2, <3>1, <3>2, DemoBeside
  <2> QED
    BY <1>5, <2>1, <2>2 DEF CreateDemo
<1>6. ASSUME NEW w \in Switches, CloseOld(w) PROVE DemoKnown'
  <2>1. CASE instances[switch[w].old].mode = "e2e"
    <3>1. switch[w].old \in DOMAIN instances
      BY <1>6 DEF CloseOld, UseKnown, SwitchAt
    <3>2. instances[switch[w].old].runtime \in DOMAIN runtimes
      BY <2>1, <3>1 DEF UseKnown
    <3>3. DOMAIN runtimes' = DOMAIN runtimes
          /\ \A q \in DOMAIN runtimes : runtimes'[q].mode = runtimes[q].mode /\ (runtimes'[q].open => runtimes[q].open)
      BY <1>6, <2>1, <3>2, ClosedIs DEF CloseOld
    <3> QED
      BY <1>6, <3>3 DEF CloseOld, DemoKnown, Demo
  <2>2. CASE instances[switch[w].old].mode # "e2e"
    BY <1>6, <2>2, DemoSame, SameKept DEF CloseOld
  <2> QED
    BY <2>1, <2>2
<1>7. CASE DemoResolves
  <2>1. CASE JobAt("gateway", "up")
    <3>1. /\ DOMAIN runtimes' = 1..(Len(runtimes) + 1)
          /\ \A r \in DOMAIN runtimes : runtimes'[r] = runtimes[r]
          /\ runtimes'[Len(runtimes) + 1].mode = "demo"
      BY <1>7, <2>1, OpenedIs DEF DemoResolves, Modes
    <3>2. DOMAIN runtimes = 1..Len(runtimes) /\ Len(runtimes) \in Nat
      BY RowsTyped
    <3>3. DOMAIN runtimes' = DOMAIN runtimes \cup {Len(runtimes) + 1}
      BY <3>1, <3>2
    <3>4. \A r \in DOMAIN runtimes : ~Demo(r)
      BY <1>7 DEF DemoResolves, DemoKnown
    <3>5. /\ demoPromise' = [at |-> "resolved", runtime |-> Len(runtimes) + 1]
          /\ UNCHANGED <<instances, refresh, job>>
      BY <1>7, <2>1 DEF DemoResolves
    <3> QED
      BY <2>1, <3>1, <3>3, <3>4, <3>5 DEF DemoKnown, Demo, JobAt
  <2>2. CASE ~JobAt("gateway", "up")
    <3>1. demoPromise'.at = "none" /\ UNCHANGED <<runtimes, refresh>> /\ demoPromise.at = "pending"
      BY <1>7, <2>2 DEF DemoResolves
    <3>2. InstancesKept
      BY <1>7, <2>2, DemoFailsDoes
    <3> QED
      BY <3>1, <3>2 DEF DemoKnown, Demo, InstancesKept, StillThere
  <2> QED
    BY <2>1, <2>2
<1>8. ASSUME NEW c \in Calls, SendCall(c) \/ AnswerCall(c) PROVE DemoKnown'
  BY <1>8, DemoSame, SameKept DEF SendCall, AnswerCall
<1>9. CASE StartRefresh
  <2> DEFINE r == instances[FirstDemo].runtime
  <2>0. /\ FirstDemo \in DOMAIN instances /\ instances[FirstDemo].mode = "demo"
        /\ r \in DOMAIN runtimes /\ Demo(r)
    BY <1>9, FirstDemoIs DEF StartRefresh
  <2>1. /\ UNCHANGED <<instances, demoPromise>> /\ refresh.at = "off"
        /\ refresh' = refresh \/ refresh' = [at |-> "on", instance |-> FirstDemo]
    BY <1>9 DEF StartRefresh
  <2>2. demoPromise.at = "resolved"
    BY <2>0 DEF DemoKnown
  <2>3. CASE runtimes[r].open
    <3>1. runtimes' = [runtimes EXCEPT ![r].open = FALSE]
      BY <1>9, <2>3 DEF StartRefresh
    <3>2. DOMAIN runtimes' = DOMAIN runtimes
          /\ \A q \in DOMAIN runtimes : runtimes'[q].mode = runtimes[q].mode /\ (q # r => runtimes'[q] = runtimes[q]) /\ (q = r => ~runtimes'[q].open)
      BY <2>0, <3>1, ClosedIs
    <3>3. \A q \in DOMAIN runtimes' : runtimes'[q].mode = "demo" => ~runtimes'[q].open
      BY <2>0, <2>3, <3>2 DEF DemoKnown, Demo
    <3> QED
      BY <2>0, <2>1, <2>2, <3>2, <3>3 DEF DemoKnown, Demo
  <2>4. CASE ~runtimes[r].open
    <3>1. UNCHANGED runtimes /\ job["gateway"].at # "up"
      BY <1>9, <2>4 DEF StartRefresh
    <3>2. \A q \in DOMAIN runtimes : ~(Demo(q) /\ runtimes[q].open)
      BY <3>1 DEF DemoKnown
    <3> QED
      BY <2>0, <2>1, <2>2, <3>1, <3>2 DEF DemoKnown, Demo
  <2> QED
    BY <2>3, <2>4
<1>10. CASE FinishRefresh
  <2>1. refresh'.at = "off" /\ UNCHANGED <<job, demoPromise>> /\ refresh.at = "on"
    BY <1>10 DEF FinishRefresh
  <2>2. demoPromise.at = "resolved"
    BY <2>1 DEF DemoKnown
  <2>3. CASE UNCHANGED <<runtimes, instances>>
    BY <2>1, <2>3 DEF DemoKnown, Demo
  <2>4. CASE ~UNCHANGED <<runtimes, instances>>
    <3>1. /\ JobAt("gateway", "up") /\ \A q \in DOMAIN runtimes : Demo(q) => ~runtimes[q].open
          /\ runtimes' = Opened("demo")
      BY <1>10, <2>4, FinishRefreshDoes
    <3>2. /\ DOMAIN runtimes' = 1..(Len(runtimes) + 1)
          /\ \A q \in DOMAIN runtimes : runtimes'[q] = runtimes[q]
      BY <1>10, <3>1, OpenedIs DEF FinishRefresh, Modes
    <3>3. DOMAIN runtimes = 1..Len(runtimes) /\ Len(runtimes) \in Nat
      BY RowsTyped
    <3>4. DOMAIN runtimes' = DOMAIN runtimes \cup {Len(runtimes) + 1}
      BY <3>2, <3>3
    <3> QED
      BY <2>1, <2>2, <3>1, <3>2, <3>4 DEF DemoKnown, Demo, JobAt
  <2> QED
    BY <2>3, <2>4
<1> QED
  BY <1>1, <1>2, <1>3, <1>4, <1>5, <1>6, <1>7, <1>8, <1>9, <1>10, StepsAre DEF UseStep

-----------------------------------------------------------------------------
(* What is in use.                                                         *)

\* A switch that is given up, or one that is asked for, and what only the store sees.
LEMMA UseSame ==
  ASSUME EnvTyped, UseKnown, UNCHANGED callOf, InstancesKept, DOMAIN runtimes' = DOMAIN runtimes,
         \A r \in DOMAIN runtimes :
           runtimes'[r].mode = runtimes[r].mode /\ (runtimes[r].mode = "e2e" => runtimes'[r] = runtimes[r]),
         \A w \in Switches : \/ switch'[w] = switch[w]
                             \/ switch'[w].at = "off"
                             \/ switch'[w].at = "create" /\ (switch'[w].old # 0 => switch'[w].old \in DOMAIN instances)
  PROVE  UseKnown'
<1>1. \A w \in Switches :
        /\ switch'[w].at # "off" /\ switch'[w].old # 0 => switch'[w].old \in DOMAIN instances'
        /\ switch'[w].at = "drain" => switch'[w].old # 0 /\ ~instances'[switch'[w].old].active
  BY DEF UseKnown, InstancesKept, StillThere
<1>2. \A i \in DOMAIN instances' :
        IF instances'[i].mode = "prod" THEN instances'[i].runtime = 0
        ELSE instances'[i].runtime \in DOMAIN runtimes' /\ runtimes'[instances'[i].runtime].mode = instances'[i].mode
  BY DEF UseKnown, InstancesKept, StillThere
<1>3. \A i, j \in DOMAIN instances' :
         instances'[i].mode = "e2e" /\ instances'[j].mode = "e2e" /\ instances'[i].runtime = instances'[j].runtime => i = j
  BY DEF UseKnown, InstancesKept, StillThere
<1>4. \A i \in DOMAIN instances' :
         instances'[i].mode = "e2e" /\ instances'[i].active => runtimes'[instances'[i].runtime].open
  BY DEF UseKnown, InstancesKept, StillThere
<1>5. \A c \in Calls : callOf'[c].runtime # 0 =>
         /\ callOf'[c].runtime \in DOMAIN runtimes'
         /\ runtimes'[callOf'[c].runtime].mode = "e2e" =>
              /\ callOf'[c].instance \in DOMAIN instances'
              /\ instances'[callOf'[c].instance].mode = "e2e"
              /\ instances'[callOf'[c].instance].runtime = callOf'[c].runtime
              /\ runtimes'[callOf'[c].runtime].open
  BY DEF UseKnown, InstancesKept, StillThere
<1> QED
  BY <1>1, <1>2, <1>3, <1>4, <1>5 DEF UseKnown

\* The new instance has a runtime of its mode; an e2e one is nobody else's.
LEMMA UseTaken ==
  ASSUME EnvTyped, UseKnown, NEW w \in Switches, SwitchAt(w, "create"), NEW r \in Nat, TakesOver(w, r),
         UNCHANGED callOf,
         \/ /\ UNCHANGED runtimes /\ switch[w].mode # "e2e"
            /\ IF switch[w].mode = "prod" THEN r = 0 ELSE r \in DOMAIN runtimes /\ runtimes[r].mode = switch[w].mode
         \/ /\ switch[w].mode = "e2e" /\ r = Len(runtimes) + 1
            /\ DOMAIN runtimes' = 1..r /\ runtimes'[r].mode = "e2e" /\ runtimes'[r].open
            /\ \A q \in DOMAIN runtimes : runtimes'[q] = runtimes[q]
  PROVE  UseKnown'
<1> DEFINE n == Len(instances) + 1
<1>0. /\ DOMAIN instances = 1..Len(instances) /\ Len(instances) \in Nat
      /\ DOMAIN runtimes = 1..Len(runtimes) /\ Len(runtimes) \in Nat
  BY RowsTyped
<1>1. /\ DOMAIN instances' = 1..n
      /\ \A i \in DOMAIN instances : /\ instances'[i].mode = instances[i].mode /\ instances'[i].runtime = instances[i].runtime
                                     /\ instances'[i].active => instances[i].active
      /\ instances'[n].mode = switch[w].mode /\ instances'[n].runtime = r
      /\ switch[w].old # 0 => switch[w].old \in DOMAIN instances /\ ~instances'[switch[w].old].active
      /\ \A v \in Switches : v # w => switch'[v] = switch[v]
      /\ switch'[w].at # "off" => switch'[w].at = "drain" /\ switch'[w].old = switch[w].old /\ switch[w].old # 0
  <2>1. /\ DOMAIN instances' = 1..(Len(instances) + 1)
        /\ \A i \in DOMAIN instances : StillThere(instances[i], instances'[i])
        /\ instances'[Len(instances) + 1] = NewInstance(switch[w].mode, r)
        /\ switch[w].old # 0 => switch[w].old \in DOMAIN instances /\ ~instances'[switch[w].old].active
        /\ \A v \in Switches : v # w => switch'[v] = switch[v]
        /\ switch'[w].at # "off" => switch'[w].at = "drain" /\ switch'[w].old = switch[w].old /\ switch[w].old # 0
    BY TakesOverDoes
  <2>2. NewInstance(switch[w].mode, r).mode = switch[w].mode /\ NewInstance(switch[w].mode, r).runtime = r
    BY DEF NewInstance
  <2> QED
    BY <2>1, <2>2 DEF StillThere
<1>2. DOMAIN instances' = DOMAIN instances \cup {n} /\ n \notin DOMAIN instances
  BY <1>0, <1>1
<1>3. /\ DOMAIN runtimes \subseteq DOMAIN runtimes' /\ \A q \in DOMAIN runtimes : runtimes'[q] = runtimes[q]
      /\ switch[w].mode = "e2e" => r \notin DOMAIN runtimes /\ r \in DOMAIN runtimes' /\ runtimes'[r].open /\ runtimes'[r].mode = "e2e"
      /\ IF switch[w].mode = "prod" THEN r = 0 ELSE r \in DOMAIN runtimes' /\ runtimes'[r].mode = switch[w].mode
  <2>1. CASE UNCHANGED runtimes /\ switch[w].mode # "e2e"
    BY <2>1
  <2>2. CASE /\ switch[w].mode = "e2e" /\ r = Len(runtimes) + 1
             /\ DOMAIN runtimes' = 1..r /\ runtimes'[r].mode = "e2e" /\ runtimes'[r].open
             /\ \A q \in DOMAIN runtimes : runtimes'[q] = runtimes[q]
    <3>1. DOMAIN runtimes' = DOMAIN runtimes \cup {r} /\ r \notin DOMAIN runtimes
      BY <1>0, <2>2
    <3> QED
      BY <2>2, <3>1
  <2> QED
    BY <2>1, <2>2
<1> HIDE DEF n
<1>4. \A v \in Switches :
        /\ switch'[v].at # "off" /\ switch'[v].old # 0 => switch'[v].old \in DOMAIN instances'
        /\ switch'[v].at = "drain" => switch'[v].old # 0 /\ ~instances'[switch'[v].old].active
  <2> SUFFICES ASSUME NEW v \in Switches
               PROVE  /\ switch'[v].at # "off" /\ switch'[v].old # 0 => switch'[v].old \in DOMAIN instances'
                      /\ switch'[v].at = "drain" => switch'[v].old # 0 /\ ~instances'[switch'[v].old].active
    OBVIOUS
  <2>1. CASE v = w
    BY <1>1, <1>2, <2>1
  <2>2. CASE v # w
    <3>1. switch'[v] = switch[v]
      BY <1>1, <2>2
    <3>2. /\ switch[v].at # "off" /\ switch[v].old # 0 => switch[v].old \in DOMAIN instances
          /\ switch[v].at = "drain" => switch[v].old # 0 /\ ~instances[switch[v].old].active
      BY DEF UseKnown
    <3>3. switch[v].at = "drain" => switch[v].old \in DOMAIN instances /\ ~instances'[switch[v].old].active
      BY <1>1, <3>2
    <3> QED
      BY <1>2, <3>1, <3>2, <3>3
  <2> QED
    BY <2>1, <2>2
<1>5. ASSUME NEW i \in DOMAIN instances'
      PROVE  IF instances'[i].mode = "prod" THEN instances'[i].runtime = 0
             ELSE instances'[i].runtime \in DOMAIN runtimes' /\ runtimes'[instances'[i].runtime].mode = instances'[i].mode
  <2>1. CASE i = n
    BY <1>1, <1>3, <2>1
  <2>2. CASE i \in DOMAIN instances
    <3>1. instances'[i].mode = instances[i].mode /\ instances'[i].runtime = instances[i].runtime
      BY <1>1, <2>2
    <3>2. IF instances[i].mode = "prod" THEN instances[i].runtime = 0
          ELSE instances[i].runtime \in DOMAIN runtimes /\ runtimes[instances[i].runtime].mode = instances[i].mode
      BY <2>2 DEF UseKnown
    <3> QED
      BY <1>3, <3>1, <3>2
  <2> QED
    BY <1>2, <2>1, <2>2
<1>6. ASSUME NEW i \in DOMAIN instances', NEW j \in DOMAIN instances',
             instances'[i].mode = "e2e", instances'[j].mode = "e2e", instances'[i].runtime = instances'[j].runtime
      PROVE  i = j
  <2>1. ASSUME NEW k \in DOMAIN instances, instances'[k].mode = "e2e"
        PROVE  /\ instances[k].mode = "e2e" /\ instances[k].runtime = instances'[k].runtime
               /\ instances'[k].runtime \in DOMAIN runtimes
    <3>1. instances'[k].mode = instances[k].mode /\ instances'[k].runtime = instances[k].runtime
      BY <1>1
    <3> QED
      BY <2>1, <3>1 DEF UseKnown
  <2>2. CASE i \in DOMAIN instances /\ j \in DOMAIN instances
    BY <1>6, <2>1, <2>2 DEF UseKnown
  <2>3. CASE i = n /\ j \in DOMAIN instances
    BY <1>1, <1>3, <1>6, <2>1, <2>3
  <2>4. CASE j = n /\ i \in DOMAIN instances
    BY <1>1, <1>3, <1>6, <2>1, <2>4
  <2> QED
    BY <1>2, <2>2, <2>3, <2>4
<1>7. ASSUME NEW i \in DOMAIN instances', instances'[i].mode = "e2e", instances'[i].active
      PROVE  runtimes'[instances'[i].runtime].open
  <2>1. CASE i = n
    BY <1>1, <1>3, <1>7, <2>1
  <2>2. CASE i \in DOMAIN instances
    <3>1. instances[i].mode = "e2e" /\ instances'[i].runtime = instances[i].runtime /\ instances[i].active
      BY <1>1, <1>7, <2>2
    <3>2. instances[i].runtime \in DOMAIN runtimes /\ runtimes[instances[i].runtime].open
      BY <2>2, <3>1 DEF UseKnown
    <3> QED
      BY <1>3, <3>1, <3>2
  <2> QED
    BY <1>2, <2>1, <2>2
<1>8. ASSUME NEW c \in Calls, callOf'[c].runtime # 0
      PROVE  /\ callOf'[c].runtime \in DOMAIN runtimes'
             /\ runtimes'[callOf'[c].runtime].mode = "e2e" =>
                  /\ callOf'[c].instance \in DOMAIN instances'
                  /\ instances'[callOf'[c].instance].mode = "e2e"
                  /\ instances'[callOf'[c].instance].runtime = callOf'[c].runtime
                  /\ runtimes'[callOf'[c].runtime].open
  <2>1. /\ callOf[c].runtime \in DOMAIN runtimes
        /\ runtimes[callOf[c].runtime].mode = "e2e" =>
             /\ callOf[c].instance \in DOMAIN instances
             /\ instances[callOf[c].instance].mode = "e2e"
             /\ instances[callOf[c].instance].runtime = callOf[c].runtime
             /\ runtimes[callOf[c].runtime].open
    BY <1>8 DEF UseKnown
  <2>2. callOf'[c] = callOf[c]
    OBVIOUS
  <2>3. callOf[c].runtime \in DOMAIN runtimes' /\ runtimes'[callOf[c].runtime] = runtimes[callOf[c].runtime]
    BY <1>3, <2>1
  <2> QED
    BY <1>1, <1>2, <2>1, <2>2, <2>3
<1> QED
  BY <1>4, <1>5, <1>6, <1>7, <1>8 DEF UseKnown
\* A demo runtime that is opened, for the promise or for the instance that is refreshed.
LEMMA UseGrows ==
  ASSUME EnvTyped, UseKnown, UNCHANGED <<callOf, switch>>,
         DOMAIN runtimes' = DOMAIN runtimes \cup {Len(runtimes) + 1},
         \A r \in DOMAIN runtimes : runtimes'[r] = runtimes[r],
         runtimes'[Len(runtimes) + 1].mode = "demo",
         DOMAIN instances' = DOMAIN instances,
         \A i \in DOMAIN instances :
           \/ instances'[i] = instances[i]
           \/ /\ instances[i].mode = "demo" /\ instances'[i].mode = "demo" /\ instances'[i].runtime = Len(runtimes) + 1
              /\ instances'[i].active = instances[i].active
  PROVE  UseKnown'
<1> DEFINE n == Len(runtimes) + 1
<1>1. \A w \in Switches :
        /\ switch'[w].at # "off" /\ switch'[w].old # 0 => switch'[w].old \in DOMAIN instances'
        /\ switch'[w].at = "drain" => switch'[w].old # 0 /\ ~instances'[switch'[w].old].active
  BY DEF UseKnown
<1>2. ASSUME NEW i \in DOMAIN instances
      PROVE  IF instances'[i].mode = "prod" THEN instances'[i].runtime = 0
             ELSE instances'[i].runtime \in DOMAIN runtimes' /\ runtimes'[instances'[i].runtime].mode = instances'[i].mode
  BY DEF UseKnown
<1>3. ASSUME NEW i \in DOMAIN instances, instances'[i].mode = "e2e"
      PROVE  instances'[i] = instances[i] /\ instances[i].runtime \in DOMAIN runtimes
  BY <1>3 DEF UseKnown
<1>4. \A i, j \in DOMAIN instances' :
         instances'[i].mode = "e2e" /\ instances'[j].mode = "e2e" /\ instances'[i].runtime = instances'[j].runtime => i = j
  BY <1>3 DEF UseKnown
<1>5. \A i \in DOMAIN instances' :
         instances'[i].mode = "e2e" /\ instances'[i].active => runtimes'[instances'[i].runtime].open
  BY <1>3 DEF UseKnown
<1>6. ASSUME NEW c \in Calls, callOf'[c].runtime # 0
      PROVE  /\ callOf'[c].runtime \in DOMAIN runtimes'
             /\ runtimes'[callOf'[c].runtime].mode = "e2e" =>
                  /\ callOf'[c].instance \in DOMAIN instances'
                  /\ instances'[callOf'[c].instance].mode = "e2e"
                  /\ instances'[callOf'[c].instance].runtime = callOf'[c].runtime
                  /\ runtimes'[callOf'[c].runtime].open
  BY <1>6 DEF UseKnown
<1> QED
  BY <1>1, <1>2, <1>4, <1>5, <1>6 DEF UseKnown

\* The old e2e runtime is closed when its instance has stepped down and its calls are answered.
LEMMA UseCloses ==
  ASSUME EnvTyped, UseKnown, NEW w \in Switches, CloseOld(w), instances[switch[w].old].mode = "e2e"
  PROVE  UseKnown'
<1> DEFINE o == switch[w].old
           r == instances[o].runtime
<1>1. /\ o \in DOMAIN instances /\ ~instances[o].active /\ r \in DOMAIN runtimes
      /\ Drained(o) /\ UNCHANGED <<instances, callOf>>
  BY DEF CloseOld, UseKnown, SwitchAt
<1>2. runtimes' = [runtimes EXCEPT ![r].open = FALSE]
  BY DEF CloseOld
<1>3. DOMAIN runtimes' = DOMAIN runtimes
      /\ \A q \in DOMAIN runtimes : /\ runtimes'[q].mode = runtimes[q].mode
                                   /\ (q # r => runtimes'[q] = runtimes[q]) /\ (q = r => ~runtimes'[q].open)
  BY <1>1, <1>2, ClosedIs
<1>4. \A v \in Switches : switch'[v] = switch[v] \/ switch'[v].at = "off"
  BY DEF CloseOld, SwitchGoes, EnvTyped, NoSwitch
<1>5. \A v \in Switches :
        /\ switch'[v].at # "off" /\ switch'[v].old # 0 => switch'[v].old \in DOMAIN instances'
        /\ switch'[v].at = "drain" => switch'[v].old # 0 /\ ~instances'[switch'[v].old].active
  BY <1>1, <1>4 DEF UseKnown
<1>6. ASSUME NEW i \in DOMAIN instances, instances[i].mode = "e2e", i # o
      PROVE  instances[i].runtime \in DOMAIN runtimes /\ instances[i].runtime # r
  BY <1>1, <1>6 DEF UseKnown
<1>7. \A i \in DOMAIN instances' :
         instances'[i].mode = "e2e" /\ instances'[i].active => runtimes'[instances'[i].runtime].open
  BY <1>1, <1>3, <1>6 DEF UseKnown
<1>8. ASSUME NEW c \in Calls, callOf[c].runtime # 0, runtimes[callOf[c].runtime].mode = "e2e"
      PROVE  callOf[c].runtime # r
  BY <1>1, <1>6, <1>8 DEF UseKnown, Drained
<1>9. ASSUME NEW c \in Calls, callOf'[c].runtime # 0
      PROVE  /\ callOf'[c].runtime \in DOMAIN runtimes'
             /\ runtimes'[callOf'[c].runtime].mode = "e2e" =>
                  /\ callOf'[c].instance \in DOMAIN instances'
                  /\ instances'[callOf'[c].instance].mode = "e2e"
                  /\ instances'[callOf'[c].instance].runtime = callOf'[c].runtime
                  /\ runtimes'[callOf'[c].runtime].open
  <2>1. callOf' = callOf /\ instances' = instances
    BY <1>1
  <2>2. /\ callOf[c].runtime \in DOMAIN runtimes
        /\ runtimes[callOf[c].runtime].mode = "e2e" =>
             /\ callOf[c].instance \in DOMAIN instances
             /\ instances[callOf[c].instance].mode = "e2e"
             /\ instances[callOf[c].instance].runtime = callOf[c].runtime
             /\ runtimes[callOf[c].runtime].open
    BY <1>9, <2>1 DEF UseKnown
  <2>3. runtimes[callOf[c].runtime].mode = "e2e" => callOf[c].runtime # r
    BY <1>8, <1>9, <2>1
  <2> HIDE DEF r
  <2> QED
    BY <1>3, <2>1, <2>2, <2>3
<1>10. ASSUME NEW i \in DOMAIN instances
       PROVE  IF instances'[i].mode = "prod" THEN instances'[i].runtime = 0
              ELSE instances'[i].runtime \in DOMAIN runtimes' /\ runtimes'[instances'[i].runtime].mode = instances'[i].mode
  <2>1. IF instances[i].mode = "prod" THEN instances[i].runtime = 0
        ELSE instances[i].runtime \in DOMAIN runtimes /\ runtimes[instances[i].runtime].mode = instances[i].mode
    BY DEF UseKnown
  <2>2. instances' = instances
    BY <1>1
  <2> HIDE DEF r
  <2> QED
    BY <1>3, <2>1, <2>2
<1>11. \A i, j \in DOMAIN instances' :
         instances'[i].mode = "e2e" /\ instances'[j].mode = "e2e" /\ instances'[i].runtime = instances'[j].runtime => i = j
  BY <1>1 DEF UseKnown
<1> QED
  BY <1>1, <1>5, <1>7, <1>9, <1>10, <1>11 DEF UseKnown

LEMMA UseStays ==
  ASSUME EnvInv, EnvNext
  PROVE  UseKnown'
<1> USE DEF EnvInv
<1>00. /\ DOMAIN runtimes = 1..Len(runtimes) /\ Len(runtimes) \in Nat /\ Len(runtimes) + 1 \in Nat
       /\ 1..(Len(runtimes) + 1) = DOMAIN runtimes \cup {Len(runtimes) + 1}
  BY RowsTyped
<1>1. CASE StoreStep
  <2>1. JobsTyped
    BY DEF JobsTyped, EnvTyped
  <2>2. UNCHANGED UseVars
    BY <1>1, <2>1, JobsStep
  <2> QED
    BY <2>2, UseSame, SameKept DEF UseVars
<1>2. ASSUME NEW w \in Switches, AskSwitch(w) PROVE UseKnown'
  <2>1. /\ InstancesKept /\ switch'[w].at = "create" /\ (switch'[w].old # 0 => switch'[w].old \in DOMAIN instances)
        /\ \A v \in Switches : v # w => switch'[v] = switch[v]
    BY <1>2, AskSwitchDoes
  <2>2. UNCHANGED <<runtimes, callOf>>
    BY <1>2 DEF AskSwitch
  <2> QED
    BY <2>1, <2>2, UseSame
<1>3. ASSUME NEW w \in Switches, SwitchFails(w), UNCHANGED <<runtimes, callOf>> PROVE UseKnown'
  <2>1. InstancesKept /\ switch'[w].at = "off" /\ \A v \in Switches : v # w => switch'[v] = switch[v]
    BY <1>3, SwitchFailsDoes
  <2> QED
    BY <1>3, <2>1, UseSame
<1>4. ASSUME NEW w \in Switches, CreateE2e(w) PROVE UseKnown'
  <2>1. CASE runtimes' = Opened("e2e") /\ TakesOver(w, Len(runtimes) + 1)
    <3>1. /\ DOMAIN runtimes' = 1..(Len(runtimes) + 1)
          /\ runtimes'[Len(runtimes) + 1].mode = "e2e" /\ runtimes'[Len(runtimes) + 1].open
          /\ \A q \in DOMAIN runtimes : runtimes'[q] = runtimes[q]
      BY <1>4, <2>1, OpenedIs DEF CreateE2e, Modes
    <3>2. UNCHANGED callOf /\ switch[w].mode = "e2e" /\ SwitchAt(w, "create")
      BY <1>4 DEF CreateE2e
    <3> QED
      BY <1>00, <2>1, <3>1, <3>2, UseTaken
  <2>2. CASE SwitchFails(w) /\ UNCHANGED runtimes
    BY <1>3, <1>4, <2>2 DEF CreateE2e
  <2> QED
    BY <1>4, <2>1, <2>2 DEF CreateE2e
<1>5. ASSUME NEW w \in Switches, CreateProd(w) PROVE UseKnown'
  <2>1. CASE TakesOver(w, 0)
    <3>1. UNCHANGED <<runtimes, callOf>> /\ switch[w].mode = "prod" /\ SwitchAt(w, "create")
      BY <1>5 DEF CreateProd
    <3> QED
      BY <2>1, <3>1, UseTaken
  <2>2. CASE SwitchFails(w)
    BY <1>3, <1>5, <2>2 DEF CreateProd
  <2> QED
    BY <1>5, <2>1, <2>2 DEF CreateProd
<1>6. ASSUME NEW w \in Switches, CreateDemo(w) PROVE UseKnown'
  <2>1. CASE demoPromise.at = "none"
    <3>1. UNCHANGED <<runtimes, callOf, instances, switch>>
      BY <1>6, <2>1 DEF CreateDemo
    <3> QED
      BY <3>1, UseSame, SameKept
  <2>2. CASE demoPromise.at = "resolved"
    <3>1. /\ UNCHANGED <<runtimes, callOf>> /\ switch[w].mode = "demo" /\ SwitchAt(w, "create")
          /\ TakesOver(w, demoPromise.runtime)
      BY <1>6, <2>2 DEF CreateDemo
    <3>2. /\ demoPromise.runtime \in DOMAIN runtimes /\ runtimes[demoPromise.runtime].mode = "demo"
          /\ demoPromise.runtime \in Nat
      BY <2>2 DEF DemoKnown, Demo, EnvTyped
    <3> QED
      BY <3>1, <3>2, UseTaken
  <2> QED
    BY <1>6, <2>1, <2>2 DEF CreateDemo
<1>7. ASSUME NEW w \in Switches, CloseOld(w) PROVE UseKnown'
  <2>1. CASE instances[switch[w].old].mode = "e2e"
    BY <1>7, <2>1, UseCloses
  <2>2. CASE instances[switch[w].old].mode # "e2e"
    <3>1. UNCHANGED <<runtimes, callOf, instances>>
      BY <1>7, <2>2 DEF CloseOld
    <3>2. \A v \in Switches : switch'[v] = switch[v] \/ switch'[v].at = "off"
      BY <1>7 DEF CloseOld, SwitchGoes, EnvTyped, NoSwitch
    <3> QED
      BY <3>1, <3>2, UseSame, SameKept
  <2> QED
    BY <2>1, <2>2
<1>8. CASE DemoResolves
  <2>1. CASE JobAt("gateway", "up")
    <3>1. /\ DOMAIN runtimes' = 1..(Len(runtimes) + 1)
          /\ \A r \in DOMAIN runtimes : runtimes'[r] = runtimes[r]
          /\ runtimes'[Len(runtimes) + 1].mode = "demo"
      BY <1>8, <2>1, OpenedIs DEF DemoResolves, Modes
    <3>2. UNCHANGED <<callOf, switch, instances>>
      BY <1>8, <2>1 DEF DemoResolves
    <3> QED
      BY <1>00, <3>1, <3>2, UseGrows
  <2>2. CASE ~JobAt("gateway", "up")
    <3>1. UNCHANGED <<runtimes, callOf>>
      BY <1>8, <2>2 DEF DemoResolves
    <3>2. InstancesKept /\ \A w \in Switches : switch'[w] = switch[w] \/ switch'[w].at = "off"
      BY <1>8, <2>2, DemoFailsDoes
    <3> QED
      BY <3>1, <3>2, UseSame
  <2> QED
    BY <2>1, <2>2
<1>9. ASSUME NEW c \in Calls, SendCall(c) PROVE UseKnown'
  <2>1. UNCHANGED <<runtimes, instances, switch>>
    BY <1>9 DEF SendCall
  <2>2. PICK i \in DOMAIN instances : instances[i].active /\ callOf' = [callOf EXCEPT ![c] = [instance |-> i, runtime |-> instances[i].runtime]]
    BY <1>9 DEF SendCall, LiveInstance, InstanceIds
  <2>3. /\ callOf'[c].instance = i /\ callOf'[c].runtime = instances[i].runtime
        /\ \A d \in Calls : d # c => callOf'[d] = callOf[d]
    BY <2>2 DEF EnvTyped
  <2>4. ASSUME instances[i].runtime # 0
        PROVE  /\ instances[i].runtime \in DOMAIN runtimes
               /\ runtimes[instances[i].runtime].mode = "e2e" => instances[i].mode = "e2e" /\ runtimes[instances[i].runtime].open
    BY <2>2, <2>4 DEF UseKnown
  <2>5. ASSUME NEW d \in Calls, callOf'[d].runtime # 0
        PROVE  /\ callOf'[d].runtime \in DOMAIN runtimes
               /\ runtimes[callOf'[d].runtime].mode = "e2e" =>
                    /\ callOf'[d].instance \in DOMAIN instances
                    /\ instances[callOf'[d].instance].mode = "e2e"
                    /\ instances[callOf'[d].instance].runtime = callOf'[d].runtime
                    /\ runtimes[callOf'[d].runtime].open
    <3>1. CASE d = c
      BY <2>3, <2>4, <2>5, <3>1
    <3>2. CASE d # c
      BY <2>3, <2>5, <3>2 DEF UseKnown
    <3> QED
      BY <3>1, <3>2
  <2> QED
    BY <2>1, <2>5 DEF UseKnown
<1>10. ASSUME NEW c \in Calls, AnswerCall(c) PROVE UseKnown'
  <2>1. UNCHANGED <<runtimes, instances, switch>>
    BY <1>10 DEF AnswerCall
  <2>2. \A d \in Calls : callOf'[d] = callOf[d] \/ callOf'[d].runtime = 0
    BY <1>10 DEF AnswerCall, EnvTyped, NoCall
  <2> QED
    BY <2>1, <2>2 DEF UseKnown
<1>11. CASE StartRefresh
  <2> DEFINE r == instances[FirstDemo].runtime
  <2>0. r \in DOMAIN runtimes /\ Demo(r)
    BY <1>11, FirstDemoIs DEF StartRefresh
  <2>1. UNCHANGED <<instances, switch, callOf>>
    BY <1>11 DEF StartRefresh
  <2>2. CASE runtimes[r].open
    <3>1. runtimes' = [runtimes EXCEPT ![r].open = FALSE]
      BY <1>11, <2>2 DEF StartRefresh
    <3>2. DOMAIN runtimes' = DOMAIN runtimes
          /\ \A q \in DOMAIN runtimes : /\ runtimes'[q].mode = runtimes[q].mode
                                       /\ (q # r => runtimes'[q] = runtimes[q]) /\ (q = r => ~runtimes'[q].open)
      BY <2>0, <3>1, ClosedIs
    <3>3. \A q \in DOMAIN runtimes : runtimes[q].mode = "e2e" => q # r
      BY <2>0 DEF Demo
    <3>4. \A q \in DOMAIN runtimes : runtimes[q].mode = "e2e" => runtimes'[q] = runtimes[q]
      BY <3>2, <3>3
    <3> QED
      BY <2>1, <3>2, <3>4, UseSame, SameKept
  <2>3. CASE ~runtimes[r].open
    <3>1. UNCHANGED runtimes
      BY <1>11, <2>3 DEF StartRefresh
    <3> QED
      BY <2>1, <3>1, UseSame, SameKept
  <2> QED
    BY <2>2, <2>3
<1>12. CASE FinishRefresh
  <2>1. UNCHANGED <<switch, callOf, disk>>
    BY <1>12 DEF FinishRefresh
  <2>2. CASE UNCHANGED <<runtimes, instances>>
    BY <2>1, <2>2, UseSame, SameKept
  <2>3. CASE ~UNCHANGED <<runtimes, instances>>
    <3>1. /\ runtimes' = Opened("demo")
          /\ DOMAIN instances' = DOMAIN instances
          /\ \A i \in DOMAIN instances :
               /\ i # refresh.instance => instances'[i] = instances[i]
               /\ instances'[i].mode = instances[i].mode /\ instances'[i].active = instances[i].active
          /\ instances'[refresh.instance].runtime = Len(runtimes) + 1
      BY <1>12, <2>3, FinishRefreshDoes
    <3>2. instances[refresh.instance].mode = "demo"
      BY <1>12 DEF FinishRefresh, DemoKnown
    <3>3. /\ DOMAIN runtimes' = 1..(Len(runtimes) + 1)
          /\ \A r \in DOMAIN runtimes : runtimes'[r] = runtimes[r]
          /\ runtimes'[Len(runtimes) + 1].mode = "demo"
      BY <2>1, <3>1, OpenedIs DEF Modes
    <3> QED
      BY <1>00, <2>1, <3>1, <3>2, <3>3, UseGrows
  <2> QED
    BY <2>2, <2>3
<1> QED
  BY <1>1, <1>2, <1>4, <1>5, <1>6, <1>7, <1>8, <1>9, <1>10, <1>11, <1>12, StepsAre DEF UseStep

-----------------------------------------------------------------------------
LEMMA EnvStarts ==
  ASSUME EnvInit
  PROVE  EnvInv
<1>1. EnvTyped
  <2>1. runtimes \in Seq(Runtime) /\ instances \in Seq(Instance)
    BY EmptySeq DEF EnvInit
  <2>2. job \in [Launchers -> DemoJob] /\ disk \in Store
    BY StagesTyped DEF EnvInit
  <2>3. /\ switch \in [Switches -> Switch]
        /\ callOf \in [Calls -> [instance : Nat, runtime : Nat]]
    BY DEF EnvInit, NoSwitch, Switch, Modes, NoCall
  <2> QED
    BY <2>1, <2>2, <2>3 DEF EnvInit, EnvTyped
<1>2. /\ \A l \in Launchers : job[l].at = "off"
      /\ ~disk.ready
  BY DEF EnvInit, NoJob, NoStore
<1>3. StoreKept
  BY <1>2 DEF StoreKept, Running, Holds, Looked, Removes
<1>4. DOMAIN runtimes = {} /\ DOMAIN instances = {}
  BY DEF EnvInit
<1>5. DemoKnown
  BY <1>4 DEF EnvInit, DemoKnown
<1>6. UseKnown
  BY <1>4 DEF EnvInit, UseKnown, NoSwitch, NoCall
<1> QED
  BY <1>1, <1>3, <1>5, <1>6 DEF EnvInv

LEMMA EnvInductive == EnvSpec => []EnvInv
<1>1. ASSUME EnvInv, EnvNext
      PROVE  EnvInv'
  <2>1. EnvTyped'
    <3>1. CASE StoreStep
      <4>1. JobsTyped
        BY <1>1 DEF EnvInv, JobsTyped, EnvTyped
      <4>2. JobsTyped' /\ UNCHANGED UseVars
        BY <3>1, <4>1, JobsStep
      <4> QED
        BY <1>1, <4>2 DEF EnvInv, JobsTyped, EnvTyped, UseVars
    <3>2. CASE UseStep
      BY <1>1, <3>2, UseStepTyped DEF EnvInv
    <3> QED
      BY <1>1, <3>1, <3>2, StepsAre
  <2> QED
    BY <1>1, <2>1, StoreStays, DemoStays, UseStays DEF EnvInv
<1>2. ASSUME EnvInv, UNCHANGED envVars
      PROVE  EnvInv'
  BY <1>2 DEF envVars, EnvInv, EnvTyped, StoreKept, DemoKnown, UseKnown, Running, Holds, Looked, Removes, Demo
<1> QED
  BY <1>1, <1>2, EnvStarts, PTL DEF EnvSpec

\* For any switches, calls, refreshes and starts or resets of a second launcher: a call never
\* goes to an e2e runtime that is closed, one launcher works on the demo store, and a demo that
\* runs keeps its store, unless two launchers were at once between their look at the store and
\* their lock or removal (createRuntime, removeOwned, the switch of the gateway and the refresh
\* of the demo).
THEOREM InUseStaysThere == EnvSpec => []InUseStays
<1>1. ASSUME EnvInv
      PROVE  InUseStays
  <2>1. NoCallAfterClose
    BY <1>1 DEF EnvInv, UseKnown, NoCallAfterClose
  <2>2. OneLauncher
    <3> SUFFICES ASSUME ~outrun
                 PROVE  Cardinality({l \in Launchers : job[l].at \in Holds}) <= 1
      BY DEF OneLauncher
    <3> DEFINE live == {l \in Launchers : job[l].at \in Holds}
    <3>1. \A l, m \in live : l = m
      BY <1>1 DEF EnvInv, StoreKept, Running
    <3>2. CASE live = {}
      BY <3>2, FS_EmptySet
    <3>3. CASE live # {}
      <4>1. PICK l : live = {l}
        BY <3>1, <3>3
      <4> HIDE DEF live
      <4>2. Cardinality(live) = 1
        BY <4>1, FS_Singleton
      <4> QED
        BY <4>2 DEF live
    <3> QED
      BY <3>2, <3>3
  <2>3. RunningStoreStays
    BY <1>1 DEF EnvInv, StoreKept, RunningStoreStays, Running, Holds, JobAt
  <2> QED
    BY <2>1, <2>2, <2>3 DEF InUseStays
<1> QED
  BY <1>1, EnvInductive, PTL

-----------------------------------------------------------------------------
(***************************************************************************)
(* CliUpkeep, for any updates, versions and changes.                       *)
(***************************************************************************)

Updates == [at : {"off", "plan", "install"}, current : BuildVersions, latest : BuildVersions,
            registry : 1..2, overtaken : BOOLEAN]

UpdatesTyped ==
    /\ published \in [1..2 -> BuildVersions] /\ installed \in BuildVersions
    /\ update \in [Updaters -> Updates]

\* An update that nobody has overtaken replaces the version that it started from, by one that
\* it has compared with it.
UpdateKnows ==
    \A u \in Updaters :
        /\ update[u].at # "off" /\ ~update[u].overtaken => update[u].current = installed
        /\ update[u].at = "install" => Outdated(update[u].current, update[u].latest)

Rank(v) == v.n[1] * (PartMax + 1) + v.n[2]

LEMMA PartsAre ==
  /\ PartMax \in Nat /\ Oldest \in BuildVersions /\ NoUpdate \in Updates
  /\ NoUpdate.at = "off" /\ Len(Registries) = 2
  /\ \A v \in BuildVersions : v.n[1] \in 0..PartMax /\ v.n[2] \in 0..PartMax
BY UpkeepAssumption DEF Oldest, BuildVersions, NoUpdate, Updates, Registries

LEMMA WeightGrows ==
  ASSUME NEW k \in Nat, NEW a \in 0..k, NEW b \in 0..k, NEW c \in 0..k, NEW d \in 0..k, a < c
  PROVE  c * (k + 1) + d > a * (k + 1) + b
<1> DEFINE m == c - a - 1
<1>1. m \in Nat /\ c = a + 1 + m
  OBVIOUS
<1>2. m * (k + 1) \in Nat /\ a * (k + 1) \in Nat
  BY <1>1
<1>3. c * (k + 1) = a * (k + 1) + (k + 1) + m * (k + 1)
  BY <1>1
<1> HIDE DEF m
<1> QED
  BY <1>2, <1>3

LEMMA OutdatedRanks ==
  ASSUME NEW v \in BuildVersions, NEW w \in BuildVersions, Outdated(v, w)
  PROVE  Rank(w) > Rank(v)
<1>1. /\ v.n[1] \in 0..PartMax /\ v.n[2] \in 0..PartMax
      /\ w.n[1] \in 0..PartMax /\ w.n[2] \in 0..PartMax /\ PartMax \in Nat
  BY PartsAre
<1>2. CASE v.n[1] < w.n[1]
  <2>1. w.n[1] * (PartMax + 1) + w.n[2] > v.n[1] * (PartMax + 1) + v.n[2]
    BY <1>1, <1>2, WeightGrows
  <2> QED
    BY <2>1 DEF Rank
<1>3. CASE v.n[1] = w.n[1] /\ v.n[2] < w.n[2]
  <2>1. v.n[1] * (PartMax + 1) \in Nat
    BY <1>1
  <2> QED
    BY <1>1, <1>3, <2>1 DEF Rank
<1> QED
  BY <1>2, <1>3 DEF Outdated

LEMMA NextRegistryTyped ==
  ASSUME NEW r \in Updates
  PROVE  /\ NextRegistry(r) \in Updates
         /\ NextRegistry(r).at = "off" \/ (/\ NextRegistry(r).at = r.at /\ NextRegistry(r).current = r.current
                                           /\ NextRegistry(r).latest = r.latest /\ NextRegistry(r).overtaken = r.overtaken)
<1>1. CASE r.registry < Len(Registries)
  <2>1. r.registry + 1 \in 1..2
    BY <1>1, PartsAre DEF Updates
  <2>2. NextRegistry(r) = [r EXCEPT !.registry = r.registry + 1]
    BY <1>1 DEF NextRegistry, Updates
  <2> QED
    BY <2>1, <2>2 DEF Updates
<1>2. CASE ~(r.registry < Len(Registries))
  BY <1>2, PartsAre DEF NextRegistry
<1> QED
  BY <1>1, <1>2

LEMMA PlannedTyped ==
  ASSUME NEW p \in Updates, NEW v \in BuildVersions
  PROVE  [at |-> "install", current |-> p.current, latest |-> v, registry |-> 1, overtaken |-> p.overtaken] \in Updates
BY DEF Updates

LEMMA PlannedIs ==
  ASSUME NEW p \in Updates, NEW v
  PROVE  [p EXCEPT !.at = "install", !.latest = v, !.registry = 1]
           = [at |-> "install", current |-> p.current, latest |-> v, registry |-> 1, overtaken |-> p.overtaken]
<1>1. /\ DOMAIN p = {"at", "current", "latest", "registry", "overtaken"}
      /\ p = [f \in DOMAIN p |-> p[f]]
  BY DEF Updates
<1> DEFINE r == [p EXCEPT !.at = "install", !.latest = v, !.registry = 1]
<1>2. r = [f \in DOMAIN p |-> IF f = "registry" THEN 1 ELSE IF f = "latest" THEN v ELSE IF f = "at" THEN "install" ELSE p[f]]
  BY <1>1
<1> HIDE DEF r
<1>3. r = [at |-> "install", current |-> p.current, latest |-> v, registry |-> 1, overtaken |-> p.overtaken]
  BY <1>1, <1>2
<1> QED
  BY <1>3 DEF r

\* Steps of the doctor and of the machine leave the updates alone; a version that is published
\* changes no update under way.
UpdatesInv == UpdatesTyped /\ UpdateKnows

LEMMA UpdateMoves ==
  ASSUME UpdatesInv, NEW u \in Updaters, NEW r \in Updates, update' = [update EXCEPT ![u] = r],
         UNCHANGED <<published, installed>>,
         r.at # "off" /\ ~r.overtaken => r.current = installed,
         r.at = "install" => Outdated(r.current, r.latest)
  PROVE  UpdatesInv'
<1>1. update' \in [Updaters -> Updates] /\ update'[u] = r /\ \A v \in Updaters : v # u => update'[v] = update[v]
  BY DEF UpdatesInv, UpdatesTyped
<1> QED
  BY <1>1 DEF UpdatesInv, UpdatesTyped, UpdateKnows

LEMMA UpdatesStay ==
  ASSUME UpdatesInv, UpkeepNext
  PROVE  UpdatesInv'
<1>0. \A u \in Updaters : update[u] \in Updates
  BY DEF UpdatesInv, UpdatesTyped
<1>1. ASSUME NEW u \in Updaters, StartUpdate(u) PROVE UpdatesInv'
  <2> DEFINE r == [NoUpdate EXCEPT !.at = "plan", !.current = installed]
  <2>1. r \in Updates /\ r.at = "plan" /\ r.current = installed
    BY PartsAre DEF NoUpdate, Updates, UpdatesInv, UpdatesTyped
  <2>2. update' = [update EXCEPT ![u] = r] /\ UNCHANGED <<published, installed>>
    BY <1>1 DEF StartUpdate, Moves
  <2> HIDE DEF r
  <2> QED
    BY <2>1, <2>2, UpdateMoves
<1>2. ASSUME NEW u \in Updaters, LookupFails(u) \/ InstallFails(u) PROVE UpdatesInv'
  <2> DEFINE r == NextRegistry(update[u])
  <2>1. update' = [update EXCEPT ![u] = r] /\ UNCHANGED <<published, installed>>
    BY <1>2 DEF LookupFails, InstallFails, Moves
  <2>2. /\ r \in Updates
        /\ r.at = "off" \/ (/\ r.at = update[u].at /\ r.current = update[u].current
                            /\ r.latest = update[u].latest /\ r.overtaken = update[u].overtaken)
    BY <1>0, NextRegistryTyped
  <2> HIDE DEF r
  <2>3. r.at # "off" /\ ~r.overtaken => r.current = installed
    BY <2>2 DEF UpdatesInv, UpdateKnows
  <2>4. r.at = "install" => Outdated(r.current, r.latest)
    BY <2>2 DEF UpdatesInv, UpdateKnows
  <2> QED
    BY <2>1, <2>2, <2>3, <2>4, UpdateMoves
<1>3. ASSUME NEW u \in Updaters, PlanUpdate(u) PROVE UpdatesInv'
  <2> DEFINE latest == published[update[u].registry]
             r == [update[u] EXCEPT !.at = "install", !.latest = latest, !.registry = 1]
  <2>0. UNCHANGED <<published, installed>> /\ update[u].at = "plan"
    BY <1>3 DEF PlanUpdate, UpdateAt
  <2>1. latest \in BuildVersions
    BY <1>0 DEF UpdatesInv, UpdatesTyped, Updates
  <2>2. CASE Outdated(update[u].current, latest)
    <3>1. update' = [update EXCEPT ![u] = r]
      BY <1>3, <2>2 DEF PlanUpdate, Moves
    <3>0. r = [at |-> "install", current |-> update[u].current, latest |-> latest, registry |-> 1, overtaken |-> update[u].overtaken]
      BY <1>0, PlannedIs
    <3> HIDE DEF latest
    <3>2. r \in Updates
      BY <1>0, <2>1, <3>0, PlannedTyped
    <3> HIDE DEF r
    <3>4. r.current = update[u].current /\ r.latest = latest /\ r.overtaken = update[u].overtaken
      BY <3>0
    <3>3. ~r.overtaken => r.current = installed
      BY <2>0, <3>4 DEF UpdatesInv, UpdateKnows
    <3> QED
      BY <2>0, <2>2, <3>1, <3>2, <3>3, <3>4, UpdateMoves
  <2>3. CASE ~Outdated(update[u].current, latest)
    <3>1. update' = [update EXCEPT ![u] = NoUpdate]
      BY <1>3, <2>3 DEF PlanUpdate, Moves
    <3> QED
      BY <2>0, <3>1, PartsAre, UpdateMoves
  <2> QED
    BY <2>2, <2>3
<1>4. ASSUME NEW u \in Updaters, InstallUpdate(u) PROVE UpdatesInv'
  <2>1. installed' \in BuildVersions /\ UNCHANGED published
    BY <1>0, <1>4 DEF InstallUpdate, Updates
  <2>2. \A v \in Updaters : update'[v] = IF v = u THEN NoUpdate ELSE [update[v] EXCEPT !.overtaken = update[v].at # "off"]
    BY <1>4 DEF InstallUpdate
  <2>3. \A r \in Updates : /\ [r EXCEPT !.overtaken = r.at # "off"] \in Updates
                           /\ [r EXCEPT !.overtaken = r.at # "off"].at = r.at
                           /\ [r EXCEPT !.overtaken = r.at # "off"].current = r.current
                           /\ [r EXCEPT !.overtaken = r.at # "off"].latest = r.latest
                           /\ r.at # "off" => [r EXCEPT !.overtaken = r.at # "off"].overtaken
    BY DEF Updates
  <2>4. update' \in [Updaters -> Updates]
    <3>1. update' = [v \in Updaters |-> IF v = u THEN NoUpdate ELSE [update[v] EXCEPT !.overtaken = update[v].at # "off"]]
      BY <1>4 DEF InstallUpdate
    <3> QED
      BY <1>0, <2>3, <3>1, PartsAre
  <2>5. ASSUME NEW v \in Updaters
        PROVE  /\ update'[v].at # "off" /\ ~update'[v].overtaken => update'[v].current = installed'
               /\ update'[v].at = "install" => Outdated(update'[v].current, update'[v].latest)
    <3>1. CASE v = u
      BY <2>2, <3>1, PartsAre
    <3>2. CASE v # u
      <4>1. /\ update'[v].at = update[v].at /\ update'[v].current = update[v].current
            /\ update'[v].latest = update[v].latest /\ (update[v].at # "off" => update'[v].overtaken)
        BY <1>0, <2>2, <2>3, <3>2
      <4> QED
        BY <4>1 DEF UpdatesInv, UpdateKnows
    <3> QED
      BY <3>1, <3>2
  <2> QED
    BY <2>1, <2>4, <2>5 DEF UpdatesInv, UpdatesTyped, UpdateKnows
<1>5. CASE Publish
  <2>1. published' \in [1..2 -> BuildVersions]
    <3>1. published[1] \in BuildVersions /\ published[2] \in BuildVersions
      BY DEF UpdatesInv, UpdatesTyped
    <3> QED
      BY <1>5, <3>1 DEF Publish
  <2> QED
    BY <1>5, <2>1 DEF Publish, UpdatesInv, UpdatesTyped, UpdateKnows
<1>6. CASE StartDoctor \/ InspectSchedule \/ AskLatest \/ AskToken \/ AskTargets \/ Judge \/ MachineChanges
  BY <1>6 DEF StartDoctor, InspectSchedule, AskLatest, AskToken, AskTargets, Judge, MachineChanges, UpdatesInv, UpdatesTyped, UpdateKnows
<1> QED
  BY <1>1, <1>2, <1>3, <1>4, <1>5, <1>6 DEF UpkeepNext

LEMMA UpdatesStart == UpkeepInit => UpdatesInv
<1>1. UpkeepInit => UpdatesTyped
  BY PartsAre DEF UpkeepInit, UpdatesTyped
<1>2. UpkeepInit => UpdateKnows
  BY PartsAre DEF UpkeepInit, UpdateKnows
<1> QED
  BY <1>1, <1>2 DEF UpdatesInv

\* For any updates that overlap and any registries: unless another one has landed meanwhile,
\* what an update installs is above what was installed (planUpdate, installUpdate).
THEOREM UpdatesGoUp == UpkeepSpec => NeverDowngrades
<1>1. ASSUME UpdatesInv, UpkeepNext, installed' # installed
      PROVE  \/ \E u \in Updaters : update[u].overtaken /\ update'[u].at = "off"
             \/ Rank(installed') > Rank(installed)
  <2>1. PICK u \in Updaters : InstallUpdate(u)
    BY <1>1 DEF UpkeepNext, StartUpdate, LookupFails, PlanUpdate, InstallFails, StartDoctor, InspectSchedule, AskLatest, AskToken,
                AskTargets, Judge, Publish, MachineChanges
  <2>2. update[u] \in Updates /\ update[u].at = "install" /\ installed' = update[u].latest /\ update'[u] = NoUpdate
    BY <1>1, <2>1 DEF UpdatesInv, UpdatesTyped, InstallUpdate, UpdateAt
  <2>3. CASE update[u].overtaken
    BY <2>2, <2>3, PartsAre
  <2>4. CASE ~update[u].overtaken
    <3>1. update[u].current = installed /\ Outdated(update[u].current, update[u].latest)
      BY <1>1, <2>2, <2>4 DEF UpdatesInv, UpdateKnows
    <3>2. installed \in BuildVersions /\ update[u].latest \in BuildVersions
      BY <1>1, <2>2 DEF UpdatesInv, UpdatesTyped, Updates
    <3> QED
      BY <2>2, <3>1, <3>2, OutdatedRanks
  <2> QED
    BY <2>3, <2>4
<1>2. ASSUME UpdatesInv, [UpkeepNext]_upkeepVars
      PROVE  installed' # installed =>
               \/ \E u \in Updaters : update[u].overtaken /\ update'[u].at = "off"
               \/ LET R(v) == v.n[1] * (PartMax + 1) + v.n[2] IN R(installed') > R(installed)
  BY <1>1, <1>2 DEF upkeepVars, Rank
<1>3. UpdatesInv /\ UNCHANGED upkeepVars => UpdatesInv'
  BY DEF upkeepVars, UpdatesInv, UpdatesTyped, UpdateKnows
<1>4. UpkeepSpec => []UpdatesInv
  BY UpdatesStart, UpdatesStay, <1>3, PTL DEF UpkeepSpec
<1> QED
  BY <1>2, <1>4, PTL DEF UpkeepSpec, NeverDowngrades

-----------------------------------------------------------------------------
(* The doctor.                                                             *)

Machines == [profile : {"none", "invalid", "set"}, token : BOOLEAN, enrolled : {"none", "malformed", "foreign", "good"},
             key : BOOLEAN, uuid : BOOLEAN, record : {"none", "malformed", "sound"}, scheduled : BOOLEAN, locked : BOOLEAN,
             log : {"none", "stale", "fresh"}]
Answers == [latest : {"unknown", "same", "newer"}, token : {"unknown", "accepted", "rejected"},
            reachable : {"unknown", "accepted"}]
Verdicts == {<<>>} \cup UNION {[S -> {"pass", "warn", "fail"}] : S \in SUBSET Ids}
Doctors == [at : {"off", "inspect", "latest", "token", "targets", "judge", "done"}, registry : 1..2, local : Machines,
            version : BuildVersions, facts : Answers, offline : BOOLEAN, uninspected : BOOLEAN, verdict : Verdicts,
            good : SUBSET Ids, bad : SUBSET Ids]

DoctorTyped == published \in [1..2 -> BuildVersions] /\ machine \in Machines /\ doctor \in Doctors

\* While it looks, a doctor has seen what is in order now, and what is not.
LooksOn(d, m, latest) ==
    d.at \notin {"off", "done"} =>
      Good(m, d.version, latest) \subseteq d.good /\ Ids \ Good(m, d.version, latest) \subseteq d.bad

\* What a doctor holds of the machine and has learned was so at some time while it looked.
Seen(d) ==
    /\ d.facts.latest = "same" => "version" \in d.good
    /\ d.local.profile = "set" /\ (d.local.token \/ d.facts.token = "accepted") => "assets-profile" \in d.good
    /\ d.local.profile = "invalid" \/ ~d.local.token \/ d.facts.token = "rejected" => "assets-profile" \in d.bad
    /\ d.local.enrolled = "good" => "workstation-credential" \in d.good
    /\ d.local.enrolled = "malformed" => "workstation-credential" \in d.bad
    /\ d.local.enrolled \in {"good", "foreign"} /\ (d.local.key \/ d.facts.reachable = "accepted") => "workstation-api" \in d.good
    /\ d.facts.reachable = "accepted" => d.local.enrolled \in {"good", "foreign"}
    /\ d.local.scheduled => "schedule" \in d.good
    /\ ~d.local.scheduled => "schedule" \in d.bad \/ d.uninspected
    /\ ~d.local.locked => "probe-lock" \in d.good
    /\ d.local.log = "fresh" => "recent-report" \in d.good

Judged(d) == \A c \in DOMAIN d.verdict : /\ d.verdict[c] = "pass" => c \in d.good
                                         /\ d.verdict[c] = "fail" => c \in d.bad \/ (c = "schedule" /\ d.uninspected)

DoctorKnows ==
    /\ LooksOn(doctor, machine, published)
    /\ doctor.at # "off" => Seen(doctor)
    /\ doctor.at = "done" => Judged(doctor)

DoctorInv == DoctorTyped /\ DoctorKnows

LEMMA GoodIs ==
  ASSUME NEW m \in Machines, NEW v, NEW latest
  PROVE  /\ Good(m, v, latest) \subseteq Ids
         /\ "version" \in Good(m, v, latest) <=> \E i \in DOMAIN latest : ~Outdated(v, latest[i])
         /\ "assets-profile" \in Good(m, v, latest) <=> m.profile = "set" /\ m.token
         /\ "workstation-credential" \in Good(m, v, latest) <=> m.enrolled = "good"
         /\ "workstation-api" \in Good(m, v, latest) <=> m.enrolled \in {"good", "foreign"} /\ m.key
         /\ "schedule" \in Good(m, v, latest) <=> m.scheduled
         /\ "probe-lock" \in Good(m, v, latest) <=> ~m.locked
         /\ "recent-report" \in Good(m, v, latest) <=> m.log = "fresh"
BY DEF Good, Ids, Machines

LEMMA AwayIs ==
  /\ Away \in Doctors /\ Away.at = "off" /\ NewMachine \in Machines /\ Away.facts = NoFacts /\ NoFacts \in Answers
  /\ NoFacts.latest = "unknown" /\ NoFacts.token = "unknown" /\ NoFacts.reachable = "unknown"
<1>1. NewMachine \in Machines
  BY DEF NewMachine, Machines
<1>2. NoFacts \in Answers /\ NoFacts.latest = "unknown" /\ NoFacts.token = "unknown" /\ NoFacts.reachable = "unknown"
  BY DEF NoFacts, Answers
<1>3. <<>> \in Verdicts
  BY DEF Verdicts
<1> QED
  BY <1>1, <1>2, <1>3, PartsAre DEF Away, Doctors

\* A run that begins, step by step.
LEMMA DoctorStarts ==
  ASSUME DoctorInv, installed \in BuildVersions, StartDoctor
  PROVE  DoctorInv'
<1> DEFINE good == Good(machine, installed, published)
<1>0. CASE doctor' = Away
  <2>1. UNCHANGED <<published, machine>>
    BY DEF StartDoctor
  <2> QED
    BY <1>0, <2>1, AwayIs DEF DoctorInv, DoctorTyped, DoctorKnows, LooksOn
<1>1. CASE \E offline \in BOOLEAN :
             doctor' = [Away EXCEPT !.at = "inspect", !.offline = offline, !.local = machine, !.version = installed,
                                    !.good = good, !.bad = Ids \ good]
  <2>1. PICK d : /\ doctor' = d /\ UNCHANGED <<published, machine>>
                 /\ \E offline \in BOOLEAN :
                      d = [Away EXCEPT !.at = "inspect", !.offline = offline, !.local = machine, !.version = installed,
                                       !.good = good, !.bad = Ids \ good]
    BY <1>1 DEF StartDoctor
  <2>2. machine \in Machines /\ published \in [1..2 -> BuildVersions]
    BY DEF DoctorInv, DoctorTyped
  <2>3. good \subseteq Ids
    BY <2>2, GoodIs
  <2>4. d \in Doctors /\ d.at = "inspect" /\ d.local = machine /\ d.version = installed /\ d.facts = NoFacts
        /\ d.good = good /\ d.bad = Ids \ good
    <3> HIDE DEF good
    <3> QED
      BY <2>1, <2>2, <2>3, AwayIs DEF Doctors
  <2>5. Seen(d)
    BY <2>2, <2>4, AwayIs, GoodIs DEF Seen, Ids, Machines
  <2>6. LooksOn(d, machine, published)
    BY <2>4 DEF LooksOn
  <2> QED
    BY <2>1, <2>2, <2>4, <2>5, <2>6 DEF DoctorInv, DoctorTyped, DoctorKnows
<1> QED
  BY <1>0, <1>1 DEF StartDoctor

\* The inspection of the schedule, of a machine that the doctor has watched, or one that throws.
LEMMA DoctorInspects ==
  ASSUME DoctorInv, InspectSchedule
  PROVE  DoctorInv'
<1>0. /\ doctor \in Doctors /\ doctor.local \in Machines /\ machine \in Machines /\ published \in [1..2 -> BuildVersions]
      /\ doctor.at = "inspect" /\ UNCHANGED <<published, machine>> /\ Seen(doctor) /\ LooksOn(doctor, machine, published)
  BY DEF DoctorInv, DoctorTyped, DoctorKnows, Doctors, InspectSchedule
<1>1. CASE doctor' = Away
  BY <1>0, <1>1, AwayIs DEF DoctorInv, DoctorTyped, DoctorKnows, LooksOn
<1>2. ASSUME NEW thrown \in BOOLEAN, doctor' = Inspected(doctor, thrown)
      PROVE  DoctorInv'
  <2> DEFINE there == IF thrown THEN FALSE ELSE machine.scheduled
             at == IF doctor.offline THEN "judge" ELSE "latest"
  <2>0. there \in BOOLEAN /\ at \in {"judge", "latest"} /\ (there => machine.scheduled)
        /\ (~there => thrown \/ ~machine.scheduled)
    BY <1>0 DEF Machines
  <2>a. doctor' = [doctor EXCEPT !.at = at, !.uninspected = thrown, !.local.scheduled = there,
                                 !.local.log = machine.log, !.local.locked = machine.locked]
    BY <1>2 DEF Inspected, Uninspected
  <2> HIDE DEF there, at
  <2>1. PICK l : l = [doctor.local EXCEPT !.scheduled = there, !.log = machine.log, !.locked = machine.locked]
    OBVIOUS
  <2>2. /\ l \in Machines /\ l.scheduled = there /\ l.log = machine.log /\ l.locked = machine.locked
        /\ l.profile = doctor.local.profile /\ l.token = doctor.local.token /\ l.key = doctor.local.key
        /\ l.enrolled = doctor.local.enrolled /\ l.record = doctor.local.record
    BY <1>0, <2>0, <2>1 DEF Machines
  <2>3. PICK d : doctor' = d /\ d = [doctor EXCEPT !.at = at, !.uninspected = thrown, !.local = l]
    BY <1>0, <2>0, <2>a, <2>1 DEF Doctors, Machines
  <2>4. d \in Doctors /\ d.at = at /\ d.local = l /\ d.uninspected = thrown /\ d.version = doctor.version
        /\ d.facts = doctor.facts /\ d.good = doctor.good /\ d.bad = doctor.bad
    BY <1>0, <2>0, <2>2, <2>3 DEF Doctors
  <2>5. LooksOn(d, machine, published)
    BY <1>0, <2>4 DEF LooksOn
  <2>6. Good(machine, doctor.version, published) \subseteq doctor.good
        /\ Ids \ Good(machine, doctor.version, published) \subseteq doctor.bad
    BY <1>0 DEF LooksOn
  <2>7. (l.scheduled => "schedule" \in d.good) /\ (~l.scheduled => "schedule" \in d.bad \/ d.uninspected)
    <3>1. machine.scheduled => "schedule" \in Good(machine, doctor.version, published)
      BY <1>0, GoodIs
    <3>2. ~machine.scheduled => "schedule" \in Ids \ Good(machine, doctor.version, published)
      BY <1>0, GoodIs DEF Ids
    <3> QED
      BY <2>0, <2>2, <2>4, <2>6, <3>1, <3>2
  <2>8. (~l.locked => "probe-lock" \in d.good) /\ (l.log = "fresh" => "recent-report" \in d.good)
    BY <1>0, <2>2, <2>4, <2>6, GoodIs
  <2>9. Seen(d)
    BY <1>0, <2>2, <2>4, <2>7, <2>8 DEF Seen
  <2> QED
    BY <1>0, <2>0, <2>3, <2>4, <2>5, <2>9 DEF DoctorInv, DoctorTyped, DoctorKnows
<1> QED
  BY <1>1, <1>2 DEF InspectSchedule

\* What a doctor learns, it has grounds for.
LEMMA DoctorLearns ==
  ASSUME DoctorInv, NEW next \in {"token", "targets", "judge"}, NEW facts \in Answers, Learns(next, facts),
         UNCHANGED <<published, machine>>, doctor.at \notin {"off", "done"},
         facts.latest = "same" => doctor.facts.latest = "same" \/ "version" \in doctor.good,
         facts.token = doctor.facts.token \/ (facts.token = "accepted" /\ doctor.local.token)
           \/ (facts.token = "rejected" /\ ~doctor.local.token) \/ facts.token = "unknown",
         facts.reachable = doctor.facts.reachable \/ facts.reachable = "unknown"
           \/ (doctor.local.key /\ doctor.local.enrolled \in {"good", "foreign"})
  PROVE  DoctorInv'
<1>1. PICK d : doctor' = d /\ d = [doctor EXCEPT !.at = next, !.facts = facts]
  BY DEF Learns
<1>2. doctor \in Doctors /\ machine \in Machines /\ published \in [1..2 -> BuildVersions]
      /\ LooksOn(doctor, machine, published) /\ Seen(doctor)
  BY DEF DoctorInv, DoctorTyped, DoctorKnows
<1>3. d \in Doctors /\ d.at = next /\ d.facts = facts /\ d.local = doctor.local /\ d.version = doctor.version
      /\ d.good = doctor.good /\ d.bad = doctor.bad /\ d.uninspected = doctor.uninspected
  BY <1>1, <1>2 DEF Doctors
<1>4. LooksOn(d, machine, published)
  BY <1>2, <1>3 DEF LooksOn
<1>5. Seen(d)
  <2>1. d.facts.latest = "same" => "version" \in d.good
    BY <1>2, <1>3 DEF Seen
  <2>2. d.local.profile = "set" /\ (d.local.token \/ d.facts.token = "accepted") => "assets-profile" \in d.good
    BY <1>2, <1>3 DEF Seen
  <2>3. d.local.profile = "invalid" \/ ~d.local.token \/ d.facts.token = "rejected" => "assets-profile" \in d.bad
    BY <1>2, <1>3 DEF Seen
  <2>4. d.local.enrolled \in {"good", "foreign"} /\ (d.local.key \/ d.facts.reachable = "accepted") => "workstation-api" \in d.good
    BY <1>2, <1>3 DEF Seen
  <2>5. d.facts.reachable = "accepted" => d.local.enrolled \in {"good", "foreign"}
    BY <1>2, <1>3 DEF Seen
  <2> QED
    BY <1>2, <1>3, <2>1, <2>2, <2>3, <2>4, <2>5 DEF Seen
<1> QED
  BY <1>1, <1>2, <1>3, <1>4, <1>5 DEF DoctorInv, DoctorTyped, DoctorKnows

LEMMA DoctorAsks ==
  ASSUME DoctorInv, AskLatest \/ AskToken \/ AskTargets
  PROVE  DoctorInv'
<1>0. doctor \in Doctors /\ machine \in Machines /\ published \in [1..2 -> BuildVersions] /\ doctor.facts \in Answers
      /\ doctor.local \in Machines
  BY DEF DoctorInv, DoctorTyped, Doctors
<1>9. \A f \in Answers, x \in {"unknown", "same", "newer"} : /\ [f EXCEPT !.latest = x] \in Answers
                                    /\ [f EXCEPT !.latest = x].latest = x /\ [f EXCEPT !.latest = x].token = f.token
                                    /\ [f EXCEPT !.latest = x].reachable = f.reachable
  BY DEF Answers
<1>8. \A f \in Answers, x \in {"unknown", "accepted", "rejected"} : /\ [f EXCEPT !.token = x] \in Answers
                                    /\ [f EXCEPT !.token = x].token = x /\ [f EXCEPT !.token = x].latest = f.latest
                                    /\ [f EXCEPT !.token = x].reachable = f.reachable
  BY DEF Answers
<1>7. \A f \in Answers, x \in {"unknown", "accepted"} : /\ [f EXCEPT !.reachable = x] \in Answers
                                    /\ [f EXCEPT !.reachable = x].reachable = x /\ [f EXCEPT !.reachable = x].latest = f.latest
                                    /\ [f EXCEPT !.reachable = x].token = f.token
  BY DEF Answers
<1>1. CASE AskLatest
  <2> DEFINE newer == Outdated(doctor.version, published[doctor.registry])
             x == IF newer THEN "newer" ELSE "same"
             f == [doctor.facts EXCEPT !.latest = x]
  <2>0. doctor.at = "latest" /\ UNCHANGED <<published, machine>>
    BY <1>1 DEF AskLatest, DoctorAt
  <2>1. CASE Learns("token", f)
    <3>1. f \in Answers /\ f.latest = x /\ f.token = doctor.facts.token /\ f.reachable = doctor.facts.reachable
      <4>1. x \in {"unknown", "same", "newer"}
        OBVIOUS
      <4> HIDE DEF x
      <4> QED
        BY <1>0, <1>9, <4>1
    <3>2. x = "same" => "version" \in doctor.good
      <4>1. doctor.registry \in DOMAIN published
        BY <1>0 DEF Doctors
      <4>2. Good(machine, doctor.version, published) \subseteq doctor.good
        BY <2>0 DEF DoctorInv, DoctorKnows, LooksOn
      <4> QED
        BY <1>0, <4>1, <4>2, GoodIs
    <3> HIDE DEF f, x
    <3> QED
      BY <2>0, <2>1, <3>1, <3>2, DoctorLearns
  <2>2. CASE Learns("token", doctor.facts)
    BY <1>0, <2>0, <2>2, DoctorLearns
  <2>3. CASE doctor.registry < Len(Registries) /\ doctor' = [doctor EXCEPT !.registry = doctor.registry + 1]
    <3>1. PICK d : doctor' = d /\ d = [doctor EXCEPT !.registry = doctor.registry + 1]
      BY <2>3
    <3>2. doctor.registry + 1 \in 1..2
      BY <1>0, <2>3, PartsAre DEF Doctors
    <3>3. d \in Doctors /\ d.at = doctor.at /\ d.facts = doctor.facts /\ d.local = doctor.local /\ d.version = doctor.version
          /\ d.good = doctor.good /\ d.bad = doctor.bad /\ d.uninspected = doctor.uninspected
      BY <1>0, <3>1, <3>2 DEF Doctors
    <3> QED
      BY <1>0, <2>0, <3>1, <3>3 DEF DoctorInv, DoctorTyped, DoctorKnows, LooksOn, Seen
  <2>4. doctor.registry < Len(Registries) =>
          doctor' = [doctor EXCEPT !.registry = doctor.registry + 1] \/ Learns("token", f)
    BY <1>1 DEF AskLatest
  <2>5. ~(doctor.registry < Len(Registries)) => Learns("token", doctor.facts) \/ Learns("token", f)
    BY <1>1 DEF AskLatest
  <2> QED
    BY <2>1, <2>2, <2>3, <2>4, <2>5
<1>2. CASE AskToken
  <2>0. doctor.at = "token" /\ UNCHANGED <<published, machine>>
    BY <1>2 DEF AskToken, DoctorAt
  <2>1. CASE Learns("targets", doctor.facts)
    BY <1>0, <2>0, <2>1, DoctorLearns
  <2>2. ASSUME NEW x \in {IF doctor.local.token THEN "accepted" ELSE "rejected", "unknown"},
               Learns("targets", [doctor.facts EXCEPT !.token = x])
        PROVE  DoctorInv'
    <3> DEFINE f == [doctor.facts EXCEPT !.token = x]
    <3>1. f \in Answers /\ f.token = x /\ f.latest = doctor.facts.latest /\ f.reachable = doctor.facts.reachable
      <4>1. x \in {"unknown", "accepted", "rejected"}
        BY <2>2
      <4> QED
        BY <1>0, <1>8, <4>1
    <3>2. Learns("targets", f)
      BY <2>2
    <3> HIDE DEF f
    <3> QED
      BY <2>0, <2>2, <3>1, <3>2, DoctorLearns
  <2> QED
    BY <1>2, <2>1, <2>2 DEF AskToken, Unverified
<1>3. CASE AskTargets
  <2>0. doctor.at = "targets" /\ UNCHANGED <<published, machine>>
    BY <1>3 DEF AskTargets, DoctorAt
  <2>1. CASE Learns("judge", doctor.facts)
    BY <1>0, <2>0, <2>1, DoctorLearns
  <2>2. ASSUME NEW x \in {"unknown", "accepted"}, Learns("judge", [doctor.facts EXCEPT !.reachable = x]),
               x = "accepted" => doctor.local.key /\ doctor.local.enrolled \in {"good", "foreign"}
        PROVE  DoctorInv'
    <3> DEFINE f == [doctor.facts EXCEPT !.reachable = x]
    <3>1. f \in Answers /\ f.reachable = x /\ f.latest = doctor.facts.latest /\ f.token = doctor.facts.token
      BY <1>0, <1>7, <2>2
    <3>2. Learns("judge", f)
      BY <2>2
    <3> HIDE DEF f
    <3> QED
      BY <2>0, <2>2, <3>1, <3>2, DoctorLearns
  <2>3. doctor.local.enrolled \in {"none", "malformed", "foreign", "good"}
    BY <1>0 DEF Machines
  <2>4. doctor.local.enrolled = "none" => Learns("judge", doctor.facts)
    BY <1>3 DEF AskTargets
  <2>5. doctor.local.enrolled # "none" =>
          \E x \in {"unknown", "accepted"} : /\ Learns("judge", [doctor.facts EXCEPT !.reachable = x])
                                             /\ x = "accepted" => doctor.local.key /\ doctor.local.enrolled # "malformed"
    BY <1>3 DEF AskTargets
  <2> QED
    BY <2>1, <2>2, <2>3, <2>4, <2>5
<1> QED
  BY <1>1, <1>2, <1>3

LEMMA VerdictsHaveGrounds ==
  ASSUME NEW d \in Doctors, Seen(d), NEW c \in DOMAIN RunChecks(d.local, d.facts)
  PROVE  /\ c \in Ids /\ RunChecks(d.local, d.facts)[c] \in {"pass", "warn", "fail"}
         /\ RunChecks(d.local, d.facts)[c] = "pass" => c \in d.good
         /\ RunChecks(d.local, d.facts)[c] = "fail" => c \in d.bad \/ (c = "schedule" /\ d.uninspected)
<1> DEFINE l == d.local
           f == d.facts
           v == RunChecks(l, f)[c]
<1>0. l \in Machines /\ f \in Answers
  BY DEF Doctors
<1>1. c \in Ids /\ (l.enrolled = "none" => c # "workstation-api") /\ (l.log = "none" => c # "recent-report")
  BY DEF RunChecks, JudgeOne
<1>2. CASE c = "version"
  <2>1. v = JudgeVersion(f)
    BY <1>2 DEF RunChecks, JudgeOne
  <2> QED
    BY <1>1, <1>2, <2>1 DEF Seen, JudgeVersion
<1>3. CASE c = "assets-profile"
  <2>1. v = JudgeProfile(l, f)
    BY <1>3 DEF RunChecks, JudgeOne
  <2>2. l.profile = "none" => v = "warn"
    BY <2>1 DEF JudgeProfile
  <2>3. l.profile = "invalid" => v = "fail"
    BY <2>1 DEF JudgeProfile
  <2>4. l.profile = "set" => v = IF f.token = "accepted" THEN "pass" ELSE IF f.token = "rejected" THEN "fail" ELSE "warn"
    BY <2>1 DEF JudgeProfile
  <2>5. l.profile \in {"none", "invalid", "set"}
    BY <1>0 DEF Machines
  <2> HIDE DEF v
  <2>6. v \in {"pass", "warn", "fail"} /\ (v = "pass" => "assets-profile" \in d.good) /\ (v = "fail" => "assets-profile" \in d.bad)
    BY <2>2, <2>3, <2>4, <2>5 DEF Seen
  <2> QED
    BY <1>1, <1>3, <2>6 DEF v
<1>4. CASE c = "workstation-credential"
  <2>1. v = JudgeCredential(l)
    BY <1>4 DEF RunChecks, JudgeOne
  <2> QED
    BY <1>1, <1>4, <2>1 DEF Seen, JudgeCredential
<1>5. CASE c = "workstation-api"
  <2>1. v = JudgeApi(f)
    BY <1>1, <1>5 DEF RunChecks, JudgeOne
  <2> QED
    BY <1>1, <1>5, <2>1 DEF Seen, JudgeApi
<1>6. CASE c = "schedule"
  <2>1. v = JudgeSchedule(l)
    BY <1>6 DEF RunChecks, JudgeOne
  <2> QED
    BY <1>1, <1>6, <2>1 DEF Seen, JudgeSchedule
<1>7. CASE c = "probe-lock"
  <2>1. v = IF l.locked THEN "warn" ELSE "pass"
    BY <1>7 DEF RunChecks, JudgeOne
  <2> QED
    BY <1>1, <1>7, <2>1 DEF Seen
<1>8. CASE c = "recent-report"
  <2>1. v = IF l.log = "stale" THEN "warn" ELSE "pass"
    BY <1>1, <1>8 DEF RunChecks, JudgeOne
  <2>2. l.log \in {"stale", "fresh"}
    BY <1>0, <1>1, <1>8 DEF Machines
  <2> QED
    BY <1>1, <1>8, <2>1, <2>2 DEF Seen
<1> QED
  BY <1>1, <1>2, <1>3, <1>4, <1>5, <1>6, <1>7, <1>8 DEF Ids

LEMMA DoctorJudges ==
  ASSUME DoctorInv, Judge
  PROVE  DoctorInv'
<1> DEFINE v == RunChecks(doctor.local, doctor.facts)
<1>0. doctor \in Doctors /\ Seen(doctor) /\ UNCHANGED <<published, machine>> /\ machine \in Machines
      /\ published \in [1..2 -> BuildVersions]
  BY DEF DoctorInv, DoctorTyped, DoctorKnows, Judge, DoctorAt
<1>1. /\ \A c \in DOMAIN v : c \in Ids /\ v[c] \in {"pass", "warn", "fail"}
      /\ \A c \in DOMAIN v : /\ v[c] = "pass" => c \in doctor.good
                             /\ v[c] = "fail" => c \in doctor.bad \/ (c = "schedule" /\ doctor.uninspected)
  BY <1>0, VerdictsHaveGrounds
<1>2. v = [c \in DOMAIN v |-> v[c]]
  BY DEF RunChecks
<1> HIDE DEF v
<1>3. v \in Verdicts
  <2>1. DOMAIN v \in SUBSET Ids /\ v \in [DOMAIN v -> {"pass", "warn", "fail"}]
    BY <1>1, <1>2
  <2> QED
    BY <2>1 DEF Verdicts
<1>4. PICK d : doctor' = d /\ d = [doctor EXCEPT !.at = "done", !.verdict = v]
  BY DEF Judge, v
<1>5. d \in Doctors /\ d.at = "done" /\ d.verdict = v /\ d.facts = doctor.facts /\ d.local = doctor.local
      /\ d.good = doctor.good /\ d.bad = doctor.bad /\ d.uninspected = doctor.uninspected
  BY <1>0, <1>3, <1>4 DEF Doctors
<1>6. Judged(d)
  <2>1. SUFFICES ASSUME NEW c \in DOMAIN d.verdict
                 PROVE  /\ d.verdict[c] = "pass" => c \in d.good
                        /\ d.verdict[c] = "fail" => c \in d.bad \/ (c = "schedule" /\ d.uninspected)
    BY DEF Judged
  <2>2. c \in DOMAIN v
    BY <1>5, <2>1
  <2>3. (v[c] = "pass" => c \in doctor.good) /\ (v[c] = "fail" => c \in doctor.bad \/ (c = "schedule" /\ doctor.uninspected))
    BY <1>1, <2>2
  <2> QED
    BY <1>5, <2>3
<1>7. Seen(d) /\ LooksOn(d, machine, published)
  BY <1>0, <1>5 DEF Seen, LooksOn
<1> QED
  BY <1>0, <1>4, <1>5, <1>6, <1>7 DEF DoctorInv, DoctorTyped, DoctorKnows

\* The machine and the registries change under a doctor, who has then seen that too.
LEMMA DoctorWatches ==
  ASSUME DoctorInv, NEW m \in Machines, NEW latest \in [1..2 -> BuildVersions],
         machine' = m, published' = latest, doctor' = Watched(m, latest)
  PROVE  DoctorInv'
<1>0. doctor \in Doctors /\ doctor.local \in Machines
  BY DEF DoctorInv, DoctorTyped, Doctors
<1>1. CASE doctor.at \in {"off", "done"}
  BY <1>0, <1>1 DEF Watched, DoctorInv, DoctorTyped, DoctorKnows, LooksOn
<1>2. CASE doctor.at \notin {"off", "done"}
  <2> DEFINE good == Good(m, doctor.version, latest)
             token == doctor.local.token /\ m.token
             key == doctor.local.key /\ m.key
             local == [doctor.local EXCEPT !.token = token, !.key = key]
  <2>1. /\ local \in Machines /\ local.token = token /\ local.key = key /\ local.profile = doctor.local.profile
        /\ local.enrolled = doctor.local.enrolled /\ local.record = doctor.local.record
        /\ local.scheduled = doctor.local.scheduled
        /\ local.locked = doctor.local.locked /\ local.log = doctor.local.log
    BY <1>0 DEF Machines
  <2>2. good \subseteq Ids /\ ("assets-profile" \in good <=> m.profile = "set" /\ m.token)
    BY GoodIs
  <2>3. PICK d : doctor' = d /\ d = [doctor EXCEPT !.local = local, !.good = doctor.good \cup good, !.bad = doctor.bad \cup (Ids \ good)]
    <3>1. doctor' = [doctor EXCEPT !.local.token = token, !.local.key = key, !.good = doctor.good \cup good,
                                   !.bad = doctor.bad \cup (Ids \ good)]
      BY <1>2 DEF Watched
    <3> HIDE DEF good, token, key
    <3> QED
      BY <1>0, <3>1 DEF Doctors, Machines
  <2> HIDE DEF good, token, key, local
  <2>4. d \in Doctors /\ d.at = doctor.at /\ d.local = local /\ d.version = doctor.version /\ d.facts = doctor.facts
        /\ d.good = doctor.good \cup good /\ d.bad = doctor.bad \cup (Ids \ good) /\ d.uninspected = doctor.uninspected
    BY <1>0, <2>1, <2>2, <2>3 DEF Doctors
  <2>5. LooksOn(d, m, latest)
    BY <2>4 DEF LooksOn, good
  <2>6. Seen(d)
    <3>1. Seen(doctor)
      BY <1>2 DEF DoctorInv, DoctorKnows
    <3>2. (d.local.token => doctor.local.token) /\ (d.local.key => doctor.local.key)
      BY <2>1, <2>4 DEF token, key
    <3>3. ~d.local.token => "assets-profile" \in d.bad
      <4>1. CASE ~doctor.local.token
        BY <2>4, <3>1, <4>1 DEF Seen
      <4>2. CASE ~m.token
        BY <2>2, <2>4, <4>2 DEF Ids
      <4> QED
        BY <2>1, <2>4, <4>1, <4>2 DEF token
    <3> QED
      BY <2>1, <2>4, <3>1, <3>2, <3>3 DEF Seen
  <2> QED
    BY <1>2, <2>3, <2>4, <2>5, <2>6 DEF DoctorInv, DoctorTyped, DoctorKnows
<1> QED
  BY <1>1, <1>2

LEMMA DoctorStays ==
  ASSUME UpdatesInv, DoctorInv, UpkeepNext
  PROVE  DoctorInv'
<1>1. CASE \E u \in Updaters : StartUpdate(u) \/ LookupFails(u) \/ PlanUpdate(u) \/ InstallUpdate(u) \/ InstallFails(u)
  <2>1. UNCHANGED <<published, machine, doctor>>
    BY <1>1 DEF StartUpdate, LookupFails, PlanUpdate, InstallUpdate, InstallFails
  <2> QED
    BY <2>1 DEF DoctorInv, DoctorTyped, DoctorKnows
<1>2. CASE StartDoctor
  BY <1>2, DoctorStarts DEF UpdatesInv, UpdatesTyped
<1>3. CASE Publish
  <2>1. published' \in [1..2 -> BuildVersions]
    BY <1>3, UpdatesStay DEF UpdatesInv, UpdatesTyped
  <2>2. machine' = machine /\ machine \in Machines /\ doctor' = Watched(machine, published')
    BY <1>3 DEF Publish, DoctorInv, DoctorTyped
  <2> QED
    BY <2>1, <2>2, DoctorWatches
<1>4. CASE MachineChanges
  <2>1. machine \in Machines /\ published \in [1..2 -> BuildVersions]
    BY DEF DoctorInv, DoctorTyped
  <2>2. \A m \in Machines :
          /\ \A p \in {"none", "invalid", "set"} : [m EXCEPT !.profile = p] \in Machines
          /\ \A e \in {"none", "malformed", "foreign", "good"} : [m EXCEPT !.enrolled = e] \in Machines
          /\ \A x \in {"none", "malformed", "sound"} : [m EXCEPT !.record = x] \in Machines
          /\ \A x \in {"none", "stale", "fresh"} : [m EXCEPT !.log = x] \in Machines
          /\ \A b \in BOOLEAN : /\ [m EXCEPT !.token = b] \in Machines /\ [m EXCEPT !.key = b] \in Machines
                                /\ [m EXCEPT !.locked = b] \in Machines /\ [m EXCEPT !.scheduled = b] \in Machines
                                /\ [m EXCEPT !.uuid = b] \in Machines
    BY DEF Machines
  <2>3. machine' \in Machines
    <3>1. machine.token \in BOOLEAN /\ machine.key \in BOOLEAN /\ machine.locked \in BOOLEAN
          /\ machine.scheduled \in BOOLEAN /\ machine.uuid \in BOOLEAN
      BY <2>1 DEF Machines
    <3>2. PICK p \in {"none", "invalid", "set"}, e \in {"none", "malformed", "foreign", "good"},
               r \in {"none", "malformed", "sound"}, x \in {"none", "stale", "fresh"} :
            machine' \in {[machine EXCEPT !.profile = p], [machine EXCEPT !.enrolled = e], [machine EXCEPT !.record = r],
                          [machine EXCEPT !.log = x], [machine EXCEPT !.token = ~machine.token],
                          [machine EXCEPT !.key = ~machine.key], [machine EXCEPT !.locked = ~machine.locked],
                          [machine EXCEPT !.scheduled = ~machine.scheduled], [machine EXCEPT !.uuid = ~machine.uuid]}
      BY <1>4 DEF MachineChanges
    <3> QED
      BY <2>1, <2>2, <3>1, <3>2
  <2>4. published' = published /\ doctor' = Watched(machine', published)
    BY <1>4 DEF MachineChanges
  <2> QED
    BY <2>1, <2>3, <2>4, DoctorWatches
<1> QED
  BY <1>1, <1>2, <1>3, <1>4, DoctorInspects, DoctorAsks, DoctorJudges DEF UpkeepNext

LEMMA DoctorStart == UpkeepInit => DoctorInv
<1>1. UpkeepInit => DoctorTyped
  BY AwayIs, PartsAre DEF UpkeepInit, DoctorTyped
<1>2. UpkeepInit => DoctorKnows
  BY AwayIs DEF UpkeepInit, DoctorKnows, LooksOn
<1> QED
  BY <1>1, <1>2 DEF DoctorInv

\* Whatever fails and whatever changes while the doctor looks, a check that it passes was in
\* order at some time, and one that it fails was not, or is that of a schedule that it could not
\* inspect (runDoctorCommand, gatherFacts, runChecks).
THEOREM DoctorStaysHonest == UpkeepSpec => []DoctorHonest
<1>1. UpdatesInv /\ DoctorInv /\ UNCHANGED upkeepVars => UpdatesInv' /\ DoctorInv'
  BY DEF upkeepVars, UpdatesInv, UpdatesTyped, UpdateKnows, DoctorInv, DoctorTyped, DoctorKnows
<1>2. DoctorInv => DoctorHonest
  BY DEF DoctorInv, DoctorKnows, Judged, DoctorHonest, NoFabricatedPass, FailsForCause, DoctorAt, ExitCode
<1> QED
  BY UpdatesStart, UpdatesStay, DoctorStart, DoctorStays, <1>1, <1>2, PTL DEF UpkeepSpec

-----------------------------------------------------------------------------
(****************************************************************************)
(* ReleaseTrain, for any files, versions and runs.                          *)
(****************************************************************************)

Commit == [files : [VersionFiles -> Versions], notes : SUBSET Nat, release : BOOLEAN]
TagRow == [version : Versions, of : Nat, alone : BOOLEAN]
RunStage == {"off", "bump", "notes", "commit", "push", "resolve", "ci", "tag", "pushTags"}
ReleaseRun == [at : RunStage, current : Versions, new : Versions, since : Nat, todo : SUBSET VersionFiles,
               failures : Nat, sha : Nat, alone : BOOLEAN]

ReleaseTyped ==
    /\ branch \in Seq(Commit) /\ branch # <<>>
    /\ tree \in [files : [VersionFiles -> Versions], notes : SUBSET Nat]
    /\ ci \in Seq({"none", "running", "passed", "failed"}) /\ Len(ci) = Len(branch)
    /\ tags \subseteq TagRow /\ tags # {} /\ \A t \in tags : t.of \in 1..Tip
    /\ script \in ReleaseRun

\* Later tags are higher, and no tag is above what HEAD carries.
TagsClimb ==
    /\ \A t, u \in tags : t.of < u.of => Below(t.version, u.version)
    /\ \A t \in tags : ~Below(branch[Tip].files[PackageJson], t.version)

TagsStand == TagsAreProven /\ TaggedFilesAgree /\ NotesComplete /\ TagsClimb

\* A run knows the tag before it, and its version is above every tag.
RunStarted(s) ==
    s.at \notin {"off", "pushTags"} =>
        /\ \E t \in tags : t.of = s.since
        /\ \A t \in tags : t.of <= s.since /\ Below(t.version, s.new)

\* What has been bumped carries the new version, and the notes cover what HEAD has since.
RunPrepared(s) ==
    /\ s.at = "bump" /\ s.failures = 0 => \A f \in VersionFiles \ s.todo : tree.files[f] = s.new
    /\ s.at \in {"notes", "commit"} => \A f \in VersionFiles : tree.files[f] = s.new
    /\ s.at = "commit" /\ s.alone => tree.notes = {c \in (s.since + 1)..Tip : ~branch[c].release}

\* HEAD carries the new version, and is the commit of the release as long as nobody commits
\* beside the script.
RunCommitted(s) ==
    s.at \in {"push", "resolve", "ci", "tag"} =>
        /\ s.since < Tip /\ \A f \in VersionFiles : branch[Tip].files[f] = s.new
        /\ s.alone => branch[Tip].release /\ branch[Tip].notes = {c \in (s.since + 1)..(Tip - 1) : ~branch[c].release}

RunProven(s) ==
    /\ s.at \in {"ci", "tag"} => s.sha \in 1..Tip /\ (s.alone => s.sha = Tip)
    /\ s.at = "tag" => ci[s.sha] = "passed"

RunKnows(s) == RunStarted(s) /\ RunPrepared(s) /\ RunCommitted(s) /\ RunProven(s)

ReleaseInv == ReleaseTyped /\ TagsStand /\ RunKnows(script)

LEMMA VersionsAre ==
  /\ FirstVersion \in Versions /\ VersionMax \in Nat /\ Versions \subseteq Nat \X Nat \X Nat
  /\ PackageJson \in VersionFiles /\ Off \in ReleaseRun /\ Off.at = "off"
<1>1. FirstVersion \in Versions /\ VersionMax \in Nat /\ PackageJson \in VersionFiles
  BY ReleaseAssumption DEF FirstVersion, Versions
<1>2. Versions \subseteq Nat \X Nat \X Nat
  BY <1>1 DEF Versions
<1> QED
  BY <1>1, <1>2 DEF Off, ReleaseRun, RunStage

LEMMA BelowOrders ==
  ASSUME NEW a \in Versions, NEW b \in Versions, NEW c \in Versions
  PROVE  /\ ~Below(a, a)
         /\ Below(a, b) /\ ~Below(c, b) => Below(a, c)
         /\ ~Below(b, a) /\ Below(b, c) => Below(a, c)
         /\ Below(a, b) => ~Below(b, a)
<1>1. /\ a[1] \in Nat /\ a[2] \in Nat /\ a[3] \in Nat
      /\ b[1] \in Nat /\ b[2] \in Nat /\ b[3] \in Nat
      /\ c[1] \in Nat /\ c[2] \in Nat /\ c[3] \in Nat
  BY VersionsAre
<1> QED
  BY <1>1 DEF Below

LEMMA HeadIs ==
  ASSUME ReleaseTyped
  PROVE  /\ Tip \in Nat /\ Tip >= 1 /\ DOMAIN branch = 1..Tip /\ DOMAIN ci = 1..Tip
         /\ \A c \in 1..Tip : branch[c] \in Commit /\ ci[c] \in {"none", "running", "passed", "failed"}
         /\ \A c \in 1..Tip : branch[c].files \in [VersionFiles -> Versions] /\ branch[c].notes \in SUBSET Nat
<1>1. Tip \in Nat /\ DOMAIN branch = 1..Tip /\ DOMAIN ci = 1..Tip
  BY LenProperties DEF ReleaseTyped, Tip
<1>2. Tip # 0
  BY <1>1, EmptySeq DEF ReleaseTyped, Tip
<1>3. \A c \in 1..Tip : branch[c] \in Commit /\ ci[c] \in {"none", "running", "passed", "failed"}
  BY <1>1 DEF ReleaseTyped
<1> QED
  BY <1>1, <1>2, <1>3 DEF Commit

\* The nearest tag.
LEMMA LastTagIs ==
  ASSUME ReleaseTyped
  PROVE  /\ LastTag \in 1..Tip /\ \E t \in tags : t.of = LastTag
         /\ \A t \in tags : t.of <= LastTag
<1> DEFINE behind == {t.of : t \in tags}
           T == {Tip - c : c \in behind}
<1>1. behind # {} /\ behind \subseteq 1..Tip /\ Tip \in Nat
  BY HeadIs DEF ReleaseTyped
<1>2. T # {} /\ T \in SUBSET Nat
  BY <1>1
<1>3. PICK x \in T : \A y \in T : x <= y
  BY <1>2, LeastOfNats
<1>4. PICK c \in behind : x = Tip - c
  BY <1>3
<1>5. \A d \in behind : d <= c
  <2>1. ASSUME NEW d \in behind PROVE d <= c
    <3>1. Tip - d \in T
      OBVIOUS
    <3>2. Tip - c <= Tip - d
      BY <1>3, <1>4, <3>1
    <3>3. c \in Nat /\ d \in Nat
      BY <1>1
    <3> HIDE DEF behind, T
    <3> QED
      BY <1>1, <3>2, <3>3
  <2> QED
    BY <2>1
<1> HIDE DEF T
<1>6. LastTag \in behind /\ \A d \in behind : d <= LastTag
  BY <1>5 DEF LastTag
<1> QED
  BY <1>1, <1>6

-----------------------------------------------------------------------------
(* Steps.                                                                  *)

\* A step of the script that touches nothing else.
LEMMA ScriptMoves ==
  ASSUME ReleaseInv, NEW s \in ReleaseRun, script' = s, UNCHANGED <<branch, tree, ci, tags>>, RunKnows(s)
  PROVE  ReleaseInv'
<1>1. ReleaseTyped'
  BY DEF ReleaseInv, ReleaseTyped, Tip
<1>2. TagsStand'
  BY DEF ReleaseInv, TagsStand, TagsAreProven, TaggedFilesAgree, NotesComplete, TagsClimb, Tip
<1>3. RunKnows(script)'
  BY DEF RunKnows, RunStarted, RunPrepared, RunCommitted, RunProven, Tip
<1> QED
  BY <1>1, <1>2, <1>3 DEF ReleaseInv

\* A run that is over knows nothing.
LEMMA OffKnows ==
  ASSUME NEW s, s.at = "off"
  PROVE  RunKnows(s)
BY DEF RunKnows, RunStarted, RunPrepared, RunCommitted, RunProven

LEMMA Exits ==
  ASSUME ReleaseInv, Exit, UNCHANGED <<branch, tree, ci, tags>>
  PROVE  ReleaseInv'
BY VersionsAre, OffKnows, ScriptMoves DEF Exit, Script

LEMMA ReleaseBegins ==
  ASSUME ReleaseInv, StartRelease
  PROVE  ReleaseInv'
<1>0. ReleaseTyped /\ TagsClimb
  BY DEF ReleaseInv, TagsStand
<1>1. PICK new \in BumpVersion(tree.files[PackageJson]) :
        script' = [Off EXCEPT !.at = "bump", !.current = tree.files[PackageJson], !.new = new,
                              !.since = LastTag, !.todo = VersionFiles]
  BY DEF StartRelease, Script
<1>2. PICK s : script' = s /\ s = [Off EXCEPT !.at = "bump", !.current = tree.files[PackageJson], !.new = new,
                                             !.since = LastTag, !.todo = VersionFiles]
  BY <1>1
<1>3. tree.files[PackageJson] \in Versions /\ tree.files = branch[Tip].files
  BY <1>0, VersionsAre DEF ReleaseTyped, StartRelease, Clean
<1>4. new \in Versions /\ Below(tree.files[PackageJson], new)
  <2>1. new \in Versions
    BY DEF BumpVersion
  <2>2. CASE Below(tree.files[PackageJson], new)
    BY <2>1, <2>2
  <2>3. CASE new \in Bumped(tree.files[PackageJson])
    <3>1. tree.files[PackageJson] \in Nat \X Nat \X Nat
      BY <1>3, VersionsAre
    <3> QED
      BY <2>1, <2>3, <3>1 DEF Bumped, Below
  <2> QED
    BY <2>2, <2>3 DEF BumpVersion
<1>5. s \in ReleaseRun /\ s.at = "bump" /\ s.new = new /\ s.since = LastTag /\ s.todo = VersionFiles
  <2>1. LastTag \in Nat
    BY <1>0, LastTagIs, HeadIs
  <2> QED
    BY <1>2, <1>3, <1>4, <2>1 DEF Off, ReleaseRun, RunStage
<1>6. \A t \in tags : Below(t.version, new)
  <2>1. \A t \in tags : t.version \in Versions /\ ~Below(tree.files[PackageJson], t.version)
    BY <1>0, <1>3 DEF ReleaseTyped, TagRow, TagsClimb
  <2> QED
    BY <1>3, <1>4, <2>1, BelowOrders
<1>7. RunKnows(s)
  BY <1>0, <1>5, <1>6, LastTagIs DEF RunKnows, RunStarted, RunPrepared, RunCommitted, RunProven
<1> QED
  BY <1>2, <1>5, <1>7, ScriptMoves DEF StartRelease

LEMMA ScriptGoesOn ==
  ASSUME ReleaseInv, CheckBump \/ RevParse \/ WaitForCiSuccess \/ PushTags \/ ReleaseFails
  PROVE  ReleaseInv'
<1>0. script \in ReleaseRun /\ RunKnows(script) /\ ReleaseTyped
  BY DEF ReleaseInv, ReleaseTyped
<1>1. CASE CheckBump
  <2>1. CASE script.failures > 0
    BY <1>1, <2>1, Exits DEF CheckBump
  <2>2. CASE ~(script.failures > 0)
    <3>1. PICK s : script' = s /\ s = [script EXCEPT !.at = "notes"]
      BY <1>1, <2>2 DEF CheckBump, ScriptTo, Script
    <3>2. s \in ReleaseRun /\ s.at = "notes" /\ s.new = script.new /\ s.since = script.since
      BY <1>0, <3>1 DEF ReleaseRun, RunStage
    <3>3. script.at = "bump" /\ script.todo = {} /\ script.failures = 0 /\ UNCHANGED <<branch, tree, ci, tags>>
      BY <1>0, <1>1, <2>2 DEF CheckBump, ScriptAt, ReleaseRun
    <3>4. RunKnows(s)
      BY <1>0, <3>2, <3>3 DEF RunKnows, RunStarted, RunPrepared, RunCommitted, RunProven
    <3> QED
      BY <3>1, <3>2, <3>3, <3>4, ScriptMoves
  <2> QED
    BY <2>1, <2>2
<1>2. CASE RevParse
  <2>1. PICK s : script' = s /\ s = [script EXCEPT !.at = "ci", !.sha = Tip]
    BY <1>2 DEF RevParse, Script
  <2>2. s \in ReleaseRun /\ s.at = "ci" /\ s.sha = Tip /\ s.new = script.new /\ s.since = script.since /\ s.alone = script.alone
    BY <1>0, <2>1, HeadIs DEF ReleaseRun, RunStage
  <2>3. script.at = "resolve" /\ UNCHANGED <<branch, tree, ci, tags>>
    BY <1>2 DEF RevParse, ScriptAt
  <2>4. RunKnows(s)
    BY <1>0, <2>2, <2>3, HeadIs DEF RunKnows, RunStarted, RunPrepared, RunCommitted, RunProven
  <2> QED
    BY <2>1, <2>2, <2>3, <2>4, ScriptMoves
<1>3. CASE WaitForCiSuccess
  <2>1. PICK s : script' = s /\ s = [script EXCEPT !.at = "tag"]
    BY <1>3 DEF WaitForCiSuccess, ScriptTo, Script
  <2>2. s \in ReleaseRun /\ s.at = "tag" /\ s.sha = script.sha /\ s.new = script.new /\ s.since = script.since
        /\ s.alone = script.alone
    BY <1>0, <2>1 DEF ReleaseRun, RunStage
  <2>3. script.at = "ci" /\ ci[script.sha] = "passed" /\ UNCHANGED <<branch, tree, ci, tags>>
    BY <1>3 DEF WaitForCiSuccess, ScriptAt, CiSuccess
  <2>4. RunKnows(s)
    BY <1>0, <2>2, <2>3 DEF RunKnows, RunStarted, RunPrepared, RunCommitted, RunProven
  <2> QED
    BY <2>1, <2>2, <2>3, <2>4, ScriptMoves
<1>4. CASE PushTags \/ ReleaseFails
  BY <1>4, Exits DEF PushTags, ReleaseFails
<1> QED
  BY <1>1, <1>2, <1>3, <1>4

\* A step of the script in the working tree.
LEMMA TreeMoves ==
  ASSUME ReleaseInv, NEW s \in ReleaseRun, script' = s, tree' \in [files : [VersionFiles -> Versions], notes : SUBSET Nat],
         UNCHANGED <<branch, ci, tags>>, RunStarted(s), RunPrepared(s)', s.at \in {"off", "bump", "notes", "commit"}
  PROVE  ReleaseInv'
<1>1. ReleaseTyped'
  BY DEF ReleaseInv, ReleaseTyped, Tip
<1>2. TagsStand'
  BY DEF ReleaseInv, TagsStand, TagsAreProven, TaggedFilesAgree, NotesComplete, TagsClimb, Tip
<1>3. RunKnows(script)'
  BY DEF RunKnows, RunStarted, RunPrepared, RunCommitted, RunProven, Tip
<1> QED
  BY <1>1, <1>2, <1>3 DEF ReleaseInv

LEMMA FileBumped ==
  ASSUME ReleaseInv, NEW f \in VersionFiles, UpdateVersionInFile(f) \/ SyncLock(f)
  PROVE  ReleaseInv'
<1>0. script \in ReleaseRun /\ RunKnows(script) /\ ReleaseTyped
  BY DEF ReleaseInv, ReleaseTyped
<1>1. script.at = "bump" /\ UNCHANGED <<branch, ci, tags>>
  BY DEF UpdateVersionInFile, SyncLock, ScriptAt
<1>2. CASE tree.files[f] = script.current
  <2>1. PICK s : script' = s /\ s = [script EXCEPT !.todo = script.todo \ {f}]
    BY <1>2 DEF UpdateVersionInFile, SyncLock, Script
  <2>2. PICK t : tree' = t /\ t = [tree EXCEPT !.files[f] = script.new]
    BY <1>2 DEF UpdateVersionInFile, SyncLock
  <2>3. s \in ReleaseRun /\ s.at = "bump" /\ s.new = script.new /\ s.since = script.since /\ s.failures = script.failures
        /\ s.todo = script.todo \ {f}
    BY <1>0, <1>1, <2>1 DEF ReleaseRun
  <2>4. /\ t \in [files : [VersionFiles -> Versions], notes : SUBSET Nat]
        /\ t.files[f] = script.new /\ \A g \in VersionFiles : g # f => t.files[g] = tree.files[g]
    BY <1>0, <2>2 DEF ReleaseTyped, ReleaseRun
  <2>5. RunStarted(s)
    BY <1>0, <1>1, <2>3 DEF RunKnows, RunStarted
  <2>6. RunPrepared(s)'
    BY <1>0, <1>1, <2>2, <2>3, <2>4 DEF RunKnows, RunPrepared
  <2> QED
    BY <1>1, <2>1, <2>2, <2>3, <2>4, <2>5, <2>6, TreeMoves
<1>3. CASE tree.files[f] # script.current /\ UpdateVersionInFile(f)
  <2>1. PICK s : script' = s /\ s = [script EXCEPT !.todo = script.todo \ {f}, !.failures = script.failures + 1]
    BY <1>3 DEF UpdateVersionInFile, Script
  <2>2. s \in ReleaseRun /\ s.at = "bump" /\ s.new = script.new /\ s.since = script.since /\ s.failures # 0
    <3>1. script.failures + 1 \in Nat /\ script.failures + 1 # 0 /\ script.todo \ {f} \in SUBSET VersionFiles
      BY <1>0 DEF ReleaseRun
    <3> QED
      BY <1>0, <1>1, <2>1, <3>1 DEF ReleaseRun
  <2>3. UNCHANGED tree
    BY <1>3 DEF UpdateVersionInFile
  <2>4. RunKnows(s)
    BY <1>0, <1>1, <2>2 DEF RunKnows, RunStarted, RunPrepared, RunCommitted, RunProven
  <2> QED
    BY <1>1, <2>1, <2>2, <2>3, <2>4, ScriptMoves
<1>4. CASE tree.files[f] # script.current /\ SyncLock(f)
  BY <1>1, <1>4, Exits DEF SyncLock
<1> QED
  BY <1>2, <1>3, <1>4

LEMMA ChangelogWritten ==
  ASSUME ReleaseInv, UpdateChangelog
  PROVE  ReleaseInv'
<1>0. script \in ReleaseRun /\ RunKnows(script) /\ ReleaseTyped
  BY DEF ReleaseInv, ReleaseTyped
<1> DEFINE covered == {c \in (script.since + 1)..Tip : ~branch[c].release}
<1>1. script.at = "notes" /\ UNCHANGED <<branch, ci, tags>>
  BY DEF UpdateChangelog, ScriptAt
<1>2. PICK s : script' = s /\ s = [script EXCEPT !.at = "commit"]
  BY DEF UpdateChangelog, ScriptTo, Script
<1>3. PICK t : tree' = t /\ t = [tree EXCEPT !.notes = covered]
  BY DEF UpdateChangelog
<1>4. s \in ReleaseRun /\ s.at = "commit" /\ s.new = script.new /\ s.since = script.since
  BY <1>0, <1>1, <1>2 DEF ReleaseRun, RunStage
<1>5. covered \subseteq Nat
  BY <1>0, HeadIs DEF ReleaseRun
<1>6. t \in [files : [VersionFiles -> Versions], notes : SUBSET Nat] /\ t.notes = covered /\ t.files = tree.files
  <2> HIDE DEF covered
  <2> QED
    BY <1>0, <1>3, <1>5 DEF ReleaseTyped
<1>7. RunStarted(s)
  BY <1>0, <1>1, <1>4 DEF RunKnows, RunStarted
<1>8. RunPrepared(s)'
  BY <1>0, <1>1, <1>3, <1>4, <1>6 DEF RunKnows, RunPrepared, Tip
<1> QED
  BY <1>1, <1>2, <1>3, <1>4, <1>6, <1>7, <1>8, TreeMoves

LEMMA CheckedOut ==
  ASSUME ReleaseInv, Checkout
  PROVE  ReleaseInv'
<1>0. script \in ReleaseRun /\ ReleaseTyped
  BY DEF ReleaseInv, ReleaseTyped
<1>1. script' = script /\ script.at = "off" /\ UNCHANGED <<branch, ci, tags>>
  BY DEF Checkout, ScriptAt
<1>2. tree' \in [files : [VersionFiles -> Versions], notes : SUBSET Nat]
  BY <1>0, HeadIs DEF Checkout
<1>3. RunStarted(script) /\ RunPrepared(script)'
  BY <1>1 DEF RunStarted, RunPrepared
<1> QED
  BY <1>0, <1>1, <1>2, <1>3, TreeMoves

\* A commit on top: tags and what they refer to stay.
LEMMA Committed ==
  ASSUME ReleaseInv, NEW e \in Commit, branch' = Append(branch, e), ci' = Append(ci, "none"), UNCHANGED tags,
         tree' \in [files : [VersionFiles -> Versions], notes : SUBSET Nat], script' \in ReleaseRun,
         \A t \in tags : ~Below(e.files[PackageJson], t.version)
  PROVE  /\ ReleaseTyped' /\ TagsStand' /\ Tip' = Tip + 1 /\ branch'[Tip + 1] = e
         /\ \A c \in 1..Tip : branch'[c] = branch[c] /\ ci'[c] = ci[c]
<1>0. ReleaseTyped /\ TagsStand
  BY DEF ReleaseInv
<1>1. /\ branch' \in Seq(Commit) /\ Tip' = Tip + 1 /\ branch'[Tip + 1] = e
      /\ \A c \in 1..Tip : branch'[c] = branch[c]
  BY <1>0, AppendIs DEF ReleaseTyped, Tip
<1>2. /\ ci' \in Seq({"none", "running", "passed", "failed"}) /\ Len(ci') = Tip + 1
      /\ \A c \in 1..Tip : ci'[c] = ci[c]
  BY <1>0, AppendIs DEF ReleaseTyped, Tip
<1>3. \A t \in tags : t.of \in 1..Tip /\ t.of \in 1..(Tip + 1)
  BY <1>0, HeadIs DEF ReleaseTyped
<1>4. branch' # <<>>
  BY <1>0, <1>1, HeadIs, EmptySeq DEF Tip
<1>5. ReleaseTyped'
  BY <1>0, <1>1, <1>2, <1>3, <1>4 DEF ReleaseTyped, Tip
<1>6. TagsAreProven' /\ TaggedFilesAgree'
  BY <1>0, <1>1, <1>2, <1>3 DEF TagsStand, TagsAreProven, TaggedFilesAgree
<1>7. NotesComplete'
  <2>1. ASSUME NEW t \in tags, t.alone, t.of > 1, NEW c \in 1..t.of, ~branch'[c].release,
               \A b \in {u.of : u \in {v \in tags : v.of < t.of}} : b < c
        PROVE  c \in branch'[t.of].notes
    <3>1. c \in 1..Tip
      BY <1>0, <1>3, HeadIs
    <3>2. c \in branch[t.of].notes
      BY <1>0, <1>1, <2>1, <3>1 DEF TagsStand, NotesComplete
    <3> QED
      BY <1>1, <1>3, <3>2
  <2> QED
    BY <2>1 DEF NotesComplete
<1>8. TagsClimb'
  BY <1>0, <1>1 DEF TagsStand, TagsClimb
<1> QED
  BY <1>1, <1>2, <1>5, <1>6, <1>7, <1>8 DEF TagsStand

LEMMA ReleaseCommitted ==
  ASSUME ReleaseInv, CommitRelease
  PROVE  ReleaseInv'
<1>0. script \in ReleaseRun /\ RunKnows(script) /\ ReleaseTyped /\ script.at = "commit" /\ UNCHANGED tags
  BY DEF ReleaseInv, ReleaseTyped, CommitRelease, ScriptAt
<1>1. PICK e : e = [files |-> [f \in VersionFiles |-> IF f \in Staged THEN tree.files[f] ELSE branch[Tip].files[f]],
                    notes |-> tree.notes, release |-> TRUE] /\ branch' = Append(branch, e)
  BY DEF CommitRelease
<1>2. e \in Commit /\ (\A f \in VersionFiles : e.files[f] = script.new) /\ e.notes = tree.notes /\ e.release
  BY <1>0, <1>1 DEF Staged, Commit, ReleaseTyped, RunKnows, RunPrepared
<1>3. tree' \in [files : [VersionFiles -> Versions], notes : SUBSET Nat]
  BY <1>0 DEF CommitRelease, ReleaseTyped
<1>4. PICK s : script' = s /\ s = [script EXCEPT !.at = "push"]
  BY DEF CommitRelease, Script
<1>5. s \in ReleaseRun /\ s.at = "push" /\ s.new = script.new /\ s.since = script.since /\ s.alone = script.alone
  BY <1>0, <1>4 DEF ReleaseRun, RunStage
<1>6. \A t \in tags : t.version \in Versions /\ Below(t.version, script.new) /\ t.of <= script.since
  BY <1>0 DEF ReleaseTyped, TagRow, RunKnows, RunStarted
<1>7. script.new \in Versions /\ \A t \in tags : ~Below(e.files[PackageJson], t.version)
  BY <1>0, <1>2, <1>6, BelowOrders, VersionsAre DEF ReleaseRun
<1>8. /\ ReleaseTyped' /\ TagsStand' /\ Tip' = Tip + 1 /\ branch'[Tip + 1] = e
      /\ \A c \in 1..Tip : branch'[c] = branch[c]
  BY <1>1, <1>2, <1>3, <1>4, <1>5, <1>7, <1>0, Committed DEF CommitRelease
<1>9. RunStarted(s)'
  BY <1>0, <1>5 DEF RunKnows, RunStarted
<1>10. RunCommitted(s)'
  <2>1. s.since \in 1..Tip
    BY <1>0, <1>5 DEF RunKnows, RunStarted, ReleaseTyped
  <2>2. s.alone => tree.notes = {c \in (s.since + 1)..Tip : ~branch[c].release}
    BY <1>0, <1>5 DEF RunKnows, RunPrepared
  <2>3. \A c \in (s.since + 1)..Tip : c \in 1..Tip
    BY <2>1, <1>0, HeadIs
  <2>4. s.alone => e.notes = {c \in (s.since + 1)..((Tip + 1) - 1) : ~branch'[c].release}
    <3>1. (Tip + 1) - 1 = Tip
      BY <1>0, HeadIs
    <3> QED
      BY <1>2, <1>8, <2>2, <2>3, <3>1
  <2>5. s.since < Tip + 1
    BY <1>0, <2>1, HeadIs
  <2>6. branch'[Tip'] = e /\ Tip' = Tip + 1
    BY <1>8
  <2>7. /\ s.since < Tip' /\ \A f \in VersionFiles : branch'[Tip'].files[f] = s.new
        /\ s.alone => branch'[Tip'].release /\ branch'[Tip'].notes = {c \in (s.since + 1)..(Tip' - 1) : ~branch'[c].release}
    <3>1. s.since < Tip'
      BY <2>5, <2>6
    <3>2. \A f \in VersionFiles : branch'[Tip'].files[f] = s.new
      BY <1>2, <1>5, <2>6
    <3>3. branch'[Tip'].release
      BY <1>2, <2>6
    <3>4. s.alone => branch'[Tip'].notes = {c \in (s.since + 1)..(Tip' - 1) : ~branch'[c].release}
      <4> DEFINE Since(n) == {c \in (s.since + 1)..(n - 1) : ~branch'[c].release}
      <4>1. s.alone => e.notes = Since(Tip + 1)
        BY <2>4
      <4> HIDE DEF Since
      <4>2. s.alone => branch'[Tip'].notes = Since(Tip')
        BY <2>6, <4>1
      <4> QED
        BY <4>2 DEF Since
    <3> QED
      BY <3>1, <3>2, <3>3, <3>4
  <2> QED
    BY <2>7 DEF RunCommitted
<1>11. RunPrepared(s)' /\ RunProven(s)'
  BY <1>5 DEF RunPrepared, RunProven
<1> QED
  BY <1>4, <1>8, <1>9, <1>10, <1>11 DEF ReleaseInv, RunKnows

LEMMA SomebodyCommitted ==
  ASSUME ReleaseInv, DeveloperCommits
  PROVE  ReleaseInv'
<1>0. script \in ReleaseRun /\ RunKnows(script) /\ ReleaseTyped /\ TagsClimb /\ UNCHANGED <<tags, tree>>
  BY DEF ReleaseInv, ReleaseTyped, TagsStand, DeveloperCommits
<1>1. PICK e : e = [files |-> branch[Tip].files, notes |-> {}, release |-> FALSE] /\ branch' = Append(branch, e)
  BY DEF DeveloperCommits
<1>2. e \in Commit /\ e.files = branch[Tip].files
  BY <1>0, <1>1, HeadIs DEF Commit
<1>3. PICK s : /\ script' = s
               /\ s = IF script.at \in {"off", "bump", "notes"} THEN script ELSE [script EXCEPT !.alone = FALSE]
  BY DEF DeveloperCommits
<1>4. /\ s \in ReleaseRun /\ s.at = script.at /\ s.new = script.new /\ s.since = script.since /\ s.sha = script.sha
      /\ s.todo = script.todo /\ s.failures = script.failures
      /\ script.at \notin {"off", "bump", "notes"} => ~s.alone
  BY <1>0, <1>3 DEF ReleaseRun
<1>5. /\ ReleaseTyped' /\ TagsStand' /\ Tip' = Tip + 1 /\ branch'[Tip + 1] = e
      /\ \A c \in 1..Tip : branch'[c] = branch[c] /\ ci'[c] = ci[c]
  BY <1>0, <1>1, <1>2, <1>3, <1>4, Committed DEF DeveloperCommits, ReleaseTyped, TagsClimb
<1>6. RunStarted(s)' /\ RunPrepared(s)'
  BY <1>0, <1>4 DEF RunKnows, RunStarted, RunPrepared
<1>7. RunCommitted(s)'
  <2>1. s.at \in {"push", "resolve", "ci", "tag"} => s.since < Tip /\ s.since < Tip + 1 /\ ~s.alone
    BY <1>0, <1>4, HeadIs DEF RunKnows, RunCommitted, ReleaseRun
  <2> QED
    BY <1>0, <1>2, <1>4, <1>5, <2>1 DEF RunKnows, RunCommitted
<1>8. RunProven(s)'
  <2>1. s.at \in {"ci", "tag"} => s.sha \in 1..Tip /\ s.sha \in 1..(Tip + 1) /\ ~s.alone
    BY <1>0, <1>4, HeadIs DEF RunKnows, RunProven, ReleaseRun
  <2> QED
    BY <1>0, <1>4, <1>5, <2>1 DEF RunKnows, RunProven
<1> QED
  BY <1>3, <1>5, <1>6, <1>7, <1>8 DEF ReleaseInv, RunKnows

\* CI moves: what passed stays.
LEMMA CiMoves ==
  ASSUME ReleaseInv, NEW s \in ReleaseRun, script' = s, UNCHANGED <<branch, tree, tags>>,
         ci' \in [1..Tip -> {"none", "running", "passed", "failed"}],
         \A c \in 1..Tip : ci[c] = "passed" => ci'[c] = "passed", RunKnows(s)
  PROVE  ReleaseInv'
<1>0. ReleaseTyped /\ Tip \in Nat
  BY HeadIs DEF ReleaseInv
<1>1. ci' \in Seq({"none", "running", "passed", "failed"}) /\ Len(ci') = Tip
  BY <1>0, ListOf
<1>2. ReleaseTyped'
  BY <1>0, <1>1 DEF ReleaseTyped, Tip
<1>3. TagsStand'
  <2>1. TagsAreProven'
    BY <1>0 DEF ReleaseInv, ReleaseTyped, TagsStand, TagsAreProven
  <2> QED
    BY <2>1 DEF ReleaseInv, TagsStand, TaggedFilesAgree, NotesComplete, TagsClimb, Tip
<1>4. RunKnows(script)'
  BY DEF RunKnows, RunStarted, RunPrepared, RunCommitted, RunProven, Tip
<1> QED
  BY <1>2, <1>3, <1>4 DEF ReleaseInv

LEMMA CiStays ==
  ASSUME ReleaseInv, Push \/ \E c \in DOMAIN branch : CiPasses(c) \/ CiFails(c)
  PROVE  ReleaseInv'
<1>0. script \in ReleaseRun /\ RunKnows(script) /\ ReleaseTyped
  BY DEF ReleaseInv, ReleaseTyped
<1>1. CASE Push
  <2>1. PICK s : script' = s /\ s = [script EXCEPT !.at = "resolve"]
    BY <1>1 DEF Push, ScriptTo, Script
  <2>2. s \in ReleaseRun /\ s.at = "resolve" /\ s.new = script.new /\ s.since = script.since /\ s.alone = script.alone
    BY <1>0, <2>1 DEF ReleaseRun, RunStage
  <2>3. script.at = "push" /\ UNCHANGED <<branch, tree, tags>>
    BY <1>1 DEF Push, ScriptAt
  <2>4. /\ ci' \in [1..Tip -> {"none", "running", "passed", "failed"}]
        /\ \A c \in 1..Tip : ci[c] = "passed" => ci'[c] = "passed"
    BY <1>0, <1>1, HeadIs DEF Push
  <2>5. RunKnows(s)
    BY <1>0, <2>2, <2>3 DEF RunKnows, RunStarted, RunPrepared, RunCommitted, RunProven
  <2> QED
    BY <2>1, <2>2, <2>3, <2>4, <2>5, CiMoves
<1>2. CASE \E c \in DOMAIN branch : CiPasses(c) \/ CiFails(c)
  <2>1. script' = script /\ UNCHANGED <<branch, tree, tags>>
    BY <1>2 DEF CiPasses, CiFails
  <2>2. /\ ci' \in [1..Tip -> {"none", "running", "passed", "failed"}]
        /\ \A c \in 1..Tip : ci[c] = "passed" => ci'[c] = "passed"
    <3>0. ci \in [1..Tip -> {"none", "running", "passed", "failed"}]
      BY <1>0, HeadIs DEF ReleaseTyped
    <3>1. PICK c \in 1..Tip : /\ ci' = [ci EXCEPT ![c] = "passed"] \/ (ci' = [ci EXCEPT ![c] = "failed"] /\ ci[c] # "passed")
      BY <1>0, <1>2, HeadIs DEF CiPasses, CiFails
    <3> QED
      BY <3>0, <3>1
  <2> QED
    BY <1>0, <2>1, <2>2, CiMoves
<1> QED
  BY <1>1, <1>2

LEMMA Tagged ==
  ASSUME ReleaseInv, CreateTag
  PROVE  ReleaseInv'
<1>0. script \in ReleaseRun /\ RunKnows(script) /\ ReleaseTyped /\ TagsStand /\ script.at = "tag"
      /\ UNCHANGED <<branch, tree, ci>>
  BY DEF ReleaseInv, ReleaseTyped, CreateTag, ScriptAt
<1>1. CASE \E t \in tags : t.version = script.new
  BY <1>0, <1>1, Exits DEF CreateTag
<1>2. CASE ~\E t \in tags : t.version = script.new
  <2>1. PICK new : new = [version |-> script.new, of |-> Tip, alone |-> script.alone] /\ tags' = tags \cup {new}
    BY <1>2 DEF CreateTag
  <2>2. new \in TagRow /\ new.version = script.new /\ new.of = Tip /\ new.alone = script.alone
    BY <1>0, <2>1, HeadIs DEF TagRow, ReleaseRun
  <2>3. PICK s : script' = s /\ s = [script EXCEPT !.at = "pushTags"]
    BY <1>2 DEF CreateTag, ScriptTo, Script
  <2>4. s \in ReleaseRun /\ s.at = "pushTags"
    BY <1>0, <2>3 DEF ReleaseRun, RunStage
  <2>5. ReleaseTyped'
    BY <1>0, <2>1, <2>2, <2>3, <2>4, HeadIs DEF ReleaseTyped, Tip
  <2>6. RunKnows(script)'
    BY <2>3, <2>4 DEF RunKnows, RunStarted, RunPrepared, RunCommitted, RunProven
  <2>7. /\ \A t \in tags : t.of <= script.since /\ t.of \in Nat /\ Below(t.version, script.new) /\ t.version \in Versions
        /\ script.since < Tip /\ Tip \in Nat /\ script.since \in Nat /\ \E t \in tags : t.of = script.since
    BY <1>0, HeadIs DEF RunKnows, RunStarted, RunCommitted, ReleaseTyped, TagRow, ReleaseRun
  <2>8. /\ \A f \in VersionFiles : branch[Tip].files[f] = script.new
        /\ script.alone => /\ branch[Tip].release /\ ci[Tip] = "passed"
                           /\ branch[Tip].notes = {c \in (script.since + 1)..(Tip - 1) : ~branch[c].release}
    BY <1>0 DEF RunKnows, RunCommitted, RunProven
  <2>9. TagsAreProven' /\ TaggedFilesAgree'
    BY <1>0, <2>1, <2>2, <2>8 DEF TagsStand, TagsAreProven, TaggedFilesAgree
  <2>10. NotesComplete'
    <3>1. ASSUME NEW t \in tags', t.alone, t.of > 1, NEW c \in 1..t.of, ~branch[c].release,
                 \A b \in {u.of : u \in {v \in tags' : v.of < t.of}} : b < c
          PROVE  c \in branch[t.of].notes
      <4>1. CASE t \in tags
        BY <1>0, <2>1, <3>1, <4>1 DEF TagsStand, NotesComplete
      <4>2. CASE t = new
        <5>1. script.since < c
          BY <2>1, <2>2, <2>7, <3>1, <4>2
        <5>2. c # Tip
          BY <2>2, <2>8, <3>1, <4>2
        <5>3. c \in (script.since + 1)..(Tip - 1)
          BY <2>2, <2>7, <3>1, <4>2, <5>1, <5>2
        <5> QED
          BY <2>2, <2>8, <3>1, <4>2, <5>3
      <4> QED
        BY <2>1, <4>1, <4>2
    <3> QED
      BY <1>0, <3>1 DEF NotesComplete
  <2>11. TagsClimb'
    <3>1. \A t, u \in tags' : t.of < u.of => Below(t.version, u.version)
      BY <1>0, <2>1, <2>2, <2>7 DEF TagsStand, TagsClimb
    <3>2. \A t \in tags' : ~Below(branch[Tip].files[PackageJson], t.version)
      <4>1. branch[Tip].files[PackageJson] = script.new /\ script.new \in Versions
        BY <1>0, <2>8, VersionsAre DEF ReleaseRun
      <4> QED
        BY <2>1, <2>2, <2>7, <4>1, BelowOrders
    <3> QED
      BY <1>0, <3>1, <3>2 DEF TagsClimb, Tip
  <2> QED
    BY <2>5, <2>6, <2>9, <2>10, <2>11 DEF ReleaseInv, TagsStand
<1> QED
  BY <1>1, <1>2

LEMMA ReleaseStarts ==
  ASSUME ReleaseInit
  PROVE  ReleaseInv
<1> DEFINE e == [files |-> [f \in VersionFiles |-> FirstVersion], notes |-> {}, release |-> TRUE]
           t == [version |-> FirstVersion, of |-> 1, alone |-> TRUE]
<1>1. e \in Commit /\ (\A f \in VersionFiles : e.files[f] = FirstVersion)
  BY VersionsAre DEF Commit
<1>2. t \in TagRow /\ t.of = 1 /\ t.version = FirstVersion
  BY VersionsAre DEF TagRow
<1>3. branch = <<e>> /\ ci = <<"passed">> /\ tags = {t} /\ script = Off
  BY DEF ReleaseInit
<1>4. tree \in [files : [VersionFiles -> Versions], notes : SUBSET Nat]
  BY VersionsAre DEF ReleaseInit
<1> HIDE DEF e, t
<1>5. branch \in Seq(Commit) /\ Len(branch) = 1 /\ branch[1] = e /\ branch # <<>>
  BY <1>1, <1>3
<1>6. ci \in Seq({"none", "running", "passed", "failed"}) /\ Len(ci) = 1 /\ ci[1] = "passed"
  BY <1>3
<1>7. ReleaseTyped
  BY <1>2, <1>3, <1>4, <1>5, <1>6, VersionsAre DEF ReleaseTyped, Tip
<1>8. TagsAreProven /\ TaggedFilesAgree /\ NotesComplete
  BY <1>1, <1>2, <1>3, <1>5, <1>6 DEF TagsAreProven, TaggedFilesAgree, NotesComplete
<1>9. TagsClimb
  BY <1>1, <1>2, <1>3, <1>5, VersionsAre, BelowOrders DEF TagsClimb, Tip
<1>10. RunKnows(script)
  BY <1>3, VersionsAre, OffKnows
<1> QED
  BY <1>7, <1>8, <1>9, <1>10 DEF ReleaseInv, TagsStand

LEMMA Higher ==
  ASSUME NEW k \in Nat, NEW p \in Nat, NEW q \in Nat, NEW a \in Nat, NEW b \in Nat, p < q, a < k
  PROVE  p * k + a < q * k + b
<1> DEFINE m == q - p - 1
<1>1. m \in Nat /\ q = p + 1 + m
  OBVIOUS
<1>2. m * k \in Nat /\ p * k \in Nat
  BY <1>1
<1>3. q * k = p * k + k + m * k
  BY <1>1
<1> HIDE DEF m
<1> QED
  BY <1>2, <1>3

\* A higher version has the higher number.
LEMMA NumbersRise ==
  ASSUME NEW a \in Versions, NEW b \in Versions, Below(a, b)
  PROVE  (a[1] * (VersionMax + 2) + a[2]) * (VersionMax + 2) + a[3]
           < (b[1] * (VersionMax + 2) + b[2]) * (VersionMax + 2) + b[3]
<1> DEFINE k == VersionMax + 2
           p == a[1] * k + a[2]
           q == b[1] * k + b[2]
<1>1. /\ a[1] \in 0..VersionMax /\ a[2] \in 0..VersionMax /\ a[3] \in 0..VersionMax
      /\ b[1] \in 0..VersionMax /\ b[2] \in 0..VersionMax /\ b[3] \in 0..VersionMax
      /\ k \in Nat /\ a[2] < k /\ a[3] < k
  BY VersionsAre DEF Versions
<1> HIDE DEF k
<1>2. /\ p \in Nat /\ q \in Nat
  BY <1>1
<1>3. a[1] < b[1] \/ (a[1] = b[1] /\ a[2] < b[2]) => p < q
  <2>1. CASE a[1] < b[1]
    BY <1>1, <2>1, Higher
  <2>2. CASE a[1] = b[1] /\ a[2] < b[2]
    <3>1. a[1] * k \in Nat
      BY <1>1
    <3> QED
      BY <1>1, <2>2, <3>1
  <2> QED
    BY <2>1, <2>2
<1> HIDE DEF p, q
<1>4. p < q => p * k + a[3] < q * k + b[3]
  BY <1>1, <1>2, Higher
<1>5. p = q /\ a[3] < b[3] => p * k + a[3] < q * k + b[3]
  <2>1. p * k \in Nat
    BY <1>1, <1>2
  <2> QED
    BY <1>1, <2>1
<1>6. p < q \/ (p = q /\ a[3] < b[3])
  BY <1>3 DEF Below, p, q
<1> QED
  BY <1>4, <1>5, <1>6 DEF p, q, k

\* Whatever fails, however often the script is started and whoever commits meanwhile: what is
\* tagged is proven by CI, of one version, noted, and above the tags before it (release.ts).
THEOREM TagsStaySound == ReleaseSpec => []TagsSound
<1>1. ASSUME ReleaseInv, ReleaseNext PROVE ReleaseInv'
  BY <1>1, ReleaseBegins, FileBumped, ScriptGoesOn, ChangelogWritten, ReleaseCommitted, CiStays, Tagged,
     SomebodyCommitted, CheckedOut DEF ReleaseNext
<1>2. ReleaseInv /\ UNCHANGED releaseVars => ReleaseInv'
  BY ScriptMoves DEF releaseVars, ReleaseInv, ReleaseTyped
<1>3. ReleaseInv => TagsSound
  <2>1. ASSUME ReleaseInv PROVE TagsGoUp
    BY <2>1, NumbersRise DEF ReleaseInv, ReleaseTyped, TagRow, TagsStand, TagsClimb, TagsGoUp
  <2> QED
    BY <2>1 DEF ReleaseInv, TagsStand, TagsSound
<1> QED
  BY ReleaseStarts, <1>1, <1>2, <1>3, PTL DEF ReleaseSpec

-----------------------------------------------------------------------------
(****************************************************************************)
(* ProbeLoop, for any timers, counters and durations.                       *)
(****************************************************************************)

\* Six requests and the pauses between them are over before the worker refuses a sample
\* (sender.rs: a timeout of 10 seconds and five retries; the skew is 300 seconds).
Patient == \A d \in AttemptTimes : 6 * d + 31 <= SkewLimit

Tier2Task == [step : {"spawned", "collecting"}, deep : BOOLEAN]
Posting == {"identity", "ingest", "reidentify"}
InLoop == {"wait", "ingest", "reidentify", "round"}

LoopTyped ==
    /\ wall \in Nat /\ shows \in 0..(Word - 1) /\ sampledAt \in Nat /\ tickAt \in Nat /\ newestRow \in Int
    /\ stage \in {"identity", "seed", "off"} \cup InLoop
    /\ attempt \in 0..MaxRetries /\ (stage \notin Posting => attempt = 0)
    /\ tier2Running \in BOOLEAN /\ tier2Tasks \in Seq(Tier2Task) /\ lastDeep \in Int /\ scanAt \in Int

\* A reading is as old as the sample it went into, and the next tick an interval later.
ClockKnown ==
    /\ baseline \in Readings(shows, sampledAt)
    /\ stage \in InLoop => tickAt = sampledAt + Interval /\ newestRow <= sampledAt /\ sampledAt <= wall
    /\ stage \in {"identity", "seed"} => newestRow = -1 /\ tier2Tasks = <<>> /\ scanAt = -HeavyEvery

\* The sample under way is in the table, or newer than all that is.
SampleKnown ==
    /\ stage = "ingest" => /\ payload.ts = sampledAt
                          /\ \/ rows = {} /\ newestRow < sampledAt
                             \/ rows = {sampledAt} /\ newestRow = sampledAt
    /\ rows = {} \/ \E ts : rows = {ts}
    /\ told => rows # {}

\* How long the requests of a post and the pauses between them have taken.
PostTimed ==
    stage = "ingest" =>
        /\ attempt = 0 => wall = payload.ts
        /\ attempt = 1 => 6 * (wall - payload.ts - 1) <= SkewLimit - 31
        /\ attempt = 2 => 6 * (wall - payload.ts - 3) <= 2 * (SkewLimit - 31)
        /\ attempt = 3 => 6 * (wall - payload.ts - 7) <= 3 * (SkewLimit - 31)
        /\ attempt = 4 => 6 * (wall - payload.ts - 15) <= 4 * (SkewLimit - 31)
        /\ attempt = 5 => 6 * (wall - payload.ts - 31) <= 5 * (SkewLimit - 31)

\* There is one task of tier 2 at most, and the last scan that ended began after all others.
Tier2Known ==
    /\ Len(tier2Tasks) <= 1 /\ (~tier2Running => tier2Tasks = <<>>)
    /\ stage \in InLoop =>
         /\ scanAt <= wall
         /\ (\A i \in DOMAIN tier2Tasks : tier2Tasks[i].step = "spawned" \/ ~tier2Tasks[i].deep) => scanAt <= lastDeep

LoopInv == LoopTyped /\ ClockKnown /\ SampleKnown /\ RateTrue /\ PostTimed /\ Tier2Known

LEMMA LoopConstants ==
  /\ Interval \in Nat /\ Interval > 0 /\ HeavyEvery \in Nat /\ HeavyEvery > 0 /\ SkewLimit \in Nat /\ Word \in Nat /\ Word > 0
  /\ AttemptTimes \subseteq Nat /\ Traffic \subseteq Nat
BY ProbeLoopAssumption

LEMMA GreaterOf ==
  ASSUME NEW a \in Int, NEW b \in Int
  PROVE  Max({a, b}) = IF a >= b THEN a ELSE b
BY DEF Max

LEMMA BackoffIs ==
  Backoff(0) = 1 /\ Backoff(1) = 2 /\ Backoff(2) = 4 /\ Backoff(3) = 8 /\ Backoff(4) = 16
<1>1. \A a, b \in Int : Min({a, b}) = IF a <= b THEN a ELSE b
  BY DEF Min
<1>2. 2^0 = 1 /\ 2^1 = 2 /\ 2^2 = 4 /\ 2^3 = 8 /\ 2^4 = 16
  OBVIOUS
<1> QED
  BY <1>1, <1>2 DEF Backoff, MaxBackoff

LEMMA NoTasks ==
  ASSUME NEW s, s = <<>>
  PROVE  s \in Seq(Tier2Task) /\ Len(s) = 0
OBVIOUS

LEMMA Apart ==
  ASSUME NEW a \in Nat, NEW b \in Nat
  PROVE  a = b - (b - a)
OBVIOUS

LEMMA WrapIs ==
  ASSUME NEW w \in Nat, w > 0, NEW x \in Int
  PROVE  /\ x % w \in 0..(w - 1)
         /\ x >= 0 => x % w <= x
         /\ x >= 0 /\ x < w => x % w = x
         /\ x >= w /\ x < 2 * w => x % w = x - w
         /\ x < 0 /\ -w <= x => x % w = x + w
OBVIOUS

\* What a counter did between two readings, whether or not it passed its word.
LEMMA RatesAre ==
  ASSUME NEW c \in 0..(Word - 1), NEW real \in Nat, NEW remade \in BOOLEAN, NEW d,
         d = IF remade THEN real % Word ELSE (c + real) % Word
  PROVE  /\ d \in 0..(Word - 1)
         /\ ~remade /\ real < Word => Delta(c, d) = real
         /\ SaturatingDelta(c, d) <= real
<1>0. Word \in Nat /\ Word > 0 /\ c \in Nat /\ c + real \in Nat
  BY LoopConstants
<1>1. d \in 0..(Word - 1)
  BY <1>0, WrapIs
<1>2. ASSUME ~remade, real < Word PROVE (d - c) % Word = real
  <2>1. CASE c + real < Word
    <3>1. d = c + real
      BY <1>0, <1>2, <2>1, WrapIs
    <3>2. d - c = real
      BY <1>0, <3>1
    <3> QED
      BY <1>0, <1>2, <3>2, WrapIs
  <2>2. CASE c + real >= Word
    <3>1. d = c + real - Word
      BY <1>0, <1>2, <2>2, WrapIs
    <3>2. d - c = real - Word /\ real - Word \in Int /\ real - Word < 0 /\ -Word <= real - Word
      BY <1>0, <1>2, <3>1
    <3>3. (real - Word) % Word = real - Word + Word
      BY <1>0, <3>2, WrapIs
    <3> QED
      BY <1>0, <3>2, <3>3
  <2> QED
    BY <1>0, <2>1, <2>2
<1>3. d <= c + real
  BY <1>0, WrapIs
<1>4. Max({d - c, 0}) <= real
  <2>1. d - c \in Int /\ d - c <= real
    BY <1>0, <1>1, <1>3
  <2> QED
    BY <2>1, GreaterOf
<1> QED
  BY <1>1, <1>2, <1>4 DEF Delta, SaturatingDelta

-----------------------------------------------------------------------------
(* Steps of the loop.                                                      *)

LEMMA LoopSeeds ==
  ASSUME LoopInv, Seed
  PROVE  LoopInv'
<1> DEFINE t == [step |-> "spawned", deep |-> FALSE]
<1>0. LoopTyped /\ ClockKnown /\ SampleKnown /\ Tier2Known
  BY DEF LoopInv
<1>1. /\ stage = "seed" /\ stage' = "wait" /\ wall' = 0 /\ baseline' \in Readings(shows, 0) /\ sampledAt' = 0
      /\ tickAt' = Interval /\ lastDeep' = -HeavyEvery /\ tier2Running' = TRUE /\ tier2Tasks' = Append(tier2Tasks, t)
      /\ UNCHANGED <<shows, payload, attempt, newestRow, rows, told, scanAt>>
  BY DEF Seed, SpawnTier2
<1>2. tier2Tasks = <<>> /\ newestRow = -1 /\ scanAt = -HeavyEvery
  BY <1>0, <1>1 DEF ClockKnown
<1>3. t \in Tier2Task
  BY DEF Tier2Task
<1>4. tier2Tasks' \in Seq(Tier2Task) /\ Len(tier2Tasks') = 1
  <2> HIDE DEF t
  <2> QED
    BY <1>1, <1>2, <1>3
<1>5. LoopTyped'
  BY <1>0, <1>1, <1>4, LoopConstants DEF LoopTyped, InLoop, Posting
<1>6. ClockKnown'
  BY <1>1, <1>2, LoopConstants DEF ClockKnown, InLoop
<1>7. SampleKnown' /\ RateTrue' /\ PostTimed'
  BY <1>0, <1>1 DEF SampleKnown, RateTrue, PostTimed
<1>8. Tier2Known'
  BY <1>1, <1>2, <1>4, LoopConstants DEF Tier2Known
<1> QED
  BY <1>5, <1>6, <1>7, <1>8 DEF LoopInv

LEMMA LoopTicks ==
  ASSUME LoopInv, Tick
  PROVE  LoopInv'
<1>0. LoopTyped /\ ClockKnown /\ SampleKnown /\ Tier2Known
  BY DEF LoopInv
<1>1. PICK real \in Traffic, remade \in BOOLEAN : \E reading \in Readings(shows', wall') :
        /\ shows' = IF remade THEN real % Word ELSE (shows + real) % Word
        /\ payload' = MetricsOf(reading, wall', real, remade) /\ baseline' = NextBaseline(reading)
  BY DEF Tick
<1>2. PICK reading \in Readings(shows', wall') :
        payload' = MetricsOf(reading, wall', real, remade) /\ baseline' = reading
  BY <1>1 DEF NextBaseline
<1>3. /\ stage = "wait" /\ stage' = "ingest" /\ wall' = Max({wall, tickAt}) /\ tickAt' = wall' + Interval
      /\ sampledAt' = wall' /\ rows' = {} /\ told' = FALSE
      /\ UNCHANGED <<attempt, newestRow, tier2Running, tier2Tasks, lastDeep, scanAt>>
  BY DEF Tick, NextTick, tier2Vars
<1>4. wall' \in Nat /\ wall' >= wall /\ wall' > sampledAt
  BY <1>0, <1>3, GreaterOf, LoopConstants DEF LoopTyped, ClockKnown, InLoop
<1>5. /\ shows' \in 0..(Word - 1)
      /\ ~remade /\ real < Word => Delta(shows, shows') = real
      /\ SaturatingDelta(shows, shows') <= real
  BY <1>0, <1>1, RatesAre, LoopConstants DEF LoopTyped
<1>6. LoopTyped'
  BY <1>0, <1>3, <1>4, <1>5, LoopConstants DEF LoopTyped, InLoop, Posting
<1>7. ClockKnown'
  BY <1>0, <1>2, <1>3, <1>4, LoopConstants DEF LoopTyped, ClockKnown, InLoop
<1>8. payload'.ts = wall'
  BY <1>2 DEF MetricsOf
<1>9. SampleKnown' /\ PostTimed'
  BY <1>0, <1>3, <1>4, <1>8 DEF LoopTyped, ClockKnown, InLoop, Posting, SampleKnown, PostTimed
<1>10. RateTrue'
  <2>1. CASE baseline.read /\ reading.read
    <3>1. baseline.at = sampledAt /\ baseline.shows = shows /\ reading.shows = shows'
      BY <1>0, <1>2, <2>1 DEF ClockKnown, Readings, NoReading
    <3>2. /\ payload'.since = sampledAt /\ payload'.ts = wall' /\ payload'.elapsed = wall' - sampledAt
          /\ payload'.remade = remade /\ payload'.real = real
          /\ payload'.delta = Delta(shows, shows') /\ payload'.saturating = SaturatingDelta(shows, shows')
      BY <1>2, <2>1, <3>1 DEF MetricsOf
    <3>3. sampledAt = wall' - (wall' - sampledAt)
      <4>1. sampledAt \in Nat /\ wall' \in Nat
        BY <1>0, <1>4 DEF LoopTyped
      <4> QED
        BY <4>1, Apart
    <3> QED
      BY <1>5, <3>2, <3>3 DEF RateTrue
  <2>2. CASE ~(baseline.read /\ reading.read)
    <3>1. payload' = [ts |-> wall', rated |-> FALSE]
      BY <1>2, <2>2 DEF MetricsOf
    <3>2. payload'.rated = FALSE
      BY <3>1
    <3> QED
      BY <3>2 DEF RateTrue
  <2> QED
    BY <2>1, <2>2
<1>11. Tier2Known'
  BY <1>0, <1>3, <1>4 DEF LoopTyped, Tier2Known, InLoop
<1> QED
  BY <1>6, <1>7, <1>9, <1>10, <1>11 DEF LoopInv

LEMMA LoopRounds ==
  ASSUME LoopInv, Round
  PROVE  LoopInv'
<1> DEFINE t == [step |-> "spawned", deep |-> FALSE]
<1>0. LoopTyped /\ ClockKnown /\ SampleKnown /\ Tier2Known
  BY DEF LoopInv
<1>1. /\ stage = "round" /\ stage' = "wait"
      /\ UNCHANGED <<wall, shows, baseline, sampledAt, tickAt, payload, attempt, newestRow, rows, told, lastDeep, scanAt>>
      /\ \/ ~tier2Running /\ tier2Running' = TRUE /\ tier2Tasks' = Append(tier2Tasks, t)
         \/ UNCHANGED <<tier2Running, tier2Tasks>>
  BY DEF Round, SpawnTier2, Tier2Free, clockVars, postVars
<1>2. t \in Tier2Task /\ t.step = "spawned"
  BY DEF Tier2Task
<1>3. /\ tier2Tasks' \in Seq(Tier2Task) /\ tier2Running' \in BOOLEAN /\ Len(tier2Tasks') <= 1
      /\ ~tier2Running' => tier2Tasks' = <<>>
      /\ (\A i \in DOMAIN tier2Tasks' : tier2Tasks'[i].step = "spawned" \/ ~tier2Tasks'[i].deep) => scanAt <= lastDeep
  <2>1. CASE ~tier2Running /\ tier2Running' = TRUE /\ tier2Tasks' = Append(tier2Tasks, t)
    <3>1. tier2Tasks = <<>>
      BY <1>0, <2>1 DEF Tier2Known
    <3>2. scanAt <= lastDeep
      BY <1>0, <1>1, <3>1 DEF Tier2Known, InLoop
    <3> HIDE DEF t
    <3>3. tier2Tasks' \in Seq(Tier2Task) /\ Len(tier2Tasks') = 1
      BY <1>2, <2>1, <3>1
    <3> QED
      BY <2>1, <3>2, <3>3
  <2>2. CASE UNCHANGED <<tier2Running, tier2Tasks>>
    BY <1>0, <1>1, <2>2 DEF LoopTyped, Tier2Known, InLoop
  <2> QED
    BY <1>1, <2>1, <2>2
<1> HIDE DEF t
<1>4. LoopTyped'
  BY <1>0, <1>1, <1>3 DEF LoopTyped, InLoop, Posting
<1>5. ClockKnown'
  BY <1>0, <1>1 DEF ClockKnown, InLoop
<1>6. SampleKnown' /\ RateTrue' /\ PostTimed'
  BY <1>0, <1>1 DEF SampleKnown, RateTrue, PostTimed
<1>7. Tier2Known'
  BY <1>0, <1>1, <1>3 DEF Tier2Known, InLoop
<1> QED
  BY <1>4, <1>5, <1>6, <1>7 DEF LoopInv

LEMMA LoopEnds ==
  ASSUME LoopInv, Shutdown
  PROVE  LoopInv'
<1>0. LoopTyped /\ SampleKnown
  BY DEF LoopInv
<1>1. /\ stage' = "off" /\ wall' = 0 /\ baseline' = NoReading /\ sampledAt' = 0 /\ tickAt' = 0 /\ attempt' = 0
      /\ tier2Running' = FALSE /\ tier2Tasks' = <<>> /\ lastDeep' = 0 /\ UNCHANGED <<shows, newestRow, rows, told, scanAt>>
  BY DEF Shutdown
<1>2. <<>> \in Seq(Tier2Task) /\ Len(<<>>) = 0
  OBVIOUS
<1>3. LoopTyped'
  <2>1. wall' \in Nat /\ shows' \in 0..(Word - 1) /\ sampledAt' \in Nat /\ tickAt' \in Nat /\ newestRow' \in Int
    BY <1>0, <1>1 DEF LoopTyped
  <2>2. attempt' \in 0..MaxRetries /\ attempt' = 0 /\ stage' = "off"
    BY <1>1 DEF MaxRetries
  <2>3. tier2Running' \in BOOLEAN /\ tier2Tasks' \in Seq(Tier2Task) /\ lastDeep' \in Int /\ scanAt' \in Int
    <3>1. tier2Running' \in BOOLEAN /\ tier2Tasks' \in Seq(Tier2Task)
      BY <1>1, NoTasks
    <3>2. lastDeep' \in Int /\ scanAt' \in Int
      BY <1>0, <1>1 DEF LoopTyped
    <3> QED
      BY <3>1, <3>2
  <2> QED
    BY <2>1, <2>2, <2>3 DEF LoopTyped
<1>6. Tier2Known'
  BY <1>1, <1>2 DEF Tier2Known, InLoop
<1>4. ClockKnown'
  BY <1>1 DEF ClockKnown, Readings, InLoop
<1>5. SampleKnown' /\ RateTrue' /\ PostTimed'
  BY <1>0, <1>1 DEF SampleKnown, RateTrue, PostTimed
<1> QED
  BY <1>3, <1>4, <1>5, <1>6 DEF LoopInv

LEMMA CollectionMoves ==
  ASSUME LoopInv, Tier2Collect \/ Tier2End
  PROVE  LoopInv' /\ Len(tier2Tasks') <= 1 /\ (scanAt' # scanAt => scanAt' - scanAt >= HeavyEvery)
<1>0. LoopTyped /\ ClockKnown /\ SampleKnown /\ Tier2Known
  BY DEF LoopInv
<1>1. UNCHANGED <<wall, stage, shows, baseline, sampledAt, tickAt, payload, attempt, newestRow, rows, told>>
  BY DEF Tier2Collect, Tier2End, clockVars, postVars
<1>2. PICK i \in DOMAIN tier2Tasks : tier2Tasks[i].step \in {"spawned", "collecting"}
  BY DEF Tier2Collect, Tier2End
<1>3. DOMAIN tier2Tasks = {1} /\ Len(tier2Tasks) = 1 /\ tier2Tasks[1] \in Tier2Task /\ tier2Tasks # <<>> /\ tier2Running
  <2>1. tier2Tasks \in Seq(Tier2Task) /\ Len(tier2Tasks) <= 1 /\ (~tier2Running => tier2Tasks = <<>>)
    BY <1>0 DEF LoopTyped, Tier2Known
  <2>2. DOMAIN tier2Tasks = 1..Len(tier2Tasks) /\ Len(tier2Tasks) \in Nat /\ tier2Tasks # <<>>
    BY <1>2, <2>1, LenProperties
  <2>3. Len(tier2Tasks) = 1
    BY <1>2, <2>1, <2>2
  <2> QED
    BY <2>1, <2>2, <2>3
<1>4. stage \in InLoop
  BY <1>0, <1>3 DEF LoopTyped, ClockKnown, Tier2Collect, Tier2End, Tier2Moves
<1>5. scanAt <= wall /\ (tier2Tasks[1].step = "spawned" \/ ~tier2Tasks[1].deep => scanAt <= lastDeep)
  BY <1>0, <1>3, <1>4 DEF Tier2Known
<1>6. CASE Tier2Collect
  <2> DEFINE deep == wall - lastDeep >= HeavyEvery
             t == [step |-> "collecting", deep |-> deep]
  <2>1. /\ tier2Tasks' = [tier2Tasks EXCEPT ![1] = t] /\ tier2Tasks[1].step = "spawned"
        /\ scanAt' = IF deep THEN wall ELSE scanAt
        /\ UNCHANGED <<tier2Running, lastDeep>>
    BY <1>3, <1>6 DEF Tier2Collect
  <2>2. t \in Tier2Task /\ t.deep = deep
    BY DEF Tier2Task
  <2>3. /\ tier2Tasks' \in Seq(Tier2Task) /\ Len(tier2Tasks') = 1 /\ tier2Tasks'[1] = t /\ DOMAIN tier2Tasks' = {1}
    <3> HIDE DEF t
    <3>1. tier2Tasks' \in Seq(Tier2Task) /\ Len(tier2Tasks') = 1 /\ tier2Tasks'[1] = t
      BY <1>0, <1>3, <2>1, <2>2, ExceptSeq DEF LoopTyped
    <3> QED
      BY <3>1, LenProperties
  <2>4. scanAt' # scanAt => scanAt' - scanAt >= HeavyEvery
    BY <1>0, <1>5, <2>1, LoopConstants DEF LoopTyped
  <2>5. scanAt' \in Int /\ scanAt' <= wall /\ (~deep => scanAt' <= lastDeep)
    BY <1>0, <1>5, <2>1 DEF LoopTyped
  <2>6. Tier2Known'
    <3>1. t.step = "collecting"
      OBVIOUS
    <3> HIDE DEF t, deep
    <3>4. tier2Running'
      BY <1>3, <2>1, Zenon
    <3>2. tier2Tasks'[1].step # "spawned" /\ tier2Tasks'[1].deep = deep /\ Len(tier2Tasks') <= 1
      BY <2>2, <2>3, <3>1
    <3>3. (\A j \in DOMAIN tier2Tasks' : tier2Tasks'[j].step = "spawned" \/ ~tier2Tasks'[j].deep) => scanAt' <= lastDeep'
      BY <2>1, <2>3, <2>5, <3>2
    <3> QED
      BY <1>1, <2>5, <3>2, <3>3, <3>4 DEF Tier2Known
  <2> HIDE DEF t, deep
  <2>7. LoopTyped'
    BY <1>0, <1>1, <2>1, <2>3, <2>5 DEF LoopTyped
  <2>8. ClockKnown' /\ SampleKnown' /\ RateTrue' /\ PostTimed'
    BY <1>0, <1>1, <1>4 DEF LoopInv, ClockKnown, SampleKnown, RateTrue, PostTimed, InLoop
  <2> QED
    BY <2>3, <2>4, <2>6, <2>7, <2>8 DEF LoopInv
<1>7. CASE Tier2End
  <2>1. /\ tier2Tasks' = RemoveAt(tier2Tasks, 1) /\ lastDeep' = (IF tier2Tasks[1].deep THEN wall ELSE lastDeep)
        /\ tier2Running' = FALSE /\ UNCHANGED scanAt
    BY <1>3, <1>7 DEF Tier2End
  <2>2. tier2Tasks' = <<>>
    BY <1>0, <1>3, <2>1 DEF RemoveAt, LoopTyped
  <2>3. <<>> \in Seq(Tier2Task) /\ Len(<<>>) = 0 /\ DOMAIN <<>> = {}
    OBVIOUS
  <2>4. scanAt <= lastDeep' /\ lastDeep' \in Int
    BY <1>0, <1>5, <2>1 DEF LoopTyped
  <2>5. LoopTyped'
    BY <1>0, <1>1, <2>1, <2>2, <2>3, <2>4 DEF LoopTyped
  <2>7. Tier2Known'
    BY <1>1, <1>5, <2>1, <2>2, <2>3, <2>4 DEF Tier2Known
  <2>6. ClockKnown' /\ SampleKnown' /\ RateTrue' /\ PostTimed'
    BY <1>0, <1>1, <1>4 DEF LoopInv, ClockKnown, SampleKnown, RateTrue, PostTimed, InLoop
  <2> QED
    BY <2>1, <2>2, <2>3, <2>5, <2>6, <2>7 DEF LoopInv
<1> QED
  BY <1>6, <1>7

\* A request, and what follows it.
LEMMA LoopPosts ==
  ASSUME LoopInv, Post, Patient
  PROVE  LoopInv'
<1>0. LoopTyped /\ ClockKnown /\ SampleKnown /\ Tier2Known /\ PostTimed /\ RateTrue
  BY DEF LoopInv
<1>1. PICK d \in AttemptTimes : \E outcome \in Outcomes(wall + d) :
         /\ IF stage = "ingest" /\ outcome \in {"ok", "unheard"} THEN Insert(payload.ts) ELSE UNCHANGED <<newestRow, rows>>
         /\ told' = (told \/ (stage = "ingest" /\ outcome = "ok"))
         /\ IF outcome \in {"unheard", "unreached"} /\ attempt < MaxRetries
            THEN /\ attempt' = attempt + 1 /\ wall' = wall + d + Backoff(attempt)
                 /\ UNCHANGED <<stage, payload, identityAt>>
            ELSE wall' = wall + d /\ PostDone(wall + d)
  BY DEF Post
<1>2. /\ stage \in Posting /\ UNCHANGED <<shows, baseline, sampledAt, tickAt, tier2Running, tier2Tasks, lastDeep, scanAt>>
  BY DEF Post, Posting, clockVars, tier2Vars
<1>3. d \in Nat /\ 6 * d + 31 <= SkewLimit /\ SkewLimit \in Nat /\ wall \in Nat /\ newestRow \in Int /\ sampledAt \in Nat
  BY <1>0, LoopConstants DEF Patient, LoopTyped
<1>4. /\ newestRow' \in Int
      /\ stage = "ingest" => \/ rows' = {} /\ newestRow' < sampledAt /\ newestRow' = newestRow
                             \/ rows' = {sampledAt} /\ newestRow' = sampledAt
      /\ stage # "ingest" => UNCHANGED <<rows, newestRow>>
      /\ told' => rows' # {}
      /\ rows' = {} \/ \E ts : rows' = {ts}
  <2>1. CASE stage # "ingest"
    BY <1>0, <1>1, <1>3, <2>1 DEF SampleKnown
  <2>2. CASE stage = "ingest"
    <3>1. PICK outcome : /\ IF outcome \in {"ok", "unheard"} THEN Insert(payload.ts) ELSE UNCHANGED <<newestRow, rows>>
                         /\ told' = (told \/ outcome = "ok")
      BY <1>1, <2>2
    <3>2. payload.ts = sampledAt /\ ((rows = {} /\ newestRow < sampledAt) \/ (rows = {sampledAt} /\ newestRow = sampledAt))
      BY <1>0, <2>2 DEF SampleKnown
    <3>3. CASE outcome \in {"ok", "unheard"}
      <4>1. rows' = {sampledAt} /\ newestRow' = sampledAt
        BY <1>3, <3>1, <3>2, <3>3 DEF Insert
      <4> QED
        BY <1>3, <2>2, <4>1
    <3>4. CASE outcome \notin {"ok", "unheard"}
      BY <1>0, <1>3, <2>2, <3>1, <3>2, <3>4 DEF SampleKnown
    <3> QED
      BY <3>3, <3>4
  <2> QED
    BY <2>1, <2>2
<1>5. CASE /\ attempt < MaxRetries /\ attempt' = attempt + 1 /\ wall' = wall + d + Backoff(attempt)
           /\ UNCHANGED <<stage, payload, identityAt>>
  <2>1. attempt \in {0, 1, 2, 3, 4} /\ attempt' \in 0..MaxRetries
    BY <1>0, <1>5 DEF LoopTyped, MaxRetries
  <2>2. Backoff(attempt) \in Nat
    BY <2>1, BackoffIs
  <2>3. wall' \in Nat /\ wall' >= wall
    BY <1>3, <1>5, <2>2
  <2>4. LoopTyped'
    BY <1>0, <1>2, <1>4, <1>5, <2>1, <2>3 DEF LoopTyped
  <2>5. ClockKnown' /\ Tier2Known'
    BY <1>0, <1>2, <1>3, <1>4, <1>5, <2>3 DEF LoopTyped, ClockKnown, Tier2Known, InLoop
  <2>6. SampleKnown' /\ RateTrue'
    BY <1>0, <1>2, <1>4, <1>5 DEF SampleKnown, RateTrue
  <2>7. PostTimed'
    <3> SUFFICES ASSUME stage = "ingest" PROVE PostTimed'
      BY <1>5 DEF PostTimed
    <3>1. payload.ts \in Nat /\ payload' = payload
      BY <1>0, <1>3, <1>5 DEF SampleKnown
    <3>2. CASE attempt = 0
      BY <1>0, <1>3, <1>5, <3>1, <3>2, BackoffIs DEF PostTimed
    <3>3. CASE attempt = 1
      BY <1>0, <1>3, <1>5, <3>1, <3>3, BackoffIs DEF PostTimed
    <3>4. CASE attempt = 2
      BY <1>0, <1>3, <1>5, <3>1, <3>4, BackoffIs DEF PostTimed
    <3>5. CASE attempt = 3
      BY <1>0, <1>3, <1>5, <3>1, <3>5, BackoffIs DEF PostTimed
    <3>6. CASE attempt = 4
      BY <1>0, <1>3, <1>5, <3>1, <3>6, BackoffIs DEF PostTimed
    <3> QED
      BY <2>1, <3>2, <3>3, <3>4, <3>5, <3>6
  <2> QED
    BY <2>4, <2>5, <2>6, <2>7 DEF LoopInv
<1>6. CASE wall' = wall + d /\ PostDone(wall + d)
  <2>1. attempt' = 0 /\ stage' \in {"seed", "reidentify", "round"} /\ (stage' = "seed" <=> stage = "identity")
        /\ (stage # "identity" => stage \in InLoop /\ stage' \in InLoop)
    BY <1>2, <1>6 DEF PostDone, Posting, InLoop
  <2>2. wall' \in Nat /\ wall' >= wall
    BY <1>3, <1>6
  <2>3. LoopTyped'
    BY <1>0, <1>2, <1>4, <2>1, <2>2 DEF LoopTyped, InLoop, Posting, MaxRetries
  <2>4. ClockKnown'
    <3>1. CASE stage = "identity"
      BY <1>0, <1>2, <1>4, <2>1, <3>1 DEF ClockKnown, InLoop
    <3>2. CASE stage # "identity"
      BY <1>0, <1>2, <1>3, <1>4, <2>1, <2>2, <3>2 DEF ClockKnown, InLoop
    <3> QED
      BY <3>1, <3>2
  <2>5. Tier2Known'
    <3>1. CASE stage = "identity"
      BY <1>0, <1>2, <2>1, <3>1 DEF Tier2Known, InLoop
    <3>2. CASE stage # "identity"
      BY <1>0, <1>2, <2>1, <2>2, <3>2 DEF LoopTyped, Tier2Known
    <3> QED
      BY <3>1, <3>2
  <2>6. SampleKnown' /\ RateTrue' /\ PostTimed'
    BY <1>4, <2>1 DEF SampleKnown, RateTrue, PostTimed
  <2> QED
    BY <2>3, <2>4, <2>5, <2>6 DEF LoopInv
<1> QED
  BY <1>1, <1>5, <1>6

LEMMA LoopStays ==
  ASSUME LoopInv, LoopNext, Patient
  PROVE  LoopInv'
BY LoopSeeds, LoopTicks, LoopRounds, LoopEnds, CollectionMoves, LoopPosts DEF LoopNext

LEMMA LoopStarts == LoopInit => LoopInv
<1> SUFFICES ASSUME LoopInit PROVE LoopInv
  OBVIOUS
<1>1. <<>> \in Seq(Tier2Task) /\ Len(<<>>) = 0
  OBVIOUS
<1>2. LoopTyped
  <2>1. Word - 1 \in 0..(Word - 1) /\ -HeavyEvery \in Int /\ -1 \in Int
    BY LoopConstants
  <2>2. wall \in Nat /\ shows \in 0..(Word - 1) /\ sampledAt \in Nat /\ tickAt \in Nat /\ newestRow \in Int
    BY <2>1 DEF LoopInit
  <2>3. stage = "identity" /\ attempt = 0 /\ attempt \in 0..MaxRetries
    BY DEF LoopInit, MaxRetries
  <2>4. tier2Running \in BOOLEAN /\ tier2Tasks \in Seq(Tier2Task) /\ lastDeep \in Int /\ scanAt \in Int
    <3>1. tier2Running \in BOOLEAN /\ tier2Tasks \in Seq(Tier2Task)
      BY NoTasks DEF LoopInit
    <3>2. lastDeep \in Int /\ scanAt \in Int
      BY <2>1 DEF LoopInit
    <3> QED
      BY <3>1, <3>2
  <2> QED
    BY <2>2, <2>3, <2>4 DEF LoopTyped, Posting
<1>5. Tier2Known
  BY <1>1 DEF LoopInit, Tier2Known, InLoop
<1>3. ClockKnown
  BY LoopConstants DEF LoopInit, ClockKnown, Readings, InLoop
<1>4. SampleKnown /\ RateTrue /\ PostTimed
  BY DEF LoopInit, SampleKnown, RateTrue, PostTimed
<1> QED
  BY <1>2, <1>3, <1>4, <1>5 DEF LoopInv

LEMMA LoopInductive ==
  ASSUME Patient
  PROVE  LoopSpec => []LoopInv
<1>1. LoopInv /\ [LoopNext]_loopVars => LoopInv'
  <2>1. LoopInv /\ UNCHANGED loopVars => LoopInv'
    <3> SUFFICES ASSUME LoopInv, UNCHANGED loopVars PROVE LoopInv'
      OBVIOUS
    <3>1. LoopTyped' /\ ClockKnown'
      BY DEF loopVars, clockVars, postVars, tier2Vars, LoopInv, LoopTyped, ClockKnown
    <3>2. SampleKnown' /\ RateTrue' /\ PostTimed'
      BY DEF loopVars, clockVars, postVars, LoopInv, SampleKnown, RateTrue, PostTimed
    <3>3. Tier2Known'
      BY DEF loopVars, tier2Vars, LoopInv, Tier2Known
    <3> QED
      BY <3>1, <3>2, <3>3 DEF LoopInv
  <2> QED
    BY <2>1, LoopStays
<1> QED
  BY LoopStarts, <1>1, PTL DEF LoopSpec

\* For any timers, counters and requests that are patient: what the probe reports through
\* failed posts, late ticks and counters that wrap is true, stored once and in time.
THEOREM SamplesStayTrue ==
  ASSUME Patient
  PROVE  LoopSpec => []SamplesTrue
<1>1. ASSUME LoopInv PROVE SamplesTrue
  <2>0. LoopTyped /\ SampleKnown /\ RateTrue /\ PostTimed
    BY <1>1 DEF LoopInv
  <2>1. StoredOnce
    <3>1. CASE rows = {}
      BY <2>0, <3>1, FS_EmptySet DEF SampleKnown, StoredOnce
    <3>2. CASE rows # {}
      <4>1. PICK ts : rows = {ts}
        BY <2>0, <3>2 DEF SampleKnown
      <4>2. Cardinality(rows) = 1
        BY <4>1, FS_Singleton
      <4> QED
        BY <2>0, <3>2, <4>2 DEF SampleKnown, StoredOnce
    <3> QED
      BY <3>1, <3>2
  <2>2. RetriedInTime
    <3> SUFFICES ASSUME stage = "ingest", NEW d \in AttemptTimes PROVE ~TooOld(wall + d)
      BY DEF RetriedInTime
    <3>1. d \in Nat /\ 6 * d + 31 <= SkewLimit /\ SkewLimit \in Nat /\ wall \in Nat /\ payload.ts \in Nat
          /\ attempt \in {0, 1, 2, 3, 4, 5}
      BY <2>0, LoopConstants DEF Patient, LoopTyped, SampleKnown, MaxRetries
    <3>2. (wall + d) - payload.ts <= SkewLimit
      BY <2>0, <3>1 DEF PostTimed
    <3> QED
      BY <3>1, <3>2 DEF TooOld
  <2> QED
    BY <2>0, <2>1, <2>2 DEF SamplesTrue
<1> QED
  BY <1>1, LoopInductive, PTL

\* For any duration of collections and posts: no two collections of tier 2 run at once, and
\* scans of the disks begin a heavy interval apart (main.rs).
THEOREM ScansStaySpaced ==
  ASSUME Patient
  PROVE  LoopSpec => ScansSpaced
<1>1. ASSUME LoopInv, [LoopNext]_loopVars
      PROVE  [Len(tier2Tasks') <= 1 /\ (scanAt' # scanAt => scanAt' - scanAt >= HeavyEvery)]_loopVars
  <2>1. CASE LoopNext
    <3>1. Len(tier2Tasks') <= 1
      BY <1>1, <2>1, LoopStays DEF LoopInv, Tier2Known
    <3>2. CASE Tier2Collect \/ Tier2End
      BY <1>1, <3>2, CollectionMoves
    <3>3. CASE ~(Tier2Collect \/ Tier2End)
      BY <2>1, <3>1, <3>3 DEF LoopNext, Post, Seed, Tick, Round, Shutdown, tier2Vars
    <3> QED
      BY <3>2, <3>3
  <2> QED
    BY <1>1, <2>1
<1> QED
  BY <1>1, LoopInductive, PTL DEF LoopSpec, ScansSpaced

-----------------------------------------------------------------------------
(****************************************************************************)
(* RecordingSanitizer, for any names, public names and pool.                *)
(****************************************************************************)

\* What holds of each section: its names of a collected kind are looked through, and no time
\* is among its numbers.
SectionSound(name, section) ==
    /\ "plain" \notin DOMAIN section
    /\ \A k \in CollectedKinds : k \in DOMAIN section => name \in CollectedFrom[k]
    /\ "number" \in DOMAIN section => \A f \in section.number : f \notin Times

LEMMA SourcesAre ==
  /\ CollectedKinds = {"iface", "device", "mount", "path", "domain", "unit", "process", "server"}
  /\ CollectedFrom.iface = {"interfaces", "report", "point"} /\ CollectedFrom.device = {"disks", "point"}
  /\ CollectedFrom.mount = {"point", "report"} /\ CollectedFrom.path = {"disk_deep"}
  /\ CollectedFrom.domain = {"websites", "detail", "tier2"} /\ CollectedFrom.unit = {"systemd"}
  /\ CollectedFrom.process = {"ports", "process"} /\ CollectedFrom.server = {"connectivity", "report"}
BY DEF CollectedKinds, CollectedFrom

LEMMA SectionsAreSound ==
  \A s \in DOMAIN Sections : SectionSound(s, Sections[s])
<1>1. SectionSound("sparkline", SanitizeSparkline)
  BY SourcesAre DEF SectionSound, SanitizeSparkline, Times
<1>2. SectionSound("interfaces", SanitizeInterfaces)
  BY SourcesAre DEF SectionSound, SanitizeInterfaces, Times
<1>3. SectionSound("disks", SanitizeDisks)
  BY SourcesAre DEF SectionSound, SanitizeDisks, Times
<1>4. SectionSound("process", SanitizeProcess)
  BY SourcesAre DEF SectionSound, SanitizeProcess, Times
<1>5. SectionSound("detail", SanitizeDetail)
  BY SourcesAre DEF SectionSound, SanitizeDetail, Times
<1>6. SectionSound("point", SanitizeMetricPoint)
  BY SourcesAre DEF SectionSound, SanitizeMetricPoint, Times, MetricFields
<1>7. SectionSound("metrics", SanitizeMetrics)
  BY SourcesAre DEF SectionSound, SanitizeMetrics, Times
<1>8. SectionSound("ports", SanitizePorts)
  BY SourcesAre DEF SectionSound, SanitizePorts, Times
<1>9. SectionSound("systemd", SanitizeSystemd)
  BY SourcesAre DEF SectionSound, SanitizeSystemd, Times
<1>10. SectionSound("security", SanitizeSecurity)
  BY SourcesAre DEF SectionSound, SanitizeSecurity, Times
<1>11. SectionSound("docker", SanitizeDocker)
  BY SourcesAre DEF SectionSound, SanitizeDocker, Times
<1>12. SectionSound("disk_deep", SanitizeDiskDeep)
  BY SourcesAre DEF SectionSound, SanitizeDiskDeep, Times
<1>13. SectionSound("software", SanitizeSoftware)
  BY SourcesAre DEF SectionSound, SanitizeSoftware, Times
<1>14. SectionSound("websites", SanitizeWebsites)
  BY SourcesAre DEF SectionSound, SanitizeWebsites, Times
<1>15. SectionSound("tier2", SanitizeTier2)
  BY SourcesAre DEF SectionSound, SanitizeTier2, Times
<1>16. SectionSound("report", SanitizeReport)
  BY SourcesAre DEF SectionSound, SanitizeReport, Times
<1>17. SectionSound("workstation", SanitizeWorkstation)
  BY SourcesAre DEF SectionSound, SanitizeWorkstation, Times
<1>18. SectionSound("history", SanitizeWorkstationMetrics)
  BY SourcesAre DEF SectionSound, SanitizeWorkstationMetrics, Times
<1>19. SectionSound("connectivity", SanitizeConnectivity)
  BY SourcesAre DEF SectionSound, SanitizeConnectivity, Times
<1>20. SectionSound("port", SanitizeAllowedPort)
  BY SourcesAre DEF SectionSound, SanitizeAllowedPort, Times
<1>21. SectionSound("tag", SanitizeTag)
  BY SourcesAre DEF SectionSound, SanitizeTag, Times
<1>22. /\ DOMAIN Sections = {"sparkline", "interfaces", "disks", "process", "detail", "point", "metrics", "ports", "systemd", "security", "docker", "disk_deep", "software", "websites", "tier2", "report", "workstation", "history", "connectivity", "port", "tag"}
       /\ Sections.sparkline = SanitizeSparkline
       /\ Sections.interfaces = SanitizeInterfaces
       /\ Sections.disks = SanitizeDisks
       /\ Sections.process = SanitizeProcess
       /\ Sections.detail = SanitizeDetail
       /\ Sections.point = SanitizeMetricPoint
       /\ Sections.metrics = SanitizeMetrics
       /\ Sections.ports = SanitizePorts
       /\ Sections.systemd = SanitizeSystemd
       /\ Sections.security = SanitizeSecurity
       /\ Sections.docker = SanitizeDocker
       /\ Sections.disk_deep = SanitizeDiskDeep
       /\ Sections.software = SanitizeSoftware
       /\ Sections.websites = SanitizeWebsites
       /\ Sections.tier2 = SanitizeTier2
       /\ Sections.report = SanitizeReport
       /\ Sections.workstation = SanitizeWorkstation
       /\ Sections.history = SanitizeWorkstationMetrics
       /\ Sections.connectivity = SanitizeConnectivity
       /\ Sections.port = SanitizeAllowedPort
       /\ Sections.tag = SanitizeTag
  BY DEF Sections
<1> QED
  BY <1>1, <1>2, <1>3, <1>4, <1>5, <1>6, <1>7, <1>8, <1>9, <1>10, <1>11, <1>12, <1>13, <1>14, <1>15, <1>16, <1>17, <1>18, <1>19, <1>20, <1>21, <1>22

\* ---- Names, keys and aliases ----

LEMMA KindsAre ==
  /\ CollectedKinds \cap ExactKinds = {} /\ "ip" \notin CollectedKinds /\ "user" \notin CollectedKinds \cup GrowingKinds
  /\ "plain" \notin NameKinds /\ BlankKinds \subseteq GrowingKinds /\ "server" \in CollectedKinds \cap BlankKinds
  /\ "server" \notin KeepingKinds /\ "ip" \notin BlankKinds
BY SourcesAre DEF NameKinds, ExactKinds, GrowingKinds, BlankKinds, KeepingKinds

LEMMA KeyIsName ==
  ASSUME NEW raw \in Raws \cup {Blank}
  PROVE  /\ Key(raw).name = raw.name /\ Key(raw) \in Raws \cup {Blank}
         /\ raw \in Raws => Key(raw) \in Raws /\ Key(raw) # Blank /\ raw.name \in 1..NameCount
         /\ raw = Blank => Key(raw) = Blank
         /\ kind \notin ExactKinds => Key(raw) = [name |-> raw.name, form |-> "plain"]
BY SanitizerAssumption DEF Key, Raws, Blank

\* A name's place among the names that take a number.
Place(C, n) == Cardinality({m \in C : m <= n})

LEMMA PlacesDiffer ==
  ASSUME NEW C \in SUBSET (1..NameCount)
  PROVE  /\ Cardinality(C) \in Nat
         /\ \A a \in C : Place(C, a) \in 1..Cardinality(C)
         /\ \A a, b \in C : Place(C, a) = Place(C, b) => a = b
<1> DEFINE Upto(n) == {m \in C : m <= n}
<1>1. IsFiniteSet(C) /\ Cardinality(C) \in Nat
  <2>1. IsFiniteSet(1..NameCount)
    BY FS_Interval, SanitizerAssumption
  <2> QED
    BY <2>1, FS_Subset, FS_CardinalityType
<1>2. \A n \in C : IsFiniteSet(Upto(n)) /\ Cardinality(Upto(n)) \in Nat /\ Cardinality(Upto(n)) <= Cardinality(C)
  <2>1. \A n \in C : Upto(n) \subseteq C
    OBVIOUS
  <2> QED
    BY <2>1, <1>1, FS_Subset, FS_CardinalityType
<1>3. \A n \in C : Cardinality(Upto(n)) # 0
  <2>1. \A n \in C : n \in Upto(n)
    BY SanitizerAssumption
  <2> QED
    BY <2>1, <1>2, FS_EmptySet
<1>4. ASSUME NEW a \in C, NEW b \in C, a < b
      PROVE  Cardinality(Upto(a)) # Cardinality(Upto(b))
  <2>0. \A m \in C : m \in Int
    BY SanitizerAssumption
  <2>a. a < b
    BY <1>4
  <2>b. (\A m \in C : m <= a => m <= b) /\ b <= b /\ ~(b <= a)
    BY <2>0, <2>a
  <2>1. Upto(a) \subseteq Upto(b)
    BY <2>b
  <2>2. b \in Upto(b) /\ b \notin Upto(a)
    BY <2>b
  <2>3. Cardinality(Upto(b)) = Cardinality(Upto(a)) => Upto(b) = Upto(a)
    BY <2>1, <1>2, FS_Subset
  <2> QED
    BY <2>2, <2>3
<1>5. \A a, b \in C : a # b => a < b \/ b < a
  BY SanitizerAssumption
<1> QED
  BY <1>1, <1>2, <1>3, <1>4, <1>5 DEF Place

-----------------------------------------------------------------------------
(* The invariant.                                                          *)

PoolLasts == kind = "ip" => given <= Pool

\* An entry of the table keeps a public name or hides a private one behind a number.
EntrySound(k) ==
    /\ k \in Raws \/ (k = Blank /\ kind \in BlankKinds)
    /\ Kept(k.name) => table[k].as = "kept" /\ table[k].id \in PublicNames \cup {0}
    /\ ~Kept(k.name) => table[k].as = "alias"
    /\ ~Kept(k.name) /\ PoolLasts => table[k].id \in 1..given

\* No number is behind two names.
NumbersDiffer ==
    PoolLasts => \A k, l \in DOMAIN table : ~Kept(k.name) /\ ~Kept(l.name) /\ table[k] = table[l] => k = l

\* Every name of the sections has been looked through.
LookedThrough ==
    kind \in CollectedKinds /\ written \in {"context", "done"} =>
      \A s \in SectionsOf(kind) : \A n \in capture[s] : [name |-> n, form |-> "plain"] \in DOMAIN table

\* What is shown of a name is what the table has, for good; what the table has not is public,
\* or no name at all.
NameShown(x) ==
    /\ x.raw \in Raws \cup {Blank}
    /\ x.out.as = "kept" => x.out.id \in PublicNames \cup {0}
    /\ kind # "user" /\ Key(x.raw) \in DOMAIN table => x.out = table[Key(x.raw)]
    /\ Key(x.raw) \notin DOMAIN table => Kept(x.raw.name) \/ kind \notin GrowingKinds \/ (x.raw = Blank /\ kind \notin BlankKinds)
    /\ x.out.as = "alias" => Kept(x.raw.name) \/ Key(x.raw) \in DOMAIN table
    /\ kind \in CollectedKinds /\ x.raw # Blank => Key(x.raw) \in DOMAIN table

PlainShown(x) == x.out # "secret" /\ (x.field \in Times => x.out # "number")

SanitizerInv ==
    /\ kind \in NameKinds \cup {"plain"} /\ given \in Nat
    /\ kind \in CollectedKinds => capture \in [SectionsOf(kind) -> SUBSET (1..NameCount)]
    /\ written = "raw" => table = <<>> /\ given = 0 /\ shown = {}
    /\ \A k \in DOMAIN table : EntrySound(k)
    /\ NumbersDiffer
    /\ LookedThrough
    /\ kind # "plain" => \A x \in shown : NameShown(x)
    /\ kind = "plain" => \A x \in shown : PlainShown(x)
    /\ kind = "server" /\ written = "done" => targets = TargetAliases

LEMMA InvIsSound == SanitizerInv => RecordingSound
<1> SUFFICES ASSUME SanitizerInv PROVE RecordingSound
  OBVIOUS
<1> USE DEF SanitizerInv
<1>1. NothingLeaks
  BY DEF NothingLeaks, NameShown, PlainShown
<1>2. DistinctAliases
  <2> SUFFICES ASSUME kind \in CollectedKinds \cup GrowingKinds, PoolLasts, NEW x \in shown, NEW y \in shown,
                      ~Kept(x.raw.name), ~Kept(y.raw.name), x.out.as = "alias"
               PROVE  x.out = y.out <=> Key(x.raw) = Key(y.raw)
    BY DEF DistinctAliases, PoolLasts
  <2>1. kind # "user" /\ kind # "plain"
    BY KindsAre DEF NameKinds
  <2>2. NameShown(x) /\ NameShown(y)
    BY <2>1
  <2>3. Key(x.raw) \in DOMAIN table /\ x.out = table[Key(x.raw)] /\ Key(x.raw).name = x.raw.name /\ Key(y.raw).name = y.raw.name
    BY <2>1, <2>2, KeyIsName DEF NameShown
  <2>4. ASSUME x.out = y.out PROVE Key(x.raw) = Key(y.raw)
    <3>1. Key(y.raw) \in DOMAIN table /\ y.out = table[Key(y.raw)]
      BY <2>1, <2>2, <2>4 DEF NameShown
    <3> QED
      BY <3>1, <2>3, <2>4 DEF NumbersDiffer
  <2>5. ASSUME Key(x.raw) = Key(y.raw) PROVE x.out = y.out
    BY <2>1, <2>2, <2>3, <2>5 DEF NameShown
  <2> QED
    BY <2>4, <2>5
<1>3. NamesSurvive
  <2> SUFFICES ASSUME kind \in CollectedKinds, NEW x \in shown, x.raw # Blank PROVE x.out # Nothing
    BY DEF NamesSurvive
  <2>1. kind # "user" /\ kind # "plain"
    BY KindsAre DEF NameKinds
  <2>2. Key(x.raw) \in DOMAIN table /\ x.out = table[Key(x.raw)]
    BY <2>1 DEF NameShown
  <2>3. x.out.as \in {"kept", "alias"}
    BY <2>2 DEF EntrySound
  <2> QED
    BY <2>3 DEF Nothing
<1>4. TargetsCoverLinks
  <2> SUFFICES ASSUME kind = "server", written = "done", NEW x \in shown PROVE x.out.id \in targets
    BY DEF TargetsCoverLinks
  <2>1. kind \in GrowingKinds /\ kind \in BlankKinds /\ kind \notin KeepingKinds
    BY KindsAre
  <2>2. Key(x.raw) \in DOMAIN table /\ x.out = table[Key(x.raw)]
    BY <2>1 DEF NameShown, Kept
  <2> QED
    BY <2>2 DEF TargetAliases
<1> QED
  BY <1>1, <1>2, <1>3, <1>4 DEF RecordingSound

-----------------------------------------------------------------------------
(* The steps.                                                              *)

LEMMA SanitizerStarts == SanitizerInit => SanitizerInv
<1> SUFFICES ASSUME SanitizerInit PROVE SanitizerInv
  OBVIOUS
<1>1. kind \in NameKinds \cup {"plain"} /\ given \in Nat /\ table = <<>> /\ given = 0 /\ shown = {} /\ written = "raw"
  BY DEF SanitizerInit
<1>2. kind \in CollectedKinds => capture \in [SectionsOf(kind) -> SUBSET (1..NameCount)]
  BY DEF SanitizerInit
<1>3. DOMAIN table = {}
  BY <1>1
<1> QED
  BY <1>1, <1>2, <1>3 DEF SanitizerInv, NumbersDiffer, LookedThrough

\* The names are looked through in their order, so each private one takes its place.
LEMMA ContextSound ==
  ASSUME SanitizerInv, CreateContext
  PROVE  SanitizerInv'
<1> DEFINE Found == IF kind \in CollectedKinds THEN UNION {capture[s] : s \in Collected(kind) \cap DOMAIN capture} ELSE {}
           Counted == {n \in Found : ~Kept(n)}
           Entry(n) == IF Kept(n) THEN Keep(n) ELSE Alias(Place(Counted, n))
<1>1. /\ table' = [r \in [name : Found, form : {"plain"}] |-> Entry(r.name)] /\ given' = Cardinality(Counted)
      /\ written' = "context" /\ kind' = kind /\ capture' = capture /\ shown' = {}
  BY DEF CreateContext, SanitizerInv, Place
<1>2. Found \subseteq 1..NameCount
  BY DEF SanitizerInv
<1>3. Counted \in SUBSET (1..NameCount)
  BY <1>2
<1>4. /\ given' \in Nat /\ \A n \in Counted : Place(Counted, n) \in 1..given'
      /\ \A m, n \in Counted : Place(Counted, m) = Place(Counted, n) => m = n
  BY <1>1, <1>3, PlacesDiffer
<1> HIDE DEF Counted
<1>5. \A n \in Found : Kept(n) \/ n \in Counted
  BY DEF Counted
<1>6. \A n : Kept(n)' = Kept(n)
  BY <1>1 DEF Kept
<1>7. ASSUME NEW k \in DOMAIN table'
      PROVE  /\ k \in Raws /\ k = [name |-> k.name, form |-> "plain"] /\ k.name \in Found /\ table'[k] = Entry(k.name)
  BY <1>1, <1>2, <1>7 DEF Raws
<1>8. kind \in CollectedKinds \/ Found = {}
  OBVIOUS
<1> HIDE DEF Found
<1>9. ASSUME NEW k \in DOMAIN table' PROVE EntrySound(k)'
  <2>1. k \in Raws /\ k.name \in Found /\ table'[k] = Entry(k.name) /\ kind # "ip"
    BY <1>7, <1>8, KindsAre
  <2>2. CASE Kept(k.name)
    <3>1. table'[k] = Keep(k.name) /\ k.name \in PublicNames
      BY <2>1, <2>2 DEF Kept
    <3>2. table'[k].as = "kept" /\ table'[k].id \in PublicNames \cup {0}
      BY <3>1, <2>1 DEF Keep
    <3> QED
      BY <2>1, <2>2, <3>2, <1>6, <1>1 DEF EntrySound
  <2>3. CASE ~Kept(k.name)
    <3>1. table'[k] = Alias(Place(Counted, k.name)) /\ k.name \in Counted
      BY <2>1, <2>3, <1>5
    <3>2. table'[k].as = "alias" /\ table'[k].id \in 1..given'
      BY <3>1, <1>4 DEF Alias
    <3> QED
      BY <2>1, <2>3, <3>2, <1>6, <1>1 DEF EntrySound
  <2> QED
    BY <2>2, <2>3
<1>10. ASSUME NEW k \in DOMAIN table', NEW l \in DOMAIN table', ~Kept(k.name), ~Kept(l.name), table'[k] = table'[l]
       PROVE  k = l
  <2>1. k.name \in Counted /\ l.name \in Counted
    BY <1>7, <1>10, <1>5
  <2>2. Alias(Place(Counted, k.name)) = Alias(Place(Counted, l.name))
    BY <1>7, <1>10
  <2>3. k.name = l.name
    BY <2>1, <2>2, <1>4 DEF Alias
  <2> QED
    BY <2>3, <1>7
<1>11. NumbersDiffer'
  BY <1>10, <1>6 DEF NumbersDiffer
<1>12. LookedThrough'
  <2> SUFFICES ASSUME kind \in CollectedKinds, NEW s \in SectionsOf(kind), NEW n \in capture[s]
               PROVE  [name |-> n, form |-> "plain"] \in DOMAIN table'
    BY <1>1 DEF LookedThrough, SectionsOf
  <2>1. s \in CollectedFrom[kind] /\ s \in DOMAIN capture
    BY SectionsAreSound DEF SectionsOf, SectionSound, SanitizerInv
  <2>2. n \in Found
    BY <2>1 DEF Collected, Found
  <2> QED
    BY <2>2, <1>1
<1>13. kind' \in CollectedKinds => capture' \in [SectionsOf(kind') -> SUBSET (1..NameCount)]
  BY <1>1 DEF SanitizerInv
<1>14. kind' \in NameKinds \cup {"plain"}
  BY <1>1 DEF SanitizerInv
<1> QED
  BY <1>1, <1>4, <1>9, <1>11, <1>12, <1>13, <1>14 DEF SanitizerInv

\* What is shown of a name of the table, or of a public one.
LEMMA KnownSound ==
  ASSUME SanitizerInv, NEW raw \in Raws \cup {Blank}, VisitKnown(raw), kind # "plain", written = "context",
         raw = Blank => kind \in BlankKinds,
         kind \in CollectedKinds /\ raw # Blank => Key(raw) \in DOMAIN table
  PROVE  table' = table /\ given' = given /\ \E out : shown' = shown \cup {[raw |-> raw, out |-> out]} /\ NameShown([raw |-> raw, out |-> out])
<1> DEFINE out == CASE kind = "user" /\ ~Kept(raw.name) -> [as |-> "fixed", id |-> 0]
                    [] kind # "user" /\ Key(raw) \in DOMAIN table -> table[Key(raw)]
                    [] kind \notin GrowingKinds \cup {"user"} /\ Key(raw) \notin DOMAIN table -> Nothing
                    [] OTHER -> Keep(raw.name)
<1>1. /\ table' = table /\ given' = given /\ shown' = shown \cup {[raw |-> raw, out |-> out]}
      /\ Key(raw) \in DOMAIN table \/ Kept(raw.name) \/ kind \notin GrowingKinds
  BY DEF VisitKnown, Shows
<1>2. Key(raw).name = raw.name
  BY KeyIsName
<1>3. CASE kind = "user" /\ ~Kept(raw.name)
  <2>1. out = [as |-> "fixed", id |-> 0]
    BY <1>3
  <2> HIDE DEF out
  <2>2. kind \notin GrowingKinds /\ kind \notin CollectedKinds
    BY <1>3, KindsAre
  <2>3. NameShown([raw |-> raw, out |-> out])
    BY <2>1, <2>2, <1>3 DEF NameShown
  <2> QED
    BY <1>1, <2>3
<1>4. CASE kind # "user" /\ Key(raw) \in DOMAIN table
  <2>1. out = table[Key(raw)]
    BY <1>4
  <2> HIDE DEF out
  <2>2. out.as = "kept" => out.id \in PublicNames \cup {0}
    BY <2>1, <1>4 DEF SanitizerInv, EntrySound
  <2>3. NameShown([raw |-> raw, out |-> out])
    BY <2>1, <2>2, <1>4 DEF NameShown
  <2> QED
    BY <1>1, <2>3
<1>5. CASE kind # "user" /\ kind \notin GrowingKinds /\ Key(raw) \notin DOMAIN table
  <2>1. out = [as |-> "nothing", id |-> 0]
    BY <1>5 DEF Nothing
  <2> HIDE DEF out
  <2>2. NameShown([raw |-> raw, out |-> out])
    BY <2>1, <1>5 DEF NameShown
  <2> QED
    BY <1>1, <2>2
<1>6. CASE \/ kind = "user" /\ Kept(raw.name)
           \/ kind # "user" /\ kind \in GrowingKinds /\ Key(raw) \notin DOMAIN table
  <2>1. out = Keep(raw.name)
    BY <1>6
  <2>2. Kept(raw.name)
    BY <1>1, <1>6
  <2> HIDE DEF out
  <2>3. out.as = "kept" => out.id \in PublicNames \cup {0}
    BY <2>1, <2>2 DEF Keep, Kept, Alias
  <2>4. NameShown([raw |-> raw, out |-> out])
    BY <2>2, <2>3, <1>6 DEF NameShown
  <2> QED
    BY <1>1, <2>4
<1> QED
  BY <1>3, <1>4, <1>5, <1>6

\* A name that is met for the first time gets a number that no other has.
LEMMA NewSound ==
  ASSUME SanitizerInv, NEW raw \in Raws \cup {Blank}, VisitNew(raw), kind # "plain", written = "context",
         raw = Blank => kind \in BlankKinds,
         kind' = kind, capture' = capture, written' = written
  PROVE  /\ \A k \in DOMAIN table' : EntrySound(k)'
         /\ NumbersDiffer' /\ LookedThrough' /\ given' \in Nat
         /\ \A x \in shown' : NameShown(x)'
<1> DEFINE new == Key(raw)
<1>1. /\ kind \in GrowingKinds /\ new \notin DOMAIN table /\ ~Kept(raw.name)
      /\ DOMAIN table' = DOMAIN table \cup {new} /\ table'[new] = Alias(NextAlias)
      /\ \A k \in DOMAIN table : table'[k] = table[k]
      /\ given' = given + 1 /\ shown' = shown \cup {[raw |-> raw, out |-> Alias(NextAlias)]}
  BY DEF VisitNew, Shows
<1>2. /\ new.name = raw.name /\ new \in Raws \cup {Blank} /\ (new = Blank => raw = Blank)
  BY KeyIsName
<1> HIDE DEF new
<1>3. given \in Nat /\ given' \in Nat
  BY <1>1 DEF SanitizerInv
<1>4. \A n : Kept(n)' = Kept(n)
  BY DEF Kept
<1>5. \A r : Key(r)' = Key(r)
  BY DEF Key
<1>6. PoolLasts' => PoolLasts /\ NextAlias = given + 1
  <2>1. ASSUME kind = "ip", given' <= Pool PROVE given < Pool /\ given % Pool = given
    BY <2>1, <1>1, <1>3, SanitizerAssumption
  <2> QED
    BY <2>1, <1>3, SanitizerAssumption DEF PoolLasts, NextAlias
<1>7. kind # "user" /\ kind # "plain"
  BY <1>1, KindsAre
<1>8. ASSUME NEW k \in DOMAIN table' PROVE EntrySound(k)'
  <2>1. CASE k \in DOMAIN table
    <3>1. EntrySound(k) /\ table'[k] = table[k]
      BY <2>1, <1>1 DEF SanitizerInv
    <3>2. ASSUME ~Kept(k.name), PoolLasts' PROVE table[k].id \in 1..given'
      BY <3>1, <3>2, <1>6, <1>3, <1>1 DEF EntrySound
    <3> QED
      BY <3>1, <3>2, <1>4 DEF EntrySound
  <2>2. CASE k = new
    <3>1. ~Kept(k.name) /\ table'[k].as = "alias" /\ table'[k].id = NextAlias
      BY <2>2, <1>1, <1>2 DEF Alias
    <3>2. PoolLasts' => NextAlias \in 1..given'
      BY <1>6, <1>3, <1>1
    <3>3. k \in Raws \/ (k = Blank /\ kind \in BlankKinds)
      BY <2>2, <1>2
    <3> QED
      BY <3>1, <3>2, <3>3, <1>4 DEF EntrySound
  <2> QED
    BY <2>1, <2>2, <1>1
<1>9. NumbersDiffer'
  <2> SUFFICES ASSUME PoolLasts', NEW k \in DOMAIN table', NEW l \in DOMAIN table', ~Kept(k.name), ~Kept(l.name), table'[k] = table'[l]
               PROVE  k = l
    BY <1>4 DEF NumbersDiffer
  <2>1. \A e \in DOMAIN table : ~Kept(e.name) => table[e].id \in 1..given
    BY <1>6 DEF SanitizerInv, EntrySound
  <2>2. \A e \in DOMAIN table : ~Kept(e.name) => table'[e] # Alias(NextAlias)
    BY <2>1, <1>1, <1>3, <1>6 DEF Alias
  <2>3. CASE k \in DOMAIN table /\ l \in DOMAIN table
    BY <2>3, <1>1, <1>6 DEF SanitizerInv, NumbersDiffer
  <2> QED
    BY <2>2, <2>3, <1>1
<1>10. LookedThrough'
  BY <1>1 DEF LookedThrough, SanitizerInv, SectionsOf
<1>11. ASSUME NEW x \in shown PROVE NameShown(x)'
  <2>1. NameShown(x) /\ x.raw \in Raws \cup {Blank}
    BY <1>7 DEF SanitizerInv, NameShown
  <2>2. Key(x.raw) # new
    <3> SUFFICES ASSUME Key(x.raw) = new PROVE FALSE
      OBVIOUS
    <3>1. Key(x.raw) \notin DOMAIN table /\ ~Kept(x.raw.name)
      BY <1>1, <1>2, <2>1, KeyIsName
    <3>2. x.raw = Blank /\ kind \notin BlankKinds
      BY <3>1, <2>1, <1>1 DEF NameShown
    <3> QED
      BY <3>2, <1>2, KeyIsName
  <2> QED
    BY <2>1, <2>2, <1>1, <1>4, <1>5 DEF NameShown
<1>12. ASSUME NEW x, x = [raw |-> raw, out |-> Alias(NextAlias)] PROVE NameShown(x)'
  <2>1. x.raw = raw /\ x.out = table'[Key(x.raw)] /\ Key(x.raw) \in DOMAIN table' /\ x.out.as = "alias"
    BY <1>12, <1>1 DEF Alias, new
  <2> QED
    BY <2>1, <1>5 DEF NameShown
<1> QED
  BY <1>1, <1>3, <1>8, <1>9, <1>10, <1>11, <1>12

LEMMA NameVisitSound ==
  ASSUME SanitizerInv, NEW s \in DOMAIN Sections, VisitName(s)
  PROVE  SanitizerInv'
<1>1. /\ written = "context" /\ kind \in DOMAIN Sections[s] /\ kind' = kind /\ capture' = capture /\ written' = written
  BY DEF VisitName
<1>2. kind # "plain"
  BY <1>1, SectionsAreSound DEF SectionSound
<1>3. ASSUME NEW raw \in Raws, kind \in CollectedKinds, raw.name \in capture[s] PROVE Key(raw) \in DOMAIN table
  <2>1. Key(raw) = [name |-> raw.name, form |-> "plain"]
    BY <1>3, KindsAre, KeyIsName
  <2>2. s \in SectionsOf(kind)
    BY <1>1 DEF SectionsOf
  <2> QED
    BY <2>1, <2>2, <1>1, <1>3 DEF SanitizerInv, LookedThrough
<1>4. \A n : Kept(n)' = Kept(n)
  BY <1>1 DEF Kept
<1>5. \A r : Key(r)' = Key(r)
  BY <1>1 DEF Key
\* The table stays, and something sound is shown.
<1>6. ASSUME table' = table, given' = given, NEW x, shown' = shown \cup {x}, NameShown(x) PROVE SanitizerInv'
  <2>1. \A y \in shown' : NameShown(y)'
    <3>1. \A y \in shown' : NameShown(y)
      BY <1>2, <1>6 DEF SanitizerInv
    <3> QED
      BY <3>1, <1>1, <1>4, <1>5, <1>6 DEF NameShown
  <2>2. \A k \in DOMAIN table' : EntrySound(k)'
    BY <1>1, <1>4, <1>6 DEF SanitizerInv, EntrySound, PoolLasts
  <2>3. NumbersDiffer'
    BY <1>1, <1>4, <1>6 DEF SanitizerInv, NumbersDiffer, PoolLasts
  <2>4. LookedThrough'
    BY <1>1, <1>6 DEF SanitizerInv, LookedThrough, SectionsOf
  <2>5. /\ kind' \in NameKinds \cup {"plain"} /\ given' \in Nat
        /\ kind' \in CollectedKinds => capture' \in [SectionsOf(kind') -> SUBSET (1..NameCount)]
    BY <1>1, <1>6 DEF SanitizerInv
  <2> QED
    BY <1>1, <1>2, <2>1, <2>2, <2>3, <2>4, <2>5 DEF SanitizerInv
<1>7. ASSUME NEW raw \in Raws \cup {Blank}, VisitKnown(raw), raw = Blank => kind \in BlankKinds,
             raw # Blank /\ kind \in CollectedKinds => raw.name \in capture[s]
      PROVE  SanitizerInv'
  <2>1. kind \in CollectedKinds /\ raw # Blank => Key(raw) \in DOMAIN table
    BY <1>3, <1>7
  <2>2. PICK out : shown' = shown \cup {[raw |-> raw, out |-> out]} /\ NameShown([raw |-> raw, out |-> out])
    BY <2>1, <1>1, <1>2, <1>7, KnownSound
  <2>3. table' = table /\ given' = given
    BY <1>7 DEF VisitKnown
  <2> QED
    BY <2>2, <2>3, <1>6
<1>8. ASSUME NEW raw \in Raws \cup {Blank}, VisitNew(raw), raw = Blank => kind \in BlankKinds PROVE SanitizerInv'
  <2>1. /\ \A k \in DOMAIN table' : EntrySound(k)'
        /\ NumbersDiffer' /\ LookedThrough' /\ given' \in Nat
        /\ \A x \in shown' : NameShown(x)'
    BY <1>1, <1>2, <1>8, NewSound
  <2>2. /\ kind' \in NameKinds \cup {"plain"}
        /\ kind' \in CollectedKinds => capture' \in [SectionsOf(kind') -> SUBSET (1..NameCount)]
    BY <1>1 DEF SanitizerInv
  <2> QED
    BY <1>1, <1>2, <2>1, <2>2 DEF SanitizerInv
<1>9. ASSUME kind \notin BlankKinds, Shows(Blank, IF kind = "user" THEN [as |-> "fixed", id |-> 0] ELSE Nothing), table' = table, given' = given
      PROVE  SanitizerInv'
  <2> DEFINE out == IF kind = "user" THEN [as |-> "fixed", id |-> 0] ELSE Nothing
             x == [raw |-> Blank, out |-> out]
  <2>1. shown' = shown \cup {x}
    BY <1>9 DEF Shows
  <2>2. out.as \in {"fixed", "nothing"}
    BY DEF Nothing
  <2>3. Key(Blank) = Blank /\ Blank \notin DOMAIN table
    <3>1. Blank \notin Raws
      BY SanitizerAssumption DEF Blank, Raws
    <3> QED
      BY <3>1, <1>9, KeyIsName DEF SanitizerInv, EntrySound
  <2> HIDE DEF out
  <2>4. NameShown(x)
    BY <2>2, <2>3, <1>9 DEF NameShown
  <2> QED
    BY <2>1, <2>4, <1>6, <1>9
<1>10. Blank \notin Raws
  BY SanitizerAssumption DEF Blank, Raws
<1> QED
  BY <1>7, <1>8, <1>9, <1>10 DEF VisitName

\* A plain field shows no text that is private, and an age in place of a time.
LEMMA PlainVisitSound ==
  ASSUME SanitizerInv, NEW s \in DOMAIN Sections, VisitPlain(s)
  PROVE  SanitizerInv'
<1>1. kind = "plain" /\ written = "context" /\ UNCHANGED <<kind, capture, table, given, written>>
  BY DEF VisitPlain
<1>a. PICK t \in PlainTreatments \cap DOMAIN Sections[s] : \E f \in Sections[s][t], v \in Values :
        shown' = {[field |-> f, raw |-> v, out |-> Plain(t, v)]}
  BY DEF VisitPlain
<1>2. PICK f \in Sections[s][t], v \in Values : shown' = {[field |-> f, raw |-> v, out |-> Plain(t, v)]}
  BY <1>a
<1>3. Plain(t, v) # "secret" /\ (Plain(t, v) = "number" => t = "number")
  BY DEF PlainTreatments, Plain, Values
<1>4. t = "number" => f \notin Times
  BY <1>2, SectionsAreSound DEF SectionSound
<1>5. \A x \in shown' : PlainShown(x)
  BY <1>2, <1>3, <1>4 DEF PlainShown
<1>6. \A k \in DOMAIN table' : EntrySound(k)'
  BY <1>1 DEF SanitizerInv, EntrySound, PoolLasts, Kept
<1>7. NumbersDiffer' /\ LookedThrough'
  BY <1>1 DEF SanitizerInv, NumbersDiffer, PoolLasts, Kept, LookedThrough, SectionsOf
<1>8. \A x : PlainShown(x)' = PlainShown(x)
  BY DEF PlainShown
<1>9. /\ kind' \in NameKinds \cup {"plain"} /\ given' \in Nat
      /\ kind' \in CollectedKinds => capture' \in [SectionsOf(kind') -> SUBSET (1..NameCount)]
  BY <1>1 DEF SanitizerInv
<1> QED
  BY <1>1, <1>5, <1>6, <1>7, <1>8, <1>9 DEF SanitizerInv

LEMMA SanitizerStays == SanitizerInv /\ [SanitizerNext]_sanitizerVars => SanitizerInv'
<1> SUFFICES ASSUME SanitizerInv, [SanitizerNext]_sanitizerVars PROVE SanitizerInv'
  OBVIOUS
\* Nothing but what has been written changes.
<1>1. ASSUME UNCHANGED <<kind, capture, table, given, shown>>, written' # "raw",
             kind \in CollectedKinds /\ written' \in {"context", "done"} => written \in {"context", "done"},
             kind = "server" /\ written' = "done" => targets' = TargetAliases
      PROVE  SanitizerInv'
  <2>1. \A k \in DOMAIN table' : EntrySound(k)'
    BY <1>1 DEF SanitizerInv, EntrySound, PoolLasts, Kept
  <2>2. NumbersDiffer' /\ LookedThrough'
    BY <1>1 DEF SanitizerInv, NumbersDiffer, PoolLasts, Kept, LookedThrough, SectionsOf
  <2>3. kind' # "plain" => \A x \in shown' : NameShown(x)'
    <3> SUFFICES ASSUME kind # "plain", NEW x \in shown PROVE NameShown(x)'
      BY <1>1
    <3>1. NameShown(x)
      BY DEF SanitizerInv
    <3>2. Key(x.raw)' = Key(x.raw) /\ Kept(x.raw.name)' = Kept(x.raw.name)
      BY <1>1 DEF Key, Kept
    <3> QED
      BY <3>1, <3>2, <1>1 DEF NameShown
  <2>4. kind' = "plain" => \A x \in shown' : PlainShown(x)'
    BY <1>1 DEF SanitizerInv, PlainShown
  <2>5. /\ kind' \in NameKinds \cup {"plain"} /\ given' \in Nat
        /\ kind' \in CollectedKinds => capture' \in [SectionsOf(kind') -> SUBSET (1..NameCount)]
    BY <1>1 DEF SanitizerInv
  <2>6. TargetAliases' = TargetAliases
    BY <1>1 DEF TargetAliases
  <2> QED
    BY <1>1, <2>1, <2>2, <2>3, <2>4, <2>5, <2>6 DEF SanitizerInv
<1>2. CASE CreateContext
  BY <1>2, ContextSound
<1>3. CASE RefuseCapture
  BY <1>3, <1>1 DEF RefuseCapture
<1>4. ASSUME NEW s \in DOMAIN Sections, VisitName(s) PROVE SanitizerInv'
  BY <1>4, NameVisitSound
<1>5. ASSUME NEW s \in DOMAIN Sections, VisitPlain(s) PROVE SanitizerInv'
  BY <1>5, PlainVisitSound
<1>6. CASE WriteTargets
  BY <1>6, <1>1 DEF WriteTargets
<1>7. CASE UNCHANGED sanitizerVars
  <2>1. CASE written = "raw"
    <3>1. shown' = {} /\ DOMAIN table' = {} /\ written' = "raw" /\ table' = <<>> /\ given' = 0
      BY <2>1, <1>7 DEF SanitizerInv, sanitizerVars
    <3>2. /\ kind' \in NameKinds \cup {"plain"} /\ given' \in Nat
          /\ kind' \in CollectedKinds => capture' \in [SectionsOf(kind') -> SUBSET (1..NameCount)]
      BY <1>7 DEF SanitizerInv, sanitizerVars
    <3> QED
      BY <3>1, <3>2 DEF SanitizerInv, NumbersDiffer, LookedThrough
  <2>2. CASE written # "raw"
    BY <2>2, <1>7, <1>1 DEF SanitizerInv, sanitizerVars
  <2> QED
    BY <2>1, <2>2
<1> QED
  BY <1>2, <1>3, <1>4, <1>5, <1>6, <1>7 DEF SanitizerNext

\* A recording gives nothing away and still fits together: private names are hidden behind
\* numbers that differ, none is lost, texts and times do not pass, and every link has its
\* target; sanitizeRecording, for any capture, names and public names.
THEOREM RecordingStaysSound == SanitizerSpec => []RecordingSound
BY SanitizerStarts, SanitizerStays, InvIsSound, PTL DEF SanitizerSpec

-----------------------------------------------------------------------------
(****************************************************************************)
(* RecordedDemo, for any aliases, ages, packets and points.                 *)
(****************************************************************************)

(* Three packets, and what their summary leaves.                           *)

LEMMA LeastIs ==
  ASSUME NEW S \in SUBSET Int, NEW m \in S, \A y \in S : m <= y
  PROVE  Min(S) = m
<1>1. Min(S) \in S /\ \A y \in S : Min(S) <= y
  BY DEF Min
<1>2. Min(S) <= m /\ m <= Min(S) /\ m \in Int /\ Min(S) \in Int
  BY <1>1
<1> HIDE DEF Min
<1> QED
  BY <1>2

LEMMA GreatestIs ==
  ASSUME NEW S \in SUBSET Int, NEW m \in S, \A y \in S : y <= m
  PROVE  Max(S) = m
<1>1. \A y \in S : m >= y
  OBVIOUS
<1>2. Max(S) \in S /\ \A y \in S : Max(S) >= y
  BY <1>1 DEF Max
<1>3. Max(S) >= m /\ m >= Max(S) /\ m \in Int /\ Max(S) \in Int
  BY <1>1, <1>2
<1> HIDE DEF Max
<1> QED
  BY <1>3

One(i, A) == IF i \in A THEN 1 ELSE 0

LEMMA CountOfThree ==
  ASSUME NEW A \in SUBSET (1..3)
  PROVE  Cardinality(A) = One(1, A) + One(2, A) + One(3, A)
<1> DEFINE B == A \cap {1}
           C == A \cap {1, 2}
<1>0. \A x \in A : x = 1 \/ x = 2 \/ x = 3
  OBVIOUS
<1>1. IsFiniteSet(B) /\ Cardinality(B) = One(1, A)
  <2>1. CASE 1 \in A
    <3>1. B = {1}
      BY <2>1
    <3> QED
      BY <3>1, <2>1, FS_Singleton DEF One
  <2>2. CASE 1 \notin A
    <3>1. B = {}
      BY <2>2
    <3> QED
      BY <3>1, <2>2, FS_EmptySet DEF One
  <2> QED
    BY <2>1, <2>2
<1>2. IsFiniteSet(C) /\ Cardinality(C) = Cardinality(B) + One(2, A)
  <2>1. CASE 2 \in A
    <3>1. C = B \cup {2} /\ 2 \notin B
      BY <2>1
    <3> QED
      BY <3>1, <2>1, <1>1, FS_AddElement DEF One
  <2>2. CASE 2 \notin A
    <3>1. C = B
      BY <2>2
    <3> QED
      BY <3>1, <2>2, <1>1 DEF One
  <2> QED
    BY <2>1, <2>2
<1>a. (\A x : x \in C <=> x \in A /\ (x = 1 \/ x = 2)) /\ Cardinality(C) \in Nat
  BY <1>2, FS_CardinalityType
<1>3. Cardinality(A) = Cardinality(C) + One(3, A)
  <2>1. CASE 3 \in A
    <3> HIDE DEF C
    <3>a. \A x \in A : x \in C \cup {3}
      BY <1>0, <1>a
    <3>b. \A x \in C \cup {3} : x \in A
      BY <2>1, <1>a
    <3>c. 3 \notin C
      BY <1>a
    <3>1. A = C \cup {3} /\ 3 \notin C
      BY <3>a, <3>b, <3>c
    <3> QED
      BY <3>1, <2>1, <1>2, FS_AddElement DEF One
  <2>2. CASE 3 \notin A
    <3> HIDE DEF C
    <3>1. A = C
      BY <2>2, <1>0, <1>a
    <3> QED
      BY <3>1, <2>2, <1>a DEF One
  <2> QED
    BY <2>1, <2>2
<1> HIDE DEF B, C
<1> QED
  BY <1>1, <1>2, <1>3 DEF One

\* The times of the packets that came back.
Back(p) == {p[i] : i \in Answered(p)}
Time(p, i) == IF p[i] # NoValue THEN p[i] ELSE 0
Came(p, i) == IF p[i] # NoValue THEN 1 ELSE 0

LEMMA SummaryIs ==
  ASSUME NEW p \in [1..3 -> Packets]
  PROVE  /\ RttSummary(p).received = Came(p, 1) + Came(p, 2) + Came(p, 3)
         /\ RttSummary(p).total = Time(p, 1) + Time(p, 2) + Time(p, 3)
         /\ RttSummary(p).min = IF Back(p) = {} THEN NoValue ELSE Min(Back(p))
         /\ RttSummary(p).max = IF Back(p) = {} THEN NoValue ELSE Max(Back(p))
         /\ RttSummary(p) = [received |-> RttSummary(p).received, total |-> RttSummary(p).total,
                             min |-> RttSummary(p).min, max |-> RttSummary(p).max]
<1>1. Answered(p) \in SUBSET (1..3) /\ \A i \in 1..3 : i \in Answered(p) <=> p[i] # NoValue
  BY DEF Answered
<1>2. Cardinality(Answered(p)) = Came(p, 1) + Came(p, 2) + Came(p, 3)
  BY <1>1, CountOfThree DEF One, Came
<1>3. Total(p) = Time(p, 1) + Time(p, 2) + Time(p, 3)
  BY <1>1 DEF Total, Time
<1> QED
  BY <1>2, <1>3 DEF RttSummary, Back

LEMMA BackIs ==
  ASSUME NEW p \in [1..3 -> Packets]
  PROVE  Back(p) \subseteq RoundTrips /\ \A x : x \in Back(p) <=> x # NoValue /\ x \in {p[1], p[2], p[3]}
BY DEF Back, Answered, Packets

LEMMA TripsAre ==
  /\ RoundTrips \subseteq Int /\ NoValue \notin RoundTrips /\ \A x \in RoundTrips : x >= 0
BY RecordedAssumption

\* Packets of which none, one, two or three came back, those in the order of least, greatest
\* and the third.
LEMMA NoneBack ==
  RttSummary(<<NoValue, NoValue, NoValue>>) = [received |-> 0, total |-> 0, min |-> NoValue, max |-> NoValue]
<1> DEFINE q == <<NoValue, NoValue, NoValue>>
<1>1. q \in [1..3 -> Packets]
  BY DEF Packets
<1>2. q[1] = NoValue /\ q[2] = NoValue /\ q[3] = NoValue
  OBVIOUS
<1> HIDE DEF q
<1>3. Back(q) = {}
  BY <1>1, <1>2, BackIs
<1>4. RttSummary(q) = [received |-> 0, total |-> 0, min |-> NoValue, max |-> NoValue]
  BY <1>1, <1>2, <1>3, SummaryIs DEF Came, Time
<1> QED
  BY <1>4 DEF q

LEMMA SomeBack ==
  ASSUME NEW p \in [1..3 -> Packets], NEW x \in RoundTrips, NEW y \in RoundTrips, x \in Back(p), y \in Back(p),
         \A z \in Back(p) : x <= z /\ z <= y
  PROVE  RttSummary(p).min = x /\ RttSummary(p).max = y
<1>1. Back(p) \in SUBSET Int /\ Back(p) # {}
  BY BackIs, TripsAre
<1> QED
  BY <1>1, SummaryIs, LeastIs, GreatestIs

LEMMA OneBack ==
  ASSUME NEW x \in RoundTrips
  PROVE  RttSummary(<<x, NoValue, NoValue>>) = [received |-> 1, total |-> x, min |-> x, max |-> x]
<1> DEFINE q == <<x, NoValue, NoValue>>
<1>1. q \in [1..3 -> Packets]
  BY DEF Packets
<1>2. q[1] = x /\ q[2] = NoValue /\ q[3] = NoValue
  OBVIOUS
<1> HIDE DEF q
<1>3. \A z : z \in Back(q) <=> z = x
  BY <1>1, <1>2, BackIs, TripsAre
<1>4. RttSummary(q).min = x /\ RttSummary(q).max = x
  BY <1>1, <1>3, SomeBack, TripsAre
<1>5. RttSummary(q).received = 1 /\ RttSummary(q).total = x
  BY <1>1, <1>2, SummaryIs, TripsAre DEF Came, Time
<1>6. RttSummary(q) = [received |-> 1, total |-> x, min |-> x, max |-> x]
  BY <1>1, <1>4, <1>5, SummaryIs
<1> QED
  BY <1>6 DEF q

LEMMA TwoBack ==
  ASSUME NEW x \in RoundTrips, NEW y \in RoundTrips, x <= y
  PROVE  RttSummary(<<x, y, NoValue>>) = [received |-> 2, total |-> x + y, min |-> x, max |-> y]
<1> DEFINE q == <<x, y, NoValue>>
<1>1. q \in [1..3 -> Packets]
  BY DEF Packets
<1>2. q[1] = x /\ q[2] = y /\ q[3] = NoValue
  OBVIOUS
<1> HIDE DEF q
<1>3. \A z : z \in Back(q) <=> z = x \/ z = y
  BY <1>1, <1>2, BackIs, TripsAre
<1>4. RttSummary(q).min = x /\ RttSummary(q).max = y
  BY <1>1, <1>3, SomeBack, TripsAre
<1>5. RttSummary(q).received = 2 /\ RttSummary(q).total = x + y
  BY <1>1, <1>2, SummaryIs, TripsAre DEF Came, Time
<1>6. RttSummary(q) = [received |-> 2, total |-> x + y, min |-> x, max |-> y]
  BY <1>1, <1>4, <1>5, SummaryIs
<1> QED
  BY <1>6 DEF q

LEMMA AllBack ==
  ASSUME NEW x \in RoundTrips, NEW y \in RoundTrips, NEW w \in RoundTrips, x <= w, w <= y
  PROVE  RttSummary(<<x, y, w>>) = [received |-> 3, total |-> x + y + w, min |-> x, max |-> y]
<1> DEFINE q == <<x, y, w>>
<1>1. q \in [1..3 -> Packets]
  BY DEF Packets
<1>2. q[1] = x /\ q[2] = y /\ q[3] = w
  OBVIOUS
<1> HIDE DEF q
<1>3. \A z : z \in Back(q) <=> z = x \/ z = y \/ z = w
  BY <1>1, <1>2, BackIs, TripsAre
<1>4. RttSummary(q).min = x /\ RttSummary(q).max = y
  BY <1>1, <1>3, SomeBack, TripsAre
<1>5. RttSummary(q).received = 3 /\ RttSummary(q).total = x + y + w
  BY <1>1, <1>2, SummaryIs, TripsAre DEF Came, Time
<1>6. RttSummary(q) = [received |-> 3, total |-> x + y + w, min |-> x, max |-> y]
  BY <1>1, <1>4, <1>5, SummaryIs
<1> QED
  BY <1>6 DEF q

LEMMA NotBelowZero ==
  ASSUME NEW x \in Nat
  PROVE  Max({0, x}) = x
BY GreatestIs

\* The packets that are made from a summary have that summary again.
LEMMA ReconstructionKeeps ==
  ASSUME NEW p \in [1..3 -> Packets]
  PROVE  RttSummary(ReconstructRtts(RttSummary(p))) = RttSummary(p)
<1> DEFINE s == RttSummary(p)
<1>1. \A i \in 1..3 : p[i] \in RoundTrips \cup {NoValue}
  BY DEF Packets
<1>2. /\ s = [received |-> s.received, total |-> s.total, min |-> s.min, max |-> s.max]
      /\ s.received = Came(p, 1) + Came(p, 2) + Came(p, 3) /\ s.total = Time(p, 1) + Time(p, 2) + Time(p, 3)
      /\ s.min = IF Back(p) = {} THEN NoValue ELSE Min(Back(p))
      /\ s.max = IF Back(p) = {} THEN NoValue ELSE Max(Back(p))
  BY SummaryIs
<1>3. ASSUME NEW x \in RoundTrips, NEW y \in RoundTrips, x \in Back(p), y \in Back(p),
             \A z \in Back(p) : x <= z /\ z <= y
      PROVE  s.min = x /\ s.max = y
  BY <1>3, SomeBack
<1>4. \A x : x \in Back(p) <=> x # NoValue /\ x \in {p[1], p[2], p[3]}
  BY BackIs
<1> HIDE DEF s
<1>5. CASE s.received = 0
  <2>1. p[1] = NoValue /\ p[2] = NoValue /\ p[3] = NoValue
    BY <1>2, <1>5 DEF Came
  <2>2. Back(p) = {} /\ s.total = 0
    BY <2>1, <1>2, <1>4 DEF Time
  <2>3. ReconstructRtts(s) = <<NoValue, NoValue, NoValue>>
    BY <1>5 DEF ReconstructRtts
  <2> QED
    BY <2>2, <2>3, <1>2, <1>5, NoneBack DEF s
<1>6. CASE s.received = 1
  <2>1. PICK i \in 1..3 : p[i] # NoValue /\ \A j \in 1..3 : j # i => p[j] = NoValue
    BY <1>2, <1>6 DEF Came
  <2>2. PICK x \in RoundTrips : s.total = x /\ \A z : z \in Back(p) <=> z = x
    <3>1. p[i] \in RoundTrips /\ s.total = p[i] /\ \A z : z \in Back(p) <=> z = p[i]
      BY <2>1, <1>1, <1>2, <1>4, TripsAre DEF Time
    <3> QED
      BY <3>1
  <2>3. s.min = x /\ s.max = x
    <3>1. x <= x
      BY TripsAre
    <3> QED
      BY <3>1, <2>2, <1>3
  <2>4. ReconstructRtts(s) = <<x, NoValue, NoValue>>
    BY <1>6, <2>2 DEF ReconstructRtts
  <2> QED
    BY <2>2, <2>3, <2>4, <1>2, <1>6, OneBack DEF s
<1>7. CASE s.received = 2
  <2>1. PICK i \in 1..3, j \in 1..3 : /\ i # j /\ p[i] # NoValue /\ p[j] # NoValue
                                     /\ \A k \in 1..3 : k # i /\ k # j => p[k] = NoValue
    BY <1>2, <1>7 DEF Came
  <2>2. PICK a \in RoundTrips, b \in RoundTrips : s.total = a + b /\ \A z : z \in Back(p) <=> z = a \/ z = b
    <3>1. /\ p[i] \in RoundTrips /\ p[j] \in RoundTrips /\ s.total = p[i] + p[j]
          /\ \A z : z \in Back(p) <=> z = p[i] \/ z = p[j]
      BY <2>1, <1>1, <1>2, <1>4, TripsAre DEF Time
    <3> QED
      BY <3>1
  <2>3. PICK x \in RoundTrips, y \in RoundTrips : /\ x <= y /\ s.total = x + y
                                                 /\ \A z : z \in Back(p) <=> z = x \/ z = y
    <3>1. a \in Int /\ b \in Int
      BY TripsAre
    <3>2. CASE a <= b
      BY <2>2, <3>2
    <3>3. CASE b <= a
      BY <2>2, <3>1, <3>3
    <3> QED
      BY <3>1, <3>2, <3>3
  <2>4. s.min = x /\ s.max = y
    BY <2>3, <1>3, TripsAre
  <2>5. Max({0, s.total - s.min}) = y
    <3>1. s.total - s.min = y /\ y \in Nat
      BY <2>3, <2>4, TripsAre
    <3> QED
      BY <3>1, NotBelowZero
  <2>6. ReconstructRtts(s) = <<x, y, NoValue>>
    BY <1>7, <2>4, <2>5 DEF ReconstructRtts
  <2> QED
    BY <2>3, <2>4, <2>6, <1>2, <1>7, TwoBack DEF s
<1>8. CASE s.received = 3
  <2>1. p[1] # NoValue /\ p[2] # NoValue /\ p[3] # NoValue
    BY <1>2, <1>8 DEF Came
  <2>2. /\ p[1] \in RoundTrips /\ p[2] \in RoundTrips /\ p[3] \in RoundTrips /\ s.total = p[1] + p[2] + p[3]
        /\ \A z : z \in Back(p) <=> z = p[1] \/ z = p[2] \/ z = p[3]
    BY <2>1, <1>1, <1>2, <1>4, TripsAre DEF Time
  <2>3. PICK x \in RoundTrips, y \in RoundTrips, w \in RoundTrips :
          /\ x <= w /\ w <= y /\ s.total = x + y + w
          /\ \A z : z \in Back(p) <=> z = x \/ z = y \/ z = w
    <3>1. PICK a \in RoundTrips, b \in RoundTrips, c \in RoundTrips :
            /\ s.total = a + b + c /\ \A z : z \in Back(p) <=> z = a \/ z = b \/ z = c
      BY <2>2
    <3>2. a \in Int /\ b \in Int /\ c \in Int
      BY TripsAre
    <3>3. CASE a <= b /\ b <= c
      BY <3>1, <3>2, <3>3
    <3>4. CASE a <= c /\ c <= b
      BY <3>1, <3>2, <3>4
    <3>5. CASE b <= a /\ a <= c
      BY <3>1, <3>2, <3>5
    <3>6. CASE b <= c /\ c <= a
      BY <3>1, <3>2, <3>6
    <3>7. CASE c <= a /\ a <= b
      BY <3>1, <3>2, <3>7
    <3>8. CASE c <= b /\ b <= a
      BY <3>1, <3>2, <3>8
    <3> QED
      BY <3>2, <3>3, <3>4, <3>5, <3>6, <3>7, <3>8
  <2>4. s.min = x /\ s.max = y
    <3>1. x <= y
      BY <2>3, TripsAre
    <3> QED
      BY <3>1, <2>3, <1>3, TripsAre
  <2>5. Max({0, s.total - s.min - s.max}) = w
    <3>1. s.total - s.min - s.max = w /\ w \in Nat
      BY <2>3, <2>4, TripsAre
    <3> QED
      BY <3>1, NotBelowZero
  <2>6. ReconstructRtts(s) = <<x, y, w>>
    BY <1>8, <2>4, <2>5 DEF ReconstructRtts
  <2> QED
    BY <2>3, <2>4, <2>6, <1>2, <1>8, AllBack DEF s
<1> QED
  BY <1>2, <1>5, <1>6, <1>7, <1>8 DEF s, Came

-----------------------------------------------------------------------------
(* The statements.                                                         *)

HostRows == PortRows \cup UNION {RowsOfAlias(a) : a \in ServerAliases}

Points == DOMAIN recording.points
AgeOf(i) == recording.points[i]

\* The rows of the points that have been made.
MadeReports == {ReportRow(AgeOf(i)) : i \in Points \ todo}
MadeLinks == {LinkRow(AgeOf(i), a) : i \in Points \ todo, a \in ServerAliases}

TwoOfOneAge == \E i, j \in Points : i # j /\ AgeOf(i) = AgeOf(j)

Cause ==
    \/ recording.targets # ServerAliases \/ recording.latest # ServerAliases
    \/ \E i \in Points, a \in ServerAliases : AgeOf(i) \notin recording.history[a]
    \/ TwoOfOneAge

\* Before it is seeded a store is empty; what has a statement is what has been gone through;
\* a key is there twice only when two reports are of one second.
RecordedInv ==
    /\ recording.packets \in [1..3 -> Packets] /\ recording.latestAge \in Nat
    /\ \A i \in Points : AgeOf(i) \in Nat
    /\ loading \in {"read", "valid", "hosts", "reports", "made", "seeded", "refused"}
    /\ todo \subseteq Points /\ clash \in BOOLEAN /\ (clash => TwoOfOneAge)
    /\ store = IF loading = "seeded" THEN statements ELSE {}
    /\ loading \in {"read", "valid"} => statements = {}
    /\ loading = "hosts" => statements = HostRows
    /\ loading \in {"reports", "made", "seeded"} =>
         /\ statements = HostRows \cup {WorkstationRow} \cup MadeReports \cup MadeLinks
         /\ \A i \in Points \ todo : Sampled(AgeOf(i))
    /\ loading \in {"made", "seeded"} => todo = {}
    /\ loading = "refused" => Cause

LEMMA RowsAre ==
  /\ \A row \in HostRows :
       \/ \E a \in ServerAliases : row = HostRow(a) /\ row.table = "hosts"
       \/ \E a \in ServerAliases, age \in SampleAges : row = RawRow(a, age) /\ row.table = "metrics_raw"
       \/ row.table \in {"metrics_hourly", "tier2_snapshots", "port_allowlist"}
  /\ \A a \in ServerAliases : HostRow(a) \in HostRows
  /\ \A a \in ServerAliases, age \in SampleAges : RawRow(a, age) \in HostRows
<1>1. \A a \in ServerAliases : \A row \in RowsOfAlias(a) :
        \/ row = HostRow(a) /\ row.table = "hosts"
        \/ \E age \in SampleAges : row = RawRow(a, age) /\ row.table = "metrics_raw"
        \/ row.table \in {"metrics_hourly", "tier2_snapshots"}
  BY DEF RowsOfAlias, HostRow, RawRow, HourlyRow, Tier2Row
<1>2. \A row \in PortRows : row.table = "port_allowlist"
  BY DEF PortRows
<1>3. \A a \in ServerAliases : HostRow(a) \in RowsOfAlias(a) /\ \A age \in SampleAges : RawRow(a, age) \in RowsOfAlias(a)
  BY DEF RowsOfAlias
<1>4. \A row : row \in HostRows <=> (\E a \in ServerAliases : row \in RowsOfAlias(a)) \/ row \in PortRows
  BY DEF HostRows
<1> QED
  BY <1>1, <1>2, <1>3, <1>4

LEMMA ReportsAre ==
  /\ WorkstationRow.table = "workstations"
  /\ \A age : ReportRow(age).table = "reports" /\ ReportRow(age).key = ReportId(age) /\ ReportRow(age).at = AgeToEpoch(age)
  /\ \A age, a : /\ LinkRow(age, a).table = "links" /\ LinkRow(age, a).key = <<ReportId(age), a>>
                 /\ LinkRow(age, a).at = AgeToEpoch(age) /\ LinkRow(age, a).address = a /\ LinkRow(age, a).rtts = Rtts(age)
BY DEF WorkstationRow, ReportRow, LinkRow

LEMMA IdsDiffer ==
  ASSUME NEW x \in Nat, NEW y \in Nat, ReportId(x) = ReportId(y)
  PROVE  x = y
BY DEF ReportId, IsLatest

\* ---- What the invariant gives ----

\* One interface of one host shows an address: the first of the host whose address it is.
LEMMA OneShows ==
  ASSUME RecordedInv, loading = "seeded", NEW a \in ServerAliases
  PROVE  Cardinality(Showing(a)) = 1
<1> DEFINE first == Min(CapturedMacs)
<1>1. first \in CapturedMacs
  <2>1. CapturedMacs \in SUBSET Nat /\ CapturedMacs # {}
    BY RecordedAssumption
  <2>2. \E x \in CapturedMacs : \A y \in CapturedMacs : x <= y
    BY <2>1, LeastOfNats
  <2> QED
    BY <2>2 DEF Min
<1> HIDE DEF first
<1>2. \A h : h \in RowsOf("hosts") <=> \E b \in ServerAliases : h = HostRow(b)
  BY RowsAre, ReportsAre DEF RowsOf, RecordedInv, HostRow, MadeReports, MadeLinks
<1>3. \A b \in ServerAliases, mac \in CapturedMacs : a \in HostRow(b).interfaces[mac].ipv4 <=> a = b /\ mac = first
  BY DEF HostRow, AliasInterfaces, ShowsAddress, first
<1>4. \A pair \in RowsOf("hosts") \X CapturedMacs :
        a \in pair[1].interfaces[pair[2]].ipv4 <=> pair = <<HostRow(a), first>>
  <2> SUFFICES ASSUME NEW h \in RowsOf("hosts"), NEW mac \in CapturedMacs
               PROVE  a \in h.interfaces[mac].ipv4 <=> <<h, mac>> = <<HostRow(a), first>>
    OBVIOUS
  <2>1. PICK b \in ServerAliases : h = HostRow(b)
    BY <1>2
  <2>2. HostRow(b) = HostRow(a) => b = a
    BY DEF HostRow
  <2> QED
    BY <2>1, <2>2, <1>3
<1>5. <<HostRow(a), first>> \in RowsOf("hosts") \X CapturedMacs
  BY <1>1, <1>2
<1>6. Showing(a) = {<<HostRow(a), first>>}
  BY <1>4, <1>5 DEF Showing
<1> QED
  BY <1>6, FS_Singleton

LEMMA DemoIsSound == RecordedInv => DemoSound
<1> SUFFICES ASSUME RecordedInv PROVE DemoSound
  OBVIOUS
<1>1. ASSUME loading = "seeded"
      PROVE  /\ \A row : row \in RowsOf("reports") <=> \E i \in Points : row = ReportRow(AgeOf(i))
             /\ \A row : row \in RowsOf("links") <=> \E i \in Points, a \in ServerAliases : row = LinkRow(AgeOf(i), a)
             /\ \A row : row \in RowsOf("hosts") <=> \E a \in ServerAliases : row = HostRow(a)
             /\ \A row : row \in RowsOf("metrics_raw") <=> \E a \in ServerAliases, age \in SampleAges : row = RawRow(a, age)
  <2>1. store = HostRows \cup {WorkstationRow} \cup MadeReports \cup MadeLinks /\ todo = {}
    BY <1>1 DEF RecordedInv
  <2>2. /\ \A row : row \in MadeReports <=> \E i \in Points : row = ReportRow(AgeOf(i))
        /\ \A row : row \in MadeLinks <=> \E i \in Points, a \in ServerAliases : row = LinkRow(AgeOf(i), a)
    BY <2>1 DEF MadeReports, MadeLinks
  <2>3. /\ \A row \in MadeReports : row.table = "reports"
        /\ \A row \in MadeLinks : row.table = "links"
    BY <2>2, ReportsAre
  <2>4. (\A a \in ServerAliases : HostRow(a).table = "hosts") /\ \A a \in ServerAliases, age \in SampleAges : RawRow(a, age).table = "metrics_raw"
    BY DEF HostRow, RawRow
  <2> QED
    BY <2>1, <2>2, <2>3, <2>4, RowsAre, ReportsAre DEF RowsOf
<1>2. SeededWhole
  <2>1. ASSUME loading = "seeded"
        PROVE  {row.at : row \in RowsOf("reports")} = {AgeToEpoch(recording.points[i]) : i \in DOMAIN recording.points}
    BY <2>1, <1>1, ReportsAre DEF Points, AgeOf
  <2>2. ASSUME loading = "seeded", NEW h \in RowsOf("hosts")
        PROVE  {row.at : row \in {x \in RowsOf("metrics_raw") : x.key[1] = h.key}} = {AgeToEpoch(age) : age \in SampleAges}
    <3>1. PICK a \in ServerAliases : h = HostRow(a)
      BY <2>2, <1>1
    <3>2. h.key = a
      BY <3>1 DEF HostRow
    <3>3. \A b, age : RawRow(b, age).key[1] = b /\ RawRow(b, age).at = AgeToEpoch(age)
      BY DEF RawRow
    <3>4. \A row : row \in {x \in RowsOf("metrics_raw") : x.key[1] = h.key} <=> \E age \in SampleAges : row = RawRow(a, age)
      BY <2>2, <1>1, <3>2, <3>3
    <3> QED
      BY <3>3, <3>4
  <2>3. ASSUME loading = "seeded", NEW r \in RowsOf("reports"), NEW a \in ServerAliases
        PROVE  \E l \in RowsOf("links") : l.key = <<r.key, a>> /\ l.at = r.at /\ Cardinality(Showing(l.address)) = 1
    <3>1. PICK i \in Points : r = ReportRow(AgeOf(i))
      BY <2>3, <1>1
    <3>2. LinkRow(AgeOf(i), a) \in RowsOf("links")
      BY <2>3, <1>1
    <3> QED
      BY <3>1, <3>2, <2>3, ReportsAre, OneShows
  <2>4. loading # "seeded" => store = {}
    BY DEF RecordedInv
  <2> QED
    BY <2>1, <2>2, <2>3, <2>4 DEF SeededWhole
<1>3. AggregatesKept
  <2> SUFFICES ASSUME NEW l \in RowsOf("links") PROVE RttSummary(l.rtts) = Sample
    BY DEF AggregatesKept
  <2>1. loading = "seeded"
    BY DEF RowsOf, RecordedInv
  <2>2. PICK i \in Points, a \in ServerAliases : l = LinkRow(AgeOf(i), a)
    BY <1>1, <2>1
  <2>3. l.rtts = recording.packets \/ l.rtts = ReconstructRtts(Sample)
    BY <2>2, ReportsAre DEF Rtts
  <2>4. recording.packets \in [1..3 -> Packets]
    BY DEF RecordedInv
  <2> QED
    BY <2>3, <2>4, ReconstructionKeeps DEF Sample
<1>4. RefusedForCause
  BY DEF RecordedInv, RefusedForCause, Cause, TwoOfOneAge, Points, AgeOf
<1> QED
  BY <1>2, <1>3, <1>4 DEF DemoSound

\* ---- The steps ----

LEMMA RecordedStarts == RecordedInit => RecordedInv
<1> SUFFICES ASSUME RecordedInit PROVE RecordedInv
  OBVIOUS
<1>1. /\ recording.packets \in [1..3 -> Packets] /\ recording.latestAge \in Ages
      /\ recording.points \in UNION {[1..n -> Ages] : n \in 1..PointLimit}
  BY DEF RecordedInit
<1>2. \A i \in Points : AgeOf(i) \in Nat
  <2>1. PICK n \in 1..PointLimit : recording.points \in [1..n -> Ages]
    BY <1>1
  <2> QED
    BY <2>1, RecordedAssumption DEF Points, AgeOf
<1> QED
  BY <1>1, <1>2, RecordedAssumption DEF RecordedInit, RecordedInv

\* The recording does not change, and what is said of it with what is left to do.
LEMMA RecordingSame ==
  ASSUME recording' = recording
  PROVE  /\ Points' = Points /\ (\A i : AgeOf(i)' = AgeOf(i)) /\ TwoOfOneAge' = TwoOfOneAge /\ Cause' = Cause
         /\ WorkstationRow' = WorkstationRow /\ (\A age : Sampled(age)' = Sampled(age))
         /\ (\A age : ReportRow(age)' = ReportRow(age)) /\ (\A age, a : LinkRow(age, a)' = LinkRow(age, a))
<1>1. Points' = Points /\ (\A i : AgeOf(i)' = AgeOf(i)) /\ WorkstationRow' = WorkstationRow /\ \A age : Sampled(age)' = Sampled(age)
  BY DEF Points, AgeOf, WorkstationRow, Sampled
<1>2. TwoOfOneAge' = TwoOfOneAge
  BY <1>1 DEF TwoOfOneAge
<1>3. Cause' = Cause
  BY <1>1, <1>2 DEF Cause
<1>4. \A age : ReportId(age)' = ReportId(age) /\ Rtts(age)' = Rtts(age)
  BY DEF ReportId, IsLatest, Rtts, Sample
<1> QED
  BY <1>1, <1>2, <1>3, <1>4 DEF ReportRow, LinkRow

LEMMA ReportMade ==
  ASSUME RecordedInv, NEW i \in todo, MakeReport(i)
  PROVE  RecordedInv'
<1> USE DEF RecordedInv
<1>1. loading = "reports" /\ recording' = recording /\ store' = store /\ store = {}
  BY DEF MakeReport
<1>2. i \in Points /\ AgeOf(i) = recording.points[i]
  BY DEF AgeOf
<1>3. CASE ~Sampled(AgeOf(i))
  <2>1. loading' = "refused" /\ todo' = todo /\ statements' = statements /\ clash' = clash
    BY <1>2, <1>3 DEF MakeReport
  <2>2. Cause
    BY <1>2, <1>3 DEF Cause, Sampled
  <2> QED
    BY <1>1, <2>1, <2>2, RecordingSame
<1>4. CASE Sampled(AgeOf(i))
  <2> DEFINE newRows == {ReportRow(AgeOf(i))} \cup {LinkRow(AgeOf(i), a) : a \in ServerAliases}
  <2>1. {b \in ServerAliases : AgeOf(i) \in recording.history[b]} = ServerAliases
    BY <1>4 DEF Sampled
  <2>2. Made(newRows) /\ todo' = todo \ {i} /\ loading' = loading
    BY <1>2, <1>4, <2>1 DEF MakeReport
  <2>3. Points \ todo' = (Points \ todo) \cup {i}
    BY <1>2, <2>2
  <2>4. MadeReports' = MadeReports \cup {ReportRow(AgeOf(i))} /\ MadeLinks' = MadeLinks \cup {LinkRow(AgeOf(i), a) : a \in ServerAliases}
    BY <2>3, <1>1, RecordingSame DEF MadeReports, MadeLinks
  <2>5. HostRows' = HostRows
    BY DEF HostRows, RowsOfAlias, PortRows, HostRow, RawRow, HourlyRow, Tier2Row, AgeToEpoch
  <2>6. statements' = HostRows' \cup {WorkstationRow'} \cup MadeReports' \cup MadeLinks'
    BY <2>2, <2>4, <2>5, <1>1, RecordingSame DEF Made
  <2>7. clash' => TwoOfOneAge
    <3> SUFFICES ASSUME NEW new \in newRows, NEW old \in statements, new.table = old.table, new.key = old.key
                 PROVE  TwoOfOneAge
      BY <2>2 DEF Made
    <3>1. new.table \in {"reports", "links"}
      BY ReportsAre
    <3>2. old \in MadeReports \/ old \in MadeLinks
      BY <3>1, <1>1, RowsAre, ReportsAre
    <3>3. PICK j \in Points \ todo : old = ReportRow(AgeOf(j)) \/ \E b \in ServerAliases : old = LinkRow(AgeOf(j), b)
      BY <3>2 DEF MadeReports, MadeLinks
    <3>4. ReportId(AgeOf(i)) = ReportId(AgeOf(j))
      <4>1. CASE new = ReportRow(AgeOf(i))
        BY <4>1, <3>3, ReportsAre
      <4>2. ASSUME NEW a \in ServerAliases, new = LinkRow(AgeOf(i), a) PROVE ReportId(AgeOf(i)) = ReportId(AgeOf(j))
        BY <4>2, <3>3, ReportsAre
      <4> QED
        BY <4>1, <4>2
    <3>5. AgeOf(i) = AgeOf(j) /\ i # j
      BY <3>4, <1>2, IdsDiffer
    <3> QED
      BY <3>5, <1>2 DEF TwoOfOneAge
  <2>8. \A j \in Points \ todo' : Sampled(AgeOf(j))
    BY <2>3, <1>1, <1>4
  <2>9. clash' \in BOOLEAN
    BY <2>2 DEF Made
  <2> HIDE DEF newRows
  <2> QED
    BY <1>1, <2>2, <2>6, <2>7, <2>8, <2>9, RecordingSame
<1> QED
  BY <1>3, <1>4

LEMMA RecordedStays == RecordedInv /\ [RecordedNext]_recordedVars => RecordedInv'
<1> SUFFICES ASSUME RecordedInv, [RecordedNext]_recordedVars PROVE RecordedInv'
  OBVIOUS
<1> USE DEF RecordedInv
<1>1. HostRows' = HostRows
  BY DEF HostRows, RowsOfAlias, PortRows, HostRow, RawRow, HourlyRow, Tier2Row, AgeToEpoch
<1>2. ASSUME recording' = recording, todo' = todo
      PROVE  MadeReports' = MadeReports /\ MadeLinks' = MadeLinks
  BY <1>2, RecordingSame DEF MadeReports, MadeLinks
<1>3. CASE ValidateRecording
  BY <1>3, RecordingSame DEF ValidateRecording, Cause
<1>4. CASE MakeHosts
  <2>1. recording' = recording /\ todo' = todo /\ store' = store /\ loading = "valid" /\ loading' = "hosts" /\ Made(HostRows)
    BY <1>4 DEF MakeHosts, HostRows
  <2>2. statements' = HostRows /\ clash' = clash
    BY <2>1 DEF Made
  <2> QED
    BY <2>1, <2>2, <1>1, RecordingSame
<1>5. CASE MakeWorkstation
  <2>1. recording' = recording /\ store' = store /\ loading = "hosts"
    BY <1>5 DEF MakeWorkstation
  <2>2. CASE recording.latest = ServerAliases
    <3>1. loading' = "reports" /\ Made({WorkstationRow}) /\ todo' = Points
      BY <1>5, <2>2 DEF MakeWorkstation, Points
    <3>2. clash' = clash
      BY <3>1, <2>1, RowsAre, ReportsAre DEF Made
    <3>3. MadeReports' = {} /\ MadeLinks' = {}
      BY <3>1, <2>1, RecordingSame DEF MadeReports, MadeLinks
    <3>4. statements' = HostRows \cup {WorkstationRow}
      BY <3>1, <2>1 DEF Made
    <3> QED
      BY <2>1, <3>1, <3>2, <3>3, <3>4, <1>1, RecordingSame
  <2>3. CASE recording.latest # ServerAliases
    <3>1. Cause /\ loading' = "refused" /\ UNCHANGED <<todo, statements, clash>>
      BY <1>5, <2>3 DEF MakeWorkstation, Cause
    <3> QED
      BY <3>1, <2>1, RecordingSame
  <2> QED
    BY <2>2, <2>3
<1>6. ASSUME NEW i \in todo, MakeReport(i) PROVE RecordedInv'
  BY <1>6, ReportMade
<1>7. CASE MakeDone
  <2>1. recording' = recording /\ UNCHANGED <<todo, statements, clash, store>> /\ loading = "reports" /\ loading' = "made" /\ todo = {}
    BY <1>7 DEF MakeDone
  <2> QED
    BY <2>1, <1>1, <1>2, RecordingSame
<1>8. CASE Execute
  <2>1. recording' = recording /\ UNCHANGED <<todo, statements, clash>> /\ loading = "made" /\ todo = {}
    BY <1>8 DEF Execute
  <2>2. CASE clash
    <3>1. loading' = "refused" /\ store' = store /\ Cause
      BY <1>8, <2>2 DEF Execute, Cause
    <3> QED
      BY <3>1, <2>1, RecordingSame
  <2>3. CASE ~clash
    <3>1. loading' = "seeded" /\ store' = statements
      BY <1>8, <2>3 DEF Execute
    <3> QED
      BY <3>1, <2>1, <1>1, <1>2, RecordingSame
  <2> QED
    BY <2>2, <2>3
<1>9. CASE UNCHANGED recordedVars
  <2>1. recording' = recording /\ UNCHANGED <<todo, statements, clash, loading, store>>
    BY <1>9 DEF recordedVars
  <2> QED
    BY <2>1, <1>1, <1>2, RecordingSame
<1> QED
  BY <1>3, <1>4, <1>5, <1>6, <1>7, <1>8, <1>9 DEF RecordedNext

\* A demo is seeded whole or not at all, with the figures of the capture, and a recording is
\* refused only for a cause; recordedDemoSql, for any aliases, ages, packets and points.
THEOREM DemoStaysSound == RecordedSpec => []DemoSound
BY RecordedStarts, RecordedStays, DemoIsSound, PTL DEF RecordedSpec

=============================================================================
