----------------------------- MODULE ProbeCycle -----------------------------
(***************************************************************************)
(* The runs of `bat workstation probe` on one machine and what the Worker  *)
(* makes of their uploads.  The scheduler may start a run while another is *)
(* still there: a lock directory keeps them apart as long as nobody is     *)
(* suspended for too long.  A request may be lost, land after its sender   *)
(* gave up on it, or be repeated; the Worker must file each report once    *)
(* and let only the newest one say when and where the machine was seen.    *)
(*                                                                         *)
(* The unit of time is the minute, longer than PROBE_LOCK_UPDATE_MS: a     *)
(* process that is awake refreshes or checks its lock in every minute.     *)
(***************************************************************************)
EXTENDS Integers, FiniteSets, FiniteSetsExt

CONSTANTS
    Runs,         \* processes, each running runWorkstationProbe once
    ReportIds,    \* report_id: drawn at random, so two runs may draw the same
    Attempts,     \* UPLOAD_ATTEMPTS
    MaxRun,       \* WORKSTATION_MAX_RUN_MS
    LockStale,    \* PROBE_LOCK_STALE_MS
    Skew,         \* WORKSTATION_REPORT_SKEW_SECONDS
    LastMoment,   \* bound on the clock
    UpsetLimit,   \* bound on suspensions, crashes, moves of the target and disablings
    Nobody        \* no holder, no report

ASSUME CycleAssumption ==
    /\ IsFiniteSet(Runs) /\ Nobody \notin Runs \cup ReportIds
    /\ {Attempts, MaxRun} \subseteq Nat \ {0}
    /\ {LockStale, Skew, LastMoment, UpsetLimit} \subseteq Nat
    /\ LockStale > MaxRun     \* "Longer than one probe run"

VARIABLES
    minute,       \* the clock of machine and Worker
    dir,          \* the lock directory: who made it and when it was last refreshed
    upsets,       \* how many so far
    run,          \* run -> where it is, what is left of its budget and what it carries
    uploads,      \* run -> attempt -> what became of that request ("off": not sent, or done with)
    target,       \* the address of the one authorized server
    station,      \* the row of workstations: disabled, last_seen_at, public_ip (an address
                  \* stands for the end of the report that it was observed with)
    filed,        \* workstation_reports
    links         \* workstation_connectivity: report and run whose result the row is

cycleVars == <<minute, dir, upsets, run, uploads, target, station, filed, links>>

Idle == [at |-> "idle", left |-> MaxRun, asleep |-> FALSE, overslept |-> FALSE,
         aborted |-> FALSE, started |-> 0, targets |-> {}, id |-> Nobody, finished |-> 0,
         attempt |-> 0, exit |-> -1]

CycleInit ==
    /\ minute = 0 /\ target = 0 /\ upsets = 0
    /\ dir = [by |-> Nobody, mtime |-> 0]
    /\ run = [r \in Runs |-> Idle]
    /\ uploads = [r \in Runs |-> [k \in 1..Attempts |-> "off"]]
    /\ station = [disabled |-> FALSE, last_seen_at |-> -1, public_ip |-> -1]
    /\ filed = {} /\ links = {}

Alive(r) == run[r].at \notin {"idle", "done", "crashed"}
Awake(r) == Alive(r) /\ ~run[r].asleep
Busy(r) == Awake(r) /\ ~run[r].aborted

Upset == upsets < UpsetLimit /\ upsets' = upsets + 1

local == <<minute, upsets, target, station, filed, links>>
remote == <<minute, dir, run>>

-----------------------------------------------------------------------------
(* The lock (proper-lockfile) and the life of a run.                       *)

IsLockStale == dir.mtime < minute - LockStale

\* acquireProbeLock: an absent directory is made, a stale one is taken over.
AcquireProbeLock(r) ==
    /\ dir.by = Nobody \/ IsLockStale
    /\ dir' = [by |-> r, mtime |-> minute]

\* runWorkstationProbe up to its first request: without the lock the run ends at once.
StartRun(r) ==
    /\ run[r].at = "idle"
    /\ AcquireProbeLock(r)
    /\ run' = [run EXCEPT ![r] = [@ EXCEPT !.at = "targets", !.started = minute]]
    /\ UNCHANGED <<local, uploads>>

StartRefused(r) ==
    /\ run[r].at = "idle"
    /\ dir.by # Nobody /\ ~IsLockStale
    /\ run' = [run EXCEPT ![r] = [@ EXCEPT !.at = "done", !.exit = 1]]
    /\ UNCHANGED <<local, dir, uploads>>

\* The end of a run: the release removes the directory whoever made it, unless the lock is
\* known to be lost, in which case there is nothing to release.
Release(r) == IF run[r].aborted THEN dir ELSE [by |-> Nobody, mtime |-> 0]

\* Nobody reads the answers of r any more; what is under way stays so.
Forgotten(r) == [k \in 1..Attempts |->
    IF uploads[r][k] \in {"sent", "checked"} THEN uploads[r][k] ELSE "off"]

Ends(r, code) ==
    /\ run' = [run EXCEPT ![r] = [@ EXCEPT !.at = "done", !.exit = code, !.left = 0,
                                           !.started = 0, !.attempt = 0]]
    /\ dir' = Release(r)
    /\ uploads' = [uploads EXCEPT ![r] = Forgotten(r)]
    /\ UNCHANGED local

\* onCompromised: the periodic check finds another's directory, or none.
Notice(r) ==
    /\ Awake(r) /\ ~run[r].aborted /\ dir.by # r
    /\ run' = [run EXCEPT ![r].aborted = TRUE]
    /\ UNCHANGED <<local, dir, uploads>>

Suspend(r) ==
    /\ Awake(r)
    /\ run' = [run EXCEPT ![r].asleep = TRUE]
    /\ Upset
    /\ UNCHANGED <<minute, target, station, filed, links, dir, uploads>>

Wake(r) ==
    /\ Alive(r) /\ run[r].asleep
    /\ run' = [run EXCEPT ![r].asleep = FALSE]
    /\ UNCHANGED <<local, dir, uploads>>

\* The process is killed: nobody removes its directory.
Crash(r) ==
    /\ Alive(r)
    /\ run' = [run EXCEPT ![r] = [@ EXCEPT !.at = "crashed", !.left = 0, !.started = 0,
                                           !.asleep = FALSE, !.attempt = 0]]
    /\ uploads' = [uploads EXCEPT ![r] = Forgotten(r)]
    /\ Upset
    /\ UNCHANGED <<minute, target, station, filed, links, dir>>

\* A minute passes: processes that are awake use up their budget, and their timers have
\* refreshed the lock or found it lost.  The deadline ends whatever a run is doing, so none
\* is awake with its budget spent.
Minute ==
    /\ minute < LastMoment
    /\ \A r \in Runs : Awake(r) => run[r].left > 0
    /\ minute' = minute + 1
    /\ dir' = IF dir.by \in Runs /\ Busy(dir.by) THEN [dir EXCEPT !.mtime = minute + 1] ELSE dir
    /\ run' = [r \in Runs |->
                 IF Awake(r) THEN [run[r] EXCEPT !.left = @ - 1,
                                                 !.aborted = @ \/ dir.by # r]
                 ELSE IF Alive(r)
                 THEN [run[r] EXCEPT !.overslept = @ \/ minute + 1 - dir.mtime > LockStale]
                 ELSE run[r]]
    /\ UNCHANGED <<upsets, uploads, target, station, filed, links>>

-----------------------------------------------------------------------------
(* One run: targets, pings, report, upload.                                *)

\* fetchTargets: the addresses of the moment, or none and an error that the report carries.
FetchTargetList(r) ==
    /\ Awake(r) /\ run[r].at = "targets"
    /\ \E ts \in {{}, {target}} :
          /\ run[r].aborted \/ run[r].left = 0 => ts = {}
          /\ run' = [run EXCEPT ![r] = [@ EXCEPT !.at = "probe", !.targets = ts]]
    /\ UNCHANGED <<local, dir, uploads>>

\* The pings are done: a run that has lost its lock stops before it reports, and so does one
\* whose report spans more of the wall clock than a run may take.
Compromised(r) ==
    /\ Awake(r) /\ run[r].at = "probe" /\ run[r].aborted
    /\ Ends(r, 1)

RejectedLocally(r) ==
    /\ Awake(r) /\ run[r].at = "probe" /\ ~run[r].aborted
    /\ minute - run[r].started > MaxRun
    /\ Ends(r, 1)

\* assembleReport and the first attempt of uploadReport.
Assemble(r) ==
    /\ Awake(r) /\ run[r].at = "probe" /\ ~run[r].aborted
    /\ minute - run[r].started <= MaxRun
    /\ \E id \in ReportIds :
          run' = [run EXCEPT ![r] = [@ EXCEPT !.at = "upload", !.id = id, !.finished = minute,
                                              !.attempt = 1]]
    /\ uploads' = [uploads EXCEPT ![r][1] = "sent"]
    /\ UNCHANGED <<local, dir>>

Answer(r) == uploads[r][run[r].attempt]
Accepted(r) ==
    /\ Awake(r) /\ run[r].at = "upload" /\ Answer(r) = "200"
    /\ Ends(r, 0)

\* The request failed in a way that may pass (isRetryable): lost, timed out, cut off by the
\* abort signal, or answered with 429 or 5xx (here "503").  It may still be under way, and one that is
\* lost stays "sent" forever.
Failed(r) == Answer(r) \in {"503", "sent", "checked", "200"}

\* uploadReport: the same body again, unless the signal is aborted or the budget is gone.
Retry(r) ==
    /\ Awake(r) /\ run[r].at = "upload" /\ Failed(r)
    /\ run[r].attempt < Attempts /\ ~run[r].aborted /\ run[r].left > 0
    /\ run' = [run EXCEPT ![r].attempt = @ + 1]
    /\ uploads' = [uploads EXCEPT ![r] = [Forgotten(r) EXCEPT ![run[r].attempt + 1] = "sent"]]
    /\ UNCHANGED <<local, dir>>

GiveUp(r) ==
    /\ Awake(r) /\ run[r].at = "upload"
    /\ \/ Answer(r) \in {"400", "403", "409"}
       \/ Failed(r) /\ (run[r].attempt = Attempts \/ run[r].aborted \/ run[r].left = 0)
    /\ Ends(r, 1)

-----------------------------------------------------------------------------
(* The Worker: a report is checked, and filed in a later step.             *)

\* An answer that nobody waits for any more is dropped.
Answered(r, k, status) ==
    uploads' = [uploads EXCEPT ![r][k] =
        IF status = "checked" \/ (run[r].at = "upload" /\ run[r].attempt = k) THEN status
        ELSE "off"]

\* reportTargetsAllowed: every entry must be of a server as it is authorized now.
ReportTargetsAllowed(r) == run[r].targets \subseteq {target}

\* workstationReportRoute up to the insert: key, rate, the schema with the clock of the
\* Worker, and the targets.
CheckReport(r, k) ==
    /\ uploads[r][k] = "sent"
    /\ \E overloaded \in BOOLEAN :
          Answered(r, k, IF station.disabled THEN "403"
                         ELSE IF overloaded THEN "503"
                         ELSE IF minute - run[r].finished > Skew THEN "400"
                         ELSE IF ~ReportTargetsAllowed(r) THEN "403"
                         ELSE "checked")
    /\ UNCHANGED <<remote, upsets, target, station, filed, links>>

Body(r) == [id |-> run[r].id, of |-> r, finished |-> run[r].finished]
Filed(id) == {b \in filed : b.id = id}

\* Mutant: the row is written although the workstation is disabled by now.
InsertsAnyway(r) == Filed(run[r].id) = {}

\* INSERT ... ON CONFLICT DO NOTHING, for a workstation that is not disabled.
Inserts(r) == ~station.disabled /\ Filed(run[r].id) = {}

\* The connectivity rows go with the report that this very attempt has inserted.
LinksOf(r, rows) == IF Inserts(r) THEN {[id |-> run[r].id, of |-> r]} ELSE {}

Newest(rows) == Max({b.finished : b \in rows} \cup {-1})

\* last_seen_at moves forward only, and the address follows the newest report.
Seen(r, rows) ==
    [station EXCEPT !.last_seen_at = Max({@, run[r].finished}),
                    !.public_ip = IF run[r].finished = Newest(rows) THEN run[r].finished ELSE @]

\* Mutant: a row with this id is a duplicate whatever its body.
ResultOfId(r, rows) == IF \E b \in rows : b.id = run[r].id THEN "200" ELSE "403"

\* What the row that is there now says of this body.
ResultOf(r, rows) ==
    IF ~\E b \in rows : b.id = run[r].id THEN "403"
    ELSE IF Body(r) \in rows THEN "200" ELSE "409"

\* insertReport: one batch.
InsertReport(r, k) ==
    /\ uploads[r][k] = "checked"
    /\ LET rows == IF Inserts(r) THEN filed \cup {Body(r)} ELSE filed
       IN  /\ filed' = rows
           /\ links' = links \cup LinksOf(r, rows)
           /\ station' = IF Inserts(r) THEN Seen(r, rows) ELSE station
           /\ Answered(r, k, ResultOf(r, rows))
    /\ UNCHANGED <<remote, upsets, target>>

\* The server reports from another address, or the workstation is disabled.
TargetMoves ==
    /\ target' = target + 1
    /\ Upset
    /\ UNCHANGED <<remote, uploads, station, filed, links>>

DisableWorkstation ==
    /\ ~station.disabled
    /\ station' = [station EXCEPT !.disabled = TRUE]
    /\ Upset
    /\ UNCHANGED <<remote, uploads, target, filed, links>>

-----------------------------------------------------------------------------
CycleNext ==
    \/ Minute \/ TargetMoves \/ DisableWorkstation
    \/ \E r \in Runs :
         \/ StartRun(r) \/ StartRefused(r) \/ Notice(r)
         \/ Suspend(r) \/ Wake(r) \/ Crash(r)
         \/ FetchTargetList(r) \/ Compromised(r) \/ RejectedLocally(r) \/ Assemble(r)
         \/ Accepted(r) \/ Retry(r) \/ GiveUp(r)
         \/ \E k \in 1..Attempts : CheckReport(r, k) \/ InsertReport(r, k)

CycleSpec == CycleInit /\ [][CycleNext]_cycleVars

-----------------------------------------------------------------------------
(* Properties.                                                             *)

\* Two runs are at work at the same time only after one of the machine's runs was suspended
\* for longer than the lock is good for ("so a live run is never considered stale").
OneRun ==
    \A r, s \in Runs : r # s /\ Busy(r) /\ Busy(s) => \E q \in Runs : run[q].overslept

\* last_seen_at is the end of the newest report on file, in whatever order they arrived.
LastSeenIsNewest == station.last_seen_at = Newest(filed)

\* A report that arrives late does not bring back an older address.
AddressNeverOlder == station'.public_ip >= station.public_ip

\* The connectivity rows under a report id are those of the report on file, though another
\* report may have come under the same id.
LinksOfOneBody == \A l \in links : \E b \in filed : b.id = l.id /\ b.of = l.of

\* A run that says "Report accepted" has its own report on file.
AcceptedIsFiled == \A r \in Runs : run[r].exit = 0 => Body(r) \in filed

\* Nothing is filed for a disabled workstation, however late the request that was already
\* let in goes on.
DisabledIsFrozen ==
    station.disabled => UNCHANGED <<filed, links, station>>

\* Runs that overlap, sleep, retry and arrive late or under one id leave one consistent file
\* of the workstation, and know whether their own report is in it.
ReportsFiled ==
    /\ OneRun
    /\ LastSeenIsNewest
    /\ LinksOfOneBody
    /\ AcceptedIsFiled

\* What the arrival of a report may never do to a workstation: go back to an older address,
\* or write anything once it is disabled.
StationOnlyForward == [][AddressNeverOlder /\ DisabledIsFrozen]_cycleVars
=============================================================================
