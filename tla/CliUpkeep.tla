------------------------------ MODULE CliUpkeep -----------------------------
(* `bat update` and `bat doctor`.  An update looks for the latest version  *)
(* in the registries in turn (lib/registry.ts) and installs it from the    *)
(* first that can (update.ts) while versions are published, the mirror     *)
(* lags and another update runs.  A doctor (doctor.ts, commands/doctor.ts) *)
(* gathers its facts one after the other, over a network that fails, from  *)
(* a machine that changes meanwhile and whose files may be malformed, and  *)
(* judges them.                                                            *)
EXTENDS Integers, Sequences, FiniteSets

CONSTANTS
    Updaters,       \* runs of `bat update` that may be under way at once
    PartMax,        \* bound on a part of a version
    UpkeepLimit,    \* bound on commands
    MachineLimit    \* bound on changes of the machine and of the registries

ASSUME UpkeepAssumption == IsFiniteSet(Updaters) /\ {PartMax, UpkeepLimit, MachineLimit} \subseteq Nat

VARIABLES
    published,   \* `latest` of each registry: 1 is npmjs, 2 the mirror
    installed,   \* the version that is installed
    machine,     \* what else a doctor looks at
    update,      \* runs of bat update
    doctor,      \* the run of bat doctor
    commands,    \* commands so far
    moved        \* changes so far

upkeepVars == <<published, installed, machine, update, doctor, commands, moved>>

\* A version in numbers, and whether it is a pre-release of them.
BuildVersions == [n : (0..PartMax) \X (0..PartMax), pre : BOOLEAN]
Oldest == [n |-> <<0, 0>>, pre |-> FALSE]
Registries == <<"npmjs", "mirror">>

NoUpdate == [at |-> "off", current |-> Oldest, latest |-> Oldest, registry |-> 1, overtaken |-> FALSE]

\* Answers of the network: a value, a refusal of the credential, or nothing.
Ids == {"version", "assets-profile", "workstation-credential", "workstation-api", "schedule", "probe-lock", "recent-report"}
NoFacts == [latest |-> "unknown", token |-> "unknown", reachable |-> "unknown"]
\* record is schedule.json, scheduled whether what it records is in place, and uuid whether
\* installation.json can be read.
NewMachine == [profile |-> "set", token |-> TRUE, enrolled |-> "good", key |-> TRUE, uuid |-> TRUE,
               record |-> "sound", scheduled |-> TRUE, locked |-> FALSE, log |-> "fresh"]
\* uninspected: the inspection of the schedule has thrown.
Away == [at |-> "off", registry |-> 1, local |-> NewMachine, version |-> Oldest, facts |-> NoFacts, offline |-> FALSE,
         uninspected |-> FALSE, verdict |-> <<>>, good |-> {}, bad |-> {}]

UpkeepInit ==
    /\ published = <<Oldest, Oldest>> /\ installed = Oldest
    /\ machine = NewMachine
    /\ update = [u \in Updaters |-> NoUpdate] /\ doctor = Away
    /\ commands = 0 /\ moved = 0

-----------------------------------------------------------------------------
(* Versions.                                                               *)

\* Mutant: the last part decides.
OutdatedByLast(a, b) == a.n[2] < b.n[2] \/ (a.n[2] = b.n[2] /\ a.n[1] < b.n[1])

\* compareVersions < 0: part by part; what follows a dash does not count.
Outdated(a, b) == a.n[1] < b.n[1] \/ (a.n[1] = b.n[1] /\ a.n[2] < b.n[2])

-----------------------------------------------------------------------------
(* bat update.                                                             *)

UpdateAt(u, stage) == update[u].at = stage
Moves(u, r) == update' = [update EXCEPT ![u] = r]

StartUpdate(u) ==
    /\ UpdateAt(u, "off") /\ commands < UpkeepLimit /\ commands' = commands + 1
    /\ Moves(u, [NoUpdate EXCEPT !.at = "plan", !.current = installed])
    /\ UNCHANGED <<published, installed, machine, doctor, moved>>

\* What follows a registry that does not answer: the next one, or the end.
NextRegistry(r) == IF r.registry < Len(Registries) THEN [r EXCEPT !.registry = @ + 1] ELSE NoUpdate

\* fetchLatestVersion skips a registry that fails ...
LookupFails(u) ==
    /\ UpdateAt(u, "plan") /\ Moves(u, NextRegistry(update[u]))
    /\ UNCHANGED <<published, installed, machine, doctor, commands, moved>>

\* ... and planUpdate compares the first answer with the running build.
PlanUpdate(u) ==
    /\ UpdateAt(u, "plan")
    /\ LET latest == published[update[u].registry]
       IN Moves(u, IF Outdated(update[u].current, latest)
                   THEN [update[u] EXCEPT !.at = "install", !.latest = latest, !.registry = 1] ELSE NoUpdate)
    /\ UNCHANGED <<published, installed, machine, doctor, commands, moved>>

\* installUpdate: npm from one registry after the other; an update that has planned
\* before this one lands has been overtaken.
InstallUpdate(u) ==
    /\ UpdateAt(u, "install") /\ installed' = update[u].latest
    /\ update' = [v \in Updaters |-> IF v = u THEN NoUpdate
                                     ELSE [update[v] EXCEPT !.overtaken = update[v].at # "off"]]
    /\ UNCHANGED <<published, machine, doctor, commands, moved>>

InstallFails(u) ==
    /\ UpdateAt(u, "install") /\ Moves(u, NextRegistry(update[u]))
    /\ UNCHANGED <<published, installed, machine, doctor, commands, moved>>

-----------------------------------------------------------------------------
(* bat doctor.                                                             *)

\* What is in order, and what is not, whoever looks.
Good(m, v, latest) ==
    {c \in Ids :
        CASE c = "version" -> \E i \in DOMAIN latest : ~Outdated(v, latest[i])
          [] c = "assets-profile" -> m.profile = "set" /\ m.token
          [] c = "workstation-credential" -> m.enrolled = "good"
          [] c = "workstation-api" -> m.enrolled \in {"good", "foreign"} /\ m.key
          [] c = "schedule" -> m.scheduled
          [] c = "probe-lock" -> ~m.locked
          [] c = "recent-report" -> m.log = "fresh"}

\* A doctor goes on with the credentials that it has read: one that is revoked stays so,
\* whatever a new login writes.  It remembers, for the properties, what was in order at some
\* time while it looked.
Watched(m, latest) ==
    IF doctor.at \in {"off", "done"} THEN doctor
    ELSE LET good == Good(m, doctor.version, latest)
         IN [doctor EXCEPT !.local.token = @ /\ m.token, !.local.key = @ /\ m.key,
                           !.good = @ \cup good, !.bad = @ \cup (Ids \ good)]

\* readCredential and readScheduleRecord throw, and the command ends with no verdicts.
Unreadable(m) == m.enrolled = "malformed" \/ m.record = "malformed"

\* runDoctorCommand reads the profile, the credential and the record of the schedule ...
StartDoctor ==
    /\ doctor.at \in {"off", "done"} /\ commands < UpkeepLimit /\ commands' = commands + 1
    /\ IF Unreadable(machine) THEN doctor' = Away
       ELSE \E offline \in BOOLEAN :
              doctor' = [Away EXCEPT !.at = "inspect", !.offline = offline, !.local = machine, !.version = installed,
                                     !.good = Good(machine, installed, published),
                                     !.bad = Ids \ Good(machine, installed, published)]
    /\ UNCHANGED <<published, installed, machine, update, moved>>

\* What an inspection that throws is taken for: a command that does not start or times out
\* and a crontab that is cut say the same as a schedule that is gone.
Uninspected == FALSE

Inspected(d, thrown) ==
    [d EXCEPT !.at = IF d.offline THEN "judge" ELSE "latest", !.uninspected = thrown,
              !.local.scheduled = IF thrown THEN Uninspected ELSE machine.scheduled,
              !.local.log = machine.log, !.local.locked = machine.locked]

\* ... waits for the inspection of what is recorded, then looks at the log, the installation
\* and the lock; readInstallationId may throw as well ...
InspectSchedule ==
    /\ doctor.at = "inspect"
    /\ IF ~machine.uuid THEN doctor' = Away
       ELSE \E thrown \in BOOLEAN : (thrown => doctor.local.record # "none") /\ doctor' = Inspected(doctor, thrown)
    /\ UNCHANGED <<published, installed, machine, update, commands, moved>>

DoctorAt(stage) == doctor.at = stage
Learns(stage, facts) == doctor' = [doctor EXCEPT !.at = stage, !.facts = facts]

\* ... gatherFacts asks the registries ...
AskLatest ==
    /\ DoctorAt("latest")
    /\ \/ LET newer == Outdated(doctor.version, published[doctor.registry])
          IN Learns("token", [doctor.facts EXCEPT !.latest = IF newer THEN "newer" ELSE "same"])
       \/ IF doctor.registry < Len(Registries) THEN doctor' = [doctor EXCEPT !.registry = @ + 1]
          ELSE Learns("token", doctor.facts)
    /\ UNCHANGED <<published, installed, machine, update, commands, moved>>

\* Mutant: a check that could not be made counts as passed.
UnverifiedPasses == "accepted"
\* Only a refused credential is a failure; a broken network leaves it unknown.
Unverified == "unknown"

\* ... currentAssetsTokenCheck ...
AskToken ==
    /\ DoctorAt("token")
    /\ IF doctor.local.profile = "none" THEN Learns("targets", doctor.facts)
       ELSE \E answer \in {IF doctor.local.token THEN "accepted" ELSE "rejected", Unverified} :
              Learns("targets", [doctor.facts EXCEPT !.token = answer])
    /\ UNCHANGED <<published, installed, machine, update, commands, moved>>

\* ... and the targets of the workstation, where a refused key and a broken network are one.
AskTargets ==
    /\ DoctorAt("targets")
    /\ IF doctor.local.enrolled = "none" THEN Learns("judge", doctor.facts)
       ELSE \E answer \in {"unknown"} \cup (IF doctor.local.key /\ doctor.local.enrolled # "malformed" THEN {"accepted"} ELSE {}) :
              Learns("judge", [doctor.facts EXCEPT !.reachable = answer])
    /\ UNCHANGED <<published, installed, machine, update, commands, moved>>

JudgeVersion(f) == IF f.latest = "same" THEN "pass" ELSE "warn"
JudgeProfile(l, f) ==
    CASE l.profile = "none" -> "warn"
      [] l.profile = "invalid" -> "fail"
      [] OTHER -> IF f.token = "accepted" THEN "pass" ELSE IF f.token = "rejected" THEN "fail" ELSE "warn"
JudgeCredential(l) ==
    IF l.enrolled = "good" THEN "pass" ELSE IF l.enrolled = "malformed" THEN "fail" ELSE "warn"
JudgeApi(f) == IF f.reachable = "accepted" THEN "pass" ELSE "warn"
JudgeSchedule(l) == IF l.record = "none" THEN "warn" ELSE IF l.scheduled THEN "pass" ELSE "fail"

JudgeOne(c, l, f) ==
    CASE c = "version" -> JudgeVersion(f)
      [] c = "assets-profile" -> JudgeProfile(l, f)
      [] c = "workstation-credential" -> JudgeCredential(l)
      [] c = "workstation-api" -> JudgeApi(f)
      [] c = "schedule" -> JudgeSchedule(l)
      [] c = "probe-lock" -> IF l.locked THEN "warn" ELSE "pass"
      [] c = "recent-report" -> IF l.log = "stale" THEN "warn" ELSE "pass"

\* runChecks: a machine that is not enrolled has no check of the API, one without a log
\* none of its age.
RunChecks(l, f) ==
    [c \in Ids \ ((IF l.enrolled = "none" THEN {"workstation-api"} ELSE {})
                  \cup (IF l.log = "none" THEN {"recent-report"} ELSE {})) |-> JudgeOne(c, l, f)]

Judge ==
    /\ DoctorAt("judge")
    /\ doctor' = [doctor EXCEPT !.at = "done", !.verdict = RunChecks(doctor.local, doctor.facts)]
    /\ UNCHANGED <<published, installed, machine, update, commands, moved>>

\* summarise.
ExitCode == IF \E c \in DOMAIN doctor.verdict : doctor.verdict[c] = "fail" THEN 1 ELSE 0

-----------------------------------------------------------------------------
(* The world.                                                              *)

Changed == moved < MachineLimit /\ moved' = moved + 1

\* A version is published, or `latest` is moved back; the mirror follows when it likes.
Publish ==
    /\ Changed
    /\ published' \in {<<v, published[2]>> : v \in BuildVersions \ {published[1]}} \cup {<<published[1], published[1]>>}
    /\ doctor' = Watched(machine, published')
    /\ UNCHANGED <<installed, machine, update, commands>>

MachineChanges ==
    /\ Changed
    /\ machine' \in {[machine EXCEPT !.profile = p] : p \in {"none", "invalid", "set"}}
                    \cup {[machine EXCEPT !.enrolled = e] : e \in {"none", "malformed", "foreign", "good"}}
                    \cup {[machine EXCEPT !.record = x] : x \in {"none", "malformed", "sound"}}
                    \cup {[machine EXCEPT !.log = x] : x \in {"none", "stale", "fresh"}}
                    \cup {[machine EXCEPT !.token = ~@], [machine EXCEPT !.key = ~@], [machine EXCEPT !.locked = ~@],
                     [machine EXCEPT !.scheduled = ~@], [machine EXCEPT !.uuid = ~@]}
    /\ doctor' = Watched(machine', published)
    /\ UNCHANGED <<published, installed, update, commands>>

-----------------------------------------------------------------------------
UpkeepNext ==
    \/ \E u \in Updaters : StartUpdate(u) \/ LookupFails(u) \/ PlanUpdate(u) \/ InstallUpdate(u) \/ InstallFails(u)
    \/ StartDoctor \/ InspectSchedule \/ AskLatest \/ AskToken \/ AskTargets \/ Judge
    \/ Publish \/ MachineChanges

UpkeepSpec == UpkeepInit /\ [][UpkeepNext]_upkeepVars

-----------------------------------------------------------------------------
(* Properties.                                                             *)

\* An update never replaces the installed version by a lower one, wherever `latest` points
\* and however far the mirror lags (planUpdate), unless another update has landed since it
\* started.
NeverDowngrades ==
    [][installed' # installed =>
         \/ \E u \in Updaters : update[u].overtaken /\ update'[u].at = "off"
         \/ LET Rank(v) == v.n[1] * (PartMax + 1) + v.n[2] IN Rank(installed') > Rank(installed)]_upkeepVars

\* A check that passes was in order at some time while the doctor looked, offline and with a
\* broken network too ("never a fabricated pass").
NoFabricatedPass ==
    DoctorAt("done") => \A c \in DOMAIN doctor.verdict : doctor.verdict[c] = "pass" => c \in doctor.good

\* A check fails, and with it the exit code, only where something was out of order while
\* the doctor looked: a network that is down fails nothing.  The one other cause is an
\* inspection of the schedule that throws: it fails the check of the schedule, and no other,
\* with the schedule in place.
FailsForCause ==
    DoctorAt("done") => \A c \in DOMAIN doctor.verdict :
        doctor.verdict[c] = "fail" => /\ ExitCode = 1
                                      /\ c \in doctor.bad \/ (c = "schedule" /\ doctor.uninspected)

\* The doctor's verdicts, put together from looks at several moments, are true both ways,
\* where it comes to verdicts: a malformed file ends it with none.
DoctorHonest == NoFabricatedPass /\ FailsForCause
=============================================================================
