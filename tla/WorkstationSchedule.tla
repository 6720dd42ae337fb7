------------------------- MODULE WorkstationSchedule -------------------------
(***************************************************************************)
(* `bat workstation setup`: the per-user schedule of the probe in launchd, *)
(* systemd, the Windows Task Scheduler or crontab.  An installation writes *)
(* files, runs the commands of its plan and rolls back when one fails;     *)
(* every command and every change of a file may fail, with or without its  *)
(* effect, and the CLI may be killed at any step.  The crontab belongs to  *)
(* the user, who may edit it at any time: the CLI rewrites its marked      *)
(* block only, in what it has captured of the table.                       *)
(*                                                                         *)
(* The content of a file, unit or task is the number of the plan it was    *)
(* written for (the paths of node and of the CLI differ between them).  An *)
(* invocation that fails before its first change (a corrupt schedule.json, *)
(* a file or a Windows task that cannot be read) has no step here.         *)
(***************************************************************************)
EXTENDS Integers, FiniteSets, Sequences, SequencesExt

CONSTANTS
    PlanCount,    \* how many contents an installation may write
    SetupLimit,   \* bound on the invocations of `setup`
    EditLimit,    \* bound on the user's edits of the crontab
    PieceLimit    \* the lines that `crontab -l` hands over in one piece

ASSUME ScheduleAssumption ==
    /\ PlanCount \in Nat \ {0}
    /\ {SetupLimit, EditLimit, PieceLimit} \subseteq Nat

Plans == 1..PlanCount

\* What a write that broke off has left in a file.
TORN == -1

Natives == {"launchd", "systemd", "windows"}
Backends == Natives \cup {"cron"}

VARIABLES
    native,       \* the backend that the operating system offers
    os,           \* files, what the scheduler has loaded, the task; 0 is nothing
    crontab,      \* its lines
    scheduleFile, \* the backend in schedule.json, or "none"
    cli,          \* the invocation under way
    intact,       \* no invocation was killed, no step failed that nothing undoes
    lines,        \* the user's own lines, in order, as the user left them
    undisturbed,  \* the user has neither edited under our hands nor broken the markers
    setups, edits

scheduleVars == <<native, os, crontab, scheduleFile, cli, intact, lines, undisturbed, setups, edits>>

Bare == [service |-> 0, timer |-> 0, known |-> 0, active |-> FALSE, task |-> 0, battery |-> FALSE]

NoCli == [at |-> "idle", backend |-> "none", plan |-> 0, todo |-> <<>>, before |-> Bare,
          table |-> <<>>, read |-> <<>>, clean |-> TRUE, result |-> "none"]

ScheduleInit ==
    /\ native \in Natives
    /\ os = Bare /\ crontab = <<>> /\ scheduleFile = "none" /\ cli = NoCli
    /\ intact = TRUE /\ lines = <<>> /\ undisturbed = TRUE
    /\ setups = 0 /\ edits = 0

Files(backend) == CASE backend = "launchd" -> <<"timer">>
                    [] backend = "systemd" -> <<"service", "timer">>
                    [] OTHER -> <<>>

\* The schedule starts the probe as plan p says.
Works(backend, o, p) ==
    IF backend = "windows" THEN o.task = p /\ o.battery
    ELSE o.active /\ o.known = p /\ \A f \in Range(Files(backend)) : o[f] = p

-----------------------------------------------------------------------------
(* The plans (buildPlan) and what their commands do.                       *)

\* plan.register: a question mark is tolerateFailure.
Register(backend) ==
    CASE backend = "launchd" -> <<"bootout?", "bootstrap", "enable">>
      [] backend = "systemd" -> <<"daemon-reload", "enable-now">>
      [] backend = "windows" -> <<"create", "battery">>

Unregister(backend) ==
    CASE backend = "launchd" -> <<"bootout">>
      [] backend = "systemd" -> <<"disable-now">>
      [] backend = "windows" -> <<"delete">>

Finalize(backend) == IF backend = "systemd" THEN <<"daemon-reload?">> ELSE <<>>

Tolerated(command) == command \in {"bootout?", "bootstrap?", "daemon-reload?"}

\* Whether a command can succeed, and its effect on the machine (external: launchctl,
\* systemctl, schtasks and PowerShell).
Possible(command, o) ==
    CASE command \in {"bootstrap", "bootstrap?"} -> o.timer \in Plans /\ ~o.active
      [] command = "enable-now" -> o.timer # 0
      [] command \in {"bootout", "bootout?", "disable-now"} -> o.active
      [] command \in {"battery", "delete"} -> o.task # 0
      [] OTHER -> TRUE

Effect(command, o, p) ==
    CASE command \in {"bootout", "bootout?"} -> [o EXCEPT !.active = FALSE, !.known = 0]
      [] command \in {"bootstrap", "bootstrap?"} -> [o EXCEPT !.active = TRUE, !.known = o.timer]
      [] command \in {"daemon-reload", "daemon-reload?"} -> [o EXCEPT !.known = o.service]
      [] command = "enable-now" -> [o EXCEPT !.active = TRUE]
      [] command = "disable-now" -> [o EXCEPT !.active = FALSE]
      [] command = "create" -> [o EXCEPT !.task = p, !.battery = FALSE]
      [] command = "battery" -> [o EXCEPT !.battery = TRUE]
      [] command = "delete" -> [o EXCEPT !.task = 0, !.battery = FALSE]
      [] OTHER -> o

-----------------------------------------------------------------------------
(* An invocation: the steps that lie ahead of it, one after the other.     *)

\* A step is <<kind, argument>>.
Write(fs) == [i \in 1..Len(fs) |-> <<"write", fs[i]>>]
Restore(fs) == [i \in 1..Len(fs) |-> <<"restore", fs[i]>>]
RemoveFiles(fs) == [i \in 1..Len(fs) |-> <<"remove", fs[i]>>]
Run(commands) == [i \in 1..Len(commands) |-> <<"run", commands[i]>>]
Try(commands) == [i \in 1..Len(commands) |-> <<"try", commands[i]>>]
RunUnregister(commands) == [i \in 1..Len(commands) |-> <<"unregister", commands[i]>>]

CliBusy == cli.at # "idle"
Goes(todo) == cli' = [cli EXCEPT !.todo = todo]
user == <<lines, undisturbed, edits>>

Begin(what) ==
    /\ ~CliBusy /\ setups < SetupLimit
    /\ setups' = setups + 1
    /\ cli' = what
    /\ UNCHANGED <<native, os, crontab, scheduleFile, intact, user>>

\* runSetupCommand: another backend must be removed first; then installSchedule notes what
\* is there (snapshotPlanFiles, snapshotWindowsTask), writes its files and registers.
SetupInstall(backend, p) ==
    /\ backend \in {native, "cron"} /\ ~(backend = "cron" /\ native = "windows")
    /\ scheduleFile \in {"none", backend}
    /\ Begin([NoCli EXCEPT !.at = IF backend = "cron" THEN "cron" ELSE "install",
                           !.backend = backend, !.plan = p, !.before = os,
                           !.todo = IF backend = "cron" THEN <<<<"read", "install">>>>
                                    ELSE Write(Files(backend)) \o Run(Register(backend))])

\* removeSchedule of the recorded backend; without a record there is nothing to do.
SetupRemove ==
    /\ scheduleFile # "none"
    /\ Begin([NoCli EXCEPT !.at = "remove", !.backend = scheduleFile, !.before = os,
                           !.todo = IF scheduleFile = "cron" THEN <<<<"read", "remove">>>>
                                    ELSE RunUnregister(Unregister(scheduleFile))
                                         \o RemoveFiles(Files(scheduleFile))
                                         \o Try(Finalize(scheduleFile))])

StepAhead == CliBusy /\ cli.todo # <<>>
Kind(kind) == StepAhead /\ Head(cli.todo)[1] = kind
Argument == Head(cli.todo)[2]
still == <<native, crontab, scheduleFile, user, setups>>

\* An error that nothing catches but the command itself: what was ahead is left undone.
Throws ==
    /\ cli' = [NoCli EXCEPT !.result = "error"]
    /\ intact' = FALSE
    /\ UNCHANGED still

\* A write that breaks off: the file as it was, half of it, or all of it.
BreaksOff(content) ==
    \/ UNCHANGED os
    \/ \E c \in {TORN, content} : os' = [os EXCEPT ![Argument] = c]

\* writePlanFiles, restoreFiles, removeFiles: one file at a time.
WriteFile ==
    /\ Kind("write")
    /\ os' = [os EXCEPT ![Argument] = cli.plan]
    /\ Goes(Tail(cli.todo))
    /\ UNCHANGED <<intact, still>>

\* writePlanFiles stands outside the try: nothing is rolled back, and what was loaded runs on.
WriteFails ==
    /\ Kind("write")
    /\ BreaksOff(cli.plan)
    /\ cli' = [NoCli EXCEPT !.before = cli.before, !.result = "unwritten"]
    /\ intact' = FALSE
    /\ UNCHANGED still

RestoreFile ==
    /\ Kind("restore")
    /\ os' = [os EXCEPT ![Argument] = cli.before[Argument]]
    /\ Goes(Tail(cli.todo))
    /\ UNCHANGED <<intact, still>>

\* restoreFiles throws within the catch: the rest of the rollback is skipped.
RestoreFails ==
    /\ Kind("restore")
    /\ BreaksOff(cli.before[Argument])
    /\ Throws

RemoveFile ==
    /\ Kind("remove")
    /\ os' = [os EXCEPT ![Argument] = 0]
    /\ Goes(Tail(cli.todo))
    /\ UNCHANGED <<intact, still>>

RemoveFails ==
    /\ Kind("remove")
    /\ Throws
    /\ UNCHANGED os

\* What snapshotPlanFiles has found.
Existed == {f \in {"service", "timer"} : cli.before[f] # 0}

\* The files of a plan, at most two, that are in a set.
Among(fs, S) == IF Range(fs) \subseteq S THEN fs
                ELSE IF Range(fs) \cap S = {} THEN <<>>
                ELSE <<CHOOSE f \in S : f \in Range(fs)>>

\* Mutant: the files come back but are not registered again.
RollbackUnregistered(backend) ==
    IF Range(Files(backend)) \cap Existed # {}
    THEN Restore(Among(Files(backend), Existed))
    ELSE Try(Unregister(backend)) \o RemoveFiles(Files(backend))

\* The catch of installSchedule: a Windows task is put back as it was; files that were there
\* come back and are registered again; otherwise everything is taken down.
Rollback(backend) ==
    IF backend = "windows" /\ cli.before.task # 0 THEN <<<<"put-back", "task">>>>
    ELSE IF Range(Files(backend)) \cap Existed # {}
    THEN Restore(Among(Files(backend), Existed)) \o Try(Register(backend))
         \o RemoveFiles(Among(Files(backend), {"service", "timer"} \ Existed))
    ELSE Try(Unregister(backend)) \o RemoveFiles(Files(backend))

\* runCommandOrThrow: the next command of the plan succeeds, or its failure is tolerated.
RunCommand ==
    /\ Kind("run")
    /\ \/ /\ Possible(Argument, os)
          /\ os' = Effect(Argument, os, cli.plan)
       \/ /\ Tolerated(Argument)
          /\ UNCHANGED os
    /\ Goes(Tail(cli.todo))
    /\ UNCHANGED <<intact, still>>

\* It cannot start, or it fails and may have had its effect all the same: the installation
\* is rolled back.
CommandFails ==
    /\ Kind("run")
    /\ \/ UNCHANGED os
       \/ /\ ~Tolerated(Argument) /\ Possible(Argument, os)
          /\ os' = Effect(Argument, os, cli.plan)
    /\ cli' = [cli EXCEPT !.at = "rollback", !.todo = Rollback(cli.backend)]
    /\ UNCHANGED <<intact, still>>

\* A command of a rollback or of the cleanup: what comes of it is ignored.
TryCommand ==
    /\ Kind("try")
    /\ os' = IF Possible(Argument, os) THEN Effect(Argument, os, cli.plan) ELSE os
    /\ Goes(Tail(cli.todo))
    /\ UNCHANGED <<intact, still>>

TryFails ==
    /\ Kind("try")
    /\ Possible(Argument, os)
    /\ intact' = FALSE
    /\ cli' = [cli EXCEPT !.todo = Tail(@), !.clean = FALSE]
    /\ UNCHANGED <<os, still>>

\* restoreWindowsTask.
PutBack ==
    /\ Kind("put-back")
    /\ os' = [os EXCEPT !.task = cli.before.task, !.battery = cli.before.battery]
    /\ Goes(<<>>)
    /\ UNCHANGED <<intact, still>>

PutBackFails ==
    /\ Kind("put-back")
    /\ intact' = FALSE
    /\ cli' = [cli EXCEPT !.todo = <<>>, !.clean = FALSE]
    /\ UNCHANGED <<os, still>>

AlreadyAbsent(command) == ~Possible(command, os)

\* runUnregister of a removal: only "nothing registered" is tolerated.
UnregisterCommand ==
    /\ Kind("unregister")
    /\ \/ /\ Possible(Argument, os)
          /\ os' = Effect(Argument, os, 0)
       \/ /\ AlreadyAbsent(Argument)
          /\ UNCHANGED os
    /\ Goes(Tail(cli.todo))
    /\ UNCHANGED <<intact, still>>

UnregisterFails ==
    /\ Kind("unregister")
    /\ Possible(Argument, os)
    /\ \E took \in BOOLEAN : os' = IF took THEN Effect(Argument, os, 0) ELSE os
    /\ Throws

\* ALREADY_ABSENT takes the words of another failure ("Failed to connect to bus: No such
\* file or directory") for "nothing registered".
UnregisterMistaken ==
    /\ Kind("unregister") /\ cli.backend # "windows"
    /\ Possible(Argument, os)
    /\ intact' = FALSE
    /\ cli' = [cli EXCEPT !.todo = Tail(@), !.clean = FALSE]
    /\ UNCHANGED <<os, still>>

\* Nothing is left to do: schedule.json is written or deleted, or the error is reported.
Finish ==
    /\ CliBusy /\ cli.todo = <<>>
    /\ scheduleFile' = CASE cli.at \in {"install", "cron"} -> cli.backend
                         [] cli.at = "remove" -> "none"
                         [] cli.at = "rollback" -> scheduleFile
    /\ cli' = [cli EXCEPT !.at = "idle", !.table = <<>>, !.read = <<>>,
                          !.result = IF cli.at = "rollback" THEN "error" ELSE cli.at]
    /\ UNCHANGED <<native, os, crontab, intact, user, setups>>

\* writeScheduleRecord fails behind an installation: the command reports an error, and the
\* record stays as it was (writeAtomic).
RecordFails ==
    /\ cli.at \in {"install", "cron"} /\ cli.todo = <<>>
    /\ cli' = [cli EXCEPT !.at = "idle", !.table = <<>>, !.read = <<>>, !.result = "unrecorded"]
    /\ intact' = (intact /\ scheduleFile = cli.backend)
    /\ UNCHANGED <<os, still>>

\* deleteScheduleRecord fails behind a removal.
RecordStays ==
    /\ cli.at = "remove" /\ cli.todo = <<>>
    /\ Throws
    /\ UNCHANGED os

\* A kill within a write tears the file.
Kill ==
    /\ CliBusy
    /\ \/ UNCHANGED os
       \/ /\ Kind("write") \/ Kind("restore")
          /\ os' = [os EXCEPT ![Argument] = TORN]
    /\ cli' = NoCli
    /\ intact' = FALSE
    /\ UNCHANGED still

-----------------------------------------------------------------------------
(* crontab.                                                                *)

BEGIN == -1
JOB == -2
END == -3
Marks == {BEGIN, END}

IndexOf(text, line) == SelectInSeq(text, LAMBDA l : l = line)

HasCronBlock(text) ==
    LET start == IndexOf(text, BEGIN) IN start # 0 /\ IndexOf(text, END) > start

\* stripCronBlock: from the first BEGIN to the first END, if they are there in this order.
StripCronBlock(text) ==
    IF ~HasCronBlock(text) THEN text
    ELSE SubSeq(text, 1, IndexOf(text, BEGIN) - 1) \o SubSeq(text, IndexOf(text, END) + 1, Len(text))

MergeCronBlock(text) == StripCronBlock(text) \o <<BEGIN, JOB, END>>

\* What is left of a line of which a part was lost.
CUT == -4

\* What runCommand makes of a table.  In one piece it comes whole.  Otherwise what follows the
\* piece that passes MAX_CAPTURE_BYTES is dropped, in the middle of a line perhaps, and a
\* character that lies across two pieces is garbled (our marks have none that can).
Captured(text) ==
    IF Len(text) <= PieceLimit THEN {text}
    ELSE UNION {{[i \in 1..n |-> IF i \in Broken THEN CUT ELSE text[i]] :
                   Broken \in {B \in SUBSET (1..n) : \A i \in B : text[i] \in Marks => i = n}} :
                n \in PieceLimit..Len(text)}

\* readCrontab, then writeCrontab of what was made of it; either may fail.
ReadCrontab ==
    /\ Kind("read")
    /\ \E text \in Captured(crontab) :
         cli' = [cli EXCEPT !.table = crontab, !.read = text,
                            !.todo = <<<<"rewrite", Argument>>>>]
    /\ UNCHANGED <<os, intact, still>>

\* removeCron writes nothing when it has found no block; the record goes all the same.
Rewritten == IF Argument = "install" THEN MergeCronBlock(cli.read)
             ELSE IF HasCronBlock(cli.read) THEN StripCronBlock(cli.read) ELSE crontab

RewriteCrontab ==
    /\ Kind("rewrite")
    /\ crontab' = Rewritten
    /\ undisturbed' = (undisturbed /\ crontab = cli.table)
    /\ Goes(<<>>)
    /\ UNCHANGED <<native, os, scheduleFile, intact, lines, setups, edits>>

\* `crontab` fails, and a rewrite may have taken place all the same.
CrontabFails ==
    /\ Kind("read") \/ Kind("rewrite")
    /\ \/ UNCHANGED <<crontab, undisturbed, intact>>
       \/ /\ Kind("rewrite")
          /\ crontab' = Rewritten
          /\ undisturbed' = (undisturbed /\ crontab = cli.table)
          /\ intact' = FALSE
    /\ cli' = [NoCli EXCEPT !.result = "error"]
    /\ UNCHANGED <<native, os, scheduleFile, lines, setups, edits>>

\* The user adds a line, at the top or at the end.
UserAddsLine ==
    /\ edits < EditLimit /\ native # "windows"
    /\ edits' = edits + 1
    /\ \/ crontab' = Append(crontab, edits) /\ lines' = Append(lines, edits)
       \/ crontab' = <<edits>> \o crontab /\ lines' = <<edits>> \o lines
    /\ UNCHANGED <<native, os, scheduleFile, cli, intact, undisturbed, setups>>

\* The user deletes one of our markers by mistake.
UserDropsMark ==
    /\ edits < EditLimit
    /\ \E i \in DOMAIN crontab : crontab[i] \in Marks /\ crontab' = RemoveAt(crontab, i)
    /\ edits' = edits + 1
    /\ undisturbed' = FALSE
    /\ UNCHANGED <<native, os, scheduleFile, cli, intact, lines, setups>>

-----------------------------------------------------------------------------
ScheduleNext ==
    \/ \E b \in Backends, p \in Plans : SetupInstall(b, p)
    \/ SetupRemove
    \/ WriteFile \/ RestoreFile \/ RemoveFile
    \/ WriteFails \/ RestoreFails \/ RemoveFails
    \/ RunCommand \/ CommandFails \/ TryCommand \/ TryFails \/ PutBack \/ PutBackFails
    \/ UnregisterCommand \/ UnregisterFails \/ UnregisterMistaken
    \/ ReadCrontab \/ RewriteCrontab \/ CrontabFails
    \/ Finish \/ RecordFails \/ RecordStays \/ Kill
    \/ UserAddsLine \/ UserDropsMark

ScheduleSpec == ScheduleInit /\ [][ScheduleNext]_scheduleVars

-----------------------------------------------------------------------------
(* Properties.                                                             *)

\* What the machine will do, whatever units it still remembers.
View(o) == [o EXCEPT !.known = IF o.active THEN @ ELSE 0]

\* The head of index.ts: "a failed reinstall restores the previous working files and
\* registration".  An installation that rolls back leaves the schedule that worked before it,
\* or none where there was none.  It holds of a command that fails, not of a failing write of
\* the files (the result "unwritten") and not when a step of the rollback fails itself.
FailureRestores ==
    (/\ cli.at = "idle" /\ cli.result = "error"
     /\ cli.backend \in Natives /\ cli.clean
     /\ View(cli.before) = Bare \/ \E p \in Plans : Works(cli.backend, cli.before, p))
       => View(os) = View(cli.before)

\* What the scheduler holds, whatever lies in the files.
Loaded(o) == [known |-> o.known, active |-> o.active, task |-> o.task, battery |-> o.battery]

\* A failing write of the files leaves what is loaded as it was, though the files are new or
\* torn by then: an old schedule runs on until it is loaded again.
UnwrittenKeepsLoaded ==
    cli.at = "idle" /\ cli.result = "unwritten" => Loaded(os) = Loaded(cli.before)

\* "Workstation schedule installed": the probe runs as this plan says, whatever state earlier
\* failures left behind; it does as well when only the record could not be written.
InstalledWorks ==
    cli.at = "idle" /\ cli.result \in {"install", "unrecorded"} /\ cli.backend \in Natives =>
      Works(cli.backend, os, cli.plan)

\* The user's lines and our block come in one piece.
Fits == Len(lines) + 3 <= PieceLimit

\* schedule.json tells what is there, so that `setup --remove` can take it down: unless an
\* invocation was killed, or a step failed that nothing undoes (a write of the files, a step
\* of a rollback, an unregistration or what looked like one, the removal of a file, the
\* record itself); for cron, unless the user breaks the markers or the table is too long.
RecordTruthful ==
    ~CliBusy /\ intact =>
      CASE scheduleFile = "none" ->
             View(os) = Bare /\ (undisturbed /\ Fits => ~HasCronBlock(crontab))
        [] scheduleFile = "cron" -> undisturbed /\ Fits => HasCronBlock(crontab)
        [] OTHER -> \E p \in Plans : Works(scheduleFile, os, p)

\* "Only the marked block is ever rewritten": the table holds the user's lines in their order,
\* with at most one block among them, unless the user edits the table between our reading and
\* our writing or breaks the markers.  It holds of a table that comes in one piece only: of a
\* longer one the end is lost.
UserLinesKept ==
    undisturbed /\ Fits =>
      \/ crontab = lines
      \/ \E i \in 0..Len(lines) :
            crontab = SubSeq(lines, 1, i) \o <<BEGIN, JOB, END>> \o SubSeq(lines, i + 1, Len(lines))

\* Through failing commands and writes, kills between any two of them, tables that are cut and
\* a user who edits the crontab, `bat workstation setup` leaves what it says and what
\* schedule.json records, with the exceptions named above.
InstallationSound ==
    /\ FailureRestores
    /\ UnwrittenKeepsLoaded
    /\ InstalledWorks
    /\ RecordTruthful
    /\ UserLinesKept
=============================================================================
