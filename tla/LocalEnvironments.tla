-------------------------- MODULE LocalEnvironments -------------------------
(* The local environments of the dashboard: the gateway of                 *)
(* scripts/environments/launcher.mjs, which hands every browser tab an     *)
(* instance (demo, e2e or prod) and switches it on request, and the        *)
(* runtimes behind it (runtime.mjs), each a worker over a store on disk.   *)
(* An e2e runtime has a store of its own; the demo store is one for all    *)
(* processes, under running.lock, and is seeded again when it has aged.    *)
(* A second launcher, which only runs the demo, shares the disk.           *)
EXTENDS Integers, Sequences, FiniteSets

CONSTANTS
    Switches,       \* requests to switch that may be under way at once
    Calls,          \* requests of the dashboard that may be under way at once
    DemoFresh,      \* how long a seeded demo store is fresh
    LastHour,       \* bound on the clock
    InstanceLimit,  \* bound on instances
    RuntimeLimit,   \* bound on runtimes
    RivalLimit      \* bound on starts of the second launcher

ASSUME EnvironmentsAssumption ==
    {DemoFresh, LastHour, InstanceLimit, RuntimeLimit, RivalLimit} \subseteq Nat

VARIABLES
    hour,        \* the clock
    disk,        \* the demo store: is it there, ready, seeded when, locked
    job,         \* createRuntime of the demo, in the gateway and in the rival
    runtimes,    \* runtimes of the gateway: mode, anchor, open
    demoPromise, \* demoStarting: none, pending, or the runtime it resolved to
    instances,   \* instances by id
    switch,      \* requests to switch
    callOf,      \* calls: the instance and the runtime that each goes to
    refresh,     \* the refresh of the demo
    rivals,      \* starts of the rival so far
    outrun       \* two launchers were at once between their look and what it led to, one to remove

envVars == <<hour, disk, job, runtimes, demoPromise, instances, switch, callOf, refresh, rivals, outrun>>

Launchers == {"gateway", "rival"}
Modes == {"demo", "e2e", "prod"}
NoRecord == -1
NoStore == [there |-> FALSE, ready |-> FALSE, anchor |-> NoRecord, lock |-> FALSE]
NoJob == [at |-> "off", fresh |-> FALSE]
NoSwitch == [at |-> "off", mode |-> "prod", old |-> 0, id |-> 0]
NoCall == [instance |-> 0, runtime |-> 0]

EnvInit ==
    /\ hour = 0 /\ disk = NoStore /\ job = [l \in Launchers |-> NoJob] /\ runtimes = <<>>
    /\ demoPromise = [at |-> "none", runtime |-> 0] /\ instances = <<>>
    /\ switch = [w \in Switches |-> NoSwitch] /\ callOf = [c \in Calls |-> NoCall]
    /\ refresh = [at |-> "off", instance |-> 0] /\ rivals = 0 /\ outrun = FALSE

JobAt(l, stage) == job[l].at = stage
JobGoes(l, j) == job' = [job EXCEPT ![l] = j]

-----------------------------------------------------------------------------
(* createRuntime of the demo.                                              *)

\* Mutant: the age alone decides.
StaleWhoeverRuns == disk.anchor # NoRecord /\ hour - disk.anchor > DemoFresh
\* A store that nobody runs and whose record is older than the window is removed first.
Stale == disk.there /\ ~disk.lock /\ disk.anchor # NoRecord /\ hour - disk.anchor > DemoFresh

\* A launcher that has looked at the store and not yet acted on what it saw is overtaken when
\* another has as well and one of the two removes the store. (Two that go for the lock are told
\* apart by it.)
Looked == {"remove", "lock", "wipe"}
Removes == Looked \ {"lock"}
Overtaken(l, stage) ==
    \E m \in Launchers \ {l} :
      job[m].at \in Looked /\ (stage \in Removes \/ job[m].at \in Removes)

BeginDemo(l) == JobGoes(l, [NoJob EXCEPT !.at = "look"])

LookAtStore(l) ==
    /\ JobAt(l, "look")
    /\ JobGoes(l, IF Stale THEN [job[l] EXCEPT !.at = "remove"] ELSE [job[l] EXCEPT !.at = "lock", !.fresh = ~disk.there])
    /\ disk' = IF Stale THEN disk ELSE [disk EXCEPT !.there = TRUE]
    /\ outrun' = (outrun \/ Overtaken(l, IF Stale THEN "remove" ELSE "lock"))
    /\ UNCHANGED <<hour, runtimes, demoPromise, instances, switch, callOf, refresh, rivals>>

\* rmSync that fails has done none of it or some; verifyOwnership fails before it.
RemovalFails(l) ==
    /\ JobGoes(l, [NoJob EXCEPT !.at = "failed"])
    /\ disk' \in {disk, [disk EXCEPT !.ready = FALSE], [disk EXCEPT !.ready = FALSE, !.anchor = NoRecord]}

RemoveStale(l) ==
    /\ JobAt(l, "remove")
    /\ \/ disk' = [NoStore EXCEPT !.there = TRUE] /\ JobGoes(l, [at |-> "lock", fresh |-> TRUE])
       \/ RemovalFails(l)
    /\ UNCHANGED <<hour, runtimes, demoPromise, instances, switch, callOf, refresh, rivals, outrun>>

\* openSync(lock, "wx").
LockFree == disk.there /\ ~disk.lock

\* The lock, then, in a new store, the owner's record.
TakeLock(l) ==
    /\ JobAt(l, "lock")
    /\ IF LockFree
       THEN /\ JobGoes(l, [job[l] EXCEPT !.at = "init"])
            /\ disk' = [disk EXCEPT !.lock = TRUE, !.ready = @ /\ ~job[l].fresh, !.anchor = IF job[l].fresh THEN hour ELSE @]
       ELSE JobGoes(l, [NoJob EXCEPT !.at = "failed"]) /\ UNCHANGED disk
    /\ UNCHANGED <<hour, runtimes, demoPromise, instances, switch, callOf, refresh, rivals, outrun>>

\* The marker, the migrations, the fixture, the worker and its readiness; an old store that
\* is not ready is refused. A failure takes away whatever lock is there.
InitDemo(l) ==
    /\ JobAt(l, "init")
    /\ \/ /\ disk.there /\ (job[l].fresh \/ disk.ready)
          /\ JobGoes(l, [job[l] EXCEPT !.at = "up"]) /\ disk' = [disk EXCEPT !.ready = TRUE]
       \/ JobGoes(l, [NoJob EXCEPT !.at = "failed"]) /\ disk' = [disk EXCEPT !.lock = FALSE]
    /\ UNCHANGED <<hour, runtimes, demoPromise, instances, switch, callOf, refresh, rivals, outrun>>

-----------------------------------------------------------------------------
(* The removal of the demo store, at the end of close({ remove: true }) of *)
(* the gateway and for --reset-demo of the rival.                          *)

\* The worker has stopped and the lock goes; one that somebody else took away already ends it.
ReleaseLock ==
    /\ JobAt("gateway", "closing") /\ disk' = [disk EXCEPT !.lock = FALSE]
    /\ JobGoes("gateway", [NoJob EXCEPT !.at = IF disk.lock THEN "check" ELSE "failed"])
    /\ UNCHANGED <<hour, runtimes, demoPromise, instances, switch, callOf, refresh, rivals, outrun>>

\* removeOwned: nobody's lock is there and the store is ours, or it is left as it is.
CheckOwned(l) ==
    /\ JobAt(l, "check") /\ UNCHANGED disk
    /\ \/ LockFree /\ JobGoes(l, [NoJob EXCEPT !.at = "wipe"]) /\ outrun' = (outrun \/ Overtaken(l, "wipe"))
       \/ JobGoes(l, [NoJob EXCEPT !.at = "failed"]) /\ UNCHANGED outrun
    /\ UNCHANGED <<hour, runtimes, demoPromise, instances, switch, callOf, refresh, rivals>>

\* The whole tree goes, with a lock that came into it since the check. The gateway starts anew.
WipeOwned(l) ==
    /\ JobAt(l, "wipe")
    /\ \/ disk' = NoStore /\ JobGoes(l, [NoJob EXCEPT !.at = IF l = "gateway" THEN "look" ELSE "off"])
       \/ RemovalFails(l)
    /\ UNCHANGED <<hour, runtimes, demoPromise, instances, switch, callOf, refresh, rivals, outrun>>

-----------------------------------------------------------------------------
(* The rival.                                                              *)

\* It starts the demo or, with --reset-demo, removes its store.
RivalStarts ==
    /\ job["rival"].at \in {"off", "failed"} /\ rivals < RivalLimit /\ rivals' = rivals + 1
    /\ BeginDemo("rival") \/ (disk.there /\ JobGoes("rival", [NoJob EXCEPT !.at = "check"]))
    /\ UNCHANGED <<hour, disk, runtimes, demoPromise, instances, switch, callOf, refresh, outrun>>

\* It stops in order and keeps the store, or is killed and leaves the lock.
RivalStops ==
    /\ job["rival"].at \in {"init", "up"} /\ JobGoes("rival", NoJob)
    /\ \/ JobAt("rival", "up") /\ disk' = [disk EXCEPT !.lock = FALSE]
       \/ UNCHANGED disk
    /\ UNCHANGED <<hour, runtimes, demoPromise, instances, switch, callOf, refresh, rivals, outrun>>

\* The stages in which a launcher works on the store under its lock.
Holds == {"init", "up", "closing"}

\* Someone takes a lock away that its holder has left, as only a person can.
ClearLock ==
    /\ disk.lock /\ \A l \in Launchers : job[l].at \notin Holds
    /\ disk' = [disk EXCEPT !.lock = FALSE]
    /\ UNCHANGED <<hour, job, runtimes, demoPromise, instances, switch, callOf, refresh, rivals, outrun>>

-----------------------------------------------------------------------------
(* Switching.                                                              *)

InstanceIds == DOMAIN instances
SwitchAt(w, stage) == switch[w].at = stage
SwitchGoes(w, s) == switch' = [switch EXCEPT ![w] = s]
LiveInstance(i) == i \in InstanceIds /\ instances[i].active

Opened(mode) == Append(runtimes, [mode |-> mode, anchor |-> disk'.anchor, open |-> TRUE])
NewInstance(mode, r) == [mode |-> mode, runtime |-> r, active |-> TRUE, switching |-> FALSE]

\* POST /__bat/environment; the answer to a switch to its own mode changes nothing.
AskSwitch(w) ==
    /\ SwitchAt(w, "off") /\ Len(instances) < InstanceLimit
    /\ \E old \in {0} \cup {i \in InstanceIds : LiveInstance(i) /\ ~instances[i].switching}, mode \in Modes :
         /\ old # 0 => instances[old].mode # mode
         /\ SwitchGoes(w, [at |-> "create", mode |-> mode, old |-> old, id |-> 0])
         /\ instances' = IF old = 0 THEN instances ELSE [instances EXCEPT ![old].switching = TRUE]
    /\ UNCHANGED <<hour, disk, job, runtimes, demoPromise, callOf, refresh, rivals, outrun>>

\* The new instance takes over and the old one is gone for every request that comes.
TakesOver(w, r) ==
    LET s == switch[w]
        old == IF s.old = 0 THEN instances ELSE [instances EXCEPT ![s.old].active = FALSE]
    IN /\ Len(instances) < InstanceLimit
       /\ instances' = Append(old, NewInstance(s.mode, r))
       /\ SwitchGoes(w, IF s.old = 0 THEN NoSwitch ELSE [s EXCEPT !.at = "drain", !.id = Len(old) + 1])

\* A failed create gives the old instance back.
SwitchFails(w) ==
    /\ SwitchAt(w, "create")
    /\ SwitchGoes(w, NoSwitch)
    /\ instances' = IF switch[w].old = 0 THEN instances ELSE [instances EXCEPT ![switch[w].old].switching = FALSE]

CreateE2e(w) ==
    /\ SwitchAt(w, "create") /\ switch[w].mode = "e2e" /\ UNCHANGED disk
    /\ \/ Len(runtimes) < RuntimeLimit /\ runtimes' = Opened("e2e") /\ TakesOver(w, Len(runtimes) + 1)
       \/ SwitchFails(w) /\ UNCHANGED runtimes
    /\ UNCHANGED <<hour, job, demoPromise, callOf, refresh, rivals, outrun>>

\* authenticateProd.
CreateProd(w) ==
    /\ SwitchAt(w, "create") /\ switch[w].mode = "prod"
    /\ TakesOver(w, 0) \/ SwitchFails(w)
    /\ UNCHANGED <<hour, disk, job, runtimes, demoPromise, callOf, refresh, rivals, outrun>>

\* demoStarting ??= createRuntime: the first one starts it, the others wait for the same.
CreateDemo(w) ==
    /\ SwitchAt(w, "create") /\ switch[w].mode = "demo"
    /\ CASE demoPromise.at = "none" ->
              /\ job["gateway"].at \in {"off", "failed"} /\ BeginDemo("gateway")
              /\ demoPromise' = [at |-> "pending", runtime |-> 0] /\ UNCHANGED <<instances, switch>>
         [] demoPromise.at = "resolved" -> TakesOver(w, demoPromise.runtime) /\ UNCHANGED <<job, demoPromise>>
         [] OTHER -> FALSE
    /\ UNCHANGED <<hour, disk, runtimes, callOf, refresh, rivals, outrun>>

\* The promise is kept, or is forgotten and fails everyone who waits for it.
DemoResolves ==
    /\ demoPromise.at = "pending" /\ job["gateway"].at \in {"up", "failed"} /\ UNCHANGED disk
    /\ IF JobAt("gateway", "up")
       THEN /\ Len(runtimes) < RuntimeLimit /\ runtimes' = Opened("demo")
            /\ demoPromise' = [at |-> "resolved", runtime |-> Len(runtimes) + 1]
            /\ UNCHANGED <<instances, switch, job>>
       ELSE LET waits == {w \in Switches : SwitchAt(w, "create") /\ switch[w].mode = "demo"}
                old == {switch[w].old : w \in waits}
            IN /\ demoPromise' = [at |-> "none", runtime |-> 0] /\ UNCHANGED runtimes /\ JobGoes("gateway", NoJob)
               /\ switch' = [w \in Switches |-> IF w \in waits THEN NoSwitch ELSE switch[w]]
               /\ instances' = [i \in InstanceIds |-> IF i \in old THEN [instances[i] EXCEPT !.switching = FALSE] ELSE instances[i]]
    /\ UNCHANGED <<hour, callOf, refresh, rivals, outrun>>

\* Promise.allSettled of what was pending.
Drained(i) == \A c \in Calls : callOf[c].instance # i

\* An e2e runtime is closed and its store removed once its last call has an answer.
CloseOld(w) ==
    /\ SwitchAt(w, "drain") /\ Drained(switch[w].old)
    /\ LET r == instances[switch[w].old].runtime
       IN runtimes' = IF instances[switch[w].old].mode = "e2e" THEN [runtimes EXCEPT ![r].open = FALSE] ELSE runtimes
    /\ SwitchGoes(w, NoSwitch)
    /\ UNCHANGED <<hour, disk, job, demoPromise, instances, callOf, refresh, rivals, outrun>>

-----------------------------------------------------------------------------
(* Calls of the dashboard.                                                 *)

SendCall(c) ==
    /\ callOf[c] = NoCall
    /\ \E i \in InstanceIds : LiveInstance(i) /\ callOf' = [callOf EXCEPT ![c] = [instance |-> i, runtime |-> instances[i].runtime]]
    /\ UNCHANGED <<hour, disk, job, runtimes, demoPromise, instances, switch, refresh, rivals, outrun>>

AnswerCall(c) ==
    /\ callOf[c] # NoCall /\ callOf' = [callOf EXCEPT ![c] = NoCall]
    /\ UNCHANGED <<hour, disk, job, runtimes, demoPromise, instances, switch, refresh, rivals, outrun>>

-----------------------------------------------------------------------------
(* demoRefresh, once a minute.                                             *)

DemoInstances == {i \in InstanceIds : LiveInstance(i) /\ instances[i].mode = "demo"}
FirstDemo == CHOOSE i \in DemoInstances : \A j \in DemoInstances : i <= j

\* close({ remove: true }), which marks the runtime closed first of all. When its store cannot
\* be verified or its worker does not stop, the demo goes on as it was, lock and store too, but
\* no later close will do anything. A runtime closed before, and not running, is created again;
\* while the gateway runs the demo, such a create, as that of a tick that comes too soon, fails
\* at the gateway's own lock.
StartRefresh ==
    /\ refresh.at = "off" /\ DemoInstances # {}
    /\ LET r == instances[FirstDemo].runtime
       IN /\ hour - runtimes[r].anchor > DemoFresh
          /\ \/ /\ runtimes[r].open /\ runtimes' = [runtimes EXCEPT ![r].open = FALSE]
                /\ \/ JobGoes("gateway", [NoJob EXCEPT !.at = "closing"]) /\ refresh' = [at |-> "on", instance |-> FirstDemo]
                   \/ UNCHANGED <<job, refresh>>
             \/ /\ ~runtimes[r].open /\ job["gateway"].at \in {"off", "failed"} /\ BeginDemo("gateway")
                /\ refresh' = [at |-> "on", instance |-> FirstDemo] /\ UNCHANGED runtimes
    /\ UNCHANGED <<hour, disk, demoPromise, instances, switch, callOf, rivals, outrun>>

\* The instance keeps its id and gets the new runtime; a failure is logged and tried again.
FinishRefresh ==
    /\ refresh.at = "on" /\ job["gateway"].at \in {"up", "failed"} /\ UNCHANGED disk
    /\ IF JobAt("gateway", "up")
       THEN /\ Len(runtimes) < RuntimeLimit /\ runtimes' = Opened("demo")
            /\ instances' = [instances EXCEPT ![refresh.instance].runtime = Len(runtimes) + 1]
       ELSE UNCHANGED <<runtimes, instances>>
    /\ refresh' = [at |-> "off", instance |-> 0]
    /\ UNCHANGED <<hour, job, demoPromise, switch, callOf, rivals, outrun>>

PassHour ==
    /\ hour < LastHour /\ hour' = hour + 1
    /\ UNCHANGED <<disk, job, runtimes, demoPromise, instances, switch, callOf, refresh, rivals, outrun>>

-----------------------------------------------------------------------------
EnvNext ==
    \/ \E l \in Launchers : LookAtStore(l) \/ RemoveStale(l) \/ TakeLock(l) \/ InitDemo(l) \/ CheckOwned(l) \/ WipeOwned(l)
    \/ ReleaseLock \/ RivalStarts \/ RivalStops \/ ClearLock
    \/ \E w \in Switches : AskSwitch(w) \/ CreateE2e(w) \/ CreateProd(w) \/ CreateDemo(w) \/ CloseOld(w)
    \/ DemoResolves
    \/ \E c \in Calls : SendCall(c) \/ AnswerCall(c)
    \/ StartRefresh \/ FinishRefresh \/ PassHour

EnvSpec == EnvInit /\ [][EnvNext]_envVars

-----------------------------------------------------------------------------
(* Properties.                                                             *)

\* No call goes to an e2e runtime that a switch has closed: whoever switches away waits for
\* what was under way, and nothing new comes (the "pending" set of an instance).
NoCallAfterClose ==
    \A c \in Calls : LET r == callOf[c].runtime IN r # 0 /\ runtimes[r].mode = "e2e" => runtimes[r].open

\* One launcher at a time works on the demo store, whatever was killed, refreshed or reset. The
\* exception is the code's: nothing holds the store between the look of createRuntime and its
\* lock or removal (184-193), nor between the check of removeOwned and its removal (79-82), so
\* of two launchers that are there at once both may go on when one of them removes the store.
OneLauncher == outrun \/ Cardinality({l \in Launchers : job[l].at \in Holds}) <= 1

\* A demo that runs keeps its store, however old, when others start, stop, reset or fail, with
\* the same exception.
RunningStoreStays == outrun \/ \A l \in Launchers : JobAt(l, "up") => disk.there /\ disk.ready /\ disk.lock

\* Switching environments and starting, refreshing and resetting demos beside each other takes
\* nothing away that is in use, but in such a window.
InUseStays == NoCallAfterClose /\ OneLauncher /\ RunningStoreStays
=============================================================================
