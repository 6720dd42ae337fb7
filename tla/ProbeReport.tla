---------------------------- MODULE ProbeReport ----------------------------
(***************************************************************************)
(* The report of one workstation probe, from both ends: the CLI collects   *)
(* the machine, pings the targets in a few lanes and assembles the report; *)
(* the schema that CLI and Worker share decides whether it may be sent.    *)
(* A report that the schema refuses is lost as a whole, so what the        *)
(* collectors produce must fit it for every machine and every ping.        *)
(*                                                                         *)
(* Texts are their lengths, lists of addresses theirs; byte counts, CPUs   *)
(* and limits are small numbers around the limits of WORKSTATION_LIMITS.   *)
(***************************************************************************)
EXTENDS Integers, FiniteSets, FiniteSetsExt

CONSTANTS
    Targets,    \* authorized servers
    PingLanes,      \* PROBE_CONCURRENCY
    TextMax,    \* the length limits of hostname, os, arch, model, mount and interface names
    ListMax,    \* the limits of interfaces and of addresses per interface
    CpuMax,     \* WORKSTATION_LIMITS.cpuCount
    BytesMax,   \* WORKSTATION_LIMITS.bytes
    ErrorMax,   \* WORKSTATION_LIMITS.collectionErrors
    MaxSpan     \* WORKSTATION_MAX_RUN_MS in units of the wall clock

ASSUME ReportAssumption ==
    /\ IsFiniteSet(Targets)
    /\ {PingLanes, TextMax, ListMax, CpuMax, BytesMax, MaxSpan} \subseteq Nat \ {0}
    /\ ErrorMax \in Nat

PingCount == 3
Null == -1     \* null where the schema allows it: no valid number
Bound(low, x, high) == Min({high, Max({low, x})})
Truncate(length) == Min({length, TextMax})

VARIABLES
    step,       \* where runWorkstationProbe is
    overdue,       \* the budget for pings is used up
    errors,     \* ErrorList
    machine,    \* what the collectors have found: parts of the report
    queued,     \* targets that no lane has taken
    inFlight,   \* targets that a lane is pinging
    entries,    \* target -> its connectivity entry
    verdict     \* of validateWorkstationReport: "none", "valid" or "invalid"

reportVars == <<step, overdue, errors, machine, queued, inFlight, entries, verdict>>

pings == <<queued, inFlight, entries>>

NoFindings == [n \in {} |-> 0]

ReportInit ==
    /\ step = "targets" /\ overdue = FALSE /\ errors = {}
    /\ machine = NoFindings /\ verdict = "none"
    /\ queued = {} /\ inFlight = {} /\ entries = NoFindings

Found(part, value) == machine' = [p \in DOMAIN machine \cup {part} |->
                                      IF p = part THEN value ELSE machine[p]]

-----------------------------------------------------------------------------
(* Collection.                                                             *)

\* An error of the machine itself; those of a target name it.
Of(kind) == <<kind, "machine">>

\* ErrorList.push: no duplicates, and no more than the schema takes.
ErrorPush(es, e) == IF Cardinality(es) >= ErrorMax THEN es ELSE es \cup {e}

\* fetchTargets: the list, or no list and an error that the report carries.
FetchTargets ==
    /\ step = "targets" /\ step' = "cpu"
    /\ \/ \E ts \in SUBSET Targets :
            /\ queued' = ts
            /\ Found("targets_error", FALSE)
            /\ UNCHANGED errors
       \/ /\ queued' = {}
          /\ Found("targets_error", TRUE)
          /\ errors' = ErrorPush(errors, Of("targets"))
    /\ UNCHANGED <<overdue, inFlight, entries, verdict>>

\* cpuUsagePct: none without progress of the counters, and within 0..100 otherwise.
CpuUsage(idle, total) == IF total <= 0 THEN Null ELSE Bound(0, ((total - idle) * 100) \div total, 100)

\* The two samples, the window between them and the CPUs there are.
SampleCpu ==
    /\ step = "cpu" /\ step' = "memory"
    /\ \E short \in BOOLEAN, idle \in -1..2, total \in -1..1, count \in 0..(CpuMax + 1) :
         /\ errors' = IF short THEN ErrorPush(errors, Of("cpu")) ELSE errors
         /\ Found("cpu", [usage |-> IF short THEN Null ELSE CpuUsage(idle, total),
                          count |-> Max({1, count})])
    /\ UNCHANGED <<overdue, pings, verdict>>

\* collectMemory: what is available never exceeds the total.
CollectMemory(total, free) ==
    LET all == Max({1, total}) IN [total |-> all, available |-> Bound(0, free, all)]

SampleMemory ==
    /\ step = "memory" /\ step' = "disk"
    /\ \E total \in 0..BytesMax, free \in -1..(BytesMax + 1) :
          Found("mem", CollectMemory(total, free))
    /\ UNCHANGED <<overdue, errors, pings, verdict>>

\* diskFromStats: an empty set stands for a result that is no use.
DiskFromStats(total, available) ==
    IF total < 1 \/ available < 0 THEN {}
    ELSE {[total |-> total, available |-> Min({total, available})]}

\* collectDisks: the primary volume through a child that may fail or be killed.
CollectDisks ==
    /\ step = "disk" /\ step' = "network"
    /\ \E failed \in BOOLEAN, total \in 0..(BytesMax + 1), available \in -1..(BytesMax + 1) :
         LET disk == IF failed THEN {} ELSE DiskFromStats(total, available)
         IN  /\ Found("disk", disk)
             /\ errors' = IF disk = {} THEN ErrorPush(errors, Of("disk")) ELSE errors
    /\ UNCHANGED <<overdue, pings, verdict>>

\* collectNetwork: interfaces without an address are left out, and both lists are cut.
CollectNetwork(counts) ==
    LET kept == {i \in DOMAIN counts : counts[i] > 0}
        first == {i \in kept : Cardinality({j \in kept : j <= i}) <= ListMax}
    IN  [i \in first |-> Min({counts[i], ListMax})]

\* Networks and identity; names are cut to their limits, and an empty one is replaced.
CollectIdentity ==
    /\ step = "network" /\ step' = "ping"
    /\ \E counts \in UNION {[1..n -> 0..(ListMax + 1)] : n \in 0..(ListMax + 1)},
          length \in 0..(TextMax + 1) :
         machine' = [p \in DOMAIN machine \cup {"network", "text"} |->
                        IF p = "network" THEN CollectNetwork(counts)
                        ELSE IF p = "text" THEN Truncate(IF length = 0 THEN 1 ELSE length)
                        ELSE machine[p]]
    /\ UNCHANGED <<overdue, errors, pings, verdict>>

-----------------------------------------------------------------------------
(* Pings.                                                                  *)

Platforms == {"linux", "darwin", "win32"}

\* The number a tool prints with its first packet (Windows numbers the slots itself).
FirstSequence(platform) == IF platform = "darwin" THEN 0 ELSE 1

SequenceBase(platform) == IF platform = "darwin" THEN 0 ELSE 1

\* What a ping command may do: replies, by the order of their packets; whether it could be
\* started, was killed by us, was cancelled, was refused by the system, said that the host
\* is unreachable, printed something unreadable, and an exit code beyond a plain loss.
ExecResult == [platform : Platforms, replies : SUBSET (0..(PingCount - 1)), spawnError : BOOLEAN,
               timedOut : BOOLEAN, aborted : BOOLEAN, denied : BOOLEAN, unreachable : BOOLEAN,
               garbled : BOOLEAN, badExit : BOOLEAN]

\* parseUnixPingOutput: each reply in the slot of its sequence number.
ParseUnix(r) ==
    {q - SequenceBase(r.platform) : q \in {s + FirstSequence(r.platform) : s \in r.replies}}
        \cap 0..(PingCount - 1)

\* parseWindowsPingOutput: all three slots, or nothing.
ParseWindows(r) == IF r.garbled THEN {} ELSE r.replies

Slots(r) == IF r.platform = "win32" THEN ParseWindows(r) ELSE ParseUnix(r)
Readable(r) == r.platform = "win32" => ~r.garbled

\* Mutant: a cancelled ping counts as lost packets.
LocalFailureUnlessAborted(r) ==
    \/ r.platform = "win32" /\ r.garbled /\ ~r.timedOut
    \/ r.spawnError
    \/ r.denied /\ ~r.aborted
    \/ Readable(r) /\ Slots(r) = {} /\ ~r.unreachable /\ ~r.timedOut /\ r.badExit

\* The failures that are the machine's own and say nothing about the network.
LocalFailure(r) ==
    \/ r.platform = "win32" /\ r.garbled /\ ~r.timedOut
    \/ r.spawnError
    \/ r.aborted
    \/ r.denied
    \/ Readable(r) /\ Slots(r) = {} /\ ~r.unreachable /\ ~r.timedOut /\ r.badExit

ClassifyConnectivity(received, unreachable, local) ==
    IF local THEN "error"
    ELSE IF received >= PingCount THEN "reachable"
    ELSE IF received > 0 THEN "partial"
    ELSE IF unreachable THEN "unreachable" ELSE "timeout"

\* pingTarget: the entry, and what really happened (a history of the check).
PingTarget(r) ==
    LET received == Cardinality(Slots(r)) IN
    [received |-> received,
     status |-> ClassifyConnectivity(received, r.unreachable, LocalFailure(r)),
     replies |-> IF Readable(r) THEN Cardinality(r.replies) ELSE 0,
     local |-> r.spawnError \/ r.aborted \/ r.denied]

PingOutcomes == {PingTarget(r) : r \in ExecResult}

UnprobedConnectivity == [received |-> 0, status |-> "error", replies |-> 0, local |-> TRUE]

Ended(t, entry) == entries' = [u \in DOMAIN entries \cup {t} |-> IF u = t THEN entry ELSE entries[u]]

\* A lane takes the next target ...
LaneTakes(t) ==
    /\ step = "ping" /\ t \in queued /\ Cardinality(inFlight) < PingLanes /\ ~overdue
    /\ queued' = queued \ {t} /\ inFlight' = inFlight \cup {t}
    /\ UNCHANGED <<step, overdue, errors, machine, entries, verdict>>

\* ... or, past the budget, writes it off.
LaneWritesOff(t) ==
    /\ step = "ping" /\ t \in queued /\ Cardinality(inFlight) < PingLanes /\ overdue
    /\ queued' = queued \ {t}
    /\ Ended(t, UnprobedConnectivity)
    /\ errors' = ErrorPush(errors, <<"late", t>>)
    /\ UNCHANGED <<step, overdue, machine, inFlight, verdict>>

PingEnds(t) ==
    /\ step = "ping" /\ t \in inFlight
    /\ inFlight' = inFlight \ {t}
    /\ \E entry \in PingOutcomes :
         /\ Ended(t, entry)
         /\ errors' = IF entry.status = "error" THEN ErrorPush(errors, <<"ping", t>>) ELSE errors
    /\ UNCHANGED <<step, overdue, machine, queued, verdict>>

BudgetEnds ==
    /\ step = "ping" /\ ~overdue /\ overdue' = TRUE
    /\ UNCHANGED <<step, errors, machine, pings, verdict>>

\* assembleReport: the wall clock may have been set or the machine suspended meanwhile.
AssembleReport ==
    /\ step = "ping" /\ queued = {} /\ inFlight = {} /\ step' = "assembled"
    /\ \E span \in -1..(MaxSpan + 1) : Found("span", span)
    /\ UNCHANGED <<overdue, errors, pings, verdict>>

-----------------------------------------------------------------------------
(* The schema.                                                             *)

ReadInteger(x, low, high) == low <= x /\ x <= high
ReadString(length) == ReadInteger(length, 1, TextMax)
ReadArray(length, max) == length <= max
ReadNullableNumber(x, low, high) == x = Null \/ ReadInteger(x, low, high)

ReadVolume(v) ==
    /\ ReadInteger(v.total, 1, BytesMax) /\ ReadInteger(v.available, 0, BytesMax)
    /\ v.available <= v.total

ReadInterface(count) == ReadArray(count, ListMax)

\* readConnectivity: status and number of replies agree.
ReadConnectivity(entry) ==
    /\ ReadInteger(entry.received, 0, PingCount)
    /\ entry.status = "reachable" => entry.received = PingCount
    /\ entry.status = "partial" => entry.received \in 1..(PingCount - 1)
    /\ entry.status \in {"timeout", "unreachable", "unsupported"} => entry.received = 0

ReadSpan(span) == 0 <= span /\ span <= MaxSpan

\* readWorkstationReport.
ValidReport ==
    /\ ReadSpan(machine.span)
    /\ ReadString(machine.text)
    /\ ReadInteger(machine.cpu.count, 1, CpuMax)
    /\ ReadNullableNumber(machine.cpu.usage, 0, 100)
    /\ ReadVolume(machine.mem)
    /\ \A d \in machine.disk : ReadVolume(d)
    /\ ReadArray(Cardinality(DOMAIN machine.network), ListMax)
    /\ \A i \in DOMAIN machine.network : ReadInterface(machine.network[i])
    /\ \A t \in DOMAIN entries : ReadConnectivity(entries[t])
    /\ ReadArray(Cardinality(errors), ErrorMax)

ValidateReport ==
    /\ step = "assembled" /\ step' = "validated"
    /\ verdict' = IF ValidReport THEN "valid" ELSE "invalid"
    /\ UNCHANGED <<overdue, errors, machine, pings>>

ReportNext ==
    \/ FetchTargets \/ SampleCpu \/ SampleMemory \/ CollectDisks \/ CollectIdentity
    \/ \E t \in Targets : LaneTakes(t) \/ LaneWritesOff(t) \/ PingEnds(t)
    \/ BudgetEnds \/ AssembleReport \/ ValidateReport

ReportSpec == ReportInit /\ [][ReportNext]_reportVars

-----------------------------------------------------------------------------
(* Properties.                                                             *)

\* The only reports that the machine's own schema refuses: the wall clock ran backwards or
\* past the longest run, or the machine has more CPUs or a larger volume than the schema
\* knows, which the collectors do not cut (run.ts, diskFromStats).
RefusedOnlyForCause ==
    verdict = "invalid" =>
        \/ machine.span \notin 0..MaxSpan
        \/ machine.cpu.count > CpuMax
        \/ \E d \in machine.disk : d.total > BytesMax

\* An entry tells the truth about the network: reachable exactly when every packet was
\* answered and the ping itself ran, and never a loss where the failure was local.
EntriesHonest ==
    \A t \in DOMAIN entries :
        LET e == entries[t] IN
        /\ e.local => e.status = "error"
        /\ e.status = "reachable" => e.replies = PingCount
        /\ e.replies = PingCount /\ ~e.local => e.status = "reachable"
        /\ e.status \in {"timeout", "unreachable"} => e.replies = 0

\* A report is refused for a cause and says of the network what happened, whatever the
\* deadline cut off.
ReportHonest == RefusedOnlyForCause /\ EntriesHonest
=============================================================================
