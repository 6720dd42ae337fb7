---------------------------- MODULE RecordedDemo ----------------------------
(* How the recording becomes the tables of a demo store                    *)
(* (scripts/environments/recorded-demo.mjs): one captured server stands    *)
(* for every alias, ages are laid back from the anchor of the store, and   *)
(* the history of the workstation's links, of which only the aggregates    *)
(* were captured, is written as packets again.  All statements are made    *)
(* before the first one runs.                                              *)
EXTENDS Integers, FiniteSets, FiniteSetsExt

CONSTANTS
    ServerAliases,   \* SERVER_ALIASES, in their order: 1..n
    StrayServers,    \* ids that a recording may hold besides
    Ages,            \* ages of reports
    RoundTrips,      \* times of a packet that came back
    PointLimit,      \* bound on reports of a recording
    SampleAges,      \* ages of the captured samples of the server
    CapturedMacs,    \* last bytes of the server's hardware addresses, in their order
    AllowedPorts,    \* ports that the server was allowed
    Anchor,          \* when the store is made
    NoValue

ASSUME RecordedAssumption ==
    /\ Ages \subseteq Nat /\ RoundTrips \subseteq Nat /\ PointLimit \in Nat /\ Anchor \in Int
    /\ SampleAges \subseteq Nat /\ CapturedMacs \subseteq 0..255 /\ CapturedMacs # {}
    /\ NoValue \notin RoundTrips /\ ServerAliases \cap StrayServers = {}

VARIABLES
    recording,   \* the parts that the loader looks at
    loading,     \* read, valid, hosts, workstation, reports, made, seeded, refused
    todo,        \* numbers of the points that have no statements yet
    statements,  \* rows that have a statement
    clash,       \* two statements are for one key
    store        \* the rows of the store

recordedVars == <<recording, loading, todo, statements, clash, store>>

Packets == RoundTrips \cup {NoValue}
Answered(rtts) == {i \in DOMAIN rtts : rtts[i] # NoValue}
Total(rtts) == LET Time(i) == IF i \in Answered(rtts) THEN rtts[i] ELSE 0 IN Time(1) + Time(2) + Time(3)

\* rttSummary with the count; a mean is the pair of its total and its count.
RttSummary(rtts) ==
    LET back == {rtts[i] : i \in Answered(rtts)}
    IN [received |-> Cardinality(Answered(rtts)), total |-> Total(rtts),
        min |-> IF back = {} THEN NoValue ELSE Min(back), max |-> IF back = {} THEN NoValue ELSE Max(back)]

\* A recording that the sanitizer may write: of each sample only the summary is left.
RecordedInit ==
    /\ recording \in [targets : {ServerAliases, ServerAliases \cup StrayServers} \cup {ServerAliases \ {a} : a \in ServerAliases},
                      latestAge : Ages, latest : SUBSET ServerAliases,
                      points : UNION {[1..n -> Ages] : n \in 1..PointLimit},
                      history : [ServerAliases -> SUBSET Ages], packets : [1..3 -> Packets]]
    /\ loading = "read" /\ todo = {} /\ statements = {} /\ clash = FALSE /\ store = {}

Sample == RttSummary(recording.packets)

-----------------------------------------------------------------------------
\* validateRecording: the targets are the aliases, each once.
ValidateRecording ==
    /\ loading = "read"
    /\ loading' = IF recording.targets = ServerAliases THEN "valid" ELSE "refused"
    /\ UNCHANGED <<recording, todo, statements, clash, store>>

AgeToEpoch(age) == Anchor - age

\* Rows that are made at once have different keys.
Made(rows) ==
    /\ statements' = statements \cup rows
    /\ clash' = (clash \/ \E new \in rows, old \in statements : new.table = old.table /\ new.key = old.key)

\* aliasInterfaces: the first interface that is no loopback shows the public address. At least
\* one such interface is assumed to have been captured; the code seeds a host without any.
ShowsAddress(mac) == mac = Min(CapturedMacs)
\* aliasMac: the hardware addresses move by the index of the alias, within their byte.
AliasMac(mac, a) == (mac + a - 1) % 256
AliasInterfaces(a) ==
    [mac \in CapturedMacs |-> [mac |-> AliasMac(mac, a), ipv4 |-> IF ShowsAddress(mac) THEN {a} ELSE {}]]

\* hostInsert: the template of the server with the alias's name and the address of its target.
\* The addresses of two aliases are assumed to differ; validateRecording does not look.
HostRow(a) == [table |-> "hosts", key |-> a, at |-> AgeToEpoch(Min(SampleAges)), address |-> a, interfaces |-> AliasInterfaces(a)]
\* rawInsert and hourlyInsert: the samples at their moments; no maximum that was not captured.
RawRow(a, age) == [table |-> "metrics_raw", key |-> <<a, age>>, at |-> AgeToEpoch(age)]
HourlyRow(a, age) == [table |-> "metrics_hourly", key |-> <<a, age>>, at |-> AgeToEpoch(age), max |-> NoValue]
\* tier2Insert: one snapshot.
Tier2Row(a) == [table |-> "tier2_snapshots", key |-> a, at |-> AgeToEpoch(Min(SampleAges))]
\* portInserts: the same ports for every alias.
PortRows == {[table |-> "port_allowlist", key |-> <<a, p>>, at |-> AgeToEpoch(0)] : a \in ServerAliases, p \in AllowedPorts}

RowsOfAlias(a) ==
    {HostRow(a), Tier2Row(a)} \cup {RawRow(a, age) : age \in SampleAges} \cup {HourlyRow(a, age) : age \in SampleAges}

\* The captured server once for each alias, then the ports.
MakeHosts ==
    /\ loading = "valid" /\ loading' = "hosts"
    /\ Made(PortRows \cup UNION {RowsOfAlias(a) : a \in ServerAliases})
    /\ UNCHANGED <<recording, todo, store>>

WorkstationRow == [table |-> "workstations", key |-> 0, at |-> AgeToEpoch(recording.latestAge)]

\* The latest report must have an entry for every alias.
MakeWorkstation ==
    /\ loading = "hosts"
    /\ IF recording.latest = ServerAliases
       THEN loading' = "reports" /\ Made({WorkstationRow}) /\ todo' = DOMAIN recording.points
       ELSE loading' = "refused" /\ UNCHANGED <<todo, statements, clash>>
    /\ UNCHANGED <<recording, store>>

IsLatest(age) == age = recording.latestAge
\* The latest report keeps its id, the others are numbered by their age.
ReportId(age) == IF IsLatest(age) THEN -1 ELSE age

\* reconstructRtts: packets with the count, the least, the greatest and the mean of the sample.
ReconstructRtts(s) ==
    CASE s.received = 0 -> <<NoValue, NoValue, NoValue>>
      [] s.received = 1 -> <<s.total, NoValue, NoValue>>
      [] s.received = 2 -> <<s.min, Max({0, s.total - s.min}), NoValue>>
      [] s.received = 3 -> <<s.min, s.max, Max({0, s.total - s.min - s.max})>>

\* Packets of the latest report are the captured ones.
Rtts(age) == IF IsLatest(age) THEN recording.packets ELSE ReconstructRtts(Sample)

\* Mutant: an alias without a sample is passed over.
SampledSome(age) == \E a \in ServerAliases : age \in recording.history[a]
\* Every alias has a sample of that age.
Sampled(age) == \A a \in ServerAliases : age \in recording.history[a]

\* reportPayload: the latest report as it was captured, or its template with the figures of the point.
ReportRow(age) == [table |-> "reports", key |-> ReportId(age), at |-> AgeToEpoch(age)]
LinkRow(age, a) == [table |-> "links", key |-> <<ReportId(age), a>>, at |-> AgeToEpoch(age), address |-> a, rtts |-> Rtts(age)]

\* The oldest point comes first, and of two of one age the one that was listed first.
ComesFirst(i) ==
    \A j \in todo : \/ recording.points[j] < recording.points[i]
                    \/ recording.points[j] = recording.points[i] /\ i <= j

\* One point: the report, and a link for every alias.
MakeReport(i) ==
    /\ loading = "reports" /\ i \in todo /\ ComesFirst(i)
    /\ LET age == recording.points[i]
       IN IF Sampled(age)
          THEN /\ Made({ReportRow(age)} \cup {LinkRow(age, a) : a \in {b \in ServerAliases : age \in recording.history[b]}})
               /\ todo' = todo \ {i} /\ UNCHANGED loading
          ELSE loading' = "refused" /\ UNCHANGED <<todo, statements, clash>>
    /\ UNCHANGED <<recording, store>>

MakeDone ==
    /\ loading = "reports" /\ todo = {} /\ loading' = "made"
    /\ UNCHANGED <<recording, todo, statements, clash, store>>

\* The statements run; a key that is there already fails the store.
Execute ==
    /\ loading = "made"
    /\ IF clash THEN loading' = "refused" /\ UNCHANGED store
       ELSE loading' = "seeded" /\ store' = statements
    /\ UNCHANGED <<recording, todo, statements, clash>>

RecordedNext ==
    \/ ValidateRecording \/ MakeHosts \/ MakeWorkstation
    \/ \E i \in todo : MakeReport(i)
    \/ MakeDone \/ Execute

RecordedSpec == RecordedInit /\ [][RecordedNext]_recordedVars

-----------------------------------------------------------------------------
(* Properties.                                                             *)

RowsOf(t) == {row \in store : row.table = t}
\* The interfaces that show an address.
Showing(address) ==
    {pair \in RowsOf("hosts") \X CapturedMacs : address \in pair[1].interfaces[pair[2]].ipv4}

\* A store is seeded whole or not at all ("fails closed instead of seeding a partial store",
\* docs/25-recordings.md): with the samples of every host, a report for every point, and for
\* every report one link to each host, of the same moment and to an address that one
\* interface of that host, and of no other host, shows. (It is so of a captured server with an
\* interface that is no loopback and of targets with addresses of their own.)
SeededWhole ==
    /\ loading # "seeded" => store = {}
    /\ loading = "seeded" =>
         /\ {row.at : row \in RowsOf("reports")} = {AgeToEpoch(recording.points[i]) : i \in DOMAIN recording.points}
         /\ \A h \in RowsOf("hosts") : {row.at : row \in {x \in RowsOf("metrics_raw") : x.key[1] = h.key}} = {AgeToEpoch(age) : age \in SampleAges}
         /\ \A r \in RowsOf("reports"), a \in ServerAliases : \E l \in RowsOf("links") :
               /\ l.key = <<r.key, a>> /\ l.at = r.at
               /\ Cardinality(Showing(l.address)) = 1

\* The history of a link in the demo has the figures of the captured one, whichever of the
\* three packets were lost: what the worker computes from the packets written is what it
\* computed from those that were measured.
AggregatesKept == \A l \in RowsOf("links") : RttSummary(l.rtts) = Sample

\* A recording is refused only when it lacks something, has two reports of one second, or
\* has a target that is none of the aliases.
RefusedForCause ==
    loading = "refused" =>
      \/ recording.targets # ServerAliases \/ recording.latest # ServerAliases
      \/ \E i \in DOMAIN recording.points, a \in ServerAliases : recording.points[i] \notin recording.history[a]
      \/ \E i, j \in DOMAIN recording.points : i # j /\ recording.points[i] = recording.points[j]

\* A demo shows the recording, whole and with its figures, and refuses one only for a cause.
DemoSound == SeededWhole /\ AggregatesKept /\ RefusedForCause
=============================================================================
