---------------------------- MODULE MetricsRollup ---------------------------
(***************************************************************************)
(* The cron job of the Worker: it rolls the samples of the previous hour   *)
(* up into metrics_hourly, one host after the other, and then purges what  *)
(* is older than the configured retention.  Every statement is a step of   *)
(* its own; ingests, deletions and the settings page run in between.       *)
(*                                                                         *)
(* A sample is its timestamp, unique per host (INSERT OR IGNORE); an       *)
(* hourly row is the set of samples it was computed from, empty when there *)
(* is no row.  A run is over before the next hour begins.                  *)
(***************************************************************************)
EXTENDS Integers

CONSTANTS
    Hosts,
    HourTicks,         \* clock ticks per hour
    Skew,              \* CLOCK_SKEW_MAX_SECONDS
    RetentionOptions,  \* RETENTION_OPTIONS, in ticks
    DefaultRetention,  \* DEFAULT_RETENTION_DAYS
    Failures,          \* what may go wrong in a run: "abort", "settings"
    Deletion,          \* hosts may be deleted
    MaxTime,           \* bound on the clock (model checking only)
    MaxSamples         \* bound on the samples of a host (model checking only)

ASSUME RollupAssumption ==
    /\ HourTicks \in Nat \ {0} /\ Skew \in Nat /\ MaxTime \in Nat /\ MaxSamples \in Nat
    /\ RetentionOptions \subseteq Nat \ {0}
    /\ DefaultRetention \in RetentionOptions
    /\ Failures \subseteq {"abort", "settings"}
    /\ Deletion \in BOOLEAN

Times == 0..(MaxTime + Skew)
HourOf(t) == t \div HourTicks
HourStart(k) == k * HourTicks
Hours == 0..(MaxTime + Skew)

VARIABLES
    now,
    host,        \* host -> "unseen", "present" (a hosts row), "deleted" (a tombstone)
    raw,         \* metrics_raw: host -> timestamps
    hourly,      \* metrics_hourly: host -> hour -> samples behind the row
    retention,   \* the stored retention_days
    pc,          \* the cron run: what it does next
    hour,        \* the hour it rolls up
    todo,        \* the hosts with samples it has not come to
    current,     \* the host whose row it is computing, as a singleton
    rows,        \* the samples it read for that host
    cutoff,      \* the purge limit
    taken,       \* history: payloads accepted (bounds the model)
    configured,  \* history: values of the setting since the run began
    due          \* history: host -> its samples of the hour when the run began, none
                 \*   once it has been deleted

run == <<pc, hour, todo, current, rows, cutoff>>
history == <<taken, configured, due>>
rollupVars == <<now, host, raw, hourly, retention, run, history>>

RollupInit ==
    /\ now = 0
    /\ host = [h \in Hosts |-> "unseen"]
    /\ raw = [h \in Hosts |-> {}]
    /\ hourly = [h \in Hosts |-> [k \in Hours |-> {}]]
    /\ retention \in RetentionOptions
    /\ pc = "idle" /\ hour = 0 /\ todo = {} /\ current = {} /\ rows = {}
    /\ cutoff = 0
    /\ taken = [h \in Hosts |-> 0]
    /\ configured = {}
    /\ due = [h \in Hosts |-> {}]

RawOf(h, k) == {t \in raw[h] : HourOf(t) = k}

-----------------------------------------------------------------------------
(* Ingest, host lifecycle, settings.                                       *)

\* The clock skew guard, from either side.
ClockAgrees(t) == now - Skew <= t /\ t <= now + Skew

\* INSERT OR IGNORE: a payload sent again is stored once.
InsertRaw(h, t) == raw' = [raw EXCEPT ![h] = @ \cup {t}]

\* insertRawWithHostUpsert, in one batch that the trigger on a tombstone aborts.
Ingest(h, t) ==
    /\ taken[h] < MaxSamples
    /\ ClockAgrees(t)
    /\ host[h] # "deleted"
    /\ host' = [host EXCEPT ![h] = "present"]
    /\ InsertRaw(h, t)
    /\ taken' = [taken EXCEPT ![h] = @ + 1]
    /\ UNCHANGED <<now, hourly, retention, run, configured, due>>

DeleteHost(h) ==
    /\ Deletion
    /\ host[h] = "present"
    /\ host' = [host EXCEPT ![h] = "deleted"]
    /\ raw' = [raw EXCEPT ![h] = {}]
    /\ hourly' = [hourly EXCEPT ![h] = [k \in Hours |-> {}]]
    /\ due' = [due EXCEPT ![h] = {}]
    /\ UNCHANGED <<now, retention, run, taken, configured>>

RegisterHost(h) ==
    /\ host[h] = "deleted"
    /\ host' = [host EXCEPT ![h] = "unseen"]
    /\ UNCHANGED <<now, raw, hourly, retention, run, history>>

SetRetention(r) ==
    /\ r # retention
    /\ retention' = r
    /\ configured' = IF pc = "idle" THEN configured ELSE configured \cup {r}
    /\ UNCHANGED <<now, host, raw, hourly, run, taken, due>>

-----------------------------------------------------------------------------
(* The run.                                                                *)

\* hourTs of scheduled().
PreviousHour(t) == HourOf(t) - 1

\* The previous complete hour and the active hosts with a sample in it.
AggregateHour ==
    /\ pc = "idle"
    /\ HourOf(now) > 0
    /\ hour' = PreviousHour(now)
    /\ todo' = {h \in Hosts : host[h] = "present" /\ RawOf(h, hour') # {}}
    /\ pc' = "hosts"
    /\ configured' = {retention}
    /\ due' = [h \in Hosts |-> RawOf(h, hour')]
    /\ UNCHANGED <<now, host, raw, hourly, retention, current, rows, cutoff, taken>>

\* aggregateHostHour reads the samples; a host that has none any more is skipped.
ReadHost(h) ==
    /\ pc = "hosts"
    /\ h \in todo
    /\ todo' = todo \ {h}
    /\ rows' = RawOf(h, hour)
    /\ current' = IF rows' = {} THEN {} ELSE {h}
    /\ pc' = IF rows' = {} THEN "hosts" ELSE "write"
    /\ UNCHANGED <<now, host, raw, hourly, retention, hour, cutoff, history>>

\* INSERT ... ON CONFLICT DO UPDATE: a second rollup of the hour replaces the row.
UpsertHourly(h) == hourly' = [hourly EXCEPT ![h][hour] = rows]

\* Mutant: the row is written whether or not the host is still there.
WriteHostUnchecked(h) ==
    /\ pc = "write"
    /\ current = {h}
    /\ UpsertHourly(h)
    /\ pc' = "hosts"
    /\ UNCHANGED <<now, host, raw, retention, hour, todo, current, rows, cutoff, history>>

\* The upsert of the row; without its host the foreign key makes it, and the run, fail.
WriteHost(h) ==
    /\ pc = "write"
    /\ current = {h}
    /\ IF host[h] = "present"
       THEN UpsertHourly(h) /\ pc' = "hosts"
       ELSE pc' = "idle" /\ UNCHANGED hourly
    /\ UNCHANGED <<now, host, raw, retention, hour, todo, current, rows, cutoff, history>>

\* getRetentionDays: a failed read of the setting is answered with the default.
Fallback == IF "settings" \in Failures THEN {DefaultRetention} ELSE {}
RetentionDays == {retention} \cup Fallback

\* Mutant: the hosts are not awaited.
StartPurgeEarly ==
    /\ pc = "hosts"
    /\ \E r \in RetentionDays : cutoff' = now - r
    /\ pc' = "raw"
    /\ UNCHANGED <<now, host, raw, hourly, retention, hour, todo, current, rows, history>>

\* runScheduledMaintenance, once every host is done.
StartPurge ==
    /\ pc = "hosts"
    /\ todo = {}
    /\ \E r \in RetentionDays : cutoff' = now - r
    /\ pc' = "raw"
    /\ UNCHANGED <<now, host, raw, hourly, retention, hour, todo, current, rows, history>>

Expired(t) == t < cutoff

PurgeRaw ==
    /\ pc = "raw"
    /\ raw' = [h \in Hosts |-> IF host[h] = "present" THEN {t \in raw[h] : ~Expired(t)} ELSE raw[h]]
    /\ pc' = "hourly"
    /\ UNCHANGED <<now, host, hourly, retention, hour, todo, current, rows, cutoff, history>>

PurgeHourly ==
    /\ pc = "hourly"
    /\ hourly' = [h \in Hosts |-> [k \in Hours |->
                    IF host[h] = "present" /\ Expired(HourStart(k)) THEN {} ELSE hourly[h][k]]]
    /\ pc' = "rest"
    /\ UNCHANGED <<now, host, raw, retention, hour, todo, current, rows, cutoff, history>>

\* Snapshots, events, workstation reports and Connect records, purged by the same limit.
PurgeRest ==
    /\ pc = "rest"
    /\ pc' = "idle"
    /\ UNCHANGED <<now, host, raw, hourly, retention, hour, todo, current, rows, cutoff,
                   history>>

\* A statement is rejected: the run ends there, and nothing makes up for it.
Abort ==
    /\ "abort" \in Failures
    /\ pc # "idle"
    /\ pc' = "idle"
    /\ UNCHANGED <<now, host, raw, hourly, retention, hour, todo, current, rows, cutoff,
                   history>>

Tick ==
    /\ now < MaxTime
    /\ pc = "idle" \/ HourOf(now + 1) = HourOf(now)
    /\ now' = now + 1
    /\ UNCHANGED <<host, raw, hourly, retention, run, history>>

RollupNext ==
    \/ \E h \in Hosts :
         \/ DeleteHost(h) \/ RegisterHost(h) \/ ReadHost(h) \/ WriteHost(h)
         \/ \E t \in Times : Ingest(h, t)
    \/ \E r \in RetentionOptions : SetRetention(r)
    \/ AggregateHour \/ StartPurge \/ PurgeRaw \/ PurgeHourly \/ PurgeRest \/ Abort \/ Tick

RollupSpec == RollupInit /\ [][RollupNext]_rollupVars

-----------------------------------------------------------------------------
(* Properties.                                                             *)

\* Every variable has its type; a row about to be written has a host and samples.
RollupTypeOK ==
    /\ now \in 0..MaxTime
    /\ host \in [Hosts -> {"unseen", "present", "deleted"}]
    /\ raw \in [Hosts -> SUBSET Times]
    /\ hourly \in [Hosts -> [Hours -> SUBSET Times]]
    /\ retention \in RetentionOptions
    /\ pc \in {"idle", "hosts", "write", "raw", "hourly", "rest"}
    /\ hour \in Hours
    /\ todo \subseteq Hosts /\ current \subseteq Hosts
    /\ rows \subseteq Times
    /\ cutoff \in Int
    /\ taken \in [Hosts -> Nat]
    /\ configured \subseteq RetentionOptions
    /\ due \in [Hosts -> SUBSET Times]
    /\ pc = "write" => rows # {} /\ \E h \in Hosts : current = {h}

\* A deleted host has no samples and no hourly rows, whatever run was rolling it up.
DeletedHostHasNoMetrics ==
    \A h \in Hosts : host[h] # "present" => raw[h] = {} /\ \A k \in Hours : hourly[h][k] = {}

\* Of a host that stays, a run removes nothing younger than a retention that was
\* configured while it ran, or than the default where the setting cannot be read.
RetentionHonoured ==
    \A h \in Hosts :
      host'[h] = host[h] =>
        /\ \A t \in raw[h] \ raw'[h] : \E r \in configured \cup Fallback : t < now - r
        /\ \A k \in Hours : hourly[h][k] # {} /\ hourly'[h][k] = {}
             => \E r \in configured \cup Fallback : HourStart(k) < now - r

\* A run that gets as far as its purge has rolled up every sample of the hour that was
\* stored when it began, whatever was ingested, deleted and registered again meanwhile.
HourRolledUp ==
    pc = "hosts" /\ pc' = "raw" => \A h \in Hosts : due[h] \subseteq hourly[h][hour]

\* A run of the cron loses no sample: it removes none before its retention and goes on to its
\* purge with none unaggregated, through changes of the setting, ingests, deletions and
\* aborts between its statements (runAggregation, purgeOldData).
RunLosesNothing == [][RetentionHonoured /\ HourRolledUp]_rollupVars
=============================================================================
