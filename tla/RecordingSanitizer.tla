-------------------------- MODULE RecordingSanitizer ------------------------
(* How a capture of production becomes the recording of the demo           *)
(* (scripts/environments/recordings.mjs).  The sanitizer is a whitelist:   *)
(* every section names the fields it keeps and what becomes of each.       *)
(* Numbers stay, times become ages, words stay when a list or a pattern    *)
(* has them, and names get aliases, the same one wherever they occur.      *)
(* Some tables of aliases are filled before the first section is written,  *)
(* from lists of their own, others when a name is met.                     *)
(* A behaviour is about one kind of name, or about the plain fields.       *)
EXTENDS Naturals, FiniteSets

CONSTANTS
    NameCount,    \* raw names are 1..NameCount, in the order of their strings
    PublicNames,  \* the names that everyone may see
    Pool,         \* how many IPv4 aliases there are (254 in the code)
    VisitLimit    \* bound on the names that are met

ASSUME SanitizerAssumption ==
    NameCount \in Nat /\ Pool \in Nat \ {0} /\ VisitLimit \in Nat /\ PublicNames \subseteq 1..NameCount

-----------------------------------------------------------------------------
(* What becomes of the fields of each section.                             *)

SanitizeSparkline == [age |-> {"ts"}, number |-> {"v"}]
SanitizeInterfaces == [iface |-> {"iface"}, mac |-> {"mac"}, ip |-> {"ipv4", "ipv6"}, number |-> {"speed_mbps"}]
SanitizeDisks == [device |-> {"device"}, number |-> {"size_bytes"}, flag |-> {"rotational"}]
\* cmd is the name again, never the command line.
SanitizeProcess ==
    [process |-> {"name"}, pid |-> {"pid", "ppid"}, user |-> {"user"}, word |-> {"state"},
     number |-> {"cpu_pct", "mem_rss", "mem_pct", "mem_virt", "num_threads", "uptime", "majflt_rate", "io_read_rate", "io_write_rate", "processor"}]
SanitizeDetail ==
    [fixed |-> {"hid", "host_id", "hostname", "cpu_model", "maintenance_reason", "description"},
     word |-> {"os", "kernel", "arch", "status", "virtualization", "probe_version", "boot_mode", "timezone", "maintenance_start", "maintenance_end"},
     age |-> {"boot_time", "last_seen", "top_processes_ts"},
     number |-> {"cpu_usage_pct", "mem_used_pct", "uptime_seconds", "alert_count", "cpu_logical", "cpu_physical", "mem_total_bytes", "cpu_load1",
                 "swap_used_pct", "disk_root_used_pct", "net_rx_rate", "net_tx_rate", "swap_total_bytes"},
     ip |-> {"public_ip", "dns_resolvers"}, domain |-> {"dns_search"}]
\* METRIC_FIELDS stand under one name, and so do the figures of a disk, an interface, a device.
MetricFields == {"metrics", "disk", "net", "disk_io"}
SanitizeMetricPoint ==
    [age |-> {"ts"}, number |-> MetricFields, mount |-> {"disk.mount"}, iface |-> {"net.iface"}, device |-> {"disk_io.device"}]
SanitizeMetrics == [fixed |-> {"host_id", "resolution"}, age |-> {"from", "to"}]
SanitizePorts == [number |-> {"port"}, ip |-> {"bind"}, word |-> {"protocol"}, pid |-> {"pid"}, process |-> {"process"}]
SanitizeSystemd ==
    [unit |-> {"unit"}, word |-> {"load_state", "active_state", "sub_state"}, fixed |-> {"description"}, number |-> {"failed_count"}]
SanitizeSecurity ==
    [flag |-> {"ssh_password_auth", "firewall_active", "fail2ban_active", "unattended_upgrades_active"},
     word |-> {"ssh_root_login", "firewall_default_policy"}, number |-> {"ssh_failed_logins_7d", "fail2ban_banned_count"}]
SanitizeDocker ==
    [flag |-> {"installed"}, word |-> {"version", "state", "status"}, age |-> {"started_at"},
     containerId |-> {"id"}, containerName |-> {"name"}, containerImage |-> {"image"},
     number |-> {"cpu_pct", "mem_bytes", "restart_count", "total_count", "total_bytes", "reclaimable_bytes"}]
SanitizeDiskDeep == [path |-> {"top_dirs", "large_files"}, number |-> {"size_bytes", "journal_bytes"}]
\* A program that is on no list is left out altogether.
SanitizeSoftware ==
    [word |-> {"id", "name", "category", "version", "source"}, flag |-> {"running"},
     number |-> {"listening_ports", "scan_duration_ms", "version_duration_ms"}]
SanitizeWebsites == [domain |-> {"domain"}, word |-> {"web_server"}, flag |-> {"ssl"}]
SanitizeTier2 ==
    [fixed |-> {"host_id"}, age |-> {"ts"}, word |-> {"timezone"}, ip |-> {"dns_resolvers"}, domain |-> {"dns_search"}]
SanitizeReport ==
    [reportId |-> {"report_id"}, age |-> {"started_at", "finished_at", "received_at"},
     fixed |-> {"hostname", "cpu.model", "collection_errors", "targets_error"}, word |-> {"cli_version", "os", "arch", "status"},
     number |-> {"sample_window_ms", "uptime_seconds", "cpu", "mem", "disk", "family", "sent", "received", "rtts_ms"},
     mount |-> {"disk.mount"}, iface |-> {"interfaces.name"}, flag |-> {"internal"},
     ip |-> {"addresses.address", "connectivity.address"}, server |-> {"connectivity.server_id"}]
SanitizeWorkstation ==
    [fixed |-> {"id", "owner", "name"}, age |-> {"created_at", "last_seen_at"}, ip |-> {"public_ip"}, flag |-> {"disabled"}]
SanitizeWorkstationMetrics ==
    [age |-> {"received_at", "started_at", "finished_at"},
     number |-> {"cpu_usage_pct", "mem_used_pct", "mem_total_bytes", "mem_available_bytes", "uptime_seconds", "limit", "offset", "next_offset"}]
SanitizeConnectivity ==
    [server |-> {"server_id"}, ip |-> {"address"}, age |-> {"received_at"}, word |-> {"status"},
     number |-> {"family", "received", "rtt_avg_ms", "rtt_min_ms", "rtt_max_ms", "limit"}]
SanitizeAllowedPort == [number |-> {"port"}, fixed |-> {"reason"}, age |-> {"created_at"}]
SanitizeTag == [fixed |-> {"id", "name"}, number |-> {"color"}]

Sections ==
    [sparkline |-> SanitizeSparkline, interfaces |-> SanitizeInterfaces, disks |-> SanitizeDisks, process |-> SanitizeProcess,
     detail |-> SanitizeDetail, point |-> SanitizeMetricPoint, metrics |-> SanitizeMetrics, ports |-> SanitizePorts,
     systemd |-> SanitizeSystemd, security |-> SanitizeSecurity, docker |-> SanitizeDocker, disk_deep |-> SanitizeDiskDeep,
     software |-> SanitizeSoftware, websites |-> SanitizeWebsites, tier2 |-> SanitizeTier2, report |-> SanitizeReport,
     workstation |-> SanitizeWorkstation, history |-> SanitizeWorkstationMetrics, connectivity |-> SanitizeConnectivity,
     port |-> SanitizeAllowedPort, tag |-> SanitizeTag]

SectionsOf(k) == {s \in DOMAIN Sections : k \in DOMAIN Sections[s]}

-----------------------------------------------------------------------------
(* Kinds of names.                                                         *)

\* Where createContext looks for the names of the tables that it fills first.
CollectedFrom ==
    [iface |-> {"interfaces", "report", "point"}, device |-> {"disks", "point"}, mount |-> {"point", "report"},
     path |-> {"disk_deep"}, domain |-> {"websites", "detail", "tier2"}, unit |-> {"systemd"},
     process |-> {"ports", "process"}, server |-> {"connectivity", "report"}]
Collected(k) == CollectedFrom[k]

CollectedKinds == DOMAIN CollectedFrom
\* Tables that also grow when a name is met.
GrowingKinds == {"process", "server", "ip", "mac", "pid", "containerId", "containerName", "containerImage", "reportId"}
\* Kinds with a list, or a range, of names that are kept.
KeepingKinds == {"iface", "mount", "path", "process", "ip", "pid", "user"}
\* Kinds whose strings are compared without trimming.
ExactKinds == {"containerId", "containerName", "containerImage", "reportId"}
\* Kinds for which a value that is no string is a key like any other.
BlankKinds == ExactKinds \cup {"server"}
NameKinds == CollectedKinds \cup GrowingKinds \cup {"user"}
PlainTreatments == {"number", "flag", "word", "age", "fixed"}

Raws == [name : 1..NameCount, form : {"plain", "padded"}]
Blank == [name |-> 0, form |-> "plain"]

VARIABLES
    kind,     \* the kind of name that this capture is about, or "plain"
    capture,  \* the names that each section holds
    malformed, \* the capture is no object of objects and lists
    table,    \* the aliases of the keys met so far
    given,    \* how many aliases have been counted
    shown,    \* what the recording shows of what
    targets,  \* the aliases in recording.targets
    written   \* raw, refused, context, done

sanitizerVars == <<kind, capture, malformed, table, given, shown, targets, written>>

SanitizerInit ==
    /\ kind \in NameKinds \cup {"plain"} /\ malformed \in BOOLEAN
    /\ capture \in IF kind \in CollectedKinds THEN [SectionsOf(kind) -> SUBSET (1..NameCount)] ELSE {<<>>}
    /\ table = <<>> /\ given = 0 /\ shown = {} /\ targets = {} /\ written = "raw"

Kept(n) == kind \in KeepingKinds /\ n \in PublicNames
Key(raw) == IF kind \in ExactKinds THEN raw ELSE [raw EXCEPT !.form = "plain"]

Nothing == [as |-> "nothing", id |-> 0]
Alias(n) == [as |-> "alias", id |-> n]
\* A kept address is one of the documentation range, which is where the aliases are from;
\* every loopback interface is "lo".
Keep(n) == CASE kind = "ip" -> Alias(n)
             [] kind = "iface" -> [as |-> "kept", id |-> 0]
             [] OTHER -> [as |-> "kept", id |-> n]

\* createContext: aliases in the order of the names; a kept name takes no number.
CreateContext ==
    /\ written = "raw" /\ ~malformed
    /\ LET found == IF kind \in CollectedKinds THEN UNION {capture[s] : s \in Collected(kind) \cap DOMAIN capture} ELSE {}
           counted == {n \in found : ~Kept(n)}
           AliasOf(n) == IF Kept(n) THEN Keep(n) ELSE Alias(Cardinality({m \in counted : m <= n}))
       IN /\ table' = [r \in [name : found, form : {"plain"}] |-> AliasOf(r.name)]
          /\ given' = Cardinality(counted)
    /\ written' = "context"
    /\ UNCHANGED <<kind, capture, malformed, shown, targets>>

\* sanitizeRecording refuses before it writes.
RefuseCapture ==
    /\ written = "raw" /\ malformed /\ written' = "refused"
    /\ UNCHANGED <<kind, capture, malformed, table, given, shown, targets>>

\* Mutant: the counter of what is met starts again.
NextAliasAnew == Cardinality(shown) + 1
\* The number after the last one, in a pool when it is an IPv4 address.
NextAlias == IF kind = "ip" THEN (given % Pool) + 1 ELSE given + 1

Shows(raw, out) == shown' = shown \cup {[raw |-> raw, out |-> out]}

\* A name that has an alias, or is kept, or of a kind that has no alias for it.
VisitKnown(raw) ==
    /\ Key(raw) \in DOMAIN table \/ Kept(raw.name) \/ kind \notin GrowingKinds
    /\ Shows(raw, CASE kind = "user" /\ ~Kept(raw.name) -> [as |-> "fixed", id |-> 0]
                    [] kind # "user" /\ Key(raw) \in DOMAIN table -> table[Key(raw)]
                    [] kind \notin GrowingKinds \cup {"user"} /\ Key(raw) \notin DOMAIN table -> Nothing
                    [] OTHER -> Keep(raw.name))
    /\ UNCHANGED <<table, given>>

\* The first time that a name is met.
VisitNew(raw) ==
    /\ kind \in GrowingKinds /\ Key(raw) \notin DOMAIN table /\ ~Kept(raw.name)
    /\ table' = [k \in DOMAIN table \cup {Key(raw)} |-> IF k = Key(raw) THEN Alias(NextAlias) ELSE table[k]]
    /\ given' = given + 1
    /\ Shows(raw, Alias(NextAlias))

\* A field with a name, or with something that is no name; for a process that is also a name of
\* more than 64 characters, which the first pass gives an alias that nothing shows.
VisitName(s) ==
    /\ written = "context" /\ kind \in DOMAIN Sections[s] /\ Cardinality(shown) < VisitLimit
    /\ \/ \E raw \in Raws : (kind \in CollectedKinds => raw.name \in capture[s]) /\ (VisitKnown(raw) \/ VisitNew(raw))
       \/ kind \in BlankKinds /\ (VisitKnown(Blank) \/ VisitNew(Blank))
       \/ kind \notin BlankKinds /\ Shows(Blank, IF kind = "user" THEN [as |-> "fixed", id |-> 0] ELSE Nothing) /\ UNCHANGED <<table, given>>
    /\ UNCHANGED <<kind, capture, malformed, targets, written>>

-----------------------------------------------------------------------------
(* Plain fields.                                                           *)

Values == {"secret", "public word", "number", "boolean", "absent"}

\* finite, integer, typeof boolean, oneOf and the patterns, ctx.age, and texts of the demo.
Plain(t, v) ==
    CASE t = "number" -> IF v = "number" THEN v ELSE "absent"
      [] t = "flag" -> IF v = "boolean" THEN v ELSE "absent"
      [] t = "word" -> IF v = "public word" THEN v ELSE "absent"
      [] t = "age" -> IF v = "number" THEN "age" ELSE "absent"
      [] t = "fixed" -> "fixed"

VisitPlain(s) ==
    /\ written = "context" /\ kind = "plain" /\ shown = {}
    /\ \E t \in PlainTreatments \cap DOMAIN Sections[s] : \E f \in Sections[s][t], v \in Values :
         shown' = {[field |-> f, raw |-> v, out |-> Plain(t, v)]}
    /\ UNCHANGED <<kind, capture, malformed, table, given, targets, written>>

\* ctx.targets: every server that has got an alias by then.
TargetAliases == {table[k].id : k \in DOMAIN table}

WriteTargets ==
    /\ written = "context" /\ written' = "done"
    /\ targets' = IF kind = "server" THEN TargetAliases ELSE {}
    /\ UNCHANGED <<kind, capture, malformed, table, given, shown>>

SanitizerNext ==
    \/ CreateContext \/ RefuseCapture
    \/ \E s \in DOMAIN Sections : VisitName(s) \/ VisitPlain(s)
    \/ WriteTargets

SanitizerSpec == SanitizerInit /\ [][SanitizerNext]_sanitizerVars

-----------------------------------------------------------------------------
(* Properties.                                                             *)

\* The fields of the responses that hold a time of day as seconds since 1970.
Times == {"boot_time", "last_seen", "top_processes_ts", "ts", "from", "to", "started_at", "finished_at", "received_at",
          "created_at", "last_seen_at"}

\* "No free-form string survives unchanged" (docs/25-recordings.md): a private name is never
\* shown, a text is shown only if everyone knows it, and no time of the capture is shown as
\* such; a malformed capture shows nothing.
NothingLeaks ==
    \A x \in shown :
      IF kind = "plain" THEN x.out # "secret" /\ (x.field \in Times => x.out # "number")
      ELSE x.out.as = "kept" => x.out.id \in PublicNames \cup {0}

\* Two names that differ get two aliases, whichever section brings them first and whether the
\* table was filled before or grew, as long as the pool of addresses lasts.
DistinctAliases ==
    kind \in CollectedKinds \cup GrowingKinds /\ (kind = "ip" => given <= Pool) =>
      \A x, y \in shown : ~Kept(x.raw.name) /\ ~Kept(y.raw.name) /\ x.out.as = "alias" =>
         (x.out = y.out <=> Key(x.raw) = Key(y.raw))

\* A name is never lost: every section that writes names of a collected kind is one that
\* createContext has looked through. (A process with a name of more than 64 characters counts
\* as one without a name: ctx.process answers null.)
NamesSurvive ==
    kind \in CollectedKinds => \A x \in shown : x.raw # Blank => x.out # Nothing

\* Every server that the report or the history links to is among the targets, the one
\* without an id too: the loader looks each of them up there.
TargetsCoverLinks ==
    kind = "server" /\ written = "done" => \A x \in shown : x.out.id \in targets

\* A recording gives nothing away and still fits together: names hidden, distinct, complete
\* and covered by the targets, in whatever order the sections bring them.
RecordingSound ==
    /\ NothingLeaks
    /\ DistinctAliases
    /\ NamesSurvive
    /\ TargetsCoverLinks
=============================================================================
