---------------------------- MODULE HostRegistry ----------------------------
(***************************************************************************)
(* The row of one host, its tombstone, and the projection of the row that  *)
(* ingest, tier2 and identity read through KV.                             *)
(*                                                                         *)
(* Reports (the lanes) overlap freely; what the browser or a Connect token *)
(* changes passes through the coordinator, one change at a time.  The      *)
(* projection is read, filled and dropped in steps of their own, so a      *)
(* report may store what it read before a change after that change has     *)
(* dropped the entry.  Nothing sets is_active to 0, so it is left out.     *)
(***************************************************************************)
EXTENDS Integers

CONSTANTS
    Reporters,     \* lanes: one report at a time each
    Windows,       \* maintenance windows an operator may set
    NoWindow,      \* a row without a window
    NoRow,         \* no hosts row
    None,
    ProjectionTTL, \* HOST_META_TTL_SECONDS
    ReportLatency, \* a report ends within this time of its arrival
    KvFaults,      \* KV calls that may fail: "get", "put", "delete"
    LastTime,      \* bound on the clock (model checking only)
    ReportLimit,   \* bound on reports (model checking only)
    ChangeLimit    \* bound on changes (model checking only)

Contents == Windows \cup {NoWindow}
Kinds == {"ingest", "identity", "tier2"}

ASSUME RegistryAssumption ==
    /\ ProjectionTTL \in Nat \ {0} /\ ReportLatency \in Nat
    /\ LastTime \in Nat /\ {ReportLimit, ChangeLimit} \subseteq Nat
    /\ KvFaults \subseteq {"get", "put", "delete"}
    /\ NoWindow \notin Windows /\ NoRow \notin Contents
    /\ None \notin Contents \cup {NoRow}

VARIABLES
    clock,
    stored,      \* the hosts row: its window, or NoRow
    tombstone,   \* a deleted_hosts row
    lastSeen,    \* hosts.last_seen
    facts,       \* slow columns of the row: "reported" by the probe, "described" by the operator
    tables,      \* tables that hold rows of the host
    projection,  \* the KV entry: [window, expires], or None
    report,      \* lane -> [kind, at, step, seen], or None
    change,      \* the change under way: [op, step], or None
    requests,    \* history: reports and changes that arrived (bounds the model)
    heldAt,      \* history: content -> the last time the row had it
    goneAt,      \* history: the last time a row was deleted
    newest       \* history: the newest report time the row has taken

registryRow == <<stored, tombstone, lastSeen, facts, tables>>
registryHistory == <<heldAt, goneAt, newest>>
registryVars == <<clock, registryRow, projection, report, change, requests, registryHistory>>

ProjectionEntry == [window : Contents, expires : Int]
Steps == {"meta", "select", "store", "write", "judge", "stranded", "inventory",
          "snapshot", "touch", "slow"}
Report == [kind : Kinds, at : Nat, step : Steps, seen : Contents \cup {NoRow}]
Ops == {"delete", "register", "describe"} \cup Contents
Change == [op : Ops, step : {"write", "invalidate"}]

\* A host that is unknown, or known since some time.
RegistryInit ==
    /\ clock = 0
    /\ stored \in {NoRow, NoWindow} /\ tombstone = FALSE /\ lastSeen = 0 /\ facts = {} /\ tables = {}
    /\ projection = None
    /\ report = [p \in Reporters |-> None]
    /\ change = None
    /\ requests = [reports |-> 0, changes |-> 0]
    /\ heldAt = [c \in Contents |-> 0]
    /\ goneAt = 0
    /\ newest = 0

\* The row changes content; its old content has been held until now.
Becomes(c) ==
    /\ stored' = c
    /\ heldAt' = IF c = NoRow THEN heldAt ELSE [heldAt EXCEPT ![c] = clock]

Larger(a, b) == IF a >= b THEN a ELSE b

-----------------------------------------------------------------------------
(* A report: the deletion check, the projection, and what it writes.       *)

Advance(p, step) == report' = [report EXCEPT ![p].step = step]
Finish(p) == report' = [report EXCEPT ![p] = None]

\* A payload that is well formed and on time, of a host that is not deleted.
Accept(p, kind) ==
    /\ report[p] = None
    /\ requests.reports < ReportLimit
    /\ ~tombstone
    /\ report' = [report EXCEPT ![p] = [kind |-> kind, at |-> clock, step |-> "meta", seen |-> NoRow]]
    /\ requests' = [requests EXCEPT !.reports = @ + 1]
    /\ UNCHANGED <<clock, registryRow, projection, change, registryHistory>>

AcceptIngest(p) == Accept(p, "ingest")
AcceptIdentity(p) == Accept(p, "identity")
AcceptTier2(p) == Accept(p, "tier2")

Fresh == projection # None /\ projection.expires > clock

\* Mutant: an entry is used for one unit of time after it has expired.
LoadHostMetaExpired(p) ==
    /\ report[p] # None /\ report[p].step = "meta"
    /\ projection # None /\ projection.expires >= clock
    /\ report' = [report EXCEPT ![p].step = "write", ![p].seen = projection.window]
    /\ UNCHANGED <<clock, registryRow, projection, change, requests, registryHistory>>

\* loadHostMeta finds an entry.
LoadHostMeta(p) ==
    /\ report[p] # None /\ report[p].step = "meta"
    /\ Fresh
    /\ report' = [report EXCEPT ![p].step = "write", ![p].seen = projection.window]
    /\ UNCHANGED <<clock, registryRow, projection, change, requests, registryHistory>>

\* It finds none, or KV fails.
MissHostMeta(p) ==
    /\ report[p] # None /\ report[p].step = "meta"
    /\ "get" \notin KvFaults => ~Fresh
    /\ Advance(p, "select")
    /\ UNCHANGED <<clock, registryRow, projection, change, requests, registryHistory>>

\* The SELECT behind the cache; a host without a row is not cached.
SelectHostMeta(p) ==
    /\ report[p] # None /\ report[p].step = "select"
    /\ report' = [report EXCEPT ![p].step = IF stored = NoRow THEN "write" ELSE "store",
                                ![p].seen = stored]
    /\ UNCHANGED <<clock, registryRow, projection, change, requests, registryHistory>>

ProjectionOf(w) == [window |-> w, expires |-> clock + ProjectionTTL]

\* storeHostMeta; a failed put is swallowed.
StoreHostMeta(p) ==
    /\ report[p] # None /\ report[p].step = "store"
    /\ \/ projection' = ProjectionOf(report[p].seen)
       \/ "put" \in KvFaults /\ UNCHANGED projection
    /\ Advance(p, "write")
    /\ UNCHANGED <<clock, registryRow, change, requests, registryHistory>>

\* last_seen becomes the arrival time of the report.
Touch(p) ==
    /\ lastSeen' = report[p].at
    /\ newest' = Larger(newest, report[p].at)

\* An upsert of the host row.
EnsureRow ==
    IF stored = NoRow THEN Becomes(NoWindow) ELSE UNCHANGED <<stored, heldAt>>

\* Mutant: the first-seen statement is used for a known host too, and no trigger guards it.
InsertRawWithHostUpsertUnguarded(p) ==
    /\ report[p] # None /\ report[p].kind = "ingest" /\ report[p].step = "write"
    /\ EnsureRow /\ Touch(p)
    /\ tables' = tables \cup {"raw"}
    /\ Advance(p, "judge")
    /\ UNCHANGED <<clock, tombstone, facts, projection, change, requests, goneAt>>

\* insertRawWithHostUpsert, one batch: the host statement depends on what the projection
\* said, the triggers of a tombstone abort it, and so does the foreign key when a host
\* that was taken for known has no row.  A sample stored before is not evaluated again.
InsertRawWithHostUpsert(p) ==
    /\ report[p] # None /\ report[p].kind = "ingest" /\ report[p].step = "write"
    /\ LET known == report[p].seen # NoRow IN
       \/ /\ tombstone
          /\ Finish(p)
          /\ UNCHANGED <<registryRow, heldAt, newest>>
       \/ /\ ~tombstone /\ known /\ stored = NoRow
          /\ Advance(p, "stranded")
          /\ UNCHANGED <<registryRow, heldAt, newest>>
       \/ /\ ~tombstone /\ (known => stored # NoRow)
          /\ EnsureRow /\ Touch(p)
          /\ tables' = tables \cup {"raw"}
          /\ Advance(p, "judge") \/ ("raw" \in tables /\ Finish(p))
          /\ UNCHANGED <<tombstone, facts>>
    /\ UNCHANGED <<clock, projection, change, requests, goneAt>>

\* The report is judged by the window it saw (HostAlerts models how), or has failed.
EndIngest(p) ==
    /\ report[p] # None /\ report[p].step \in {"judge", "stranded"}
    /\ Finish(p)
    /\ UNCHANGED <<clock, registryRow, projection, change, requests, registryHistory>>

\* upsertIdentity.
UpsertIdentity(p) ==
    /\ report[p] # None /\ report[p].kind = "identity" /\ report[p].step = "write"
    /\ \/ /\ tombstone
          /\ Finish(p)
          /\ UNCHANGED <<registryRow, heldAt, newest>>
       \/ /\ ~tombstone
          /\ EnsureRow /\ Touch(p)
          /\ facts' = facts \cup {"reported"}
          /\ Advance(p, "inventory")
          /\ UNCHANGED <<tombstone, tables>>
    /\ UNCHANGED <<clock, projection, change, requests, goneAt>>

\* UPDATE hosts SET the columns that are on the wire; without a row it does nothing.
MergeFacts(some) == facts' = IF stored = NoRow THEN facts ELSE facts \cup some

UpdateInventory(p) ==
    /\ report[p] # None /\ report[p].step = "inventory"
    /\ \E some \in {{}, {"reported"}} : MergeFacts(some)
    /\ Finish(p)
    /\ UNCHANGED <<clock, stored, tombstone, lastSeen, tables, projection, change, requests,
                   registryHistory>>

\* ensureExists: INSERT ... DO NOTHING, aborted by a tombstone.
EnsureExists(p) ==
    /\ report[p] # None /\ report[p].kind = "tier2" /\ report[p].step = "write"
    /\ IF tombstone
       THEN Finish(p) /\ UNCHANGED <<stored, heldAt, lastSeen, newest>>
       ELSE /\ Advance(p, "snapshot")
            /\ EnsureRow
            /\ IF stored = NoRow THEN Touch(p) ELSE UNCHANGED <<lastSeen, newest>>
    /\ UNCHANGED <<clock, tombstone, facts, tables, projection, change, requests, goneAt>>

\* insertSnapshot: aborted by a tombstone or by the foreign key, ignored when it is there.
InsertSnapshot(p) ==
    /\ report[p] # None /\ report[p].step = "snapshot"
    /\ \/ /\ tombstone \/ stored = NoRow
          /\ Finish(p)
          /\ UNCHANGED tables
       \/ /\ ~tombstone /\ stored # NoRow
          /\ tables' = tables \cup {"tier2"}
          /\ Advance(p, "touch") \/ ("tier2" \in tables /\ Finish(p))
    /\ UNCHANGED <<clock, stored, tombstone, lastSeen, facts, projection, change, requests,
                   registryHistory>>

TouchLastSeen(p) ==
    /\ report[p] # None /\ report[p].step = "touch"
    /\ IF stored = NoRow THEN UNCHANGED <<lastSeen, newest>> ELSE Touch(p)
    /\ Advance(p, "slow")
    /\ UNCHANGED <<clock, stored, tombstone, facts, tables, projection, change, requests,
                   heldAt, goneAt>>

UpdateTier2Inventory(p) ==
    /\ report[p] # None /\ report[p].step = "slow"
    /\ \E some \in {{}, {"reported"}} : MergeFacts(some)
    /\ Finish(p)
    /\ UNCHANGED <<clock, stored, tombstone, lastSeen, tables, projection, change, requests,
                   registryHistory>>

\* A report is cut off between two awaits.
LoseReport(p) ==
    /\ report[p] # None
    /\ Finish(p)
    /\ UNCHANGED <<clock, registryRow, projection, change, requests, registryHistory>>

-----------------------------------------------------------------------------
(* Changes, one at a time.                                                 *)

\* resolveHostRecord reads D1; a host without a row ends the request.
ResolveHostRecord(op) ==
    /\ change = None
    /\ requests.changes < ChangeLimit
    /\ op # "register" => stored # NoRow
    /\ change' = [op |-> op, step |-> "write"]
    /\ requests' = [requests EXCEPT !.changes = @ + 1]
    /\ UNCHANGED <<clock, registryRow, projection, report, registryHistory>>

\* setForHost and clearForHost: the UPDATE, then the entry is dropped.
SetMaintenance(w) ==
    /\ change = [op |-> w, step |-> "write"]
    /\ w \in Contents
    /\ IF stored = NoRow THEN UNCHANGED <<stored, heldAt>> ELSE Becomes(w)
    /\ change' = [change EXCEPT !.step = "invalidate"]
    /\ UNCHANGED <<clock, tombstone, lastSeen, facts, tables, projection, report, requests,
                   goneAt, newest>>

UpdateDescription ==
    /\ change = [op |-> "describe", step |-> "write"]
    /\ MergeFacts({"described"})
    /\ change' = None
    /\ UNCHANGED <<clock, stored, tombstone, lastSeen, tables, projection, report, requests,
                   registryHistory>>

\* deleteHost, one batch.
RemoveHost ==
    /\ change = [op |-> "delete", step |-> "write"]
    /\ tombstone' = TRUE
    /\ Becomes(NoRow)
    /\ lastSeen' = 0 /\ facts' = {} /\ tables' = {}
    /\ goneAt' = clock /\ newest' = 0
    /\ change' = [change EXCEPT !.step = "invalidate"]
    /\ UNCHANGED <<clock, projection, report, requests>>

\* registerHost removes the tombstone; without one the request ends.
ForgetTombstone ==
    /\ change = [op |-> "register", step |-> "write"]
    /\ tombstone' = FALSE
    /\ change' = IF tombstone THEN [change EXCEPT !.step = "invalidate"] ELSE None
    /\ UNCHANGED <<clock, stored, lastSeen, facts, tables, projection, report, requests,
                   registryHistory>>

\* invalidateHostMeta; a failed delete is swallowed.
InvalidateHostMeta ==
    /\ change # None /\ change.step = "invalidate"
    /\ projection' = None \/ ("delete" \in KvFaults /\ UNCHANGED projection)
    /\ change' = None
    /\ UNCHANGED <<clock, registryRow, report, requests, registryHistory>>

LoseChange ==
    /\ change # None
    /\ change' = None
    /\ UNCHANGED <<clock, registryRow, projection, report, requests, registryHistory>>

ClockTick ==
    /\ clock < LastTime
    /\ \A p \in Reporters : report[p] # None => clock < report[p].at + ReportLatency
    /\ clock' = clock + 1
    /\ heldAt' = IF stored = NoRow THEN heldAt ELSE [heldAt EXCEPT ![stored] = clock']
    /\ UNCHANGED <<registryRow, projection, report, change, requests, goneAt, newest>>

RegistryNext ==
    \/ \E p \in Reporters :
         \/ AcceptIngest(p) \/ AcceptIdentity(p) \/ AcceptTier2(p)
         \/ LoadHostMeta(p) \/ MissHostMeta(p) \/ SelectHostMeta(p) \/ StoreHostMeta(p)
         \/ InsertRawWithHostUpsert(p) \/ EndIngest(p) \/ UpsertIdentity(p) \/ UpdateInventory(p)
         \/ EnsureExists(p) \/ InsertSnapshot(p) \/ TouchLastSeen(p)
         \/ UpdateTier2Inventory(p) \/ LoseReport(p)
    \/ \E op \in Ops : ResolveHostRecord(op)
    \/ \E w \in Contents : SetMaintenance(w)
    \/ UpdateDescription \/ RemoveHost \/ ForgetTombstone \/ InvalidateHostMeta \/ LoseChange
    \/ ClockTick

RegistrySpec == RegistryInit /\ [][RegistryNext]_registryVars

-----------------------------------------------------------------------------
(* Properties.                                                             *)

\* Every variable has its type, and a row is what the slow columns belong to.
RegistryTypeOK ==
    /\ clock \in 0..LastTime
    /\ stored \in Contents \cup {NoRow}
    /\ tombstone \in BOOLEAN
    /\ lastSeen \in Nat
    /\ facts \subseteq {"reported", "described"}
    /\ tables \subseteq {"raw", "tier2"}
    /\ projection \in ProjectionEntry \cup {None}
    /\ report \in [Reporters -> Report \cup {None}]
    /\ change \in Change \cup {None}
    /\ requests \in [reports : 0..ReportLimit, changes : 0..ChangeLimit]
    /\ heldAt \in [Contents -> Nat]
    /\ goneAt \in Nat /\ newest \in Nat

\* While the tombstone stands no report brings the host back, whatever had been admitted
\* before the deletion; and without a row, also right after a registration, there are no
\* columns, no samples and no snapshots.
DeletedHostStaysAway ==
    /\ tombstone => stored = NoRow
    /\ stored = NoRow => tables = {} /\ facts = {}

\* A projection ends within one latency and one TTL of the last time the row had that
\* content, although a report may store it after the change has dropped the entry and
\* although the drop may fail or never happen.
ProjectionBounded ==
    projection # None =>
      projection.expires <= heldAt[projection.window] + ReportLatency + ProjectionTTL

\* A sample is judged by a window that the row had less than one TTL and two latencies ago.
JudgedByRecentWindow ==
    \A p \in Reporters : report[p] # None /\ report[p].step = "judge" /\ report[p].seen # NoRow
      => clock < heldAt[report[p].seen] + ProjectionTTL + 2 * ReportLatency

\* A deleted and re-registered host has reports rejected for want of a row (the stale
\* projection makes it look known) for a bounded time only.
StrandedBounded ==
    \A p \in Reporters : report[p] # None /\ report[p].step = "stranded"
      => clock < goneAt + ProjectionTTL + 2 * ReportLatency

\* Reports overtake each other, but last_seen never falls more than one latency behind
\* the newest report the row has taken.
LastSeenRecent == stored # NoRow => newest <= lastSeen + ReportLatency

\* What is stale stays so for a bounded time only, through KV faults and changes that die
\* half way: the projection, the window a sample is judged by, the rejection of a host that
\* was registered again, and last_seen (lib/host-meta-cache.ts, routes/ingest.ts).
LagBounded ==
    /\ RegistryTypeOK
    /\ ProjectionBounded
    /\ JudgedByRecentWindow
    /\ StrandedBounded
    /\ LastSeenRecent
=============================================================================
