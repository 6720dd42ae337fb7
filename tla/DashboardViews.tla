--------------------------- MODULE DashboardViews ---------------------------
(* What the read APIs show of a fleet: the list of hosts and the list of   *)
(* alerts, both behind the short-lived KV cache (lib/dashboard-cache.ts),  *)
(* the detail of a host, the monitoring endpoints and the fleet status     *)
(* (routes/hosts.ts, alerts.ts, host-detail.ts, monitoring.ts,             *)
(* fleet-status.ts), all through deriveHostStatus (services/status.ts).    *)
(* A request reads the clock, the rows, the alerts and the allowed ports   *)
(* one after the other while the fleet changes, and may be answered from   *)
(* what an earlier request stored.  Time is in steps of a day of Day steps *)
(* that repeats; a stored answer counts as fresh for ViewTTL of them, and  *)
(* a request lasts ViewLatency at most.                                    *)
EXTENDS Integers, FiniteSets, FiniteSetsExt

CONSTANTS
    Fleet,           \* hosts
    Viewers,         \* requests of one identity that may be under way at once
    Day,             \* steps of a day
    Windows,         \* maintenance windows <<start, end>> that hosts are given
    OfflineAfter,    \* steps without a sample after which a host is offline
    ViewTTL,         \* how long a stored answer is fresh
    StorageTTL,      \* how long KV keeps it
    ViewLatency,     \* longest request
    LastStep,        \* bound on the clock
    FleetChangeLimit,\* bound on changes of the fleet
    ViewLimit        \* bound on requests

ASSUME ViewAssumption ==
    /\ Day \in Nat \ {0} /\ Windows \subseteq (0..(Day - 1)) \X (0..(Day - 1))
    /\ {OfflineAfter, ViewTTL, StorageTTL, ViewLatency, LastStep, FleetChangeLimit, ViewLimit} \subseteq Nat
    /\ ViewTTL <= StorageTTL

VARIABLES
    fleet,     \* rows by host, with its alerts, allowed ports and tags beside it
    settled,   \* when something about a host last changed
    steps,     \* the clock
    cached,    \* KV: the stored answer of each cached route
    view,      \* requests by viewer
    changes,   \* changes of the fleet so far
    asked      \* requests so far

viewVars == <<fleet, settled, steps, cached, view, changes, asked>>

Severity == [disk_full |-> "critical", uptime_anomaly |-> "info", public_port |-> "warning"]
ViewRules == DOMAIN Severity
Tiers == {"healthy", "warning", "critical", "offline", "maintenance"}
NoWindow == <<>>

New == [last_seen |-> steps, window |-> NoWindow, alerts |-> {}, allowed |-> FALSE, tagged |-> FALSE]

Cached == {"hosts", "alerts"}
Kinds == Cached \cup {"detail", "monitoring", "groups", "fleet"}
NoAnswer == [tiers |-> <<>>, listed |-> {}, groups |-> <<>>, overall |-> "none"]
NoEntry == [answer |-> NoAnswer, expiresAt |-> -1, storedUntil |-> -1]
Quiet == [stage |-> "idle", kind |-> "hosts", of |-> Tiers, began |-> 0, now |-> 0, rows |-> <<>>,
          alerts |-> <<>>, ports |-> <<>>, tags |-> <<>>, answer |-> NoAnswer]

ViewInit ==
    /\ steps = 0 /\ changes = 0 /\ asked = 0
    /\ fleet = [h \in Fleet |-> [New EXCEPT !.last_seen = -1]] /\ settled = [h \in Fleet |-> -(ViewTTL + ViewLatency + 1)]
    /\ cached = [k \in Cached |-> NoEntry]
    /\ view = [v \in Viewers |-> Quiet]

-----------------------------------------------------------------------------
(* Status of one host.                                                     *)

IsInMaintenanceWindow(now, w) ==
    IF w[1] < w[2] THEN w[1] <= now /\ now < w[2] ELSE w[1] <= now \/ now < w[2]

InMaintenance(now, row) == row.window # NoWindow /\ IsInMaintenanceWindow(now % Day, row.window)

\* A warning about public ports that are all allowed counts as information.
IsWarning(rule, allowed) == Severity[rule] = "warning" /\ ~(rule = "public_port" /\ allowed)

DeriveHostStatus(now, row, alerts, allowed) ==
    CASE InMaintenance(now, row) -> "maintenance"
      [] ~InMaintenance(now, row) /\ now - row.last_seen > OfflineAfter -> "offline"
      [] OTHER -> IF \E r \in alerts : Severity[r] = "critical" THEN "critical"
                  ELSE IF \E r \in alerts : IsWarning(r, allowed) THEN "warning" ELSE "healthy"

Priority == [healthy |-> 0, warning |-> 1, critical |-> 2, offline |-> 3, maintenance |-> 4]

\* worstTier over a group.
WorstTier(tiers) == CHOOSE t \in tiers : \A u \in tiers : Priority[u] <= Priority[t]

\* summarizeHostStatuses.
SummarizeHostStatuses(tiers) ==
    IF tiers = {} THEN "empty"
    ELSE IF tiers \cap {"critical", "offline"} # {} THEN "critical"
    ELSE IF "warning" \in tiers THEN "degraded" ELSE "healthy"

-----------------------------------------------------------------------------
(* A request.                                                              *)

\* A request that has its answer keeps nothing of what it read.
Done(r, stage, answer) == [Quiet EXCEPT !.stage = stage, !.kind = r.kind, !.of = r.of, !.began = r.began, !.answer = answer]
Goes(v, r) == view' = [view EXCEPT ![v] = r]
At(v, stage) == view[v].stage = stage

\* GET of one of the routes; the monitoring list may be narrowed to one tier.
Ask(v) ==
    /\ view[v].stage \in {"idle", "answered"} /\ asked < ViewLimit /\ asked' = asked + 1
    /\ \E kind \in Kinds, of \in {Tiers, {"critical"}} :
         /\ of # Tiers => kind = "monitoring"
         /\ Goes(v, [Quiet EXCEPT !.stage = IF kind \in Cached THEN "cache" ELSE "rows",
                                  !.kind = kind, !.of = of, !.began = steps])
    /\ UNCHANGED <<fleet, settled, steps, cached, changes>>

\* Mutant: whatever KV still holds is served.
FreshStored(entry) == steps <= entry.storedUntil
Fresh(entry) == steps < entry.expiresAt /\ steps <= entry.storedUntil

\* tryReadCache: a hit goes on to the ids that are active now ...
TryReadCache(v) ==
    /\ At(v, "cache") /\ Fresh(cached[view[v].kind])
    /\ Goes(v, [view[v] EXCEPT !.stage = "hit", !.answer = cached[view[v].kind].answer])
    /\ UNCHANGED <<fleet, settled, steps, cached, changes, asked>>

\* ... and a miss, or a failed read, to the tables.
MissCache(v) ==
    /\ At(v, "cache")
    /\ Goes(v, [view[v] EXCEPT !.stage = "rows"])
    /\ UNCHANGED <<fleet, settled, steps, cached, changes, asked>>

Only(f, hs) == [h \in DOMAIN f \cap hs |-> f[h]]

\* The filter by listActiveHostIds.
ActiveOnly(answer) == [answer EXCEPT !.tiers = Only(@, DOMAIN fleet),
                                     !.listed = {a \in @ : a[1] \in DOMAIN fleet}]

ServeHit(v) ==
    /\ At(v, "hit")
    /\ Goes(v, [view[v] EXCEPT !.stage = "answered", !.answer = ActiveOnly(@)])
    /\ UNCHANGED <<fleet, settled, steps, cached, changes, asked>>

\* listOverviewRows, listStatusRows, getDetailRow; the clock was read just before, except
\* in the detail of a host, where it is read after.
ReadRows(v) ==
    /\ At(v, "rows") /\ view[v].kind # "alerts"
    /\ \E now \in (IF view[v].kind = "detail" THEN {steps} ELSE view[v].began..steps) :
         Goes(v, [view[v] EXCEPT !.stage = IF DOMAIN fleet = {} THEN "built" ELSE "beside",
                                 !.now = now, !.rows = fleet])
    /\ UNCHANGED <<fleet, settled, steps, cached, changes, asked>>

\* listForHosts of alerts and of allowed ports and listNamesForHosts, in any order.
ReadBeside(v) ==
    /\ At(v, "beside")
    /\ LET hs == DOMAIN view[v].rows
           alerts == [h \in hs |-> IF h \in DOMAIN fleet THEN fleet[h].alerts ELSE {}]
           ports == [h \in hs |-> h \in DOMAIN fleet /\ fleet[h].allowed]
           tags == [h \in hs |-> h \in DOMAIN fleet /\ fleet[h].tagged]
       IN \/ view[v].alerts = <<>> /\ Goes(v, [view[v] EXCEPT !.alerts = alerts])
          \/ view[v].ports = <<>> /\ Goes(v, [view[v] EXCEPT !.ports = ports])
          \/ view[v].kind = "groups" /\ view[v].tags = <<>> /\ Goes(v, [view[v] EXCEPT !.tags = tags])
    /\ UNCHANGED <<fleet, settled, steps, cached, changes, asked>>

Complete(r) == r.alerts # <<>> /\ r.ports # <<>> /\ (r.kind = "groups" => r.tags # <<>>)

TierOf(r, h) == DeriveHostStatus(r.now, r.rows[h], r.alerts[h], r.ports[h])
Shown(r) == {h \in DOMAIN r.rows : TierOf(r, h) \in r.of}

\* buildTagGroups: hosts without a tag form a group of their own.
Groups(r) ==
    LET Of(t) == {h \in DOMAIN r.rows : r.tags[h] = t}
    IN [t \in {u \in BOOLEAN : Of(u) # {}} |-> WorstTier({TierOf(r, h) : h \in Of(t)})]

\* Alerts are listed beside a host unless it is in maintenance.
Listed(r) == UNION {{<<h, rule>> : rule \in r.alerts[h]} :
                      h \in {g \in Shown(r) : TierOf(r, g) # "maintenance"}}

BuildList(r) == [NoAnswer EXCEPT !.tiers = [h \in Shown(r) |-> TierOf(r, h)], !.listed = Listed(r)]

\* A host by itself is shown as it is in the list.
BuildDetail(r) == BuildList(r)

BuildGroups(r) == [NoAnswer EXCEPT !.groups = Groups(r)]

\* fleetStatusRoute.
BuildFleet(r) == [NoAnswer EXCEPT !.overall = SummarizeHostStatuses({TierOf(r, h) : h \in DOMAIN r.rows})]

Build(r) ==
    CASE r.kind = "fleet" -> BuildFleet(r)
      [] r.kind = "groups" -> BuildGroups(r)
      [] r.kind = "detail" -> BuildDetail(r)
      [] OTHER -> BuildList(r)

BuildView(v) ==
    /\ At(v, "beside") /\ Complete(view[v])
    /\ Goes(v, Done(view[v], "built", Build(view[v])))
    /\ UNCHANGED <<fleet, settled, steps, cached, changes, asked>>

\* alertsListRoute, monitoringAlertsRoute: one SELECT over alerts and hosts, then the clock.
ReadAlertsJoined(v) ==
    /\ At(v, "rows") /\ view[v].kind = "alerts"
    /\ LET hs == {h \in DOMAIN fleet : ~InMaintenance(steps, fleet[h])}
       IN Goes(v, [view[v] EXCEPT !.stage = "built",
                     !.answer = [NoAnswer EXCEPT !.listed = UNION {{<<h, r>> : r \in fleet[h].alerts} : h \in hs}]])
    /\ UNCHANGED <<fleet, settled, steps, cached, changes, asked>>

\* writeCache, which may fail without a trace.
WriteCache(v) ==
    /\ At(v, "built")
    /\ Goes(v, [view[v] EXCEPT !.stage = "answered"])
    /\ LET kind == view[v].kind
           entry == [answer |-> view[v].answer, expiresAt |-> steps + ViewTTL, storedUntil |-> steps + StorageTTL]
       IN cached' \in {cached} \cup (IF kind \in Cached THEN {[cached EXCEPT ![kind] = entry]} ELSE {})
    /\ UNCHANGED <<fleet, settled, steps, changes, asked>>

-----------------------------------------------------------------------------
(* The fleet: ingest, alert evaluation and the dashboard's own edits.      *)

Change(h, rows) ==
    /\ changes < FleetChangeLimit /\ changes' = changes + 1
    /\ fleet' = rows /\ settled' = [settled EXCEPT ![h] = steps]
    /\ UNCHANGED <<steps, cached, view, asked>>

Edit(h) ==
    /\ h \in DOMAIN fleet
    /\ \/ \E r \in ViewRules : Change(h, [fleet EXCEPT ![h].alerts = IF r \in @ THEN @ \ {r} ELSE @ \cup {r}])
       \/ \E w \in Windows \cup {NoWindow} : Change(h, [fleet EXCEPT ![h].window = w])
       \/ Change(h, [fleet EXCEPT ![h].allowed = ~@])
       \/ Change(h, [fleet EXCEPT ![h].tagged = ~@])
       \/ Change(h, [fleet EXCEPT ![h].last_seen = steps])

RemoveFromFleet(h) == h \in DOMAIN fleet /\ Change(h, Only(fleet, Fleet \ {h}))

AddToFleet(h) ==
    h \notin DOMAIN fleet /\ Change(h, [g \in DOMAIN fleet \cup {h} |-> IF g = h THEN New ELSE fleet[g]])

ViewTick ==
    /\ steps < LastStep
    /\ \A v \in Viewers : view[v].stage \in {"idle", "answered"} \/ steps < view[v].began + ViewLatency
    /\ steps' = steps + 1
    /\ UNCHANGED <<fleet, settled, cached, view, changes, asked>>

-----------------------------------------------------------------------------
ViewNext ==
    \/ \E v \in Viewers : \/ Ask(v) \/ TryReadCache(v) \/ MissCache(v) \/ ServeHit(v) \/ ReadRows(v)
                          \/ ReadBeside(v) \/ BuildView(v) \/ ReadAlertsJoined(v) \/ WriteCache(v)
    \/ \E h \in Fleet : Edit(h) \/ RemoveFromFleet(h) \/ AddToFleet(h)
    \/ ViewTick

ViewSpec == ViewInit /\ [][ViewNext]_viewVars

-----------------------------------------------------------------------------
(* Properties.                                                             *)

\* What a host is, told without the code's comparisons: a window holds the steps that a
\* walk around the day meets between its start and its end, the start for the whole day.
WalkHolds(now, w) == \E k \in 0..((w[2] - w[1] - 1) % Day) : now % Day = (w[1] + k) % Day
Calm(h, now) == fleet[h].window # NoWindow /\ WalkHolds(now, fleet[h].window)
Due(h, now) ==
    LET live == fleet[h].alerts \ (IF fleet[h].allowed THEN {"public_port"} ELSE {})
    IN IF Calm(h, now) THEN "maintenance"
       ELSE IF now > fleet[h].last_seen + OfflineAfter THEN "offline"
       ELSE WorstTier({"healthy"} \cup {Severity[r] : r \in live \ {"uptime_anomaly"}})

\* Hosts about which nothing has changed, the passing of time included, since before
\* anything in the answer of v could have been read.
Steady(v, window) ==
    {h \in DOMAIN fleet :
        /\ settled[h] < view[v].began - window
        /\ \A t \in 0..steps : t >= view[v].began - window => Due(h, t) = Due(h, steps)}

AsFarBack(v) == IF view[v].kind \in Cached THEN ViewTTL + ViewLatency ELSE 0

\* A host that has not changed for the freshness of the cache and a request is shown as it
\* is by every route, whatever was read when and whatever was served from KV: the tier in
\* the lists and in the detail, its alerts unless it is in maintenance, the verdict over the
\* fleet and over its group no better than it (routes/hosts.ts, monitoring.ts).
SettledIsShown ==
    \A v \in Viewers : At(v, "answered") =>
        \A h \in Steady(v, AsFarBack(v)) :
            LET a == view[v].answer
                kind == view[v].kind
                due == Due(h, steps)
            IN /\ kind \in {"hosts", "detail", "monitoring"} => (h \in DOMAIN a.tiers) = (due \in view[v].of)
               /\ h \in DOMAIN a.tiers => a.tiers[h] = due
               /\ kind = "alerts" \/ h \in DOMAIN a.tiers =>
                     {r \in ViewRules : <<h, r>> \in a.listed} = IF due = "maintenance" THEN {} ELSE fleet[h].alerts
               /\ kind = "fleet" => /\ due \in {"critical", "offline"} => a.overall = "critical"
                                    /\ due = "warning" => a.overall \in {"degraded", "critical"}
               /\ kind = "groups" => \E t \in DOMAIN a.groups : Priority[a.groups[t]] >= Priority[due]

\* A host that was gone before a request began is not in its answer, not even in a stored
\* one (the filter by listActiveHostIds).
GoneIsNotShown ==
    \A v \in Viewers : At(v, "answered") =>
        \A h \in Fleet \ DOMAIN fleet :
            settled[h] < view[v].began =>
                h \notin DOMAIN view[v].answer.tiers /\ \A r \in ViewRules : <<h, r>> \notin view[v].answer.listed

\* A view assembled from reads at several moments, or taken from the cache, shows a fleet at
\* rest as it is and nothing that was gone.
ViewsTruthful == SettledIsShown /\ GoneIsNotShown
=============================================================================
