--------------------------- MODULE WebhookEvents ---------------------------
(***************************************************************************)
(* The webhook of one host, the events it delivers, and a reader that      *)
(* pages through them with a Connect cursor.                               *)
(*                                                                         *)
(* Deliveries (POST /api/events) are not coordinated: they overlap each    *)
(* other, the operator's changes of the webhook, the deletion of the host  *)
(* and the hourly purge, and each of their D1 calls is a step.             *)
(***************************************************************************)
EXTENDS Integers, FiniteSets, FiniteSetsExt

CONSTANTS
    Deliverers,     \* senders of events: one request at a time each
    Addresses,      \* public IP addresses
    RateLimit,      \* webhook_configs.rate_limit
    PageSize,       \* rows of one page of the reader
    LastMinute,     \* bound on the clock (model checking only)
    DeliveryLimit,  \* bound on the requests of the senders (model checking only)
    EventLimit,     \* bound on the events ever stored (model checking only)
    TokenLimit,     \* bound on the tokens ever generated (model checking only)
    LifeLimit,      \* bound on the deletions of the host (model checking only)
    NoHook          \* nothing: no configuration, no address, no request

ASSUME WebhookAssumption ==
    /\ RateLimit \in Nat \ {0} /\ PageSize \in Nat \ {0}
    /\ LastMinute \in Nat /\ EventLimit \in Nat /\ TokenLimit \in Nat /\ LifeLimit \in Nat
    /\ DeliveryLimit \in Nat
    /\ NoHook \notin Addresses

VARIABLES
    hookMinute,      \* wall clock, in windows of a minute
    hostRow,     \* the hosts row is there
    publicIp,    \* hosts.public_ip
    config,      \* webhook_configs: [id, token, window, count], or NoHook
    events,      \* events: [id, config, created, life]
    delivery,    \* sender -> the request under way, or NoHook
    reader,      \* the paging client: [after, seen, begun], or NoHook
    lastId,      \* AUTOINCREMENT of webhook_configs and of the tokens generated
    lastEvent,   \* AUTOINCREMENT of events
    sent,        \* history: requests of the senders
    life,        \* history: how often the host has been deleted
    admitted,    \* history: deliveries the current window has let through, by minute
    regressions  \* history: how often a late request moved the window back

hookRows == <<hostRow, publicIp, config, events>>
hookCounters == <<lastId, lastEvent, life>>
hookHistory == <<admitted, regressions, sent>>
webhookVars == <<hookMinute, hookRows, delivery, reader, hookCounters, hookHistory>>

Minutes == 0..LastMinute
Config == [id : Nat, token : Nat, window : Minutes, count : Nat]
Event == [id : Nat, config : Nat, created : Minutes, life : Nat]
Delivery == [step : {"lookup", "address", "quota", "insert"}, token : Nat, source : Addresses,
             config : Nat, at : Minutes, life : Nat, floor : Nat]

WebhookInit ==
    /\ hookMinute = 0
    /\ hostRow = TRUE /\ publicIp \in Addresses \cup {NoHook}
    /\ config = NoHook
    /\ events = {}
    /\ delivery = [d \in Deliverers |-> NoHook]
    /\ reader = NoHook
    /\ lastId = 0 /\ lastEvent = 0 /\ life = 0
    /\ admitted = [m \in Minutes |-> 0]
    /\ regressions = 0 /\ sent = 0

-----------------------------------------------------------------------------
(* eventsIngestRoute.                                                      *)

Drop(d) == delivery' = [delivery EXCEPT ![d] = NoHook]
Reach(d, step) == delivery' = [delivery EXCEPT ![d].step = step]

\* A request with a bearer token, an address and, as its payload is validated before it
\* may use up quota, a payload that validateEventPayload accepts.
PostEvent(d, token, source) ==
    /\ delivery[d] = NoHook /\ sent < DeliveryLimit
    /\ token \in 1..lastId
    /\ sent' = sent + 1
    /\ delivery' = [delivery EXCEPT ![d] =
         [step |-> "lookup", token |-> token, source |-> source, config |-> 0,
          at |-> hookMinute, life |-> life, floor |-> IF config = NoHook THEN 0 ELSE config.token]]
    /\ UNCHANGED <<hookMinute, hookRows, reader, hookCounters, admitted, regressions>>

FindActiveWebhookByToken(d) ==
    /\ delivery[d] # NoHook /\ delivery[d].step = "lookup"
    /\ IF config # NoHook /\ delivery[d].token = config.token
       THEN delivery' = [delivery EXCEPT ![d].step = "address", ![d].config = config.id]
       ELSE Drop(d)
    /\ UNCHANGED <<hookMinute, hookRows, reader, hookCounters, hookHistory>>

\* The sender must have the address the host reported; then the request reads the clock.
GetHostPublicIp(d) ==
    /\ delivery[d] # NoHook /\ delivery[d].step = "address"
    /\ IF hostRow /\ publicIp = delivery[d].source
       THEN delivery' = [delivery EXCEPT ![d].step = "quota", ![d].at = hookMinute]
       ELSE Drop(d)
    /\ UNCHANGED <<hookMinute, hookRows, reader, hookCounters, hookHistory>>

\* The UPDATE ... RETURNING of checkRateLimit.
CountOf(d) == IF config.window = delivery[d].at THEN config.count + 1 ELSE 1

WithinLimit(d) == CountOf(d) <= RateLimit

CheckRateLimit(d) ==
    /\ delivery[d] # NoHook /\ delivery[d].step = "quota"
    /\ IF config # NoHook /\ config.id = delivery[d].config
       THEN /\ config' = [config EXCEPT !.window = delivery[d].at, !.count = CountOf(d)]
            /\ regressions' = regressions + (IF delivery[d].at < config.window THEN 1 ELSE 0)
            /\ IF WithinLimit(d)
               THEN Reach(d, "insert") /\ admitted' = [admitted EXCEPT ![delivery[d].at] = @ + 1]
               ELSE Drop(d) /\ UNCHANGED admitted
       ELSE Drop(d) /\ UNCHANGED <<config, admitted, regressions>>
    /\ UNCHANGED <<hookMinute, hostRow, publicIp, events, reader, hookCounters, sent>>

Append1(cfg, at, in) ==
    /\ lastEvent' = lastEvent + 1
    /\ events' = events \cup {[id |-> lastEvent', config |-> cfg, created |-> at, life |-> in]}

\* Mutant: nothing ties an event to its configuration.
InsertEventUntied(d) ==
    /\ delivery[d] # NoHook /\ delivery[d].step = "insert"
    /\ IF hostRow
       THEN lastEvent < EventLimit /\ Append1(delivery[d].config, delivery[d].at, delivery[d].life)
       ELSE UNCHANGED <<events, lastEvent>>
    /\ Drop(d)
    /\ UNCHANGED <<hookMinute, hostRow, publicIp, config, reader, lastId, life, hookHistory>>

\* insertEvent; the foreign keys abort it when the host or the configuration is gone.
InsertEvent(d) ==
    /\ delivery[d] # NoHook /\ delivery[d].step = "insert"
    /\ IF hostRow /\ config # NoHook /\ config.id = delivery[d].config
       THEN lastEvent < EventLimit /\ Append1(delivery[d].config, delivery[d].at, delivery[d].life)
       ELSE UNCHANGED <<events, lastEvent>>
    /\ Drop(d)
    /\ UNCHANGED <<hookMinute, hostRow, publicIp, config, reader, lastId, life, hookHistory>>

\* appendEvent: an event of a Connect token, without a configuration.
AppendEvent ==
    /\ hostRow /\ lastEvent < EventLimit
    /\ Append1(0, hookMinute, life)
    /\ UNCHANGED <<hookMinute, hostRow, publicIp, config, delivery, reader, lastId, life, hookHistory>>

LoseDelivery(d) ==
    /\ delivery[d] # NoHook
    /\ Drop(d)
    /\ UNCHANGED <<hookMinute, hookRows, reader, hookCounters, hookHistory>>

-----------------------------------------------------------------------------
(* Changes of the webhook, one at a time in the coordinator.               *)

\* webhooksCreateRoute: a host that has one gets 409 by the UNIQUE host_id.
CreateWebhook ==
    /\ hostRow /\ config = NoHook /\ lastId < TokenLimit
    /\ lastId' = lastId + 1
    /\ config' = [id |-> lastId', token |-> lastId', window |-> 0, count |-> 0]
    /\ admitted' = [m \in Minutes |-> 0] /\ regressions' = 0
    /\ UNCHANGED <<hookMinute, hostRow, publicIp, events, delivery, reader, lastEvent, life, sent>>

RegenerateToken ==
    /\ config # NoHook /\ lastId < TokenLimit
    /\ lastId' = lastId + 1
    /\ config' = [config EXCEPT !.token = lastId']
    /\ UNCHANGED <<hookMinute, hostRow, publicIp, events, delivery, reader, lastEvent, life, hookHistory>>

\* webhooksDeleteRoute: its events stay, without a configuration (ON DELETE SET NULL).
DeleteWebhook ==
    /\ config # NoHook
    /\ config' = NoHook
    /\ events' = {[e EXCEPT !.config = IF @ = config.id THEN 0 ELSE @] : e \in events}
    /\ UNCHANGED <<hookMinute, hostRow, publicIp, delivery, reader, hookCounters, hookHistory>>

\* deleteHost, and the cascades of the hosts row.
CascadeHost ==
    /\ hostRow /\ life < LifeLimit
    /\ hostRow' = FALSE /\ publicIp' = NoHook /\ config' = NoHook /\ events' = {}
    /\ life' = life + 1
    /\ UNCHANGED <<hookMinute, delivery, reader, lastId, lastEvent, hookHistory>>

\* A probe reports: the row (again), with the address it has now.
ReportIdentity ==
    /\ hostRow' = TRUE
    /\ publicIp' \in Addresses
    /\ UNCHANGED <<hookMinute, config, events, delivery, reader, hookCounters, hookHistory>>

\* purgeOldData on events.
PurgeEvents ==
    /\ \E cutoff \in Minutes : cutoff <= hookMinute /\ events' = {e \in events : e.created >= cutoff}
    /\ events' # events
    /\ UNCHANGED <<hookMinute, hostRow, publicIp, config, delivery, reader, hookCounters, hookHistory>>

MinutePasses ==
    /\ hookMinute < LastMinute
    /\ hookMinute' = hookMinute + 1
    /\ UNCHANGED <<hookRows, delivery, reader, hookCounters, hookHistory>>

-----------------------------------------------------------------------------
(* events.list of Connect: pages by id, each asking for one row more.      *)

StartReading ==
    /\ reader = NoHook /\ lastEvent > 0
    /\ reader' = [after |-> 0, seen |-> {}, begun |-> events, done |-> FALSE]
    /\ UNCHANGED <<hookMinute, hookRows, delivery, hookCounters, hookHistory>>

\* The first n rows after an id, by id.
EventsPage(after, n) ==
    {e \in events : e.id > after /\ Cardinality({o \in events : o.id > after /\ o.id < e.id}) < n}

\* What of the rows read is returned: all but the one that tells there is more.
PageCut(rows) == {e \in rows : Cardinality({o \in rows : o.id < e.id}) < PageSize}

CursorAfter(rows) == Max({reader.after} \cup {e.id : e \in PageCut(rows)})

ReadPage ==
    /\ reader # NoHook /\ ~reader.done
    /\ LET rows == EventsPage(reader.after, PageSize + 1)
       IN reader' = [reader EXCEPT !.seen = @ \cup {e.id : e \in PageCut(rows)},
                                   !.after = CursorAfter(rows),
                                   !.done = Cardinality(rows) <= PageSize]
    /\ UNCHANGED <<hookMinute, hookRows, delivery, hookCounters, hookHistory>>

WebhookNext ==
    \/ \E d \in Deliverers :
         \/ \E t \in 1..TokenLimit, a \in Addresses : PostEvent(d, t, a)
         \/ FindActiveWebhookByToken(d) \/ GetHostPublicIp(d) \/ CheckRateLimit(d)
         \/ InsertEvent(d) \/ LoseDelivery(d)
    \/ AppendEvent \/ CreateWebhook \/ RegenerateToken \/ DeleteWebhook
    \/ CascadeHost \/ ReportIdentity \/ PurgeEvents \/ MinutePasses
    \/ StartReading \/ ReadPage

WebhookSpec == WebhookInit /\ [][WebhookNext]_webhookVars

-----------------------------------------------------------------------------
(* Properties.                                                             *)

\* Every variable has its type.
WebhookTypeOK ==
    /\ hookMinute \in Minutes
    /\ hostRow \in BOOLEAN
    /\ publicIp \in Addresses \cup {NoHook}
    /\ config = NoHook \/ config \in Config
    /\ events \subseteq Event
    /\ \A d \in Deliverers : delivery[d] = NoHook \/ delivery[d] \in Delivery
    /\ lastId \in Nat /\ lastEvent \in Nat /\ life \in Nat
    /\ admitted \in [Minutes -> Nat] /\ regressions \in Nat /\ sent \in Nat

\* Nothing of a deleted host comes back with it: an event that was under way when the host
\* was deleted is never stored under the row of a later registration.
EventsOfThisLife ==
    /\ ~hostRow => events = {} /\ config = NoHook
    /\ \A e \in events : e.life = life

\* A request that arrives after a token was regenerated is never admitted with the old one.
RotationCutsOff ==
    \A d \in Deliverers : delivery[d] # NoHook /\ delivery[d].step # "lookup"
      => delivery[d].token >= delivery[d].floor

\* Within a minute a webhook lets through its rate limit, and once more for every request
\* that read the clock in one minute and was counted after a request of the next.
QuotaKept == config # NoHook =>
    \A m \in Minutes : admitted[m] <= RateLimit * (1 + regressions)

\* Paging by cursor reads every event that was there when it began and is there when it
\* ends, whatever is inserted and purged in between.
CursorPagesComplete ==
    reader # NoHook /\ reader.done =>
      \A e \in reader.begun : e.id \in {o.id : o \in events} => e.id \in reader.seen

\* Whatever a delivery raced on its way from the token to the insert (a deletion, a rotation,
\* the turn of a minute, a purge), what it stores and what a reader pages through is of this
\* host, under a token in force, within the quota and without a gap.
WebhooksSound ==
    /\ WebhookTypeOK
    /\ EventsOfThisLife
    /\ RotationCutsOff
    /\ QuotaKept
    /\ CursorPagesComplete
=============================================================================
