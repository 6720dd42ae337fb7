----------------------------- MODULE HostAlerts -----------------------------
(***************************************************************************)
(* The alert tables of one host and the requests that reconcile them.      *)
(*                                                                         *)
(* POST /api/ingest and POST /api/tier2 bypass the Connect coordinator, so *)
(* the Worker runs any number of them at once; every await (a KV call, a   *)
(* D1 statement or batch) is a point where another request may run.  A     *)
(* lane is one such request at a time: Tier1Lanes run evaluateAlerts or,   *)
(* inside the maintenance window, clearPendingForHost; Tier2Lanes run      *)
(* evaluateTier2Alerts.  All state here is keyed by host_id, so one host   *)
(* is enough.                                                              *)
(*                                                                         *)
(* D1 runs a statement, and a db.batch, atomically.  KV is a store whose   *)
(* operations may fail (KVFaults); the Worker swallows those failures.     *)
(***************************************************************************)
EXTENDS Integers

CONSTANTS
    Tier1Lanes, Tier2Lanes,  \* concurrent requests of either kind
    Tier1Rules, Tier2Rules,  \* rule ids of domain/alerts/evaluate.ts and tier2.ts
    Duration,                \* rule -> durationSeconds (0: an instant rule)
    OptionalRules,           \* rules that give no result when their data is absent
    Values,                  \* what (severity, value, message) of a row tells apart
    SentinelTTL,             \* ALERTS_HEALTHY_SENTINEL_TTL_SECONDS
    MaxLatency,              \* longest life of a request
    KVFaults,                \* KV operations that may fail: "get", "put", "delete"
    Reregistration,          \* whether a deleted host may be registered again
    Window,                  \* instants inside the host's maintenance window
    MaxTime,                 \* bound on the clock (model checking only)
    None

Lanes == Tier1Lanes \cup Tier2Lanes
Rules == Tier1Rules \cup Tier2Rules
RulesOf(p) == IF p \in Tier1Lanes THEN Tier1Rules ELSE Tier2Rules

\* A row of alert_states; alert_pending is represented by its first_seen.
Row == [val : Values, triggered_at : Nat]

ASSUME HostAlertsAssumption ==
    /\ Tier1Lanes \cap Tier2Lanes = {}
    /\ Tier1Rules \cap Tier2Rules = {}
    /\ Duration \in [Rules -> Nat]
    /\ \A r \in Tier2Rules : Duration[r] = 0  \* every rule of tier2.ts is instant
    /\ OptionalRules \subseteq Rules
    /\ "clear" \notin Values /\ "absent" \notin Values
    /\ SentinelTTL \in Nat \ {0}
    /\ MaxLatency \in Nat
    /\ KVFaults \subseteq {"get", "put", "delete"}
    /\ Reregistration \in BOOLEAN
    /\ Window \subseteq Nat
    /\ MaxTime \in Nat \ {0}
    /\ None \notin Nat /\ None \notin Row
    /\ None \notin [Rules -> Nat \cup {None}]
    /\ None \notin [Rules -> Row \cup {None}]

VARIABLES
    now,             \* wall clock, seconds
    host,            \* "present", "deleted" (tombstone) or "registered" (no row yet)
    states,          \* alert_states: rule -> row or None
    pending,         \* alert_pending: rule -> first_seen or None
    sentinel,        \* expiry of KV key bat:host:alerts:empty (0: absent)
    pc,              \* the requests under way: what each is about to do,
    workerNow,       \*   the clock it read when it started,
    results,         \*   the evaluator's verdict on its payload,
    currentStates,   \*   and the tables as it has read them (None: not yet)
    currentPending,
    statesEmptyAt,   \* history: last instant at which alert_states was empty
    pendingEmptyAt,  \* history: last instant at which alert_pending was empty
    carried          \* history: duration timers left running when a window closed

lane == <<pc, workerNow, results, currentStates, currentPending>>
vars == <<now, host, states, pending, sentinel, lane,
          statesEmptyAt, pendingEmptyAt, carried>>

-----------------------------------------------------------------------------
(* Requests.                                                               *)

\* What the rule evaluator can say of a payload: for each rule the value it
\* fires with, "clear", or "absent" when it emits no result.
Results == Values \cup {"clear", "absent"}

Payloads(p) ==
    {res \in [RulesOf(p) -> Results] :
        \A r \in RulesOf(p) \ OptionalRules : res[r] # "absent"}

Fired(p, r) == results[p][r] \notin {"clear", "absent"}
Cleared(p, r) == results[p][r] = "clear"
Healthy(p, res) == \A r \in RulesOf(p) : res[r] \in {"clear", "absent"}

(***************************************************************************)
(* planAlertWrites / planTier2Writes: the writes for the tables a lane     *)
(* has read, as the rules each kind of statement names.                    *)
(***************************************************************************)
ElapsedIgnoringDuration(p, r) == currentPending[p][r] # None  \* mutant

Elapsed(p, r) ==
    /\ currentPending[p][r] # None
    /\ workerNow[p] - currentPending[p][r] >= Duration[r]

StateChanged(p, r) == currentStates[p][r] = None \/ currentStates[p][r].val # results[p][r]

ToUpsert(p) ==
    {r \in RulesOf(p) : /\ Fired(p, r)
                        /\ Duration[r] = 0 \/ Elapsed(p, r)
                        /\ StateChanged(p, r)}

ToStart(p) ==
    {r \in RulesOf(p) : Fired(p, r) /\ Duration[r] # 0 /\ currentPending[p][r] = None}

ToClear(p) == {r \in RulesOf(p) : Cleared(p, r) /\ currentStates[p][r] # None}

ToDrop(p) ==
    {r \in RulesOf(p) : Cleared(p, r) /\ Duration[r] # 0 /\ currentPending[p][r] # None}

NoWrites(p) ==
    ToUpsert(p) \cup ToStart(p) \cup ToClear(p) \cup ToDrop(p) = {}

\* Mutant: the schema before the tombstone triggers of migration 0030.
BatchAbortsUntriggered(p) == \E r \in ToStart(p) : pending[r] # None

(***************************************************************************)
(* The batch fails as a whole when an INSERT meets the tombstone trigger   *)
(* or finds no hosts row (foreign key), or when the plain INSERT INTO      *)
(* alert_pending finds the row another request inserted meanwhile.         *)
(***************************************************************************)
BatchAborts(p) ==
    \/ host # "present" /\ ToUpsert(p) \cup ToStart(p) # {}
    \/ \E r \in ToStart(p) : pending[r] # None

\* Mutant: the row is stamped anew.
UpsertStateRestamped(p, r) == [val |-> results[p][r], triggered_at |-> workerNow[p]]

\* INSERT ... ON CONFLICT DO UPDATE leaves triggered_at of an existing row alone.
UpsertState(p, r) ==
    [val |-> results[p][r],
     triggered_at |-> IF states[r] # None THEN states[r].triggered_at
                      ELSE IF currentStates[p][r] # None THEN currentStates[p][r].triggered_at
                      ELSE workerNow[p]]

StatesAfter(p) ==
    [r \in Rules |-> IF r \in ToUpsert(p) THEN UpsertState(p, r)
                     ELSE IF r \in ToClear(p) THEN None
                     ELSE states[r]]

PendingAfter(p) ==
    [r \in Rules |-> IF r \in ToStart(p) THEN workerNow[p]
                     ELSE IF r \in ToDrop(p) THEN None
                     ELSE pending[r]]

-----------------------------------------------------------------------------
\* isInMaintenanceWindow(toUtcHHMM(workerNow), start, end)
InWindow == now \in Window

NoRows == [r \in Rules |-> None]
Empty == states = NoRows /\ pending = NoRows

Init ==
    /\ now = 1
    /\ host = "present"
    /\ states = NoRows
    /\ pending = NoRows
    /\ sentinel = 0
    /\ pc = [p \in Lanes |-> "idle"]
    /\ workerNow = [p \in Lanes |-> 0]
    /\ results = [p \in Lanes |-> <<>>]
    /\ currentStates = [p \in Lanes |-> None]
    /\ currentPending = [p \in Lanes |-> None]
    /\ statesEmptyAt = now
    /\ pendingEmptyAt = now
    /\ carried = {}

SetLane(p, label, t, res) ==
    /\ pc' = [pc EXCEPT ![p] = label]
    /\ workerNow' = [workerNow EXCEPT ![p] = t]
    /\ results' = [results EXCEPT ![p] = res]
    /\ currentStates' = [currentStates EXCEPT ![p] = None]
    /\ currentPending' = [currentPending EXCEPT ![p] = None]

Finish(p) == SetLane(p, "idle", 0, <<>>)

Goto(p, label) ==
    /\ pc' = [pc EXCEPT ![p] = label]
    /\ UNCHANGED <<workerNow, results, currentStates, currentPending>>

Tables == <<states, pending>>

(***************************************************************************)
(* A request that passed the admission checks (not deleted, not retired)   *)
(* and whose sample was new.  The first request of a re-registered host    *)
(* inserts the hosts row.                                                  *)
(***************************************************************************)
Admit(p) ==
    /\ pc[p] = "idle"
    /\ host # "deleted"
    /\ host' = "present"
    /\ UNCHANGED <<Tables, sentinel, now>>

StartIngest(p) ==
    /\ p \in Tier1Lanes
    /\ Admit(p)
    /\ ~InWindow
    /\ \E res \in Payloads(p) :
         SetLane(p, IF Healthy(p, res) THEN "sentinel" ELSE "read", now, res)

\* Inside the maintenance window the payload is not evaluated.
StartIngestInWindow(p) ==
    /\ p \in Tier1Lanes
    /\ Admit(p)
    /\ InWindow
    /\ SetLane(p, "purge_invalidate", now, <<>>)

StartTier2(p) ==
    /\ p \in Tier2Lanes
    /\ Admit(p)
    /\ \E res \in Payloads(p) : SetLane(p, "read", now, res)

\* isMarkedHealthy: a hit ends the evaluation, a miss or a failed get reads D1.
SentinelHit(p) ==
    /\ pc[p] = "sentinel"
    /\ sentinel > now
    /\ Finish(p)
    /\ UNCHANGED <<Tables, sentinel, host, now>>

SentinelMiss(p) ==
    /\ pc[p] = "sentinel"
    /\ sentinel <= now \/ "get" \in KVFaults
    /\ Goto(p, "read")
    /\ UNCHANGED <<Tables, sentinel, host, now>>

\* The two SELECTs of the Promise.all, in either order.
ReadStates(p) ==
    /\ pc[p] = "read"
    /\ currentStates[p] = None
    /\ currentStates' = [currentStates EXCEPT ![p] = states]
    /\ UNCHANGED <<pc, workerNow, results, currentPending, Tables, sentinel, host, now>>

ReadPending(p) ==
    /\ pc[p] = "read"
    /\ currentPending[p] = None
    /\ currentPending' = [currentPending EXCEPT ![p] = pending]
    /\ UNCHANGED <<pc, workerNow, results, currentStates, Tables, sentinel, host, now>>

HasRead(p) == pc[p] = "read" /\ currentStates[p] # None /\ currentPending[p] # None

\* Both tables of the snapshot are empty and the payload fires no rule.
ObservedHealthy(p) ==
    /\ p \in Tier1Lanes
    /\ Healthy(p, results[p])
    /\ currentStates[p] = NoRows
    /\ currentPending[p] = NoRows

NothingToWrite(p) ==
    /\ HasRead(p)
    /\ NoWrites(p)
    /\ ~ObservedHealthy(p)
    /\ Finish(p)
    /\ UNCHANGED <<Tables, sentinel, host, now>>

\* Mutant: the TTL handed to KV in the wrong unit.
MarkHealthyTooLong(p) ==
    /\ HasRead(p)
    /\ NoWrites(p)
    /\ ObservedHealthy(p)
    /\ sentinel' = now + 60 * SentinelTTL
    /\ Finish(p)
    /\ UNCHANGED <<Tables, host, now>>

MarkHealthy(p) ==
    /\ HasRead(p)
    /\ NoWrites(p)
    /\ ObservedHealthy(p)
    /\ \/ sentinel' = now + SentinelTTL
       \/ "put" \in KVFaults /\ sentinel' = sentinel
    /\ Finish(p)
    /\ UNCHANGED <<Tables, host, now>>

DropSentinelForgotten == sentinel' = sentinel  \* mutant

DropSentinel ==
    \/ sentinel' = 0
    \/ "delete" \in KVFaults /\ sentinel' = sentinel

InvalidateHealthy(p) ==
    /\ p \in Tier1Lanes
    /\ HasRead(p)
    /\ ~NoWrites(p)
    /\ DropSentinel
    /\ Goto(p, "commit")
    /\ UNCHANGED <<Tables, host, now>>

\* db.batch(writes): tier 1 after the invalidation, tier 2 straight after its reads.
CommitBatch(p) ==
    /\ \/ pc[p] = "commit"
       \/ p \in Tier2Lanes /\ HasRead(p) /\ ~NoWrites(p)
    /\ IF BatchAborts(p)
       THEN UNCHANGED Tables
       ELSE /\ states' = StatesAfter(p)
            /\ pending' = PendingAfter(p)
    /\ Finish(p)
    /\ UNCHANGED <<sentinel, host, now>>

\* clearPendingForHost, the branch taken inside the maintenance window.
PurgeInvalidate(p) ==
    /\ pc[p] = "purge_invalidate"
    /\ DropSentinel
    /\ Goto(p, "purge")
    /\ UNCHANGED <<Tables, host, now>>

PurgePending(p) ==
    /\ pc[p] = "purge"
    /\ pending' = NoRows
    /\ Finish(p)
    /\ UNCHANGED <<states, sentinel, host, now>>

\* The request dies between two awaits: a D1 error, a cancelled invocation.
Die(p) ==
    /\ pc[p] # "idle"
    /\ Finish(p)
    /\ UNCHANGED <<Tables, sentinel, host, now>>

-----------------------------------------------------------------------------
(* The rest of the world.                                                  *)

Tick ==
    /\ now < MaxTime
    /\ \A p \in Lanes : pc[p] = "idle" \/ now < workerNow[p] + MaxLatency
    /\ now' = now + 1
    /\ UNCHANGED <<Tables, sentinel, host, lane>>

\* The batch of deleteHost: the tombstone and every row of the host.
DeleteHost ==
    /\ host = "present"
    /\ host' = "deleted"
    /\ states' = NoRows
    /\ pending' = NoRows
    /\ UNCHANGED <<sentinel, lane, now>>

RegisterHost ==
    /\ Reregistration
    /\ host = "deleted"
    /\ host' = "registered"
    /\ UNCHANGED <<Tables, sentinel, lane, now>>

LaneStep(p) ==
    \/ StartIngest(p) \/ StartIngestInWindow(p) \/ StartTier2(p)
    \/ SentinelHit(p) \/ SentinelMiss(p)
    \/ ReadStates(p) \/ ReadPending(p)
    \/ NothingToWrite(p) \/ MarkHealthy(p)
    \/ InvalidateHealthy(p) \/ CommitBatch(p)
    \/ PurgeInvalidate(p) \/ PurgePending(p)
    \/ Die(p)

WorldStep == Tick \/ DeleteHost \/ RegisterHost

Next ==
    /\ WorldStep \/ \E p \in Lanes : LaneStep(p)
    /\ statesEmptyAt' = IF states' = NoRows THEN now' ELSE statesEmptyAt
    /\ pendingEmptyAt' = IF pending' = NoRows THEN now' ELSE pendingEmptyAt
    /\ carried' = IF now \in Window /\ now' \notin Window
                  THEN {r \in Rules : pending[r] # None}
                  ELSE {r \in carried : pending'[r] # None}

Spec == Init /\ [][Next]_vars

-----------------------------------------------------------------------------
(* Properties.                                                             *)

StatesTable == [Rules -> Row \cup {None}]
PendingTable == [Rules -> Nat \cup {None}]

\* Every variable has its type, and a lane past its reads holds a full snapshot.
TypeOK ==
    /\ now \in Nat
    /\ host \in {"present", "deleted", "registered"}
    /\ states \in StatesTable
    /\ pending \in PendingTable
    /\ sentinel \in Nat
    /\ statesEmptyAt \in Nat
    /\ pendingEmptyAt \in Nat
    /\ carried \subseteq Rules
    /\ pc \in [Lanes -> {"idle", "sentinel", "read", "commit",
                         "purge_invalidate", "purge"}]
    /\ workerNow \in [Lanes -> Nat]
    /\ results \in [Lanes -> [Tier1Rules -> Results] \cup [Tier2Rules -> Results] \cup {<<>>}]
    /\ currentStates \in [Lanes -> StatesTable \cup {None}]
    /\ currentPending \in [Lanes -> PendingTable \cup {None}]
    /\ \A p \in Lanes :
         pc[p] \in {"sentinel", "read", "commit"} => results[p] \in Payloads(p)
    /\ \A p \in Lanes :
         pc[p] = "commit" => currentStates[p] # None /\ currentPending[p] # None

\* The tombstone triggers of migration 0030: whatever request was in flight when
\* the host was deleted, no alert row of a deleted host survives or reappears.
DeletedHostHasNoAlerts == host = "deleted" => Empty

\* alert_states.triggered_at is the first trigger time: as long as a row lives, no
\* re-evaluation, however it interleaves with another, moves it.
TriggeredAtPreserved ==
    [][\A r \in Rules :
         states[r] # None /\ states'[r] # None
           => states'[r].triggered_at = states[r].triggered_at]_vars

\* "A stale sentinel only delays alerts up to TTL": however requests race and
\* whichever KV calls fail, a sentinel dies within its TTL, plus the time a
\* request takes, of the last moment each table really was empty.  (Not of a moment
\* when both were: the two SELECTs are not one snapshot, and a batch that moves the
\* host's only row from one table to the other between them shows both empty.)
StaleSentinelBounded ==
    /\ sentinel <= statesEmptyAt + SentinelTTL + MaxLatency
    /\ sentinel <= pendingEmptyAt + SentinelTTL + MaxLatency

\* A live sentinel attests that no tier-1 rule has a row in either table, so the
\* fast path of evaluateAlerts never skips a recovery.  (Tier-2 rows do not matter:
\* tier-1 evaluation would not touch them.)
SentinelSound ==
    sentinel > now => \A r \in Tier1Rules : states[r] = None /\ pending[r] = None

\* docs/17: a duration timer that was running before a maintenance window never
\* promotes an alert after it.
NoPromotionAcrossWindow ==
    [][\A r \in carried : states[r] = None => states'[r] = None]_vars

-----------------------------------------------------------------------------
(* Refinement: pending is the running timers, triggered_at the raise time.  *)

RaisedAt == [r \in Rules |-> IF states[r] = None THEN None ELSE states[r].triggered_at]

AT == INSTANCE AlertTimers
        WITH Times <- 1..MaxTime, since <- pending, raised <- RaisedAt

\* With one request of each kind at a time, the sentinel, the snapshot reads and
\* the write batch of evaluateAlerts together act as one atomic judgement of each
\* sample.
ImplementsAlertTimers == AT!Spec
=============================================================================
