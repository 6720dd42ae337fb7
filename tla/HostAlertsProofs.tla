-------------------------- MODULE HostAlertsProofs --------------------------
(* Theorems about HostAlerts, for any rules, lanes, durations and bounds.   *)
EXTENDS HostAlerts, TLAPS

-----------------------------------------------------------------------------
(* What the operators of the write plan return.                             *)

\* Applying a plan keeps both tables well typed.
LEMMA TablesTyped ==
    ASSUME TypeOK, NEW p \in Lanes,
           results[p] \in Payloads(p), currentStates[p] # None
    PROVE  StatesAfter(p) \in StatesTable /\ PendingAfter(p) \in PendingTable
<1>1. ASSUME NEW r \in ToUpsert(p) PROVE UpsertState(p, r) \in Row
  <2>1. r \in RulesOf(p) /\ results[p][r] \in Values
    BY DEF ToUpsert, Fired, Payloads, Results
  <2>2. r \in Rules
    BY <2>1 DEF RulesOf, Rules
  <2>3. states[r] # None => states[r].triggered_at \in Nat
    BY <2>2 DEF TypeOK, StatesTable, Row
  <2>4. currentStates[p][r] # None => currentStates[p][r].triggered_at \in Nat
    BY <2>2 DEF TypeOK, StatesTable, Row
  <2>5. workerNow[p] \in Nat
    BY DEF TypeOK
  <2> QED BY <2>1, <2>3, <2>4, <2>5 DEF UpsertState, Row
<1>2. StatesAfter(p) \in StatesTable
  BY <1>1 DEF StatesAfter, StatesTable, TypeOK
<1>3. PendingAfter(p) \in PendingTable
  BY DEF PendingAfter, PendingTable, TypeOK
<1> QED BY <1>2, <1>3

\* A table holds a row for no rule exactly when it is NoRows.
LEMMA NoRowsTyped == NoRows \in StatesTable /\ NoRows \in PendingTable
BY DEF NoRows, StatesTable, PendingTable

-----------------------------------------------------------------------------
(* Type correctness.                                                        *)

LEMMA TypeInit == Init => TypeOK
BY HostAlertsAssumption, NoRowsTyped DEF Init, TypeOK

\* The history variables keep their types in every step.
LEMMA HistoryTyped ==
    ASSUME TypeOK, Next, now' \in Nat
    PROVE  statesEmptyAt' \in Nat /\ pendingEmptyAt' \in Nat /\ carried' \subseteq Rules
BY DEF TypeOK, Next

LEMMA TypeNext == TypeOK /\ [Next]_vars => TypeOK'
<1> SUFFICES ASSUME TypeOK, [Next]_vars PROVE TypeOK'
  OBVIOUS
<1>1. CASE UNCHANGED vars
  BY <1>1 DEF TypeOK, vars, lane
<1>2. ASSUME Next, NEW p \in Lanes, LaneStep(p) PROVE TypeOK'
  <2>1. CASE StartIngest(p)
    BY <1>2, <2>1, HistoryTyped
       DEF TypeOK, Tables, StartIngest, Admit, SetLane, Payloads, RulesOf
  <2>2. CASE StartIngestInWindow(p)
    BY <1>2, <2>2, HistoryTyped DEF TypeOK, Tables, StartIngestInWindow, Admit, SetLane
  <2>3. CASE StartTier2(p)
    BY <1>2, <2>3, HistoryTyped
       DEF TypeOK, Tables, StartTier2, Admit, SetLane, Payloads, RulesOf
  <2>4. CASE SentinelHit(p)
    BY <1>2, <2>4, HistoryTyped DEF TypeOK, Tables, SentinelHit, Finish, SetLane
  <2>5. CASE SentinelMiss(p)
    BY <1>2, <2>5, HistoryTyped DEF TypeOK, Tables, SentinelMiss, Goto
  <2>6. CASE ReadStates(p)
    BY <1>2, <2>6, HistoryTyped DEF TypeOK, Tables, ReadStates
  <2>7. CASE ReadPending(p)
    BY <1>2, <2>7, HistoryTyped DEF TypeOK, Tables, ReadPending
  <2>8. CASE NothingToWrite(p)
    BY <1>2, <2>8, HistoryTyped DEF TypeOK, Tables, NothingToWrite, Finish, SetLane
  <2>9. CASE MarkHealthy(p)
    <3>1. sentinel' \in Nat
      BY <2>9, HostAlertsAssumption DEF TypeOK, MarkHealthy
    <3> QED BY <1>2, <2>9, <3>1, HistoryTyped DEF TypeOK, Tables, MarkHealthy, Finish, SetLane
  <2>10. CASE InvalidateHealthy(p)
    BY <1>2, <2>10, HistoryTyped
       DEF TypeOK, Tables, InvalidateHealthy, HasRead, DropSentinel, Goto
  <2>11. CASE CommitBatch(p)
    <3>0. pc[p] = "commit" \/ (pc[p] = "read" /\ currentStates[p] # None)
      BY <2>11 DEF CommitBatch, HasRead
    <3>1. results[p] \in Payloads(p) /\ currentStates[p] # None
      BY <3>0 DEF TypeOK
    <3>2. states' \in StatesTable /\ pending' \in PendingTable
      BY <2>11, <3>1, TablesTyped DEF CommitBatch, TypeOK, Tables
    <3> QED BY <1>2, <2>11, <3>2, HistoryTyped DEF TypeOK, CommitBatch, Finish, SetLane
  <2>12. CASE PurgeInvalidate(p)
    BY <1>2, <2>12, HistoryTyped DEF TypeOK, Tables, PurgeInvalidate, DropSentinel, Goto
  <2>13. CASE PurgePending(p)
    BY <1>2, <2>13, HistoryTyped, NoRowsTyped DEF TypeOK, PurgePending, Finish, SetLane
  <2>14. CASE Die(p)
    BY <1>2, <2>14, HistoryTyped DEF TypeOK, Tables, Die, Finish, SetLane
  <2> QED BY <1>2, <2>1, <2>2, <2>3, <2>4, <2>5, <2>6, <2>7, <2>8, <2>9, <2>10,
             <2>11, <2>12, <2>13, <2>14 DEF LaneStep
<1>3. ASSUME Next, WorldStep PROVE TypeOK'
  <2>1. CASE Tick
    BY <1>3, <2>1, HistoryTyped DEF TypeOK, Tick, Tables, lane
  <2>2. CASE DeleteHost
    BY <1>3, <2>2, HistoryTyped, NoRowsTyped DEF TypeOK, DeleteHost, lane
  <2>3. CASE RegisterHost
    BY <1>3, <2>3, HistoryTyped DEF TypeOK, RegisterHost, Tables, lane
  <2> QED BY <1>3, <2>1, <2>2, <2>3 DEF WorldStep
<1> QED BY <1>1, <1>2, <1>3 DEF Next

\* Every variable of the alert model keeps its type, and a request that reached its
\* write batch holds the snapshot the batch was planned from.
THEOREM TypeCorrect == Spec => []TypeOK
BY TypeInit, TypeNext, PTL DEF Spec

-----------------------------------------------------------------------------
(* Host deletion.                                                           *)

\* A batch that commits for a host without rows and without a hosts row, hence
\* without an INSERT, leaves the tables empty.
LEMMA CommitKeepsEmpty ==
    ASSUME TypeOK, NEW p \in Lanes, host # "present", Empty, ~BatchAborts(p)
    PROVE  StatesAfter(p) = NoRows /\ PendingAfter(p) = NoRows
<1>1. ToUpsert(p) = {} /\ ToStart(p) = {}
  BY DEF BatchAborts
<1> QED BY <1>1 DEF StatesAfter, PendingAfter, Empty, NoRows

LEMMA DeletedNext ==
    TypeOK /\ DeletedHostHasNoAlerts /\ [Next]_vars => DeletedHostHasNoAlerts'
<1> SUFFICES ASSUME TypeOK, DeletedHostHasNoAlerts, [Next]_vars, host' = "deleted"
             PROVE  Empty'
  BY DEF DeletedHostHasNoAlerts
<1>1. CASE UNCHANGED vars
  BY <1>1 DEF DeletedHostHasNoAlerts, vars, Empty, NoRows
<1>2. ASSUME NEW p \in Lanes, LaneStep(p) PROVE Empty'
  <2>1. host = "deleted" /\ Empty
    BY <1>2 DEF LaneStep, StartIngest, StartIngestInWindow, StartTier2, Admit,
       SentinelHit, SentinelMiss, ReadStates, ReadPending, NothingToWrite, MarkHealthy,
       InvalidateHealthy, CommitBatch, PurgeInvalidate, PurgePending, Die,
       DeletedHostHasNoAlerts
  <2>2. CASE CommitBatch(p)
    <3>1. CASE BatchAborts(p)
      BY <2>1, <2>2, <3>1 DEF CommitBatch, Tables, Empty, NoRows
    <3>2. CASE ~BatchAborts(p)
      <4>1. StatesAfter(p) = NoRows /\ PendingAfter(p) = NoRows
        BY <2>1, <3>2, CommitKeepsEmpty
      <4> QED BY <2>2, <3>2, <4>1 DEF CommitBatch, Empty, NoRows
    <3> QED BY <3>1, <3>2
  <2>3. CASE PurgePending(p)
    BY <2>1, <2>3 DEF PurgePending, Empty, NoRows
  <2>4. CASE UNCHANGED Tables
    BY <2>1, <2>4 DEF Tables, Empty, NoRows
  <2> QED BY <1>2, <2>2, <2>3, <2>4 DEF LaneStep, StartIngest, StartIngestInWindow,
       StartTier2, Admit, SentinelHit, SentinelMiss, ReadStates, ReadPending,
       NothingToWrite, MarkHealthy, InvalidateHealthy, PurgeInvalidate, Die, Tables
<1>3. ASSUME WorldStep PROVE Empty'
  <2>1. CASE Tick
    BY <2>1 DEF Tick, Tables, Empty, NoRows, DeletedHostHasNoAlerts
  <2>2. CASE DeleteHost
    BY <2>2 DEF DeleteHost, Empty, NoRows
  <2>3. CASE RegisterHost
    BY <2>3 DEF RegisterHost
  <2> QED BY <1>3, <2>1, <2>2, <2>3 DEF WorldStep
<1> QED BY <1>1, <1>2, <1>3 DEF Next

\* No interleaving of requests with the deletion of the host leaves, or later
\* writes, an alert row of a deleted host.
THEOREM DeletedHostSafe == Spec => []DeletedHostHasNoAlerts
<1>1. Init => DeletedHostHasNoAlerts
  BY DEF Init, DeletedHostHasNoAlerts
<1> QED BY <1>1, TypeCorrect, DeletedNext, PTL DEF Spec

-----------------------------------------------------------------------------
(* triggered_at.                                                            *)

\* A live row keeps its first trigger time in every step, whichever snapshots
\* the interleaved requests planned from.
THEOREM TriggeredAtKept == Spec => TriggeredAtPreserved
<1> DEFINE Kept == \A r \in Rules : states[r] # None /\ states'[r] # None
                      => states'[r].triggered_at = states[r].triggered_at
<1>1. TypeOK /\ [Next]_vars => [Kept]_vars
  <2> SUFFICES ASSUME TypeOK, Next PROVE Kept
    OBVIOUS
  <2>1. ASSUME NEW p \in Lanes, LaneStep(p) PROVE Kept
    <3>1. CASE CommitBatch(p) /\ ~BatchAborts(p)
      BY <3>1 DEF CommitBatch, StatesAfter, UpsertState
    <3>2. CASE states' = states
      BY <3>2
    <3> QED BY <2>1, <3>1, <3>2 DEF LaneStep, StartIngest, StartIngestInWindow,
         StartTier2, Admit, SentinelHit, SentinelMiss, ReadStates, ReadPending,
         NothingToWrite, MarkHealthy, InvalidateHealthy, CommitBatch, PurgeInvalidate,
         PurgePending, Die, Tables
  <2>2. CASE WorldStep
    BY <2>2 DEF WorldStep, Tick, DeleteHost, RegisterHost, Tables, NoRows
  <2> QED BY <2>1, <2>2 DEF Next
<1> QED BY <1>1, TypeCorrect, PTL DEF Spec, TriggeredAtPreserved

-----------------------------------------------------------------------------
(***************************************************************************)
(* The life of a stale sentinel.  The bound is not inductive: MarkHealthy  *)
(* puts the key at a time when the tables may long be non-empty.  What     *)
(* carries it is that a lane still alive started at most MaxLatency ago,   *)
(* and that a table it read as empty was empty at or after its start.      *)
(***************************************************************************)
LanesYoung ==
    \A p \in Lanes : pc[p] # "idle" => workerNow[p] <= now /\ now <= workerNow[p] + MaxLatency

SeenEmpty ==
    \A p \in Lanes : /\ currentStates[p] = NoRows => workerNow[p] <= statesEmptyAt
                     /\ currentPending[p] = NoRows => workerNow[p] <= pendingEmptyAt

HistoryTrue ==
    /\ statesEmptyAt <= now /\ (states = NoRows => statesEmptyAt = now)
    /\ pendingEmptyAt <= now /\ (pending = NoRows => pendingEmptyAt = now)

StalenessInv == TypeOK /\ LanesYoung /\ SeenEmpty /\ HistoryTrue /\ StaleSentinelBounded

LEMMA NoneIsNoTable == None # NoRows
BY HostAlertsAssumption, NoRowsTyped DEF PendingTable

LEMMA StalenessInit == Init => StalenessInv
BY TypeInit, NoneIsNoTable, HostAlertsAssumption
   DEF Init, StalenessInv, LanesYoung, SeenEmpty, HistoryTrue, StaleSentinelBounded

\* Time does not run backwards, so neither do the history instants.
LEMMA HistoryNext ==
    ASSUME TypeOK, HistoryTrue, Next
    PROVE  /\ now' \in Nat /\ now <= now'
           /\ HistoryTrue'
           /\ statesEmptyAt <= statesEmptyAt' /\ pendingEmptyAt <= pendingEmptyAt'
<1>1. now' = now \/ now' = now + 1
  BY DEF Next, WorldStep, Tick, DeleteHost, RegisterHost, LaneStep, StartIngest,
     StartIngestInWindow, StartTier2, Admit, SentinelHit, SentinelMiss, ReadStates,
     ReadPending, NothingToWrite, MarkHealthy, InvalidateHealthy, CommitBatch,
     PurgeInvalidate, PurgePending, Die
<1>2. NoRows' = NoRows
  BY DEF NoRows
<1> QED BY <1>1, <1>2 DEF Next, TypeOK, HistoryTrue

\* A step that only finishes a lane cannot hurt the facts about lanes.
LEMMA FinishKeepsLanes ==
    ASSUME StalenessInv, Next, NEW p \in Lanes, Finish(p), now' = now
    PROVE  LanesYoung' /\ SeenEmpty'
<1>1. \A q \in Lanes : q # p => /\ pc'[q] = pc[q] /\ workerNow'[q] = workerNow[q]
                               /\ currentStates'[q] = currentStates[q]
                               /\ currentPending'[q] = currentPending[q]
  BY DEF Finish, SetLane, StalenessInv, TypeOK
<1>2. pc'[p] = "idle" /\ currentStates'[p] = None /\ currentPending'[p] = None
  BY DEF Finish, SetLane, StalenessInv, TypeOK
<1>3. NoRows' = NoRows
  BY DEF NoRows
<1>4. statesEmptyAt <= statesEmptyAt' /\ pendingEmptyAt <= pendingEmptyAt'
  BY HistoryNext DEF StalenessInv
<1>5. statesEmptyAt' \in Nat /\ pendingEmptyAt' \in Nat
  BY HistoryTyped DEF StalenessInv, TypeOK
<1>6. LanesYoung'
  BY <1>1, <1>2 DEF LanesYoung, StalenessInv
<1>7. SeenEmpty'
  BY <1>1, <1>2, <1>3, <1>4, <1>5, NoneIsNoTable DEF SeenEmpty, StalenessInv, TypeOK
<1> QED BY <1>6, <1>7

\* Neither can a step that starts a lane at the present instant.
LEMMA StartKeepsLanes ==
    ASSUME StalenessInv, Next, NEW p \in Lanes, NEW label, NEW res,
           SetLane(p, label, now, res), now' = now
    PROVE  LanesYoung' /\ SeenEmpty'
<1>1. \A q \in Lanes : q # p => /\ pc'[q] = pc[q] /\ workerNow'[q] = workerNow[q]
                               /\ currentStates'[q] = currentStates[q]
                               /\ currentPending'[q] = currentPending[q]
  BY DEF SetLane, StalenessInv, TypeOK
<1>2. workerNow'[p] = now /\ currentStates'[p] = None /\ currentPending'[p] = None
  BY DEF SetLane, StalenessInv, TypeOK
<1>3. NoRows' = NoRows
  BY DEF NoRows
<1>4. statesEmptyAt <= statesEmptyAt' /\ pendingEmptyAt <= pendingEmptyAt'
  BY HistoryNext DEF StalenessInv
<1>5. statesEmptyAt' \in Nat /\ pendingEmptyAt' \in Nat
  BY HistoryTyped DEF StalenessInv, TypeOK
<1>6. LanesYoung'
  BY <1>1, <1>2, HostAlertsAssumption DEF LanesYoung, StalenessInv, TypeOK
<1>7. SeenEmpty'
  BY <1>1, <1>2, <1>3, <1>4, <1>5, NoneIsNoTable DEF SeenEmpty, StalenessInv, TypeOK
<1> QED BY <1>6, <1>7

LEMMA BoundMoves ==
    ASSUME NEW s \in Nat, NEW s2 \in Nat, NEW e \in Nat, NEW e2 \in Nat,
           NEW ttl \in Nat, NEW lat \in Nat,
           s2 <= s, e <= e2, s <= e + ttl + lat
    PROVE  s2 <= e2 + ttl + lat
OBVIOUS

LEMMA BoundStarts ==
    ASSUME NEW n \in Nat, NEW w \in Nat, NEW e \in Nat, NEW e2 \in Nat,
           NEW ttl \in Nat, NEW lat \in Nat,
           n <= w + lat, w <= e, e <= e2
    PROVE  n + ttl <= e2 + ttl + lat
OBVIOUS

LEMMA StalenessNext == StalenessInv /\ [Next]_vars => StalenessInv'
<1> SUFFICES ASSUME StalenessInv, [Next]_vars PROVE StalenessInv'
  OBVIOUS
<1>0. TypeOK'
  BY TypeNext DEF StalenessInv
<1>1. CASE UNCHANGED vars
  BY <1>0, <1>1 DEF StalenessInv, vars, lane, LanesYoung, SeenEmpty, HistoryTrue,
     StaleSentinelBounded, NoRows
<1>2. ASSUME Next PROVE StalenessInv'
  <2>1. HistoryTrue' /\ statesEmptyAt <= statesEmptyAt' /\ pendingEmptyAt <= pendingEmptyAt'
    BY <1>2, HistoryNext DEF StalenessInv
  <2>n. /\ sentinel \in Nat /\ sentinel' \in Nat /\ now \in Nat
        /\ statesEmptyAt \in Nat /\ statesEmptyAt' \in Nat
        /\ pendingEmptyAt \in Nat /\ pendingEmptyAt' \in Nat
        /\ SentinelTTL \in Nat /\ MaxLatency \in Nat
    BY <1>0, HostAlertsAssumption DEF StalenessInv, TypeOK
  <2>2. sentinel' <= sentinel => StaleSentinelBounded'
    BY <2>1, <2>n, BoundMoves DEF StalenessInv, StaleSentinelBounded
  <2>3. NoRows' = NoRows
    BY DEF NoRows
  <2>4. ASSUME NEW p \in Lanes, LaneStep(p) PROVE StalenessInv'
    <3>1. CASE StartIngest(p)
      <4>1. LanesYoung' /\ SeenEmpty'
        BY <1>2, <3>1, StartKeepsLanes DEF StartIngest, Admit
      <4> QED BY <1>0, <2>1, <2>2, <3>1, <4>1 DEF StalenessInv, StartIngest, Admit, TypeOK
    <3>2. CASE StartIngestInWindow(p)
      <4>1. LanesYoung' /\ SeenEmpty'
        BY <1>2, <3>2, StartKeepsLanes DEF StartIngestInWindow, Admit
      <4> QED BY <1>0, <2>1, <2>2, <3>2, <4>1
              DEF StalenessInv, StartIngestInWindow, Admit, TypeOK
    <3>3. CASE StartTier2(p)
      <4>1. LanesYoung' /\ SeenEmpty'
        BY <1>2, <3>3, StartKeepsLanes DEF StartTier2, Admit
      <4> QED BY <1>0, <2>1, <2>2, <3>3, <4>1 DEF StalenessInv, StartTier2, Admit, TypeOK
    <3>4. CASE SentinelHit(p) \/ NothingToWrite(p) \/ CommitBatch(p) \/ PurgePending(p) \/ Die(p)
      <4>1. Finish(p) /\ now' = now /\ sentinel' = sentinel
        BY <3>4 DEF SentinelHit, NothingToWrite, CommitBatch, PurgePending, Die
      <4>2. LanesYoung' /\ SeenEmpty'
        BY <1>2, <4>1, FinishKeepsLanes
      <4> QED BY <1>0, <2>1, <2>2, <4>1, <4>2 DEF StalenessInv, TypeOK
    <3>5. CASE SentinelMiss(p) \/ InvalidateHealthy(p) \/ PurgeInvalidate(p)
      <4>1. PICK label : Goto(p, label)
        BY <3>5 DEF SentinelMiss, InvalidateHealthy, PurgeInvalidate
      <4>2. now' = now /\ sentinel' <= sentinel /\ pc[p] # "idle"
        BY <3>5 DEF SentinelMiss, InvalidateHealthy, PurgeInvalidate, DropSentinel, HasRead,
           StalenessInv, TypeOK
      <4>3. \A q \in Lanes : pc'[q] # "idle" => pc[q] # "idle"
        BY <4>1, <4>2 DEF Goto, StalenessInv, TypeOK
      <4>4. LanesYoung'
        BY <4>1, <4>2, <4>3 DEF LanesYoung, Goto, StalenessInv
      <4>5. SeenEmpty'
        BY <1>0, <2>1, <2>3, <4>1 DEF SeenEmpty, Goto, StalenessInv, TypeOK
      <4> QED BY <1>0, <2>1, <2>2, <4>2, <4>4, <4>5 DEF StalenessInv
    <3>6. CASE ReadStates(p)
      <4>1. LanesYoung'
        BY <3>6 DEF LanesYoung, ReadStates, StalenessInv
      <4>2. currentStates'[p] = NoRows => workerNow[p] <= statesEmptyAt'
        BY <2>1, <1>0, <3>6
           DEF ReadStates, StalenessInv, HistoryTrue, LanesYoung, TypeOK
      <4>3. SeenEmpty'
        BY <1>0, <2>1, <2>3, <3>6, <4>2 DEF SeenEmpty, ReadStates, StalenessInv, TypeOK
      <4> QED BY <1>0, <2>1, <2>2, <3>6, <4>1, <4>3 DEF StalenessInv, ReadStates, TypeOK
    <3>7. CASE ReadPending(p)
      <4>1. LanesYoung'
        BY <3>7 DEF LanesYoung, ReadPending, StalenessInv
      <4>2. currentPending'[p] = NoRows => workerNow[p] <= pendingEmptyAt'
        BY <2>1, <1>0, <3>7
           DEF ReadPending, StalenessInv, HistoryTrue, LanesYoung, TypeOK
      <4>3. SeenEmpty'
        BY <1>0, <2>1, <2>3, <3>7, <4>2 DEF SeenEmpty, ReadPending, StalenessInv, TypeOK
      <4> QED BY <1>0, <2>1, <2>2, <3>7, <4>1, <4>3 DEF StalenessInv, ReadPending, TypeOK
    <3>8. CASE MarkHealthy(p)
      <4>1. LanesYoung' /\ SeenEmpty'
        BY <1>2, <3>8, FinishKeepsLanes DEF MarkHealthy
      <4>2. now <= workerNow[p] + MaxLatency
            /\ workerNow[p] <= statesEmptyAt /\ workerNow[p] <= pendingEmptyAt
        BY <3>8 DEF MarkHealthy, HasRead, ObservedHealthy, StalenessInv, LanesYoung, SeenEmpty
      <4>3. StaleSentinelBounded'
        <5>1. CASE sentinel' = sentinel
          BY <2>2, <5>1 DEF StalenessInv, TypeOK
        <5>2. CASE sentinel' = now + SentinelTTL
          <6>1. workerNow[p] \in Nat
            BY DEF StalenessInv, TypeOK
          <6> QED BY <2>1, <2>n, <4>2, <5>2, <6>1, BoundStarts DEF StaleSentinelBounded
        <5> QED BY <3>8, <5>1, <5>2 DEF MarkHealthy
      <4> QED BY <1>0, <2>1, <4>1, <4>3 DEF StalenessInv
    <3> QED BY <2>4, <3>1, <3>2, <3>3, <3>4, <3>5, <3>6, <3>7, <3>8 DEF LaneStep
  <2>5. CASE WorldStep
    <3>1. UNCHANGED <<sentinel, lane>>
      BY <2>5 DEF WorldStep, Tick, DeleteHost, RegisterHost
    <3>2. now' = now \/ Tick
      BY <2>5 DEF WorldStep, DeleteHost, RegisterHost
    <3>3. LanesYoung'
      BY <3>1, <3>2, HostAlertsAssumption DEF LanesYoung, lane, Tick, StalenessInv, TypeOK
    <3>4. SeenEmpty'
      BY <1>0, <2>1, <2>3, <3>1 DEF SeenEmpty, lane, StalenessInv, TypeOK
    <3> QED BY <1>0, <2>1, <2>2, <3>1, <3>3, <3>4 DEF StalenessInv, TypeOK
  <2> QED BY <1>2, <2>4, <2>5 DEF Next
<1> QED BY <1>1, <1>2

\* However requests race and whichever KV calls fail, a sentinel never outlives by
\* more than TTL plus one request's latency the last instant each table was empty.
THEOREM StalenessBounded == Spec => []StaleSentinelBounded
<1>1. StalenessInv => StaleSentinelBounded
  BY DEF StalenessInv
<1> QED BY <1>1, StalenessInit, StalenessNext, PTL DEF Spec

-----------------------------------------------------------------------------
(***************************************************************************)
(* One request of each kind at a time.  A probe posts its samples one by   *)
(* one, so this is the regime the sentinel is designed for: invalidation   *)
(* works, and the host is not deleted and registered again under a request.*)
(***************************************************************************)
Serial ==
    /\ \A p, q \in Tier1Lanes : p = q
    /\ \A p, q \in Tier2Lanes : p = q
    /\ "delete" \notin KVFaults
    /\ ~Reregistration

\* What a lane has read of its own rules is still what the tables hold.
SnapshotFresh ==
    \A p \in Lanes : \A r \in RulesOf(p) :
       /\ currentStates[p] # None => currentStates[p][r] = states[r]
       /\ currentPending[p] # None => currentPending[p][r] = pending[r]

\* Only duration rules have timers.
OnlyDurationTimers == \A r \in Rules : Duration[r] = 0 => pending[r] = None

\* Between invalidation and commit there is no live sentinel.
CommitUnmarked == \A p \in Tier1Lanes : pc[p] = "commit" => sentinel <= now

\* Only tier-1 lanes purge timers.
PurgeIsTier1 ==
    \A p \in Lanes : pc[p] \in {"purge_invalidate", "purge"} => p \in Tier1Lanes

ClockBounded ==
    /\ now \in 1..MaxTime
    /\ \A p \in Lanes : pc[p] # "idle" => workerNow[p] \in 1..MaxTime

SerialInv ==
    /\ TypeOK
    /\ DeletedHostHasNoAlerts
    /\ host # "registered"
    /\ host = "present" => SnapshotFresh
    /\ OnlyDurationTimers
    /\ CommitUnmarked
    /\ PurgeIsTier1
    /\ ClockBounded
    /\ SentinelSound

LEMMA SerialInit == Init => SerialInv
BY TypeInit, HostAlertsAssumption
   DEF Init, SerialInv, DeletedHostHasNoAlerts, SnapshotFresh, OnlyDurationTimers,
       CommitUnmarked, PurgeIsTier1, ClockBounded, SentinelSound, NoRows

\* Lanes of the two kinds are told apart, and each kind has its rules.
LEMMA LaneKinds ==
    /\ \A p \in Tier1Lanes : p \in Lanes /\ RulesOf(p) = Tier1Rules /\ p \notin Tier2Lanes
    /\ \A p \in Tier2Lanes : p \in Lanes /\ RulesOf(p) = Tier2Rules /\ p \notin Tier1Lanes
    /\ \A p \in Lanes : p \in Tier1Lanes \/ p \in Tier2Lanes
    /\ Tier1Rules \subseteq Rules /\ Tier2Rules \subseteq Rules
BY HostAlertsAssumption DEF Lanes, Rules, RulesOf

\* In the serial regime two different lanes have no rule in common.
LEMMA LanesDisjoint ==
    ASSUME Serial, NEW p \in Lanes, NEW q \in Lanes, p # q
    PROVE  RulesOf(p) \cap RulesOf(q) = {}
BY LaneKinds, HostAlertsAssumption DEF Serial

\* A batch writes only rows of the lane's own rules.
LEMMA CommitOwnRules ==
    ASSUME NEW p \in Lanes, NEW r \in Rules, r \notin RulesOf(p)
    PROVE  StatesAfter(p)[r] = states[r] /\ PendingAfter(p)[r] = pending[r]
BY DEF StatesAfter, PendingAfter, ToUpsert, ToStart, ToClear, ToDrop

\* And only duration rules get a timer.
LEMMA CommitTimers ==
    ASSUME OnlyDurationTimers, NEW p \in Lanes, NEW r \in Rules, Duration[r] = 0
    PROVE  PendingAfter(p)[r] = None
BY DEF PendingAfter, OnlyDurationTimers, ToStart

\* The time-related parts of the invariant.
LEMMA ClockNext ==
    ASSUME SerialInv, Next, TypeOK'
    PROVE  ClockBounded'
<1>1. ASSUME NEW p \in Lanes, LaneStep(p) PROVE ClockBounded'
  <2>1. now' = now
    BY <1>1 DEF LaneStep, StartIngest, StartIngestInWindow, StartTier2, Admit, SentinelHit,
       SentinelMiss, ReadStates, ReadPending, NothingToWrite, MarkHealthy, InvalidateHealthy,
       CommitBatch, PurgeInvalidate, PurgePending, Die
  <2>2. \/ Finish(p)
        \/ \E label, res : SetLane(p, label, now, res)
        \/ pc[p] # "idle" /\ \E label : Goto(p, label)
        \/ UNCHANGED <<pc, workerNow>>
    BY <1>1 DEF LaneStep, StartIngest, StartIngestInWindow, StartTier2, SentinelHit,
       SentinelMiss, ReadStates, ReadPending, NothingToWrite, MarkHealthy, InvalidateHealthy,
       CommitBatch, PurgeInvalidate, PurgePending, Die, HasRead
  <2>3. CASE Finish(p)
    BY <2>1, <2>3 DEF Finish, SetLane, ClockBounded, SerialInv, TypeOK
  <2>4. CASE \E label, res : SetLane(p, label, now, res)
    BY <2>1, <2>4 DEF SetLane, ClockBounded, SerialInv, TypeOK
  <2>5. CASE pc[p] # "idle" /\ \E label : Goto(p, label)
    BY <2>1, <2>5 DEF Goto, ClockBounded, SerialInv, TypeOK
  <2>6. CASE UNCHANGED <<pc, workerNow>>
    BY <2>1, <2>6 DEF ClockBounded, SerialInv
  <2> QED BY <2>2, <2>3, <2>4, <2>5, <2>6
<1>2. CASE WorldStep
  BY <1>2, HostAlertsAssumption
     DEF WorldStep, Tick, DeleteHost, RegisterHost, ClockBounded, SerialInv, lane
<1> QED BY <1>1, <1>2 DEF Next

LEMMA PurgeNext ==
    ASSUME SerialInv, Next
    PROVE  PurgeIsTier1'
<1>1. ASSUME NEW p \in Lanes, LaneStep(p) PROVE PurgeIsTier1'
  <2>1. \A q \in Lanes : q # p => pc'[q] = pc[q]
    BY <1>1 DEF LaneStep, StartIngest, StartIngestInWindow, StartTier2, SentinelHit,
       SentinelMiss, ReadStates, ReadPending, NothingToWrite, MarkHealthy, InvalidateHealthy,
       CommitBatch, PurgeInvalidate, PurgePending, Die, Finish, SetLane, Goto, SerialInv, TypeOK
  <2>2. \/ StartIngestInWindow(p)
        \/ PurgeInvalidate(p)
        \/ pc'[p] \in {"idle", "sentinel", "read", "commit"}
        \/ pc' = pc
    BY <1>1 DEF LaneStep, StartIngest, StartTier2, SentinelHit,
       SentinelMiss, ReadStates, ReadPending, NothingToWrite, MarkHealthy, InvalidateHealthy,
       CommitBatch, PurgePending, Die, Finish, SetLane, Goto, SerialInv, TypeOK
  <2> QED BY <2>1, <2>2 DEF PurgeIsTier1, StartIngestInWindow, PurgeInvalidate, SerialInv
<1>2. CASE WorldStep
  BY <1>2 DEF WorldStep, Tick, DeleteHost, RegisterHost, PurgeIsTier1, SerialInv, lane
<1> QED BY <1>1, <1>2 DEF Next

LEMMA SerialNext ==
    ASSUME Serial PROVE SerialInv /\ [Next]_vars => SerialInv'
<1> SUFFICES ASSUME SerialInv, [Next]_vars PROVE SerialInv'
  OBVIOUS
<1>0. TypeOK' /\ DeletedHostHasNoAlerts'
  BY TypeNext, DeletedNext DEF SerialInv
<1>1. CASE UNCHANGED vars
  BY <1>0, <1>1 DEF SerialInv, vars, lane, SnapshotFresh, OnlyDurationTimers,
     CommitUnmarked, PurgeIsTier1, ClockBounded, SentinelSound
<1>2. ASSUME Next PROVE SerialInv'
  <2>0. ClockBounded' /\ PurgeIsTier1'
    BY <1>0, <1>2, ClockNext, PurgeNext
  <2>1. ASSUME NEW p \in Lanes, LaneStep(p), UNCHANGED Tables, now' = now, host' = host,
               sentinel' <= sentinel, pc'[p] # "commit" \/ sentinel' <= now,
               \A q \in Lanes : q # p => pc'[q] = pc[q],
               SnapshotFresh => SnapshotFresh'
        PROVE  SerialInv'
    <3>1. sentinel \in Nat /\ sentinel' \in Nat /\ now \in Nat
      BY <1>0 DEF SerialInv, TypeOK
    <3>2. CommitUnmarked'
      BY <2>1, <3>1, LaneKinds DEF CommitUnmarked, SerialInv
    <3>3. SentinelSound'
      BY <2>1, <3>1 DEF SentinelSound, SerialInv, Tables
    <3>4. OnlyDurationTimers'
      BY <2>1 DEF OnlyDurationTimers, SerialInv, Tables
    <3> QED BY <1>0, <2>0, <2>1, <3>2, <3>3, <3>4 DEF SerialInv
  <2>2. ASSUME NEW p \in Lanes, Finish(p) PROVE
             /\ \A q \in Lanes : q # p => /\ pc'[q] = pc[q]
                                         /\ currentStates'[q] = currentStates[q]
                                         /\ currentPending'[q] = currentPending[q]
             /\ pc'[p] = "idle" /\ currentStates'[p] = None /\ currentPending'[p] = None
    BY <2>2 DEF Finish, SetLane, SerialInv, TypeOK
  <2>3. ASSUME NEW p \in Lanes, LaneStep(p) PROVE SerialInv'
    <3>n. sentinel \in Nat /\ sentinel' \in Nat /\ now \in Nat
      BY <1>0 DEF SerialInv, TypeOK
    <3>1. CASE StartIngest(p) \/ StartIngestInWindow(p) \/ StartTier2(p)
      <4>1. PICK label, res : SetLane(p, label, now, res) /\ label # "commit"
        BY <3>1 DEF StartIngest, StartIngestInWindow, StartTier2
      <4>2. Admit(p)
        BY <3>1 DEF StartIngest, StartIngestInWindow, StartTier2
      <4>3. host = "present"
        BY <4>2 DEF Admit, SerialInv, TypeOK
      <4>4. UNCHANGED Tables /\ now' = now /\ host' = host /\ sentinel' = sentinel
        BY <4>2, <4>3 DEF Admit
      <4>5. /\ \A q \in Lanes : q # p => /\ pc'[q] = pc[q]
                                         /\ currentStates'[q] = currentStates[q]
                                         /\ currentPending'[q] = currentPending[q]
            /\ pc'[p] # "commit" /\ currentStates'[p] = None /\ currentPending'[p] = None
        BY <4>1 DEF SetLane, SerialInv, TypeOK
      <4>6. SnapshotFresh => SnapshotFresh'
        BY <4>4, <4>5 DEF SnapshotFresh, Tables
      <4> QED BY <2>1, <2>3, <3>n, <4>4, <4>5, <4>6
    <3>2. CASE SentinelHit(p) \/ NothingToWrite(p) \/ Die(p)
      <4>1. UNCHANGED Tables /\ now' = now /\ host' = host /\ sentinel' = sentinel /\ Finish(p)
        BY <3>2 DEF SentinelHit, NothingToWrite, Die, Tables
      <4>2. SnapshotFresh => SnapshotFresh'
        BY <2>2, <4>1 DEF SnapshotFresh, Tables
      <4> QED BY <2>1, <2>2, <2>3, <3>n, <4>1, <4>2
    <3>3. CASE SentinelMiss(p) \/ InvalidateHealthy(p) \/ PurgeInvalidate(p)
      <4>1. PICK label : Goto(p, label) /\ (label = "commit" => InvalidateHealthy(p))
        BY <3>3 DEF SentinelMiss, InvalidateHealthy, PurgeInvalidate
      <4>2. UNCHANGED Tables /\ now' = now /\ host' = host
        BY <3>3 DEF SentinelMiss, InvalidateHealthy, PurgeInvalidate, Tables
      <4>3. sentinel' <= sentinel /\ (label = "commit" => sentinel' <= now)
        BY <3>3, <4>1, <3>n DEF SentinelMiss, InvalidateHealthy, PurgeInvalidate,
           DropSentinel, Serial
      <4>4. (\A q \in Lanes : q # p => pc'[q] = pc[q]) /\ pc'[p] = label
        BY <4>1 DEF Goto, SerialInv, TypeOK
      <4>5. SnapshotFresh => SnapshotFresh'
        BY <4>1, <4>2 DEF SnapshotFresh, Tables, Goto
      <4> QED BY <2>1, <2>3, <4>2, <4>3, <4>4, <4>5
    <3>4. CASE ReadStates(p) \/ ReadPending(p)
      <4>1. UNCHANGED Tables /\ now' = now /\ host' = host /\ sentinel' = sentinel
            /\ pc' = pc /\ pc[p] = "read"
        BY <3>4 DEF ReadStates, ReadPending, Tables
      <4>2. SnapshotFresh => SnapshotFresh'
        BY <3>4, <4>1 DEF SnapshotFresh, Tables, ReadStates, ReadPending, SerialInv, TypeOK
      <4> QED BY <2>1, <2>3, <3>n, <4>1, <4>2
    <3>5. CASE MarkHealthy(p)
      <4>1. UNCHANGED Tables /\ now' = now /\ host' = host /\ Finish(p) /\ p \in Tier1Lanes
        BY <3>5 DEF MarkHealthy, ObservedHealthy, Tables
      <4>2. \A r \in Tier1Rules : states[r] = None /\ pending[r] = None
        <5>1. CASE host = "present"
          <6>1. \A r \in Tier1Rules : /\ currentStates[p][r] = states[r]
                                      /\ currentPending[p][r] = pending[r]
            BY <3>5, <4>1, <5>1, LaneKinds DEF SerialInv, SnapshotFresh, MarkHealthy, HasRead
          <6>2. \A r \in Tier1Rules : currentStates[p][r] = None /\ currentPending[p][r] = None
            BY <3>5, LaneKinds DEF MarkHealthy, ObservedHealthy, NoRows
          <6> QED BY <6>1, <6>2
        <5>2. CASE host = "deleted"
          BY <5>2, LaneKinds DEF SerialInv, DeletedHostHasNoAlerts, Empty, NoRows
        <5> QED BY <5>1, <5>2 DEF SerialInv, TypeOK
      <4>3. SentinelSound'
        BY <4>1, <4>2 DEF SentinelSound, Tables
      <4>4. CommitUnmarked'
        BY <2>2, <4>1, LaneKinds DEF CommitUnmarked, Serial
      <4>5. SnapshotFresh => SnapshotFresh'
        BY <2>2, <4>1 DEF SnapshotFresh, Tables
      <4>6. OnlyDurationTimers'
        BY <4>1 DEF OnlyDurationTimers, SerialInv, Tables
      <4> QED BY <1>0, <2>0, <4>1, <4>3, <4>4, <4>5, <4>6 DEF SerialInv
    <3>6. CASE CommitBatch(p)
      <4>1. now' = now /\ host' = host /\ sentinel' = sentinel /\ Finish(p)
        BY <3>6 DEF CommitBatch
      <4>2. CASE UNCHANGED Tables
        <5>1. SnapshotFresh => SnapshotFresh'
          BY <2>2, <4>1, <4>2 DEF SnapshotFresh, Tables
        <5> QED BY <2>1, <2>2, <2>3, <3>n, <4>1, <4>2, <5>1
      <4>3. CASE states' = StatesAfter(p) /\ pending' = PendingAfter(p)
        <5>1. \A r \in Rules \ RulesOf(p) : states'[r] = states[r] /\ pending'[r] = pending[r]
          BY <4>3, CommitOwnRules
        <5>2. OnlyDurationTimers'
          BY <4>3, CommitTimers DEF OnlyDurationTimers, SerialInv
        <5>3. SnapshotFresh => SnapshotFresh'
          <6> SUFFICES ASSUME SnapshotFresh, NEW q \in Lanes, NEW r \in RulesOf(q)
                       PROVE  /\ currentStates'[q] # None => currentStates'[q][r] = states'[r]
                              /\ currentPending'[q] # None => currentPending'[q][r] = pending'[r]
            BY DEF SnapshotFresh, RulesOf
          <6>1. CASE q = p
            BY <2>2, <4>1, <6>1
          <6>2. CASE q # p
            <7>1. r \in Rules \ RulesOf(p)
              BY <6>2, LanesDisjoint, LaneKinds
            <7> QED BY <2>2, <4>1, <5>1, <6>2, <7>1 DEF SnapshotFresh
          <6> QED BY <6>1, <6>2
        <5>4. SentinelSound'
          <6>1. CASE p \in Tier1Lanes
            <7>1. sentinel <= now
              BY <3>6, <6>1, LaneKinds DEF CommitBatch, SerialInv, CommitUnmarked
            <7> QED BY <4>1, <7>1, <3>n DEF SentinelSound
          <6>2. CASE p \in Tier2Lanes
            <7>1. \A r \in Tier1Rules : r \in Rules \ RulesOf(p)
              BY <6>2, LaneKinds, HostAlertsAssumption
            <7> QED BY <4>1, <5>1, <7>1 DEF SentinelSound, SerialInv
          <6> QED BY <6>1, <6>2, LaneKinds
        <5>5. CommitUnmarked'
          BY <2>2, <4>1, LaneKinds DEF CommitUnmarked, SerialInv
        <5> QED BY <1>0, <2>0, <4>1, <5>2, <5>3, <5>4, <5>5 DEF SerialInv
      <4> QED BY <3>6, <4>2, <4>3 DEF CommitBatch
    <3>7. CASE PurgePending(p)
      <4>1. now' = now /\ host' = host /\ sentinel' = sentinel /\ Finish(p)
            /\ states' = states /\ pending' = NoRows
        BY <3>7 DEF PurgePending
      <4>2. p \in Tier1Lanes
        BY <3>7 DEF PurgePending, PurgeIsTier1, SerialInv
      <4>3. \A r \in Rules : pending'[r] = None
        BY <4>1 DEF NoRows
      <4>4. SnapshotFresh => SnapshotFresh'
        <5> SUFFICES ASSUME SnapshotFresh, NEW q \in Lanes, NEW r \in RulesOf(q)
                     PROVE  /\ currentStates'[q] # None => currentStates'[q][r] = states'[r]
                            /\ currentPending'[q] # None => currentPending'[q][r] = pending'[r]
          BY DEF SnapshotFresh, RulesOf
        <5>1. CASE q = p
          BY <2>2, <4>1, <5>1
        <5>2. CASE q # p
          <6>1. q \in Tier2Lanes /\ r \in Rules /\ Duration[r] = 0
            BY <4>2, <5>2, LaneKinds, HostAlertsAssumption DEF Serial
          <6>2. pending[r] = None /\ pending'[r] = None
            BY <4>3, <6>1 DEF SerialInv, OnlyDurationTimers
          <6> QED BY <2>2, <4>1, <5>2, <6>2 DEF SnapshotFresh
        <5> QED BY <5>1, <5>2
      <4>5. OnlyDurationTimers'
        BY <4>3 DEF OnlyDurationTimers
      <4>6. SentinelSound'
        BY <4>1, <4>3, LaneKinds DEF SentinelSound, SerialInv
      <4>7. CommitUnmarked'
        BY <2>2, <4>1, LaneKinds DEF CommitUnmarked, SerialInv
      <4> QED BY <1>0, <2>0, <4>1, <4>4, <4>5, <4>6, <4>7 DEF SerialInv
    <3> QED BY <2>3, <3>1, <3>2, <3>3, <3>4, <3>5, <3>6, <3>7 DEF LaneStep
  <2>4. CASE WorldStep
    <3>n. sentinel \in Nat /\ now \in Nat
      BY DEF SerialInv, TypeOK
    <3>1. CASE Tick
      <4>1. UNCHANGED <<states, pending, sentinel, host, lane>> /\ now' = now + 1
        BY <3>1 DEF Tick, Tables
      <4> QED BY <1>0, <2>0, <3>n, <4>1 DEF lane, SerialInv, SnapshotFresh, OnlyDurationTimers,
              CommitUnmarked, SentinelSound
    <3>2. CASE DeleteHost
      <4>1. host' = "deleted" /\ UNCHANGED <<sentinel, lane, now>>
            /\ \A r \in Rules : states'[r] = None /\ pending'[r] = None
        BY <3>2 DEF DeleteHost, NoRows
      <4> QED BY <1>0, <2>0, <3>n, <4>1, LaneKinds
              DEF lane, SerialInv, OnlyDurationTimers, CommitUnmarked, SentinelSound
    <3>3. CASE RegisterHost
      BY <3>3 DEF RegisterHost, Serial
    <3> QED BY <2>4, <3>1, <3>2, <3>3 DEF WorldStep
  <2> QED BY <1>2, <2>3, <2>4 DEF Next
<1> QED BY <1>1, <1>2

\* In the serial regime a live sentinel attests that no tier-1 rule has a row, so
\* the fast path of evaluateAlerts skips nothing.
THEOREM SentinelSoundSerial == ASSUME Serial PROVE Spec => []SentinelSound
<1>1. SerialInv => SentinelSound
  BY DEF SerialInv
<1>2. SerialInv /\ [Next]_vars => SerialInv'
  BY SerialNext
<1> QED BY <1>1, <1>2, SerialInit, PTL DEF Spec

-----------------------------------------------------------------------------
(* Refinement of AlertTimers.                                               *)

\* The batch of one lane is the judgement of its sample.
LEMMA CommitJudges ==
    ASSUME SerialInv, NEW p \in Lanes, host = "present", results[p] \in Payloads(p),
           currentStates[p] # None, currentPending[p] # None,
           states' = StatesAfter(p), pending' = PendingAfter(p)
    PROVE  AT!Judge(workerNow[p], {r \in RulesOf(p) : Fired(p, r)},
                                  {r \in RulesOf(p) : Cleared(p, r)})
<1> DEFINE t == workerNow[p]
           fired == {r \in RulesOf(p) : Fired(p, r)}
           cleared == {r \in RulesOf(p) : Cleared(p, r)}
<1>1. \A r \in RulesOf(p) : r \in Rules /\ currentStates[p][r] = states[r]
                                       /\ currentPending[p][r] = pending[r]
  BY LaneKinds DEF SerialInv, SnapshotFresh
<1>2. fired \cap cleared = {}
  BY DEF Fired, Cleared
<1>3. pending' = [r \in Rules |->
                    IF r \in cleared THEN None
                    ELSE IF r \in fired /\ Duration[r] # 0 /\ pending[r] = None THEN t
                    ELSE pending[r]]
  <2>1. ASSUME NEW r \in Rules
        PROVE  PendingAfter(p)[r] = IF r \in cleared THEN None
                    ELSE IF r \in fired /\ Duration[r] # 0 /\ pending[r] = None THEN t
                    ELSE pending[r]
    BY <1>1, <1>2 DEF PendingAfter, ToStart, ToDrop, SerialInv, OnlyDurationTimers
  <2> HIDE DEF fired, cleared, t
  <2> QED BY <2>1 DEF PendingAfter
<1>4. RaisedAt' = [r \in Rules |->
                     IF r \in cleared THEN None
                     ELSE IF r \in fired /\ AT!Held(r, t) /\ RaisedAt[r] = None THEN t
                     ELSE RaisedAt[r]]
  <2>1. ASSUME NEW r \in Rules
        PROVE  RaisedAt'[r] = IF r \in cleared THEN None
                     ELSE IF r \in fired /\ AT!Held(r, t) /\ RaisedAt[r] = None THEN t
                     ELSE RaisedAt[r]
    <3>0. /\ RaisedAt[r] = IF states[r] = None THEN None ELSE states[r].triggered_at
          /\ RaisedAt'[r] = IF states'[r] = None THEN None ELSE states'[r].triggered_at
      BY DEF RaisedAt
    <3>1. states'[r] = IF r \in ToUpsert(p) THEN UpsertState(p, r)
                       ELSE IF r \in ToClear(p) THEN None ELSE states[r]
      BY DEF StatesAfter
    <3>2. states[r] # None => states[r].triggered_at # None
      BY HostAlertsAssumption DEF SerialInv, TypeOK, StatesTable, Row
    <3>3. CASE r \in ToUpsert(p)
      <4>1. r \in fired /\ r \notin cleared /\ AT!Held(r, t)
        BY <1>1, <3>3 DEF ToUpsert, AT!Held, Elapsed, Fired, Cleared
      <4>2. UpsertState(p, r) \in Row
        <5>1. results[p][r] \in Values
          BY <3>3 DEF ToUpsert, Fired, Payloads, Results
        <5>2. states[r] # None => states[r].triggered_at \in Nat
          BY DEF SerialInv, TypeOK, StatesTable, Row
        <5>3. workerNow[p] \in Nat
          BY DEF SerialInv, TypeOK
        <5> QED BY <1>1, <3>3, <5>1, <5>2, <5>3 DEF UpsertState, Row, ToUpsert
      <4>3. states'[r] # None
        BY <3>1, <3>3, <4>2, HostAlertsAssumption
      <4>4. states'[r].triggered_at = IF states[r] # None THEN states[r].triggered_at ELSE t
        BY <1>1, <3>1, <3>3, <4>1 DEF UpsertState
      <4> QED BY <3>0, <3>2, <4>1, <4>3, <4>4
    <3>4. CASE r \notin ToUpsert(p) /\ r \in cleared
      BY <1>1, <3>0, <3>1, <3>4 DEF ToClear
    <3>5. CASE r \notin ToUpsert(p) /\ r \notin cleared
      <4>1. states'[r] = states[r]
        BY <3>1, <3>5 DEF ToClear
      <4>2. ~(r \in fired /\ AT!Held(r, t) /\ states[r] = None)
        BY <1>1, <3>5 DEF ToUpsert, AT!Held, Elapsed, StateChanged
      <4> QED BY <3>0, <3>2, <3>5, <4>1, <4>2
    <3> QED BY <3>3, <3>4, <3>5
  <2> HIDE DEF fired, cleared, t
  <2> QED BY <2>1 DEF RaisedAt
<1> HIDE DEF fired, cleared, t
<1> QED BY <1>3, <1>4 DEF AT!Judge, fired, cleared, t

LEMMA RefinementStep ==
    ASSUME SerialInv, [Next]_vars
    PROVE  [AT!Next]_<<pending, RaisedAt>>
<1>1. CASE UNCHANGED <<states, pending>>
  BY <1>1 DEF RaisedAt
<1>2. ASSUME Next, NEW p \in Lanes, LaneStep(p)
      PROVE  [AT!Next]_<<pending, RaisedAt>>
  <2>1. CASE CommitBatch(p) /\ ~BatchAborts(p)
    <3>1. states' = StatesAfter(p) /\ pending' = PendingAfter(p)
      BY <2>1 DEF CommitBatch
    <3>2. CASE host = "present"
      <4>0. pc[p] = "commit" \/ HasRead(p)
        BY <2>1 DEF CommitBatch
      <4>1. results[p] \in Payloads(p) /\ currentStates[p] # None /\ currentPending[p] # None
            /\ pc[p] # "idle"
        BY <4>0 DEF HasRead, SerialInv, TypeOK
      <4>2. workerNow[p] \in 1..MaxTime
        BY <4>1 DEF SerialInv, ClockBounded
      <4> DEFINE fired == {r \in RulesOf(p) : Fired(p, r)}
                 cleared == {r \in RulesOf(p) : Cleared(p, r)}
      <4>3. AT!Judge(workerNow[p], fired, cleared)
        BY <3>1, <3>2, <4>1, CommitJudges
      <4>4. fired \in SUBSET Rules /\ cleared \in SUBSET Rules /\ fired \cap cleared = {}
        BY LaneKinds DEF Fired, Cleared
      <4> HIDE DEF fired, cleared
      <4> QED BY <4>2, <4>3, <4>4 DEF AT!Next
    <3>3. CASE host # "present"
      <4>1. Empty
        BY <3>3 DEF SerialInv, TypeOK, DeletedHostHasNoAlerts
      <4>2. StatesAfter(p) = NoRows /\ PendingAfter(p) = NoRows
        BY <2>1, <3>3, <4>1, CommitKeepsEmpty DEF SerialInv
      <4> QED BY <1>1, <3>1, <4>1, <4>2 DEF Empty
    <3> QED BY <3>2, <3>3
  <2>2. CASE PurgePending(p)
    <3>1. pending' = AT!Unset /\ RaisedAt' = RaisedAt
      BY <2>2 DEF PurgePending, AT!Unset, NoRows, RaisedAt
    <3> QED BY <3>1 DEF AT!Next, AT!Suspend
  <2>3. CASE UNCHANGED Tables
    BY <1>1, <2>3 DEF Tables
  <2> QED BY <1>2, <2>1, <2>2, <2>3 DEF LaneStep, StartIngest, StartIngestInWindow,
       StartTier2, Admit, SentinelHit, SentinelMiss, ReadStates, ReadPending,
       NothingToWrite, MarkHealthy, InvalidateHealthy, CommitBatch, PurgeInvalidate, Die, Tables
<1>3. CASE WorldStep
  <2>1. CASE DeleteHost
    <3>1. pending' = AT!Unset /\ RaisedAt' = AT!Unset
      BY <2>1 DEF DeleteHost, AT!Unset, NoRows, RaisedAt
    <3> QED BY <3>1 DEF AT!Next, AT!Forget
  <2> QED BY <1>1, <1>3, <2>1 DEF WorldStep, Tick, RegisterHost, Tables
<1> QED BY <1>1, <1>2, <1>3 DEF Next, vars

\* In the serial regime the sentinel, the two reads and the batch of an ingest act as
\* one atomic judgement of its sample: AlertTimers is implemented, whatever the rules,
\* durations and TTL.
THEOREM Refinement == ASSUME Serial PROVE Spec => ImplementsAlertTimers
<1>1. Init => AT!Init
  BY DEF Init, AT!Init, AT!Unset, NoRows, RaisedAt
<1>2. SerialInv /\ [Next]_vars => SerialInv'
  BY SerialNext
<1>3. SerialInv /\ [Next]_vars => [AT!Next]_<<pending, RaisedAt>>
  BY RefinementStep
<1> QED BY <1>1, <1>2, <1>3, SerialInit, PTL DEF Spec, ImplementsAlertTimers, AT!Spec

=============================================================================
