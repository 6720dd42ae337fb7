-------------------------- MODULE HostPlaneProofs ---------------------------
(***************************************************************************)
(* Proofs about what probes and agents write of a host: its registry, its  *)
(* agents and the hourly rollup of its samples.                            *)
(***************************************************************************)
EXTENDS HostRegistry, AgentHeartbeats, MetricsRollup, TLAPS

-----------------------------------------------------------------------------
(***************************************************************************)
(* HostRegistry, for any lanes, windows, TTL, latency and faults of KV.    *)
(***************************************************************************)

\* What the steps of one report do.
ReportStep(p) ==
    \/ AcceptIngest(p) \/ AcceptIdentity(p) \/ AcceptTier2(p)
    \/ LoadHostMeta(p) \/ MissHostMeta(p) \/ SelectHostMeta(p) \/ StoreHostMeta(p)
    \/ InsertRawWithHostUpsert(p) \/ EndIngest(p) \/ UpsertIdentity(p) \/ UpdateInventory(p)
    \/ EnsureExists(p) \/ InsertSnapshot(p) \/ TouchLastSeen(p)
    \/ UpdateTier2Inventory(p) \/ LoseReport(p)

\* What the steps of the change under way do.
ChangeStep ==
    \/ \E op \in Ops : ResolveHostRecord(op)
    \/ \E w \in Contents : SetMaintenance(w)
    \/ UpdateDescription \/ RemoveHost \/ ForgetTombstone \/ InvalidateHostMeta \/ LoseChange

LEMMA StepSplits ==
  RegistryNext <=> (\E p \in Reporters : ReportStep(p)) \/ ChangeStep \/ ClockTick
BY DEF RegistryNext, ReportStep, ChangeStep

-----------------------------------------------------------------------------
(* Type correctness.  The projection takes only what a SELECT has found.   *)

SelectedRow ==
    \A p \in Reporters : report[p] # None /\ report[p].step = "store" => report[p].seen # NoRow

TypeInv == RegistryTypeOK /\ SelectedRow

LEMMA TypeOfReportStep ==
  ASSUME TypeInv, NEW p \in Reporters, ReportStep(p)
  PROVE  TypeInv'
<1> USE RegistryAssumption DEF TypeInv, RegistryTypeOK, SelectedRow
<1>1. CASE AcceptIngest(p) \/ AcceptIdentity(p) \/ AcceptTier2(p)
  BY <1>1 DEF AcceptIngest, AcceptIdentity, AcceptTier2, Accept, registryRow, registryHistory,
              Report, Kinds, Steps
<1>2. CASE LoadHostMeta(p)
  <2>1. /\ report' = [report EXCEPT ![p] =
                         [@ EXCEPT !.step = "write", !.seen = projection.window]]
        /\ UNCHANGED <<clock, registryRow, projection, change, requests, registryHistory>>
    BY <1>2 DEF LoadHostMeta
  <2>2. report[p] \in Report /\ projection.window \in Contents
    BY <1>2 DEF LoadHostMeta, Fresh, ProjectionEntry
  <2>3. [report[p] EXCEPT !.step = "write", !.seen = projection.window] \in Report
    BY <2>2 DEF Report, Steps
  <2> QED
    BY <2>1, <2>3 DEF registryRow, registryHistory
<1>3. CASE MissHostMeta(p) \/ EndIngest(p) \/ LoseReport(p)
  BY <1>3 DEF MissHostMeta, EndIngest, LoseReport, Advance, Finish, registryRow,
              registryHistory, Report, Steps
<1>4. CASE SelectHostMeta(p)
  <2> DEFINE next == IF stored = NoRow THEN "write" ELSE "store"
  <2>1. /\ report' = [report EXCEPT ![p] = [@ EXCEPT !.step = next, !.seen = stored]]
        /\ UNCHANGED <<clock, registryRow, projection, change, requests, registryHistory>>
    BY <1>4 DEF SelectHostMeta
  <2>2. report[p] \in Report
    BY <1>4 DEF SelectHostMeta
  <2>3. [report[p] EXCEPT !.step = next, !.seen = stored] \in Report
    BY <2>2 DEF Report, Steps
  <2>4. next = "store" => stored # NoRow
    OBVIOUS
  <2> HIDE DEF next
  <2> QED
    BY <2>1, <2>2, <2>3, <2>4 DEF registryRow, registryHistory, Report
<1>5. CASE StoreHostMeta(p)
  BY <1>5 DEF StoreHostMeta, ProjectionOf, Advance, registryRow, registryHistory, Report, Steps,
              ProjectionEntry
<1>6. CASE InsertRawWithHostUpsert(p)
  BY <1>6 DEF InsertRawWithHostUpsert, Advance, Finish, EnsureRow, Becomes, Touch, Larger,
              registryRow, Report, Steps, Contents
<1>7. CASE UpsertIdentity(p)
  BY <1>7 DEF UpsertIdentity, Advance, Finish, EnsureRow, Becomes, Touch, Larger, registryRow,
              Report, Steps, Contents
<1>8. CASE EnsureExists(p)
  BY <1>8 DEF EnsureExists, Advance, Finish, EnsureRow, Becomes, Touch, Larger, Report, Steps,
              Contents
<1>9. CASE UpdateInventory(p) \/ UpdateTier2Inventory(p)
  BY <1>9 DEF UpdateInventory, UpdateTier2Inventory, MergeFacts, Finish, registryHistory
<1>10. CASE InsertSnapshot(p)
  BY <1>10 DEF InsertSnapshot, Advance, Finish, registryHistory, Report, Steps
<1>11. CASE TouchLastSeen(p)
  BY <1>11 DEF TouchLastSeen, Touch, Larger, Advance, Report, Steps
<1> QED
  BY <1>1, <1>2, <1>3, <1>4, <1>5, <1>6, <1>7, <1>8, <1>9, <1>10, <1>11 DEF ReportStep

LEMMA TypeOfChangeStep ==
  ASSUME TypeInv, ChangeStep
  PROVE  TypeInv'
<1> USE RegistryAssumption DEF TypeInv, RegistryTypeOK, SelectedRow
<1>1. CASE \E op \in Ops : ResolveHostRecord(op)
  BY <1>1 DEF ResolveHostRecord, Change, registryRow, registryHistory
<1>2. CASE \E w \in Contents : SetMaintenance(w)
  BY <1>2 DEF SetMaintenance, Becomes, Change, Ops
<1>3. CASE UpdateDescription
  BY <1>3 DEF UpdateDescription, MergeFacts, registryHistory
<1>4. CASE RemoveHost
  <2>1. tombstone' \in BOOLEAN
    BY <1>4, Zenon DEF RemoveHost
  <2> QED
    BY <1>4, <2>1 DEF RemoveHost, Becomes, Change, Ops
<1>5. CASE ForgetTombstone
  <2>1. tombstone' \in BOOLEAN
    BY <1>5, Zenon DEF ForgetTombstone
  <2> QED
    BY <1>5, <2>1 DEF ForgetTombstone, Change, Ops, registryHistory
<1>6. CASE InvalidateHostMeta \/ LoseChange
  BY <1>6 DEF InvalidateHostMeta, LoseChange, registryRow, registryHistory
<1> QED
  BY <1>1, <1>2, <1>3, <1>4, <1>5, <1>6 DEF ChangeStep

LEMMA TypeInductive == TypeInv /\ [RegistryNext]_registryVars => TypeInv'
<1> SUFFICES ASSUME TypeInv, [RegistryNext]_registryVars PROVE TypeInv'
  OBVIOUS
<1>1. CASE ClockTick
  BY <1>1, RegistryAssumption
  DEF ClockTick, TypeInv, RegistryTypeOK, SelectedRow, registryRow
<1>2. CASE UNCHANGED registryVars
  BY <1>2 DEF registryVars, registryRow, registryHistory, TypeInv, RegistryTypeOK, SelectedRow
<1> QED
  BY <1>1, <1>2, TypeOfReportStep, TypeOfChangeStep, StepSplits

LEMMA TypeInitially == RegistryInit => TypeInv
<1> SUFFICES ASSUME RegistryInit PROVE TypeInv
  OBVIOUS
<1>1. tombstone \in BOOLEAN
  BY Zenon DEF RegistryInit
<1> QED
  BY <1>1, RegistryAssumption DEF RegistryInit, TypeInv, RegistryTypeOK, SelectedRow, Contents

\* The row, the projection, the reports and the change are well typed in every reachable state.
THEOREM RegistryTypeCorrect == RegistrySpec => []RegistryTypeOK
<1>1. TypeInv => RegistryTypeOK
  BY DEF TypeInv
<1> QED
  BY <1>1, TypeInitially, TypeInductive, PTL DEF RegistrySpec

-----------------------------------------------------------------------------
(* A deleted host.                                                         *)

LEMMA AwayInductive ==
  ASSUME TypeInv, DeletedHostStaysAway, [RegistryNext]_registryVars
  PROVE  DeletedHostStaysAway'
<1> USE RegistryAssumption DEF DeletedHostStaysAway, Contents
<1>1. ASSUME NEW p \in Reporters, ReportStep(p) PROVE DeletedHostStaysAway'
  <2>1. CASE AcceptIngest(p) \/ AcceptIdentity(p) \/ AcceptTier2(p)
    BY <2>1 DEF AcceptIngest, AcceptIdentity, AcceptTier2, Accept, registryRow
  <2>2. CASE LoadHostMeta(p) \/ MissHostMeta(p) \/ SelectHostMeta(p) \/ StoreHostMeta(p)
    BY <2>2 DEF LoadHostMeta, MissHostMeta, SelectHostMeta, StoreHostMeta, registryRow
  <2>3. CASE InsertRawWithHostUpsert(p)
    BY <2>3 DEF InsertRawWithHostUpsert, EnsureRow, Becomes, registryRow
  <2>4. CASE UpsertIdentity(p) \/ EnsureExists(p)
    BY <2>4 DEF UpsertIdentity, EnsureExists, EnsureRow, Becomes, registryRow
  <2>5. CASE UpdateInventory(p) \/ UpdateTier2Inventory(p)
    BY <2>5 DEF UpdateInventory, UpdateTier2Inventory, MergeFacts
  <2>6. CASE InsertSnapshot(p) \/ TouchLastSeen(p)
    BY <2>6 DEF InsertSnapshot, TouchLastSeen
  <2>7. CASE EndIngest(p) \/ LoseReport(p)
    BY <2>7 DEF EndIngest, LoseReport, registryRow
  <2> QED
    BY <1>1, <2>1, <2>2, <2>3, <2>4, <2>5, <2>6, <2>7 DEF ReportStep
<1>2. CASE ChangeStep
  <2>1. CASE \E w \in Contents : SetMaintenance(w)
    BY <2>1 DEF SetMaintenance, Becomes
  <2>2. CASE UpdateDescription
    BY <2>2 DEF UpdateDescription, MergeFacts
  <2>3. CASE RemoveHost \/ ForgetTombstone
    BY <2>3 DEF RemoveHost, Becomes, ForgetTombstone
  <2>4. CASE (\E op \in Ops : ResolveHostRecord(op)) \/ InvalidateHostMeta \/ LoseChange
    BY <2>4 DEF ResolveHostRecord, InvalidateHostMeta, LoseChange, registryRow
  <2> QED
    BY <1>2, <2>1, <2>2, <2>3, <2>4 DEF ChangeStep
<1>3. CASE ClockTick \/ UNCHANGED registryVars
  BY <1>3 DEF ClockTick, registryVars, registryRow
<1> QED
  BY <1>1, <1>2, <1>3, StepSplits

\* No report, however early it was admitted and wherever it is cut off, brings a deleted host
\* back under its tombstone or leaves rows behind without the row they belong to.
THEOREM DeletedHostsStayAway == RegistrySpec => []DeletedHostStaysAway
<1>1. RegistryInit => DeletedHostStaysAway
  BY DEF RegistryInit, DeletedHostStaysAway
<1>2. TypeInv /\ DeletedHostStaysAway /\ [RegistryNext]_registryVars => DeletedHostStaysAway'
  BY AwayInductive
<1> QED
  BY <1>1, <1>2, TypeInitially, TypeInductive, PTL DEF RegistrySpec

-----------------------------------------------------------------------------
(* How far behind everything can be.                                       *)

\* The row had its content up to now, and had nothing after it was deleted.
RowHistory ==
    /\ \A c \in Contents : heldAt[c] <= clock
    /\ goneAt <= clock /\ newest <= clock
    /\ IF stored = NoRow THEN \A c \in Contents : heldAt[c] <= goneAt
                         ELSE heldAt[stored] = clock

\* No report is older than its latency.
Young ==
    \A p \in Reporters : report[p] # None =>
        report[p].at <= clock /\ clock <= report[p].at + ReportLatency

\* What a report has read was true less than a TTL and a latency before it arrived, or at
\* its arrival if it comes from the row itself; one that is stranded took a host for known
\* that had been deleted.
ReadOf(r, held, gone) ==
    /\ r.seen # NoRow => r.at < held[r.seen] + ReportLatency + ProjectionTTL
    /\ r.step = "store" => r.seen # NoRow /\ r.at <= held[r.seen]
    /\ r.step = "stranded" => r.at < gone + ReportLatency + ProjectionTTL

ReadRecently ==
    \A p \in Reporters : report[p] # None => ReadOf(report[p], heldAt, goneAt)

LagInv == RowHistory /\ Young /\ ReadRecently /\ ProjectionBounded /\ LastSeenRecent

\* How a step can move the row: not at all, to a content, away, or on in time.
RowMoves ==
    \/ UNCHANGED <<clock, stored, heldAt, goneAt>>
    \/ \E c \in Contents : /\ stored' = c /\ heldAt' = [heldAt EXCEPT ![c] = clock]
                           /\ UNCHANGED <<clock, goneAt>>
    \/ stored' = NoRow /\ goneAt' = clock /\ UNCHANGED <<clock, heldAt>>
    \/ ClockTick

\* How it can move last_seen: not, or to the arrival of a report, or away with the row.
SeenMoves ==
    \/ UNCHANGED <<lastSeen, newest>> /\ (stored = NoRow => stored' = NoRow)
    \/ \E p \in Reporters : report[p] # None /\ Touch(p) /\ UNCHANGED clock
    \/ newest' = 0 /\ stored' = NoRow

\* Histories only grow.
HistoryGrows ==
    /\ clock' >= clock /\ goneAt' >= goneAt
    /\ \A c \in Contents : heldAt'[c] >= heldAt[c]

LEMMA MovesOfReportStep ==
  ASSUME TypeInv, NEW p \in Reporters, ReportStep(p)
  PROVE  RowMoves /\ SeenMoves /\ UNCHANGED clock
<1> USE RegistryAssumption DEF Contents
<1>1. CASE AcceptIngest(p) \/ AcceptIdentity(p) \/ AcceptTier2(p)
  BY <1>1 DEF AcceptIngest, AcceptIdentity, AcceptTier2, Accept, registryRow, registryHistory,
              RowMoves, SeenMoves
<1>2. CASE LoadHostMeta(p) \/ MissHostMeta(p) \/ SelectHostMeta(p) \/ StoreHostMeta(p)
  BY <1>2 DEF LoadHostMeta, MissHostMeta, SelectHostMeta, StoreHostMeta, registryRow,
              registryHistory, RowMoves, SeenMoves
<1>3. CASE EndIngest(p) \/ LoseReport(p) \/ UpdateInventory(p) \/ UpdateTier2Inventory(p)
           \/ InsertSnapshot(p)
  BY <1>3 DEF EndIngest, LoseReport, UpdateInventory, UpdateTier2Inventory, InsertSnapshot,
              registryRow, registryHistory, RowMoves, SeenMoves
<1>4. CASE TouchLastSeen(p)
  BY <1>4 DEF TouchLastSeen, RowMoves, SeenMoves
<1>5. CASE InsertRawWithHostUpsert(p)
  BY <1>5 DEF InsertRawWithHostUpsert, EnsureRow, Becomes, registryRow, RowMoves, SeenMoves
<1>6. CASE UpsertIdentity(p)
  BY <1>6 DEF UpsertIdentity, EnsureRow, Becomes, registryRow, RowMoves, SeenMoves
<1>7. CASE EnsureExists(p)
  BY <1>7 DEF EnsureExists, EnsureRow, Becomes, RowMoves, SeenMoves
<1> QED
  BY <1>1, <1>2, <1>3, <1>4, <1>5, <1>6, <1>7 DEF ReportStep

LEMMA MovesOfStep ==
  ASSUME TypeInv, [RegistryNext]_registryVars
  PROVE  RowMoves /\ SeenMoves
<1> USE RegistryAssumption DEF Contents
<1>1. CASE ChangeStep
  <2>1. CASE \E w \in Contents : SetMaintenance(w)
    BY <2>1 DEF SetMaintenance, Becomes, RowMoves, SeenMoves
  <2>2. CASE RemoveHost
    BY <2>2 DEF RemoveHost, Becomes, RowMoves, SeenMoves
  <2>3. CASE UpdateDescription \/ ForgetTombstone
    BY <2>3 DEF UpdateDescription, ForgetTombstone, registryHistory, RowMoves, SeenMoves
  <2>4. CASE (\E op \in Ops : ResolveHostRecord(op)) \/ InvalidateHostMeta \/ LoseChange
    BY <2>4 DEF ResolveHostRecord, InvalidateHostMeta, LoseChange, registryRow,
                registryHistory, RowMoves, SeenMoves
  <2> QED
    BY <1>1, <2>1, <2>2, <2>3, <2>4 DEF ChangeStep
<1>2. CASE ClockTick \/ UNCHANGED registryVars
  BY <1>2 DEF ClockTick, registryVars, registryRow, registryHistory, RowMoves, SeenMoves
<1> QED
  BY <1>1, <1>2, MovesOfReportStep, StepSplits

LEMMA RowHistoryKept ==
  ASSUME TypeInv, TypeInv', RowHistory, Young, LastSeenRecent, RowMoves, SeenMoves
  PROVE  RowHistory' /\ HistoryGrows /\ LastSeenRecent'
<1> USE RegistryAssumption DEF TypeInv, RegistryTypeOK, RowHistory
<1>1. HistoryGrows
  BY DEF RowMoves, ClockTick, registryRow, HistoryGrows
<1>2. /\ \A c \in Contents : heldAt'[c] <= clock'
      /\ goneAt' <= clock'
      /\ IF stored' = NoRow THEN \A c \in Contents : heldAt'[c] <= goneAt'
                            ELSE heldAt'[stored'] = clock'
  <2>1. CASE UNCHANGED <<clock, stored, heldAt, goneAt>>
    BY <2>1
  <2>2. CASE \E c \in Contents : /\ stored' = c /\ heldAt' = [heldAt EXCEPT ![c] = clock]
                                 /\ UNCHANGED <<clock, goneAt>>
    BY <2>2
  <2>3. CASE stored' = NoRow /\ goneAt' = clock /\ UNCHANGED <<clock, heldAt>>
    BY <2>3
  <2>4. CASE ClockTick
    BY <2>4 DEF ClockTick, registryRow
  <2> QED
    BY <2>1, <2>2, <2>3, <2>4 DEF RowMoves
<1>3. newest' <= clock' /\ LastSeenRecent'
  <2>1. CASE UNCHANGED <<lastSeen, newest>> /\ (stored = NoRow => stored' = NoRow)
    BY <2>1, <1>1 DEF HistoryGrows, LastSeenRecent
  <2>2. CASE \E p \in Reporters : report[p] # None /\ Touch(p) /\ UNCHANGED clock
    <3>1. PICK p \in Reporters : report[p] # None /\ Touch(p) /\ UNCHANGED clock
      BY <2>2
    <3>2. /\ report[p] \in Report
          /\ report[p].at <= clock /\ clock <= report[p].at + ReportLatency
      BY <3>1 DEF Young
    <3> QED
      BY <3>1, <3>2 DEF Touch, Larger, LastSeenRecent, Report
  <2>3. CASE newest' = 0 /\ stored' = NoRow
    BY <2>3 DEF LastSeenRecent
  <2> QED
    BY <2>1, <2>2, <2>3 DEF SeenMoves
<1> QED
  BY <1>1, <1>2, <1>3

\* What was read recently stays so while the histories grow.
LEMMA ReadStays ==
  ASSUME TypeInv, TypeInv', HistoryGrows, NEW r \in Report, ReadOf(r, heldAt, goneAt)
  PROVE  ReadOf(r, heldAt', goneAt')
<1>1. heldAt \in [Contents -> Nat] /\ heldAt' \in [Contents -> Nat] /\ goneAt \in Nat /\ goneAt' \in Nat
  BY DEF TypeInv, RegistryTypeOK
<1>2. r.at \in Nat /\ r.seen \in Contents \cup {NoRow}
  BY DEF Report
<1> QED
  BY <1>1, <1>2, RegistryAssumption DEF HistoryGrows, ReadOf

\* A step of report p writes no other report.
LEMMA OneReport ==
  ASSUME TypeInv, NEW p \in Reporters, ReportStep(p)
  PROVE  report' = [report EXCEPT ![p] = report'[p]]
<1> USE DEF TypeInv, RegistryTypeOK
<1>1. CASE AcceptIngest(p) \/ AcceptIdentity(p) \/ AcceptTier2(p)
  BY <1>1 DEF AcceptIngest, AcceptIdentity, AcceptTier2, Accept
<1>2. CASE LoadHostMeta(p) \/ MissHostMeta(p) \/ SelectHostMeta(p) \/ StoreHostMeta(p)
  BY <1>2 DEF LoadHostMeta, MissHostMeta, SelectHostMeta, StoreHostMeta, Advance
<1>3. CASE EndIngest(p) \/ LoseReport(p) \/ UpdateInventory(p) \/ UpdateTier2Inventory(p)
  BY <1>3 DEF EndIngest, LoseReport, UpdateInventory, UpdateTier2Inventory, Finish
<1>4. CASE InsertRawWithHostUpsert(p) \/ UpsertIdentity(p)
  BY <1>4 DEF InsertRawWithHostUpsert, UpsertIdentity, Advance, Finish
<1>5. CASE EnsureExists(p) \/ InsertSnapshot(p) \/ TouchLastSeen(p)
  BY <1>5 DEF EnsureExists, InsertSnapshot, TouchLastSeen, Advance, Finish
<1> QED
  BY <1>1, <1>2, <1>3, <1>4, <1>5 DEF ReportStep

\* What the step leaves of report p: nothing, a new report, the same reading at another
\* step, or a reading of the projection or of the row.
AfterStep(p) ==
    \/ report'[p] = None
    \/ report'[p].at = clock /\ report'[p].seen = NoRow /\ report'[p].step = "meta"
    \/ /\ report[p] # None
       /\ report'[p].at = report[p].at
       /\ \/ report'[p].seen = report[p].seen /\ report'[p].step \notin {"store", "stranded"}
          \/ /\ report'[p].seen = report[p].seen /\ report'[p].step = "stranded"
             /\ report[p].seen # NoRow /\ stored = NoRow
          \/ Fresh /\ report'[p].seen = projection.window /\ report'[p].step = "write"
          \/ report'[p].seen = stored /\ report'[p].step = IF stored = NoRow THEN "write" ELSE "store"

LEMMA AfterReportStep ==
  ASSUME TypeInv, NEW p \in Reporters, ReportStep(p)
  PROVE  AfterStep(p)
<1> USE DEF TypeInv, RegistryTypeOK
<1>1. CASE AcceptIngest(p) \/ AcceptIdentity(p) \/ AcceptTier2(p)
  BY <1>1 DEF AcceptIngest, AcceptIdentity, AcceptTier2, Accept, AfterStep
<1>2. CASE LoadHostMeta(p)
  BY <1>2 DEF LoadHostMeta, AfterStep, Report
<1>3. CASE SelectHostMeta(p)
  BY <1>3 DEF SelectHostMeta, AfterStep, Report
<1>4. CASE MissHostMeta(p) \/ StoreHostMeta(p)
  BY <1>4 DEF MissHostMeta, StoreHostMeta, Advance, AfterStep, Report
<1>5. CASE EndIngest(p) \/ LoseReport(p) \/ UpdateInventory(p) \/ UpdateTier2Inventory(p)
  BY <1>5 DEF EndIngest, LoseReport, UpdateInventory, UpdateTier2Inventory, Finish, AfterStep
<1>6. CASE InsertRawWithHostUpsert(p)
  BY <1>6 DEF InsertRawWithHostUpsert, Advance, Finish, AfterStep, Report
<1>7. CASE UpsertIdentity(p) \/ EnsureExists(p)
  BY <1>7 DEF UpsertIdentity, EnsureExists, Advance, Finish, AfterStep, Report
<1>8. CASE InsertSnapshot(p) \/ TouchLastSeen(p)
  BY <1>8 DEF InsertSnapshot, TouchLastSeen, Advance, Finish, AfterStep, Report
<1> QED
  BY <1>1, <1>2, <1>3, <1>4, <1>5, <1>6, <1>7, <1>8 DEF ReportStep

LEMMA ReportsStayYoung ==
  ASSUME TypeInv, TypeInv', LagInv, RowHistory', HistoryGrows,
         NEW p \in Reporters, ReportStep(p)
  PROVE  Young' /\ ReadRecently'
<1> USE RegistryAssumption
<1>1. UNCHANGED clock
  BY MovesOfReportStep
<1>2. ASSUME NEW q \in Reporters, q # p, report'[q] # None
      PROVE  /\ report'[q].at <= clock' /\ clock' <= report'[q].at + ReportLatency
             /\ ReadOf(report'[q], heldAt', goneAt')
  <2>1. report'[q] = report[q] /\ report[q] \in Report
    BY <1>2, OneReport DEF TypeInv, RegistryTypeOK
  <2> QED
    BY <1>1, <1>2, <2>1, ReadStays DEF LagInv, Young, ReadRecently
<1>3. ASSUME report'[p] # None
      PROVE  /\ report'[p].at <= clock' /\ clock' <= report'[p].at + ReportLatency
             /\ ReadOf(report'[p], heldAt', goneAt')
  <2>1. report'[p] \in Report /\ clock \in Nat /\ goneAt \in Nat /\ heldAt \in [Contents -> Nat]
    BY <1>3 DEF TypeInv, RegistryTypeOK
  <2>2. CASE report'[p].at = clock /\ report'[p].seen = NoRow /\ report'[p].step = "meta"
    BY <1>1, <2>1, <2>2 DEF ReadOf
  <2>3. CASE report[p] # None /\ report'[p].at = report[p].at
    <3>1. /\ report[p] \in Report /\ ReadOf(report[p], heldAt, goneAt)
          /\ report[p].at \in Nat
          /\ report[p].at <= clock /\ clock <= report[p].at + ReportLatency
      BY <2>3 DEF TypeInv, RegistryTypeOK, LagInv, Young, ReadRecently, Report
    <3>2. ReadOf(report'[p], heldAt, goneAt)
      <4>1. CASE report'[p].seen = report[p].seen /\ report'[p].step \notin {"store", "stranded"}
        BY <2>3, <3>1, <4>1 DEF ReadOf
      <4>2. CASE /\ report'[p].seen = report[p].seen /\ report'[p].step = "stranded"
                 /\ report[p].seen # NoRow /\ stored = NoRow
        <5>1. report[p].seen \in Contents /\ heldAt[report[p].seen] <= goneAt
          BY <3>1, <4>2 DEF Report, LagInv, RowHistory
        <5> QED
          BY <2>1, <2>3, <3>1, <4>2, <5>1 DEF ReadOf
      <4>3. CASE Fresh /\ report'[p].seen = projection.window /\ report'[p].step = "write"
        <5>1. /\ projection \in ProjectionEntry
              /\ projection.expires <= heldAt[projection.window] + ReportLatency + ProjectionTTL
              /\ projection.expires > clock
          BY <4>3 DEF Fresh, LagInv, ProjectionBounded, TypeInv, RegistryTypeOK
        <5> QED
          BY <2>1, <2>3, <3>1, <4>3, <5>1 DEF ReadOf, ProjectionEntry
      <4>4. CASE report'[p].seen = stored /\ report'[p].step = IF stored = NoRow THEN "write" ELSE "store"
        <5>1. stored # NoRow => heldAt[stored] = clock
          BY DEF LagInv, RowHistory
        <5> QED
          BY <2>1, <2>3, <3>1, <4>4, <5>1 DEF ReadOf
      <4> QED
        BY <1>3, <2>3, <4>1, <4>2, <4>3, <4>4, AfterReportStep,
           <2>2, <2>1 DEF AfterStep, ReadOf
    <3> QED
      BY <1>1, <2>1, <2>3, <3>1, <3>2, ReadStays
  <2> QED
    BY <1>3, <2>2, <2>3, AfterReportStep DEF AfterStep
<1> QED
  BY <1>2, <1>3 DEF Young, ReadRecently

LEMMA ProjectionStaysBounded ==
  ASSUME TypeInv, TypeInv', LagInv, HistoryGrows, [RegistryNext]_registryVars
  PROVE  ProjectionBounded'
<1> USE RegistryAssumption
<1>0. /\ heldAt \in [Contents -> Nat] /\ heldAt' \in [Contents -> Nat] /\ clock \in Nat
      /\ projection \in ProjectionEntry \cup {None}
  BY DEF TypeInv, RegistryTypeOK
<1>1. CASE projection' = projection
  BY <1>0, <1>1 DEF HistoryGrows, LagInv, ProjectionBounded, ProjectionEntry
<1>2. CASE projection' = None
  BY <1>2 DEF ProjectionBounded
<1>3. ASSUME NEW p \in Reporters, StoreHostMeta(p), projection' = ProjectionOf(report[p].seen)
      PROVE  ProjectionBounded'
  <2>1. /\ report[p] \in Report /\ report[p].seen \in Contents
        /\ report[p].at <= heldAt[report[p].seen] /\ clock <= report[p].at + ReportLatency
    BY <1>3 DEF StoreHostMeta, TypeInv, RegistryTypeOK, LagInv, Young, ReadRecently, ReadOf, Report
  <2>2. heldAt[report[p].seen] <= heldAt'[report[p].seen]
    BY <2>1 DEF HistoryGrows
  <2> QED
    BY <1>0, <1>3, <2>1, <2>2 DEF ProjectionOf, ProjectionBounded, Report
<1>4. \/ projection' = projection \/ projection' = None
      \/ \E p \in Reporters : StoreHostMeta(p) /\ projection' = ProjectionOf(report[p].seen)
  <2>1. ASSUME NEW p \in Reporters, ReportStep(p)
        PROVE  projection' = projection
               \/ (StoreHostMeta(p) /\ projection' = ProjectionOf(report[p].seen))
    BY <2>1 DEF ReportStep, AcceptIngest, AcceptIdentity, AcceptTier2, Accept, LoadHostMeta,
       MissHostMeta, SelectHostMeta, StoreHostMeta, InsertRawWithHostUpsert, EndIngest,
       UpsertIdentity, UpdateInventory, EnsureExists, InsertSnapshot, TouchLastSeen,
       UpdateTier2Inventory, LoseReport
  <2>2. CASE ChangeStep
    BY <2>2 DEF ChangeStep, ResolveHostRecord, SetMaintenance, UpdateDescription, RemoveHost,
       ForgetTombstone, InvalidateHostMeta, LoseChange
  <2>3. CASE ClockTick \/ UNCHANGED registryVars
    BY <2>3 DEF ClockTick, registryVars
  <2> QED
    BY <2>1, <2>2, <2>3, StepSplits
<1> QED
  BY <1>1, <1>2, <1>3, <1>4

LEMMA LagInductive ==
  ASSUME TypeInv, TypeInv', LagInv, [RegistryNext]_registryVars
  PROVE  LagInv'
<1>1. RowHistory' /\ HistoryGrows /\ LastSeenRecent'
  BY MovesOfStep, RowHistoryKept DEF LagInv
<1>2. ProjectionBounded'
  BY <1>1, ProjectionStaysBounded
<1>3. Young' /\ ReadRecently'
  <2>1. CASE \E p \in Reporters : ReportStep(p)
    BY <1>1, <2>1, ReportsStayYoung
  <2>2. CASE report' = report /\ (clock' # clock => ClockTick)
    <3>1. ASSUME NEW p \in Reporters, report[p] # None PROVE ReadOf(report'[p], heldAt', goneAt')
      BY <1>1, <2>2, <3>1, ReadStays DEF LagInv, ReadRecently, TypeInv, RegistryTypeOK
    <3>2. Young'
      BY <2>2, RegistryAssumption DEF ClockTick, LagInv, Young, TypeInv, RegistryTypeOK, Report
    <3> QED
      BY <2>2, <3>1, <3>2 DEF ReadRecently
  <2>3. ChangeStep \/ UNCHANGED registryVars => report' = report /\ clock' = clock
    BY DEF ChangeStep, ResolveHostRecord, SetMaintenance, UpdateDescription, RemoveHost,
       ForgetTombstone, InvalidateHostMeta, LoseChange, registryVars
  <2>4. ClockTick => report' = report
    BY DEF ClockTick
  <2> QED
    BY <2>1, <2>2, <2>3, <2>4, StepSplits
<1> QED
  BY <1>1, <1>2, <1>3 DEF LagInv

\* For any lanes, TTL and latency, whatever KV loses and wherever a change dies: the
\* projection, the window a sample is judged by, the rejection of a host that was registered
\* again and last_seen are behind the row for a bounded time only.
THEOREM LagIsBounded == RegistrySpec => []LagBounded
<1>1. RegistryInit => LagInv
  BY RegistryAssumption DEF RegistryInit, LagInv, RowHistory, Young, ReadRecently,
     ProjectionBounded, LastSeenRecent, Contents
<1>2. TypeInv /\ TypeInv' /\ LagInv /\ [RegistryNext]_registryVars => LagInv'
  BY LagInductive
<1>3. TypeInv /\ LagInv => LagBounded
  <2> SUFFICES ASSUME TypeInv, LagInv PROVE LagBounded
    OBVIOUS
  <2>1. ASSUME NEW p \in Reporters, report[p] # None
        PROVE  /\ report[p] \in Report /\ report[p].at \in Nat /\ clock \in Nat /\ goneAt \in Nat
               /\ heldAt \in [Contents -> Nat] /\ report[p].seen \in Contents \cup {NoRow}
               /\ clock <= report[p].at + ReportLatency
               /\ ReadOf(report[p], heldAt, goneAt)
    BY <2>1, RegistryAssumption
    DEF TypeInv, RegistryTypeOK, LagInv, Young, ReadRecently, Report
  <2>2. JudgedByRecentWindow /\ StrandedBounded
    BY <2>1, RegistryAssumption DEF JudgedByRecentWindow, StrandedBounded, ReadOf
  <2> QED
    BY <2>2 DEF LagBounded, TypeInv, LagInv
<1> QED
  BY <1>1, <1>2, <1>3, TypeInitially, TypeInductive, PTL DEF RegistrySpec

-----------------------------------------------------------------------------
(***************************************************************************)
(* AgentHeartbeats, for any sources, keys, throttle and TTL.               *)
(***************************************************************************)

LEMMA EntriesTyped ==
  ASSUME NEW s \in Sources, NEW entries \in Entries(s)
  PROVE  /\ DOMAIN entries \subseteq Keys
         /\ \A k \in DOMAIN entries : k[1] = s /\ entries[k] \in Entry
<1>1. PICK ms \in SUBSET Matches : entries \in [({s} \X ms) -> Entry]
  BY DEF Entries
<1>2. DOMAIN entries = {s} \X ms
  BY <1>1
<1> QED
  BY <1>1, <1>2 DEF Keys

\* What TypeOK leaves open: the pending snapshots and the history of writes.
BeatTyped ==
    /\ BeatTypeOK
    /\ flushes \in [Keys -> SUBSET BeatTimes]
    /\ beat # NoValue => \A k \in DOMAIN beat : beat[k] \in Snapshot

\* Every snapshot, also an older one that KV still answers and one that is about to be put,
\* is of a write that reached D1.
Backed ==
    /\ \A k \in Keys : /\ snapshots[k] # NoValue => snapshots[k].at \in flushes[k]
                       /\ olderKv[k] # NoValue => olderKv[k].at \in flushes[k]
    /\ beat # NoValue => \A k \in DOMAIN beat : beat[k].at \in flushes[k]

\* No write is lost: the row has been seen at it or later, or has been made or edited since.
Landed ==
    \A k \in Keys : \A f \in flushes[k] :
        /\ f <= beatClock
        /\ Exists(k) => \/ agents[k].seen # NoValue /\ agents[k].seen >= f
                        \/ since[k] >= f

BeatInv == BeatTyped /\ Backed /\ Landed /\ HeartbeatLands /\ DriftBounded

LEMMA LoadedBacked ==
  ASSUME BeatInv, NEW k \in Keys, NEW snap \in LoadSnapshot(k), snap # NoValue
  PROVE  snap \in Snapshot /\ snap.at \in flushes[k] /\ snap.at \in Nat
BY BeatAssumption DEF LoadSnapshot, BeatInv, BeatTyped, BeatTypeOK, Backed, Snapshot, BeatTimes

LEMMA FlushedRow ==
  ASSUME BeatTypeOK, NEW k \in Keys, NEW entry \in Entry, NEW place \in Homes
  PROVE  /\ Flushed(k, entry, place) \in AgentRow /\ Flushed(k, entry, place) # NoValue
         /\ Flushed(k, entry, place).status = entry.status
         /\ Flushed(k, entry, place).seen = beatClock
         /\ entry.runtime \in {Unnamed, Flushed(k, entry, place).runtime}
BY NoValueAssumption DEF Flushed, Exists, BeatTypeOK, AgentRow, Entry, Homes, AgentStatus,
   Reported, Values

LEMMA BeatOfHeartbeat ==
  ASSUME BeatInv, NEW s \in Sources, NEW entries \in Entries(s), NEW snap,
         \A k \in DOMAIN entries : snap[k] \in LoadSnapshot(k),
         ProcessHeartbeat(s, entries, snap)
  PROVE  BeatInv'
<1> DEFINE flush == {k \in DOMAIN entries : ~Exists(k) \/ ShouldFlush(k, entries[k], snap[k])}
<1> USE BeatAssumption
<1>0. BeatTypeOK /\ beatClock \in Nat /\ Throttle \in Nat \ {0} /\ Homes = {"server", "elsewhere"}
  BY DEF BeatInv, BeatTyped, BeatTypeOK, BeatTimes, Homes
<1>1. /\ agents' = [k \in Keys |->
            IF k \in flush THEN Flushed(k, entries[k], "elsewhere")
            ELSE IF k \in Unreported(s, entries) THEN [agents[k] EXCEPT !.status = "missing"]
            ELSE agents[k]]
      /\ flushes' = [k \in Keys |-> IF k \in flush THEN flushes[k] \cup {beatClock} ELSE flushes[k]]
      /\ beat' = [k \in flush |-> [at |-> beatClock, runtime |->
                      IF entries[k].runtime = Unnamed THEN NoValue ELSE entries[k].runtime]]
      /\ lastBeat' = [at |-> beatClock, source |-> s, entries |-> entries]
      /\ since' = [k \in Keys |-> IF k \in flush /\ ~Exists(k) THEN beatClock ELSE since[k]]
      /\ handled < BeatLimit /\ handled' = handled + 1
      /\ UNCHANGED <<snapshots, olderKv, beatClock>>
  BY DEF ProcessHeartbeat, Serve
<1>2. flush \subseteq Keys /\ \A k \in flush : k \in DOMAIN entries /\ entries[k] \in Entry
  BY EntriesTyped
<1>3. /\ \A k \in DOMAIN entries : k \in Keys /\ entries[k] \in Entry
      /\ \A k \in DOMAIN entries : k \notin Unreported(s, entries)
      /\ \A k \in DOMAIN entries \ flush : Exists(k) /\ ~ShouldFlush(k, entries[k], snap[k])
  BY EntriesTyped DEF Unreported
<1> HIDE DEF flush
<1>4. \A k \in flush :
        /\ agents'[k] \in AgentRow /\ agents'[k] # NoValue
        /\ agents'[k].status = entries[k].status /\ agents'[k].seen = beatClock
        /\ entries[k].runtime \in {Unnamed, agents'[k].runtime}
        /\ flushes'[k] = flushes[k] \cup {beatClock}
  BY <1>0, <1>1, <1>2, FlushedRow
<1>5. \A k \in Keys \ flush :
        /\ flushes'[k] = flushes[k] /\ since'[k] = since[k]
        /\ agents'[k] = agents[k] \/ (k \in Unreported(s, entries)
                                      /\ agents'[k] = [agents[k] EXCEPT !.status = "missing"])
        /\ k \in DOMAIN entries => agents'[k] = agents[k]
  BY <1>1, <1>3
<1>6. \A k \in Keys \ flush : agents'[k] # NoValue =>
        /\ agents[k] # NoValue /\ agents'[k].seen = agents[k].seen
  BY <1>0, <1>5 DEF Unreported, OfSource, Exists, BeatTypeOK, AgentRow
<1>7. BeatTyped'
  <2>1. \A k \in Keys : agents'[k] \in AgentRow \cup {NoValue}
    <3>1. \A k \in Keys \ flush : agents'[k] \in AgentRow \cup {NoValue}
      BY <1>0, <1>5 DEF Unreported, OfSource, Exists, BeatTypeOK, AgentRow, AgentStatus
    <3> QED
      BY <1>4, <3>1
  <2>2. agents' \in [Keys -> AgentRow \cup {NoValue}]
    BY <1>1, <2>1
  <2>3. since' \in [Keys -> BeatTimes] /\ flushes' \in [Keys -> SUBSET BeatTimes]
    BY <1>0, <1>1 DEF BeatInv, BeatTyped, BeatTypeOK
  <2>4. \A k \in DOMAIN beat' : beat'[k] \in Snapshot
    BY <1>0, <1>1, <1>2 DEF Snapshot, Entry, Values, BeatTypeOK
  <2>5. handled' \in 0..BeatLimit
    BY <1>0, <1>1 DEF BeatTypeOK
  <2> QED
    BY <1>0, <1>1, <2>2, <2>3, <2>4, <2>5 DEF BeatTyped, BeatTypeOK
<1>8. Backed'
  <2>1. \A k \in Keys : flushes[k] \subseteq flushes'[k]
    BY <1>4, <1>5
  <2>2. \A k \in DOMAIN beat' : k \in flush /\ beat'[k].at = beatClock
    BY <1>1
  <2> QED
    BY <1>1, <1>4, <2>1, <2>2 DEF BeatInv, Backed
<1>9. Landed'
  <2>1. ASSUME NEW k \in flush, NEW f \in flushes'[k]
        PROVE  f <= beatClock /\ agents'[k].seen # NoValue /\ agents'[k].seen >= f
    <3>1. f \in flushes[k] \/ f = beatClock
      BY <1>4
    <3>2. f <= beatClock /\ beatClock # NoValue
      BY <1>0, <1>2, <3>1, NoValueAssumption DEF BeatInv, Landed, BeatTypeOK
    <3>3. f \in Nat
      BY <1>0, <1>2, <3>1 DEF BeatInv, BeatTyped, BeatTimes
    <3> QED
      BY <1>0, <1>4, <3>2, <3>3
  <2> QED
    BY <1>1, <1>2, <1>5, <1>6, <2>1 DEF BeatInv, Landed, Exists
<1>10. \A k \in DOMAIN entries \ flush :
         /\ Exists(k) /\ agents'[k] = agents[k] /\ agents[k].status = entries[k].status
         /\ \E f \in flushes[k] : f \in Nat /\ beatClock - f < Throttle
         /\ since'[k] = since[k] /\ flushes'[k] = flushes[k]
  <2> SUFFICES ASSUME NEW k \in DOMAIN entries \ flush
               PROVE  /\ Exists(k) /\ agents'[k] = agents[k] /\ agents[k].status = entries[k].status
                      /\ \E f \in flushes[k] : f \in Nat /\ beatClock - f < Throttle
                      /\ since'[k] = since[k] /\ flushes'[k] = flushes[k]
    OBVIOUS
  <2>1. /\ k \in Keys /\ Exists(k) /\ entries[k].status = agents[k].status
        /\ snap[k] # NoValue /\ ~(beatClock - snap[k].at >= Throttle)
    BY <1>3 DEF ShouldFlush
  <2>2. snap[k].at \in flushes[k] /\ snap[k].at \in Nat
    BY <2>1, LoadedBacked
  <2>3. beatClock - snap[k].at < Throttle
    BY <1>0, <2>1, <2>2
  <2>4. /\ agents'[k] = agents[k] /\ since'[k] = since[k] /\ flushes'[k] = flushes[k]
    BY <1>5, <2>1
  <2> QED
    BY <2>1, <2>2, <2>3, <2>4
<1>11. HeartbeatLands'
  <2>1. ASSUME NEW k \in DOMAIN entries
        PROVE  /\ agents'[k] # NoValue /\ agents'[k].status = entries[k].status
               /\ \/ agents'[k].seen # NoValue /\ beatClock - agents'[k].seen < Throttle
                  \/ beatClock - since'[k] < Throttle
    <3>1. CASE k \in flush
      BY <1>0, <1>4, <3>1, NoValueAssumption DEF BeatTypeOK
    <3>2. CASE k \notin flush
      <4>1. PICK f \in flushes[k] : f \in Nat /\ beatClock - f < Throttle
        BY <1>10, <3>2
      <4>2. \/ agents[k].seen # NoValue /\ agents[k].seen >= f
            \/ since[k] >= f
        BY <1>3, <1>10, <3>2 DEF BeatInv, Landed
      <4>3. /\ agents[k] \in AgentRow /\ since[k] \in Nat
            /\ agents[k].seen # NoValue => agents[k].seen \in Nat
        BY <1>0, <1>3, <1>10, <3>2 DEF BeatTypeOK, Exists, AgentRow, BeatTimes
      <4> QED
        BY <1>0, <1>10, <3>2, <4>1, <4>2, <4>3 DEF Exists
    <3> QED
      BY <3>1, <3>2
  <2> QED
    BY <1>1, <2>1 DEF HeartbeatLands, Exists
<1>12. DriftBounded'
  <2>1. ASSUME NEW k \in DOMAIN entries
        PROVE  \/ entries[k].runtime \in {Unnamed, agents'[k].runtime}
               \/ \E f \in flushes'[k] : beatClock - f < Throttle
    BY <1>4, <1>10
  <2> QED
    BY <1>1, <2>1 DEF DriftBounded
<1> QED
  BY <1>7, <1>8, <1>9, <1>11, <1>12 DEF BeatInv

\* The other writers stamp a row that they make or edit, and their answers are no heartbeats.
LEMMA BeatOfWriter ==
  ASSUME BeatInv, lastBeat' = NoValue,
         agents' \in [Keys -> AgentRow \cup {NoValue}], since' \in [Keys -> BeatTimes],
         handled' \in 0..BeatLimit,
         UNCHANGED <<snapshots, olderKv, beat, beatClock, flushes>>,
         \A k \in Keys : \/ since'[k] = beatClock
                         \/ /\ since'[k] = since[k]
                            /\ agents'[k] # NoValue =>
                                 agents[k] # NoValue /\ agents'[k].seen = agents[k].seen
  PROVE  BeatInv'
<1>1. BeatTyped' /\ Backed' /\ HeartbeatLands' /\ DriftBounded'
  BY DEF BeatInv, BeatTyped, BeatTypeOK, Backed, HeartbeatLands, DriftBounded
<1>2. Landed'
  BY DEF BeatInv, Landed, Exists
<1> QED
  BY <1>1, <1>2 DEF BeatInv

LEMMA BeatOfConnect ==
  ASSUME BeatInv, NEW s \in Sources, NEW entries \in Entries(s), ConnectHeartbeat(s, entries)
  PROVE  BeatInv'
<1> USE BeatAssumption
<1>0. BeatTypeOK /\ "server" \in Homes
  BY DEF BeatInv, BeatTyped, Homes
<1>1. /\ agents' = [k \in Keys |->
            IF k \in DOMAIN entries THEN Flushed(k, entries[k], "server")
            ELSE IF k \in Unreported(s, entries) THEN [agents[k] EXCEPT !.status = "missing"]
            ELSE agents[k]]
      /\ since' = [k \in Keys |-> IF k \in DOMAIN entries THEN beatClock ELSE since[k]]
      /\ lastBeat' = NoValue /\ handled < BeatLimit /\ handled' = handled + 1
      /\ UNCHANGED <<snapshots, olderKv, beat, beatClock, flushes>>
  BY DEF ConnectHeartbeat, Serve
<1>2. \A k \in DOMAIN entries : k \in Keys /\ Flushed(k, entries[k], "server") \in AgentRow
  BY <1>0, EntriesTyped, FlushedRow
<1>3. \A k \in Unreported(s, entries) :
        /\ agents[k] \in AgentRow /\ agents[k] # NoValue
        /\ [agents[k] EXCEPT !.status = "missing"] \in AgentRow
        /\ [agents[k] EXCEPT !.status = "missing"].seen = agents[k].seen
  BY <1>0 DEF Unreported, OfSource, Exists, BeatTypeOK, AgentRow, AgentStatus
<1>4. \A k \in Keys : agents'[k] \in AgentRow \cup {NoValue}
  BY <1>0, <1>1, <1>2, <1>3 DEF BeatTypeOK
<1>5. /\ agents' \in [Keys -> AgentRow \cup {NoValue}] /\ since' \in [Keys -> BeatTimes]
      /\ handled' \in 0..BeatLimit
  BY <1>0, <1>1, <1>4 DEF BeatTypeOK
<1>6. \A k \in Keys : \/ since'[k] = beatClock
                      \/ /\ since'[k] = since[k]
                         /\ agents'[k] # NoValue =>
                              agents[k] # NoValue /\ agents'[k].seen = agents[k].seen
  BY <1>1, <1>3
<1> QED
  BY <1>1, <1>5, <1>6, BeatOfWriter

LEMMA BeatOfUpsert ==
  ASSUME BeatInv, NEW k \in Keys, NEW st \in NamedStatus, NEW r \in NamedRuntime,
         NEW h \in NamedHome, AgentUpsert(k, st, r, h)
  PROVE  BeatInv'
<1> USE BeatAssumption
<1> DEFINE old == IF Exists(k) THEN agents[k]
                  ELSE [status |-> "unknown", seen |-> NoValue, runtime |-> NoValue, home |-> "elsewhere"]
           new == [status |-> Named(st, old.status), seen |-> old.seen,
                   runtime |-> Named(r, old.runtime), home |-> Named(h, old.home)]
<1>0. BeatTypeOK
  BY DEF BeatInv, BeatTyped
<1>1. old \in AgentRow
  BY <1>0 DEF BeatTypeOK, Exists, AgentRow, AgentStatus, Reported, Values, Homes
<1>2. /\ agents' = [agents EXCEPT ![k] = new] /\ since' = [since EXCEPT ![k] = beatClock]
      /\ lastBeat' = NoValue /\ handled < BeatLimit /\ handled' = handled + 1
      /\ UNCHANGED <<snapshots, olderKv, beat, beatClock, flushes>>
  BY DEF AgentUpsert, Serve
<1> HIDE DEF old
<1>3. new \in AgentRow
  BY <1>1 DEF Named, AgentRow, NamedStatus, NamedRuntime, NamedHome
<1> HIDE DEF new
<1>4. /\ agents' \in [Keys -> AgentRow \cup {NoValue}] /\ since' \in [Keys -> BeatTimes]
      /\ handled' \in 0..BeatLimit
  BY <1>0, <1>2, <1>3 DEF BeatTypeOK
<1>5. \A j \in Keys : since'[j] = beatClock \/ (since'[j] = since[j] /\ agents'[j] = agents[j])
  BY <1>0, <1>2 DEF BeatTypeOK
<1> QED
  BY <1>2, <1>4, <1>5, BeatOfWriter

LEMMA BeatOfDelete ==
  ASSUME BeatInv, NEW k \in Keys, AgentDelete(k)
  PROVE  BeatInv'
<1>0. BeatTypeOK
  BY DEF BeatInv, BeatTyped
<1>1. /\ agents' = [agents EXCEPT ![k] = NoValue] /\ lastBeat' = NoValue
      /\ handled < BeatLimit /\ handled' = handled + 1
      /\ UNCHANGED <<snapshots, olderKv, beat, beatClock, flushes, since>>
  BY DEF AgentDelete, Serve
<1>2. agents' \in [Keys -> AgentRow \cup {NoValue}] /\ handled' \in 0..BeatLimit
  BY <1>0, <1>1, BeatAssumption DEF BeatTypeOK
<1>3. \A j \in Keys : agents'[j] # NoValue => agents'[j] = agents[j]
  BY <1>0, <1>1 DEF BeatTypeOK
<1> QED
  BY <1>0, <1>1, <1>2, <1>3, BeatOfWriter DEF BeatTypeOK

\* Puts that fail leave the snapshot that KV has.
LEMMA BeatOfSnapshots ==
  ASSUME BeatInv, beat # NoValue, NEW written \in SUBSET DOMAIN beat, WriteSnapshots(written)
  PROVE  BeatInv'
<1>1. /\ snapshots' = [k \in Keys |-> IF k \in written THEN beat[k] ELSE snapshots[k]]
      /\ olderKv' = snapshots /\ beat' = NoValue
      /\ UNCHANGED <<agents, beatClock, handled, flushes, since, lastBeat>>
  BY DEF WriteSnapshots
<1>2. \A k \in Keys : \/ snapshots'[k] = snapshots[k]
                      \/ k \in DOMAIN beat /\ snapshots'[k] = beat[k]
  BY <1>1
<1>3. BeatTyped'
  <2>1. \A k \in Keys : snapshots'[k] \in Snapshot \cup {NoValue}
    BY <1>2 DEF BeatInv, BeatTyped, BeatTypeOK
  <2>2. snapshots' \in [Keys -> Snapshot \cup {NoValue}]
    BY <1>1, <2>1
  <2> QED
    BY <1>1, <2>2 DEF BeatInv, BeatTyped, BeatTypeOK
<1>4. Backed'
  BY <1>1, <1>2 DEF BeatInv, Backed
<1> QED
  BY <1>1, <1>3, <1>4 DEF BeatInv, Landed, HeartbeatLands, DriftBounded, Exists

LEMMA BeatOfTick ==
  ASSUME BeatInv, BeatTick
  PROVE  BeatInv'
<1>1. /\ beatClock \in Nat /\ beatClock' = beatClock + 1 /\ beatClock' \in BeatTimes
      /\ lastBeat' = NoValue
      /\ UNCHANGED <<agents, snapshots, olderKv, beat, handled, flushes, since>>
  BY BeatAssumption DEF BeatTick, BeatInv, BeatTyped, BeatTypeOK, BeatTimes
<1>2. \A k \in Keys : \A f \in flushes[k] : f \in Nat
  BY DEF BeatInv, BeatTyped, BeatTimes
<1> QED
  BY <1>1, <1>2 DEF BeatInv, BeatTyped, BeatTypeOK, Backed, Landed, HeartbeatLands, DriftBounded,
     Exists

LEMMA BeatInductive == BeatInv /\ [BeatNext]_beatVars => BeatInv'
<1> SUFFICES ASSUME BeatInv, [BeatNext]_beatVars PROVE BeatInv'
  OBVIOUS
<1>1. ASSUME NEW s \in Sources, NEW entries \in Entries(s), NEW snap,
             \A k \in DOMAIN entries : snap[k] \in LoadSnapshot(k),
             ProcessHeartbeat(s, entries, snap)
      PROVE  BeatInv'
  BY <1>1, BeatOfHeartbeat
<1>2. CASE BatchFails
  BY <1>2, BeatAssumption DEF BatchFails, Serve, BeatInv, BeatTyped, BeatTypeOK, Backed, Landed,
     HeartbeatLands, DriftBounded, Exists
<1>3. CASE UNCHANGED beatVars
  BY <1>3 DEF beatVars, BeatInv, BeatTyped, BeatTypeOK, Backed, Landed, HeartbeatLands,
     DriftBounded, Exists
<1> QED
  BY <1>1, <1>2, <1>3, BeatOfConnect, BeatOfUpsert, BeatOfDelete, BeatOfSnapshots, BeatOfTick
  DEF BeatNext, AgentUpdate

LEMMA BeatInitially == BeatInit => BeatInv
BY BeatAssumption DEF BeatInit, BeatInv, BeatTyped, BeatTypeOK, Backed, Landed, HeartbeatLands,
   DriftBounded, BeatTimes, Exists

\* For any throttle and TTL, and whatever snapshot another writer, a failed batch, a lost put or
\* a stale replica has left: an answered heartbeat is in D1 up to the throttle.
THEOREM HeartbeatsAreHonest == BeatSpec => []HeartbeatsHonest
<1>1. BeatInv => HeartbeatsHonest
  BY DEF BeatInv, BeatTyped, Backed, HeartbeatsHonest, SnapshotHonest
<1> QED
  BY <1>1, BeatInitially, BeatInductive, PTL DEF BeatSpec

\* A heartbeat of one installation leaves the agents of the others alone.
THEOREM OthersUntouched == BeatSpec => OtherSourcesUntouched
<1> DEFINE Own == (lastBeat' # lastBeat /\ lastBeat' # NoValue) =>
                     \A k \in Keys : k[1] # lastBeat'.source => agents'[k] = agents[k]
<1>1. ASSUME NEW s \in Sources, NEW entries \in Entries(s), NEW snap,
             ProcessHeartbeat(s, entries, snap)
      PROVE  Own
  <2>1. lastBeat'.source = s
    BY <1>1 DEF ProcessHeartbeat
  <2>2. ASSUME NEW k \in Keys, k[1] # s PROVE agents'[k] = agents[k]
    <3>1. k \notin DOMAIN entries /\ k \notin Unreported(s, entries)
      BY <2>2, EntriesTyped DEF Unreported, OfSource
    <3> QED
      BY <1>1, <3>1 DEF ProcessHeartbeat
  <2> QED
    BY <2>1, <2>2
<1>2. BeatNext => Own
  BY <1>1 DEF BeatNext, ConnectHeartbeat, BatchFails, WriteSnapshots, AgentDelete, AgentUpdate,
     AgentUpsert, BeatTick
<1>3. [BeatNext]_beatVars => [Own]_beatVars
  BY <1>2
<1> QED
  BY <1>3, PTL DEF BeatSpec, OtherSourcesUntouched

-----------------------------------------------------------------------------
(***************************************************************************)
(* MetricsRollup: whatever ingests, deletions, settings and failures a run *)
(* meets.                                                                  *)
(***************************************************************************)

\* The actions of the run that only move it on.
Pause == PurgeRest \/ Abort

LEMMA PreviousHourIsHour ==
  ASSUME NEW t \in 0..MaxTime, HourOf(t) > 0
  PROVE  PreviousHour(t) \in Hours
<1>1. \A d \in Nat \ {0} : t \div d <= t /\ t \div d \in Int
  BY SMT, RollupAssumption
<1> QED
  BY <1>1, RollupAssumption DEF HourOf, PreviousHour, Hours

-----------------------------------------------------------------------------
(* Type correctness.                                                       *)

LEMMA TypeInit == RollupInit => RollupTypeOK
  BY RollupAssumption DEF RollupInit, RollupTypeOK, Times, Hours

LEMMA TypeStep ==
  ASSUME RollupTypeOK, [RollupNext]_rollupVars
  PROVE  RollupTypeOK'
<1> USE RollupAssumption
<1>1. ASSUME NEW h \in Hosts, NEW t \in Times, Ingest(h, t) PROVE RollupTypeOK'
  BY <1>1 DEF RollupTypeOK, Ingest, InsertRaw, run
<1>2. ASSUME NEW h \in Hosts, DeleteHost(h) PROVE RollupTypeOK'
  BY <1>2 DEF RollupTypeOK, DeleteHost, run, history
<1>3. ASSUME NEW h \in Hosts, RegisterHost(h) PROVE RollupTypeOK'
  BY <1>3 DEF RollupTypeOK, RegisterHost, run, history
<1>4. ASSUME NEW r \in RetentionOptions, SetRetention(r) PROVE RollupTypeOK'
  BY <1>4 DEF RollupTypeOK, SetRetention, run
<1>5. CASE AggregateHour
  <2>1. hour' \in Hours
    BY <1>5, PreviousHourIsHour DEF RollupTypeOK, AggregateHour
  <2>2. \A h \in Hosts : RawOf(h, hour') \subseteq Times
    BY DEF RollupTypeOK, RawOf
  <2>3. due' \in [Hosts -> SUBSET Times]
    BY <1>5, <2>2 DEF AggregateHour
  <2> QED
    BY <1>5, <2>1, <2>3 DEF RollupTypeOK, AggregateHour
<1>6. ASSUME NEW h \in Hosts, ReadHost(h) PROVE RollupTypeOK'
  <2>1. RawOf(h, hour) \subseteq Times
    BY DEF RollupTypeOK, RawOf
  <2>2. rows' \subseteq Times /\ current' \subseteq Hosts /\ todo' \subseteq Hosts
    BY <1>6, <2>1 DEF RollupTypeOK, ReadHost
  <2>3. pc' \in {"hosts", "write"} /\ (pc' = "write" => rows' # {} /\ current' = {h})
    BY <1>6 DEF ReadHost
  <2>4. UNCHANGED <<now, host, raw, hourly, retention, hour, cutoff, taken, configured, due>>
    BY <1>6 DEF ReadHost, history
  <2>5. pc' = "write" => rows' # {} /\ \E g \in Hosts : current' = {g}
    BY <2>3
  <2> QED
    BY <2>2, <2>3, <2>4, <2>5 DEF RollupTypeOK
<1>7. ASSUME NEW h \in Hosts, WriteHost(h) PROVE RollupTypeOK'
  <2>1. /\ UNCHANGED <<now, host, raw, retention, hour, todo, current, rows, cutoff>>
        /\ UNCHANGED <<taken, configured, due>> /\ pc' \in {"hosts", "idle"}
    BY <1>7 DEF WriteHost, history
  <2>2. hourly' \in [Hosts -> [Hours -> SUBSET Times]]
    <3>1. rows \in SUBSET Times /\ hour \in Hours /\ hourly \in [Hosts -> [Hours -> SUBSET Times]]
      BY DEF RollupTypeOK
    <3>2. hourly' = hourly \/ hourly' = [hourly EXCEPT ![h][hour] = rows]
      BY <1>7 DEF WriteHost, UpsertHourly
    <3> QED
      BY <3>1, <3>2
  <2> QED
    BY <2>1, <2>2 DEF RollupTypeOK
<1>8. CASE StartPurge
  <2>1. RetentionDays \subseteq Nat
    BY DEF RetentionDays, Fallback, RollupTypeOK
  <2> QED
    BY <1>8, <2>1 DEF RollupTypeOK, StartPurge, history
<1>9. CASE PurgeRaw
  BY <1>9 DEF RollupTypeOK, PurgeRaw, history
<1>10. CASE PurgeHourly
  BY <1>10 DEF RollupTypeOK, PurgeHourly, history
<1>11. CASE Pause
  BY <1>11 DEF RollupTypeOK, Pause, PurgeRest, Abort, history
<1>12. CASE Tick
  BY <1>12 DEF RollupTypeOK, Tick, run, history
<1>13. CASE UNCHANGED rollupVars
  BY <1>13 DEF RollupTypeOK, rollupVars, run, history
<1> QED
  BY <1>1, <1>2, <1>3, <1>4, <1>5, <1>6, <1>7, <1>8, <1>9, <1>10, <1>11, <1>12, <1>13
  DEF RollupNext, Pause

\* The variables of the database and of the cron run keep their types.
THEOREM RollupTypeCorrect == RollupSpec => []RollupTypeOK
<1>1. RollupInit => RollupTypeOK
  BY TypeInit
<1>2. RollupTypeOK /\ [RollupNext]_rollupVars => RollupTypeOK'
  BY TypeStep
<1> QED
  BY <1>1, <1>2, PTL DEF RollupSpec

-----------------------------------------------------------------------------
(* A deleted host.                                                         *)

LEMMA DeletedStep ==
  ASSUME RollupTypeOK, DeletedHostHasNoMetrics, [RollupNext]_rollupVars
  PROVE  DeletedHostHasNoMetrics'
<1>1. ASSUME NEW h \in Hosts, NEW t \in Times, Ingest(h, t) PROVE DeletedHostHasNoMetrics'
  BY <1>1 DEF RollupTypeOK, Ingest, InsertRaw, DeletedHostHasNoMetrics
<1>2. ASSUME NEW h \in Hosts, DeleteHost(h) PROVE DeletedHostHasNoMetrics'
  BY <1>2 DEF RollupTypeOK, DeleteHost, DeletedHostHasNoMetrics
<1>3. ASSUME NEW h \in Hosts, RegisterHost(h) PROVE DeletedHostHasNoMetrics'
  BY <1>3 DEF RollupTypeOK, RegisterHost, DeletedHostHasNoMetrics
<1>4. ASSUME NEW h \in Hosts, WriteHost(h) PROVE DeletedHostHasNoMetrics'
  BY <1>4 DEF RollupTypeOK, WriteHost, UpsertHourly, DeletedHostHasNoMetrics
<1>5. CASE PurgeRaw
  BY <1>5 DEF RollupTypeOK, PurgeRaw, DeletedHostHasNoMetrics
<1>6. CASE PurgeHourly
  BY <1>6 DEF RollupTypeOK, PurgeHourly, DeletedHostHasNoMetrics
<1>7. ASSUME UNCHANGED <<host, raw, hourly>> PROVE DeletedHostHasNoMetrics'
  BY <1>7 DEF DeletedHostHasNoMetrics
<1>8. \/ AggregateHour \/ StartPurge \/ Pause \/ Tick \/ UNCHANGED rollupVars
      \/ \E h \in Hosts : ReadHost(h)
      \/ \E r \in RetentionOptions : SetRetention(r)
      => UNCHANGED <<host, raw, hourly>>
  BY DEF AggregateHour, StartPurge, Pause, PurgeRest, Abort, Tick, rollupVars, ReadHost, SetRetention
<1> QED
  BY <1>1, <1>2, <1>3, <1>4, <1>5, <1>6, <1>7, <1>8 DEF RollupNext, Pause

\* No interleaving of ingests, deletions and rollups leaves samples or hourly rows
\* of a host that has no hosts row: the guard of the ingest batch and the foreign key
\* behind the hourly upsert are enough.
THEOREM DeletedHostIsForgotten == RollupSpec => []DeletedHostHasNoMetrics
<1>1. RollupInit => DeletedHostHasNoMetrics
  BY DEF RollupInit, DeletedHostHasNoMetrics
<1>2. RollupTypeOK /\ DeletedHostHasNoMetrics /\ [RollupNext]_rollupVars => DeletedHostHasNoMetrics'
  BY DeletedStep
<1> QED
  BY <1>1, <1>2, RollupTypeCorrect, PTL DEF RollupSpec

-----------------------------------------------------------------------------
(* Retention.                                                              *)

\* While a run is under way the stored setting is among the configured ones, and the
\* limit it purges by belongs to one of them, or to the default.
LimitIsConfigured ==
    /\ pc # "idle" => retention \in configured
    /\ pc \in {"raw", "hourly"} => \E r \in configured \cup Fallback : cutoff <= now - r

LEMMA LimitStep ==
  ASSUME RollupTypeOK, LimitIsConfigured, [RollupNext]_rollupVars
  PROVE  LimitIsConfigured'
<1> USE RollupAssumption
<1>1. ASSUME NEW r \in RetentionOptions, SetRetention(r) PROVE LimitIsConfigured'
  <2>1. configured \subseteq configured'
    BY <1>1 DEF SetRetention
  <2>2. pc # "idle" => retention' \in configured'
    BY <1>1 DEF SetRetention
  <2> QED
    BY <1>1, <2>1, <2>2 DEF LimitIsConfigured, SetRetention, run
<1>2. CASE AggregateHour
  BY <1>2 DEF LimitIsConfigured, AggregateHour
<1>3. ASSUME NEW h \in Hosts, ReadHost(h) \/ WriteHost(h) PROVE LimitIsConfigured'
  BY <1>3 DEF LimitIsConfigured, ReadHost, WriteHost, history
<1>4. CASE StartPurge
  <2>1. PICK r \in RetentionDays : cutoff' = now - r
    BY <1>4 DEF StartPurge
  <2>2. r \in configured \cup Fallback /\ retention \in configured
    BY <1>4 DEF LimitIsConfigured, StartPurge, RetentionDays
  <2>3. r \in Nat /\ cutoff' <= now - r
    BY <2>1 DEF RollupTypeOK, RetentionDays, Fallback
  <2> QED
    BY <1>4, <2>2, <2>3 DEF LimitIsConfigured, StartPurge, history
<1>5. CASE PurgeRaw \/ PurgeHourly \/ Pause
  BY <1>5 DEF LimitIsConfigured, PurgeRaw, PurgeHourly, Pause, PurgeRest, Abort, history
<1>6. CASE Tick
  <2>1. ASSUME NEW r \in configured \cup Fallback, cutoff <= now - r PROVE cutoff <= now' - r
    BY <1>6, <2>1 DEF Tick, RollupTypeOK, Fallback
  <2> QED
    BY <1>6, <2>1 DEF LimitIsConfigured, Tick, run, history
<1>7. ASSUME UNCHANGED <<now, retention, run, configured>> PROVE LimitIsConfigured'
  BY <1>7 DEF LimitIsConfigured, run
<1>8. \/ UNCHANGED rollupVars
      \/ \E h \in Hosts : DeleteHost(h) \/ RegisterHost(h) \/ \E t \in Times : Ingest(h, t)
      => UNCHANGED <<now, retention, run, configured>>
  BY DEF rollupVars, history, DeleteHost, RegisterHost, Ingest
<1> QED
  BY <1>1, <1>2, <1>3, <1>4, <1>5, <1>6, <1>7, <1>8 DEF RollupNext, Pause

LEMMA HonoursStep ==
  ASSUME RollupTypeOK, LimitIsConfigured, [RollupNext]_rollupVars
  PROVE  RetentionHonoured \/ UNCHANGED rollupVars
<1> USE RollupAssumption
<1>1. ASSUME NEW g \in Hosts, NEW s \in Times, Ingest(g, s) PROVE RetentionHonoured
  BY <1>1 DEF RollupTypeOK, Ingest, InsertRaw, RetentionHonoured
<1>2. ASSUME NEW g \in Hosts, DeleteHost(g) PROVE RetentionHonoured
  BY <1>2 DEF RollupTypeOK, DeleteHost, RetentionHonoured
<1>3. ASSUME NEW g \in Hosts, WriteHost(g) PROVE RetentionHonoured
  BY <1>3 DEF RollupTypeOK, WriteHost, UpsertHourly, RetentionHonoured
<1>4. CASE PurgeRaw
  <2>1. PICK r \in configured \cup Fallback : cutoff <= now - r
    BY <1>4 DEF PurgeRaw, LimitIsConfigured
  <2>2. \A t \in Times : Expired(t) => t < now - r
    BY <2>1 DEF Expired, RollupTypeOK, Times, Fallback
  <2> QED
    BY <1>4, <2>2 DEF PurgeRaw, RetentionHonoured, RollupTypeOK
<1>5. CASE PurgeHourly
  <2>1. PICK r \in configured \cup Fallback : cutoff <= now - r
    BY <1>5 DEF PurgeHourly, LimitIsConfigured
  <2>2. \A k \in Hours : HourStart(k) \in Int
    BY DEF HourStart, Hours
  <2>3. \A k \in Hours : Expired(HourStart(k)) => HourStart(k) < now - r
    BY <2>1, <2>2 DEF Expired, RollupTypeOK, Fallback
  <2> QED
    BY <1>5, <2>3 DEF PurgeHourly, RetentionHonoured, RollupTypeOK
<1>6. ASSUME UNCHANGED <<raw, hourly>> PROVE RetentionHonoured
  BY <1>6 DEF RetentionHonoured
<1>7. \/ AggregateHour \/ StartPurge \/ Pause \/ Tick
      \/ \E h \in Hosts : ReadHost(h) \/ RegisterHost(h)
      \/ \E r \in RetentionOptions : SetRetention(r)
      => UNCHANGED <<raw, hourly>>
  BY DEF AggregateHour, StartPurge, Pause, PurgeRest, Abort, Tick, ReadHost, RegisterHost,
         SetRetention
<1> QED
  BY <1>1, <1>2, <1>3, <1>4, <1>5, <1>6, <1>7 DEF RollupNext, Pause

\* A run removes nothing younger than a retention that was configured while it ran, or
\* than the default where reads may fail, whoever changes the setting between its
\* statements.
THEOREM RetentionIsHonoured == RollupSpec => [][RetentionHonoured]_rollupVars
<1>1. RollupInit => LimitIsConfigured
  BY DEF RollupInit, LimitIsConfigured
<1>2. RollupTypeOK /\ LimitIsConfigured /\ [RollupNext]_rollupVars => LimitIsConfigured'
  BY LimitStep
<1>3. RollupTypeOK /\ LimitIsConfigured /\ [RollupNext]_rollupVars => [RetentionHonoured]_rollupVars
  BY HonoursStep
<1> QED
  BY <1>1, <1>2, <1>3, RollupTypeCorrect, PTL DEF RollupSpec

-----------------------------------------------------------------------------
(* What was due is rolled up.                                              *)

\* What a run has done for a host: its due samples are in the row, or were read for it.
\* What was read replaces a row that an earlier run in the same hour has written.
Served(h) ==
    IF pc = "write" /\ current = {h} THEN due[h] \subseteq rows
                                     ELSE due[h] \subseteq hourly[h][hour]

\* While the hosts are rolled up, due samples stay stored, and a host the run has come
\* to, or never had to, has been served.
DueStored ==
    pc \in {"hosts", "write"} =>
      \A h \in Hosts : due[h] \subseteq RawOf(h, hour) /\ (h \notin todo => Served(h))

LEMMA DueStep ==
  ASSUME RollupTypeOK, DeletedHostHasNoMetrics, DueStored, [RollupNext]_rollupVars
  PROVE  DueStored'
<1> USE DEF RollupTypeOK, RawOf
<1>1. ASSUME NEW g \in Hosts, NEW t \in Times, Ingest(g, t) PROVE DueStored'
  <2>1. UNCHANGED <<hourly, run, due>> /\ \A h \in Hosts : raw[h] \subseteq raw'[h]
    BY <1>1 DEF Ingest, InsertRaw
  <2> QED
    BY <2>1 DEF DueStored, Served, run
<1>2. ASSUME NEW g \in Hosts, DeleteHost(g) PROVE DueStored'
  <2>1. /\ UNCHANGED run /\ due'[g] = {}
        /\ \A h \in Hosts \ {g} : due'[h] = due[h] /\ raw'[h] = raw[h] /\ hourly'[h] = hourly[h]
    BY <1>2 DEF DeleteHost
  <2> QED
    BY <2>1 DEF DueStored, Served, run
<1>3. CASE AggregateHour
  <2>1. \A h \in Hosts : host[h] # "present" => raw[h] = {}
    BY DEF DeletedHostHasNoMetrics
  <2> QED
    BY <1>3, <2>1 DEF DueStored, Served, AggregateHour
<1>4. ASSUME NEW g \in Hosts, ReadHost(g) PROVE DueStored'
  <2>1. /\ UNCHANGED <<raw, hourly, hour, due>> /\ pc = "hosts" /\ g \in todo
        /\ todo' = todo \ {g} /\ rows' = RawOf(g, hour)
        /\ rows' # {} => pc' = "write" /\ current' = {g}
        /\ rows' = {} => pc' = "hosts"
    BY <1>4 DEF ReadHost, history
  <2>2. \A h \in Hosts : h \notin todo => due[h] \subseteq hourly[h][hour]
    BY <2>1 DEF DueStored, Served
  <2>3. \A h \in Hosts : due[h] \subseteq RawOf(h, hour)
    BY <2>1 DEF DueStored
  <2>4. Served(g)'
    BY <2>1, <2>3 DEF Served
  <2>5. \A h \in Hosts \ {g} : h \notin todo => Served(h)'
    <3>1. \A h \in Hosts \ {g} : ~(pc' = "write" /\ current' = {h})
      BY <2>1
    <3> QED
      BY <2>1, <2>2, <3>1 DEF Served
  <2>6. \A h \in Hosts : due'[h] \subseteq RawOf(h, hour)'
    BY <2>1, <2>3
  <2> QED
    BY <2>1, <2>4, <2>5, <2>6 DEF DueStored
<1>5. ASSUME NEW g \in Hosts, WriteHost(g) PROVE DueStored'
  <2>1. CASE host[g] # "present"
    BY <1>5, <2>1 DEF WriteHost, DueStored
  <2>2. CASE host[g] = "present"
    <3>1. /\ UNCHANGED <<raw, hour, todo, due>> /\ pc = "write" /\ current = {g}
          /\ pc' = "hosts" /\ hourly'[g][hour] = rows
          /\ \A h \in Hosts \ {g} : hourly'[h] = hourly[h]
      BY <1>5, <2>2 DEF WriteHost, UpsertHourly, history
    <3>2. \A h \in Hosts \ {g} : h \notin todo => due[h] \subseteq hourly[h][hour]
      BY <3>1 DEF DueStored, Served
    <3>3. g \notin todo => due[g] \subseteq rows
      BY <3>1 DEF DueStored, Served
    <3>4. \A h \in Hosts : due[h] \subseteq RawOf(h, hour)
      BY <3>1 DEF DueStored
    <3>5. \A h \in Hosts : due'[h] \subseteq RawOf(h, hour)'
      BY <3>1, <3>4
    <3>6. \A h \in Hosts : h \notin todo' => due'[h] \subseteq hourly'[h][hour']
      <4>1. ASSUME NEW h \in Hosts, h \notin todo PROVE due[h] \subseteq hourly'[h][hour]
        <5>1. CASE h = g
          BY <3>1, <3>3, <4>1, <5>1
        <5>2. CASE h # g
          BY <3>1, <3>2, <4>1, <5>2
        <5> QED
          BY <5>1, <5>2
      <4> QED
        BY <3>1, <4>1
    <3>7. \A h \in Hosts : h \notin todo' => Served(h)'
      BY <3>1, <3>6 DEF Served
    <3> QED
      BY <3>5, <3>7 DEF DueStored
  <2> QED
    BY <2>1, <2>2
<1>6. CASE StartPurge \/ PurgeRaw \/ PurgeHourly \/ Pause
  BY <1>6 DEF StartPurge, PurgeRaw, PurgeHourly, Pause, PurgeRest, Abort, DueStored
<1>7. ASSUME UNCHANGED <<raw, hourly, run, due>> PROVE DueStored'
  BY <1>7 DEF DueStored, Served, run
<1>8. \/ Tick \/ UNCHANGED rollupVars \/ \E h \in Hosts : RegisterHost(h)
      \/ \E r \in RetentionOptions : SetRetention(r)
      => UNCHANGED <<raw, hourly, run, due>>
  BY DEF Tick, rollupVars, history, RegisterHost, SetRetention
<1> QED
  BY <1>1, <1>2, <1>3, <1>4, <1>5, <1>6, <1>7, <1>8 DEF RollupNext, Pause

\* When a run goes on to its purge, every sample that was stored for the hour when it
\* began is in an hourly row, unless its host was deleted.
THEOREM DueSamplesRolledUp == RollupSpec => [][HourRolledUp]_rollupVars
<1>1. RollupInit => DueStored
  BY DEF RollupInit, DueStored
<1>2. RollupTypeOK /\ DeletedHostHasNoMetrics /\ DueStored /\ [RollupNext]_rollupVars => DueStored'
  BY DueStep
<1>3. RollupTypeOK /\ DueStored /\ [RollupNext]_rollupVars => [HourRolledUp]_rollupVars
  <2> SUFFICES ASSUME RollupTypeOK, DueStored, [RollupNext]_rollupVars, pc = "hosts", pc' = "raw"
               PROVE  \A h \in Hosts : due[h] \subseteq hourly[h][hour]
    BY DEF HourRolledUp
  <2>1. todo = {}
    BY DEF RollupNext, rollupVars, run, DeleteHost, RegisterHost, ReadHost, WriteHost, Ingest, SetRetention,
           AggregateHour, StartPurge, PurgeRaw, PurgeHourly, PurgeRest, Abort, Tick
  <2> QED
    BY <2>1 DEF DueStored, Served
<1> QED
  BY <1>1, <1>2, <1>3, RollupTypeCorrect, DeletedHostIsForgotten, PTL DEF RollupSpec

\* For any hosts, retentions and samples: a run of the cron removes nothing before its
\* retention and purges with nothing of the hour left unaggregated.
THEOREM RunsLoseNothing == RollupSpec => RunLosesNothing
  BY RetentionIsHonoured, DueSamplesRolledUp, PTL DEF RunLosesNothing
=============================================================================
