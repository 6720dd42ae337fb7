------------------------- MODULE ConnectPlaneProofs -------------------------
(***************************************************************************)
(* Proofs about the Connect API: the coordinator with its configuration    *)
(* changes, and the management of its tokens.                              *)
(***************************************************************************)
EXTENDS ConnectMutations, ConnectTokens, FiniteSetTheorems, TLAPS

-----------------------------------------------------------------------------
(***************************************************************************)
(* ConnectMutations, for any number of requests and keys, any queue        *)
(* capacity and any revision.                                              *)
(***************************************************************************)

-----------------------------------------------------------------------------
(* Type correctness.                                                       *)

LEMMA IdleIsRequest == Idle \in Requests
  BY DEF Idle, Requests, Change

LEMMA RowIsRow ==
  ASSUME NEW i \in Intents, NEW st \in {"pending", "complete"}, NEW b \in BOOLEAN
  PROVE  /\ [intent |-> i, state |-> st, response |-> b] \in RecordRow
         /\ [intent |-> i, state |-> st, response |-> b] # None
<1>1. [intent |-> i, state |-> st, response |-> b] \in RecordRow
  BY DEF RecordRow
<1>2. None \notin RecordRow
  BY ConnectAssumption DEF RecordRow
<1> QED
  BY <1>1, <1>2

LEMMA TypeInductive == TypeOK /\ [Next]_vars => TypeOK'
<1> SUFFICES ASSUME TypeOK, [Next]_vars PROVE TypeOK'
  OBVIOUS
<1> USE ConnectAssumption DEF TypeOK, coordinator, database, history, Steps, Answers, Refusals
<1>1. ASSUME NEW s \in Slots, Send(s) PROVE TypeOK'
  BY <1>1 DEF Send
<1>2. ASSUME NEW s \in Slots, StartWork(s) \/ QueueTimeout(s) PROVE TypeOK'
  <2>1. queue \in Seq(Slots) /\ queue # <<>> => Tail(queue) \in Seq(Slots)
    OBVIOUS
  <2>2. req[s].kind = "connect" => req[s] \in Mutation
    BY DEF Requests, Change
  <2> QED
    BY <1>2, <2>1, <2>2 DEF StartWork, QueueTimeout, Dequeue
<1>3. ASSUME NEW s \in Slots, Settle(s) PROVE TypeOK'
  BY <1>3, IdleIsRequest DEF Settle
<1>4. ASSUME NEW s \in Slots, Authorize(s) \/ ReadPrior(s) \/ CheckEtag(s) PROVE TypeOK'
  BY <1>4 DEF Authorize, ReadPrior, CheckEtag, At, Continue, End
<1>5. ASSUME NEW s \in Slots, BeginRequest(s) \/ FinishRequest(s) PROVE TypeOK'
  <2>1. req[s].key \in Keys /\ req[s].intent \in Intents
    BY <1>5 DEF BeginRequest, FinishRequest, At, Mutation
  <2>2. ASSUME NEW st \in {"pending", "complete"}, NEW b \in BOOLEAN
        PROVE  [intent |-> req[s].intent, state |-> st, response |-> b] \in RecordRow
    BY <2>1, RowIsRow
  <2>3. records' \in [Keys -> RecordRow \cup {None}]
    BY <1>5, <2>1, <2>2 DEF BeginRequest, FinishRequest
  <2>4. step' \in [Slots -> Steps] /\ answer' \in [Slots -> Answers]
    BY <1>5 DEF BeginRequest, FinishRequest, Continue, End
  <2>5. \A t \in Slots :
          step'[t] \in {"auth", "prior", "etag", "begin", "invoke", "finish"}
            => req[t] \in Mutation
    BY <1>5 DEF BeginRequest, FinishRequest, At, Continue, End
  <2> QED
    BY <1>5, <2>3, <2>4, <2>5 DEF BeginRequest, FinishRequest, Continue, End
<1>6. ASSUME NEW s \in Slots, Invoke(s) PROVE TypeOK'
  <2>1. req[s].key \in Keys
    BY <1>6 DEF Invoke, At, Mutation
  <2> QED
    BY <1>6, <2>1 DEF Invoke, At, Continue
<1>7. ASSUME NEW s \in Slots, Fail(s) \/ TimeOut(s) PROVE TypeOK'
  BY <1>7 DEF Fail, TimeOut, End
<1>8. ASSUME NEW s \in Slots,
             EditConfiguration(s) \/ EditGrants(s) \/ DeleteHost(s) \/ RegisterHost(s)
      PROVE  TypeOK'
  <2>1. End(s, "applied") /\ UNCHANGED history
    BY <1>8 DEF EditConfiguration, EditGrants, DeleteHost, RegisterHost
  <2>2. records' \in [Keys -> RecordRow \cup {None}] /\ revision' \in 0..MaxRevision
    BY <1>8 DEF EditConfiguration, EditGrants, DeleteHost, RegisterHost
  <2>3. host' \in {"present", "deleted", "registered"} /\ granted' \in BOOLEAN
    BY <1>8 DEF EditConfiguration, EditGrants, DeleteHost, RegisterHost
  <2> QED
    BY <2>1, <2>2, <2>3 DEF End
<1>9. CASE HostReports
  BY <1>9 DEF HostReports
<1>10. CASE ExpireResponses
  <2>1. \A row \in RecordRow : [row EXCEPT !.response = FALSE] \in RecordRow
    BY DEF RecordRow
  <2>2. records' \in [Keys -> RecordRow \cup {None}]
    BY <1>10, <2>1 DEF ExpireResponses
  <2> QED
    BY <1>10, <2>2 DEF ExpireResponses
<1>11. CASE Evict
  BY <1>11, IdleIsRequest DEF Evict
<1>12. CASE UNCHANGED vars
  BY <1>12 DEF vars
<1> QED
  BY <1>1, <1>2, <1>3, <1>4, <1>5, <1>6, <1>7, <1>8, <1>9, <1>10, <1>11, <1>12
     DEF Next, Progress, Work

\* Every reachable state of the coordinator and of its requests is well typed.
THEOREM TypeCorrect == Spec => []TypeOK
<1>1. Init => TypeOK
  BY ConnectAssumption, IdleIsRequest
     DEF Init, TypeOK, Steps, Answers, Refusals, RecordRow
<1> QED
  BY <1>1, TypeInductive, PTL DEF Spec

-----------------------------------------------------------------------------
(* One request at a time holds the tail.                                   *)

\* Only the running request is past the queue.
Exclusive == \A s \in Slots : step[s] \notin {"idle", "queued"} => running = s

\* The queue holds each waiting request once.
Queued ==
    /\ \A i \in 1..Len(queue) : step[queue[i]] = "queued"
    /\ \A i, j \in 1..Len(queue) : queue[i] = queue[j] => i = j
    /\ running # None => step[running] \notin {"idle", "queued"}

QueueInv == Exclusive /\ Queued /\ QueueAccounted

\* What every step of the running request does to the coordinator.
WorkFrame(s) ==
    /\ running = s
    /\ step[s] \notin {"idle", "queued"}
    /\ UNCHANGED <<coordinator, req>>
    /\ \E l \in Steps \ {"idle", "queued"} : step' = [step EXCEPT ![s] = l]

LEMMA WorkFrames ==
  ASSUME TypeOK, NEW s \in Slots, Work(s) \/ TimeOut(s)
  PROVE  WorkFrame(s)
<1> USE DEF TypeOK, WorkFrame, Steps
<1>1. CASE Authorize(s) \/ ReadPrior(s) \/ CheckEtag(s)
  BY <1>1 DEF Authorize, ReadPrior, CheckEtag, At, Continue, End
<1>2. CASE BeginRequest(s) \/ FinishRequest(s) \/ Invoke(s)
  BY <1>2 DEF BeginRequest, FinishRequest, Invoke, At, Continue, End
<1>3. CASE EditConfiguration(s) \/ EditGrants(s) \/ DeleteHost(s) \/ RegisterHost(s)
  BY <1>3 DEF EditConfiguration, EditGrants, DeleteHost, RegisterHost, At, End
<1>4. CASE Fail(s)
  BY <1>4 DEF Fail, End
<1>5. CASE TimeOut(s)
  <2>1. step' = [step EXCEPT ![s] = step[s]]
    BY <1>5 DEF TimeOut
  <2> QED
    BY <1>5, <2>1 DEF TimeOut
<1> QED
  BY <1>1, <1>2, <1>3, <1>4, <1>5 DEF Work

LEMMA QueueInductive ==
  ASSUME TypeOK, QueueInv, [Next]_vars
  PROVE  QueueInv'
<1> USE ConnectAssumption DEF TypeOK, coordinator, QueueInv
<1>1. ASSUME NEW s \in Slots, Send(s) PROVE QueueInv'
  <2>1. Exclusive'
    BY <1>1 DEF Send, Exclusive
  <2>2. Len(queue') = Len(queue) + 1 /\ queue'[Len(queue) + 1] = s
        /\ \A i \in 1..Len(queue) : queue'[i] = queue[i] /\ queue[i] # s
    BY <1>1 DEF Send, Queued
  <2>3. Queued'
    BY <1>1, <2>2 DEF Send, Queued
  <2>4. QueueAccounted'
    BY <1>1, <2>2 DEF Send, QueueAccounted
  <2> QED
    BY <2>1, <2>3, <2>4
<1>2. ASSUME NEW s \in Slots, StartWork(s) \/ QueueTimeout(s) PROVE QueueInv'
  <2>1. PICK l \in Steps \ {"idle", "queued"} : Dequeue(s, l)
    BY <1>2 DEF StartWork, QueueTimeout, Steps
  <2>2. Len(queue) > 0 /\ s = queue[1] /\ Len(queue') = Len(queue) - 1
        /\ \A i \in 1..Len(queue') : queue'[i] = queue[i + 1]
    BY <2>1 DEF Dequeue
  <2>3. Exclusive'
    BY <2>1 DEF Dequeue, Exclusive
  <2>4. Queued'
    BY <2>1, <2>2 DEF Dequeue, Queued, Steps
  <2>5. QueueAccounted'
    BY <2>1, <2>2 DEF Dequeue, QueueAccounted
  <2> QED
    BY <2>3, <2>4, <2>5
<1>3. ASSUME NEW s \in Slots, Settle(s) PROVE QueueInv'
  BY <1>3 DEF Settle, Exclusive, Queued, QueueAccounted
<1>4. ASSUME NEW s \in Slots, WorkFrame(s) PROVE QueueInv'
  BY <1>4 DEF WorkFrame, Exclusive, Queued, QueueAccounted
<1>5. CASE HostReports \/ ExpireResponses
  BY <1>5 DEF HostReports, ExpireResponses, Exclusive, Queued, QueueAccounted
<1>6. CASE Evict
  BY <1>6 DEF Evict, Exclusive, Queued, QueueAccounted
<1>7. CASE UNCHANGED vars
  BY <1>7 DEF vars, Exclusive, Queued, QueueAccounted
<1> QED
  BY <1>1, <1>2, <1>3, <1>4, <1>5, <1>6, <1>7, WorkFrames DEF Next, Progress

LEMMA QueueInvariant == Spec => []QueueInv
<1>1. Init => QueueInv
  BY ConnectAssumption DEF Init, QueueInv, Exclusive, Queued, QueueAccounted
<1>2. TypeOK /\ QueueInv /\ [Next]_vars => QueueInv'
  BY QueueInductive
<1> QED
  BY <1>1, <1>2, TypeCorrect, PTL DEF Spec

\* The coordinator's counter equals the number of requests it holds, so it cannot
\* leak and turn into a permanent 429.
THEOREM QueueIsAccounted == Spec => []QueueAccounted
  BY QueueInvariant, PTL DEF QueueInv

-----------------------------------------------------------------------------
(* Optimistic concurrency: the checked revision is the one written over.   *)

\* From the If-Match check to the handler the revision does not move.
Matched ==
    \A s \in Slots : step[s] \in {"begin", "invoke"} => revision = req[s].ifMatch

LEMMA MatchedInductive ==
  ASSUME TypeOK, QueueInv, Matched, [Next]_vars
  PROVE  Matched'
<1> USE ConnectAssumption DEF TypeOK, coordinator, database, history
<1>1. ASSUME NEW s \in Slots, Send(s) \/ StartWork(s) \/ QueueTimeout(s) \/ Settle(s)
      PROVE  Matched'
  BY <1>1 DEF Send, StartWork, QueueTimeout, Dequeue, Settle, Matched
<1>2. ASSUME NEW s \in Slots,
             Authorize(s) \/ ReadPrior(s) \/ CheckEtag(s) \/ BeginRequest(s)
      PROVE  Matched'
  BY <1>2 DEF Authorize, ReadPrior, CheckEtag, BeginRequest, At, Continue, End, Matched
<1>3. ASSUME NEW s \in Slots, FinishRequest(s) \/ Fail(s) \/ TimeOut(s) PROVE Matched'
  BY <1>3 DEF FinishRequest, Fail, TimeOut, At, End, Matched
\* The steps that move the revision are the running request's, and leave it past
\* both labels; no other request is past the queue.
<1>4. ASSUME NEW s \in Slots, Invoke(s) PROVE Matched'
  BY <1>4 DEF Invoke, At, Continue, Matched, QueueInv, Exclusive
<1>5. ASSUME NEW s \in Slots,
             EditConfiguration(s) \/ EditGrants(s) \/ DeleteHost(s) \/ RegisterHost(s)
      PROVE  Matched'
  <2>1. \A t \in Slots : step'[t] \notin {"begin", "invoke"}
    BY <1>5 DEF EditConfiguration, EditGrants, DeleteHost, RegisterHost, At, End,
                QueueInv, Exclusive
  <2> QED
    BY <2>1 DEF Matched
<1>6. CASE HostReports \/ ExpireResponses
  BY <1>6 DEF HostReports, ExpireResponses, Matched
<1>7. CASE Evict
  BY <1>7 DEF Evict, Matched
<1>8. CASE UNCHANGED vars
  BY <1>8 DEF vars, Matched
<1> QED
  BY <1>1, <1>2, <1>3, <1>4, <1>5, <1>6, <1>7, <1>8 DEF Next, Progress, Work

\* A mutation's handler runs on the revision its client named in If-Match, even with
\* browser edits, deletions, timeouts and lost objects around it.
THEOREM IfMatchIsHonoured == Spec => IfMatchHonoured
<1>1. Init => Matched
  BY DEF Init, Matched
<1>2. TypeOK /\ QueueInv /\ Matched /\ [Next]_vars => Matched'
  BY MatchedInductive
<1> DEFINE A == \A s \in Slots : s \in ran' \ ran => revision = req[s].ifMatch
<1>3. TypeOK /\ Matched /\ [Next]_vars => [A]_vars
  <2> SUFFICES ASSUME TypeOK, Matched, Next, NEW s \in Slots, s \in ran' \ ran
               PROVE  revision = req[s].ifMatch
    BY DEF A
  <2>1. Invoke(s)
    BY DEF Next, Progress, Work, Send, StartWork, QueueTimeout, Dequeue, Settle,
           Authorize, ReadPrior, CheckEtag, BeginRequest, FinishRequest, Fail, TimeOut,
           EditConfiguration, EditGrants, DeleteHost, RegisterHost, HostReports,
           ExpireResponses, Evict, Invoke, history
  <2> QED
    BY <2>1 DEF Invoke, At, Matched
<1> QED
  BY <1>1, <1>2, <1>3, TypeCorrect, QueueInvariant, PTL DEF Spec, IfMatchHonoured, A

-----------------------------------------------------------------------------
(* At most once.                                                           *)

\* A key whose handler has run keeps its record, and a request about to run its
\* handler holds the record of a key that has not run.
Recorded ==
    /\ \A k \in Keys : executions[k] # 0 => records[k] # None
    /\ \A s \in Slots :
         step[s] = "invoke" => records[req[s].key] # None /\ executions[req[s].key] = 0

OnceInv == AtMostOnce /\ Recorded

LEMMA OnceInductive ==
  ASSUME ~HostDeletion, TypeOK, QueueInv, OnceInv, [Next]_vars
  PROVE  OnceInv'
<1> USE ConnectAssumption DEF TypeOK, coordinator, database, history, OnceInv, AtMostOnce, Recorded
<1>1. ASSUME NEW s \in Slots, Send(s) \/ StartWork(s) \/ QueueTimeout(s) \/ Settle(s)
      PROVE  OnceInv'
  BY <1>1 DEF Send, StartWork, QueueTimeout, Dequeue, Settle
<1>2. ASSUME NEW s \in Slots, Authorize(s) \/ ReadPrior(s) \/ CheckEtag(s)
      PROVE  OnceInv'
  BY <1>2 DEF Authorize, ReadPrior, CheckEtag, At, Continue, End
<1>3. ASSUME NEW s \in Slots, Fail(s) \/ TimeOut(s) PROVE OnceInv'
  BY <1>3 DEF Fail, TimeOut, End
<1>4. ASSUME NEW s \in Slots, BeginRequest(s) PROVE OnceInv'
  <2>1. req[s].key \in Keys /\ req[s].intent \in Intents
    BY <1>4 DEF BeginRequest, At, Mutation
  <2>2. [intent |-> req[s].intent, state |-> "pending", response |-> FALSE] # None
    BY <2>1, RowIsRow
  <2>3. \A t \in Slots : t # s => step[t] # "invoke"
    BY <1>4 DEF BeginRequest, At, QueueInv, Exclusive
  <2>4. CASE records[req[s].key] = None
    BY <1>4, <2>1, <2>2, <2>3, <2>4 DEF BeginRequest, At, Continue
  <2>5. CASE records[req[s].key] # None
    BY <1>4, <2>5 DEF BeginRequest, At, End
  <2> QED
    BY <2>4, <2>5
<1>5. ASSUME NEW s \in Slots, Invoke(s) PROVE OnceInv'
  <2>1. req[s].key \in Keys
    BY <1>5 DEF Invoke, At, Mutation
  <2>2. \A t \in Slots : step'[t] # "invoke"
    BY <1>5 DEF Invoke, At, Continue, QueueInv, Exclusive
  <2> QED
    BY <1>5, <2>1, <2>2 DEF Invoke, At, Continue
<1>6. ASSUME NEW s \in Slots, FinishRequest(s) PROVE OnceInv'
  <2>1. req[s].key \in Keys /\ req[s].intent \in Intents
    BY <1>6 DEF FinishRequest, At, Mutation
  <2>2. [intent |-> req[s].intent, state |-> "complete", response |-> TRUE] # None
    BY <2>1, RowIsRow
  <2>3. \A t \in Slots : step'[t] # "invoke"
    BY <1>6 DEF FinishRequest, At, End, QueueInv, Exclusive
  <2> QED
    BY <1>6, <2>1, <2>2, <2>3 DEF FinishRequest, At, End
<1>7. ASSUME NEW s \in Slots, EditConfiguration(s) \/ EditGrants(s) PROVE OnceInv'
  BY <1>7 DEF EditConfiguration, EditGrants, At, End
<1>8. ASSUME NEW s \in Slots PROVE ~DeleteHost(s) /\ ~RegisterHost(s)
  <2>1. req[s].kind \notin {"delete", "register"}
    BY DEF Requests, Mutation, Change
  <2> QED
    BY <2>1 DEF DeleteHost, RegisterHost
<1>9. CASE HostReports
  BY <1>9 DEF HostReports
<1>10. CASE ExpireResponses
  <2>1. \A row \in RecordRow : [row EXCEPT !.response = FALSE] \in RecordRow
    BY DEF RecordRow
  <2>2. None \notin RecordRow
    BY DEF RecordRow
  <2>3. \A k \in Keys : records[k] # None => records'[k] # None
    BY <1>10, <2>1, <2>2 DEF ExpireResponses
  <2>4. \A s \in Slots : step[s] = "invoke" => req[s].key \in Keys
    BY DEF Mutation
  <2> QED
    BY <1>10, <2>3, <2>4 DEF ExpireResponses
<1>11. CASE Evict
  BY <1>11 DEF Evict
<1>12. CASE UNCHANGED vars
  BY <1>12 DEF vars
<1> QED
  BY <1>1, <1>2, <1>3, <1>4, <1>5, <1>6, <1>7, <1>8, <1>9, <1>10, <1>11, <1>12
     DEF Next, Progress, Work

\* As long as the host is not deleted, no Idempotency-Key runs its handler twice.
THEOREM RunsAtMostOnce ==
  ASSUME ~HostDeletion
  PROVE  Spec => []AtMostOnce
<1>1. Init => OnceInv
  BY DEF Init, OnceInv, AtMostOnce, Recorded
<1>2. TypeOK /\ QueueInv /\ OnceInv /\ [Next]_vars => OnceInv'
  BY OnceInductive
<1>3. OnceInv => AtMostOnce
  BY DEF OnceInv
<1> QED
  BY <1>1, <1>2, <1>3, TypeCorrect, QueueInvariant, PTL DEF Spec

-----------------------------------------------------------------------------
(* What the client was told.                                               *)

\* Nobody is answered before the work starts, nor during it except with a 504; a
\* request whose handler ran is still held.
Told ==
    /\ \A s \in Slots : step[s] \in {"idle", "queued"} => answer[s] = "none"
    /\ \A s \in Slots : step[s] # "settle" => answer[s] \in {"none", "request_timeout"}
    /\ \A s \in ran : step[s] \in {"finish", "settle"}

ToldInv == Told /\ RefusalsTruthful

LEMMA ToldInductive ==
  ASSUME TypeOK, QueueInv, ToldInv, [Next]_vars
  PROVE  ToldInv'
<1> USE DEF TypeOK, coordinator, database, history, ToldInv, Told, RefusalsTruthful, Refusals
<1>1. ASSUME NEW s \in Slots, Send(s) \/ Settle(s) PROVE ToldInv'
  BY <1>1 DEF Send, Settle
<1>2. ASSUME NEW s \in Slots, StartWork(s) \/ QueueTimeout(s) PROVE ToldInv'
  <2>1. step[s] = "queued" /\ s \notin ran
    BY <1>2 DEF StartWork, QueueTimeout, Dequeue, QueueInv, Queued
  <2> QED
    BY <1>2, <2>1 DEF StartWork, QueueTimeout, Dequeue
<1>3. ASSUME NEW s \in Slots,
             Authorize(s) \/ ReadPrior(s) \/ CheckEtag(s) \/ BeginRequest(s)
      PROVE  ToldInv'
  <2>1. s \notin ran /\ answer[s] \in {"none", "request_timeout"}
    BY <1>3 DEF Authorize, ReadPrior, CheckEtag, BeginRequest, At
  <2> QED
    BY <1>3, <2>1 DEF Authorize, ReadPrior, CheckEtag, BeginRequest, At, Continue, End
<1>4. ASSUME NEW s \in Slots, Invoke(s) PROVE ToldInv'
  BY <1>4 DEF Invoke, At, Continue
<1>5. ASSUME NEW s \in Slots, FinishRequest(s) \/ Fail(s) \/ TimeOut(s) PROVE ToldInv'
  BY <1>5 DEF FinishRequest, Fail, TimeOut, At, End
<1>6. ASSUME NEW s \in Slots,
             EditConfiguration(s) \/ EditGrants(s) \/ DeleteHost(s) \/ RegisterHost(s)
      PROVE  ToldInv'
  <2>1. At(s, "apply") /\ End(s, "applied") /\ UNCHANGED history
    BY <1>6 DEF EditConfiguration, EditGrants, DeleteHost, RegisterHost
  <2> QED
    BY <2>1 DEF At, End
<1>7. CASE HostReports \/ ExpireResponses
  BY <1>7 DEF HostReports, ExpireResponses
<1>8. CASE Evict
  BY <1>8 DEF Evict
<1>9. CASE UNCHANGED vars
  BY <1>9 DEF vars
<1> QED
  BY <1>1, <1>2, <1>3, <1>4, <1>5, <1>6, <1>7, <1>8, <1>9 DEF Next, Progress, Work

\* A refusal, a queue timeout or a replay is never told of a request whose own
\* handler ran.
THEOREM RefusalsAreTruthful == Spec => []RefusalsTruthful
<1>1. Init => ToldInv
  BY DEF Init, ToldInv, Told, RefusalsTruthful
<1>2. TypeOK /\ QueueInv /\ ToldInv /\ [Next]_vars => ToldInv'
  BY ToldInductive
<1>3. ToldInv => RefusalsTruthful
  BY DEF ToldInv
<1> QED
  BY <1>1, <1>2, <1>3, TypeCorrect, QueueInvariant, PTL DEF Spec

\* For any number of requests, keys and any capacity: the queue counts what it holds and
\* what it refuses never runs.
THEOREM QueueIsHonest == Spec => []QueueHonest
  BY QueueIsAccounted, RefusalsAreTruthful, PTL DEF QueueHonest

-----------------------------------------------------------------------------
(***************************************************************************)
(* ConnectTokens, for any managers, servers, workstations, tokens and      *)
(* limits.                                                                 *)
(***************************************************************************)

\* The steps of a manager's request, of the coordinator and of what surrounds them.
RequestStep ==
    \/ \E p \in Managers, t \in TokenIds, ss \in SUBSET Servers, ws \in SUBSET Stations, tm \in Terms :
         \/ ConnectTokensCreate(p, t, ss, ws, tm)
         \/ \E etag \in 1..VersionLimit : ConnectTokenUpdate(p, t, etag, ss, ws, tm)
    \/ \E p \in Managers, t \in TokenIds, etag \in 1..VersionLimit, a \in Actions :
         \/ ConnectTokenChallenge(p, t, etag, a)
         \/ \E n \in 1..generated : SensitiveAction(p, t, etag, a, n)

JobStep ==
    ConsumeConfirmation \/ Reveal \/ Rotate \/ Revoke \/ CommitChange \/ CoordinatorEvicted
    \/ LateBatchArrives

WorldStep ==
    \/ \E p \in Managers, s \in Servers : ChangeGrants(p, s)
    \/ \E s \in Servers : DeleteServer(s) \/ RegisterServer(s)
    \/ \E w \in Stations : DisableStation(w) \/ DeleteStation(w)
    \/ \E c \in challenges : ConfirmationExpires(c)

LEMMA TokenStepSplits == TokensNext <=> RequestStep \/ JobStep \/ WorldStep
BY DEF TokensNext, RequestStep, JobStep, WorldStep

-----------------------------------------------------------------------------
(* Types and secrets.  A row in force holds its secret under its present   *)
(* context, also the row that a request carries or that its batch writes.  *)
(* Without that the new terms of a row would not even be well typed.       *)

\* The body of SealedCurrent, of a row.
Current(row) == ~row.revoked => Unseals(row) /\ row.sealed.secret = row.secret

\* A batch has found its row at the version that it expects, below the bound.
BatchReady(b) ==
    /\ tokens[b.token] # Nil
    /\ b.row.version = b.expected /\ b.expected < VersionLimit
    /\ Current(b.row)

Confirms == manageJob # Nil /\ manageJob.step # "commit"
Commits == manageJob # Nil /\ manageJob.step = "commit"

RowsCurrent ==
    /\ \A t \in TokenIds : tokens[t] # Nil => Current(tokens[t])
    /\ Confirms => tokens[manageJob.token] # Nil /\ ~manageJob.row.revoked /\ Current(manageJob.row)
    /\ Commits => BatchReady(manageJob.batch)
    /\ lateBatch # Nil => BatchReady(lateBatch)

RowsInv == TokensTypeOK /\ RowsCurrent

LEMMA JobTyped ==
  ASSUME TokensTypeOK
  PROVE  /\ Confirms => manageJob \in Confirming
         /\ Commits => manageJob \in Committing /\ manageJob.batch \in Batch
BY DEF TokensTypeOK, Confirms, Commits, Confirming, Committing

LEMMA SealTyped ==
  ASSUME NEW row \in Token, NEW n \in Secrets
  PROVE  Seal(row, n) \in Sealed
BY DEF Seal, Sealed, Token

\* seal() after unseal(): the new terms keep the secret, under the new context.
LEMMA RetermedCurrent ==
  ASSUME NEW row \in Token, NEW terms \in Terms, ~row.revoked, Current(row)
  PROVE  /\ Retermed(row, terms) \in Token /\ Current(Retermed(row, terms))
         /\ Retermed(row, terms).version = row.version
         /\ Retermed(row, terms).secret = row.secret
         /\ Retermed(row, terms).servers = row.servers
         /\ ~Retermed(row, terms).revoked
<1> DEFINE new == [row EXCEPT !.terms = terms]
           sealed == Seal(new, row.sealed.secret)
<1>1. row.sealed \in Sealed /\ row.sealed.secret = row.secret /\ row.secret \in Secrets
  BY DEF Current, Unseals, Token
<1>2. new \in Token /\ sealed \in Sealed /\ sealed # Nil /\ sealed.secret = row.secret
  BY <1>1, SealTyped, NilAssumption DEF Token, Seal
<1>3. sealed = Seal([new EXCEPT !.sealed = sealed], sealed.secret)
  BY <1>1, <1>2 DEF Seal, Token
<1> HIDE DEF sealed
<1>4. Retermed(row, terms) = row \/ Retermed(row, terms) = [new EXCEPT !.sealed = sealed]
  BY DEF Retermed, sealed
<1>5. CASE Retermed(row, terms) = row
  BY <1>5
<1>6. CASE Retermed(row, terms) = [new EXCEPT !.sealed = sealed]
  <2>1. [new EXCEPT !.sealed = sealed] \in Token
    BY <1>2 DEF Token
  <2> QED
    BY <1>2, <1>3, <1>6, <2>1 DEF Current, Unseals, Token
<1> QED
  BY <1>4, <1>5, <1>6

\* A new secret is sealed under the context of its row.
LEMMA ReplacedCurrent ==
  ASSUME NEW row \in Token, generated \in Nat, generated + 1 \in Secrets
  PROVE  /\ ReplaceSecret(row) \in Token /\ Current(ReplaceSecret(row))
         /\ ReplaceSecret(row).version = row.version
         /\ ReplaceSecret(row).servers = row.servers
         /\ ReplaceSecret(row).revoked = row.revoked
         /\ ReplaceSecret(row).secret = generated + 1
<1> DEFINE sealed == Seal(row, generated + 1)
<1>1. sealed \in Sealed /\ sealed # Nil /\ sealed.secret = generated + 1
  BY SealTyped, NilAssumption DEF Seal
<1>2. ReplaceSecret(row) = [row EXCEPT !.secret = generated + 1, !.sealed = sealed]
  BY DEF ReplaceSecret
<1>3. sealed = Seal([row EXCEPT !.secret = generated + 1, !.sealed = sealed], generated + 1)
  BY DEF Seal, Token
<1> HIDE DEF sealed
<1> QED
  BY <1>1, <1>2, <1>3 DEF Token, Current, Unseals

\* What a batch does to the tables: its row at the next version, or nothing.
LEMMA BatchSteps ==
  ASSUME RowsInv, NEW b \in Batch, BatchReady(b), ChangeToken(b)
  PROVE  /\ tokens' \in [TokenIds -> Token \cup {Nil}] /\ changeAudit' \in [TokenIds -> Audit]
         /\ \A t \in TokenIds : tokens[t] # Nil => tokens'[t] # Nil
         /\ \A t \in TokenIds : tokens'[t] # Nil => Current(tokens'[t])
<1> USE TokensAssumption DEF RowsInv, TokensTypeOK
<1>1. CASE Changes(b)
  <2> DEFINE row == [b.row EXCEPT !.version = @ + 1]
  <2>1. b.row \in Token /\ b.token \in TokenIds /\ b.row.version + 1 \in 1..VersionLimit
    BY DEF Batch, BatchReady, Token
  <2>2. row \in Token /\ Current(row)
    BY <2>1 DEF BatchReady, Current, Unseals, Seal, Token
  <2>3. row # Nil
    BY <2>2, NilAssumption
  <2>4. /\ tokens' = [tokens EXCEPT ![b.token] = row]
        /\ AuditStatement(b.token, b.row.servers, b.previous)
    BY <1>1 DEF ChangeToken
  <2> HIDE DEF row
  <2>5. changeAudit' \in [TokenIds -> Audit]
    BY <2>1, <2>4 DEF AuditStatement, Audit, Batch, Token
  <2> QED
    BY <2>1, <2>2, <2>3, <2>4, <2>5 DEF RowsCurrent
<1>2. CASE ~Changes(b)
  BY <1>2 DEF ChangeToken, RowsCurrent
<1> QED
  BY <1>1, <1>2

LEMMA RowsOfRequest ==
  ASSUME RowsInv, RequestStep
  PROVE  RowsInv'
<1> USE TokensAssumption
<1>1. ASSUME NEW p \in Managers, NEW t \in TokenIds, NEW ss \in SUBSET Servers,
             NEW ws \in SUBSET Stations, NEW tm \in Terms, ConnectTokensCreate(p, t, ss, ws, tm)
      PROVE  RowsInv'
  <2> DEFINE row == [owner |-> p, servers |-> ss, stations |-> ws, terms |-> tm,
                     secret |-> generated + 1, sealed |-> Nil, revoked |-> FALSE, version |-> 1]
  <2>1. generated \in Nat /\ generated + 1 \in Secrets /\ generated + 1 \in 0..SecretLimit
    BY <1>1 DEF ConnectTokensCreate, RowsInv, TokensTypeOK, Secrets
  <2>2. row \in Token
    BY <2>1 DEF Token
  <2>3. /\ tokens' = [tokens EXCEPT ![t] = ReplaceSecret(row)]
        /\ generated' = generated + 1 /\ AuditStatement(t, ss, {})
        /\ events < EventLimit /\ events' = events + 1
        /\ UNCHANGED <<tokenGrantVars, challenges, manageJob, lateBatch, uses>>
    BY <1>1 DEF ConnectTokensCreate, Arrives, Happens
  <2>4. ReplaceSecret(row) \in Token /\ Current(ReplaceSecret(row)) /\ ReplaceSecret(row) # Nil
    BY <2>1, <2>2, ReplacedCurrent, NilAssumption
  <2> HIDE DEF row
  <2>5. changeAudit' \in [TokenIds -> Audit]
    BY <2>3 DEF AuditStatement, Audit, RowsInv, TokensTypeOK
  <2>6. TokensTypeOK'
    <3>1. tokens' \in [TokenIds -> Token \cup {Nil}]
      BY <2>3, <2>4 DEF RowsInv, TokensTypeOK
    <3> QED
      BY <2>1, <2>3, <2>5, <3>1 DEF RowsInv, TokensTypeOK, tokenGrantVars
  <2>7. RowsCurrent'
    BY <2>3, <2>4 DEF RowsInv, RowsCurrent, TokensTypeOK, Confirms, Commits, BatchReady
  <2> QED
    BY <2>6, <2>7 DEF RowsInv
<1>2. ASSUME NEW p \in Managers, NEW t \in TokenIds, NEW ss \in SUBSET Servers,
             NEW ws \in SUBSET Stations, NEW tm \in Terms, NEW etag \in 1..VersionLimit,
             ConnectTokenUpdate(p, t, etag, ss, ws, tm)
      PROVE  RowsInv'
  <2> DEFINE new == [tokens[t] EXCEPT !.servers = ss, !.stations = ws]
             row == Retermed(new, tm)
  <2>1. /\ tokens[t] \in Token /\ tokens[t] # Nil /\ ~tokens[t].revoked
        /\ tokens[t].version = etag /\ etag < VersionLimit /\ Current(tokens[t])
    BY <1>2 DEF ConnectTokenUpdate, Found, RowsInv, TokensTypeOK, RowsCurrent
  <2>2. new \in Token /\ Current(new) /\ ~new.revoked /\ new.version = etag
    BY <2>1 DEF Token, Current, Unseals, Seal
  <2>3. row \in Token /\ Current(row) /\ row.version = etag
    BY <2>2, RetermedCurrent
  <2>4. /\ manageJob' = Commit(t, row, tokens[t].servers)
        /\ events < EventLimit /\ events' = events + 1
        /\ UNCHANGED <<tokenGrantVars, tokenTables, lateBatch, generated, uses>>
    BY <1>2 DEF ConnectTokenUpdate, Arrives, Happens
  <2>5. tokens[t].servers \in SUBSET Servers
    BY <2>1 DEF Token
  <2> HIDE DEF row, new
  <2>6. manageJob' \in Committing /\ manageJob'.step = "commit" /\ BatchReady(manageJob'.batch)
    BY <2>1, <2>3, <2>4, <2>5 DEF Commit, Committing, Batch, BatchReady
  <2>7. TokensTypeOK'
    BY <2>4, <2>6 DEF RowsInv, TokensTypeOK, tokenGrantVars, tokenTables
  <2>8. RowsCurrent'
    BY <2>4, <2>6 DEF RowsInv, RowsCurrent, tokenTables, Confirms, Commits, BatchReady
  <2> QED
    BY <2>7, <2>8 DEF RowsInv
<1>3. ASSUME NEW p \in Managers, NEW t \in TokenIds, NEW etag \in 1..VersionLimit,
             NEW a \in Actions, ConnectTokenChallenge(p, t, etag, a)
      PROVE  RowsInv'
  <2>1. generated' \in Secrets /\ generated' \in 0..SecretLimit
    BY <1>3 DEF ConnectTokenChallenge, RowsInv, TokensTypeOK, Secrets
  <2>2. challenges' \subseteq Challenge
    BY <1>3, <2>1 DEF ConnectTokenChallenge, RowsInv, TokensTypeOK, Challenge
  <2>3. /\ events < EventLimit /\ events' = events + 1
        /\ UNCHANGED <<tokenGrantVars, tokens, changeAudit, manageJob, lateBatch, uses>>
    BY <1>3 DEF ConnectTokenChallenge, Arrives, Happens
  <2>4. TokensTypeOK'
    BY <2>1, <2>2, <2>3 DEF RowsInv, TokensTypeOK, tokenGrantVars
  <2>5. RowsCurrent'
    BY <2>3 DEF RowsInv, RowsCurrent, Confirms, Commits, BatchReady
  <2> QED
    BY <2>4, <2>5 DEF RowsInv
<1>4. ASSUME NEW p \in Managers, NEW t \in TokenIds, NEW etag \in 1..VersionLimit,
             NEW a \in Actions, NEW n \in 1..generated, SensitiveAction(p, t, etag, a, n)
      PROVE  RowsInv'
  <2>1. /\ tokens[t] \in Token /\ tokens[t] # Nil /\ ~tokens[t].revoked /\ Current(tokens[t])
    BY <1>4 DEF SensitiveAction, Found, RowsInv, TokensTypeOK, RowsCurrent
  <2>2. n \in Secrets
    BY DEF RowsInv, TokensTypeOK, Secrets
  <2>3. /\ manageJob' = [step |-> "consume", by |-> p, token |-> t, row |-> tokens[t],
                         action |-> a, nonce |-> n]
        /\ events < EventLimit /\ events' = events + 1
        /\ UNCHANGED <<tokenGrantVars, tokenTables, lateBatch, generated, uses>>
    BY <1>4 DEF SensitiveAction, Arrives, Happens
  <2>4. manageJob' \in Confirming
    BY <2>1, <2>2, <2>3 DEF Confirming
  <2>5. TokensTypeOK'
    BY <2>3, <2>4 DEF RowsInv, TokensTypeOK, tokenGrantVars, tokenTables
  <2>6. RowsCurrent'
    BY <2>1, <2>3 DEF RowsInv, RowsCurrent, tokenTables, Confirms, Commits, BatchReady
  <2> QED
    BY <2>5, <2>6 DEF RowsInv
<1> QED
  BY <1>1, <1>2, <1>3, <1>4 DEF RequestStep

LEMMA RowsOfJob ==
  ASSUME RowsInv, JobStep
  PROVE  RowsInv'
<1> USE TokensAssumption
<1>0. TokensTypeOK /\ RowsCurrent
  BY DEF RowsInv
<1>1. CASE ConsumeConfirmation
  <2>1. Confirms /\ manageJob \in Confirming
    BY <1>0, <1>1, JobTyped DEF ConsumeConfirmation, Confirms
  <2>2. CASE /\ challenges' = {c \in challenges : ~Matches(c, manageJob)}
             /\ manageJob' = [manageJob EXCEPT !.step = "effect"]
    <3>1. manageJob' \in Confirming /\ manageJob'.token = manageJob.token /\ manageJob'.row = manageJob.row
          /\ manageJob'.step # "commit"
      BY <2>1, <2>2 DEF Confirming
    <3>2. TokensTypeOK'
      BY <1>0, <1>1, <2>2, <3>1 DEF ConsumeConfirmation, TokensTypeOK, tokenGrantVars
    <3> QED
      BY <1>0, <1>1, <2>1, <3>1, <3>2
      DEF ConsumeConfirmation, RowsInv, RowsCurrent, Confirms, Commits, BatchReady
  <2>3. CASE manageJob' = Nil /\ UNCHANGED challenges
    BY <1>0, <1>1, <2>3
    DEF ConsumeConfirmation, TokensTypeOK, tokenGrantVars, RowsInv, RowsCurrent, Confirms, Commits,
        BatchReady
  <2> QED
    BY <1>1, <2>2, <2>3 DEF ConsumeConfirmation
<1>2. CASE Reveal
  <2>1. manageJob.nonce \in Secrets
    BY <1>0, <1>2, JobTyped DEF Reveal, Confirms, Confirming
  <2> QED
    BY <1>0, <1>2, <2>1 DEF Reveal, TokensTypeOK, tokenGrantVars, tokenTables, RowsInv,
       RowsCurrent, Confirms, Commits, BatchReady
<1>3. CASE Rotate \/ Revoke
  <2>1. Confirms /\ manageJob \in Confirming /\ manageJob.row.version < VersionLimit
    BY <1>0, <1>3, JobTyped DEF Rotate, Revoke, Confirms
  <2>2. /\ manageJob.row \in Token /\ Current(manageJob.row) /\ ~manageJob.row.revoked
        /\ manageJob.token \in TokenIds /\ tokens[manageJob.token] # Nil
        /\ manageJob.nonce \in Secrets /\ manageJob.row.servers \in SUBSET Servers
    BY <1>0, <2>1 DEF RowsCurrent, Confirming, Token
  <2>3. PICK row \in Token :
          /\ manageJob' = Commit(manageJob.token, row, manageJob.row.servers)
          /\ row.version = manageJob.row.version /\ Current(row)
    <3>1. CASE Rotate
      <4>1. generated \in Nat /\ generated + 1 \in Secrets
        BY <1>0, <3>1 DEF Rotate, TokensTypeOK, Secrets
      <4> QED
        BY <2>2, <3>1, <4>1, ReplacedCurrent DEF Rotate
    <3>2. CASE Revoke
      <4> DEFINE row == [manageJob.row EXCEPT !.revoked = TRUE, !.sealed = Nil]
      <4>1. row \in Token /\ row.version = manageJob.row.version /\ row.revoked
        BY <2>2 DEF Token
      <4> QED
        BY <3>2, <4>1 DEF Revoke, Current
    <3> QED
      BY <1>3, <3>1, <3>2
  <2>4. /\ manageJob' \in Committing /\ manageJob'.step = "commit" /\ BatchReady(manageJob'.batch)
        /\ manageJob'.batch \in Batch
    BY <2>1, <2>2, <2>3 DEF Commit, Committing, Batch, BatchReady, Token
  <2>5. generated' \in 0..SecretLimit /\ uses' \in [Secrets -> Nat]
    <3>1. CASE Rotate
      BY <1>0, <2>2, <3>1 DEF Rotate, TokensTypeOK
    <3>2. CASE Revoke
      BY <1>0, <2>2, <3>2 DEF Revoke, TokensTypeOK
    <3> QED
      BY <1>3, <3>1, <3>2
  <2>6. UNCHANGED <<tokenGrantVars, tokenTables, lateBatch, events>>
    BY <1>3 DEF Rotate, Revoke
  <2>7. TokensTypeOK'
    BY <1>0, <2>4, <2>5, <2>6 DEF TokensTypeOK, tokenGrantVars, tokenTables
  <2> QED
    BY <1>0, <2>4, <2>6, <2>7 DEF RowsInv, RowsCurrent, tokenTables, Confirms, Commits, BatchReady
<1>4. CASE CommitChange
  <2>1. /\ manageJob.batch \in Batch /\ BatchReady(manageJob.batch)
        /\ ChangeToken(manageJob.batch) /\ manageJob' = Nil
        /\ UNCHANGED <<tokenGrantVars, challenges, lateBatch, events, generated, uses>>
    BY <1>0, <1>4, JobTyped DEF CommitChange, Commits, RowsCurrent
  <2>2. TokensTypeOK'
    BY <1>0, <2>1, BatchSteps DEF RowsInv, TokensTypeOK, tokenGrantVars
  <2>3. /\ \A t \in TokenIds : tokens[t] # Nil => tokens'[t] # Nil
        /\ \A t \in TokenIds : tokens'[t] # Nil => Current(tokens'[t])
    BY <2>1, BatchSteps
  <2>4. lateBatch # Nil => lateBatch.token \in TokenIds
    BY <1>0 DEF TokensTypeOK, Batch
  <2> QED
    BY <1>0, <2>1, <2>2, <2>3, <2>4 DEF RowsInv, RowsCurrent, Confirms, Commits, BatchReady
<1>5. CASE LateBatchArrives
  <2>1. /\ lateBatch \in Batch /\ BatchReady(lateBatch) /\ ChangeToken(lateBatch) /\ lateBatch' = Nil
        /\ UNCHANGED <<tokenGrantVars, challenges, manageJob, events, generated, uses>>
    BY <1>0, <1>5 DEF LateBatchArrives, RowsCurrent, TokensTypeOK
  <2>2. TokensTypeOK'
    BY <1>0, <2>1, BatchSteps DEF RowsInv, TokensTypeOK, tokenGrantVars
  <2>3. /\ \A t \in TokenIds : tokens[t] # Nil => tokens'[t] # Nil
        /\ \A t \in TokenIds : tokens'[t] # Nil => Current(tokens'[t])
    BY <2>1, BatchSteps
  <2>4. /\ Confirms => manageJob.token \in TokenIds
        /\ Commits => manageJob.batch.token \in TokenIds
    BY <1>0, JobTyped DEF Confirming, Batch
  <2> QED
    BY <1>0, <2>1, <2>2, <2>3, <2>4 DEF RowsInv, RowsCurrent, Confirms, Commits, BatchReady
<1>6. CASE CoordinatorEvicted
  <2>1. lateBatch' = lateBatch \/ (Commits /\ lateBatch' = manageJob.batch)
    BY <1>6 DEF CoordinatorEvicted, Commits
  <2>2. /\ manageJob' = Nil
        /\ UNCHANGED <<tokenGrantVars, tokenTables, events, generated, uses>>
    BY <1>6 DEF CoordinatorEvicted
  <2>3. lateBatch' \in Batch \cup {Nil}
    BY <1>0, <2>1, JobTyped DEF TokensTypeOK
  <2>4. TokensTypeOK'
    BY <1>0, <2>2, <2>3 DEF TokensTypeOK, tokenGrantVars, tokenTables
  <2> QED
    BY <1>0, <2>1, <2>2, <2>4 DEF RowsInv, RowsCurrent, tokenTables, Confirms, Commits, BatchReady
<1> QED
  BY <1>1, <1>2, <1>3, <1>4, <1>5, <1>6 DEF JobStep

LEMMA RowsOfWorld ==
  ASSUME RowsInv, WorldStep
  PROVE  RowsInv'
<1> USE TokensAssumption
<1>0. TokensTypeOK /\ RowsCurrent
  BY DEF RowsInv
<1>1. ASSUME NEW p \in Managers, NEW s \in Servers, ChangeGrants(p, s) PROVE RowsInv'
  BY <1>0, <1>1 DEF ChangeGrants, Happens, TokensTypeOK, tokenTables, RowsInv, RowsCurrent,
     Confirms, Commits, BatchReady
<1>2. ASSUME NEW s \in Servers, RegisterServer(s) PROVE RowsInv'
  BY <1>0, <1>2 DEF RegisterServer, Happens, TokensTypeOK, tokenTables, RowsInv, RowsCurrent,
     Confirms, Commits, BatchReady
<1>3. ASSUME NEW w \in Stations, DisableStation(w) PROVE RowsInv'
  BY <1>0, <1>3 DEF DisableStation, Happens, TokensTypeOK, tokenTables, RowsInv, RowsCurrent,
     Confirms, Commits, BatchReady
<1>4. ASSUME NEW c \in challenges, ConfirmationExpires(c) PROVE RowsInv'
  BY <1>0, <1>4 DEF ConfirmationExpires, TokensTypeOK, tokenGrantVars, RowsInv, RowsCurrent,
     Confirms, Commits, BatchReady
<1>5. ASSUME \A t \in TokenIds : tokens[t] # Nil =>
               tokens'[t] \in Token /\ tokens'[t] # Nil /\ Current(tokens'[t]),
             \A t \in TokenIds : tokens[t] = Nil => tokens'[t] = Nil,
             UNCHANGED <<manageJob, lateBatch>>
      PROVE  RowsCurrent'
  <2>1. /\ Confirms => manageJob.token \in TokenIds
        /\ Commits => manageJob.batch.token \in TokenIds
        /\ lateBatch # Nil => lateBatch.token \in TokenIds
    BY <1>0, JobTyped DEF Confirming, Batch, TokensTypeOK
  <2> QED
    BY <1>0, <1>5, <2>1 DEF RowsCurrent, Confirms, Commits, BatchReady
<1>6. ASSUME NEW s \in Servers, DeleteServer(s) PROVE RowsInv'
  <2>1. ASSUME NEW t \in TokenIds
        PROVE  /\ tokens[t] # Nil =>
                    tokens'[t] \in Token /\ tokens'[t] # Nil /\ Current(tokens'[t])
               /\ tokens[t] = Nil => tokens'[t] = Nil
    <3>1. CASE tokens[t] # Nil /\ s \in tokens[t].servers
      <4>1. tokens[t] \in Token /\ tokens[t].version < VersionLimit /\ Current(tokens[t])
        BY <1>0, <1>6, <3>1 DEF DeleteServer, TokensTypeOK, RowsCurrent
      <4>2. tokens'[t] = [tokens[t] EXCEPT !.servers = @ \ {s}, !.version = @ + 1]
        BY <1>6, <3>1 DEF DeleteServer, WithoutServer
      <4>3. /\ tokens[t].version + 1 \in 1..VersionLimit
            /\ tokens[t].servers \ {s} \in SUBSET Servers
        BY <4>1 DEF Token
      <4>4. tokens'[t] \in Token
        BY <4>1, <4>2, <4>3 DEF Token
      <4>5. Current(tokens'[t])
        BY <4>1, <4>2 DEF Token, Current, Unseals, Seal
      <4> QED
        BY <3>1, <4>4, <4>5, NilAssumption
    <3>2. CASE ~(tokens[t] # Nil /\ s \in tokens[t].servers)
      BY <1>0, <1>6, <3>2 DEF DeleteServer, WithoutServer, TokensTypeOK, RowsCurrent
    <3> QED
      BY <3>1, <3>2
  <2>2. tokens' = [t \in TokenIds |-> tokens'[t]]
    BY <1>6 DEF DeleteServer, WithoutServer
  <2>3. tokens' \in [TokenIds -> Token \cup {Nil}]
    BY <1>0, <2>1, <2>2 DEF TokensTypeOK
  <2>4. TokensTypeOK'
    BY <1>0, <1>6, <2>3 DEF DeleteServer, Happens, TokensTypeOK
  <2> QED
    BY <1>5, <1>6, <2>1, <2>4 DEF DeleteServer, RowsInv
<1>7. ASSUME NEW w \in Stations, DeleteStation(w) PROVE RowsInv'
  <2>1. ASSUME NEW t \in TokenIds
        PROVE  /\ tokens[t] # Nil =>
                    tokens'[t] \in Token /\ tokens'[t] # Nil /\ Current(tokens'[t])
               /\ tokens[t] = Nil => tokens'[t] = Nil
    <3>1. CASE tokens[t] # Nil
      <4>1. tokens[t] \in Token /\ Current(tokens[t])
        BY <1>0, <3>1 DEF TokensTypeOK, RowsCurrent
      <4>2. tokens'[t] = [tokens[t] EXCEPT !.stations = @ \ {w}]
        BY <1>7, <3>1 DEF DeleteStation
      <4> QED
        BY <3>1, <4>1, <4>2, NilAssumption DEF Token, Current, Unseals, Seal
    <3>2. CASE tokens[t] = Nil
      BY <1>7, <3>2 DEF DeleteStation
    <3> QED
      BY <3>1, <3>2
  <2>2. tokens' = [t \in TokenIds |-> tokens'[t]]
    BY <1>7 DEF DeleteStation
  <2>3. tokens' \in [TokenIds -> Token \cup {Nil}]
    BY <1>0, <2>1, <2>2 DEF TokensTypeOK
  <2>4. TokensTypeOK'
    BY <1>0, <1>7, <2>3 DEF DeleteStation, Happens, TokensTypeOK
  <2> QED
    BY <1>5, <1>7, <2>1, <2>4 DEF DeleteStation, RowsInv
<1> QED
  BY <1>1, <1>2, <1>3, <1>4, <1>6, <1>7 DEF WorldStep

LEMMA RowsInductive == RowsInv /\ [TokensNext]_tokenVars => RowsInv'
<1> SUFFICES ASSUME RowsInv, [TokensNext]_tokenVars PROVE RowsInv'
  OBVIOUS
<1>1. CASE UNCHANGED tokenVars
  BY <1>1 DEF tokenVars, tokenGrantVars, tokenTables, RowsInv, TokensTypeOK, RowsCurrent, Confirms,
     Commits, BatchReady
<1> QED
  BY <1>1, RowsOfRequest, RowsOfJob, RowsOfWorld, TokenStepSplits

LEMMA RowsInitially == TokensInit => RowsInv
BY TokensAssumption DEF TokensInit, RowsInv, TokensTypeOK, RowsCurrent, Confirms, Commits, Audit,
   Secrets

\* The tables, the requests under way and the late batch are well typed in every reachable state.
THEOREM TokensTypeCorrect == TokensSpec => []TokensTypeOK
<1>1. RowsInv => TokensTypeOK
  BY DEF RowsInv
<1> QED
  BY <1>1, RowsInitially, RowsInductive, PTL DEF TokensSpec

\* Whatever edits, rotations and late batches race: the ciphertext of a token in force opens
\* under its present context and holds its present secret.
THEOREM SecretsStayCurrent == TokensSpec => []SealedCurrent
<1>1. RowsInv => SealedCurrent
  BY DEF RowsInv, RowsCurrent, SealedCurrent, ActiveTokens, Current
<1> QED
  BY <1>1, RowsInitially, RowsInductive, PTL DEF TokensSpec

-----------------------------------------------------------------------------
(* How a step can move the tokens.                                         *)

Pending(b) == (Commits /\ b = manageJob.batch) \/ (lateBatch # Nil /\ b = lateBatch)

\* The batch wins: the row and the audit are written together.
Applies(b) ==
    /\ Pending(b) /\ BatchReady(b) /\ Changes(b)
    /\ tokens' = [tokens EXCEPT ![b.token] = [b.row EXCEPT !.version = @ + 1]]
    /\ AuditStatement(b.token, b.row.servers, b.previous)
    /\ UNCHANGED tokenGrantVars

\* Nothing that a grant refers to goes away.
RefsStay ==
    /\ liveServers \subseteq liveServers'
    /\ \A w \in Stations : stationState[w] # "gone" => stationState'[w] # "gone"

TokenMoves ==
    \/ UNCHANGED <<tokens, changeAudit>> /\ RefsStay
    \/ \E p \in Managers, t \in TokenIds, ss \in SUBSET Servers, ws \in SUBSET Stations, tm \in Terms :
          ConnectTokensCreate(p, t, ss, ws, tm)
    \/ \E b \in Batch : Applies(b)
    \/ \E s \in Servers : DeleteServer(s)
    \/ \E w \in Stations : DeleteStation(w)

LEMMA TokenMovesOfStep ==
  ASSUME RowsInv, [TokensNext]_tokenVars
  PROVE  TokenMoves
<1>1. CASE RequestStep
  <2>1. CASE \E p \in Managers, t \in TokenIds, ss \in SUBSET Servers, ws \in SUBSET Stations,
                tm \in Terms : ConnectTokensCreate(p, t, ss, ws, tm)
    BY <2>1 DEF TokenMoves
  <2>2. ASSUME NEW p \in Managers, NEW t \in TokenIds, NEW etag \in 1..VersionLimit,
               \/ \E ss \in SUBSET Servers, ws \in SUBSET Stations, tm \in Terms :
                     ConnectTokenUpdate(p, t, etag, ss, ws, tm)
               \/ \E a \in Actions : ConnectTokenChallenge(p, t, etag, a)
               \/ \E a \in Actions, n \in 1..generated : SensitiveAction(p, t, etag, a, n)
        PROVE  UNCHANGED <<tokens, changeAudit, tokenGrantVars>>
    BY <2>2 DEF ConnectTokenUpdate, ConnectTokenChallenge, SensitiveAction, tokenTables
  <2>3. CASE UNCHANGED <<tokens, changeAudit, tokenGrantVars>>
    BY <2>3 DEF TokenMoves, RefsStay, tokenGrantVars
  <2> QED
    BY <1>1, <2>1, <2>2, <2>3 DEF RequestStep
<1>2. CASE CommitChange
  <2>1. /\ Pending(manageJob.batch) /\ BatchReady(manageJob.batch)
        /\ manageJob.batch \in Batch /\ ChangeToken(manageJob.batch) /\ UNCHANGED tokenGrantVars
    BY <1>2, JobTyped DEF CommitChange, RowsInv, RowsCurrent, Commits, Pending
  <2> QED
    BY <2>1 DEF ChangeToken, Applies, TokenMoves, RefsStay, tokenGrantVars
<1>3. CASE LateBatchArrives
  <2>1. /\ Pending(lateBatch) /\ BatchReady(lateBatch)
        /\ lateBatch \in Batch /\ ChangeToken(lateBatch) /\ UNCHANGED tokenGrantVars
    BY <1>3 DEF LateBatchArrives, RowsInv, TokensTypeOK, RowsCurrent, Pending
  <2> QED
    BY <2>1 DEF ChangeToken, Applies, TokenMoves, RefsStay, tokenGrantVars
<1>4. CASE ConsumeConfirmation \/ Reveal \/ Rotate \/ Revoke \/ CoordinatorEvicted
  BY <1>4 DEF ConsumeConfirmation, Reveal, Rotate, Revoke, CoordinatorEvicted, TokenMoves, RefsStay,
     tokenGrantVars, tokenTables
<1>5. CASE WorldStep
  BY <1>5 DEF WorldStep, ChangeGrants, RegisterServer, DisableStation, ConfirmationExpires,
     TokenMoves, RefsStay, tokenGrantVars, tokenTables, RowsInv, TokensTypeOK
<1>6. CASE UNCHANGED tokenVars
  BY <1>6 DEF tokenVars, tokenGrantVars, tokenTables, TokenMoves, RefsStay
<1> QED
  BY <1>1, <1>2, <1>3, <1>4, <1>5, <1>6, TokenStepSplits DEF JobStep

LEMMA BatchTyped ==
  ASSUME NEW b \in Batch, BatchReady(b)
  PROVE  /\ b.token \in TokenIds /\ b.row \in Token
         /\ b.row.servers \in SUBSET Servers /\ b.row.secret \in Secrets
         /\ [b.row EXCEPT !.version = @ + 1].servers = b.row.servers
         /\ [b.row EXCEPT !.version = @ + 1].stations = b.row.stations
         /\ [b.row EXCEPT !.version = @ + 1].secret = b.row.secret
         /\ [b.row EXCEPT !.version = @ + 1].revoked = b.row.revoked
         /\ [b.row EXCEPT !.version = @ + 1].version = b.expected + 1
BY DEF Batch, BatchReady, Token

\* The row of a creation, as it is stored.
LEMMA CreatedRow ==
  ASSUME RowsInv, NEW p \in Managers, NEW t \in TokenIds, NEW ss \in SUBSET Servers,
         NEW ws \in SUBSET Stations, NEW tm \in Terms, ConnectTokensCreate(p, t, ss, ws, tm)
  PROVE  /\ \A u \in TokenIds \ {t} : tokens'[u] = tokens[u]
         /\ tokens[t] = Nil
         /\ tokens'[t].servers = ss /\ tokens'[t].stations = ws
         /\ tokens'[t].secret = generated + 1
         /\ AuditStatement(t, ss, {}) /\ UNCHANGED tokenGrantVars
<1> DEFINE row == [owner |-> p, servers |-> ss, stations |-> ws, terms |-> tm,
                   secret |-> generated + 1, sealed |-> Nil, revoked |-> FALSE, version |-> 1]
<1>1. tokens' = [tokens EXCEPT ![t] = ReplaceSecret(row)] /\ tokens[t] = Nil
      /\ AuditStatement(t, ss, {}) /\ UNCHANGED tokenGrantVars
  BY DEF ConnectTokensCreate
<1>2. ReplaceSecret(row).servers = ss /\ ReplaceSecret(row).stations = ws
      /\ ReplaceSecret(row).secret = generated + 1
  BY DEF ReplaceSecret
<1> HIDE DEF row
<1> QED
  BY <1>1, <1>2 DEF RowsInv, TokensTypeOK

LEMMA WithoutServerRow ==
  ASSUME RowsInv, NEW s \in Servers, DeleteServer(s), NEW t \in TokenIds, tokens[t] # Nil
  PROVE  /\ tokens'[t].servers = tokens[t].servers \ {s}
         /\ tokens'[t].stations = tokens[t].stations
         /\ tokens'[t].secret = tokens[t].secret /\ tokens'[t].revoked = tokens[t].revoked
         /\ tokens'[t].owner = tokens[t].owner
         /\ tokens'[t].version = IF s \in tokens[t].servers THEN tokens[t].version + 1
                                                            ELSE tokens[t].version
<1>1. tokens[t] \in Token
  BY DEF RowsInv, TokensTypeOK
<1> QED
  BY <1>1 DEF DeleteServer, WithoutServer, Token

LEMMA WithoutStationRow ==
  ASSUME RowsInv, NEW w \in Stations, DeleteStation(w), NEW t \in TokenIds, tokens[t] # Nil
  PROVE  /\ tokens'[t].stations = tokens[t].stations \ {w}
         /\ tokens'[t].servers = tokens[t].servers
         /\ tokens'[t].secret = tokens[t].secret /\ tokens'[t].revoked = tokens[t].revoked
         /\ tokens'[t].owner = tokens[t].owner /\ tokens'[t].version = tokens[t].version
<1>1. tokens[t] \in Token
  BY DEF RowsInv, TokensTypeOK
<1> QED
  BY <1>1 DEF DeleteStation, Token

LEMMA NilStays ==
  ASSUME RowsInv, NEW t \in TokenIds, tokens[t] = Nil,
         (\E s \in Servers : DeleteServer(s)) \/ (\E w \in Stations : DeleteStation(w))
  PROVE  tokens'[t] = Nil
BY DEF DeleteServer, WithoutServer, DeleteStation

-----------------------------------------------------------------------------
(* What a token refers to exists, so that somebody can manage it.          *)

GrantsStand == \A t \in TokenIds : tokens[t] # Nil => GrantsExist(tokens[t])

LEMMA GrantsStandInductive ==
  ASSUME RowsInv, GrantsStand, [TokensNext]_tokenVars
  PROVE  GrantsStand'
<1> SUFFICES ASSUME NEW t \in TokenIds, tokens'[t] # Nil
             PROVE  /\ tokens'[t].servers \subseteq liveServers'
                    /\ \A w \in tokens'[t].stations : stationState'[w] # "gone"
  BY DEF GrantsStand, GrantsExist
<1>0. tokens[t] # Nil => /\ tokens[t] \in Token
                         /\ tokens[t].servers \subseteq liveServers
                         /\ tokens[t].stations \subseteq Stations
                         /\ \A w \in tokens[t].stations : stationState[w] # "gone"
  BY DEF RowsInv, TokensTypeOK, GrantsStand, GrantsExist, Token
<1>1. CASE UNCHANGED <<tokens, changeAudit>> /\ RefsStay
  BY <1>0, <1>1 DEF RefsStay
<1>2. ASSUME NEW p \in Managers, NEW u \in TokenIds, NEW ss \in SUBSET Servers,
             NEW ws \in SUBSET Stations, NEW tm \in Terms, ConnectTokensCreate(p, u, ss, ws, tm)
      PROVE  /\ tokens'[t].servers \subseteq liveServers'
             /\ \A w \in tokens'[t].stations : stationState'[w] # "gone"
  <2>1. ss \subseteq liveServers /\ \A w \in ws : stationState[w] # "gone"
    BY <1>2 DEF ConnectTokensCreate, SelectedServers, ServersOf, SelectedWorkstations,
       ListAuthorizedFor
  <2>2. /\ t # u => tokens'[t] = tokens[t]
        /\ tokens'[u].servers = ss /\ tokens'[u].stations = ws
        /\ UNCHANGED tokenGrantVars
    BY <1>2, CreatedRow
  <2> QED
    BY <1>0, <2>1, <2>2 DEF tokenGrantVars
<1>3. ASSUME NEW b \in Batch, Applies(b)
      PROVE  /\ tokens'[t].servers \subseteq liveServers'
             /\ \A w \in tokens'[t].stations : stationState'[w] # "gone"
  <2>1. GrantsExist(b.row)
    BY <1>3 DEF Applies, Changes
  <2> QED
    BY <1>0, <1>3, <2>1, BatchTyped
    DEF Applies, GrantsExist, tokenGrantVars, RowsInv, TokensTypeOK
<1>4. ASSUME NEW s \in Servers, DeleteServer(s)
      PROVE  /\ tokens'[t].servers \subseteq liveServers'
             /\ \A w \in tokens'[t].stations : stationState'[w] # "gone"
  <2>1. tokens[t] # Nil
    BY <1>4, NilStays
  <2>2. liveServers' = liveServers \ {s} /\ stationState' = stationState
    BY <1>4 DEF DeleteServer
  <2> QED
    BY <1>0, <1>4, <2>1, <2>2, WithoutServerRow
<1>5. ASSUME NEW w \in Stations, DeleteStation(w)
      PROVE  /\ tokens'[t].servers \subseteq liveServers'
             /\ \A v \in tokens'[t].stations : stationState'[v] # "gone"
  <2>1. tokens[t] # Nil
    BY <1>5, NilStays
  <2>2. liveServers' = liveServers /\ stationState' = [stationState EXCEPT ![w] = "gone"]
    BY <1>5 DEF DeleteStation
  <2> QED
    BY <1>0, <1>5, <2>1, <2>2, WithoutStationRow DEF RowsInv, TokensTypeOK
<1> QED
  BY <1>1, <1>2, <1>3, <1>4, <1>5, TokenMovesOfStep DEF TokenMoves

\* A principal of CONNECT_MANAGERS, or the owner of an empty key, can manage every token.
LEMMA SomebodyManages ==
  ASSUME RowsInv, GrantsStand
  PROVE  Revocable
<1> SUFFICES ASSUME NEW t \in ActiveTokens PROVE \E p \in Managers : CanManage(p, tokens[t])
  BY DEF Revocable
<1>1. tokens[t] \in Token /\ GrantsExist(tokens[t]) /\ t \in TokenIds
  BY DEF ActiveTokens, RowsInv, TokensTypeOK, GrantsStand
<1>2. CASE tokens[t].servers = {} /\ tokens[t].stations = {}
  BY <1>1, <1>2 DEF CanManage, Token
<1>3. CASE ~(tokens[t].servers = {} /\ tokens[t].stations = {})
  <2>1. PICK p \in Managers : p \in Global
    BY TokensAssumption
  <2>2. tokens[t].servers \subseteq ServersOf(p) /\ tokens[t].stations \subseteq ListManageableFor(p)
    BY <1>1, <2>1 DEF GrantsExist, ServersOf, ListManageableFor, Token
  <2> QED
    BY <1>3, <2>2 DEF CanManage
<1> QED
  BY <1>2, <1>3

-----------------------------------------------------------------------------
(* The audit knows the grants of a token.                                  *)

LEMMA AuditWritten ==
  ASSUME RowsInv, NEW t \in TokenIds, NEW ss, NEW before, AuditStatement(t, ss, before)
  PROVE  /\ changeAudit'[t].servers = ss /\ changeAudit'[t].previous = before
         /\ \A u \in TokenIds \ {t} : changeAudit'[u] = changeAudit[u]
BY DEF AuditStatement, RowsInv, TokensTypeOK

LEMMA GrantsAuditedInductive ==
  ASSUME RowsInv, GrantsAudited, [TokensNext]_tokenVars
  PROVE  GrantsAudited'
<1> SUFFICES ASSUME NEW t \in TokenIds, tokens'[t] # Nil
             PROVE  tokens'[t].servers \subseteq changeAudit'[t].servers
  BY DEF GrantsAudited
<1>0. tokens[t] # Nil => tokens[t].servers \subseteq changeAudit[t].servers
  BY DEF GrantsAudited
<1>1. CASE UNCHANGED <<tokens, changeAudit>>
  BY <1>0, <1>1
<1>2. ASSUME NEW p \in Managers, NEW u \in TokenIds, NEW ss \in SUBSET Servers,
             NEW ws \in SUBSET Stations, NEW tm \in Terms, ConnectTokensCreate(p, u, ss, ws, tm)
      PROVE  tokens'[t].servers \subseteq changeAudit'[t].servers
  <2>1. /\ t # u => tokens'[t] = tokens[t]
        /\ tokens'[u].servers = ss /\ AuditStatement(u, ss, {})
    BY <1>2, CreatedRow
  <2>2. changeAudit'[u].servers = ss /\ (t # u => changeAudit'[t] = changeAudit[t])
    BY <2>1, AuditWritten
  <2> QED
    BY <1>0, <2>1, <2>2
<1>3. ASSUME NEW b \in Batch, Applies(b)
      PROVE  tokens'[t].servers \subseteq changeAudit'[t].servers
  <2>1. /\ t # b.token => tokens'[t] = tokens[t]
        /\ t = b.token => tokens'[t].servers = b.row.servers
    BY <1>3, BatchTyped DEF Applies, RowsInv, TokensTypeOK
  <2>2. /\ changeAudit'[b.token].servers = b.row.servers
        /\ t # b.token => changeAudit'[t] = changeAudit[t]
    BY <1>3, BatchTyped, AuditWritten DEF Applies
  <2> QED
    BY <1>0, <2>1, <2>2
<1>4. ASSUME NEW s \in Servers, DeleteServer(s)
      PROVE  tokens'[t].servers \subseteq changeAudit'[t].servers
  <2>1. changeAudit' = changeAudit
    BY <1>4 DEF DeleteServer
  <2> QED
    BY <1>0, <1>4, <2>1, NilStays, WithoutServerRow
<1>5. ASSUME NEW w \in Stations, DeleteStation(w)
      PROVE  tokens'[t].servers \subseteq changeAudit'[t].servers
  <2>1. changeAudit' = changeAudit
    BY <1>5 DEF DeleteStation
  <2> QED
    BY <1>0, <1>5, <2>1, NilStays, WithoutStationRow
<1> QED
  BY <1>1, <1>2, <1>3, <1>4, <1>5, TokenMovesOfStep DEF TokenMoves

-----------------------------------------------------------------------------
(* Versions.  A row that a request read and a batch that it left behind    *)
(* know the past of the token as long as its version has not moved.        *)

Knows(t, row) ==
    /\ row.version <= tokens[t].version /\ row.secret <= generated
    /\ row.version = tokens[t].version =>
          row.servers = tokens[t].servers /\ row.secret = tokens[t].secret

BatchKnows(b) ==
    /\ b.expected <= tokens[b.token].version /\ b.row.secret <= generated
    /\ b.expected = tokens[b.token].version =>
          b.previous = tokens[b.token].servers /\ tokens[b.token].secret <= b.row.secret

VersionsKnow ==
    /\ \A t \in TokenIds : tokens[t] # Nil => tokens[t].secret <= generated
    /\ Confirms => Knows(manageJob.token, manageJob.row)
    /\ Commits => BatchKnows(manageJob.batch)
    /\ lateBatch # Nil => BatchKnows(lateBatch)

\* A token never disappears, and what changes its servers or its secret moves its version.
VersionsTell ==
    \A t \in TokenIds : tokens[t] # Nil =>
        /\ tokens'[t] # Nil
        /\ tokens'[t].version >= tokens[t].version
        /\ tokens'[t].version = tokens[t].version =>
              tokens'[t].servers = tokens[t].servers /\ tokens'[t].secret = tokens[t].secret

LEMMA VersionsTellOfStep ==
  ASSUME RowsInv, RowsInv', [TokensNext]_tokenVars
  PROVE  VersionsTell
<1> SUFFICES ASSUME NEW t \in TokenIds, tokens[t] # Nil
    PROVE /\ tokens'[t] # Nil
          /\ tokens'[t].version >= tokens[t].version
          /\ tokens'[t].version = tokens[t].version =>
                tokens'[t].servers = tokens[t].servers /\ tokens'[t].secret = tokens[t].secret
  BY DEF VersionsTell
<1>0. tokens[t] \in Token /\ tokens[t].version \in Nat
  BY DEF RowsInv, TokensTypeOK, Token
<1>1. CASE tokens'[t] = tokens[t]
  BY <1>0, <1>1
<1>2. ASSUME NEW p \in Managers, NEW u \in TokenIds, NEW ss \in SUBSET Servers,
             NEW ws \in SUBSET Stations, NEW tm \in Terms, ConnectTokensCreate(p, u, ss, ws, tm)
      PROVE  tokens'[t] = tokens[t]
  BY <1>2, CreatedRow
<1>3. ASSUME NEW b \in Batch, Applies(b), t = b.token
      PROVE  tokens'[t] # Nil /\ tokens'[t].version = tokens[t].version + 1
  <2> DEFINE row == [b.row EXCEPT !.version = @ + 1]
  <2>1. tokens'[t] = row
    BY <1>3 DEF Applies, RowsInv, TokensTypeOK
  <2>2. row.version = b.expected + 1 /\ b.expected = tokens[t].version
    BY <1>3, BatchTyped DEF Applies, Changes
  <2>3. row \in Token
    <3>1. b.row \in Token /\ b.row.version + 1 \in 1..VersionLimit
      BY <1>3, TokensAssumption DEF Applies, BatchReady, Batch, Token
    <3> QED
      BY <3>1 DEF Token
  <2> QED
    BY <2>1, <2>2, <2>3, NilAssumption
<1>4. ASSUME NEW b \in Batch, Applies(b), t # b.token
      PROVE  tokens'[t] = tokens[t]
  BY <1>4 DEF Applies, RowsInv, TokensTypeOK
<1>5. ASSUME NEW s \in Servers, DeleteServer(s)
      PROVE  /\ tokens'[t] # Nil
             /\ \/ tokens'[t].version = tokens[t].version + 1
                \/ /\ tokens'[t].version = tokens[t].version
                   /\ tokens'[t].servers = tokens[t].servers /\ tokens'[t].secret = tokens[t].secret
  <2>1. tokens'[t] # Nil
    <3>1. CASE s \in tokens[t].servers
      <4>1. tokens'[t] = [tokens[t] EXCEPT !.servers = @ \ {s}, !.version = @ + 1]
        BY <1>5, <3>1 DEF DeleteServer, WithoutServer
      <4>2. tokens[t].version + 1 \in 1..VersionLimit /\ tokens[t].servers \ {s} \in SUBSET Servers
        BY <1>0, <1>5, TokensAssumption DEF DeleteServer, Token
      <4>3. tokens'[t] \in Token
        BY <1>0, <4>1, <4>2 DEF Token
      <4> QED
        BY <4>3, NilAssumption
    <3>2. CASE s \notin tokens[t].servers
      BY <1>5, <3>2 DEF DeleteServer, WithoutServer
    <3> QED
      BY <3>1, <3>2
  <2> QED
    BY <1>0, <1>5, <2>1, WithoutServerRow
<1>6. ASSUME NEW w \in Stations, DeleteStation(w)
      PROVE  /\ tokens'[t] # Nil /\ tokens'[t].version = tokens[t].version
             /\ tokens'[t].servers = tokens[t].servers /\ tokens'[t].secret = tokens[t].secret
  <2>1. tokens'[t] = [tokens[t] EXCEPT !.stations = @ \ {w}]
    BY <1>6 DEF DeleteStation
  <2>2. tokens'[t] \in Token
    BY <1>0, <2>1 DEF Token
  <2> QED
    BY <1>6, <2>2, WithoutStationRow, NilAssumption
<1> QED
  BY <1>0, <1>1, <1>2, <1>3, <1>4, <1>5, <1>6, TokenMovesOfStep DEF TokenMoves

LEMMA GeneratedGrows ==
  ASSUME RowsInv, [TokensNext]_tokenVars
  PROVE  generated \in Nat /\ generated' \in Nat /\ generated' >= generated
<1>1. generated \in Nat
  BY DEF RowsInv, TokensTypeOK
<1>2. generated' = generated \/ generated' = generated + 1
  <2>1. CASE RequestStep
    <3>1. ASSUME NEW p \in Managers, NEW t \in TokenIds, NEW ss \in SUBSET Servers,
                 NEW ws \in SUBSET Stations, NEW tm \in Terms
          PROVE  /\ ConnectTokensCreate(p, t, ss, ws, tm) => generated' = generated + 1
                 /\ \A etag \in 1..VersionLimit :
                      ConnectTokenUpdate(p, t, etag, ss, ws, tm) => generated' = generated
      BY DEF ConnectTokensCreate, ConnectTokenUpdate
    <3>2. ASSUME NEW p \in Managers, NEW t \in TokenIds, NEW etag \in 1..VersionLimit,
                 NEW a \in Actions
          PROVE  /\ ConnectTokenChallenge(p, t, etag, a) => generated' = generated + 1
                 /\ \A n \in 1..generated :
                      SensitiveAction(p, t, etag, a, n) => generated' = generated
      BY DEF ConnectTokenChallenge, SensitiveAction
    <3> QED
      BY <2>1, <3>1, <3>2 DEF RequestStep
  <2>2. CASE JobStep
    BY <2>2 DEF JobStep, ConsumeConfirmation, Reveal, Rotate, Revoke, CommitChange,
       CoordinatorEvicted, LateBatchArrives
  <2>3. CASE WorldStep
    BY <2>3 DEF WorldStep, ChangeGrants, DeleteServer, RegisterServer, DisableStation,
       DeleteStation, ConfirmationExpires
  <2>4. CASE UNCHANGED tokenVars
    BY <2>4 DEF tokenVars
  <2> QED
    BY <2>1, <2>2, <2>3, <2>4, TokenStepSplits
<1> QED
  BY <1>1, <1>2

\* What the coordinator works on next.
JobMoves ==
    \/ manageJob' \in {Nil, manageJob}
    \/ Confirms /\ manageJob' = [manageJob EXCEPT !.step = "effect"]
    \/ \E p \in Managers, t \in TokenIds, etag \in 1..VersionLimit :
         \/ \E a \in Actions, n \in 1..generated : SensitiveAction(p, t, etag, a, n)
         \/ \E ss \in SUBSET Servers, ws \in SUBSET Stations, tm \in Terms :
               ConnectTokenUpdate(p, t, etag, ss, ws, tm)
    \/ Rotate
    \/ Revoke

LEMMA JobMovesOfStep ==
  ASSUME [TokensNext]_tokenVars
  PROVE  /\ JobMoves
         /\ lateBatch' \in {Nil, lateBatch} \/ (Commits /\ lateBatch' = manageJob.batch)
<1>1. CASE RequestStep
  <2>1. ASSUME NEW p \in Managers, NEW t \in TokenIds
        PROVE  /\ \A ss \in SUBSET Servers, ws \in SUBSET Stations, tm \in Terms :
                    ConnectTokensCreate(p, t, ss, ws, tm) => UNCHANGED <<manageJob, lateBatch>>
               /\ \A etag \in 1..VersionLimit, a \in Actions :
                    ConnectTokenChallenge(p, t, etag, a) => UNCHANGED <<manageJob, lateBatch>>
    BY DEF ConnectTokensCreate, ConnectTokenChallenge
  <2>2. ASSUME NEW p \in Managers, NEW t \in TokenIds, NEW etag \in 1..VersionLimit
        PROVE  /\ \A ss \in SUBSET Servers, ws \in SUBSET Stations, tm \in Terms :
                    ConnectTokenUpdate(p, t, etag, ss, ws, tm) => UNCHANGED lateBatch
               /\ \A a \in Actions, n \in 1..generated :
                    SensitiveAction(p, t, etag, a, n) => UNCHANGED lateBatch
    BY DEF ConnectTokenUpdate, SensitiveAction
  <2> QED
    BY <1>1, <2>1, <2>2 DEF RequestStep, JobMoves
<1>2. CASE JobStep
  BY <1>2 DEF JobStep, ConsumeConfirmation, Reveal, Rotate, Revoke, CommitChange,
     CoordinatorEvicted, LateBatchArrives, JobMoves, Confirms, Commits
<1>3. CASE WorldStep
  BY <1>3 DEF WorldStep, ChangeGrants, DeleteServer, RegisterServer, DisableStation,
     DeleteStation, ConfirmationExpires, JobMoves
<1>4. CASE UNCHANGED tokenVars
  BY <1>4 DEF tokenVars, JobMoves
<1> QED
  BY <1>1, <1>2, <1>3, <1>4, TokenStepSplits

\* What was known of a token stays true of it: a change moves the version.
LEMMA KnowledgeStays ==
  ASSUME RowsInv, RowsInv', VersionsTell, [TokensNext]_tokenVars,
         NEW t \in TokenIds, tokens[t] # Nil, NEW row \in Token, Knows(t, row)
  PROVE  /\ row.version <= tokens'[t].version /\ row.secret <= generated'
         /\ row.version = tokens'[t].version =>
              row.servers = tokens'[t].servers /\ row.secret = tokens'[t].secret
<1>1. /\ tokens[t].version \in Nat /\ tokens'[t].version \in Nat
      /\ row.version \in Nat /\ row.secret \in Nat
      /\ tokens'[t].version >= tokens[t].version
      /\ tokens'[t].version = tokens[t].version =>
            tokens'[t].servers = tokens[t].servers /\ tokens'[t].secret = tokens[t].secret
  BY DEF VersionsTell, RowsInv, TokensTypeOK, Token, Secrets
<1> QED
  BY <1>1, GeneratedGrows DEF Knows

LEMMA BatchKnowledgeStays ==
  ASSUME RowsInv, RowsInv', VersionsTell, [TokensNext]_tokenVars,
         NEW b \in Batch, tokens[b.token] # Nil, BatchKnows(b)
  PROVE  /\ b.expected <= tokens'[b.token].version /\ b.row.secret <= generated'
         /\ b.expected = tokens'[b.token].version =>
              b.previous = tokens'[b.token].servers /\ tokens'[b.token].secret <= b.row.secret
<1>1. b.token \in TokenIds /\ b.expected \in Nat /\ b.row.secret \in Nat
  BY DEF Batch, Token, Secrets
<1>2. /\ tokens[b.token].version \in Nat /\ tokens'[b.token].version \in Nat
      /\ tokens'[b.token].version >= tokens[b.token].version
      /\ tokens'[b.token].version = tokens[b.token].version =>
            /\ tokens'[b.token].servers = tokens[b.token].servers
            /\ tokens'[b.token].secret = tokens[b.token].secret
  BY <1>1 DEF VersionsTell, RowsInv, TokensTypeOK, Token
<1> QED
  BY <1>1, <1>2, GeneratedGrows DEF BatchKnows

LEMMA SecretsGenerated ==
  ASSUME RowsInv, RowsInv', VersionsKnow, [TokensNext]_tokenVars, NEW t \in TokenIds,
         tokens'[t] # Nil
  PROVE  tokens'[t].secret <= generated'
<1>1. /\ tokens[t] # Nil => tokens[t].secret <= generated /\ tokens[t].secret \in Nat
      /\ generated \in Nat /\ generated' \in Nat /\ generated' >= generated
  BY GeneratedGrows DEF VersionsKnow, RowsInv, TokensTypeOK, Token, Secrets
<1>2. CASE UNCHANGED <<tokens, changeAudit>>
  BY <1>1, <1>2
<1>3. ASSUME NEW p \in Managers, NEW u \in TokenIds, NEW ss \in SUBSET Servers,
             NEW ws \in SUBSET Stations, NEW tm \in Terms, ConnectTokensCreate(p, u, ss, ws, tm)
      PROVE  tokens'[t].secret <= generated'
  <2>1. generated' = generated + 1
    BY <1>3 DEF ConnectTokensCreate
  <2>2. /\ t # u => tokens'[t] = tokens[t]
        /\ tokens'[u].secret = generated + 1
    BY <1>3, CreatedRow
  <2> QED
    BY <1>1, <2>1, <2>2
<1>4. ASSUME NEW b \in Batch, Applies(b)
      PROVE  tokens'[t].secret <= generated'
  <2>1. b.row.secret <= generated /\ b.row.secret \in Nat
    BY <1>4, BatchTyped DEF Applies, Pending, VersionsKnow, BatchKnows, Secrets
  <2>2. /\ t # b.token => tokens'[t] = tokens[t]
        /\ t = b.token => tokens'[t].secret = b.row.secret
    BY <1>4, BatchTyped DEF Applies, RowsInv, TokensTypeOK
  <2> QED
    BY <1>1, <2>1, <2>2
<1>5. ASSUME (\E s \in Servers : DeleteServer(s)) \/ (\E w \in Stations : DeleteStation(w))
      PROVE  tokens'[t].secret <= generated'
  <2>1. tokens[t] # Nil
    BY <1>5, NilStays
  <2>2. tokens'[t].secret = tokens[t].secret
    BY <1>5, <2>1, WithoutServerRow, WithoutStationRow
  <2> QED
    BY <1>1, <2>1, <2>2
<1> QED
  BY <1>2, <1>3, <1>4, <1>5, TokenMovesOfStep DEF TokenMoves

LEMMA JobKnows ==
  ASSUME RowsInv, RowsInv', VersionsKnow, VersionsTell, [TokensNext]_tokenVars
  PROVE  /\ Confirms' => Knows(manageJob.token, manageJob.row)'
         /\ Commits' => BatchKnows(manageJob.batch)'
<1> USE TokensAssumption
<1>1. /\ Confirms => /\ manageJob.token \in TokenIds /\ manageJob.row \in Token
                     /\ tokens[manageJob.token] # Nil /\ Knows(manageJob.token, manageJob.row)
      /\ Commits => /\ manageJob.batch \in Batch /\ tokens[manageJob.batch.token] # Nil
                    /\ BatchKnows(manageJob.batch)
  BY JobTyped DEF RowsInv, RowsCurrent, BatchReady, VersionsKnow, Confirming
<1>2. CASE manageJob' \in {Nil, manageJob}
  <2>1. CASE manageJob' = manageJob /\ Confirms
    BY <1>1, <2>1, KnowledgeStays DEF Confirms, Commits, Knows
  <2>2. CASE manageJob' = manageJob /\ Commits
    BY <1>1, <2>2, BatchKnowledgeStays DEF Confirms, Commits, BatchKnows
  <2> QED
    BY <1>2, <2>1, <2>2 DEF Confirms, Commits
<1>3. CASE Confirms /\ manageJob' = [manageJob EXCEPT !.step = "effect"]
  <2>1. /\ manageJob'.token = manageJob.token /\ manageJob'.row = manageJob.row
        /\ manageJob'.step # "commit"
    BY <1>3, JobTyped DEF Confirming
  <2> QED
    BY <1>1, <1>3, <2>1, KnowledgeStays DEF Confirms, Commits, Knows
<1>4. ASSUME NEW p \in Managers, NEW t \in TokenIds, NEW etag \in 1..VersionLimit,
             NEW a \in Actions, NEW n \in 1..generated, SensitiveAction(p, t, etag, a, n)
      PROVE  ~Commits' /\ Knows(manageJob.token, manageJob.row)'
  <2>1. /\ manageJob' = [step |-> "consume", by |-> p, token |-> t, row |-> tokens[t],
                         action |-> a, nonce |-> n]
        /\ tokens[t] # Nil /\ tokens' = tokens /\ generated' = generated
    BY <1>4 DEF SensitiveAction, Found, tokenTables
  <2>2. tokens[t].version \in Nat /\ tokens[t].secret <= generated
    BY <2>1 DEF RowsInv, TokensTypeOK, Token, VersionsKnow
  <2> QED
    BY <2>1, <2>2 DEF Commits, Knows
<1>5. ASSUME NEW p \in Managers, NEW t \in TokenIds, NEW etag \in 1..VersionLimit,
             NEW ss \in SUBSET Servers, NEW ws \in SUBSET Stations, NEW tm \in Terms,
             ConnectTokenUpdate(p, t, etag, ss, ws, tm)
      PROVE  ~Confirms' /\ BatchKnows(manageJob.batch)'
  <2> DEFINE new == [tokens[t] EXCEPT !.servers = ss, !.stations = ws]
             row == Retermed(new, tm)
  <2>1. /\ tokens[t] \in Token /\ tokens[t] # Nil /\ ~tokens[t].revoked
        /\ tokens[t].version = etag /\ Current(tokens[t]) /\ tokens[t].secret <= generated
    BY <1>5 DEF ConnectTokenUpdate, Found, RowsInv, TokensTypeOK, RowsCurrent, VersionsKnow
  <2>2. /\ new \in Token /\ Current(new) /\ ~new.revoked /\ new.version = etag
        /\ new.secret = tokens[t].secret
    BY <2>1 DEF Token, Current, Unseals, Seal
  <2>3. row.version = etag /\ row.secret = tokens[t].secret
    BY <2>2, RetermedCurrent
  <2>4. /\ manageJob' = Commit(t, row, tokens[t].servers)
        /\ UNCHANGED <<tokenGrantVars, tokenTables, lateBatch, generated, uses>>
    BY <1>5 DEF ConnectTokenUpdate
  <2> HIDE DEF row, new
  <2>5. tokens[t].secret \in Nat /\ etag \in Nat
    BY <2>1 DEF Token, Secrets
  <2> QED
    BY <2>1, <2>3, <2>4, <2>5 DEF Commit, Confirms, BatchKnows, tokenTables
<1>6. CASE Rotate \/ Revoke
  <2>1. /\ manageJob.row \in Token /\ manageJob.token \in TokenIds
        /\ Knows(manageJob.token, manageJob.row) /\ tokens' = tokens
        /\ tokens[manageJob.token] \in Token /\ tokens[manageJob.token].secret <= generated
        /\ generated \in Nat
    <3>1. Confirms /\ tokens' = tokens
      BY <1>6 DEF Rotate, Revoke, Confirms, tokenTables
    <3> QED
      BY <1>1, <3>1 DEF VersionsKnow, RowsInv, TokensTypeOK
  <2>2. PICK row \in Token :
          /\ manageJob' = Commit(manageJob.token, row, manageJob.row.servers)
          /\ row.version = manageJob.row.version /\ row.secret <= generated'
          /\ row.secret = manageJob.row.secret \/ row.secret = generated + 1
    <3>1. CASE Rotate
      <4>1. generated + 1 \in Secrets /\ generated' = generated + 1
        BY <2>1, <3>1 DEF Rotate, Secrets, RowsInv, TokensTypeOK
      <4> QED
        BY <2>1, <3>1, <4>1, ReplacedCurrent DEF Rotate
    <3>2. CASE Revoke
      <4> DEFINE row == [manageJob.row EXCEPT !.revoked = TRUE, !.sealed = Nil]
      <4>1. /\ row \in Token /\ row.version = manageJob.row.version
            /\ row.secret = manageJob.row.secret
        BY <2>1 DEF Token
      <4>2. manageJob.row.secret <= generated /\ generated' = generated
        BY <2>1, <3>2 DEF Knows, Revoke
      <4> QED
        BY <3>2, <4>1, <4>2 DEF Revoke
    <3> QED
      BY <1>6, <3>1, <3>2
  <2>3. /\ row.secret \in Nat /\ row.version \in Nat /\ manageJob.row.secret \in Nat
        /\ tokens[manageJob.token].secret \in Nat
    BY <2>1 DEF Token, Secrets
  <2> QED
    BY <2>1, <2>2, <2>3 DEF Commit, Confirms, BatchKnows, Knows
<1> QED
  BY <1>2, <1>3, <1>4, <1>5, <1>6, JobMovesOfStep DEF JobMoves

LEMMA VersionsKnowInductive ==
  ASSUME RowsInv, RowsInv', VersionsKnow, [TokensNext]_tokenVars
  PROVE  VersionsKnow'
<1>0. VersionsTell
  BY VersionsTellOfStep
<1>1. lateBatch' # Nil => BatchKnows(lateBatch)'
  <2>1. /\ lateBatch # Nil => lateBatch \in Batch /\ tokens[lateBatch.token] # Nil
                              /\ BatchKnows(lateBatch)
        /\ Commits => /\ manageJob.batch \in Batch /\ tokens[manageJob.batch.token] # Nil
                      /\ BatchKnows(manageJob.batch)
    BY JobTyped DEF RowsInv, TokensTypeOK, RowsCurrent, BatchReady, VersionsKnow
  <2>2. CASE lateBatch' = lateBatch
    BY <1>0, <2>1, <2>2, BatchKnowledgeStays DEF BatchKnows
  <2>3. CASE Commits /\ lateBatch' = manageJob.batch
    BY <1>0, <2>1, <2>3, BatchKnowledgeStays DEF BatchKnows
  <2> QED
    BY <2>2, <2>3, JobMovesOfStep
<1> QED
  BY <1>0, <1>1, JobKnows, SecretsGenerated DEF VersionsKnow

\* The batch that wins expects the version the token has, so it knows what the token holds.
LEMMA WinnerKnows ==
  ASSUME RowsInv, VersionsKnow, NEW b \in Batch, Applies(b)
  PROVE  /\ ~tokens[b.token].revoked
         /\ b.previous = tokens[b.token].servers
         /\ tokens[b.token].secret <= b.row.secret
<1>1. BatchKnows(b)
  BY DEF Applies, Pending, VersionsKnow
<1> QED
  BY <1>1 DEF Applies, Changes, BatchKnows

LEMMA SecretsOnlyForwardOfStep ==
  ASSUME RowsInv, VersionsKnow, [TokensNext]_tokenVars
  PROVE  SecretsOnlyForward
<1> SUFFICES ASSUME NEW t \in TokenIds, tokens[t] # Nil
             PROVE  /\ tokens[t].revoked => tokens'[t].revoked
                    /\ tokens'[t].secret >= tokens[t].secret
  BY DEF SecretsOnlyForward
<1>0. tokens[t].secret \in Nat
  BY DEF RowsInv, TokensTypeOK, Token, Secrets
<1>1. CASE tokens'[t] = tokens[t]
  BY <1>0, <1>1
<1>2. ASSUME NEW p \in Managers, NEW u \in TokenIds, NEW ss \in SUBSET Servers,
             NEW ws \in SUBSET Stations, NEW tm \in Terms, ConnectTokensCreate(p, u, ss, ws, tm)
      PROVE  tokens'[t] = tokens[t]
  BY <1>2, CreatedRow
<1>3. ASSUME NEW b \in Batch, Applies(b)
      PROVE  tokens'[t] = tokens[t] \/ (~tokens[t].revoked /\ tokens'[t].secret >= tokens[t].secret)
  <2>1. /\ t # b.token => tokens'[t] = tokens[t]
        /\ t = b.token => tokens'[t].secret = b.row.secret
        /\ b.row.secret \in Nat
    BY <1>3, BatchTyped DEF Applies, RowsInv, TokensTypeOK, Secrets
  <2> QED
    BY <1>0, <1>3, <2>1, WinnerKnows
<1>4. ASSUME (\E s \in Servers : DeleteServer(s)) \/ (\E w \in Stations : DeleteStation(w))
      PROVE  tokens'[t].revoked = tokens[t].revoked /\ tokens'[t].secret = tokens[t].secret
  BY <1>4, WithoutServerRow, WithoutStationRow
<1> QED
  BY <1>0, <1>1, <1>2, <1>3, <1>4, TokenMovesOfStep DEF TokenMoves

LEMMA AuditedFromTruthOfStep ==
  ASSUME RowsInv, VersionsKnow, [TokensNext]_tokenVars
  PROVE  AuditedFromTruth
<1> SUFFICES ASSUME NEW t \in TokenIds, tokens[t] # Nil,
                    changeAudit'[t].changes > changeAudit[t].changes
             PROVE  changeAudit'[t].previous = tokens[t].servers
  BY DEF AuditedFromTruth
<1>0. changeAudit[t].changes \in Nat
  BY DEF RowsInv, TokensTypeOK, Audit
<1>1. ASSUME changeAudit'[t] = changeAudit[t] PROVE FALSE
  BY <1>0, <1>1
<1>2. ASSUME NEW p \in Managers, NEW u \in TokenIds, NEW ss \in SUBSET Servers,
             NEW ws \in SUBSET Stations, NEW tm \in Terms, ConnectTokensCreate(p, u, ss, ws, tm)
      PROVE  FALSE
  <2>1. AuditStatement(u, ss, {}) /\ t # u
    BY <1>2, CreatedRow
  <2> QED
    BY <1>1, <2>1, AuditWritten
<1>3. ASSUME NEW b \in Batch, Applies(b)
      PROVE  changeAudit'[t].previous = tokens[t].servers
  <2>1. b.token \in TokenIds /\ AuditStatement(b.token, b.row.servers, b.previous)
    BY <1>3, BatchTyped DEF Applies
  <2>2. /\ changeAudit'[b.token].previous = b.previous
        /\ t # b.token => changeAudit'[t] = changeAudit[t]
    BY <2>1, AuditWritten
  <2> QED
    BY <1>1, <1>3, <2>2, WinnerKnows
<1>4. ASSUME (\E s \in Servers : DeleteServer(s)) \/ (\E w \in Stations : DeleteStation(w))
      PROVE  FALSE
  BY <1>1, <1>4 DEF DeleteServer, DeleteStation
<1> QED
  BY <1>1, <1>2, <1>3, <1>4, TokenMovesOfStep DEF TokenMoves

VersionsInv == RowsInv /\ VersionsKnow

LEMMA VersionsInductive ==
  /\ TokensInit => VersionsInv
  /\ VersionsInv /\ [TokensNext]_tokenVars => VersionsInv'
<1>1. TokensInit => VersionsKnow
  BY DEF TokensInit, VersionsKnow, Confirms, Commits
<1> QED
  BY <1>1, RowsInitially, RowsInductive, VersionsKnowInductive DEF VersionsInv

\* A batch that commits late, after the request that sent it was evicted, undoes neither a
\* revocation nor a rotation, and each audited change names the servers the token really had.
THEOREM TokensMoveForward == TokensSpec => TokensOnlyForward
<1>1. VersionsInv /\ [TokensNext]_tokenVars => SecretsOnlyForward /\ AuditedFromTruth
  BY SecretsOnlyForwardOfStep, AuditedFromTruthOfStep DEF VersionsInv
<1>2. VersionsInv /\ [TokensNext]_tokenVars => [SecretsOnlyForward /\ AuditedFromTruth]_tokenVars
  BY <1>1
<1> QED
  BY <1>2, VersionsInductive, PTL DEF TokensSpec, TokensOnlyForward

-----------------------------------------------------------------------------
(* Confirmations.  A nonce is outstanding in one confirmation, or in the   *)
(* request that consumed it, or it is spent.                               *)

Effects == manageJob # Nil /\ manageJob.step = "effect"

NoncesSpent ==
    /\ \A c \in challenges : c.nonce <= generated /\ uses[c.nonce] = 0
    /\ \A c, d \in challenges : c.nonce = d.nonce => c = d
    /\ \A n \in Secrets : n > generated => uses[n] = 0
    /\ Effects => /\ manageJob.nonce <= generated /\ uses[manageJob.nonce] = 0
                  /\ \A c \in challenges : c.nonce # manageJob.nonce

\* A step that neither uses nor hands out a confirmation.
LeavesNonces ==
    /\ uses' = uses /\ challenges' \subseteq challenges
    /\ Effects' => Effects /\ manageJob' = manageJob

\* The confirmed effect happens, and the request goes on to its batch or ends.
UsesNonce ==
    /\ Effects /\ uses' = [uses EXCEPT ![manageJob.nonce] = @ + 1]
    /\ challenges' = challenges /\ ~Effects'

LEMMA NonceMoves ==
  ASSUME [TokensNext]_tokenVars
  PROVE  \/ LeavesNonces
         \/ UsesNonce
         \/ ConsumeConfirmation /\ \E c \in challenges : Matches(c, manageJob)
         \/ \E p \in Managers, t \in TokenIds, etag \in 1..VersionLimit, a \in Actions :
               ConnectTokenChallenge(p, t, etag, a)
<1>1. CASE RequestStep
  <2>1. ASSUME NEW p \in Managers, NEW t \in TokenIds, NEW ss \in SUBSET Servers,
               NEW ws \in SUBSET Stations, NEW tm \in Terms
        PROVE  /\ ConnectTokensCreate(p, t, ss, ws, tm) => LeavesNonces
               /\ \A etag \in 1..VersionLimit :
                    ConnectTokenUpdate(p, t, etag, ss, ws, tm) => LeavesNonces
    BY DEF ConnectTokensCreate, ConnectTokenUpdate, Commit, LeavesNonces, Effects, tokenTables
  <2>2. ASSUME NEW p \in Managers, NEW t \in TokenIds, NEW etag \in 1..VersionLimit,
               NEW a \in Actions, NEW n \in 1..generated, SensitiveAction(p, t, etag, a, n)
        PROVE  LeavesNonces
    BY <2>2 DEF SensitiveAction, LeavesNonces, Effects, tokenTables
  <2> QED
    BY <1>1, <2>1, <2>2 DEF RequestStep
<1>2. CASE JobStep
  <2>1. CASE ConsumeConfirmation
    BY <2>1 DEF ConsumeConfirmation, LeavesNonces, Effects
  <2>2. CASE Reveal \/ Rotate \/ Revoke
    BY <2>2 DEF Reveal, Rotate, Revoke, Commit, UsesNonce, Effects, tokenTables
  <2>3. CASE CommitChange \/ CoordinatorEvicted \/ LateBatchArrives
    BY <2>3 DEF CommitChange, CoordinatorEvicted, LateBatchArrives, LeavesNonces, Effects,
       tokenTables
  <2> QED
    BY <1>2, <2>1, <2>2, <2>3 DEF JobStep
<1>3. CASE WorldStep
  BY <1>3 DEF WorldStep, ChangeGrants, DeleteServer, RegisterServer, DisableStation,
     DeleteStation, ConfirmationExpires, LeavesNonces, Effects, tokenTables
<1>4. CASE UNCHANGED tokenVars
  BY <1>4 DEF tokenVars, tokenTables, LeavesNonces, Effects
<1> QED
  BY <1>1, <1>2, <1>3, <1>4, TokenStepSplits

LEMMA NoncesInductive ==
  ASSUME RowsInv, NoncesSpent, ConfirmedOnce, [TokensNext]_tokenVars
  PROVE  NoncesSpent' /\ ConfirmedOnce'
<1>0. /\ generated \in Nat /\ generated' \in Nat /\ generated' >= generated
      /\ uses \in [Secrets -> Nat]
      /\ \A c \in challenges : c.nonce \in Secrets /\ c.nonce \in Nat
      /\ \A n \in Secrets : n \in Nat
      /\ Effects => manageJob \in Confirming /\ manageJob.nonce \in Secrets
  BY GeneratedGrows, JobTyped
  DEF RowsInv, TokensTypeOK, Challenge, Secrets, Effects, Confirms, Confirming
<1>1. CASE LeavesNonces
  BY <1>0, <1>1 DEF LeavesNonces, NoncesSpent, ConfirmedOnce, Effects
<1>2. CASE UsesNonce
  <2>1. /\ manageJob.nonce \in Secrets /\ manageJob.nonce <= generated
        /\ uses[manageJob.nonce] = 0
        /\ \A c \in challenges : c.nonce # manageJob.nonce
    BY <1>0, <1>2 DEF UsesNonce, NoncesSpent
  <2>2. \A n \in Secrets : uses'[n] = IF n = manageJob.nonce THEN 1 ELSE uses[n]
    BY <1>0, <1>2, <2>1 DEF UsesNonce
  <2> QED
    BY <1>0, <1>2, <2>1, <2>2 DEF UsesNonce, NoncesSpent, ConfirmedOnce
<1>3. CASE ConsumeConfirmation /\ \E c \in challenges : Matches(c, manageJob)
  <2>1. /\ challenges' = {c \in challenges : ~Matches(c, manageJob)}
        /\ manageJob' = [manageJob EXCEPT !.step = "effect"]
        /\ UNCHANGED <<generated, uses>>
    BY <1>3 DEF ConsumeConfirmation
  <2>2. PICK c \in challenges : Matches(c, manageJob)
    BY <1>3
  <2>3. manageJob \in Confirming
    BY <1>3, JobTyped DEF ConsumeConfirmation, Confirms, RowsInv
  <2>4. manageJob'.nonce = manageJob.nonce /\ c.nonce = manageJob.nonce
    BY <2>1, <2>2, <2>3 DEF Confirming, Matches
  <2>5. \A d \in challenges' : d \in challenges /\ d # c
    BY <2>1, <2>2
  <2> QED
    BY <1>0, <2>1, <2>4, <2>5 DEF NoncesSpent, ConfirmedOnce
<1>4. ASSUME NEW p \in Managers, NEW t \in TokenIds, NEW etag \in 1..VersionLimit,
             NEW a \in Actions, ConnectTokenChallenge(p, t, etag, a)
      PROVE  NoncesSpent' /\ ConfirmedOnce'
  <2> DEFINE new == [nonce |-> generated', token |-> t, by |-> p, action |-> a, version |-> etag]
  <2>1. /\ generated' = generated + 1 /\ generated < SecretLimit
        /\ \A c \in challenges' : c \in challenges \/ c = new
        /\ manageJob = Nil
        /\ UNCHANGED <<manageJob, uses>>
    BY <1>4 DEF ConnectTokenChallenge, Arrives
  <2>2. generated' \in Secrets
    BY <1>0, <2>1, TokensAssumption DEF Secrets
  <2>3. new.nonce = generated' /\ uses[generated'] = 0 /\ \A c \in challenges : c.nonce # generated'
    BY <1>0, <2>1, <2>2 DEF NoncesSpent
  <2> HIDE DEF new
  <2> QED
    BY <1>0, <2>1, <2>2, <2>3 DEF NoncesSpent, ConfirmedOnce, Effects
<1> QED
  BY <1>1, <1>2, <1>3, <1>4, NonceMoves

-----------------------------------------------------------------------------
(* The limit of a server.                                                  *)

LEMMA OneMore ==
  ASSUME NEW S, IsFiniteSet(S), NEW x, NEW T \in SUBSET (S \cup {x}),
         NEW n \in Nat, Cardinality(S) < n
  PROVE  Cardinality(T) <= n
<1>1. /\ IsFiniteSet(S \cup {x}) /\ Cardinality(S) \in Nat
      /\ Cardinality(S \cup {x}) = Cardinality(S) \/ Cardinality(S \cup {x}) = Cardinality(S) + 1
  BY FS_AddElement, FS_CardinalityType
<1>2. IsFiniteSet(T) /\ Cardinality(T) <= Cardinality(S \cup {x})
  BY <1>1, FS_Subset
<1>3. Cardinality(T) \in Nat
  BY <1>2, FS_CardinalityType
<1> QED
  BY <1>1, <1>2, <1>3

LEMMA NotMore ==
  ASSUME NEW S, IsFiniteSet(S), NEW T \in SUBSET S, NEW n \in Nat, Cardinality(S) <= n
  PROVE  Cardinality(T) <= n
<1>1. IsFiniteSet(T) /\ Cardinality(T) <= Cardinality(S)
  BY FS_Subset
<1>2. Cardinality(T) \in Nat /\ Cardinality(S) \in Nat
  BY <1>1, FS_CardinalityType
<1> QED
  BY <1>1, <1>2

TokensOf(s) == {t \in ActiveTokens : s \in tokens[t].servers}

\* The part of belowServerLimit that counts the others, as what limits the whole.
LEMMA RoomForOne ==
  ASSUME RowsInv, IsFiniteSet(ActiveTokens), NEW s \in Servers, NEW t \in TokenIds,
         NEW ss, s \in ss, BelowServerLimit(t, ss),
         \A u \in TokensOf(s)' : u = t \/ u \in TokensOf(s) \ {t}
  PROVE  Cardinality(TokensOf(s)') <= TokensPerServer
<1> DEFINE others == {u \in ActiveTokens \ {t} : s \in tokens[u].servers}
<1>1. s \in Servers /\ Cardinality(others) < TokensPerServer /\ TokensPerServer \in Nat
  BY TokensAssumption DEF BelowServerLimit
<1>2. IsFiniteSet(others)
  BY FS_Subset
<1>3. TokensOf(s)' \subseteq others \cup {t}
  BY DEF TokensOf
<1> HIDE DEF others
<1> QED
  BY <1>1, <1>2, <1>3, OneMore

LEMMA LimitsInductive ==
  ASSUME RowsInv, RowsInv', IsFiniteSet(ActiveTokens), ServerLimitKept, [TokensNext]_tokenVars
  PROVE  IsFiniteSet(ActiveTokens)' /\ ServerLimitKept'
<1>1. CASE \A t \in ActiveTokens' :
              t \in ActiveTokens /\ tokens'[t].servers \subseteq tokens[t].servers
  <2>1. ActiveTokens' \subseteq ActiveTokens
    BY <1>1
  <2>2. IsFiniteSet(ActiveTokens')
    BY <2>1, FS_Subset
  <2>3. ASSUME NEW s \in Servers PROVE Cardinality(TokensOf(s)') <= TokensPerServer
    <3>1. TokensOf(s)' \subseteq TokensOf(s) /\ IsFiniteSet(TokensOf(s))
      BY <1>1, FS_Subset DEF TokensOf
    <3>2. Cardinality(TokensOf(s)) <= TokensPerServer /\ TokensPerServer \in Nat
      BY TokensAssumption DEF ServerLimitKept, TokensOf
    <3> QED
      BY <3>1, <3>2, NotMore
  <2> QED
    BY <2>2, <2>3 DEF ServerLimitKept, TokensOf
<1>2. ASSUME NEW t \in TokenIds, NEW ss \in SUBSET Servers, BelowServerLimit(t, ss),
             \A u \in TokenIds \ {t} : tokens'[u] = tokens[u], tokens'[t].servers = ss
      PROVE  IsFiniteSet(ActiveTokens)' /\ ServerLimitKept'
  <2>1. ActiveTokens' \subseteq ActiveTokens \cup {t}
    BY <1>2 DEF ActiveTokens
  <2>2. IsFiniteSet(ActiveTokens')
    BY <2>1, FS_AddElement, FS_Subset
  <2>3. ASSUME NEW s \in Servers PROVE Cardinality(TokensOf(s)') <= TokensPerServer
    <3>1. \A u \in TokensOf(s)' : (u = t /\ s \in ss) \/ u \in TokensOf(s) \ {t}
      BY <1>2 DEF TokensOf, ActiveTokens
    <3>2. CASE s \in ss
      BY <1>2, <3>1, <3>2, RoomForOne
    <3>3. CASE s \notin ss
      <4>1. TokensOf(s)' \subseteq TokensOf(s)
        BY <3>1, <3>3
      <4>2. IsFiniteSet(TokensOf(s))
        BY FS_Subset DEF TokensOf
      <4>3. Cardinality(TokensOf(s)) <= TokensPerServer /\ TokensPerServer \in Nat
        BY TokensAssumption DEF ServerLimitKept, TokensOf
      <4> QED
        BY <4>1, <4>2, <4>3, NotMore
    <3> QED
      BY <3>2, <3>3
  <2> QED
    BY <2>2, <2>3 DEF ServerLimitKept, TokensOf
<1>3. CASE UNCHANGED <<tokens, changeAudit>>
  BY <1>1, <1>3 DEF ActiveTokens
<1>4. ASSUME NEW p \in Managers, NEW u \in TokenIds, NEW ss \in SUBSET Servers,
             NEW ws \in SUBSET Stations, NEW tm \in Terms, ConnectTokensCreate(p, u, ss, ws, tm)
      PROVE  IsFiniteSet(ActiveTokens)' /\ ServerLimitKept'
  <2>1. BelowServerLimit(u, ss)
    BY <1>4 DEF ConnectTokensCreate
  <2> QED
    BY <1>2, <1>4, <2>1, CreatedRow
<1>5. ASSUME NEW b \in Batch, Applies(b)
      PROVE  IsFiniteSet(ActiveTokens)' /\ ServerLimitKept'
  <2>1. BelowServerLimit(b.token, b.row.servers)
    BY <1>5 DEF Applies, Changes
  <2>2. /\ b.token \in TokenIds /\ b.row.servers \in SUBSET Servers
        /\ \A u \in TokenIds \ {b.token} : tokens'[u] = tokens[u]
        /\ tokens'[b.token].servers = b.row.servers
    BY <1>5, BatchTyped DEF Applies, RowsInv, TokensTypeOK
  <2> QED
    BY <1>2, <2>1, <2>2
<1>6. ASSUME (\E s \in Servers : DeleteServer(s)) \/ (\E w \in Stations : DeleteStation(w))
      PROVE  \A t \in ActiveTokens' :
                t \in ActiveTokens /\ tokens'[t].servers \subseteq tokens[t].servers
  <2> SUFFICES ASSUME NEW t \in TokenIds, tokens'[t] # Nil, ~tokens'[t].revoked
               PROVE  /\ tokens[t] # Nil /\ ~tokens[t].revoked
                      /\ tokens'[t].servers \subseteq tokens[t].servers
    BY DEF ActiveTokens
  <2>1. tokens[t] # Nil
    BY <1>6, NilStays
  <2> QED
    BY <1>6, <2>1, WithoutServerRow, WithoutStationRow
<1> QED
  BY <1>1, <1>3, <1>4, <1>5, <1>6, TokenMovesOfStep DEF TokenMoves

-----------------------------------------------------------------------------

TokensInv ==
    /\ RowsInv
    /\ GrantsStand
    /\ GrantsAudited
    /\ NoncesSpent /\ ConfirmedOnce
    /\ IsFiniteSet(ActiveTokens) /\ ServerLimitKept

LEMMA TokensInvInductive ==
  ASSUME TokensInv, [TokensNext]_tokenVars
  PROVE  TokensInv'
<1>1. RowsInv'
  BY RowsInductive DEF TokensInv
<1> QED
  BY <1>1, GrantsStandInductive, GrantsAuditedInductive, NoncesInductive, LimitsInductive
  DEF TokensInv

LEMMA TokensInvInitially == ASSUME TokensInit PROVE TokensInv
<1>1. /\ ActiveTokens = {} /\ \A t \in TokenIds : tokens[t] = Nil
      /\ challenges = {} /\ manageJob = Nil /\ \A n \in Secrets : uses[n] = 0
  BY DEF TokensInit, ActiveTokens
<1>2. IsFiniteSet(ActiveTokens) /\ ServerLimitKept
  <2>1. IsFiniteSet({}) /\ Cardinality({}) = 0
    BY FS_EmptySet
  <2>2. \A s \in Servers : {t \in ActiveTokens : s \in tokens[t].servers} = {}
    BY <1>1
  <2> QED
    BY <1>1, <2>1, <2>2, TokensAssumption DEF ServerLimitKept
<1> QED
  BY <1>1, <1>2, RowsInitially
  DEF TokensInv, GrantsStand, GrantsAudited, NoncesSpent, ConfirmedOnce, Effects

\* Every token in force opens, can be managed by somebody and reaches only audited servers; a
\* confirmation works once; and no server has more tokens in force than its limit.
THEOREM TokensStaySound == TokensSpec => []TokensSound
<1>1. TokensInv => TokensSound
  <2> SUFFICES ASSUME TokensInv PROVE TokensSound
    OBVIOUS
  <2>1. TokensTypeOK /\ SealedCurrent
    BY DEF TokensInv, RowsInv, RowsCurrent, SealedCurrent, ActiveTokens, Current
  <2>2. Revocable
    BY SomebodyManages DEF TokensInv
  <2> QED
    BY <2>1, <2>2 DEF TokensInv, TokensSound
<1> QED
  BY <1>1, TokensInvInitially, TokensInvInductive, PTL DEF TokensSpec
=============================================================================
