-------------------------- MODULE ConnectMutations --------------------------
(***************************************************************************)
(* Configuration changes of one server: the ConnectCoordinator Durable     *)
(* Object that serializes them, and the idempotent mutations (POST, PUT,   *)
(* PATCH, DELETE under /api/v1) of one Connect token that run inside it    *)
(* next to browser changes.                                                *)
(*                                                                         *)
(* A slot is one HTTP request at a time.  Between two awaits of the        *)
(* running request clients send more requests, the request timer fires,    *)
(* the cron job expires old responses and the object may be evicted, which *)
(* loses every queued and running request but nothing stored in D1.        *)
(* Wall-clock comparisons (queue wait, request timer, response age) may go *)
(* either way.                                                             *)
(***************************************************************************)
EXTENDS Integers, Sequences

CONSTANTS
    Slots,         \* HTTP requests that may be outstanding
    Keys,          \* Idempotency-Key values
    Intents,       \* fingerprints of (operation, path, query, body)
    Capacity,      \* the 32 of ConnectCoordinator.fetch
    MaxRevision,   \* bound on the configuration revision (model checking only)
    HostDeletion,  \* whether the browser deletes and re-registers the host
    None

ASSUME ConnectAssumption ==
    /\ Capacity \in Nat \ {0}
    /\ MaxRevision \in Nat
    /\ HostDeletion \in BOOLEAN
    /\ None \notin Slots
    /\ None \notin [intent : Intents, state : {"pending", "complete"}, response : BOOLEAN]

\* What a slot can carry: a Connect mutation, or a browser change.
Mutation == [kind : {"connect"}, key : Keys, intent : Intents, ifMatch : 0..MaxRevision]
Change == [kind : {"edit", "grants"} \cup (IF HostDeletion THEN {"delete", "register"} ELSE {})]
Requests == Mutation \cup Change

VARIABLES
    queue,       \* the tail: slots waiting, in order
    running,     \* the slot whose work holds the tail, or None
    pending,     \* ConnectCoordinator.pending
    req,         \* slot -> the request it carries
    step,        \* slot -> what it does next
    answer,      \* slot -> what its client was told ("none": nothing yet)
    records,     \* connect_requests: key -> row or None
    revision,    \* connect_server_versions.revision (0 when there is no row)
    host,        \* "present", "deleted" or "registered" (no row yet)
    granted,     \* the token has a connect_token_servers row for the server
    executions,  \* history: how often the product handler ran for each key (2: or more)
    ran          \* history: the slots whose current request ran its handler

coordinator == <<queue, running, pending>>
database == <<records, revision, host, granted>>
history == <<executions, ran>>
vars == <<coordinator, req, step, answer, database, history>>

Idle == [kind |-> "edit"]  \* what a slot at rest holds, unused

Init ==
    /\ queue = <<>>
    /\ running = None
    /\ pending = 0
    /\ req = [s \in Slots |-> Idle]
    /\ step = [s \in Slots |-> "idle"]
    /\ answer = [s \in Slots |-> "none"]
    /\ records = [k \in Keys |-> None]
    /\ revision = 0
    /\ host = "present"
    /\ granted = TRUE
    /\ executions = [k \in Keys |-> 0]
    /\ ran = {}

-----------------------------------------------------------------------------
(* ConnectCoordinator.fetch.                                               *)

\* A request that finds the queue full is told 429 and leaves no trace.
Send(s) ==
    /\ step[s] = "idle"
    /\ pending < Capacity
    /\ \E r \in Requests : req' = [req EXCEPT ![s] = r]
    /\ pending' = pending + 1
    /\ queue' = Append(queue, s)
    /\ step' = [step EXCEPT ![s] = "queued"]
    /\ UNCHANGED <<running, answer, database, history>>

Dequeue(s, label) ==
    /\ running = None
    /\ queue # <<>>
    /\ s = Head(queue)
    /\ running' = s
    /\ queue' = Tail(queue)
    /\ step' = [step EXCEPT ![s] = label]
    /\ UNCHANGED <<pending, req, database, history>>

StartWork(s) ==
    /\ Dequeue(s, IF req[s].kind = "connect" THEN "auth" ELSE "apply")
    /\ UNCHANGED answer

\* Mutant: the client is told 504 but the request still runs.
QueueTimeoutRuns(s) ==
    /\ Dequeue(s, IF req[s].kind = "connect" THEN "auth" ELSE "apply")
    /\ answer' = [answer EXCEPT ![s] = "queue_timeout"]

\* The wait exceeded requestTimeoutMs: answered without running.
QueueTimeout(s) ==
    /\ Dequeue(s, "settle")
    /\ answer' = [answer EXCEPT ![s] = "queue_timeout"]

\* The tail resolves once the response and every waitUntil task have settled.
Settle(s) ==
    /\ running = s
    /\ step[s] = "settle"
    /\ running' = None
    /\ pending' = pending - 1
    /\ step' = [step EXCEPT ![s] = "idle"]
    /\ req' = [req EXCEPT ![s] = Idle]
    /\ answer' = [answer EXCEPT ![s] = "none"]
    /\ ran' = ran \ {s}
    /\ UNCHANGED <<queue, database, executions>>

-----------------------------------------------------------------------------
(* runOperation: the steps of a mutation between its awaits.               *)

At(s, label) == running = s /\ step[s] = label

Continue(s, label) ==
    /\ step' = [step EXCEPT ![s] = label]
    /\ UNCHANGED <<coordinator, req, answer>>

\* The work settles with result a; the client hears it unless it was told 504.
End(s, a) ==
    /\ step' = [step EXCEPT ![s] = "settle"]
    /\ answer' = [answer EXCEPT ![s] = IF answer[s] = "none" THEN a ELSE answer[s]]
    /\ UNCHANGED <<coordinator, req>>

\* connectBearer: token, scope, rate window and current grants.
Authorize(s) ==
    /\ At(s, "auth")
    /\ \/ host = "present" /\ granted /\ Continue(s, "prior")
       \/ End(s, "denied")
    /\ UNCHANGED <<database, history>>

ReadPrior(s) ==
    /\ At(s, "prior")
    /\ LET prior == records[req[s].key]
       IN IF prior = None THEN Continue(s, "etag")
          ELSE IF prior.intent # req[s].intent THEN End(s, "idempotency_conflict")
          ELSE IF prior.response THEN End(s, "replayed")
          ELSE End(s, "outcome_unknown")
    /\ UNCHANGED <<database, history>>

\* Mutant: an older ETag is good enough.
CheckEtagLoose(s) ==
    /\ At(s, "etag")
    /\ IF revision >= req[s].ifMatch THEN Continue(s, "begin") ELSE End(s, "version_conflict")
    /\ UNCHANGED <<database, history>>

CheckEtag(s) ==
    /\ At(s, "etag")
    /\ IF revision = req[s].ifMatch THEN Continue(s, "begin") ELSE End(s, "version_conflict")
    /\ UNCHANGED <<database, history>>

\* INSERT OR IGNORE of the pending record.
BeginRequest(s) ==
    /\ At(s, "begin")
    /\ LET key == req[s].key
       IN IF records[key] = None
          THEN /\ records' = [records EXCEPT ![key] =
                    [intent |-> req[s].intent, state |-> "pending", response |-> FALSE]]
               /\ Continue(s, "invoke")
          ELSE records' = records /\ End(s, "request_in_progress")
    /\ UNCHANGED <<revision, host, granted, history>>

\* The product handler, successful or not; a configuration write moves the revision
\* by trigger, an event or a sample does not.
Invoke(s) ==
    /\ At(s, "invoke")
    /\ executions' = [executions EXCEPT ![req[s].key] = IF @ = 0 THEN 1 ELSE 2]
    /\ ran' = ran \cup {s}
    /\ \/ revision' = revision
       \/ revision < MaxRevision /\ revision' = revision + 1
    /\ Continue(s, "finish")
    /\ UNCHANGED <<records, host, granted>>

FinishRequest(s) ==
    /\ At(s, "finish")
    /\ records' = [records EXCEPT ![req[s].key] =
                     [intent |-> req[s].intent, state |-> "complete", response |-> TRUE]]
    /\ End(s, "executed")
    /\ UNCHANGED <<revision, host, granted, history>>

\* Mutant: a rejected request rejects the tail, and nothing runs after it.
FailRejectsTail(s) ==
    /\ running = s
    /\ step[s] \in {"auth", "prior", "etag", "begin", "invoke", "finish", "apply"}
    /\ step' = [step EXCEPT ![s] = "idle"]
    /\ UNCHANGED <<coordinator, req, answer, database, history>>

\* The work rejects: a D1 or encryption error, an oversized response, a lost audit row.
Fail(s) ==
    /\ running = s
    /\ step[s] \in {"auth", "prior", "etag", "begin", "invoke", "finish", "apply"}
    /\ End(s, "failed")
    /\ UNCHANGED <<database, history>>

\* timedOperation: the client is told 504 while the work goes on.
TimeOut(s) ==
    /\ running = s
    /\ step[s] \in {"prior", "etag", "begin", "invoke", "finish"}
    /\ answer[s] = "none"
    /\ answer' = [answer EXCEPT ![s] = "request_timeout"]
    /\ UNCHANGED <<coordinator, req, step, database, history>>

-----------------------------------------------------------------------------
(* Browser changes, which run in the coordinator without a record.         *)

EditConfiguration(s) ==
    /\ At(s, "apply")
    /\ req[s].kind = "edit"
    /\ host = "present" /\ revision < MaxRevision
    /\ revision' = revision + 1
    /\ End(s, "applied")
    /\ UNCHANGED <<records, host, granted, history>>

\* connectTokenRenameRoute with a new server set: only an existing host can be granted.
EditGrants(s) ==
    /\ At(s, "apply")
    /\ req[s].kind = "grants"
    /\ \/ granted' = FALSE
       \/ host = "present" /\ granted' = TRUE
    /\ End(s, "applied")
    /\ UNCHANGED <<records, revision, host, history>>

\* The batch of deleteHost: its connect_requests rows go, and with the hosts row, by
\* cascade, the revision and the grants.
DeleteHost(s) ==
    /\ At(s, "apply")
    /\ req[s].kind = "delete"
    /\ host = "present"
    /\ host' = "deleted"
    /\ records' = [k \in Keys |-> None]
    /\ revision' = 0
    /\ granted' = FALSE
    /\ End(s, "applied")
    /\ UNCHANGED history

RegisterHost(s) ==
    /\ At(s, "apply")
    /\ req[s].kind = "register"
    /\ host = "deleted"
    /\ host' = "registered"
    /\ End(s, "applied")
    /\ UNCHANGED <<records, revision, granted, history>>

-----------------------------------------------------------------------------
(* Outside the queue.                                                      *)

\* The first probe request of a re-registered host inserts its hosts row.
HostReports ==
    /\ host = "registered"
    /\ host' = "present"
    /\ UNCHANGED <<coordinator, req, step, answer, records, revision, granted, history>>

\* Mutant: the rows are deleted with their responses.
ExpireResponsesDeletes ==
    \E K \in SUBSET {k \in Keys : records[k] # None} :
        /\ records' = [k \in Keys |-> IF k \in K THEN None ELSE records[k]]
        /\ UNCHANGED <<coordinator, req, step, answer, revision, host, granted, history>>

\* D1ConnectRepository.maintenance drops old responses and keeps the rows.
ExpireResponses ==
    \E K \in SUBSET {k \in Keys : records[k] # None} :
        /\ records' = [k \in Keys |-> IF k \in K THEN [records[k] EXCEPT !.response = FALSE]
                                      ELSE records[k]]
        /\ UNCHANGED <<coordinator, req, step, answer, revision, host, granted, history>>

\* The object is evicted or restarted: connections break, D1 keeps what was written.
Evict ==
    /\ pending > 0
    /\ queue' = <<>>
    /\ running' = None
    /\ pending' = 0
    /\ step' = [s \in Slots |-> "idle"]
    /\ req' = [s \in Slots |-> Idle]
    /\ answer' = [s \in Slots |-> "none"]
    /\ ran' = {}
    /\ UNCHANGED <<database, executions>>

Work(s) ==
    \/ Authorize(s) \/ ReadPrior(s) \/ CheckEtag(s) \/ BeginRequest(s)
    \/ Invoke(s) \/ FinishRequest(s)
    \/ EditConfiguration(s) \/ EditGrants(s) \/ DeleteHost(s) \/ RegisterHost(s)
    \/ Fail(s)

Progress(s) == StartWork(s) \/ QueueTimeout(s) \/ Work(s) \/ Settle(s)

Next ==
    \/ \E s \in Slots : Send(s) \/ Progress(s) \/ TimeOut(s)
    \/ HostReports \/ ExpireResponses \/ Evict

Spec == Init /\ [][Next]_vars

\* Every await of the running request settles, by a result or an error.
FairSpec == Spec /\ \A s \in Slots : WF_vars(Progress(s))

-----------------------------------------------------------------------------
Steps == {"idle", "queued", "auth", "prior", "etag", "begin", "invoke", "finish",
          "apply", "settle"}
Refusals == {"queue_timeout", "denied", "idempotency_conflict",
             "outcome_unknown", "version_conflict", "request_in_progress", "replayed"}
Answers == Refusals \cup {"none", "executed", "applied", "failed", "request_timeout"}
RecordRow == [intent : Intents, state : {"pending", "complete"}, response : BOOLEAN]

\* Every variable has its type, and only a mutation takes the steps of one.
TypeOK ==
    /\ queue \in Seq(Slots)
    /\ running \in Slots \cup {None}
    /\ pending \in Int
    /\ req \in [Slots -> Requests]
    /\ step \in [Slots -> Steps]
    /\ answer \in [Slots -> Answers]
    /\ records \in [Keys -> RecordRow \cup {None}]
    /\ revision \in 0..MaxRevision
    /\ host \in {"present", "deleted", "registered"}
    /\ granted \in BOOLEAN
    /\ executions \in [Keys -> 0..2]
    /\ ran \subseteq Slots
    /\ \A s \in Slots :
         step[s] \in {"auth", "prior", "etag", "begin", "invoke", "finish"}
           => req[s] \in Mutation

\* ConnectCoordinator.pending counts exactly the requests it holds, whatever way each
\* of them ends, so the queue never refuses work it has room for.
QueueAccounted ==
    pending = Len(queue) + (IF running = None THEN 0 ELSE 1)

\* An Idempotency-Key runs its product handler at most once, over retries, duplicates,
\* 504s, failures after the side effect, expired responses and lost objects.
AtMostOnce == \A k \in Keys : executions[k] <= 1

\* The handler of a mutation runs on the very configuration revision its client named
\* in If-Match, several awaits after the check.
IfMatchHonoured ==
    [][\A s \in Slots : s \in ran' \ ran => revision = req[s].ifMatch]_vars

\* A client told that its request was refused, expired in the queue or replayed can
\* rely on it: that request's own handler has not run and does not run later.
RefusalsTruthful == \A s \in ran : answer[s] \notin Refusals

\* What the coordinator's queue counts is what it holds, and what it refuses never runs.
QueueHonest == QueueAccounted /\ RefusalsTruthful

\* Every request that enters the queue leaves it, whatever the ones before it do.
QueueDrains == \A s \in Slots : step[s] = "queued" ~> step[s] = "idle"
=============================================================================
