------------------------------ MODULE EntryGate ------------------------------
(***************************************************************************)
(* The way of one request through the Worker: the fetch handler with the   *)
(* coordinator, the Connect envelope, entryControl, accessAuth, the key    *)
(* middlewares and the checks that a handler makes before it touches its   *)
(* repository.  Each middleware decides by itself from host, method, path  *)
(* and credentials and trusts what those before it have left behind; the   *)
(* properties say what the whole chain promises.                           *)
(*                                                                         *)
(* A path stands for all paths of its form; a credential stands for its    *)
(* kind, and the ones that are unknown, revoked or disabled are "invalid". *)
(***************************************************************************)
EXTENDS Integers, FiniteSets

CONSTANTS
    Environments,   \* "production", "development"
    HostNames       \* "browser", "machine", "localhost", "unknown"

ASSUME GateAssumption ==
    /\ Environments \subseteq {"production", "development"}
    /\ HostNames \subseteq {"browser", "machine", "localhost", "unknown"}

VARIABLES
    call,       \* the request as it came in
    stage,      \* the next middleware to see it, "handled" or "answered"
    known,      \* what the chain has established: Access session, principal, keys, coordination
    answer,     \* the status it was answered with, 0 before
    audits      \* entries in connect_audit

gateVars == <<call, stage, known, answer, audits>>

-----------------------------------------------------------------------------
(* Routes: the path forms and the methods that index.ts registers.         *)

ProbeWrites == {"ingest", "identity", "tier2"}
AssetPaths == {"agents", "agents/:id", "assets", "assets/:id", "bindings"}
Monitoring == {"monitoring/hosts", "monitoring/workstations"}
StationAuth == {"workstation-auth/authorize", "workstation-auth/exchange", "workstation-auth/pair"}
StationProbe == {"workstation-probe/targets", "workstation-probe/reports", "workstation-probe/revoke"}
PublicPaths == {"live", "me"}
Versioned == {"v1/servers/:id", "v1/servers"}
Management == {"connect/tokens", "connect/servers/:id/tokens"}
ConnectPaths == Versioned \cup Management
StationPaths == StationAuth \cup StationProbe

\* The routes of the dashboard and of the tools, registered with their methods.
Dashboard == [hosts |-> {"GET"}, maintenance |-> {"GET", "PUT", "DELETE"},
              hostTags |-> {"GET", "POST", "PUT", "DELETE"},
              allowedPorts |-> {"GET", "POST", "DELETE"}, description |-> {"PATCH"},
              host |-> {"GET", "DELETE"}, register |-> {"POST"}, alerts |-> {"GET"},
              tags |-> {"GET", "POST"}, tag |-> {"PUT", "DELETE"},
              webhooks |-> {"GET", "POST"}, webhook |-> {"POST", "DELETE"},
              settings |-> {"GET", "PUT"}, workstations |-> {"GET"},
              workstation |-> {"GET", "PATCH", "DELETE"}, pairApproval |-> {"POST"},
              authCli |-> {"GET", "POST"}, cliTokens |-> {"GET"}, cliToken |-> {"DELETE"}]

Registered(path) ==
    CASE path \in DOMAIN Dashboard -> Dashboard[path]
      [] path \in ProbeWrites \cup StationAuth -> {"POST"} \cup (IF path = "workstation-auth/pair" THEN {"GET"} ELSE {})
      [] path = "events" -> {"GET", "POST"}
      [] path \in {"agents", "assets", "bindings"} -> {"GET", "POST"}
      [] path \in AssetPaths -> {"GET", "PATCH", "PUT", "DELETE"}
      [] path \in Monitoring \cup PublicPaths -> {"GET"}
      [] path = "workstation-probe/targets" -> {"GET"}
      [] path = "workstation-probe/reports" -> {"GET", "POST"}
      [] path = "workstation-probe/revoke" -> {"POST"}
      [] path = "v1/servers" -> {"GET"}
      [] path = "v1/servers/:id" -> {"GET", "POST", "PUT", "PATCH", "DELETE"}
      [] path \in Management -> {"GET", "POST", "PATCH"}

ApiPaths == DOMAIN Dashboard \cup ProbeWrites \cup StationPaths \cup {"events"} \cup AssetPaths
            \cup Monitoring \cup PublicPaths \cup ConnectPaths

\* Hono answers HEAD by the GET handler.
Methods(path) == Registered(path) \cup (IF "GET" \in Registered(path) THEN {"HEAD"} ELSE {})
Reading(method) == method \in {"GET", "HEAD"}

Jwts == {"none", "email", "service", "nameless", "invalid"}
Bearers == {"none", "read", "write", "cli", "station", "connect-read", "connect-write", "invalid"}

Calls == {[path |-> p, method |-> m] : p \in ApiPaths, m \in {"GET", "HEAD", "POST", "PUT", "PATCH", "DELETE"}}

Nothing == [access |-> FALSE, principal |-> "none", station |-> FALSE, token |-> "none",
            coordinated |-> FALSE]

GateInit ==
    /\ \E r \in {c \in Calls : c.method \in Methods(c.path)}, e \in Environments, h \in HostNames,
          j \in Jwts, b \in Bearers, confirmed \in BOOLEAN, configured \in BOOLEAN :
            /\ configured \/ j = "email"
            /\ call = [path |-> r.path, method |-> r.method, environment |-> e, host |-> h,
                       jwt |-> j, bearer |-> b, confirmed |-> confirmed, configured |-> configured]
    /\ stage = "fetch" /\ known = Nothing /\ answer = 0 /\ audits = 0

Production == call.environment = "production"
IsConnectPath == call.path \in ConnectPaths
IsVersionedPath == call.path \in Versioned
IsWorkstationPath == call.path \in StationPaths

Pass(next) == stage' = next /\ UNCHANGED <<call, known, answer, audits>>
Learn(next, facts) == stage' = next /\ known' = facts /\ UNCHANGED <<call, answer, audits>>

\* connectEnvelope, on the way out: one entry for every Connect request that reached it, also
\* for those it refused itself; when it cannot be written, the answer is 503.
Audited == IsConnectPath /\ stage # "fetch"

Refuse(status) ==
    /\ stage' = "answered"
    /\ \/ answer' = status /\ audits' = IF Audited THEN audits + 1 ELSE audits
       \/ Audited /\ answer' = 503 /\ UNCHANGED audits
    /\ UNCHANGED <<call, known>>

-----------------------------------------------------------------------------
(* The fetch handler and the coordinator.                                  *)

\* Mutant: the routes of the CLI are left out of the coordination.
CoordinatesDashboard(method, path) ==
    ~Reading(method) /\ path \notin ProbeWrites \cup {"events"} \cup AssetPaths

\* coordinates: everything that is not a read, but for what the probes and webhooks send.
Coordinates(method, path) == ~Reading(method) /\ path \notin ProbeWrites \cup {"events"}

\* A configuration change goes through the coordinator, which marks it; anything else goes
\* straight to the application.
Fetch ==
    /\ stage = "fetch"
    /\ IF Coordinates(call.method, call.path)
       THEN IF Production /\ call.host \notin {"browser", "machine"} THEN Refuse(403)
            ELSE Learn("envelope", [known EXCEPT !.coordinated = TRUE])
       ELSE Pass("envelope")

\* The coordinator or its limiter is not to be had, or its queue is full.
FetchBusy ==
    /\ stage = "fetch" /\ Coordinates(call.method, call.path)
    /\ \E status \in {429, 503} : Refuse(status)

-----------------------------------------------------------------------------
(* Middlewares, in the order in which index.ts installs them.              *)

\* connectEnvelope, on the way in: the limiter at the edge and the origin.
ConnectEnvelope ==
    /\ stage = "envelope"
    /\ \/ Pass("entry")
       \/ IsConnectPath /\ \E status \in {403, 429, 503} : Refuse(status)

\* isAllowedMachineRoute: the routes of the Connect API and of the CLI with any method, the
\* others with theirs.
IsAllowedMachineRoute(method, path) ==
    \/ path \in Versioned \cup AssetPaths
    \/ method = "POST" /\ path \in ProbeWrites \cup
         {"events", "workstation-auth/exchange", "workstation-auth/pair",
          "workstation-probe/reports", "workstation-probe/revoke"}
    \/ Reading(method) /\ path \in Monitoring \cup PublicPaths \cup
         {"workstation-auth/pair", "workstation-probe/targets", "workstation-probe/reports"}

\* entryControl.
EntryControl ==
    /\ stage = "entry"
    /\ IF Production /\ call.host \notin {"browser", "machine"} THEN Refuse(403)
       ELSE IF Production /\ Coordinates(call.method, call.path) /\ ~known.coordinated
       THEN Refuse(503)
       ELSE IF call.host = "machine" /\ ~IsAllowedMachineRoute(call.method, call.path)
       THEN Refuse(403)
       ELSE Pass("access")

\* accessAuth: hosts other than the machine's need a valid assertion, but for the health
\* check; on localhost one that is there is verified.
AccessAuth ==
    /\ stage = "access"
    /\ IF \/ call.host = "localhost" /\ call.jwt = "none"
          \/ call.host = "machine"
          \/ call.path = "live"
       THEN Pass("station")
       ELSE IF ~call.configured THEN Refuse(500)
       ELSE IF call.jwt = "none" THEN Refuse(401)
       ELSE IF call.jwt = "invalid" THEN Refuse(403)
       ELSE Learn("station",
                  [known EXCEPT !.access = TRUE,
                                !.principal = IF call.jwt = "nameless" THEN "none" ELSE call.jwt])

\* workstationKeyAuth, on the probe paths only.
WorkstationKeyAuth ==
    /\ stage = "station"
    /\ IF call.path \notin StationProbe THEN Pass("key")
       ELSE IF call.bearer # "station" THEN Refuse(401)
       ELSE Learn("key", [known EXCEPT !.station = TRUE])

\* isWriteRequest: the list of what needs the write key (and, in the paths of the CLI,
\* everything but GET).
IsWriteRequest(method, path) ==
    \/ method = "PATCH" /\ path = "description"
    \/ path \in ProbeWrites
    \/ path = "webhooks" /\ method = "POST"
    \/ path = "webhook" /\ method \in {"POST", "DELETE"}
    \/ path = "maintenance" /\ method \in {"PUT", "DELETE"}
    \/ path = "tags" /\ method = "POST"
    \/ path = "tag" /\ method \in {"PUT", "DELETE"}
    \/ path = "hostTags" /\ method \in {"POST", "PUT", "DELETE"}
    \/ path = "allowedPorts" /\ method \in {"POST", "DELETE"}
    \/ path = "settings" /\ method = "PUT"
    \/ path \in AssetPaths /\ method # "GET"

\* apiKeyAuth: Connect and workstations have chains of their own; an Access session stands
\* for a key except on the routes of monitoring.
NeedsNoKey ==
    \/ IsConnectPath \/ IsWorkstationPath \/ call.path \in PublicPaths
    \/ call.path = "events" /\ call.method = "POST"
    \/ call.host # "machine" /\ known.access /\ call.path \notin Monitoring

ApiKeyAuth ==
    /\ stage = "key"
    /\ IF NeedsNoKey THEN Pass("connect")
       ELSE IF call.bearer = "none" THEN Refuse(401)
       ELSE IF call.bearer = (IF IsWriteRequest(call.method, call.path) THEN "write" ELSE "read")
       THEN Pass("connect")
       ELSE IF call.bearer = "cli" /\ call.path \in AssetPaths THEN Pass("connect")
       ELSE Refuse(403)

\* connectManager: a session on the browser's host, or a local one in development.
ManagerSession ==
    \/ call.environment = "development" /\ call.host = "localhost" /\ known.access
    \/ known.access /\ known.principal # "none" /\ call.host = "browser"

ConnectManager ==
    /\ stage = "connect" /\ call.path \in Management
    /\ IF ~ManagerSession THEN Refuse(403)
       ELSE IF ~Reading(call.method) /\ ~call.confirmed THEN Refuse(403)
       ELSE \/ Pass("handler")
            \/ \E status \in {403, 429} : Refuse(status)

\* connectBearer: token, server, scope, rate.
ConnectBearer ==
    /\ stage = "connect" /\ IsVersionedPath
    /\ IF call.bearer \notin {"connect-read", "connect-write"} THEN Refuse(401)
       ELSE IF ~Reading(call.method) /\ call.bearer # "connect-write" THEN Refuse(403)
       ELSE \/ Learn("handler", [known EXCEPT !.token = call.bearer])
            \/ \E status \in {403, 429} : Refuse(status)

OtherPaths == stage = "connect" /\ ~IsConnectPath /\ Pass("handler")

-----------------------------------------------------------------------------
(* The handlers' own checks and the audit on the way out.                  *)

\* A person at the browser who has confirmed the change on the same origin.
Confirmation == known.access /\ call.confirmed

\* What isBrowserConfirmation, managementPrincipal, workstationDeleteRoute, the routes of
\* /api/auth/cli and workstationAuthorizeRoute ask for.
HandlerAdmits ==
    CASE call.path = "authCli" -> known.access
      [] call.path = "register" -> Confirmation
      [] call.path = "host" /\ call.method = "DELETE" -> Confirmation
      [] call.path = "workstation" /\ call.method = "DELETE" -> Confirmation /\ known.principal # "none"
      [] call.path = "workstation" /\ call.method = "PATCH" -> Confirmation /\ known.principal = "email"
      [] call.path \in {"pairApproval", "workstation-auth/authorize"} -> Confirmation /\ known.principal = "email"
      [] call.path \in StationProbe -> known.station
      [] OTHER -> TRUE

\* The handler runs and its answer goes back through connectEnvelope, which records it,
\* unless the operation has done so with its own change (connectAudited).
Handle ==
    /\ stage = "handler"
    /\ IF ~HandlerAdmits THEN Refuse(403)
       ELSE /\ stage' = "handled" /\ answer' = 200
            /\ audits' = IF IsConnectPath THEN audits + 1 ELSE audits
            /\ UNCHANGED <<call, known>>

\* The change is made, but its record is not: the caller is told that the outcome is unknown.
AuditUnavailable ==
    /\ stage = "handler" /\ IsConnectPath /\ HandlerAdmits
    /\ stage' = "handled" /\ answer' = 503
    /\ UNCHANGED <<call, known, audits>>

-----------------------------------------------------------------------------
GateNext ==
    \/ Fetch \/ FetchBusy \/ ConnectEnvelope \/ EntryControl \/ AccessAuth
    \/ WorkstationKeyAuth \/ ApiKeyAuth
    \/ ConnectManager \/ ConnectBearer \/ OtherPaths
    \/ Handle \/ AuditUnavailable

GateSpec == GateInit /\ [][GateNext]_gateVars

-----------------------------------------------------------------------------
(* Properties.                                                             *)

Handled == stage = "handled"
Changes == ~Reading(call.method)

\* In production every change of the configuration runs in the coordinator, whichever host,
\* route and credential brought it; only reports and events do not.
ChangesAreSerial ==
    Handled /\ Production /\ Changes /\ call.path \notin ProbeWrites \cup {"events"} => known.coordinated

\* In production the key for reading changes nothing: neither the list of write routes nor
\* the hosts and sessions leave a gap.  (A webhook has its own token.)
ReadKeyReads ==
    Handled /\ Production /\ Changes /\ call.bearer = "read" /\ call.jwt = "none"
      => call.path \in {"events", "workstation-auth/exchange", "workstation-auth/pair"}

\* In production what the dashboard shows and changes is reached by an Access session, never
\* through the machine host.
DashboardNeedsSession ==
    Handled /\ Production /\ call.path \in DOMAIN Dashboard => known.access /\ call.host = "browser"

\* The keys of one world open nothing in the others: probe routes take a workstation's key and
\* no other credential, the Connect API a Connect token with the scope of the request, and the
\* management of such tokens a named session at the browser.
WorldsApart ==
    Handled =>
      /\ call.path \in StationProbe => call.bearer = "station"
      /\ IsVersionedPath => known.token = call.bearer /\ (Changes => call.bearer = "connect-write")
      /\ call.path \in Management /\ Production =>
           known.principal # "none" /\ call.host = "browser" /\ (Changes => call.confirmed)

\* Every Connect request that got past the edge has exactly one entry in the audit log, or its
\* caller was told that the outcome is unknown.
AnswersAudited ==
    stage \in {"handled", "answered"} /\ IsConnectPath =>
      audits = 1 \/ answer = 503 \/ (Changes /\ ~known.coordinated)

\* The middlewares, the lists of routes they keep and the handlers' own checks together leave
\* no way around the coordinator, the scopes, the sessions and the audit, for any route,
\* host and credential.
GateHolds ==
    /\ ChangesAreSerial
    /\ ReadKeyReads
    /\ DashboardNeedsSession
    /\ WorldsApart
    /\ AnswersAudited
=============================================================================
