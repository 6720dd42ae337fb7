--------------------------- MODULE ConnectTokens ---------------------------
(***************************************************************************)
(* Connect tokens and the managers that create, edit, reveal, rotate and   *)
(* revoke them from the browser.                                           *)
(*                                                                         *)
(* The changing requests run one at a time in the ConnectCoordinator, but  *)
(* managers act on what they saw earlier (an ETag, a confirmation), grants *)
(* are withdrawn and the cron job purges while a request is under way, and *)
(* the object may be evicted between two of a request's D1 calls.  The     *)
(* batch an evicted request had already sent may reach D1 later, among the *)
(* requests of the next object.                                            *)
(***************************************************************************)
EXTENDS Integers, FiniteSets

CONSTANTS
    Managers,        \* Access principals
    Global,          \* the principals CONNECT_MANAGERS names
    Servers,
    Stations,        \* workstations
    StationOwner,    \* Stations -> Managers
    TokenIds,
    Terms,           \* what a ciphertext is bound to: scope and expiry
    TokensPerServer, TokensPerOwner,
    EventLimit,      \* bound on the managers' requests and on the changes of hosts,
                     \* workstations and grants, together (model checking only)
    SecretLimit,     \* bound on the secrets and nonces generated (model checking only)
    VersionLimit,    \* bound on a token's version (model checking only)
    Nil

ASSUME TokensAssumption ==
    /\ Global \subseteq Managers /\ Global # {}
    /\ StationOwner \in [Stations -> Managers]
    /\ {TokensPerServer, TokensPerOwner} \subseteq Nat \ {0}
    /\ {EventLimit, SecretLimit} \subseteq Nat /\ VersionLimit \in Nat \ {0}

VARIABLES
    liveServers,     \* hosts with is_active = 1
    serverGrants,    \* connect_server_grants: principal -> servers
    stationState,    \* "active", "disabled" or "gone"
    tokens,          \* connect_tokens and its two grant tables, or Nil
    challenges,      \* connect_confirmations
    manageJob,       \* the request that runs in the coordinator, or Nil
    lateBatch,       \* a changeToken batch of an evicted request, or Nil
    events,          \* history: requests of the managers and changes of what they manage
    generated,       \* secrets and nonces handed out so far
    changeAudit,     \* connect_audit: committed changes of a token, by server set
    uses             \* history: [nonce, by, action, version] -> effects it had

tokenGrantVars == <<liveServers, serverGrants, stationState>>
tokenTables == <<tokens, challenges, changeAudit>>
tokenVars == <<tokenGrantVars, tokenTables, manageJob, lateBatch, events, generated, uses>>

Actions == {"reveal", "rotate", "revoke"}
Secrets == 1..SecretLimit
Sealed == [secret : Secrets, owner : Managers, terms : Terms]
Token == [owner : Managers, servers : SUBSET Servers, stations : SUBSET Stations,
          terms : Terms, secret : Secrets, sealed : Sealed \cup {Nil},
          revoked : BOOLEAN, version : 1..VersionLimit]
Challenge == [nonce : Secrets, token : TokenIds, by : Managers, action : Actions,
              version : 1..VersionLimit]
Batch == [token : TokenIds, row : Token, expected : 1..VersionLimit, previous : SUBSET Servers]
Confirming == [step : {"consume", "effect"}, by : Managers, token : TokenIds, row : Token,
               action : Actions, nonce : Secrets]
Committing == [step : {"commit"}, batch : Batch]
Audit == [changes : Nat, servers : SUBSET Servers, previous : SUBSET Servers]

ASSUME NilAssumption == Nil \notin Token /\ Nil \notin Sealed   \* SQL's NULL

TokensInit ==
    /\ liveServers \in {Servers, {}}
    /\ serverGrants = [p \in Managers |-> liveServers]
    /\ stationState = [w \in Stations |-> "active"]
    /\ tokens = [t \in TokenIds |-> Nil]
    /\ challenges = {}
    /\ manageJob = Nil /\ lateBatch = Nil
    /\ generated = 0 /\ events = 0
    /\ changeAudit = [t \in TokenIds |-> [changes |-> 0, servers |-> {}, previous |-> {}]]
    /\ uses = [n \in Secrets |-> 0]

-----------------------------------------------------------------------------
(* Authority.                                                              *)

\* servers(principal, globalManager), and authorized() of one of them.
ServersOf(p) == {s \in liveServers : p \in Global \/ s \in serverGrants[p]}

ListAuthorizedFor(p) ==
    {w \in Stations : stationState[w] = "active" /\ (p \in Global \/ StationOwner[w] = p)}

ListManageableFor(p) ==
    {w \in Stations : stationState[w] # "gone" /\ (p \in Global \/ StationOwner[w] = p)}

\* A manager covers the whole server and workstation set; an empty key has its owner only.
CanManage(p, row) ==
    IF row.servers = {} /\ row.stations = {}
    THEN row.owner = p
    ELSE row.servers \subseteq ServersOf(p) /\ row.stations \subseteq ListManageableFor(p)

\* A retained workstation may be disabled, a new one is in service.
SelectedWorkstations(p, ids, existing) ==
    /\ ids \cap existing \subseteq ListManageableFor(p)
    /\ ids \ existing \subseteq ListAuthorizedFor(p)
SelectedServers(p, ids) == ids \subseteq ServersOf(p)

\* A co-manager grants nothing beyond what the issuer may use now.
IssuerCovers(row, new) ==
    /\ new.servers \ row.servers \subseteq ServersOf(row.owner)
    /\ new.stations \ row.stations \subseteq ListAuthorizedFor(row.owner)

\* token() and expectVersion(): the row an If-Match with this version finds.
Found(p, t, etag) ==
    /\ tokens[t] # Nil /\ CanManage(p, tokens[t])
    /\ tokens[t].version = etag /\ ~tokens[t].revoked

-----------------------------------------------------------------------------
(* Secrets.                                                                *)

\* seal() binds the ciphertext to tokenContext: the owner and the terms.
Seal(row, secret) == [secret |-> secret, owner |-> row.owner, terms |-> row.terms]

\* unseal() decrypts under the context of the row it is called with, or fails.
Unseals(row) == /\ row.sealed # Nil
                /\ row.sealed = Seal(row, row.sealed.secret)

ReplaceSecret(row) ==
    [row EXCEPT !.secret = generated + 1, !.sealed = Seal(row, generated + 1)]

\* Mutant: the ciphertext keeps the context it was made under.
RetermedOnly(row, terms) == [row EXCEPT !.terms = terms]

\* New terms: the plaintext is unsealed under the old context and sealed under the new one.
Retermed(row, terms) ==
    IF terms = row.terms THEN row
    ELSE LET new == [row EXCEPT !.terms = terms]
         IN  [new EXCEPT !.sealed = Seal(new, row.sealed.secret)]

-----------------------------------------------------------------------------
(* D1: limits, the versioned batch and its audit.                          *)

ActiveTokens == {t \in TokenIds : tokens[t] # Nil /\ ~tokens[t].revoked}

BelowServerLimit(t, servers) ==
    \A s \in servers :
        Cardinality({u \in ActiveTokens \ {t} : s \in tokens[u].servers}) < TokensPerServer

BelowOwnerLimit(p) == Cardinality({u \in ActiveTokens : tokens[u].owner = p}) < TokensPerOwner

\* auditStatement(audit, true): the row that marks the success of the statement before it.
AuditStatement(t, servers, previous) ==
    changeAudit' = [changeAudit EXCEPT ![t] = [changes |-> @.changes + 1, servers |-> servers,
                                               previous |-> previous]]

\* The foreign keys of connect_token_servers and connect_token_workstations.
GrantsExist(row) ==
    /\ row.servers \subseteq liveServers
    /\ \A w \in row.stations : stationState[w] # "gone"

\* Mutant: the UPDATE trusts the version the request read.
ChangesUnversioned(batch) ==
    BelowServerLimit(batch.token, batch.row.servers) /\ GrantsExist(batch.row)

\* The WHERE of the UPDATE; a foreign key that fails aborts the batch.
Changes(batch) ==
    /\ tokens[batch.token].version = batch.expected /\ ~tokens[batch.token].revoked
    /\ BelowServerLimit(batch.token, batch.row.servers)
    /\ GrantsExist(batch.row)

\* changeToken: the row, its audit and both grant tables, or nothing at all.
ChangeToken(batch) ==
    IF Changes(batch)
    THEN /\ tokens' = [tokens EXCEPT ![batch.token] = [batch.row EXCEPT !.version = @ + 1]]
         /\ AuditStatement(batch.token, batch.row.servers, batch.previous)
    ELSE UNCHANGED <<tokens, changeAudit>>

-----------------------------------------------------------------------------
(* Requests of a manager.                                                  *)

Happens == events < EventLimit /\ events' = events + 1

Arrives == manageJob = Nil /\ Happens

\* connectTokensCreateRoute and createToken.
ConnectTokensCreate(p, t, servers, stations, terms) ==
    /\ Arrives /\ tokens[t] = Nil /\ generated < SecretLimit
    /\ p \in Global \/ ServersOf(p) # {} \/ ListManageableFor(p) # {}
    /\ SelectedServers(p, servers) /\ SelectedWorkstations(p, stations, {})
    /\ BelowOwnerLimit(p) /\ BelowServerLimit(t, servers)
    /\ LET row == [owner |-> p, servers |-> servers, stations |-> stations, terms |-> terms,
                   secret |-> generated + 1, sealed |-> Nil, revoked |-> FALSE, version |-> 1]
       IN  tokens' = [tokens EXCEPT ![t] = ReplaceSecret(row)]
    /\ generated' = generated + 1
    /\ AuditStatement(t, servers, {})
    /\ UNCHANGED <<tokenGrantVars, challenges, manageJob, lateBatch, uses>>

Commit(t, row, previous) ==
    [step |-> "commit",
     batch |-> [token |-> t, row |-> row, expected |-> row.version, previous |-> previous]]

\* connectTokenRenameRoute up to its batch.
ConnectTokenUpdate(p, t, etag, servers, stations, terms) ==
    /\ Arrives /\ Found(p, t, etag) /\ etag < VersionLimit
    /\ SelectedServers(p, servers)
    /\ SelectedWorkstations(p, stations, tokens[t].stations)
    /\ LET new == [tokens[t] EXCEPT !.servers = servers, !.stations = stations]
       IN  /\ IssuerCovers(tokens[t], new)
           /\ manageJob' = Commit(t, Retermed(new, terms), tokens[t].servers)
    /\ UNCHANGED <<tokenGrantVars, tokenTables, lateBatch, generated, uses>>

\* connectTokenChallengeRoute and confirm(): one confirmation per token, principal and action.
ConnectTokenChallenge(p, t, etag, action) ==
    /\ Arrives /\ Found(p, t, etag) /\ generated < SecretLimit
    /\ generated' = generated + 1
    /\ challenges' =
         {c \in challenges : ~(c.token = t /\ c.by = p /\ c.action = action)} \cup
         {[nonce |-> generated', token |-> t, by |-> p, action |-> action,
           version |-> etag]}
    /\ UNCHANGED <<tokenGrantVars, tokens, changeAudit, manageJob, lateBatch, uses>>

\* sensitiveAction up to the confirmation, with any nonce a manager was ever given.
SensitiveAction(p, t, etag, action, nonce) ==
    /\ Arrives /\ Found(p, t, etag)
    /\ manageJob' = [step |-> "consume", by |-> p, token |-> t, row |-> tokens[t],
                     action |-> action, nonce |-> nonce]
    /\ UNCHANGED <<tokenGrantVars, tokenTables, lateBatch, generated, uses>>

Matches(c, job) ==
    /\ c.nonce = job.nonce /\ c.token = job.token /\ c.by = job.by
    /\ c.action = job.action /\ c.version = job.row.version

\* consumeConfirmation: DELETE ... RETURNING.
ConsumeConfirmation ==
    /\ manageJob # Nil /\ manageJob.step = "consume"
    /\ IF \E c \in challenges : Matches(c, manageJob)
       THEN /\ challenges' = {c \in challenges : ~Matches(c, manageJob)}
            /\ manageJob' = [manageJob EXCEPT !.step = "effect"]
       ELSE manageJob' = Nil /\ UNCHANGED challenges
    /\ UNCHANGED <<tokenGrantVars, tokens, changeAudit, lateBatch, events, generated, uses>>

\* What the confirmed action does: reveal answers, the other two go on to their batch.
Reveal ==
    /\ manageJob # Nil /\ manageJob.step = "effect" /\ manageJob.action = "reveal"
    /\ uses' = [uses EXCEPT ![manageJob.nonce] = @ + 1]
    /\ manageJob' = Nil
    /\ UNCHANGED <<tokenGrantVars, tokenTables, lateBatch, events, generated>>

Rotate ==
    /\ manageJob # Nil /\ manageJob.step = "effect" /\ manageJob.action = "rotate"
    /\ generated < SecretLimit /\ manageJob.row.version < VersionLimit
    /\ generated' = generated + 1
    /\ uses' = [uses EXCEPT ![manageJob.nonce] = @ + 1]
    /\ manageJob' = Commit(manageJob.token, ReplaceSecret(manageJob.row), manageJob.row.servers)
    /\ UNCHANGED <<tokenGrantVars, tokenTables, lateBatch, events>>

Revoke ==
    /\ manageJob # Nil /\ manageJob.step = "effect" /\ manageJob.action = "revoke"
    /\ manageJob.row.version < VersionLimit
    /\ uses' = [uses EXCEPT ![manageJob.nonce] = @ + 1]
    /\ manageJob' = Commit(manageJob.token,
                           [manageJob.row EXCEPT !.revoked = TRUE, !.sealed = Nil],
                           manageJob.row.servers)
    /\ UNCHANGED <<tokenGrantVars, tokenTables, lateBatch, events, generated>>

CommitChange ==
    /\ manageJob # Nil /\ manageJob.step = "commit"
    /\ ChangeToken(manageJob.batch)
    /\ manageJob' = Nil
    /\ UNCHANGED <<tokenGrantVars, challenges, lateBatch, events, generated, uses>>

-----------------------------------------------------------------------------
(* The environment.                                                        *)

\* The object is evicted: the request is gone, the batch it had sent may still arrive.
CoordinatorEvicted ==
    /\ manageJob # Nil /\ manageJob' = Nil
    /\ lateBatch' \in IF manageJob.step = "commit" /\ lateBatch = Nil
                      THEN {lateBatch, manageJob.batch} ELSE {lateBatch}
    /\ UNCHANGED <<tokenGrantVars, tokenTables, events, generated, uses>>

LateBatchArrives ==
    /\ lateBatch # Nil
    /\ ChangeToken(lateBatch)
    /\ lateBatch' = Nil
    /\ UNCHANGED <<tokenGrantVars, challenges, manageJob, events, generated, uses>>

\* The operator edits connect_server_grants.
ChangeGrants(p, s) ==
    /\ Happens
    /\ p \notin Global /\ s \in liveServers
    /\ serverGrants' = [serverGrants EXCEPT ![p] = IF s \in @ THEN @ \ {s} ELSE @ \cup {s}]
    /\ UNCHANGED <<liveServers, stationState, tokenTables, manageJob, lateBatch, generated, uses>>

\* A host that goes takes its grants along and invalidates ETags and confirmations.
WithoutServer(s) ==
    [t \in TokenIds |->
        IF tokens[t] # Nil /\ s \in tokens[t].servers
        THEN [tokens[t] EXCEPT !.servers = @ \ {s}, !.version = @ + 1] ELSE tokens[t]]

DeleteServer(s) ==
    /\ Happens
    /\ manageJob = Nil /\ s \in liveServers
    /\ \A t \in TokenIds : tokens[t] # Nil => tokens[t].version < VersionLimit
    /\ liveServers' = liveServers \ {s}
    /\ tokens' = WithoutServer(s)
    /\ serverGrants' = [p \in Managers |-> serverGrants[p] \ {s}]
    /\ UNCHANGED <<stationState, challenges, changeAudit, manageJob, lateBatch, generated, uses>>

RegisterServer(s) ==
    /\ Happens
    /\ manageJob = Nil /\ s \notin liveServers
    /\ liveServers' = liveServers \cup {s}
    /\ UNCHANGED <<serverGrants, stationState, tokenTables, manageJob, lateBatch, generated, uses>>

DisableStation(w) ==
    /\ Happens
    /\ manageJob = Nil /\ stationState[w] = "active"
    /\ stationState' = [stationState EXCEPT ![w] = "disabled"]
    /\ UNCHANGED <<liveServers, serverGrants, tokenTables, manageJob, lateBatch, generated, uses>>

\* ON DELETE CASCADE of connect_token_workstations.
DeleteStation(w) ==
    /\ Happens
    /\ manageJob = Nil /\ stationState[w] # "gone"
    /\ stationState' = [stationState EXCEPT ![w] = "gone"]
    /\ tokens' = [t \in TokenIds |-> IF tokens[t] = Nil THEN Nil
                                     ELSE [tokens[t] EXCEPT !.stations = @ \ {w}]]
    /\ UNCHANGED <<liveServers, serverGrants, challenges, changeAudit, manageJob, lateBatch,
                   generated, uses>>

\* The time of a confirmation runs out: from then on consumeConfirmation does not find it,
\* before maintenance() has deleted it as well as after.
ConfirmationExpires(c) ==
    /\ c \in challenges
    /\ challenges' = challenges \ {c}
    /\ UNCHANGED <<tokenGrantVars, tokens, changeAudit, manageJob, lateBatch, events,
                   generated, uses>>

TokensNext ==
    \/ \E p \in Managers, t \in TokenIds, ss \in SUBSET Servers, ws \in SUBSET Stations, tm \in Terms :
         \/ ConnectTokensCreate(p, t, ss, ws, tm)
         \/ \E etag \in 1..VersionLimit : ConnectTokenUpdate(p, t, etag, ss, ws, tm)
    \/ \E p \in Managers, t \in TokenIds, etag \in 1..VersionLimit, a \in Actions :
         \/ ConnectTokenChallenge(p, t, etag, a)
         \/ \E n \in 1..generated : SensitiveAction(p, t, etag, a, n)
    \/ ConsumeConfirmation \/ Reveal \/ Rotate \/ Revoke \/ CommitChange
    \/ CoordinatorEvicted \/ LateBatchArrives
    \/ \E p \in Managers, s \in Servers : ChangeGrants(p, s)
    \/ \E s \in Servers : DeleteServer(s) \/ RegisterServer(s)
    \/ \E w \in Stations : DisableStation(w) \/ DeleteStation(w)
    \/ \E c \in challenges : ConfirmationExpires(c)

TokensSpec == TokensInit /\ [][TokensNext]_tokenVars

-----------------------------------------------------------------------------
(* Properties.                                                             *)

\* Every variable has its type; tokens and batches under way are well formed.
TokensTypeOK ==
    /\ liveServers \subseteq Servers
    /\ serverGrants \in [Managers -> SUBSET Servers]
    /\ stationState \in [Stations -> {"active", "disabled", "gone"}]
    /\ tokens \in [TokenIds -> Token \cup {Nil}]
    /\ challenges \subseteq Challenge
    /\ manageJob \in Confirming \cup Committing \cup {Nil}
    /\ lateBatch \in Batch \cup {Nil}
    /\ changeAudit \in [TokenIds -> Audit]
    /\ events \in 0..EventLimit /\ generated \in 0..SecretLimit
    /\ uses \in [Secrets -> Nat]

\* The stored ciphertext of a token in force opens under the token's present owner, scope and
\* expiry and holds its present secret, whatever edits and rotations raced (replaceSecret,
\* connectTokenRenameRoute): reveal never answers decryption_failed or an old secret.
SealedCurrent ==
    \A t \in ActiveTokens : Unseals(tokens[t]) /\ tokens[t].sealed.secret = tokens[t].secret

\* A confirmation authorizes one reveal, rotation or revocation, however often its nonce is
\* presented and wherever the request was cut off (consumeConfirmation).
ConfirmedOnce == \A n \in Secrets : uses[n] <= 1

\* No server has more active tokens than its limit, through creation and edits alike
\* (belowServerLimit).
ServerLimitKept ==
    \A s \in Servers :
        Cardinality({t \in ActiveTokens : s \in tokens[t].servers}) <= TokensPerServer

\* Every token in force can be managed by somebody, after hosts and workstations were
\* deleted or disabled too (managementAuthority, "a key must stay revocable").
Revocable == \A t \in ActiveTokens : \E p \in Managers : CanManage(p, tokens[t])

\* A token opens only servers that its latest audited change lists: a batch that lost its
\* race changes no grant (changeToken, "the unique audit row is the CAS success marker").
GrantsAudited ==
    \A t \in TokenIds : tokens[t] # Nil => tokens[t].servers \subseteq changeAudit[t].servers

\* The audit of a change names the servers the token really had before it, also when a host
\* was deleted while the batch was on its way (connect_token_server_removed moves the version).
AuditedFromTruth ==
    \A t \in TokenIds :
      (tokens[t] # Nil /\ changeAudit'[t].changes > changeAudit[t].changes) =>
          changeAudit'[t].previous = tokens[t].servers

\* A late batch never brings a revoked token or a replaced secret back (changeToken).
SecretsOnlyForward ==
    \A t \in TokenIds : tokens[t] # Nil =>
      /\ tokens[t].revoked => tokens'[t].revoked
      /\ tokens'[t].secret >= tokens[t].secret

\* Tokens in force, through every race of edits, rotations, withdrawn grants and deleted
\* servers with batches that commit late: each opens, can be revoked, was confirmed once for
\* each use of a nonce, stays below the limits and reaches only what was audited.
TokensSound ==
    /\ TokensTypeOK
    /\ SealedCurrent
    /\ Revocable
    /\ ConfirmedOnce
    /\ ServerLimitKept
    /\ GrantsAudited

\* What a step may never do to a token: undo a revocation or a rotation, or be audited with
\* another past than the token had.
TokensOnlyForward == [][SecretsOnlyForward /\ AuditedFromTruth]_tokenVars
=============================================================================
