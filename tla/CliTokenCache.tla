--------------------------- MODULE CliTokenCache ---------------------------
(***************************************************************************)
(* Authentication with one CLI token, through the KV cache in front of D1, *)
(* while a browser session revokes it (DELETE /api/cli-tokens/:id).        *)
(*                                                                         *)
(* apiKeyAuth runs in any number of concurrent requests; between two of    *)
(* its awaits other requests and the revocation run.  The revocation goes  *)
(* through the Connect coordinator, so there is one at a time.  A KV call  *)
(* may fail (KVFaults) and the code then goes on.  KV itself is taken to   *)
(* be linearizable, which is more than Cloudflare promises.                *)
(***************************************************************************)
EXTENDS Integers

CONSTANTS
    Requests,    \* concurrent authenticated CLI calls
    CacheTTL,    \* CLI_TOKEN_CACHE_TTL_SECONDS
    RevokedTTL,  \* CLI_TOKEN_REVOKED_TTL_SECONDS
    MaxLatency,  \* longest time from a request's start to its authentication
    KVFaults,    \* KV operations that may fail: "get", "put", "delete"
    TokenMaxTime \* bound on the clock (model checking only)

ASSUME CliTokenAssumption ==
    /\ CacheTTL \in Nat \ {0}
    /\ RevokedTTL \in Nat \ {0}
    /\ MaxLatency \in Nat
    /\ KVFaults \subseteq {"get", "put", "delete"}
    /\ TokenMaxTime \in Nat

VARIABLES
    tokenClock,
    tokenRow,   \* the cli_tokens row: "none" yet, "live" or "deleted"
    deletedAt,  \* when it was deleted
    cache,      \* expiry of the positive cache entry (0: absent)
    revoked,    \* expiry of the revoke sentinel (0: absent)
    pc,         \* where each request is in apiKeyAuth
    started,    \* when it started
    shielded,   \* history: the sentinel was up when it started
    late,       \* history: it started after the revocation had returned
    rpc         \* where the revocation is

request == <<pc, started, shielded, late>>
tokenCacheVars == <<tokenClock, tokenRow, deletedAt, cache, revoked, request, rpc>>

Resting == {"idle", "accepted", "rejected"}

TokenCacheInit ==
    /\ tokenClock = 1
    /\ tokenRow = "none"
    /\ deletedAt = 0
    /\ cache = 0
    /\ revoked = 0
    /\ pc = [p \in Requests |-> "idle"]
    /\ started = [p \in Requests |-> 0]
    /\ shielded = [p \in Requests |-> FALSE]
    /\ late = [p \in Requests |-> FALSE]
    /\ rpc = "idle"

Goto(p, label) ==
    /\ pc' = [pc EXCEPT ![p] = label]
    /\ UNCHANGED <<tokenClock, tokenRow, deletedAt, revoked, started, shielded, late, rpc>>

-----------------------------------------------------------------------------
(* apiKeyAuth: revoked sentinel, then positive cache, then D1.             *)

StartRequest(p) ==
    /\ pc[p] \in Resting
    /\ pc' = [pc EXCEPT ![p] = "sentinel"]
    /\ started' = [started EXCEPT ![p] = tokenClock]
    /\ shielded' = [shielded EXCEPT ![p] = revoked > tokenClock]
    /\ late' = [late EXCEPT ![p] = (rpc = "done")]
    /\ UNCHANGED <<tokenClock, tokenRow, deletedAt, cache, revoked, rpc>>

\* lookupToken: a failed get, of either key, counts as a miss of both.
ReadSentinel(p) ==
    /\ pc[p] = "sentinel"
    /\ \/ revoked > tokenClock /\ Goto(p, "rejected")
       \/ revoked <= tokenClock /\ Goto(p, "cache")
       \/ "get" \in KVFaults /\ Goto(p, "select")
    /\ UNCHANGED cache

\* Mutant: a hit renews the entry.
ReadCacheSliding(p) ==
    /\ pc[p] = "cache"
    /\ \/ cache > tokenClock /\ cache' = tokenClock + CacheTTL /\ Goto(p, "accepted")
       \/ cache <= tokenClock /\ cache' = cache /\ Goto(p, "select")

ReadCache(p) ==
    /\ pc[p] = "cache"
    /\ \/ cache > tokenClock /\ Goto(p, "accepted")
       \/ cache <= tokenClock /\ Goto(p, "select")
       \/ "get" \in KVFaults /\ Goto(p, "select")
    /\ UNCHANGED cache

\* findByHashAndTouch: a SELECT, then an UPDATE of last_used_at.
SelectRow(p) ==
    /\ pc[p] = "select"
    /\ Goto(p, IF tokenRow = "live" THEN "touch" ELSE "rejected")
    /\ UNCHANGED cache

TouchRow(p) ==
    /\ pc[p] = "touch"
    /\ Goto(p, "remember")
    /\ UNCHANGED cache

RememberToken(p) ==
    /\ pc[p] = "remember"
    /\ \/ cache' = tokenClock + CacheTTL
       \/ "put" \in KVFaults /\ cache' = cache
    /\ Goto(p, "accepted")

Die(p) ==
    /\ pc[p] \notin Resting
    /\ Goto(p, "idle")
    /\ UNCHANGED cache

-----------------------------------------------------------------------------
(* Minting (cliAuthRoute) and revocation (cliTokensDeleteRoute).           *)

CreateToken ==
    /\ tokenRow = "none"
    /\ tokenRow' = "live"
    /\ UNCHANGED <<tokenClock, deletedAt, cache, revoked, request, rpc>>

\* findHashById; when it finds nothing the delete finds nothing either: 404.
FindHash ==
    /\ rpc \in {"idle", "done"}
    /\ tokenRow = "live"
    /\ rpc' = "delete"
    /\ UNCHANGED <<tokenClock, tokenRow, deletedAt, cache, revoked, request>>

DeleteRow ==
    /\ rpc = "delete"
    /\ tokenRow' = "deleted"
    /\ deletedAt' = tokenClock
    /\ rpc' = "put"
    /\ UNCHANGED <<tokenClock, cache, revoked, request>>

\* markRevoked: two independent best-effort KV writes.
PutRevoked ==
    /\ rpc = "put"
    /\ \/ revoked' = tokenClock + RevokedTTL
       \/ "put" \in KVFaults /\ revoked' = revoked
    /\ rpc' = "drop"
    /\ UNCHANGED <<tokenClock, tokenRow, deletedAt, cache, request>>

DropCache ==
    /\ rpc = "drop"
    /\ \/ cache' = 0
       \/ "delete" \in KVFaults /\ cache' = cache
    /\ rpc' = "done"
    /\ UNCHANGED <<tokenClock, tokenRow, deletedAt, revoked, request>>

RevocationDies ==
    /\ rpc \in {"delete", "put", "drop"}
    /\ rpc' = "idle"
    /\ UNCHANGED <<tokenClock, tokenRow, deletedAt, cache, revoked, request>>

TokenCacheTick ==
    /\ tokenClock < TokenMaxTime
    /\ \A p \in Requests : pc[p] \in Resting \/ tokenClock < started[p] + MaxLatency
    /\ tokenClock' = tokenClock + 1
    /\ UNCHANGED <<tokenRow, deletedAt, cache, revoked, request, rpc>>

Authenticate(p) ==
    \/ StartRequest(p) \/ ReadSentinel(p) \/ ReadCache(p)
    \/ SelectRow(p) \/ TouchRow(p) \/ RememberToken(p) \/ Die(p)

Revoke == FindHash \/ DeleteRow \/ PutRevoked \/ DropCache \/ RevocationDies

TokenCacheNext == TokenCacheTick \/ CreateToken \/ Revoke \/ \E p \in Requests : Authenticate(p)

TokenCacheSpec == TokenCacheInit /\ [][TokenCacheNext]_tokenCacheVars

-----------------------------------------------------------------------------
\* Every variable has its type.
TokenCacheTypeOK ==
    /\ tokenClock \in Nat
    /\ tokenRow \in {"none", "live", "deleted"}
    /\ deletedAt \in Nat
    /\ cache \in Nat
    /\ revoked \in Nat
    /\ pc \in [Requests -> Resting \cup {"sentinel", "cache", "select", "touch", "remember"}]
    /\ started \in [Requests -> Nat]
    /\ shielded \in [Requests -> BOOLEAN]
    /\ late \in [Requests -> BOOLEAN]
    /\ rpc \in {"idle", "delete", "put", "drop", "done"}

Accepts(p) == pc[p] # "accepted" /\ pc'[p] = "accepted"

\* A deleted token stops working: whatever races the revocation, whichever KV write
\* fails and wherever the revocation dies, no request is accepted later than the
\* positive cache's TTL, plus one request's latency, after the row was deleted.
DeletedTokenDies ==
    \A p \in Requests :
      Accepts(p) /\ tokenRow = "deleted" => tokenClock < deletedAt + MaxLatency + CacheTTL

\* While the revoke sentinel stands, a request that found it standing when it
\* started is not accepted, even if a stale positive cache entry exists or its
\* own KV reads fail.
SentinelShields ==
    \A p \in Requests : Accepts(p) /\ shielded[p] => revoked <= tokenClock

\* A revocation takes effect: at once for requests that start under its sentinel, and within
\* the TTL of the positive cache for all others (authenticateCliToken, revokeCliToken).
RevocationHolds == [][DeletedTokenDies /\ SentinelShields]_tokenCacheVars

\* cli-token-cache.ts: with the sentinel's TTL at least the cache's, a stale cache
\* cannot resurrect a revoked token: a request that starts after the revocation has
\* returned is never accepted.
RevocationFinal == [][\A p \in Requests : Accepts(p) => ~late[p]]_tokenCacheVars
=============================================================================
