----------------------------- MODULE Inventory -----------------------------
(***************************************************************************)
(* Agents, assets, bindings, tags and allowed ports, written by the        *)
(* browser and the CLI (anything) and by Connect tokens (one server).      *)
(*                                                                         *)
(* Agents and assets share one set of definitions where the code treats    *)
(* them alike; an agent's id stands for its (source_key, match_key).       *)
(* All requests are coordinated writes and run one at a time; the one      *)
(* operation made of two separate D1 calls is the browser's replacement of *)
(* a host's tags, which an eviction can cut in half.                       *)
(***************************************************************************)
EXTENDS Integers, FiniteSets

CONSTANTS
    Hosts,         \* host_id
    AgentIds, AssetIds, TagIds,
    Ports,         \* port numbers
    MaxTags,       \* MAX_TAGS_PER_HOST, _AGENT and _ASSET
    MaxPorts,      \* MAX_ALLOWED_PORTS_PER_HOST
    Unset,          \* null
    Absent         \* no row

ASSUME InventoryAssumption ==
    /\ MaxTags \in Nat \ {0} /\ MaxPorts \in Nat \ {0}
    /\ Unset \notin Hosts /\ Absent \notin Hosts \cup {Unset}

Entities == AgentIds \cup AssetIds
Kept == "kept"          \* a field the body does not name
Colors == {0, 1}

TagRow == [owner : Hosts \cup {Unset}, color : Colors]

ASSUME IdAssumption == /\ IsFiniteSet(TagIds) /\ IsFiniteSet(Ports)
                       /\ Absent \notin TagRow

VARIABLES
    hostRows,   \* hosts: the ids that have a row
    home,       \* agents and assets: host_id of each row
    bindings,   \* agent_asset_bindings
    tags,       \* tags: [owner, color] of each row
    tagged,     \* host_tags, agent_tags and asset_tags
    ports,      \* port_allowlist
    replacing   \* a replaceForHost whose DELETE has run, or Unset

inventoryVars == <<hostRows, home, bindings, tags, tagged, ports, replacing>>

InventoryInit ==
    /\ hostRows = Hosts
    /\ home = [e \in Entities |-> Absent]
    /\ tags = [t \in TagIds |-> Absent]
    /\ bindings = {} /\ tagged = {} /\ ports = {}
    /\ replacing = Unset

Stored(e) == home[e] # Absent
TagRows == {t \in TagIds : tags[t] # Absent}
TagsOf(x) == {t \in TagIds : <<x, t>> \in tagged}
PortsOf(h) == {p \in Ports : <<h, p>> \in ports}
HostExists(h) == h \in hostRows

\* The coordinator hands out the next request when the last has ended.
Write == replacing = Unset

-----------------------------------------------------------------------------
(* The repositories.                                                       *)

\* INSERT, or UPDATE of host_id.
SetHome(e, h) ==
    /\ home' = [home EXCEPT ![e] = IF h = Kept THEN @ ELSE h]
    /\ UNCHANGED <<hostRows, bindings, tags, tagged, ports, replacing>>

\* Mutant: the bindings and the tags of the row are left behind.
DeleteEntityRowOnly(e) ==
    /\ home' = [home EXCEPT ![e] = Absent]
    /\ UNCHANGED <<hostRows, bindings, tags, tagged, ports, replacing>>

\* DELETE: bindings and tags of the row go with it.
DeleteEntityRow(e) ==
    /\ home' = [home EXCEPT ![e] = Absent]
    /\ bindings' = {b \in bindings : e \notin {b[1], b[2]}}
    /\ tagged' = {j \in tagged : j[1] # e}
    /\ UNCHANGED <<hostRows, tags, ports, replacing>>

\* replaceTags of agents and of assets: one batch.
ReplaceTags(e, ts) ==
    /\ ts \subseteq TagRows
    /\ tagged' = {j \in tagged : j[1] # e} \cup ({e} \X ts)
    /\ UNCHANGED <<hostRows, home, bindings, tags, ports, replacing>>

InsertBinding(g, a) ==
    /\ bindings' = bindings \cup {<<g, a>>}
    /\ UNCHANGED <<hostRows, home, tags, tagged, ports, replacing>>

DeleteBinding(g, a) ==
    /\ bindings' = bindings \ {<<g, a>>}
    /\ UNCHANGED <<hostRows, home, tags, tagged, ports, replacing>>

InsertTag(t, owner, color) ==
    /\ t \notin TagRows
    /\ tags' = [tags EXCEPT ![t] = [owner |-> owner, color |-> color]]
    /\ UNCHANGED <<hostRows, home, bindings, tagged, ports, replacing>>

UpdateTag(t, color) ==
    /\ t \in TagRows
    /\ tags' = [tags EXCEPT ![t].color = color]
    /\ UNCHANGED <<hostRows, home, bindings, tagged, ports, replacing>>

DeleteTag(t) ==
    /\ t \in TagRows
    /\ tags' = [tags EXCEPT ![t] = Absent]
    /\ tagged' = {j \in tagged : j[2] # t}
    /\ UNCHANGED <<hostRows, home, bindings, ports, replacing>>

AddToHost(h, t) ==
    /\ HostExists(h)
    /\ Cardinality(TagsOf(h)) < MaxTags
    /\ t \in TagRows
    /\ tagged' = tagged \cup {<<h, t>>}
    /\ UNCHANGED <<hostRows, home, bindings, tags, ports, replacing>>

RemoveFromHost(h, t) ==
    /\ tagged' = tagged \ {<<h, t>>}
    /\ UNCHANGED <<hostRows, home, bindings, tags, ports, replacing>>

\* replaceForHost: the DELETE is one call ...
ReplaceForHost(h, ts) ==
    /\ HostExists(h) /\ ts \subseteq TagRows
    /\ tagged' = {j \in tagged : j[1] # h}
    /\ replacing' = IF ts = {} THEN Unset ELSE [host |-> h, tags |-> ts]
    /\ UNCHANGED <<hostRows, home, bindings, tags, ports>>

\* ... and the INSERT another.
ReplaceInserts ==
    /\ replacing # Unset
    /\ tagged' = tagged \cup ({replacing.host} \X replacing.tags)
    /\ replacing' = Unset
    /\ UNCHANGED <<hostRows, home, bindings, tags, ports>>

\* The coordinator is evicted between the two: the host is left without tags.
ReplaceCut ==
    /\ replacing # Unset /\ replacing' = Unset
    /\ UNCHANGED <<hostRows, home, bindings, tags, tagged, ports>>

\* Idempotent for a port that is there; the limit holds for a new one.
AddPort(h, p) ==
    /\ HostExists(h)
    /\ p \notin PortsOf(h) => Cardinality(PortsOf(h)) < MaxPorts
    /\ ports' = ports \cup {<<h, p>>}
    /\ UNCHANGED <<hostRows, home, bindings, tags, tagged, replacing>>

RemovePort(h, p) ==
    /\ ports' = ports \ {<<h, p>>}
    /\ UNCHANGED <<hostRows, home, bindings, tags, tagged, replacing>>

-----------------------------------------------------------------------------
(* The browser's routes and the CLI's commands.                            *)

\* What create and update accept as host_id.
HostField == Hosts \cup {Unset, Kept}
ValidHost(h) == h \in Hosts => HostExists(h)

\* POST /api/agents: insert, or update the named fields of the row that is there.
AgentsCreate(g, h) ==
    /\ Write /\ ValidHost(h)
    /\ SetHome(g, IF h = Kept /\ ~Stored(g) THEN Unset ELSE h)

AgentsUpdate(g, h) == Write /\ Stored(g) /\ ValidHost(h) /\ SetHome(g, h)

AssetsCreate(a, h) ==
    /\ Write /\ ~Stored(a) /\ ValidHost(h)
    /\ SetHome(a, IF h = Kept THEN Unset ELSE h)

AssetsUpdate(a, h) == Write /\ Stored(a) /\ ValidHost(h) /\ SetHome(a, h)

AgentsDelete(g) == Write /\ Stored(g) /\ DeleteEntityRow(g)
AssetsDelete(a) == Write /\ Stored(a) /\ DeleteEntityRow(a)

AgentsTags(g, ts) == Write /\ Stored(g) /\ Cardinality(ts) <= MaxTags /\ ReplaceTags(g, ts)
AssetsTags(a, ts) == Write /\ Stored(a) /\ Cardinality(ts) <= MaxTags /\ ReplaceTags(a, ts)

BindingsCreate(g, a) == Write /\ Stored(g) /\ Stored(a) /\ InsertBinding(g, a)
BindingsDelete(g, a) == Write /\ <<g, a>> \in bindings /\ DeleteBinding(g, a)

TagsCreate(t, color) == Write /\ InsertTag(t, Unset, color)
TagsUpdate(t, color) == Write /\ UpdateTag(t, color)
TagsDelete(t) == Write /\ DeleteTag(t)

HostTagsAdd(h, t) == Write /\ AddToHost(h, t)
HostTagsRemove(h, t) == Write /\ <<h, t>> \in tagged /\ RemoveFromHost(h, t)
HostTagsReplace(h, ts) == Write /\ Cardinality(ts) <= MaxTags /\ ReplaceForHost(h, ts)

PortsAdd(h, p) == Write /\ AddPort(h, p)
PortsDelete(h, p) == Write /\ <<h, p>> \in ports /\ RemovePort(h, p)

\* What the flags of a CLI command stand for: a field given and cleared at once is refused.
FieldOf(given, clear) ==
    {f \in HostField : /\ ~(given # Kept /\ clear)
                       /\ f = IF clear THEN Unset ELSE given}

\* bat agent update, bat asset update, bat agent tags and bat asset tags.
CliAgentUpdate(g, given, clear) == \E h \in FieldOf(given, clear) : AgentsUpdate(g, h)
CliAssetUpdate(a, given, clear) == \E h \in FieldOf(given, clear) : AssetsUpdate(a, h)
CliAgentTags(g, ids, clear) == ~(clear /\ ids # {}) /\ AgentsTags(g, ids)
CliAssetTags(a, ids, clear) == ~(clear /\ ids # {}) /\ AssetsTags(a, ids)

\* A host is deleted and comes back with its next report: owned tags, its ports and its tag
\* assignments cascade, its agents and assets stay without a host.
HostDeleted(h) ==
    LET owned == {t \in TagRows : tags[t].owner = h} IN
    /\ Write /\ HostExists(h)
    /\ hostRows' = hostRows \ {h}
    /\ home' = [e \in Entities |-> IF home[e] = h THEN Unset ELSE home[e]]
    /\ tags' = [t \in TagIds |-> IF t \in owned THEN Absent ELSE tags[t]]
    /\ tagged' = {j \in tagged : j[1] # h /\ j[2] \notin owned}
    /\ ports' = {p \in ports : p[1] # h}
    /\ UNCHANGED <<bindings, replacing>>

PortsReported(h) ==
    /\ ~HostExists(h) /\ hostRows' = hostRows \cup {h}
    /\ UNCHANGED <<home, bindings, tags, tagged, ports, replacing>>

-----------------------------------------------------------------------------
(* A Connect token of server s: forServer(base, s).                        *)

\* bound: the server is the token's, and it exists while its token does.
RequireEntity(s, e) == home[e] = s
VisibleTags(s, ts) == \A t \in ts : t \in TagRows /\ tags[t].owner \in {Unset, s}

\* Mutant: the owner alone decides.
WritableTagOwned(s, t) == t \in TagRows /\ tags[t].owner = s

\* The server owns the tag, and nothing of another server wears it.
WritableTag(s, t) ==
    /\ t \in TagRows /\ tags[t].owner = s
    /\ \A j \in tagged : j[2] = t => j[1] = s \/ (j[1] \in Entities /\ home[j[1]] = s)

\* deleteEntity refuses while a binding leads to another server.
Unshared(s, e) ==
    \A b \in bindings : e \in {b[1], b[2]} =>
        home[IF b[1] = e THEN b[2] ELSE b[1]] = s

\* upsertBy and heartbeat: an installation of another server is a conflict.
SourceFree(s, g) == home[g] \in {Absent, s}

ConnectUpdate(s, e) == RequireEntity(s, e) /\ SetHome(e, Kept)
ConnectDelete(s, e) == RequireEntity(s, e) /\ Unshared(s, e) /\ DeleteEntityRow(e)
ConnectEntityTags(s, e, ts) ==
    /\ RequireEntity(s, e) /\ VisibleTags(s, ts) /\ Cardinality(ts) <= MaxTags
    /\ ReplaceTags(e, ts)

ConnectAgentsCreate(s, g) == SourceFree(s, g) /\ SetHome(g, s)
ConnectAssetsCreate(s, a) == ~Stored(a) /\ SetHome(a, s)

ConnectBindingsCreate(s, g, a) ==
    RequireEntity(s, g) /\ RequireEntity(s, a) /\ InsertBinding(g, a)
ConnectBindingsDelete(s, g, a) ==
    RequireEntity(s, g) /\ RequireEntity(s, a) /\ DeleteBinding(g, a)

ConnectTagsCreate(s, t, color) == InsertTag(t, s, color)
ConnectTagsUpdate(s, t, color) == WritableTag(s, t) /\ UpdateTag(t, color)
ConnectTagsDelete(s, t) == WritableTag(s, t) /\ DeleteTag(t)

ConnectHostTagsAdd(s, t) == VisibleTags(s, {t}) /\ AddToHost(s, t)
ConnectHostTagsRemove(s, t) == RemoveFromHost(s, t)

\* replaceForHost of the scoped view: one batch, unlike the browser's.
ConnectHostTagsReplace(s, ts) ==
    /\ VisibleTags(s, ts) /\ Cardinality(ts) <= MaxTags
    /\ tagged' = {j \in tagged : j[1] # s} \cup ({s} \X ts)
    /\ UNCHANGED <<hostRows, home, bindings, tags, ports, replacing>>

ConnectPortsAdd(s, p) == AddPort(s, p)
ConnectPortsDelete(s, p) == RemovePort(s, p)

\* productHandlers: the operations of a Connect token that write the inventory.
ConnectWrite(s) ==
    /\ Write /\ HostExists(s)
    /\ \/ \E e \in Entities : \/ ConnectUpdate(s, e)
                              \/ ConnectDelete(s, e)
                              \/ \E ts \in SUBSET TagIds : ConnectEntityTags(s, e, ts)
       \/ \E g \in AgentIds : ConnectAgentsCreate(s, g)
       \/ \E a \in AssetIds : ConnectAssetsCreate(s, a)
       \/ \E g \in AgentIds, a \in AssetIds :
             ConnectBindingsCreate(s, g, a) \/ ConnectBindingsDelete(s, g, a)
       \/ \E t \in TagIds : \/ \E c \in Colors : ConnectTagsCreate(s, t, c)
                            \/ \E c \in Colors : ConnectTagsUpdate(s, t, c)
                            \/ ConnectTagsDelete(s, t)
                            \/ ConnectHostTagsAdd(s, t)
                            \/ ConnectHostTagsRemove(s, t)
       \/ \E ts \in SUBSET TagIds : ConnectHostTagsReplace(s, ts)
       \/ \E p \in Ports : ConnectPortsAdd(s, p) \/ ConnectPortsDelete(s, p)

-----------------------------------------------------------------------------
BrowserWrite ==
    \/ \E g \in AgentIds : \/ \E h \in HostField : AgentsCreate(g, h)
                           \/ \E h \in HostField, c \in BOOLEAN : CliAgentUpdate(g, h, c)
                           \/ AgentsDelete(g)
                           \/ \E ts \in SUBSET TagIds, c \in BOOLEAN : CliAgentTags(g, ts, c)
    \/ \E a \in AssetIds : \/ \E h \in HostField : AssetsCreate(a, h)
                           \/ \E h \in HostField, c \in BOOLEAN : CliAssetUpdate(a, h, c)
                           \/ AssetsDelete(a)
                           \/ \E ts \in SUBSET TagIds, c \in BOOLEAN : CliAssetTags(a, ts, c)
    \/ \E g \in AgentIds, a \in AssetIds : BindingsCreate(g, a) \/ BindingsDelete(g, a)
    \/ \E t \in TagIds : \/ \E c \in Colors : TagsCreate(t, c) \/ TagsUpdate(t, c)
                         \/ TagsDelete(t)
    \/ \E h \in Hosts : \/ \E t \in TagIds : HostTagsAdd(h, t) \/ HostTagsRemove(h, t)
                        \/ \E ts \in SUBSET TagIds : HostTagsReplace(h, ts)
                        \/ \E p \in Ports : PortsAdd(h, p) \/ PortsDelete(h, p)
                        \/ HostDeleted(h)

InventoryNext ==
    \/ BrowserWrite
    \/ \E s \in Hosts : ConnectWrite(s)
    \/ ReplaceInserts
    \/ ReplaceCut
    \/ \E h \in Hosts : PortsReported(h)

InventorySpec == InventoryInit /\ [][InventoryNext]_inventoryVars

-----------------------------------------------------------------------------
(* Properties.                                                             *)

\* Types, and every reference leads to a row: owners and homes to hosts, bindings to both
\* ends, taggings to the thing and to the tag, ports to hosts (the cascades of the
\* migrations, under every order of deletions).
RefsExist ==
    /\ \A e \in Entities : home[e] \in hostRows \cup {Unset, Absent}
    /\ \A t \in TagRows : tags[t].owner \in hostRows \cup {Unset} /\ tags[t].color \in Colors
    /\ \A b \in bindings : Stored(b[1]) /\ Stored(b[2])
    /\ \A j \in tagged : j[2] \in TagRows /\ (j[1] \in hostRows \/ Stored(j[1]))
    /\ \A p \in ports : p[1] \in hostRows

\* No order of additions, replacements and half-done replacements takes a host, an agent or
\* an asset past its limits (MAX_TAGS_PER_HOST, MAX_ALLOWED_PORTS_PER_HOST).
InventoryLimits ==
    /\ \A x \in Hosts \cup Entities : Cardinality(TagsOf(x)) <= MaxTags
    /\ \A h \in Hosts : Cardinality(PortsOf(h)) <= MaxPorts

OfServer(s, x) == x = s \/ (x \in Entities /\ home[x] = s)
Changed(old, new) == (old \ new) \cup (new \ old)

\* The agents and assets of other servers, and the ones without a server, stay as they are,
\* with their bindings (requireEntity, deleteEntity, upsertBy).
OthersEntitiesKept(s) ==
    /\ \A e \in Entities : home[e] \notin {s, Absent} => home'[e] = home[e]
    /\ \A b \in Changed(bindings, bindings') : {home[b[1]], home[b[2]]} \subseteq {s, Absent}

\* What they look like there stays too: the tags they wear keep name and color, no tag
\* appears on them or leaves them, and their ports stay (writableTag, bound).
OthersTagsKept(s) ==
    /\ \A j \in Changed(tagged, tagged') : OfServer(s, j[1])
    /\ \A t \in TagIds : tags'[t] # tags[t] =>
          /\ t \in TagRows => tags[t].owner = s
          /\ \A j \in tagged \cup tagged' : j[2] = t => OfServer(s, j[1])
    /\ \A p \in Changed(ports, ports') : p[1] = s

\* Browser, CLI and Connect edit the inventory at once, hosts come and go, and replacements
\* stop half way: no reference dangles and no limit is passed.
InventorySound == RefsExist /\ InventoryLimits

\* A Connect token changes nothing of another server, neither the things there nor what they
\* look like (adapters/d1/connect-products.ts).
ConnectKeepsToServer ==
    [][\A s \in Hosts : (OthersEntitiesKept(s) /\ OthersTagsKept(s)) \/ ~ConnectWrite(s)]_inventoryVars
=============================================================================
