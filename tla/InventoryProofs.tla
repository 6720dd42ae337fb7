-------------------------- MODULE InventoryProofs ---------------------------
(***************************************************************************)
(* Proofs about Inventory, for any hosts, agents, assets, tags, ports and  *)
(* limits.                                                                 *)
(***************************************************************************)
EXTENDS Inventory, FiniteSetTheorems, TLAPS

-----------------------------------------------------------------------------
(***************************************************************************)
(* Types, references and limits.                                           *)
(***************************************************************************)

InventoryTyped ==
    /\ hostRows \subseteq Hosts
    /\ home \in [Entities -> Hosts \cup {Unset, Absent}]
    /\ bindings \subseteq AgentIds \X AssetIds
    /\ tags \in [TagIds -> TagRow \cup {Absent}]
    /\ tagged \subseteq (Hosts \cup Entities) \X TagIds
    /\ ports \subseteq Hosts \X Ports
    /\ replacing \in [host : Hosts, tags : SUBSET TagIds] \cup {Unset}

\* RefsExist with the holders of tags told apart, and with the references of the second half
\* of a replacement.
RefsStand ==
    /\ RefsExist
    /\ \A j \in tagged : j[1] \in hostRows \/ (j[1] \in Entities /\ Stored(j[1]))
    /\ replacing # Unset => replacing.host \in hostRows /\ replacing.tags \subseteq TagRows

\* The second half of a replacement finds the host without tags and room for its own.
LimitsStand ==
    /\ InventoryLimits
    /\ replacing # Unset => /\ TagsOf(replacing.host) = {}
                            /\ Cardinality(replacing.tags) <= MaxTags

RefsInv == InventoryTyped /\ RefsStand
InventoryInv == RefsInv /\ LimitsStand

\* The changes of the tables, each with what its callers have checked.
RowChange ==
    \/ \E e \in Entities, h \in hostRows \cup {Unset, Kept} : SetHome(e, h)
    \/ \E e \in Entities : DeleteEntityRow(e)
    \/ \E g \in AgentIds, a \in AssetIds :
          (Stored(g) /\ Stored(a) /\ InsertBinding(g, a)) \/ DeleteBinding(g, a)
    \/ \E t \in TagIds, c \in Colors :
          (\E o \in hostRows \cup {Unset} : InsertTag(t, o, c)) \/ UpdateTag(t, c)
    \/ \E t \in TagIds : DeleteTag(t)
    \/ \E h \in Hosts : HostDeleted(h)

TagChange ==
    \/ \E e \in Entities, ts \in SUBSET TagIds :
          Stored(e) /\ Cardinality(ts) <= MaxTags /\ ReplaceTags(e, ts)
    \/ \E h \in Hosts, t \in TagIds : AddToHost(h, t) \/ RemoveFromHost(h, t)
    \/ \E h \in Hosts, ts \in SUBSET TagIds :
          Cardinality(ts) <= MaxTags /\ ReplaceForHost(h, ts)
    \/ \E s \in hostRows, ts \in SUBSET TagIds : ConnectHostTagsReplace(s, ts)
    \/ \E h \in Hosts, p \in Ports : AddPort(h, p) \/ RemovePort(h, p)

InventoryMoves ==
    \/ Write /\ (RowChange \/ TagChange)
    \/ ReplaceInserts
    \/ ReplaceCut
    \/ \E h \in Hosts : PortsReported(h)
    \/ UNCHANGED inventoryVars

LEMMA BrowserMoves ==
  ASSUME BrowserWrite
  PROVE  Write /\ (RowChange \/ TagChange)
<1>1. ASSUME NEW e \in Entities, NEW h \in HostField, ValidHost(h)
      PROVE  h \in hostRows \cup {Unset, Kept}
  BY <1>1 DEF HostField, ValidHost, HostExists
<1>2. ASSUME NEW g \in AgentIds
      PROVE  /\ \A h \in HostField : AgentsCreate(g, h) => Write /\ RowChange
             /\ \A h \in HostField, c \in BOOLEAN : CliAgentUpdate(g, h, c) => Write /\ RowChange
             /\ AgentsDelete(g) => Write /\ RowChange
             /\ \A ts \in SUBSET TagIds, c \in BOOLEAN : CliAgentTags(g, ts, c) => Write /\ TagChange
  BY <1>1 DEF AgentsCreate, CliAgentUpdate, FieldOf, AgentsUpdate, AgentsDelete, CliAgentTags,
     AgentsTags, RowChange, TagChange, Entities
<1>3. ASSUME NEW a \in AssetIds
      PROVE  /\ \A h \in HostField : AssetsCreate(a, h) => Write /\ RowChange
             /\ \A h \in HostField, c \in BOOLEAN : CliAssetUpdate(a, h, c) => Write /\ RowChange
             /\ AssetsDelete(a) => Write /\ RowChange
             /\ \A ts \in SUBSET TagIds, c \in BOOLEAN : CliAssetTags(a, ts, c) => Write /\ TagChange
  BY <1>1 DEF AssetsCreate, CliAssetUpdate, FieldOf, AssetsUpdate, AssetsDelete, CliAssetTags,
     AssetsTags, RowChange, TagChange, Entities
<1>4. \A g \in AgentIds, a \in AssetIds :
        BindingsCreate(g, a) \/ BindingsDelete(g, a) => Write /\ RowChange
  BY DEF BindingsCreate, BindingsDelete, RowChange
<1>5. \A t \in TagIds : /\ \A c \in Colors : TagsCreate(t, c) \/ TagsUpdate(t, c) => Write /\ RowChange
                        /\ TagsDelete(t) => Write /\ RowChange
  BY DEF TagsCreate, TagsUpdate, TagsDelete, RowChange
<1>6. \A h \in Hosts :
        /\ \A t \in TagIds : HostTagsAdd(h, t) \/ HostTagsRemove(h, t) => Write /\ TagChange
        /\ \A ts \in SUBSET TagIds : HostTagsReplace(h, ts) => Write /\ TagChange
        /\ \A p \in Ports : PortsAdd(h, p) \/ PortsDelete(h, p) => Write /\ TagChange
        /\ HostDeleted(h) => Write /\ RowChange
  BY DEF HostTagsAdd, HostTagsRemove, HostTagsReplace, PortsAdd, PortsDelete, HostDeleted,
     TagChange, RowChange
<1> QED
  BY <1>2, <1>3, <1>4, <1>5, <1>6 DEF BrowserWrite

\* requireEntity, upsertBy and the scoped view check what a Connect token may name.
LEMMA ConnectMoves ==
  ASSUME NEW s \in Hosts, ConnectWrite(s)
  PROVE  Write /\ (RowChange \/ TagChange)
<1>1. Write /\ s \in hostRows /\ s # Absent
  BY InventoryAssumption DEF ConnectWrite, HostExists
<1>2. \A e \in Entities : /\ ConnectUpdate(s, e) \/ ConnectDelete(s, e) => RowChange
                          /\ \A ts \in SUBSET TagIds : ConnectEntityTags(s, e, ts) => TagChange
  BY <1>1 DEF ConnectUpdate, ConnectDelete, ConnectEntityTags, RequireEntity, Stored, RowChange,
     TagChange
<1>3. /\ \A g \in AgentIds : ConnectAgentsCreate(s, g) => RowChange
      /\ \A a \in AssetIds : ConnectAssetsCreate(s, a) => RowChange
  BY <1>1 DEF ConnectAgentsCreate, ConnectAssetsCreate, RowChange, Entities
<1>4. \A g \in AgentIds, a \in AssetIds :
        ConnectBindingsCreate(s, g, a) \/ ConnectBindingsDelete(s, g, a) => RowChange
  BY <1>1 DEF ConnectBindingsCreate, ConnectBindingsDelete, RequireEntity, Stored, RowChange
<1>5. \A t \in TagIds :
        /\ \A c \in Colors : ConnectTagsCreate(s, t, c) \/ ConnectTagsUpdate(s, t, c) => RowChange
        /\ ConnectTagsDelete(s, t) => RowChange
        /\ ConnectHostTagsAdd(s, t) \/ ConnectHostTagsRemove(s, t) => TagChange
  BY <1>1 DEF ConnectTagsCreate, ConnectTagsUpdate, ConnectTagsDelete, ConnectHostTagsAdd,
     ConnectHostTagsRemove, RowChange, TagChange
<1>6. /\ \A ts \in SUBSET TagIds : ConnectHostTagsReplace(s, ts) => TagChange
      /\ \A p \in Ports : ConnectPortsAdd(s, p) \/ ConnectPortsDelete(s, p) => TagChange
  BY <1>1 DEF ConnectPortsAdd, ConnectPortsDelete, TagChange
<1> QED
  BY <1>1, <1>2, <1>3, <1>4, <1>5, <1>6 DEF ConnectWrite

LEMMA MovesOfInventory == [InventoryNext]_inventoryVars => InventoryMoves
BY BrowserMoves, ConnectMoves DEF InventoryNext, InventoryMoves

LEMMA RefsOfRowChange ==
  ASSUME RefsInv, Write, RowChange
  PROVE  RefsInv'
<1> USE InventoryAssumption, IdAssumption DEF RefsInv
<1>0. /\ InventoryTyped /\ RefsStand /\ replacing = Unset
      /\ \A t \in TagIds : tags[t] # Absent => /\ tags[t] \in TagRow
                                               /\ tags[t].owner \in hostRows \cup {Unset}
      /\ \A j \in tagged : j[2] \in TagIds /\ tags[j[2]] # Absent
      /\ Absent \notin Hosts
  BY DEF InventoryTyped, RefsStand, RefsExist, TagRows, Write
<1>1. ASSUME NEW e \in Entities, NEW h \in hostRows \cup {Unset, Kept}, SetHome(e, h)
      PROVE  RefsInv'
  <2>1. /\ home' = [home EXCEPT ![e] = IF h = Kept THEN @ ELSE h]
        /\ UNCHANGED <<hostRows, bindings, tags, tagged, ports, replacing>>
    BY <1>1 DEF SetHome
  <2>2. \A x \in Entities : \/ home'[x] = home[x]
                            \/ home'[x] \in hostRows \cup {Unset} /\ home'[x] # Absent
    BY <1>0, <2>1 DEF InventoryTyped
  <2>3. home' \in [Entities -> Hosts \cup {Unset, Absent}]
    BY <1>0, <2>1 DEF InventoryTyped
  <2>4. InventoryTyped'
    BY <1>0, <2>1, <2>3 DEF InventoryTyped
  <2>5. \A b \in bindings : b[1] \in Entities /\ b[2] \in Entities
    BY <1>0 DEF InventoryTyped, Entities
  <2>6. RefsExist'
    BY <1>0, <2>1, <2>2, <2>5 DEF RefsStand, RefsExist, Stored, TagRows
  <2> QED
    BY <1>0, <2>1, <2>2, <2>4, <2>6 DEF RefsStand, Stored
<1>2. ASSUME NEW e \in Entities, DeleteEntityRow(e)
      PROVE  RefsInv'
  <2>1. /\ home' = [home EXCEPT ![e] = Absent]
        /\ bindings' = {b \in bindings : e \notin {b[1], b[2]}}
        /\ tagged' = {j \in tagged : j[1] # e}
        /\ UNCHANGED <<hostRows, tags, ports, replacing>>
    BY <1>2 DEF DeleteEntityRow
  <2>2. \A b \in bindings : b[1] \in Entities /\ b[2] \in Entities
    BY <1>0 DEF InventoryTyped, Entities
  <2>3. InventoryTyped'
    BY <1>0, <2>1 DEF InventoryTyped
  <2>4. \A x \in Entities : x # e => home'[x] = home[x]
    BY <1>0, <2>1 DEF InventoryTyped
  <2>5. RefsExist'
    <3>1. \A x \in Entities : home'[x] \in hostRows' \cup {Unset, Absent}
      BY <1>0, <2>1, <2>4 DEF RefsStand, RefsExist, InventoryTyped
    <3>2. \A b \in bindings' : Stored(b[1])' /\ Stored(b[2])'
      BY <1>0, <2>1, <2>2, <2>4 DEF RefsStand, RefsExist, Stored
    <3>3. \A j \in tagged' : j[1] \in hostRows' \/ Stored(j[1])'
      BY <1>0, <2>1, <2>4 DEF RefsStand, Stored
    <3> QED
      BY <1>0, <2>1, <3>1, <3>2, <3>3 DEF RefsStand, RefsExist, TagRows
  <2> QED
    BY <1>0, <2>1, <2>3, <2>4, <2>5 DEF RefsStand, Stored
<1>3. ASSUME NEW g \in AgentIds, NEW a \in AssetIds,
             (Stored(g) /\ Stored(a) /\ InsertBinding(g, a)) \/ DeleteBinding(g, a)
      PROVE  RefsInv'
  <2>1. /\ UNCHANGED <<hostRows, home, tags, tagged, ports, replacing>>
        /\ bindings' \subseteq bindings \cup {<<g, a>>}
        /\ \A b \in bindings' : b \in bindings \/ (b = <<g, a>> /\ Stored(g) /\ Stored(a))
    BY <1>3 DEF InsertBinding, DeleteBinding
  <2>2. InventoryTyped'
    BY <1>0, <2>1 DEF InventoryTyped
  <2> QED
    BY <1>0, <2>1, <2>2 DEF RefsStand, RefsExist, Stored, TagRows
<1>4. ASSUME NEW t \in TagIds, NEW row \in TagRow, row.owner \in hostRows \cup {Unset},
             tags' = [tags EXCEPT ![t] = row],
             UNCHANGED <<hostRows, home, bindings, tagged, ports, replacing>>
      PROVE  RefsInv'
  <2>1. InventoryTyped'
    BY <1>0, <1>4 DEF InventoryTyped
  <2>2. \A u \in TagIds : tags'[u] = IF u = t THEN row ELSE tags[u]
    BY <1>0, <1>4 DEF InventoryTyped
  <2>3. row # Absent /\ row.color \in Colors
    BY DEF TagRow
  <2> QED
    BY <1>0, <1>4, <2>1, <2>2, <2>3 DEF RefsStand, RefsExist, Stored, TagRows
<1>5. ASSUME NEW t \in TagIds, NEW c \in Colors,
             (\E o \in hostRows \cup {Unset} : InsertTag(t, o, c)) \/ UpdateTag(t, c)
      PROVE  RefsInv'
  <2>1. CASE \E o \in hostRows \cup {Unset} : InsertTag(t, o, c)
    <3>1. PICK o \in hostRows \cup {Unset} : InsertTag(t, o, c)
      BY <2>1
    <3>2. [owner |-> o, color |-> c] \in TagRow
      BY <1>0 DEF TagRow, InventoryTyped
    <3> QED
      BY <1>4, <3>1, <3>2 DEF InsertTag
  <2>2. CASE UpdateTag(t, c)
    <3> DEFINE row == [tags[t] EXCEPT !.color = c]
    <3>1. tags[t] \in TagRow /\ tags[t].owner \in hostRows \cup {Unset}
      BY <1>0, <2>2 DEF UpdateTag, TagRows
    <3>2. row \in TagRow /\ row.owner \in hostRows \cup {Unset}
      BY <3>1 DEF TagRow
    <3>3. /\ tags' = [tags EXCEPT ![t] = row]
          /\ UNCHANGED <<hostRows, home, bindings, tagged, ports, replacing>>
      BY <2>2 DEF UpdateTag
    <3> HIDE DEF row
    <3> QED
      BY <1>4, <3>2, <3>3
  <2> QED
    BY <1>5, <2>1, <2>2
<1>6. ASSUME NEW t \in TagIds, DeleteTag(t)
      PROVE  RefsInv'
  <2>1. /\ tags' = [tags EXCEPT ![t] = Absent]
        /\ tagged' = {j \in tagged : j[2] # t}
        /\ UNCHANGED <<hostRows, home, bindings, ports, replacing>>
    BY <1>6 DEF DeleteTag
  <2>2. InventoryTyped'
    BY <1>0, <2>1 DEF InventoryTyped
  <2>3. \A u \in TagIds : tags'[u] = IF u = t THEN Absent ELSE tags[u]
    BY <1>0, <2>1 DEF InventoryTyped
  <2> QED
    BY <1>0, <2>1, <2>2, <2>3 DEF RefsStand, RefsExist, Stored, TagRows
<1>7. ASSUME NEW h \in Hosts, HostDeleted(h)
      PROVE  RefsInv'
  <2> DEFINE owned == {t \in TagRows : tags[t].owner = h}
  <2>1. /\ hostRows' = hostRows \ {h}
        /\ home' = [e \in Entities |-> IF home[e] = h THEN Unset ELSE home[e]]
        /\ tags' = [t \in TagIds |-> IF t \in owned THEN Absent ELSE tags[t]]
        /\ tagged' = {j \in tagged : j[1] # h /\ j[2] \notin owned}
        /\ ports' = {p \in ports : p[1] # h}
        /\ UNCHANGED <<bindings, replacing>>
    BY <1>7 DEF HostDeleted
  <2>2. \A t \in TagIds : t \in owned <=> tags[t] # Absent /\ tags[t].owner = h
    BY DEF TagRows
  <2> HIDE DEF owned
  <2>3. /\ \A e \in Entities : home'[e] = IF home[e] = h THEN Unset ELSE home[e]
        /\ \A t \in TagIds : tags'[t] = IF t \in owned THEN Absent ELSE tags[t]
    BY <2>1
  <2>4. \A e \in Entities : home[e] # Absent => home'[e] # Absent
    BY <2>3
  <2>5. InventoryTyped'
    BY <1>0, <2>1 DEF InventoryTyped
  <2>6. RefsExist'
    <3>1. \A e \in Entities : home'[e] \in hostRows' \cup {Unset, Absent}
      BY <1>0, <2>1, <2>3 DEF RefsStand, RefsExist
    <3>2. \A b \in bindings' : Stored(b[1])' /\ Stored(b[2])'
      <4>1. \A b \in bindings : b[1] \in Entities /\ b[2] \in Entities
        BY <1>0 DEF InventoryTyped, Entities
      <4> QED
        BY <1>0, <2>1, <2>4, <4>1 DEF RefsStand, RefsExist, Stored
    <3>3. \A j \in tagged' : /\ j[1] \in hostRows' \/ Stored(j[1])'
                             /\ j[2] \in TagIds /\ tags'[j[2]] # Absent
      BY <1>0, <2>1, <2>3, <2>4 DEF RefsStand, Stored
    <3>4. \A t \in TagIds : tags'[t] # Absent =>
            tags'[t].owner \in hostRows' \cup {Unset} /\ tags'[t].color \in Colors
      BY <1>0, <2>1, <2>2, <2>3 DEF TagRow
    <3> QED
      BY <1>0, <2>1, <3>1, <3>2, <3>3, <3>4 DEF RefsStand, RefsExist, TagRows
  <2> QED
    BY <1>0, <2>1, <2>4, <2>5, <2>6 DEF RefsStand, Stored
<1> QED
  BY <1>1, <1>2, <1>3, <1>5, <1>6, <1>7 DEF RowChange

LEMMA RefsOfTagChange ==
  ASSUME RefsInv, Write, TagChange
  PROVE  RefsInv'
<1> USE InventoryAssumption, IdAssumption DEF RefsInv
<1>0. InventoryTyped /\ RefsStand /\ replacing = Unset
  BY DEF Write
<1>1. ASSUME NEW x, x \in hostRows \/ (x \in Entities /\ Stored(x)), NEW ts \in SUBSET TagRows,
             \A j \in tagged' : j \in tagged \/ j \in {x} \X ts,
             UNCHANGED <<hostRows, home, bindings, tags, ports>>,
             \/ replacing' = Unset
             \/ /\ replacing' \in [host : Hosts, tags : SUBSET TagIds]
                /\ replacing'.host \in hostRows /\ replacing'.tags \subseteq TagRows
      PROVE  RefsInv'
  <2>1. InventoryTyped'
    BY <1>0, <1>1 DEF InventoryTyped, TagRows
  <2>2. \A j \in tagged' : /\ j[2] \in TagRows
                           /\ j[1] \in hostRows \/ (j[1] \in Entities /\ Stored(j[1]))
    BY <1>0, <1>1 DEF RefsStand, RefsExist
  <2> QED
    BY <1>0, <1>1, <2>1, <2>2 DEF RefsStand, RefsExist, Stored, TagRows
<1>2. ASSUME NEW e \in Entities, NEW ts \in SUBSET TagIds, Stored(e), ReplaceTags(e, ts)
      PROVE  RefsInv'
  BY <1>0, <1>1, <1>2 DEF ReplaceTags
<1>3. ASSUME NEW h \in Hosts, NEW t \in TagIds, AddToHost(h, t)
      PROVE  RefsInv'
  <2>1. \A j \in tagged' : j \in tagged \/ j \in {h} \X {t}
    BY <1>3 DEF AddToHost
  <2> QED
    BY <1>0, <1>1, <1>3, <2>1 DEF AddToHost, HostExists
<1>4. ASSUME NEW s \in hostRows, NEW ts \in SUBSET TagIds, ConnectHostTagsReplace(s, ts)
      PROVE  RefsInv'
  <2>1. ts \subseteq TagRows
    BY <1>4 DEF ConnectHostTagsReplace, VisibleTags
  <2> QED
    BY <1>0, <1>1, <1>4, <2>1 DEF ConnectHostTagsReplace
<1>5. ASSUME NEW h \in Hosts, NEW ts \in SUBSET TagIds, ReplaceForHost(h, ts)
      PROVE  RefsInv'
  <2>1. /\ h \in hostRows /\ ts \subseteq TagRows
        /\ \A j \in tagged' : j \in tagged \/ j \in {h} \X {}
        /\ UNCHANGED <<hostRows, home, bindings, tags, ports>>
        /\ replacing' = Unset \/ replacing' = [host |-> h, tags |-> ts]
    BY <1>5 DEF ReplaceForHost, HostExists
  <2> QED
    BY <1>0, <1>1, <2>1
<1>6. ASSUME tagged' \subseteq tagged, ports' \subseteq ports \cup (hostRows \X Ports),
             UNCHANGED <<hostRows, home, bindings, tags, replacing>>
      PROVE  RefsInv'
  <2>1. InventoryTyped'
    BY <1>0, <1>6 DEF InventoryTyped
  <2> QED
    BY <1>0, <1>6, <2>1 DEF RefsStand, RefsExist, Stored, TagRows
<1>7. ASSUME NEW h \in Hosts, NEW t \in TagIds, RemoveFromHost(h, t)
      PROVE  RefsInv'
  BY <1>6, <1>7 DEF RemoveFromHost
<1>8. ASSUME NEW h \in Hosts, NEW p \in Ports, AddPort(h, p) \/ RemovePort(h, p)
      PROVE  RefsInv'
  BY <1>6, <1>8 DEF AddPort, RemovePort, HostExists
<1> QED
  BY <1>2, <1>3, <1>4, <1>5, <1>7, <1>8 DEF TagChange

LEMMA RefsInductive ==
  ASSUME RefsInv, [InventoryNext]_inventoryVars
  PROVE  RefsInv'
<1> USE InventoryAssumption, IdAssumption DEF RefsInv
<1>1. CASE ReplaceInserts
  <2>1. /\ replacing # Unset /\ replacing.host \in hostRows /\ replacing.tags \subseteq TagRows
        /\ \A j \in tagged' : j \in tagged \/ (j \in {replacing.host} \X replacing.tags)
        /\ replacing' = Unset
        /\ UNCHANGED <<hostRows, home, bindings, tags, ports>>
    BY <1>1 DEF ReplaceInserts, RefsStand
  <2>2. InventoryTyped'
    BY <2>1 DEF InventoryTyped, TagRows
  <2> QED
    BY <2>1, <2>2 DEF RefsStand, RefsExist, Stored, TagRows
<1>2. CASE ReplaceCut \/ UNCHANGED inventoryVars
  BY <1>2 DEF ReplaceCut, inventoryVars, InventoryTyped, RefsStand, RefsExist, Stored, TagRows
<1>3. ASSUME NEW h \in Hosts, PortsReported(h)
      PROVE  RefsInv'
  BY <1>3 DEF PortsReported, InventoryTyped, RefsStand, RefsExist, Stored, TagRows
<1> QED
  BY <1>1, <1>2, <1>3, RefsOfRowChange, RefsOfTagChange, MovesOfInventory DEF InventoryMoves

\* A set with room takes one more.
LEMMA RoomForAnother ==
  ASSUME NEW S, IsFiniteSet(S), NEW x, NEW T \in SUBSET (S \cup {x}),
         NEW n \in Nat, Cardinality(S) < n
  PROVE  Cardinality(T) <= n
<1>1. /\ IsFiniteSet(S \cup {x}) /\ Cardinality(S) \in Nat
      /\ Cardinality(S \cup {x}) = Cardinality(S) \/ Cardinality(S \cup {x}) = Cardinality(S) + 1
  BY FS_AddElement, FS_CardinalityType
<1>2. IsFiniteSet(T) /\ Cardinality(T) <= Cardinality(S \cup {x})
  BY <1>1, FS_Subset
<1>3. Cardinality(T) \in Nat
  BY <1>2, FS_CardinalityType
<1> QED
  BY <1>1, <1>2, <1>3

LEMMA FewerIsWithin ==
  ASSUME NEW S, IsFiniteSet(S), NEW T \in SUBSET S, NEW n \in Nat, Cardinality(S) <= n
  PROVE  Cardinality(T) <= n
<1>1. IsFiniteSet(T) /\ Cardinality(T) <= Cardinality(S)
  BY FS_Subset
<1>2. Cardinality(T) \in Nat /\ Cardinality(S) \in Nat
  BY <1>1, FS_CardinalityType
<1> QED
  BY <1>1, <1>2

LEMMA SetsFinite ==
  /\ \A x : IsFiniteSet(TagsOf(x))
  /\ \A h : IsFiniteSet(PortsOf(h))
  /\ \A ts \in SUBSET TagIds : IsFiniteSet(ts)
BY IdAssumption, FS_Subset DEF TagsOf, PortsOf

\* Limits hold after a step that adds to no set, or that writes a set within its limit.
LEMMA WithinLimits ==
  ASSUME InventoryLimits,
         \A x \in Hosts \cup Entities :
            TagsOf(x)' \subseteq TagsOf(x) \/ Cardinality(TagsOf(x)') <= MaxTags,
         \A h \in Hosts :
            PortsOf(h)' \subseteq PortsOf(h) \/ Cardinality(PortsOf(h)') <= MaxPorts
  PROVE  InventoryLimits'
<1>1. ASSUME NEW x \in Hosts \cup Entities, TagsOf(x)' \subseteq TagsOf(x)
      PROVE  Cardinality(TagsOf(x)') <= MaxTags
  <2>1. Cardinality(TagsOf(x)) <= MaxTags /\ MaxTags \in Nat
    BY InventoryAssumption DEF InventoryLimits
  <2> QED
    BY <1>1, <2>1, SetsFinite, FewerIsWithin
<1>2. ASSUME NEW h \in Hosts, PortsOf(h)' \subseteq PortsOf(h)
      PROVE  Cardinality(PortsOf(h)') <= MaxPorts
  <2>1. Cardinality(PortsOf(h)) <= MaxPorts /\ MaxPorts \in Nat
    BY InventoryAssumption DEF InventoryLimits
  <2> QED
    BY <1>2, <2>1, SetsFinite, FewerIsWithin
<1> QED
  BY <1>1, <1>2 DEF InventoryLimits

\* A set that a request writes is within the limit it was checked against.
LEMMA WrittenWithin ==
  ASSUME NEW ts \in SUBSET TagIds, Cardinality(ts) <= MaxTags, NEW x,
         TagsOf(x)' \subseteq ts
  PROVE  Cardinality(TagsOf(x)') <= MaxTags
BY InventoryAssumption, SetsFinite, FewerIsWithin

LEMMA LimitsOfRowChange ==
  ASSUME InventoryInv, Write, RowChange
  PROVE  LimitsStand'
<1>1. tagged' \subseteq tagged /\ ports' \subseteq ports /\ replacing' = Unset
  BY DEF RowChange, SetHome, DeleteEntityRow, InsertBinding, DeleteBinding, InsertTag, UpdateTag,
     DeleteTag, HostDeleted, Write
<1>2. InventoryLimits'
  BY <1>1, WithinLimits DEF InventoryInv, LimitsStand, TagsOf, PortsOf
<1> QED
  BY <1>1, <1>2 DEF LimitsStand

LEMMA LimitsOfTagChange ==
  ASSUME InventoryInv, Write, TagChange
  PROVE  LimitsStand'
<1>0. InventoryLimits /\ replacing = Unset
  BY DEF InventoryInv, LimitsStand, Write
<1>1. ASSUME NEW x, NEW ts \in SUBSET TagIds, Cardinality(ts) <= MaxTags,
             tagged' = {j \in tagged : j[1] # x} \cup ({x} \X ts),
             UNCHANGED <<ports, replacing>>
      PROVE  LimitsStand'
  <2>1. TagsOf(x)' \subseteq ts
    BY <1>1 DEF TagsOf
  <2>2. Cardinality(TagsOf(x)') <= MaxTags
    BY <1>1, <2>1, WrittenWithin
  <2>3. \A y : y # x => TagsOf(y)' \subseteq TagsOf(y)
    BY <1>1 DEF TagsOf
  <2>4. \A h : PortsOf(h)' \subseteq PortsOf(h)
    BY <1>1 DEF PortsOf
  <2>5. InventoryLimits'
    BY <1>0, <2>2, <2>3, <2>4, WithinLimits
  <2> QED
    BY <1>0, <1>1, <2>5 DEF LimitsStand
<1>2. ASSUME NEW h \in Hosts, NEW t \in TagIds, AddToHost(h, t)
      PROVE  LimitsStand'
  <2>1. /\ Cardinality(TagsOf(h)) < MaxTags
        /\ tagged' = tagged \cup {<<h, t>>}
        /\ UNCHANGED <<hostRows, home, bindings, tags, ports, replacing>>
    BY <1>2 DEF AddToHost
  <2>2. TagsOf(h)' \subseteq TagsOf(h) \cup {t}
    BY <2>1 DEF TagsOf
  <2>3. Cardinality(TagsOf(h)') <= MaxTags
    BY <2>1, <2>2, SetsFinite, RoomForAnother, InventoryAssumption
  <2>4. \A y : y # h => TagsOf(y)' \subseteq TagsOf(y)
    BY <2>1 DEF TagsOf
  <2>5. \A x : PortsOf(x)' \subseteq PortsOf(x)
    BY <2>1 DEF PortsOf
  <2>6. InventoryLimits'
    BY <1>0, <2>3, <2>4, <2>5, WithinLimits
  <2> QED
    BY <1>0, <2>1, <2>6 DEF LimitsStand
<1>3. ASSUME NEW h \in Hosts, NEW ts \in SUBSET TagIds, Cardinality(ts) <= MaxTags,
             ReplaceForHost(h, ts)
      PROVE  LimitsStand'
  <2>1. /\ tagged' = {j \in tagged : j[1] # h} /\ ports' = ports
        /\ replacing' = Unset \/ replacing' = [host |-> h, tags |-> ts]
    BY <1>3 DEF ReplaceForHost
  <2>2. InventoryLimits'
    BY <1>0, <2>1, WithinLimits DEF TagsOf, PortsOf
  <2>3. TagsOf(h)' = {}
    BY <2>1 DEF TagsOf
  <2> QED
    BY <1>3, <2>1, <2>2, <2>3 DEF LimitsStand, TagsOf
<1>4. ASSUME NEW h \in Hosts, NEW p \in Ports, AddPort(h, p)
      PROVE  LimitsStand'
  <2>1. /\ p \notin PortsOf(h) => Cardinality(PortsOf(h)) < MaxPorts
        /\ ports' = ports \cup {<<h, p>>}
        /\ UNCHANGED <<hostRows, home, bindings, tags, tagged, replacing>>
    BY <1>4 DEF AddPort
  <2>2. PortsOf(h)' \subseteq PortsOf(h) \cup {p}
    BY <2>1 DEF PortsOf
  <2>3. PortsOf(h)' \subseteq PortsOf(h) \/ Cardinality(PortsOf(h)') <= MaxPorts
    <3>1. CASE p \in PortsOf(h)
      BY <2>2, <3>1
    <3>2. CASE p \notin PortsOf(h)
      BY <2>1, <2>2, <3>2, SetsFinite, RoomForAnother, InventoryAssumption
    <3> QED
      BY <3>1, <3>2
  <2>4. \A y : y # h => PortsOf(y)' \subseteq PortsOf(y)
    BY <2>1 DEF PortsOf
  <2>5. \A x : TagsOf(x)' \subseteq TagsOf(x)
    BY <2>1 DEF TagsOf
  <2>6. InventoryLimits'
    BY <1>0, <2>3, <2>4, <2>5, WithinLimits
  <2> QED
    BY <1>0, <2>1, <2>6 DEF LimitsStand
<1>5. ASSUME tagged' \subseteq tagged, ports' \subseteq ports, UNCHANGED replacing
      PROVE  LimitsStand'
  <2>1. InventoryLimits'
    BY <1>0, <1>5, WithinLimits DEF TagsOf, PortsOf
  <2> QED
    BY <1>0, <1>5, <2>1 DEF LimitsStand
<1>6. ASSUME NEW e \in Entities, NEW ts \in SUBSET TagIds, Cardinality(ts) <= MaxTags,
             ReplaceTags(e, ts)
      PROVE  LimitsStand'
  BY <1>1, <1>6 DEF ReplaceTags
<1>7. ASSUME NEW s \in hostRows, NEW ts \in SUBSET TagIds, ConnectHostTagsReplace(s, ts)
      PROVE  LimitsStand'
  BY <1>1, <1>7 DEF ConnectHostTagsReplace
<1>8. ASSUME NEW h \in Hosts, (\E t \in TagIds : RemoveFromHost(h, t)) \/ (\E p \in Ports : RemovePort(h, p))
      PROVE  LimitsStand'
  BY <1>5, <1>8 DEF RemoveFromHost, RemovePort
<1> QED
  BY <1>2, <1>3, <1>4, <1>6, <1>7, <1>8 DEF TagChange

LEMMA LimitsInductive ==
  ASSUME InventoryInv, [InventoryNext]_inventoryVars
  PROVE  LimitsStand'
<1>0. InventoryLimits /\ LimitsStand
  BY DEF InventoryInv, LimitsStand
<1>1. CASE ReplaceInserts
  <2>1. PICK x, ts : x = replacing.host /\ ts = replacing.tags
    OBVIOUS
  <2>2. /\ tagged' = tagged \cup ({x} \X ts)
        /\ replacing' = Unset /\ ports' = ports /\ replacing # Unset
    BY <1>1, <2>1 DEF ReplaceInserts
  <2>3. ts \in SUBSET TagIds /\ Cardinality(ts) <= MaxTags /\ TagsOf(x) = {}
    BY <2>1, <2>2 DEF InventoryInv, RefsInv, InventoryTyped, LimitsStand
  <2>4. TagsOf(x)' \subseteq ts
    BY <2>2, <2>3 DEF TagsOf
  <2>5. Cardinality(TagsOf(x)') <= MaxTags
    BY <2>3, <2>4, WrittenWithin
  <2>6. /\ \A y : y # x => TagsOf(y)' \subseteq TagsOf(y)
        /\ \A h : PortsOf(h)' \subseteq PortsOf(h)
    BY <2>2 DEF TagsOf, PortsOf
  <2>7. InventoryLimits'
    BY <1>0, <2>5, <2>6, WithinLimits
  <2> QED
    BY <2>2, <2>7 DEF LimitsStand
<1>2. CASE UNCHANGED <<tagged, ports>> /\ replacing' \in {Unset, replacing}
  BY <1>0, <1>2 DEF LimitsStand, InventoryLimits, TagsOf, PortsOf
<1>3. ReplaceCut \/ (\E h \in Hosts : PortsReported(h)) \/ UNCHANGED inventoryVars
        => UNCHANGED <<tagged, ports>> /\ replacing' \in {Unset, replacing}
  BY DEF ReplaceCut, PortsReported, inventoryVars
<1> QED
  BY <1>1, <1>2, <1>3, LimitsOfRowChange, LimitsOfTagChange, MovesOfInventory DEF InventoryMoves

LEMMA InventoryInitially == InventoryInit => InventoryInv
<1> SUFFICES ASSUME InventoryInit PROVE InventoryInv
  OBVIOUS
<1>1. RefsInv
  BY InventoryAssumption
  DEF InventoryInit, RefsInv, InventoryTyped, RefsStand, RefsExist, TagRows, Stored
<1>2. /\ replacing = Unset /\ \A x : TagsOf(x) = {} /\ \A h : PortsOf(h) = {}
  BY DEF InventoryInit, TagsOf, PortsOf
<1>3. Cardinality({}) = 0
  BY FS_EmptySet
<1> QED
  BY <1>1, <1>2, <1>3, InventoryAssumption DEF InventoryInv, LimitsStand, InventoryLimits

LEMMA InventoryInductive == InventoryInv /\ [InventoryNext]_inventoryVars => InventoryInv'
BY RefsInductive, LimitsInductive DEF InventoryInv

\* For any hosts, agents, assets, tags and limits, every order of edits and deletions by three
\* callers, and replacements that stop half way: no reference dangles, no limit is passed.
THEOREM InventoryStaysSound == InventorySpec => []InventorySound
<1>1. InventoryInv => InventorySound
  BY DEF InventoryInv, RefsInv, RefsStand, LimitsStand, InventorySound
<1> QED
  BY <1>1, InventoryInitially, InventoryInductive, PTL DEF InventorySpec

-----------------------------------------------------------------------------
(* A Connect token keeps to its server.                                    *)

\* What leaves a whole table alone changes nothing of anybody there.
LEMMA UnchangedIsKept ==
  ASSUME NEW s
  PROVE  /\ UNCHANGED <<home, bindings>> => OthersEntitiesKept(s)
         /\ UNCHANGED <<tagged, tags, ports>> => OthersTagsKept(s)
BY DEF OthersEntitiesKept, OthersTagsKept, Changed

\* What is written on the server itself or on a thing of it.
LEMMA OwnTagsChange ==
  ASSUME NEW s, NEW x, OfServer(s, x), UNCHANGED <<tags, ports>>,
         \A j : j \in tagged \/ j \in tagged' => (j \in tagged <=> j \in tagged') \/ j[1] = x
  PROVE  OthersTagsKept(s)
BY DEF OthersTagsKept, Changed

LEMMA EntityOpsKeep ==
  ASSUME RefsInv, NEW s \in Hosts, s \in hostRows, NEW e \in Entities,
         \/ ConnectUpdate(s, e)
         \/ ConnectDelete(s, e)
         \/ \E ts \in SUBSET TagIds : ConnectEntityTags(s, e, ts)
  PROVE  OthersEntitiesKept(s) /\ OthersTagsKept(s)
<1>0. InventoryTyped /\ home[e] = s /\ OfServer(s, e)
  BY DEF RefsInv, ConnectUpdate, ConnectDelete, ConnectEntityTags, RequireEntity, OfServer
<1>1. CASE ConnectUpdate(s, e)
  <2>1. home' = [home EXCEPT ![e] = @] /\ UNCHANGED <<hostRows, bindings, tags, tagged, ports, replacing>>
    BY <1>1 DEF ConnectUpdate, SetHome
  <2>2. home' = home
    BY <1>0, <2>1 DEF InventoryTyped
  <2> QED
    BY <2>1, <2>2, UnchangedIsKept
<1>2. CASE ConnectDelete(s, e)
  <2>1. /\ home' = [home EXCEPT ![e] = Absent]
        /\ bindings' = {b \in bindings : e \notin {b[1], b[2]}}
        /\ tagged' = {j \in tagged : j[1] # e}
        /\ UNCHANGED <<hostRows, tags, ports, replacing>>
    BY <1>2 DEF ConnectDelete, DeleteEntityRow
  <2>2. \A x \in Entities : x # e => home'[x] = home[x]
    BY <1>0, <2>1 DEF InventoryTyped
  <2>3. ASSUME NEW b \in bindings, e \in {b[1], b[2]}
        PROVE  home[b[1]] = s /\ home[b[2]] = s
    <3>1. home[IF b[1] = e THEN b[2] ELSE b[1]] = s
      BY <1>2, <2>3 DEF ConnectDelete, Unshared
    <3> QED
      BY <1>0, <2>3, <3>1
  <2>4. OthersEntitiesKept(s)
    BY <1>0, <2>1, <2>2, <2>3 DEF OthersEntitiesKept, Changed
  <2>5. OthersTagsKept(s)
    BY <1>0, <2>1, OwnTagsChange
  <2> QED
    BY <2>4, <2>5
<1>3. ASSUME NEW ts \in SUBSET TagIds, ConnectEntityTags(s, e, ts)
      PROVE  OthersEntitiesKept(s) /\ OthersTagsKept(s)
  <2>1. /\ tagged' = {j \in tagged : j[1] # e} \cup ({e} \X ts)
        /\ UNCHANGED <<hostRows, home, bindings, tags, ports, replacing>>
    BY <1>3 DEF ConnectEntityTags, ReplaceTags
  <2>2. OthersTagsKept(s)
    BY <1>0, <2>1, OwnTagsChange
  <2> QED
    BY <2>1, <2>2, UnchangedIsKept
<1> QED
  BY <1>1, <1>2, <1>3

LEMMA CreationsKeep ==
  ASSUME RefsInv, NEW s \in Hosts,
         \/ \E g \in AgentIds : ConnectAgentsCreate(s, g)
         \/ \E a \in AssetIds : ConnectAssetsCreate(s, a)
  PROVE  OthersEntitiesKept(s) /\ OthersTagsKept(s)
<1>1. PICK e \in Entities : SetHome(e, s) /\ home[e] \in {Absent, s}
  BY DEF ConnectAgentsCreate, ConnectAssetsCreate, SourceFree, Stored, Entities
<1>2. /\ home' = [home EXCEPT ![e] = IF s = Kept THEN @ ELSE s]
      /\ UNCHANGED <<hostRows, bindings, tags, tagged, ports, replacing>>
  BY <1>1 DEF SetHome
<1>3. \A x \in Entities : x # e => home'[x] = home[x]
  BY <1>2 DEF RefsInv, InventoryTyped
<1>4. OthersEntitiesKept(s)
  BY <1>1, <1>2, <1>3 DEF OthersEntitiesKept, Changed
<1> QED
  BY <1>2, <1>4, UnchangedIsKept

LEMMA BindingsKeep ==
  ASSUME NEW s \in Hosts, NEW g \in AgentIds, NEW a \in AssetIds,
         ConnectBindingsCreate(s, g, a) \/ ConnectBindingsDelete(s, g, a)
  PROVE  OthersEntitiesKept(s) /\ OthersTagsKept(s)
<1>1. /\ home[g] = s /\ home[a] = s
      /\ UNCHANGED <<hostRows, home, tags, tagged, ports, replacing>>
      /\ bindings' = bindings \cup {<<g, a>>} \/ bindings' = bindings \ {<<g, a>>}
  BY DEF ConnectBindingsCreate, ConnectBindingsDelete, RequireEntity, InsertBinding, DeleteBinding
<1>2. \A b \in Changed(bindings, bindings') : b = <<g, a>>
  BY <1>1 DEF Changed
<1>3. OthersEntitiesKept(s)
  BY <1>1, <1>2 DEF OthersEntitiesKept
<1> QED
  BY <1>1, <1>3, UnchangedIsKept

LEMMA TagOpsKeep ==
  ASSUME RefsInv, NEW s \in Hosts, NEW t \in TagIds,
         \/ \E c \in Colors : ConnectTagsCreate(s, t, c) \/ ConnectTagsUpdate(s, t, c)
         \/ ConnectTagsDelete(s, t)
  PROVE  OthersEntitiesKept(s) /\ OthersTagsKept(s)
<1>0. /\ tags \in [TagIds -> TagRow \cup {Absent}]
      /\ \A j \in tagged : j[2] \in TagRows
      /\ UNCHANGED <<home, bindings, ports>>
  BY DEF RefsInv, InventoryTyped, RefsStand, RefsExist, ConnectTagsCreate, ConnectTagsUpdate,
     ConnectTagsDelete, InsertTag, UpdateTag, DeleteTag
<1>1. \A u \in TagIds : u # t => tags'[u] = tags[u]
  BY <1>0 DEF ConnectTagsCreate, ConnectTagsUpdate, ConnectTagsDelete, InsertTag, UpdateTag, DeleteTag
<1>2. \A j \in Changed(tagged, tagged') : j \in tagged /\ j[2] = t /\ WritableTag(s, t)
  BY DEF Changed, ConnectTagsCreate, ConnectTagsUpdate, ConnectTagsDelete, InsertTag, UpdateTag,
     DeleteTag
<1>3. \/ t \notin TagRows /\ tagged' = tagged
      \/ WritableTag(s, t) /\ tagged' \subseteq tagged
  BY DEF ConnectTagsCreate, ConnectTagsUpdate, ConnectTagsDelete, InsertTag, UpdateTag, DeleteTag
<1>4. WritableTag(s, t) => \A j \in tagged : j[2] = t => OfServer(s, j[1])
  BY DEF WritableTag, OfServer
<1>5. t \in TagRows => tags[t].owner = s
  BY <1>3 DEF WritableTag
<1>6. \A j \in tagged \cup tagged' : j[2] = t => OfServer(s, j[1])
  BY <1>0, <1>3, <1>4
<1>7. OthersTagsKept(s)
  BY <1>0, <1>1, <1>2, <1>4, <1>5, <1>6 DEF OthersTagsKept, Changed
<1> QED
  BY <1>0, <1>7, UnchangedIsKept

LEMMA HostOpsKeep ==
  ASSUME NEW s \in Hosts,
         \/ \E t \in TagIds : ConnectHostTagsAdd(s, t) \/ ConnectHostTagsRemove(s, t)
         \/ \E ts \in SUBSET TagIds : ConnectHostTagsReplace(s, ts)
         \/ \E p \in Ports : ConnectPortsAdd(s, p) \/ ConnectPortsDelete(s, p)
  PROVE  OthersEntitiesKept(s) /\ OthersTagsKept(s)
<1>1. OfServer(s, s)
  BY DEF OfServer
<1>2. ASSUME NEW t \in TagIds, ConnectHostTagsAdd(s, t) \/ ConnectHostTagsRemove(s, t)
      PROVE  OthersEntitiesKept(s) /\ OthersTagsKept(s)
  <2>1. /\ UNCHANGED <<home, bindings, tags, ports>>
        /\ tagged' = tagged \cup {<<s, t>>} \/ tagged' = tagged \ {<<s, t>>}
    BY <1>2 DEF ConnectHostTagsAdd, ConnectHostTagsRemove, AddToHost, RemoveFromHost
  <2>2. OthersTagsKept(s)
    BY <1>1, <2>1, OwnTagsChange
  <2> QED
    BY <2>1, <2>2, UnchangedIsKept
<1>3. ASSUME NEW ts \in SUBSET TagIds, ConnectHostTagsReplace(s, ts)
      PROVE  OthersEntitiesKept(s) /\ OthersTagsKept(s)
  <2>1. /\ UNCHANGED <<home, bindings, tags, ports>>
        /\ tagged' = {j \in tagged : j[1] # s} \cup ({s} \X ts)
    BY <1>3 DEF ConnectHostTagsReplace
  <2>2. OthersTagsKept(s)
    BY <1>1, <2>1, OwnTagsChange
  <2> QED
    BY <2>1, <2>2, UnchangedIsKept
<1>4. ASSUME NEW p \in Ports, ConnectPortsAdd(s, p) \/ ConnectPortsDelete(s, p)
      PROVE  OthersEntitiesKept(s) /\ OthersTagsKept(s)
  <2>1. /\ UNCHANGED <<home, bindings, tags, tagged>>
        /\ ports' = ports \cup {<<s, p>>} \/ ports' = ports \ {<<s, p>>}
    BY <1>4 DEF ConnectPortsAdd, ConnectPortsDelete, AddPort, RemovePort
  <2>2. OthersTagsKept(s)
    BY <2>1 DEF OthersTagsKept, Changed
  <2> QED
    BY <2>1, <2>2, UnchangedIsKept
<1> QED
  BY <1>2, <1>3, <1>4

\* Whatever a Connect token of a server writes: the agents, assets, bindings, tags and ports of
\* the others stay as they are.
THEOREM TokensKeepToServer == InventorySpec => ConnectKeepsToServer
<1>1. ASSUME InventoryInv, NEW s \in Hosts, ConnectWrite(s)
      PROVE  OthersEntitiesKept(s) /\ OthersTagsKept(s)
  <2>1. RefsInv /\ s \in hostRows
    BY <1>1 DEF InventoryInv, ConnectWrite, HostExists
  <2> QED
    BY <1>1, <2>1, EntityOpsKeep, CreationsKeep, BindingsKeep, TagOpsKeep, HostOpsKeep
    DEF ConnectWrite
<1>2. InventoryInv =>
        [\A s \in Hosts : (OthersEntitiesKept(s) /\ OthersTagsKept(s)) \/ ~ConnectWrite(s)]_inventoryVars
  BY <1>1
<1> QED
  BY <1>2, InventoryInitially, InventoryInductive, PTL DEF InventorySpec, ConnectKeepsToServer
=============================================================================
