-------------------------- MODULE AlertPlaneProofs --------------------------
(***************************************************************************)
(* Proofs about what goes out about hosts: the events of their webhooks,   *)
(* and the answers of the read APIs.  Those about alerts are in            *)
(* HostAlertsProofs.                                                       *)
(***************************************************************************)
EXTENDS WebhookEvents, DashboardViews, FiniteSetTheorems, WellFoundedInduction, TLAPS

-----------------------------------------------------------------------------
(***************************************************************************)
(* WebhookEvents, for any senders, addresses, rate limit and page size.    *)
(***************************************************************************)

(* Type correctness.                                                       *)

Reader == [after : Nat, seen : SUBSET Nat, begun : SUBSET Event, done : BOOLEAN]

HookTyped ==
    /\ WebhookTypeOK
    /\ delivery \in [Deliverers -> Delivery \cup {NoHook}]
    /\ IsFiniteSet(events)
    /\ reader # NoHook => reader \in Reader

\* What a step of d makes of its request: nothing, or one that is further on its way.
LEMMA RequestTyped ==
  ASSUME HookTyped, NEW d \in Deliverers, delivery[d] # NoHook
  PROVE  /\ delivery[d] \in Delivery
         /\ \A step \in {"address", "quota", "insert"} : [delivery[d] EXCEPT !.step = step] \in Delivery
         /\ \A id \in Nat : [delivery[d] EXCEPT !.step = "address", !.config = id] \in Delivery
         /\ \A m \in Minutes : [delivery[d] EXCEPT !.step = "quota", !.at = m] \in Delivery
<1>1. delivery[d] \in Delivery
  BY DEF HookTyped
<1> QED
  BY <1>1 DEF Delivery

LEMMA AppendTyped ==
  ASSUME HookTyped, NEW cfg \in Nat, NEW at \in Minutes, NEW in \in Nat, Append1(cfg, at, in)
  PROVE  events' \subseteq Event /\ IsFiniteSet(events') /\ lastEvent' \in Nat
<1>1. lastEvent' \in Nat
  BY DEF Append1, HookTyped, WebhookTypeOK
<1>2. [id |-> lastEvent', config |-> cfg, created |-> at, life |-> in] \in Event
  BY <1>1 DEF Event
<1> QED
  BY <1>1, <1>2, FS_AddElement DEF Append1, HookTyped, WebhookTypeOK

Untied(e) == [e EXCEPT !.config = IF @ = config.id THEN 0 ELSE @]

LEMMA UntiedTyped ==
  ASSUME HookTyped, NEW e \in events
  PROVE  Untied(e) \in Event /\ Untied(e).id = e.id /\ Untied(e).life = e.life
<1>1. e \in Event
  BY DEF HookTyped, WebhookTypeOK
<1> QED
  BY <1>1 DEF Untied, Event

LEMMA FiniteUntied ==
  ASSUME HookTyped
  PROVE  IsFiniteSet({Untied(e) : e \in events})
<1> DEFINE T == {Untied(e) : e \in events}
           f == [e \in events |-> Untied(e)]
<1>1. f \in Surjection(events, T)
  BY DEF Surjection
<1> HIDE DEF f, T
<1>2. IsFiniteSet(T)
  BY <1>1, FS_Surjection DEF HookTyped
<1> QED
  BY <1>2 DEF T

-----------------------------------------------------------------------------
(* Pages.                                                                  *)

\* A set of natural numbers has a least member; one that is bounded has a greatest.
LEMMA LeastOfNats ==
  ASSUME NEW T \in SUBSET Nat, T # {}
  PROVE  \E x \in T : \A y \in T : x <= y
<1> DEFINE R == OpToRel(<, Nat)
<1>1. IsWellFoundedOn(R, Nat)
  BY NatLessThanWellFounded
<1>2. \A x \in T, y \in T : y < x => <<y, x>> \in R
  BY DEF OpToRel
<1> HIDE DEF R
<1>3. PICK x \in T : \A y \in T : ~(<<y, x>> \in R)
  BY <1>1, WFMin
<1>4. \A y \in T : ~(y < x)
  BY <1>2, <1>3
<1>5. \A y \in T : x <= y
  BY <1>4
<1> QED
  BY <1>5

LEMMA MaxOfNats ==
  ASSUME NEW T \in SUBSET Nat, T # {}, NEW n \in Nat, \A x \in T : x <= n
  PROVE  Max(T) \in T /\ \A x \in T : x <= Max(T)
<1> DEFINE D == {n - x : x \in T}
<1>0. \A x \in T : n - x \in Nat
  OBVIOUS
<1>1. D \in SUBSET Nat /\ D # {}
  BY <1>0
<1>2. PICK g \in D : \A y \in D : g <= y
  BY <1>1, LeastOfNats
<1>3. PICK m \in T : g = n - m
  BY <1>2
<1>4. \A x \in T : m >= x
  <2> SUFFICES ASSUME NEW x \in T PROVE m >= x
    OBVIOUS
  <2>1. n - m <= n - x
    BY <1>2, <1>3
  <2> QED
    BY <2>1
<1>5. Max(T) \in T /\ \A x \in T : Max(T) >= x
  BY <1>3, <1>4 DEF Max
<1> QED
  BY <1>5

\* The first events after an id: with an event all that have a lower id belong to the page
\* and to what is returned of it, and a page that is not full holds them all.
Before(e, after) == {o \in events : o.id > after /\ o.id < e.id}

\* The ids that AUTOINCREMENT has given out.
IdsGiven == \A e \in events : e.id \in 1..lastEvent

LEMMA CursorIs ==
  ASSUME HookTyped, IdsGiven, reader \in Reader,
         NEW rows, rows = EventsPage(reader.after, PageSize + 1)
  PROVE  /\ CursorAfter(rows) \in Nat
         /\ \A e \in PageCut(rows) : e.id <= CursorAfter(rows)
         /\ CursorAfter(rows) = reader.after \/ \E e \in PageCut(rows) : e.id = CursorAfter(rows)
<1> DEFINE T == {reader.after} \cup {e.id : e \in PageCut(rows)}
           n == reader.after + lastEvent
<1>1. reader.after \in Nat /\ lastEvent \in Nat
  BY DEF Reader, HookTyped, WebhookTypeOK
<1>2. \A e \in PageCut(rows) : e \in events /\ e.id \in 1..lastEvent
  BY DEF PageCut, EventsPage, IdsGiven
<1>3. T \in SUBSET Nat /\ T # {} /\ n \in Nat /\ \A x \in T : x <= n
  BY <1>1, <1>2
<1>4. Max(T) \in T /\ \A x \in T : x <= Max(T)
  BY <1>3, MaxOfNats
<1>5. CursorAfter(rows) = Max(T)
  BY DEF CursorAfter
<1> QED
  BY <1>3, <1>4, <1>5

LEMMA FewerBefore ==
  ASSUME HookTyped, NEW S \in SUBSET events, NEW T \in SUBSET S
  PROVE  Cardinality(T) \in Nat /\ Cardinality(S) \in Nat /\ Cardinality(T) <= Cardinality(S)
<1>1. IsFiniteSet(S)
  BY FS_Subset DEF HookTyped
<1>2. IsFiniteSet(T) /\ Cardinality(T) <= Cardinality(S)
  BY <1>1, FS_Subset
<1> QED
  BY <1>1, <1>2, FS_CardinalityType

\* What is returned are the events up to the new cursor.
LEMMA PageReturnsAll ==
  ASSUME HookTyped, IdsGiven, reader \in Reader,
         NEW rows, rows = EventsPage(reader.after, PageSize + 1),
         NEW e \in events, e.id > reader.after, e.id <= CursorAfter(rows)
  PROVE  e \in PageCut(rows)
<1>0. /\ reader.after \in Nat /\ e.id \in Nat /\ PageSize \in Nat
      /\ \A o \in events : o.id \in Nat
  BY WebhookAssumption DEF Reader, IdsGiven
<1>1. PICK c \in PageCut(rows) : c.id = CursorAfter(rows)
  BY <1>0, CursorIs
<1>2. /\ c \in rows /\ c \in events
      /\ Cardinality(Before(c, reader.after)) < PageSize + 1
      /\ Cardinality({o \in rows : o.id < c.id}) < PageSize
  BY <1>1 DEF PageCut, EventsPage, Before
<1>3. Cardinality(Before(e, reader.after)) <= Cardinality(Before(c, reader.after))
  <2>1. Before(e, reader.after) \subseteq Before(c, reader.after)
    BY <1>0, <1>1, <1>2 DEF Before
  <2>2. Before(c, reader.after) \subseteq events
    BY DEF Before
  <2> QED
    BY <2>1, <2>2, FewerBefore
<1>4. Before(e, reader.after) \subseteq events /\ Before(c, reader.after) \subseteq events
  BY DEF Before
<1>5. Cardinality(Before(e, reader.after)) \in Nat /\ Cardinality(Before(c, reader.after)) \in Nat
  BY <1>4, FewerBefore
<1>6. e \in rows
  <2>1. Cardinality(Before(e, reader.after)) < PageSize + 1
    BY <1>0, <1>2, <1>3, <1>5
  <2> QED
    BY <2>1 DEF EventsPage, Before
<1>7. rows \subseteq events
  BY DEF EventsPage
<1>8. {o \in rows : o.id < e.id} \subseteq {o \in rows : o.id < c.id}
  BY <1>0, <1>1, <1>2, <1>7
<1>9. /\ Cardinality({o \in rows : o.id < e.id}) \in Nat
      /\ Cardinality({o \in rows : o.id < c.id}) \in Nat
      /\ Cardinality({o \in rows : o.id < e.id}) <= Cardinality({o \in rows : o.id < c.id})
  <2>1. {o \in rows : o.id < c.id} \subseteq events
    BY <1>7
  <2> QED
    BY <1>8, <2>1, FewerBefore
<1>10. Cardinality({o \in rows : o.id < e.id}) < PageSize
  BY <1>0, <1>2, <1>9
<1> QED
  BY <1>6, <1>10 DEF PageCut

\* A page with room left has everything after the cursor.
LEMMA LastPageIsWhole ==
  ASSUME HookTyped, IdsGiven, reader \in Reader,
         NEW rows, rows = EventsPage(reader.after, PageSize + 1), Cardinality(rows) <= PageSize,
         NEW e \in events, e.id > reader.after
  PROVE  e \in PageCut(rows)
<1>0. /\ reader.after \in Nat /\ e.id \in Nat /\ PageSize \in Nat
      /\ \A o \in events : o.id \in Nat
      /\ rows \subseteq events
  BY WebhookAssumption DEF Reader, IdsGiven, EventsPage
<1>1. e \in rows
  <2> SUFFICES ASSUME e \notin rows PROVE FALSE
    OBVIOUS
  <2> DEFINE missing == {o \in events : o.id > reader.after /\ o \notin rows}
             M == {o.id : o \in missing}
  <2>1. M \in SUBSET Nat /\ M # {}
    BY <1>0
  <2>2. PICK least \in M : \A x \in M : least <= x
    BY <2>1, LeastOfNats
  <2>3. PICK f \in missing : f.id = least
    BY <2>2
  <2>4. Before(f, reader.after) \subseteq rows
    <3> SUFFICES ASSUME NEW o \in events, o.id > reader.after, o.id < f.id PROVE o \in rows
      BY DEF Before
    <3>1. ~(f.id <= o.id)
      BY <1>0, <2>3
    <3>2. o.id \notin M
      BY <2>2, <2>3, <3>1
    <3> QED
      BY <3>2
  <2>5. /\ Cardinality(Before(f, reader.after)) \in Nat /\ Cardinality(rows) \in Nat
        /\ Cardinality(Before(f, reader.after)) <= Cardinality(rows)
    BY <1>0, <2>4, FewerBefore
  <2>6. Cardinality(Before(f, reader.after)) < PageSize + 1
    BY <1>0, <2>5
  <2>7. f \in rows
    BY <2>3, <2>6 DEF EventsPage, Before
  <2> QED
    BY <2>3, <2>7
<1>2. Cardinality({o \in rows : o.id < e.id}) < PageSize
  <2> DEFINE lower == {o \in rows : o.id < e.id}
  <2>1. lower \subseteq rows \ {e} /\ rows \ {e} \subseteq events
    BY <1>0
  <2>2. IsFiniteSet(rows)
    BY <1>0, FS_Subset DEF HookTyped
  <2>3. Cardinality(rows \ {e}) = Cardinality(rows) - 1 /\ Cardinality(rows) \in Nat
    BY <1>1, <2>2, FS_RemoveElement, FS_CardinalityType
  <2>4. Cardinality(lower) \in Nat /\ Cardinality(lower) <= Cardinality(rows \ {e})
    BY <2>1, FewerBefore
  <2> HIDE DEF lower
  <2>5. Cardinality(lower) < PageSize
    BY <1>0, <2>3, <2>4
  <2> QED
    BY <2>5 DEF lower
<1> QED
  BY <1>1, <1>2 DEF PageCut

-----------------------------------------------------------------------------

LEMMA TypeStep == HookTyped /\ IdsGiven /\ [WebhookNext]_webhookVars => HookTyped'
<1> SUFFICES ASSUME HookTyped, IdsGiven, [WebhookNext]_webhookVars PROVE HookTyped'
  OBVIOUS
<1>0. /\ WebhookTypeOK /\ IsFiniteSet(events) /\ delivery \in [Deliverers -> Delivery \cup {NoHook}]
      /\ reader # NoHook => reader \in Reader
  BY DEF HookTyped
<1> USE DEF hookRows, hookCounters, hookHistory
<1>1. ASSUME NEW d \in Deliverers, NEW t \in 1..TokenLimit, NEW a \in Addresses, PostEvent(d, t, a)
      PROVE  HookTyped'
  <2> DEFINE floor == IF config = NoHook THEN 0 ELSE config.token
             post == [step |-> "lookup", token |-> t, source |-> a, config |-> 0, at |-> hookMinute,
                      life |-> life, floor |-> floor]
  <2>1. t \in Nat /\ floor \in Nat /\ life \in Nat /\ hookMinute \in Minutes
    BY <1>0, <1>1 DEF PostEvent, WebhookTypeOK, Config
  <2> HIDE DEF floor
  <2>2. post \in Delivery
    BY <2>1 DEF Delivery
  <2> HIDE DEF post
  <2>3. delivery' = [delivery EXCEPT ![d] = post] /\ sent' = sent + 1
    BY <1>1 DEF PostEvent, post, floor
  <2>4. delivery' \in [Deliverers -> Delivery \cup {NoHook}] /\ sent' \in Nat
    BY <1>0, <2>2, <2>3 DEF WebhookTypeOK
  <2> QED
    BY <1>0, <1>1, <2>4 DEF PostEvent, HookTyped, WebhookTypeOK
<1>2. ASSUME NEW d \in Deliverers, FindActiveWebhookByToken(d) \/ GetHostPublicIp(d) \/ LoseDelivery(d)
      PROVE  HookTyped'
  <2>1. delivery[d] # NoHook
    BY <1>2 DEF FindActiveWebhookByToken, GetHostPublicIp, LoseDelivery
  <2>2. \/ config \in Config /\ delivery' = [delivery EXCEPT ![d].step = "address", ![d].config = config.id]
        \/ delivery' = [delivery EXCEPT ![d].step = "quota", ![d].at = hookMinute]
        \/ Drop(d)
    BY <1>0, <1>2 DEF FindActiveWebhookByToken, GetHostPublicIp, LoseDelivery, WebhookTypeOK
  <2>3. \E new \in Delivery \cup {NoHook} : delivery' = [delivery EXCEPT ![d] = new]
    <3>1. CASE config \in Config /\ delivery' = [delivery EXCEPT ![d].step = "address", ![d].config = config.id]
      <4>1. [delivery[d] EXCEPT !.step = "address", !.config = config.id] \in Delivery
        BY <2>1, <3>1, RequestTyped DEF Config
      <4>2. delivery' = [delivery EXCEPT ![d] = [delivery[d] EXCEPT !.step = "address", !.config = config.id]]
        BY <1>0, <3>1
      <4> QED
        BY <4>1, <4>2
    <3>2. CASE delivery' = [delivery EXCEPT ![d].step = "quota", ![d].at = hookMinute]
      <4>1. [delivery[d] EXCEPT !.step = "quota", !.at = hookMinute] \in Delivery
        BY <1>0, <2>1, RequestTyped DEF WebhookTypeOK
      <4>2. delivery' = [delivery EXCEPT ![d] = [delivery[d] EXCEPT !.step = "quota", !.at = hookMinute]]
        BY <1>0, <3>2
      <4> QED
        BY <4>1, <4>2
    <3>3. CASE Drop(d)
      BY <3>3 DEF Drop
    <3> QED
      BY <2>2, <3>1, <3>2, <3>3
  <2>4. delivery' \in [Deliverers -> Delivery \cup {NoHook}]
    BY <1>0, <2>3
  <2> QED
    BY <1>0, <1>2, <2>4 DEF FindActiveWebhookByToken, GetHostPublicIp, LoseDelivery, HookTyped,
       WebhookTypeOK
<1>3. ASSUME NEW d \in Deliverers, CheckRateLimit(d)
      PROVE  HookTyped'
  <2>1. delivery[d] # NoHook /\ delivery[d].at \in Minutes
    BY <1>0, <1>3 DEF CheckRateLimit, Delivery
  <2>2. [delivery[d] EXCEPT !.step = "insert"] \in Delivery
    BY <2>1, RequestTyped
  <2>3. delivery' = [delivery EXCEPT ![d] = [delivery[d] EXCEPT !.step = "insert"]] \/ Drop(d)
    BY <1>0, <1>3 DEF CheckRateLimit, Reach
  <2>4. delivery' \in [Deliverers -> Delivery \cup {NoHook}]
    BY <1>0, <2>2, <2>3 DEF Drop
  <2>5. /\ config' = NoHook \/ config' \in Config
        /\ regressions' \in Nat /\ admitted' \in [Minutes -> Nat]
    <3>1. CASE config # NoHook /\ config.id = delivery[d].config
      <4>1. config \in Config /\ CountOf(d) \in Nat
        BY <1>0, <3>1 DEF WebhookTypeOK, Config, CountOf
      <4>2. config' \in Config
        BY <1>3, <2>1, <3>1, <4>1 DEF CheckRateLimit, Config
      <4>3. regressions' \in {regressions, regressions + 1}
        BY <1>0, <1>3, <3>1 DEF CheckRateLimit, WebhookTypeOK
      <4>4. admitted' = admitted \/ admitted' = [admitted EXCEPT ![delivery[d].at] = @ + 1]
        BY <1>3, <3>1 DEF CheckRateLimit
      <4> QED
        BY <1>0, <2>1, <4>2, <4>3, <4>4 DEF WebhookTypeOK
    <3>2. CASE ~(config # NoHook /\ config.id = delivery[d].config)
      BY <1>0, <1>3, <3>2 DEF CheckRateLimit, WebhookTypeOK
    <3> QED
      BY <3>1, <3>2
  <2> QED
    BY <1>0, <1>3, <2>4, <2>5 DEF CheckRateLimit, HookTyped, WebhookTypeOK
<1>4. ASSUME NEW d \in Deliverers, InsertEvent(d)
      PROVE  HookTyped'
  <2>1. delivery[d] # NoHook /\ Drop(d)
    BY <1>4 DEF InsertEvent
  <2>2. delivery[d].config \in Nat /\ delivery[d].at \in Minutes /\ delivery[d].life \in Nat
    BY <2>1, RequestTyped DEF Delivery
  <2>3. events' \subseteq Event /\ IsFiniteSet(events') /\ lastEvent' \in Nat
    BY <1>0, <1>4, <2>2, AppendTyped DEF InsertEvent, WebhookTypeOK
  <2>4. delivery' \in [Deliverers -> Delivery \cup {NoHook}]
    BY <1>0, <2>1 DEF Drop
  <2> QED
    BY <1>0, <1>4, <2>3, <2>4 DEF InsertEvent, HookTyped, WebhookTypeOK
<1>5. CASE AppendEvent
  <2>1. events' \subseteq Event /\ IsFiniteSet(events') /\ lastEvent' \in Nat
    BY <1>0, <1>5, AppendTyped DEF AppendEvent, WebhookTypeOK
  <2> QED
    BY <1>0, <1>5, <2>1 DEF AppendEvent, HookTyped, WebhookTypeOK
<1>6. CASE CreateWebhook \/ RegenerateToken
  <2>1. /\ config' \in Config /\ lastId' \in Nat /\ regressions' \in Nat
        /\ admitted' \in [Minutes -> Nat]
    <3>1. lastId' = lastId + 1 /\ lastId' \in Nat /\ 0 \in Minutes
      BY <1>0, <1>6, WebhookAssumption DEF CreateWebhook, RegenerateToken, WebhookTypeOK, Minutes
    <3>2. CASE CreateWebhook
      BY <3>1, <3>2 DEF CreateWebhook, Config
    <3>3. CASE RegenerateToken
      <4>1. config \in Config /\ config' = [config EXCEPT !.token = lastId']
        BY <1>0, <3>3 DEF RegenerateToken, WebhookTypeOK
      <4> QED
        BY <1>0, <3>1, <3>3, <4>1 DEF RegenerateToken, Config, WebhookTypeOK
    <3> QED
      BY <1>6, <3>2, <3>3
  <2> QED
    BY <1>0, <1>6, <2>1 DEF CreateWebhook, RegenerateToken, HookTyped, WebhookTypeOK
<1>7. CASE DeleteWebhook
  <2>1. events' = {Untied(e) : e \in events}
    BY <1>7 DEF DeleteWebhook, Untied
  <2>2. events' \subseteq Event /\ IsFiniteSet(events')
    BY <2>1, UntiedTyped, FiniteUntied
  <2> QED
    BY <1>0, <1>7, <2>2 DEF DeleteWebhook, HookTyped, WebhookTypeOK
<1>8. CASE CascadeHost
  <2>1. events' \subseteq Event /\ IsFiniteSet(events') /\ life' \in Nat /\ config' = NoHook
        /\ hostRow' \in BOOLEAN /\ publicIp' = NoHook
    <3>1. IsFiniteSet({})
      BY FS_EmptySet
    <3>2. /\ events' = {} /\ life' = life + 1 /\ config' = NoHook /\ hostRow' = FALSE
          /\ publicIp' = NoHook
      BY <1>8 DEF CascadeHost
    <3>3. life \in Nat
      BY <1>0 DEF WebhookTypeOK
    <3>4. hostRow' \in BOOLEAN
      BY <3>2, Zenon
    <3>5. events' \subseteq Event /\ IsFiniteSet(events') /\ life' \in Nat
      BY <3>1, <3>2, <3>3
    <3> QED
      BY <3>2, <3>4, <3>5
  <2> QED
    BY <1>0, <1>8, <2>1 DEF CascadeHost, HookTyped, WebhookTypeOK
<1>9. CASE ReportIdentity
  BY <1>0, <1>9 DEF ReportIdentity, HookTyped, WebhookTypeOK
<1>14. CASE MinutePasses
  <2>1. hookMinute' \in Minutes
    BY <1>0, <1>14, WebhookAssumption DEF MinutePasses, WebhookTypeOK, Minutes
  <2> QED
    BY <1>0, <1>14, <2>1 DEF MinutePasses, HookTyped, WebhookTypeOK
<1>10. CASE PurgeEvents
  <2>1. events' \subseteq events
    BY <1>10 DEF PurgeEvents
  <2>2. events' \subseteq Event /\ IsFiniteSet(events')
    BY <1>0, <2>1, FS_Subset DEF WebhookTypeOK
  <2> QED
    BY <1>0, <1>10, <2>2 DEF PurgeEvents, HookTyped, WebhookTypeOK
<1>11. CASE StartReading
  <2>1. reader' \in Reader
    BY <1>0, <1>11 DEF StartReading, Reader, WebhookTypeOK
  <2> QED
    BY <1>0, <1>11, <2>1 DEF StartReading, HookTyped, WebhookTypeOK
<1>12. CASE ReadPage
  <2> DEFINE rows == EventsPage(reader.after, PageSize + 1)
             new == [reader EXCEPT !.seen = @ \cup {e.id : e \in PageCut(rows)},
                                   !.after = CursorAfter(rows),
                                   !.done = Cardinality(rows) <= PageSize]
  <2>1. reader \in Reader /\ reader # NoHook /\ reader' = new
    BY <1>0, <1>12 DEF ReadPage
  <2>2. PageCut(rows) \subseteq events /\ \A e \in PageCut(rows) : e.id \in Nat
    BY <1>0 DEF PageCut, EventsPage, WebhookTypeOK, Event
  <2>3. CursorAfter(rows) \in Nat
    BY <2>1, CursorIs
  <2> HIDE DEF rows
  <2>4. {e.id : e \in PageCut(rows)} \subseteq Nat
    BY <2>2
  <2>6. /\ reader.seen \cup {e.id : e \in PageCut(rows)} \in SUBSET Nat
        /\ (Cardinality(rows) <= PageSize) \in BOOLEAN
    BY <2>1, <2>4 DEF Reader
  <2>7. \A a \in Nat, x \in SUBSET Nat, b \in BOOLEAN :
          [reader EXCEPT !.seen = x, !.after = a, !.done = b] \in Reader
    BY <2>1 DEF Reader
  <2>5. new \in Reader
    BY <2>3, <2>6, <2>7
  <2> QED
    BY <1>0, <1>12, <2>1, <2>5 DEF ReadPage, HookTyped, WebhookTypeOK
<1>13. CASE UNCHANGED webhookVars
  BY <1>0, <1>13 DEF webhookVars, HookTyped, WebhookTypeOK
<1> QED
  BY <1>1, <1>2, <1>3, <1>4, <1>5, <1>6, <1>7, <1>8, <1>9, <1>10, <1>11, <1>12, <1>13, <1>14
     DEF WebhookNext

-----------------------------------------------------------------------------
(* Deliveries, tokens and lives of the host.                               *)

\* A webhook keeps its token and id from everything that came before it, so that a request
\* that found it belongs to the life of the host that it has.
TokensKnow ==
    /\ config # NoHook => config.id \in 1..lastId /\ config.token \in 1..lastId
    /\ \A d \in Deliverers : delivery[d] # NoHook =>
         /\ delivery[d].token <= lastId /\ delivery[d].config <= lastId
         /\ delivery[d].floor <= lastId
         /\ delivery[d].step # "lookup" => delivery[d].token >= delivery[d].floor
         /\ config # NoHook =>
              /\ delivery[d].floor <= config.token
              /\ \/ delivery[d].token = config.token
                 \/ delivery[d].step # "lookup" /\ delivery[d].config = config.id
                => delivery[d].life = life

\* The events of this life, numbered; what is there of the events a reader began with is
\* read up to its cursor, and when it is done, all of it.
ReaderKnows ==
    reader # NoHook =>
      /\ \A b \in reader.begun : b.id <= lastEvent
      /\ \A e \in events : (\E b \in reader.begun : b.id = e.id) =>
            e.id \in reader.seen \/ (e.id > reader.after /\ ~reader.done)

\* The visits of the window to a minute: one, and one more for each return.
Visited(m) ==
    LET past == RateLimit * regressions
    IN  admitted[m] <= CASE m > config.window -> past
                         [] m = config.window -> past + (IF config.count < RateLimit THEN config.count
                                                         ELSE RateLimit)
                         [] m < config.window -> past + RateLimit

QuotaCounts == config # NoHook => \A m \in Minutes : Visited(m)

HookInv == HookTyped /\ IdsGiven /\ TokensKnow /\ EventsOfThisLife /\ ReaderKnows /\ QuotaCounts

LEMMA TokensStep == HookTyped /\ TokensKnow /\ [WebhookNext]_webhookVars => TokensKnow'
<1> SUFFICES ASSUME HookTyped, TokensKnow, [WebhookNext]_webhookVars PROVE TokensKnow'
  OBVIOUS
<1> USE DEF hookRows, hookCounters, hookHistory
<1>0. /\ delivery \in [Deliverers -> Delivery \cup {NoHook}] /\ lastId \in Nat
      /\ config = NoHook \/ config \in Config
      /\ \A d \in Deliverers : delivery[d] # NoHook =>
           delivery[d].token \in Nat /\ delivery[d].config \in Nat /\ delivery[d].floor \in Nat
  BY DEF HookTyped, WebhookTypeOK, Delivery
<1>1. ASSUME NEW d \in Deliverers, NEW t \in 1..TokenLimit, NEW a \in Addresses, PostEvent(d, t, a)
      PROVE  TokensKnow'
  <2> DEFINE floor == IF config = NoHook THEN 0 ELSE config.token
             post == [step |-> "lookup", token |-> t, source |-> a, config |-> 0, at |-> hookMinute,
                      life |-> life, floor |-> floor]
  <2>1. /\ delivery' = [delivery EXCEPT ![d] = post] /\ t \in 1..lastId
        /\ UNCHANGED <<config, lastId, life>>
    BY <1>1 DEF PostEvent
  <2>2. floor \in Nat /\ floor <= lastId /\ (config # NoHook => floor = config.token)
    BY <1>0 DEF TokensKnow
  <2>3. delivery'[d] = post /\ \A s \in Deliverers \ {d} : delivery'[s] = delivery[s]
    BY <1>0, <2>1
  <2> QED
    BY <1>0, <2>1, <2>2, <2>3 DEF TokensKnow
<1>2. ASSUME NEW d \in Deliverers,
             Drop(d), UNCHANGED <<lastId, life>>,
             \/ config' = config
             \/ /\ config # NoHook /\ config' # NoHook
                /\ config'.id = config.id /\ config'.token = config.token
      PROVE  TokensKnow'
  <2>1. delivery'[d] = NoHook /\ \A s \in Deliverers \ {d} : delivery'[s] = delivery[s]
    BY <1>0, <1>2 DEF Drop
  <2> QED
    BY <1>2, <2>1 DEF TokensKnow
<1>3. ASSUME NEW d \in Deliverers, FindActiveWebhookByToken(d)
      PROVE  TokensKnow'
  <2>1. CASE /\ config # NoHook /\ delivery[d].token = config.token
             /\ delivery' = [delivery EXCEPT ![d].step = "address", ![d].config = config.id]
    <3>1. /\ delivery[d] # NoHook /\ delivery[d] \in Delivery /\ UNCHANGED <<config, lastId, life>>
      BY <1>0, <1>3 DEF FindActiveWebhookByToken
    <3>2. /\ delivery'[d].step = "address" /\ delivery'[d].config = config.id
          /\ delivery'[d].token = delivery[d].token /\ delivery'[d].floor = delivery[d].floor
          /\ delivery'[d].life = delivery[d].life
          /\ \A s \in Deliverers \ {d} : delivery'[s] = delivery[s]
      BY <1>0, <2>1, <3>1 DEF Delivery
    <3>3. config.id <= lastId
      BY <1>0, <2>1 DEF TokensKnow
    <3> QED
      BY <2>1, <3>1, <3>2, <3>3 DEF TokensKnow
  <2> QED
    BY <1>2, <1>3, <2>1 DEF FindActiveWebhookByToken
<1>4. ASSUME NEW d \in Deliverers, GetHostPublicIp(d)
      PROVE  TokensKnow'
  <2>1. CASE delivery' = [delivery EXCEPT ![d].step = "quota", ![d].at = hookMinute]
    <3>1. /\ delivery[d] # NoHook /\ delivery[d] \in Delivery /\ UNCHANGED <<config, lastId, life>>
          /\ delivery[d].step = "address"
      BY <1>0, <1>4 DEF GetHostPublicIp
    <3>2. /\ delivery'[d].config = delivery[d].config
          /\ delivery'[d].token = delivery[d].token /\ delivery'[d].floor = delivery[d].floor
          /\ delivery'[d].life = delivery[d].life
          /\ \A s \in Deliverers \ {d} : delivery'[s] = delivery[s]
      BY <1>0, <2>1, <3>1 DEF Delivery
    <3> QED
      BY <3>1, <3>2 DEF TokensKnow
  <2> QED
    BY <1>2, <1>4, <2>1 DEF GetHostPublicIp
<1>5. ASSUME NEW d \in Deliverers, CheckRateLimit(d)
      PROVE  TokensKnow'
  <2>1. /\ UNCHANGED <<lastId, life>>
        /\ \/ config' = config
           \/ config # NoHook /\ config' = [config EXCEPT !.window = delivery[d].at, !.count = CountOf(d)]
    BY <1>5 DEF CheckRateLimit
  <2>2. config # NoHook /\ config' # NoHook /\ config' # config =>
          config'.id = config.id /\ config'.token = config.token
    BY <1>0, <2>1 DEF Config
  <2>3. CASE Drop(d) /\ (config' = config \/ (config # NoHook /\ config' # NoHook))
    BY <1>2, <2>1, <2>2, <2>3
  <2>4. CASE Reach(d, "insert") /\ (config' = config \/ (config # NoHook /\ config' # NoHook))
    <3>1. delivery[d] # NoHook /\ delivery[d] \in Delivery /\ delivery[d].step = "quota"
      BY <1>0, <1>5 DEF CheckRateLimit
    <3>2. /\ delivery'[d].config = delivery[d].config
          /\ delivery'[d].token = delivery[d].token /\ delivery'[d].floor = delivery[d].floor
          /\ delivery'[d].life = delivery[d].life
          /\ \A s \in Deliverers \ {d} : delivery'[s] = delivery[s]
      BY <1>0, <2>4, <3>1 DEF Delivery, Reach
    <3> QED
      BY <2>1, <2>2, <2>4, <3>1, <3>2 DEF TokensKnow
  <2>5. CASE config' = NoHook /\ config # NoHook
    <3>1. /\ \A s \in Deliverers \ {d} : delivery'[s] = delivery[s]
          /\ \/ delivery'[d] = NoHook
             \/ /\ delivery'[d].config = delivery[d].config
                /\ delivery'[d].token = delivery[d].token /\ delivery'[d].floor = delivery[d].floor
                /\ delivery[d].step = "quota" /\ delivery[d] # NoHook
      BY <1>0, <1>5 DEF CheckRateLimit, Drop, Reach, Delivery
    <3> QED
      BY <2>1, <2>5, <3>1 DEF TokensKnow
  <2>6. Drop(d) \/ Reach(d, "insert")
    BY <1>5 DEF CheckRateLimit
  <2>7. \/ config' = config
        \/ config # NoHook /\ config' # NoHook
        \/ config' = NoHook /\ config # NoHook
    BY <2>1
  <2> QED
    BY <2>3, <2>4, <2>5, <2>6, <2>7
<1>6. CASE CreateWebhook \/ RegenerateToken
  <2>1. lastId' = lastId + 1 /\ UNCHANGED <<delivery, life>>
    BY <1>6 DEF CreateWebhook, RegenerateToken
  <2>2. config' # NoHook =>
          /\ config'.token = lastId + 1
          /\ config'.id = lastId + 1 \/ (config # NoHook /\ config'.id = config.id)
    BY <1>0, <1>6, <2>1 DEF CreateWebhook, RegenerateToken, Config
  <2>3. config # NoHook => config.id \in 1..lastId
    BY DEF TokensKnow
  <2>4. config' # NoHook => config'.id \in 1..lastId' /\ config'.token \in 1..lastId'
    BY <1>0, <2>1, <2>2, <2>3
  <2>5. ASSUME NEW d \in Deliverers, delivery[d] # NoHook
        PROVE  /\ delivery[d].token <= lastId /\ delivery[d].config <= lastId
               /\ delivery[d].floor <= lastId
               /\ delivery[d].step # "lookup" => delivery[d].token >= delivery[d].floor
               /\ delivery[d].token # lastId + 1 /\ delivery[d].config # lastId + 1
    BY <1>0, <2>5 DEF TokensKnow
  <2>6. ASSUME NEW d \in Deliverers, delivery[d] # NoHook, config' # NoHook,
               \/ delivery[d].token = config'.token
               \/ delivery[d].step # "lookup" /\ delivery[d].config = config'.id
        PROVE  delivery[d].life = life
    <3>1. config # NoHook /\ delivery[d].step # "lookup" /\ delivery[d].config = config.id
      BY <2>2, <2>5, <2>6
    <3> QED
      BY <2>6, <3>1 DEF TokensKnow
  <2>7. ASSUME NEW d \in Deliverers, delivery[d] # NoHook
        PROVE  /\ delivery[d].token <= lastId' /\ delivery[d].config <= lastId'
               /\ delivery[d].floor <= lastId'
               /\ config' # NoHook => delivery[d].floor <= config'.token
    BY <1>0, <2>1, <2>2, <2>5, <2>7
  <2> QED
    BY <2>1, <2>4, <2>5, <2>6, <2>7 DEF TokensKnow
<1>7. CASE DeleteWebhook \/ CascadeHost
  BY <1>7 DEF DeleteWebhook, CascadeHost, TokensKnow
<1>8. CASE UNCHANGED <<delivery, config, lastId, life>>
  BY <1>8 DEF TokensKnow
<1> QED
  BY <1>1, <1>2, <1>3, <1>4, <1>5, <1>6, <1>7, <1>8 DEF WebhookNext, InsertEvent, LoseDelivery,
     AppendEvent, ReportIdentity, PurgeEvents, MinutePasses, StartReading, ReadPage, webhookVars

LEMMA EventsStep ==
  HookTyped /\ IdsGiven /\ TokensKnow /\ EventsOfThisLife /\ [WebhookNext]_webhookVars
    => IdsGiven' /\ EventsOfThisLife'
<1> SUFFICES ASSUME HookTyped, IdsGiven, TokensKnow, EventsOfThisLife, [WebhookNext]_webhookVars
             PROVE  IdsGiven' /\ EventsOfThisLife'
  OBVIOUS
<1> USE DEF hookRows, hookCounters, hookHistory
<1>0. lastEvent \in Nat /\ delivery \in [Deliverers -> Delivery \cup {NoHook}] /\ life \in Nat
  BY DEF HookTyped, WebhookTypeOK
<1>1. ASSUME NEW cfg, NEW at, NEW in, Append1(cfg, at, in), in = life,
             UNCHANGED <<hostRow, config, life>>, hostRow
      PROVE  IdsGiven' /\ EventsOfThisLife'
  <2> DEFINE new == [id |-> lastEvent', config |-> cfg, created |-> at, life |-> in]
  <2>1. lastEvent' = lastEvent + 1 /\ events' = events \cup {new} /\ new.id = lastEvent' /\ new.life = in
    BY <1>1 DEF Append1
  <2> HIDE DEF new
  <2> QED
    BY <1>0, <1>1, <2>1 DEF IdsGiven, EventsOfThisLife
<1>2. ASSUME NEW d \in Deliverers, InsertEvent(d)
      PROVE  IdsGiven' /\ EventsOfThisLife'
  <2>1. CASE hostRow /\ config # NoHook /\ config.id = delivery[d].config
    <3>1. delivery[d].life = life
      BY <1>2, <2>1 DEF InsertEvent, TokensKnow
    <3> QED
      BY <1>1, <1>2, <2>1, <3>1 DEF InsertEvent
  <2>2. CASE ~(hostRow /\ config # NoHook /\ config.id = delivery[d].config)
    BY <1>2, <2>2 DEF InsertEvent, IdsGiven, EventsOfThisLife
  <2> QED
    BY <2>1, <2>2
<1>3. CASE AppendEvent
  BY <1>1, <1>3 DEF AppendEvent
<1>4. CASE DeleteWebhook
  <2>1. events' = {Untied(e) : e \in events}
    BY <1>4 DEF DeleteWebhook, Untied
  <2>2. UNCHANGED <<hostRow, lastEvent, life>> /\ config' = NoHook
    BY <1>4 DEF DeleteWebhook
  <2>3. \A e \in events : Untied(e).id = e.id /\ Untied(e).life = e.life
    BY UntiedTyped
  <2>4. \A x \in events' : \E e \in events : x.id = e.id /\ x.life = e.life
    BY <2>1, <2>3
  <2>5. events = {} => events' = {}
    BY <2>1
  <2> QED
    BY <2>2, <2>4, <2>5 DEF IdsGiven, EventsOfThisLife
<1>5. CASE CascadeHost
  BY <1>5 DEF CascadeHost, IdsGiven, EventsOfThisLife
<1>6. CASE PurgeEvents
  <2>1. events' \subseteq events
    BY <1>6 DEF PurgeEvents
  <2> QED
    BY <1>6, <2>1 DEF PurgeEvents, IdsGiven, EventsOfThisLife
<1>7. ASSUME NEW d \in Deliverers, CheckRateLimit(d)
      PROVE  IdsGiven' /\ EventsOfThisLife'
  BY <1>7 DEF CheckRateLimit, IdsGiven, EventsOfThisLife
<1>8. CASE UNCHANGED <<events, lastEvent, life>> /\ (hostRow' \/ UNCHANGED <<hostRow, config>>)
  BY <1>8 DEF IdsGiven, EventsOfThisLife
<1>9. CASE CreateWebhook \/ RegenerateToken
  BY <1>9 DEF CreateWebhook, RegenerateToken, IdsGiven, EventsOfThisLife
<1> QED
  BY <1>2, <1>3, <1>4, <1>5, <1>6, <1>7, <1>8, <1>9 DEF WebhookNext, PostEvent,
     FindActiveWebhookByToken, GetHostPublicIp, LoseDelivery, ReportIdentity, MinutePasses,
     StartReading, ReadPage, webhookVars

LEMMA ReaderStep ==
  HookTyped /\ IdsGiven /\ ReaderKnows /\ [WebhookNext]_webhookVars => ReaderKnows'
<1> SUFFICES ASSUME HookTyped, IdsGiven, ReaderKnows, [WebhookNext]_webhookVars PROVE ReaderKnows'
  OBVIOUS
<1> USE DEF hookRows, hookCounters, hookHistory
<1>0. /\ lastEvent \in Nat
      /\ \A e \in events : e.id \in Nat
      /\ reader # NoHook => (reader \in Reader /\ \A b \in reader.begun : b.id \in Nat)
  BY DEF HookTyped, WebhookTypeOK, IdsGiven, Reader, Event
<1>1. ASSUME NEW cfg, NEW at, NEW in, Append1(cfg, at, in), UNCHANGED reader
      PROVE  ReaderKnows'
  <2> DEFINE new == [id |-> lastEvent', config |-> cfg, created |-> at, life |-> in]
  <2>1. lastEvent' = lastEvent + 1 /\ events' = events \cup {new} /\ new.id = lastEvent'
    BY <1>1 DEF Append1
  <2> HIDE DEF new
  <2> SUFFICES ASSUME reader # NoHook
               PROVE  /\ \A b \in reader.begun : b.id <= lastEvent'
                      /\ \A e \in events' : (\E b \in reader.begun : b.id = e.id) =>
                            e.id \in reader.seen \/ (e.id > reader.after /\ ~reader.done)
    BY <1>1 DEF ReaderKnows
  <2>2. \A b \in reader.begun : b.id \in Nat /\ b.id <= lastEvent
    BY <1>0 DEF ReaderKnows
  <2>3. \A b \in reader.begun : b.id <= lastEvent' /\ b.id # new.id
    BY <1>0, <2>1, <2>2
  <2>4. \A e \in events' : e = new \/ e \in events
    BY <2>1
  <2>5. \A e \in events : (\E b \in reader.begun : b.id = e.id) =>
           e.id \in reader.seen \/ (e.id > reader.after /\ ~reader.done)
    BY DEF ReaderKnows
  <2> QED
    BY <2>3, <2>4, <2>5
<1>2. ASSUME NEW d \in Deliverers, InsertEvent(d)
      PROVE  ReaderKnows'
  <2>1. CASE UNCHANGED <<events, lastEvent>>
    BY <1>2, <2>1 DEF InsertEvent, ReaderKnows
  <2> QED
    BY <1>1, <1>2, <2>1 DEF InsertEvent
<1>3. CASE AppendEvent
  BY <1>1, <1>3 DEF AppendEvent
<1>4. CASE DeleteWebhook
  <2>1. events' = {Untied(e) : e \in events} /\ UNCHANGED <<reader, lastEvent>>
    BY <1>4 DEF DeleteWebhook, Untied
  <2>2. \A x \in events' : \E e \in events : x.id = e.id
    BY <2>1, UntiedTyped
  <2> QED
    BY <2>1, <2>2 DEF ReaderKnows
<1>5. CASE CascadeHost \/ PurgeEvents
  <2>1. events' \subseteq events /\ UNCHANGED <<reader, lastEvent>>
    BY <1>5 DEF CascadeHost, PurgeEvents
  <2> QED
    BY <2>1 DEF ReaderKnows
<1>6. CASE StartReading
  <2>1. /\ reader' = [after |-> 0, seen |-> {}, begun |-> events, done |-> FALSE]
        /\ UNCHANGED <<events, lastEvent>>
    BY <1>6 DEF StartReading
  <2>2. reader'.begun = events /\ reader'.after = 0 /\ ~reader'.done
    BY <2>1
  <2>3. \A e \in events : e.id > 0 /\ e.id <= lastEvent
    BY <1>0 DEF IdsGiven
  <2> QED
    BY <2>1, <2>2, <2>3 DEF ReaderKnows
<1>7. CASE ReadPage
  <2> DEFINE rows == EventsPage(reader.after, PageSize + 1)
  <2>0. reader # NoHook /\ reader \in Reader /\ ~reader.done
    BY <1>0, <1>7 DEF ReadPage
  <2>1. /\ UNCHANGED <<events, lastEvent>>
        /\ reader' = [reader EXCEPT !.seen = @ \cup {e.id : e \in PageCut(rows)},
                                    !.after = CursorAfter(rows),
                                    !.done = Cardinality(rows) <= PageSize]
    BY <1>7 DEF ReadPage
  <2> HIDE DEF rows
  <2>2. /\ reader'.begun = reader.begun /\ reader'.after = CursorAfter(rows)
        /\ reader'.seen = reader.seen \cup {e.id : e \in PageCut(rows)}
        /\ reader'.done => Cardinality(rows) <= PageSize
    BY <2>0, <2>1 DEF Reader
  <2>3. CursorAfter(rows) \in Nat
    BY <2>0, CursorIs DEF rows
  <2>4. \A e \in events : e.id > reader.after /\ (e.id <= CursorAfter(rows) \/ reader'.done)
          => e \in PageCut(rows)
    BY <2>0, <2>2, PageReturnsAll, LastPageIsWhole DEF rows
  <2> SUFFICES ASSUME NEW e \in events, NEW b \in reader.begun, b.id = e.id
               PROVE  e.id \in reader'.seen \/ (e.id > reader'.after /\ ~reader'.done)
    BY <2>0, <2>1, <2>2 DEF ReaderKnows
  <2>5. e.id \in reader.seen \/ e.id > reader.after
    BY <2>0 DEF ReaderKnows
  <2> QED
    BY <1>0, <2>2, <2>3, <2>4, <2>5
<1>8. CASE UNCHANGED <<events, lastEvent, reader>>
  BY <1>8 DEF ReaderKnows
<1> QED
  BY <1>2, <1>3, <1>4, <1>5, <1>6, <1>7, <1>8 DEF WebhookNext, PostEvent,
     FindActiveWebhookByToken, GetHostPublicIp, CheckRateLimit, LoseDelivery, CreateWebhook,
     RegenerateToken, ReportIdentity, MinutePasses, webhookVars

LEMMA QuotaStep == HookTyped /\ QuotaCounts /\ [WebhookNext]_webhookVars => QuotaCounts'
<1> SUFFICES ASSUME HookTyped, QuotaCounts, [WebhookNext]_webhookVars PROVE QuotaCounts'
  OBVIOUS
<1> USE DEF hookRows, hookCounters, hookHistory
<1>0. /\ RateLimit \in Nat \ {0} /\ regressions \in Nat /\ RateLimit * regressions \in Nat
      /\ admitted \in [Minutes -> Nat] /\ Minutes \subseteq Nat
      /\ config = NoHook \/ config \in Config
  BY WebhookAssumption DEF HookTyped, WebhookTypeOK, Minutes
<1>1. ASSUME NEW d \in Deliverers, CheckRateLimit(d)
      PROVE  QuotaCounts'
  <2>1. CASE config # NoHook /\ config.id = delivery[d].config /\ config' # NoHook
    <3> DEFINE at == delivery[d].at
               past == RateLimit * regressions
    <3>1. delivery[d] \in Delivery /\ at \in Nat /\ at \in Minutes
      BY <1>0, <1>1 DEF CheckRateLimit, HookTyped, Delivery
    <3>2. /\ config \in Config /\ config.window \in Nat /\ config.count \in Nat
      BY <1>0, <2>1 DEF Config
    <3>3. config'.window = at /\ config'.count = CountOf(d)
      BY <1>1, <2>1, <3>2 DEF CheckRateLimit, Config
    <3>4. regressions' = regressions + (IF at < config.window THEN 1 ELSE 0)
      BY <1>1, <2>1 DEF CheckRateLimit
    <3>5. RateLimit * regressions' = past + (IF at < config.window THEN RateLimit ELSE 0)
      <4>1. RateLimit * (regressions + 1) = past + RateLimit
        BY <1>0
      <4> QED
        BY <1>0, <3>4, <4>1
    <3>6. admitted' = IF CountOf(d) <= RateLimit THEN [admitted EXCEPT ![at] = @ + 1] ELSE admitted
      BY <1>1, <2>1 DEF CheckRateLimit, WithinLimit
    <3>7. CountOf(d) = IF config.window = at THEN config.count + 1 ELSE 1
      BY DEF CountOf
    <3> SUFFICES ASSUME NEW m \in Minutes PROVE Visited(m)'
      BY DEF QuotaCounts
    <3>8. Visited(m)
      BY <2>1 DEF QuotaCounts
    <3>9. /\ admitted[m] \in Nat /\ m \in Nat /\ past \in Nat
          /\ admitted'[m] = admitted[m] + (IF m = at /\ CountOf(d) <= RateLimit THEN 1 ELSE 0)
      <4>1. admitted[m] \in Nat /\ m \in Nat /\ past \in Nat
        BY <1>0
      <4> HIDE DEF at, past
      <4>2. CASE CountOf(d) <= RateLimit /\ m = at
        BY <1>0, <3>1, <3>6, <4>1, <4>2
      <4>3. CASE ~(CountOf(d) <= RateLimit /\ m = at)
        <5>1. admitted'[m] = admitted[m]
          BY <1>0, <3>6, <4>3
        <5> QED
          BY <4>1, <4>3, <5>1
      <4> QED
        BY <4>2, <4>3
    <3> HIDE DEF at, past
    <3>10. admitted[m] <= IF m > config.window THEN past
                          ELSE IF m = config.window
                               THEN past + (IF config.count < RateLimit THEN config.count ELSE RateLimit)
                               ELSE past + RateLimit
      BY <3>2, <3>8, <3>9 DEF Visited, past
    <3> DEFINE now == RateLimit * regressions'
    <3>11. now = past + (IF at < config.window THEN RateLimit ELSE 0)
      BY <3>5
    <3> HIDE DEF now
    <3>12. admitted'[m] <= IF m > at THEN now
                           ELSE IF m = at
                                THEN now + (IF CountOf(d) < RateLimit THEN CountOf(d) ELSE RateLimit)
                                ELSE now + RateLimit
      BY <1>0, <3>1, <3>2, <3>7, <3>9, <3>10, <3>11
    <3> QED
      BY <3>1, <3>3, <3>9, <3>12 DEF Visited, now
  <2>2. CASE config' = NoHook
    BY <2>2 DEF QuotaCounts
  <2>3. CASE ~(config # NoHook /\ config.id = delivery[d].config)
    BY <1>1, <2>3 DEF CheckRateLimit, QuotaCounts, Visited
  <2> QED
    BY <2>1, <2>2, <2>3
<1>2. CASE CreateWebhook
  <2>1. regressions' = 0 /\ \A m \in Minutes : admitted'[m] = 0
    BY <1>2 DEF CreateWebhook
  <2>2. config'.window = 0 /\ config'.count = 0
    BY <1>2 DEF CreateWebhook
  <2>3. RateLimit * regressions' = 0
    BY <1>0, <2>1
  <2> SUFFICES ASSUME NEW m \in Minutes PROVE Visited(m)'
    BY DEF QuotaCounts
  <2>4. m \in Nat /\ admitted'[m] = 0
    BY <1>0, <2>1
  <2> QED
    BY <1>0, <2>2, <2>3, <2>4 DEF Visited
<1>3. CASE RegenerateToken
  <2>1. config # NoHook /\ config \in Config /\ UNCHANGED <<admitted, regressions>>
    BY <1>0, <1>3 DEF RegenerateToken
  <2>2. config'.window = config.window /\ config'.count = config.count
    BY <1>3, <2>1 DEF RegenerateToken, Config
  <2> QED
    BY <2>1, <2>2 DEF QuotaCounts, Visited
<1>4. CASE DeleteWebhook \/ CascadeHost
  BY <1>4 DEF DeleteWebhook, CascadeHost, QuotaCounts
<1>5. CASE UNCHANGED <<config, admitted, regressions>>
  BY <1>5 DEF QuotaCounts, Visited
<1> QED
  BY <1>1, <1>2, <1>3, <1>4, <1>5 DEF WebhookNext, PostEvent, FindActiveWebhookByToken,
     GetHostPublicIp, InsertEvent, LoseDelivery, AppendEvent, ReportIdentity, PurgeEvents,
     MinutePasses, StartReading, ReadPage, webhookVars

-----------------------------------------------------------------------------

\* Whatever a delivery races (a deletion, a rotation, the turn of a minute, a purge), what it
\* stores is of the host's present life, under a token in force and within the quota, and a
\* reader that pages through the events misses none.
THEOREM WebhooksStaySound == WebhookSpec => []WebhooksSound
<1>1. WebhookInit => HookInv
  <2> SUFFICES ASSUME WebhookInit PROVE HookInv
    OBVIOUS
  <2>1. WebhookTypeOK /\ delivery \in [Deliverers -> Delivery \cup {NoHook}] /\ reader = NoHook
    BY WebhookAssumption DEF WebhookInit, WebhookTypeOK, Minutes
  <2>2. IsFiniteSet(events)
    BY FS_EmptySet DEF WebhookInit
  <2>3. HookTyped
    BY <2>1, <2>2 DEF HookTyped
  <2>4. TokensKnow /\ EventsOfThisLife /\ ReaderKnows /\ QuotaCounts /\ IdsGiven
    BY DEF WebhookInit, TokensKnow, EventsOfThisLife, ReaderKnows, QuotaCounts, IdsGiven
  <2> QED
    BY <2>3, <2>4 DEF HookInv
<1>2. HookInv /\ [WebhookNext]_webhookVars => HookInv'
  BY TypeStep, TokensStep, EventsStep, ReaderStep, QuotaStep DEF HookInv
<1>3. HookInv => WebhooksSound
  <2> SUFFICES ASSUME HookInv PROVE WebhooksSound
    OBVIOUS
  <2>1. WebhookTypeOK /\ EventsOfThisLife
    BY DEF HookInv, HookTyped
  <2>2. RotationCutsOff
    BY DEF HookInv, TokensKnow, RotationCutsOff
  <2>3. QuotaKept
    <3> SUFFICES ASSUME config # NoHook, NEW m \in Minutes
                 PROVE  admitted[m] <= RateLimit * (1 + regressions)
      BY DEF QuotaKept
    <3> DEFINE past == RateLimit * regressions
    <3>0. RateLimit \in Nat /\ regressions \in Nat
      BY WebhookAssumption DEF HookInv, HookTyped, WebhookTypeOK
    <3>1. admitted[m] \in Nat /\ m \in Nat /\ past \in Nat
      BY <3>0 DEF HookInv, HookTyped, WebhookTypeOK, Minutes
    <3>2. config.window \in Nat /\ config.count \in Nat
      BY DEF HookInv, HookTyped, WebhookTypeOK, Config, Minutes
    <3>3. RateLimit * (1 + regressions) = past + RateLimit
      BY <3>0
    <3>4. Visited(m)
      BY DEF HookInv, QuotaCounts
    <3> HIDE DEF past
    <3>5. admitted[m] <= IF m > config.window THEN past
                         ELSE IF m = config.window
                              THEN past + (IF config.count < RateLimit THEN config.count ELSE RateLimit)
                              ELSE past + RateLimit
      BY <3>1, <3>2, <3>4 DEF Visited, past
    <3>6. admitted[m] <= past + RateLimit
      BY <3>0, <3>1, <3>2, <3>5
    <3> QED
      BY <3>0, <3>1, <3>3, <3>6
  <2>4. CursorPagesComplete
    BY DEF HookInv, ReaderKnows, CursorPagesComplete
  <2> QED
    BY <2>1, <2>2, <2>3, <2>4 DEF WebhooksSound
<1> QED
  BY <1>1, <1>2, <1>3, PTL DEF WebhookSpec

-----------------------------------------------------------------------------
(***************************************************************************)
(* DashboardViews, for any fleet, windows, freshness and latency.          *)
(***************************************************************************)

\* Rows, requests and answers.
FleetRow == [last_seen : Int, window : Windows \cup {NoWindow}, alerts : SUBSET ViewRules, allowed : BOOLEAN, tagged : BOOLEAN]
ViewFields == {"stage", "kind", "of", "began", "now", "rows", "alerts", "ports", "tags", "answer"}
AnswerFields == {"tiers", "listed", "groups", "overall"}
Stages == {"idle", "cache", "hit", "rows", "beside", "built", "answered"}

\* What Due says of a row.
WindowHolds(row, now) == row.window # NoWindow /\ WalkHolds(now, row.window)
Rated(row) == WorstTier({"healthy"} \cup {Severity[r] : r \in (row.alerts \ (IF row.allowed THEN {"public_port"} ELSE {})) \ {"uptime_anomaly"}})
DueOf(row, now) ==
    IF WindowHolds(row, now) THEN "maintenance" ELSE IF now > row.last_seen + OfflineAfter THEN "offline" ELSE Rated(row)

\* The rows, when they changed, and the clock.
World == [fleet |-> fleet, settled |-> settled, steps |-> steps]
WorldTyped(w) ==
    /\ DOMAIN w.fleet \subseteq Fleet /\ \A h \in DOMAIN w.fleet : w.fleet[h] \in FleetRow
    /\ w.settled \in [Fleet -> Int] /\ w.steps \in Nat

\* An answer shows a host of that row as it is at that time.
Tells(a, kind, of, h, row, due) ==
    /\ kind \in {"hosts", "detail", "monitoring"} => (h \in DOMAIN a.tiers) = (due \in of)
    /\ h \in DOMAIN a.tiers => a.tiers[h] = due
    /\ kind = "alerts" \/ h \in DOMAIN a.tiers =>
          {r \in ViewRules : <<h, r>> \in a.listed} = IF due = "maintenance" THEN {} ELSE row.alerts
    /\ kind = "fleet" => /\ due \in {"critical", "offline"} => a.overall = "critical"
                         /\ due = "warning" => a.overall \in {"degraded", "critical"}
    /\ kind = "groups" => \E t \in DOMAIN a.groups : Priority[a.groups[t]] >= Priority[due]

\* An answer that was read since b shows every host that has not changed since as it was then.
Truth(a, kind, of, b, w) ==
    \A h \in DOMAIN w.fleet : w.settled[h] < b =>
        \E now \in 0..w.steps : now >= b /\ Tells(a, kind, of, h, w.fleet[h], DueOf(w.fleet[h], now))

NotShown(a, b, w) ==
    \A h \in Fleet \ DOMAIN w.fleet :
        w.settled[h] < b => h \notin DOMAIN a.tiers /\ \A r \in ViewRules : <<h, r>> \notin a.listed

\* What was read so far is what is, of the hosts that have not changed since.
ReadSoFar(r, w) ==
    /\ r.kind # "alerts" /\ r.now \in 0..w.steps /\ r.now >= r.began
    /\ \A h \in DOMAIN w.fleet : w.settled[h] < r.began =>
         /\ h \in DOMAIN r.rows /\ r.rows[h] = w.fleet[h]
         /\ r.alerts # <<>> => r.alerts[h] = w.fleet[h].alerts
         /\ r.ports # <<>> => r.ports[h] = w.fleet[h].allowed
         /\ r.tags # <<>> => r.tags[h] = w.fleet[h].tagged
    /\ \A h \in Fleet \ DOMAIN w.fleet : w.settled[h] < r.began => h \notin DOMAIN r.rows

Behind(r) == IF r.kind \in Cached THEN r.began - (ViewTTL + ViewLatency) ELSE r.began

\* The answer of a request that is over, or that comes from KV.
Served(r, w) == \E b \in Int : Behind(r) <= b /\ b <= w.steps /\ Truth(r.answer, r.kind, r.of, b, w)

ViewTyped(r) ==
    /\ DOMAIN r = ViewFields /\ DOMAIN r.answer = AnswerFields
    /\ r.stage \in Stages /\ r.began \in Nat /\ r.kind \in Kinds /\ r.of \subseteq Tiers
    /\ (r.kind \in Cached => r.of = Tiers) /\ (r.stage \in {"cache", "hit"} => r.kind \in Cached)
    /\ r.stage \in {"cache", "rows"} => r.answer = NoAnswer /\ r.alerts = <<>> /\ r.ports = <<>> /\ r.tags = <<>>

RequestKnows(r, w) ==
    /\ r.began <= w.steps
    /\ r.stage \notin {"idle", "answered"} => w.steps <= r.began + ViewLatency
    /\ r.stage = "beside" => ReadSoFar(r, w)
    /\ r.stage = "built" => Truth(r.answer, r.kind, r.of, r.began, w)
    /\ r.stage \in {"built", "answered"} => NotShown(r.answer, r.began, w)
    /\ r.stage \in {"hit", "answered"} => Served(r, w)

EntryKnows(k, entry, w) ==
    /\ DOMAIN entry.answer = AnswerFields /\ entry.expiresAt \in Int
    /\ entry.expiresAt >= 0 =>
         \E b \in Int : entry.expiresAt <= b + ViewLatency + ViewTTL /\ b <= w.steps /\ Truth(entry.answer, k, Tiers, b, w)

ViewsKnow(w) == DOMAIN view = Viewers /\ \A v \in Viewers : ViewTyped(view[v]) /\ RequestKnows(view[v], w)
CacheKnows(w) == DOMAIN cached = Cached /\ \A k \in Cached : EntryKnows(k, cached[k], w)

ViewInv == WorldTyped(World) /\ ViewsKnow(World) /\ CacheKnows(World)

-----------------------------------------------------------------------------
(* The status of a host.                                                   *)

LEMMA ViewConstants ==
  /\ Day \in Nat /\ Day > 0 /\ OfflineAfter \in Nat /\ ViewTTL \in Nat /\ StorageTTL \in Nat /\ ViewLatency \in Nat
  /\ \A w \in Windows : w[1] \in 0..(Day - 1) /\ w[2] \in 0..(Day - 1)
BY ViewAssumption

LEMMA Remainder ==
  ASSUME NEW w \in Nat, w > 0, NEW x \in Int
  PROVE  /\ x % w \in 0..(w - 1)
         /\ x >= 0 /\ x < w => x % w = x
         /\ x >= w /\ x < 2 * w => x % w = x - w
         /\ x < 0 /\ -w <= x => x % w = x + w
OBVIOUS

\* The comparisons of isInMaintenanceWindow are a walk around the day.
LEMMA WindowIsWalk ==
  ASSUME NEW now \in Nat, NEW w \in Windows
  PROVE  IsInMaintenanceWindow(now % Day, w) <=> WalkHolds(now, w)
<1> DEFINE n == now % Day
           last == (w[2] - w[1] - 1) % Day
<1>1. /\ n \in 0..(Day - 1) /\ w[1] \in 0..(Day - 1) /\ w[2] \in 0..(Day - 1) /\ Day \in Nat /\ Day > 0
  BY ViewConstants, Remainder
<1>2. last = IF w[1] < w[2] THEN w[2] - w[1] - 1 ELSE w[2] - w[1] - 1 + Day
  BY <1>1, Remainder
<1>3. \A k \in 0..last : (w[1] + k) % Day = IF w[1] + k < Day THEN w[1] + k ELSE w[1] + k - Day
  <2>1. ASSUME NEW k \in 0..last PROVE w[1] + k \in Nat /\ w[1] + k < 2 * Day
    BY <1>1, <1>2
  <2> QED
    BY <1>1, <2>1, Remainder
<1> HIDE DEF n, last
<1>4. CASE w[1] < w[2]
  <2>1. (\E k \in 0..last : n = (w[1] + k) % Day) => w[1] <= n /\ n < w[2]
    BY <1>1, <1>2, <1>3, <1>4
  <2>2. ASSUME w[1] <= n, n < w[2] PROVE \E k \in 0..last : n = (w[1] + k) % Day
    <3>1. n - w[1] \in 0..last /\ w[1] + (n - w[1]) = n
      BY <1>1, <1>2, <1>4, <2>2
    <3> QED
      BY <1>1, <1>3, <3>1
  <2> QED
    BY <1>4, <2>1, <2>2 DEF IsInMaintenanceWindow, WalkHolds, n, last
<1>5. CASE ~(w[1] < w[2])
  <2>1. (\E k \in 0..last : n = (w[1] + k) % Day) => w[1] <= n \/ n < w[2]
    BY <1>1, <1>2, <1>3, <1>5
  <2>2. ASSUME w[1] <= n PROVE \E k \in 0..last : n = (w[1] + k) % Day
    <3>1. n - w[1] \in 0..last /\ w[1] + (n - w[1]) = n
      BY <1>1, <1>2, <1>5, <2>2
    <3> QED
      BY <1>1, <1>3, <3>1
  <2>3. ASSUME n < w[2] PROVE \E k \in 0..last : n = (w[1] + k) % Day
    <3>1. n - w[1] + Day \in 0..last /\ w[1] + (n - w[1] + Day) = n + Day
      BY <1>1, <1>2, <1>5, <2>3
    <3> QED
      BY <1>1, <1>3, <3>1
  <2> QED
    BY <1>5, <2>1, <2>2, <2>3 DEF IsInMaintenanceWindow, WalkHolds, n, last
<1> QED
  BY <1>4, <1>5

LEMMA PriorityIs ==
  /\ Priority["healthy"] = 0 /\ Priority["warning"] = 1 /\ Priority["critical"] = 2
  /\ Priority["offline"] = 3 /\ Priority["maintenance"] = 4
BY DEF Priority

LEMMA WorstIs ==
  ASSUME NEW T \in SUBSET Tiers, T # {}
  PROVE  WorstTier(T) \in T /\ \A u \in T : Priority[u] <= Priority[WorstTier(T)]
<1>1. \E t \in T : \A u \in T : Priority[u] <= Priority[t]
  <2>1. \A u \in T : u = "healthy" \/ u = "warning" \/ u = "critical" \/ u = "offline" \/ u = "maintenance"
    BY DEF Tiers
  <2>2. CASE "maintenance" \in T
    BY <2>1, <2>2, PriorityIs
  <2>3. CASE "maintenance" \notin T /\ "offline" \in T
    BY <2>1, <2>3, PriorityIs
  <2>4. CASE "maintenance" \notin T /\ "offline" \notin T /\ "critical" \in T
    BY <2>1, <2>4, PriorityIs
  <2>5. CASE "maintenance" \notin T /\ "offline" \notin T /\ "critical" \notin T /\ "warning" \in T
    BY <2>1, <2>5, PriorityIs
  <2>6. CASE "maintenance" \notin T /\ "offline" \notin T /\ "critical" \notin T /\ "warning" \notin T
    <3>1. \A u \in T : u = "healthy"
      BY <2>1, <2>6
    <3>2. PICK t \in T : TRUE
      OBVIOUS
    <3> QED
      BY <3>1, <3>2, PriorityIs
  <2> QED
    BY <2>2, <2>3, <2>4, <2>5, <2>6
<1> QED
  BY <1>1 DEF WorstTier

LEMMA SeverityIs ==
  /\ ViewRules = {"disk_full", "uptime_anomaly", "public_port"}
  /\ Severity["disk_full"] = "critical" /\ Severity["uptime_anomaly"] = "info" /\ Severity["public_port"] = "warning"
BY DEF ViewRules, Severity

LEMMA RatedIs ==
  ASSUME NEW row \in FleetRow
  PROVE  Rated(row) = IF \E r \in row.alerts : Severity[r] = "critical" THEN "critical"
                      ELSE IF \E r \in row.alerts : IsWarning(r, row.allowed) THEN "warning" ELSE "healthy"
<1> DEFINE live == (row.alerts \ (IF row.allowed THEN {"public_port"} ELSE {})) \ {"uptime_anomaly"}
           T == {"healthy"} \cup {Severity[r] : r \in live}
<1>1. row.alerts \subseteq {"disk_full", "uptime_anomaly", "public_port"} /\ row.allowed \in BOOLEAN
  BY SeverityIs DEF FleetRow
<1>2. /\ "disk_full" \in live <=> "disk_full" \in row.alerts
      /\ "public_port" \in live <=> "public_port" \in row.alerts /\ ~row.allowed
      /\ live \subseteq {"disk_full", "public_port"}
  BY <1>1
<1>3. /\ "critical" \in T <=> "disk_full" \in row.alerts
      /\ "warning" \in T <=> "public_port" \in row.alerts /\ ~row.allowed
      /\ T \subseteq {"healthy", "critical", "warning"} /\ "healthy" \in T
  <2> HIDE DEF live
  <2> QED
    BY <1>2, SeverityIs
<1>4. Rated(row) = WorstTier(T)
  BY DEF Rated
<1> HIDE DEF T, live
<1>5. WorstTier(T) = IF "critical" \in T THEN "critical" ELSE IF "warning" \in T THEN "warning" ELSE "healthy"
  <2>1. WorstTier(T) \in T /\ \A u \in T : Priority[u] <= Priority[WorstTier(T)]
    BY <1>3, WorstIs DEF Tiers
  <2> DEFINE worst == WorstTier(T)
  <2> HIDE DEF worst
  <2>0. /\ worst \in T /\ \A u \in T : Priority[u] <= Priority[worst]
        /\ worst = "healthy" \/ worst = "critical" \/ worst = "warning"
    BY <1>3, <2>1 DEF worst
  <2>2. CASE "critical" \in T
    <3>1. Priority["critical"] <= Priority[worst]
      BY <2>0, <2>2
    <3>2. worst # "healthy" /\ worst # "warning"
      BY <3>1, PriorityIs
    <3> QED
      BY <2>0, <2>2, <3>2 DEF worst
  <2>3. CASE "critical" \notin T /\ "warning" \in T
    <3>1. Priority["warning"] <= Priority[worst]
      BY <2>0, <2>3
    <3>2. worst # "healthy"
      BY <3>1, PriorityIs
    <3> QED
      BY <2>0, <2>3, <3>2 DEF worst
  <2>4. CASE "critical" \notin T /\ "warning" \notin T
    BY <2>0, <2>4 DEF worst
  <2> QED
    BY <2>2, <2>3, <2>4
<1>6. /\ (\E r \in row.alerts : Severity[r] = "critical") <=> "disk_full" \in row.alerts
      /\ (\E r \in row.alerts : IsWarning(r, row.allowed)) <=> "public_port" \in row.alerts /\ ~row.allowed
  BY <1>1, SeverityIs DEF IsWarning
<1> QED
  BY <1>3, <1>4, <1>5, <1>6

LEMMA StatusIsDue ==
  ASSUME NEW row \in FleetRow, NEW now \in Nat
  PROVE  /\ DeriveHostStatus(now, row, row.alerts, row.allowed) = DueOf(row, now)
         /\ InMaintenance(now, row) <=> DueOf(row, now) = "maintenance"
         /\ DueOf(row, now) \in Tiers
<1>1. InMaintenance(now, row) <=> WindowHolds(row, now)
  <2>1. row.window \in Windows \cup {NoWindow}
    BY DEF FleetRow
  <2> QED
    BY <2>1, WindowIsWalk DEF InMaintenance, WindowHolds
<1>2. row.last_seen \in Int /\ OfflineAfter \in Nat
  BY ViewConstants DEF FleetRow
<1>3. (now - row.last_seen > OfflineAfter) <=> (now > row.last_seen + OfflineAfter)
  BY <1>2
<1>4. Rated(row) \in {"healthy", "warning", "critical"}
  BY RatedIs
<1>5. DeriveHostStatus(now, row, row.alerts, row.allowed)
        = IF InMaintenance(now, row) THEN "maintenance"
          ELSE IF now - row.last_seen > OfflineAfter THEN "offline" ELSE Rated(row)
  <2>1. CASE InMaintenance(now, row)
    BY <2>1 DEF DeriveHostStatus
  <2>2. CASE ~InMaintenance(now, row) /\ now - row.last_seen > OfflineAfter
    BY <2>2 DEF DeriveHostStatus
  <2>3. CASE ~InMaintenance(now, row) /\ ~(now - row.last_seen > OfflineAfter)
    BY <2>3, RatedIs DEF DeriveHostStatus
  <2> QED
    BY <2>1, <2>2, <2>3
<1>6. DueOf(row, now) = IF WindowHolds(row, now) THEN "maintenance" ELSE IF now > row.last_seen + OfflineAfter THEN "offline" ELSE Rated(row)
  BY DEF DueOf
<1>7. InMaintenance(now, row) <=> DueOf(row, now) = "maintenance"
  BY <1>1, <1>4, <1>6
<1> QED
  BY <1>1, <1>3, <1>4, <1>5, <1>6, <1>7 DEF Tiers

LEMMA StatusIsTier ==
  ASSUME NEW now, NEW row, NEW alerts, NEW allowed
  PROVE  DeriveHostStatus(now, row, alerts, allowed) \in Tiers
<1>1. CASE InMaintenance(now, row)
  BY <1>1 DEF DeriveHostStatus, Tiers
<1>2. CASE ~InMaintenance(now, row) /\ now - row.last_seen > OfflineAfter
  BY <1>2 DEF DeriveHostStatus, Tiers
<1>3. CASE ~InMaintenance(now, row) /\ ~(now - row.last_seen > OfflineAfter)
  BY <1>3 DEF DeriveHostStatus, Tiers
<1> QED
  BY <1>1, <1>2, <1>3

-----------------------------------------------------------------------------
(* What is known of answers stays, as the fleet changes.                   *)

\* A host is as it was, or settled again.
Follows(x, w) ==
    /\ x.steps >= w.steps
    /\ \A h \in Fleet :
         \/ x.settled[h] >= w.steps
         \/ /\ x.settled[h] = w.settled[h] /\ (h \in DOMAIN x.fleet <=> h \in DOMAIN w.fleet)
            /\ h \in DOMAIN w.fleet => x.fleet[h] = w.fleet[h]

LEMMA TruthStays ==
  ASSUME NEW w, NEW x, WorldTyped(w), WorldTyped(x), Follows(x, w), NEW b \in Int, b <= w.steps,
         NEW a, NEW kind, NEW of
  PROVE  /\ Truth(a, kind, of, b, w) => Truth(a, kind, of, b, x)
         /\ NotShown(a, b, w) => NotShown(a, b, x)
<1>1. \A h \in Fleet : x.settled[h] < b =>
        /\ w.settled[h] < b /\ (h \in DOMAIN x.fleet <=> h \in DOMAIN w.fleet)
        /\ h \in DOMAIN w.fleet => x.fleet[h] = w.fleet[h]
  BY DEF WorldTyped, Follows
<1>2. ASSUME Truth(a, kind, of, b, w), NEW h \in DOMAIN x.fleet, x.settled[h] < b
      PROVE  \E now \in 0..x.steps : now >= b /\ Tells(a, kind, of, h, x.fleet[h], DueOf(x.fleet[h], now))
  <2>1. h \in DOMAIN w.fleet /\ w.settled[h] < b /\ x.fleet[h] = w.fleet[h]
    BY <1>1, <1>2 DEF WorldTyped
  <2>2. PICK now \in 0..w.steps : now >= b /\ Tells(a, kind, of, h, w.fleet[h], DueOf(w.fleet[h], now))
    BY <1>2, <2>1 DEF Truth
  <2>3. now \in 0..x.steps
    BY <2>2 DEF Follows, WorldTyped
  <2> QED
    BY <2>1, <2>2, <2>3
<1> QED
  BY <1>1, <1>2 DEF Truth, NotShown

LEMMA RequestStays ==
  ASSUME NEW w, NEW x, WorldTyped(w), WorldTyped(x), Follows(x, w),
         NEW r, ViewTyped(r), RequestKnows(r, w),
         r.stage \notin {"idle", "answered"} => x.steps <= r.began + ViewLatency
  PROVE  RequestKnows(r, x)
<1>1. r.began \in Nat /\ r.began <= w.steps /\ r.began <= x.steps /\ w.steps \in Nat /\ x.steps \in Nat
  BY DEF ViewTyped, RequestKnows, WorldTyped, Follows
<1>2. r.stage = "beside" => ReadSoFar(r, x)
  <2> SUFFICES ASSUME r.stage = "beside" PROVE ReadSoFar(r, x)
    OBVIOUS
  <2>1. ReadSoFar(r, w)
    BY DEF RequestKnows
  <2>2. \A h \in Fleet : x.settled[h] < r.began =>
          /\ w.settled[h] < r.began /\ (h \in DOMAIN x.fleet <=> h \in DOMAIN w.fleet)
          /\ h \in DOMAIN w.fleet => x.fleet[h] = w.fleet[h]
    BY <1>1 DEF WorldTyped, Follows
  <2>3. r.now \in 0..x.steps
    BY <1>1, <2>1 DEF ReadSoFar, Follows
  <2> QED
    BY <2>1, <2>2, <2>3 DEF ReadSoFar, WorldTyped
<1>3. r.stage \in {"hit", "answered"} => Served(r, x)
  <2> SUFFICES ASSUME r.stage \in {"hit", "answered"} PROVE Served(r, x)
    OBVIOUS
  <2>1. PICK b \in Int : Behind(r) <= b /\ b <= w.steps /\ Truth(r.answer, r.kind, r.of, b, w)
    BY DEF RequestKnows, Served
  <2>2. b <= x.steps
    BY <1>1, <2>1 DEF Follows
  <2> QED
    BY <2>1, <2>2, TruthStays DEF Served
<1>4. r.stage = "built" => Truth(r.answer, r.kind, r.of, r.began, x)
  BY <1>1, TruthStays DEF RequestKnows
<1>5. r.stage \in {"built", "answered"} => NotShown(r.answer, r.began, x)
  BY <1>1, TruthStays DEF RequestKnows
<1> QED
  BY <1>1, <1>2, <1>3, <1>4, <1>5 DEF RequestKnows

LEMMA EntryStays ==
  ASSUME NEW w, NEW x, WorldTyped(w), WorldTyped(x), Follows(x, w), NEW k, NEW entry, EntryKnows(k, entry, w)
  PROVE  EntryKnows(k, entry, x)
<1> SUFFICES ASSUME entry.expiresAt >= 0
             PROVE  \E b \in Int : entry.expiresAt <= b + ViewLatency + ViewTTL /\ b <= x.steps /\ Truth(entry.answer, k, Tiers, b, x)
  BY DEF EntryKnows
<1>1. PICK b \in Int : entry.expiresAt <= b + ViewLatency + ViewTTL /\ b <= w.steps /\ Truth(entry.answer, k, Tiers, b, w)
  BY DEF EntryKnows
<1>2. b <= x.steps
  BY <1>1 DEF WorldTyped, Follows
<1> QED
  BY <1>1, <1>2, TruthStays

LEMMA WorldIs ==
  /\ World.fleet = fleet /\ World.settled = settled /\ World.steps = steps
  /\ World'.fleet = fleet' /\ World'.settled = settled' /\ World'.steps = steps'
BY DEF World

\* The fleet changes, or the clock.
LEMMA FleetMoves ==
  ASSUME ViewInv, WorldTyped(World)', Follows(World', World), UNCHANGED <<cached, view>>,
         \A v \in Viewers : view[v].stage \notin {"idle", "answered"} => World'.steps <= view[v].began + ViewLatency
  PROVE  ViewInv'
<1>1. \A v \in Viewers : ViewTyped(view[v]) /\ RequestKnows(view[v], World')
  BY RequestStays DEF ViewInv, ViewsKnow
<1>2. \A k \in Cached : EntryKnows(k, cached[k], World')
  BY EntryStays DEF ViewInv, CacheKnows
<1> QED
  BY <1>1, <1>2 DEF ViewInv, ViewsKnow, CacheKnows

\* A changed row is one that has settled now.
LEMMA HostChanges ==
  ASSUME ViewInv, NEW h \in Fleet, NEW rows, Change(h, rows),
         DOMAIN rows \subseteq Fleet, \A g \in DOMAIN rows : rows[g] \in FleetRow,
         \A g \in Fleet \ {h} : (g \in DOMAIN rows <=> g \in DOMAIN fleet) /\ (g \in DOMAIN fleet => rows[g] = fleet[g])
  PROVE  ViewInv'
<1>1. fleet' = rows /\ settled' = [settled EXCEPT ![h] = steps] /\ steps' = steps /\ UNCHANGED <<cached, view>>
  BY DEF Change
<1>2. WorldTyped(World)
  BY DEF ViewInv
<1>3. settled \in [Fleet -> Int] /\ steps \in Nat
  BY <1>2, WorldIs DEF WorldTyped
<1>4. World'.fleet = rows /\ World'.settled = [settled EXCEPT ![h] = steps] /\ World'.steps = steps
  BY <1>1, WorldIs
<1>5. WorldTyped(World')
  BY <1>3, <1>4 DEF WorldTyped
<1>6. Follows(World', World)
  BY <1>3, <1>4, WorldIs DEF Follows
<1>7. \A v \in Viewers : view[v].stage \notin {"idle", "answered"} => World'.steps <= view[v].began + ViewLatency
  BY <1>4, WorldIs DEF ViewInv, ViewsKnow, RequestKnows
<1> QED
  BY <1>1, <1>5, <1>6, <1>7, FleetMoves

LEMMA HostEdited ==
  ASSUME ViewInv, NEW h \in Fleet, Edit(h)
  PROVE  ViewInv'
<1>1. WorldTyped(World) /\ World.fleet = fleet /\ World.steps = steps
  BY WorldIs DEF ViewInv
<1>2. h \in DOMAIN fleet /\ DOMAIN fleet \subseteq Fleet /\ (\A g \in DOMAIN fleet : fleet[g] \in FleetRow) /\ steps \in Nat
  BY <1>1 DEF Edit, WorldTyped
<1>3. ASSUME NEW row \in FleetRow, Change(h, [fleet EXCEPT ![h] = row])
      PROVE  ViewInv'
  <2> DEFINE rows == [fleet EXCEPT ![h] = row]
  <2>1. DOMAIN rows = DOMAIN fleet /\ rows[h] = row /\ \A g \in DOMAIN fleet : g # h => rows[g] = fleet[g]
    BY <1>2
  <2>2. Change(h, rows)
    BY <1>3
  <2> HIDE DEF rows
  <2>3. DOMAIN rows \subseteq Fleet /\ \A g \in DOMAIN rows : rows[g] \in FleetRow
    BY <1>2, <2>1
  <2>4. \A g \in Fleet \ {h} : (g \in DOMAIN rows <=> g \in DOMAIN fleet) /\ (g \in DOMAIN fleet => rows[g] = fleet[g])
    BY <2>1
  <2> QED
    BY <2>2, <2>3, <2>4, HostChanges
<1>4. PICK row \in FleetRow : row = fleet[h]
  BY <1>2
<1>5. /\ \A x \in SUBSET ViewRules : [row EXCEPT !.alerts = x] \in FleetRow
      /\ \A x \in Windows \cup {NoWindow} : [row EXCEPT !.window = x] \in FleetRow
      /\ \A x \in BOOLEAN : [row EXCEPT !.allowed = x] \in FleetRow /\ [row EXCEPT !.tagged = x] \in FleetRow
      /\ [row EXCEPT !.last_seen = steps] \in FleetRow
      /\ row.alerts \in SUBSET ViewRules
  BY <1>2 DEF FleetRow
<1>6. CASE \E r \in ViewRules : Change(h, [fleet EXCEPT ![h].alerts = IF r \in @ THEN @ \ {r} ELSE @ \cup {r}])
  <2>1. PICK r \in ViewRules : Change(h, [fleet EXCEPT ![h].alerts = IF r \in @ THEN @ \ {r} ELSE @ \cup {r}])
    BY <1>6
  <2>2. PICK x \in SUBSET ViewRules : x = IF r \in row.alerts THEN row.alerts \ {r} ELSE row.alerts \cup {r}
    BY <1>5
  <2>3. Change(h, [fleet EXCEPT ![h] = [row EXCEPT !.alerts = x]])
    BY <1>4, <2>1, <2>2
  <2> QED
    BY <1>3, <1>5, <2>3
<1>7. CASE \E w \in Windows \cup {NoWindow} : Change(h, [fleet EXCEPT ![h].window = w])
  <2>1. PICK x \in Windows \cup {NoWindow} : Change(h, [fleet EXCEPT ![h].window = x])
    BY <1>7
  <2>2. Change(h, [fleet EXCEPT ![h] = [row EXCEPT !.window = x]])
    BY <1>4, <2>1
  <2> QED
    BY <1>3, <1>5, <2>2
<1>8. CASE Change(h, [fleet EXCEPT ![h].allowed = ~@])
  <2>1. Change(h, [fleet EXCEPT ![h] = [row EXCEPT !.allowed = ~row.allowed]])
    BY <1>4, <1>8
  <2>2. (~row.allowed) \in BOOLEAN
    OBVIOUS
  <2> QED
    BY <1>3, <1>5, <2>1, <2>2
<1>9. CASE Change(h, [fleet EXCEPT ![h].tagged = ~@])
  <2>1. Change(h, [fleet EXCEPT ![h] = [row EXCEPT !.tagged = ~row.tagged]])
    BY <1>4, <1>9
  <2>2. (~row.tagged) \in BOOLEAN
    OBVIOUS
  <2> QED
    BY <1>3, <1>5, <2>1, <2>2
<1>10. CASE Change(h, [fleet EXCEPT ![h].last_seen = steps])
  <2>1. Change(h, [fleet EXCEPT ![h] = [row EXCEPT !.last_seen = steps]])
    BY <1>4, <1>10
  <2> QED
    BY <1>3, <1>5, <2>1
<1> QED
  BY <1>6, <1>7, <1>8, <1>9, <1>10 DEF Edit

LEMMA HostRemoved ==
  ASSUME ViewInv, NEW h \in Fleet, RemoveFromFleet(h)
  PROVE  ViewInv'
<1>1. DOMAIN fleet \subseteq Fleet /\ \A g \in DOMAIN fleet : fleet[g] \in FleetRow
  BY WorldIs DEF ViewInv, WorldTyped
<1> DEFINE rows == Only(fleet, Fleet \ {h})
<1>2. DOMAIN rows = DOMAIN fleet \ {h} /\ \A g \in DOMAIN fleet \ {h} : rows[g] = fleet[g]
  BY <1>1 DEF Only
<1>3. Change(h, rows)
  BY DEF RemoveFromFleet
<1> HIDE DEF rows
<1>4. DOMAIN rows \subseteq Fleet /\ \A g \in DOMAIN rows : rows[g] \in FleetRow
  BY <1>1, <1>2
<1>5. \A g \in Fleet \ {h} : (g \in DOMAIN rows <=> g \in DOMAIN fleet) /\ (g \in DOMAIN fleet => rows[g] = fleet[g])
  BY <1>2
<1> QED
  BY <1>3, <1>4, <1>5, HostChanges

LEMMA HostAdded ==
  ASSUME ViewInv, NEW h \in Fleet, AddToFleet(h)
  PROVE  ViewInv'
<1>1. DOMAIN fleet \subseteq Fleet /\ (\A g \in DOMAIN fleet : fleet[g] \in FleetRow) /\ steps \in Nat
  BY WorldIs DEF ViewInv, WorldTyped
<1>2. New \in FleetRow
  BY <1>1 DEF New, FleetRow
<1> DEFINE rows == [g \in DOMAIN fleet \cup {h} |-> IF g = h THEN New ELSE fleet[g]]
<1>3. DOMAIN rows = DOMAIN fleet \cup {h} /\ rows[h] = New /\ \A g \in DOMAIN fleet : g # h => rows[g] = fleet[g]
  OBVIOUS
<1>4. Change(h, rows)
  BY DEF AddToFleet
<1> HIDE DEF rows
<1>5. DOMAIN rows \subseteq Fleet /\ \A g \in DOMAIN rows : rows[g] \in FleetRow
  BY <1>1, <1>2, <1>3
<1>6. \A g \in Fleet \ {h} : (g \in DOMAIN rows <=> g \in DOMAIN fleet) /\ (g \in DOMAIN fleet => rows[g] = fleet[g])
  BY <1>3
<1> QED
  BY <1>4, <1>5, <1>6, HostChanges

LEMMA ViewsTick ==
  ASSUME ViewInv, ViewTick
  PROVE  ViewInv'
<1>1. UNCHANGED <<fleet, settled, cached, view>> /\ steps' = steps + 1
  BY DEF ViewTick
<1>2. WorldTyped(World)
  BY DEF ViewInv
<1>3. World'.fleet = World.fleet /\ World'.settled = World.settled /\ World'.steps = World.steps + 1
  BY <1>1, WorldIs
<1>4. WorldTyped(World') /\ Follows(World', World)
  BY <1>2, <1>3 DEF WorldTyped, Follows
<1>5. \A v \in Viewers : view[v].stage \notin {"idle", "answered"} => World'.steps <= view[v].began + ViewLatency
  <2> SUFFICES ASSUME NEW v \in Viewers, view[v].stage \notin {"idle", "answered"}
               PROVE  World'.steps <= view[v].began + ViewLatency
    OBVIOUS
  <2>1. steps < view[v].began + ViewLatency
    BY DEF ViewTick
  <2>2. view[v].began \in Nat /\ ViewLatency \in Nat /\ steps \in Nat
    BY <1>2, ViewConstants, WorldIs DEF ViewInv, ViewsKnow, ViewTyped, WorldTyped
  <2> QED
    BY <1>3, <2>1, <2>2, WorldIs
<1> QED
  BY <1>1, <1>4, <1>5, FleetMoves

-----------------------------------------------------------------------------
(* The requests.                                                           *)

\* A request moves on, on a fleet that stands.
LEMMA RequestMoves ==
  ASSUME ViewInv, NEW v \in Viewers, NEW r, Goes(v, r), ViewTyped(r), RequestKnows(r, World),
         UNCHANGED <<fleet, settled, steps>>, CacheKnows(World)'
  PROVE  ViewInv'
<1>1. World' = World
  BY DEF World
<1>2. DOMAIN view = Viewers /\ \A u \in Viewers : ViewTyped(view[u]) /\ RequestKnows(view[u], World)
  BY DEF ViewInv, ViewsKnow
<1>3. DOMAIN view' = Viewers /\ view'[v] = r /\ \A u \in Viewers : u # v => view'[u] = view[u]
  BY <1>2 DEF Goes
<1>4. \A u \in Viewers : ViewTyped(view'[u]) /\ RequestKnows(view'[u], World')
  BY <1>1, <1>2, <1>3
<1>5. WorldTyped(World')
  BY <1>1 DEF ViewInv
<1> QED
  BY <1>3, <1>4, <1>5 DEF ViewInv, ViewsKnow

\* Nothing is written to KV.
LEMMA CacheStands ==
  ASSUME ViewInv, UNCHANGED <<fleet, settled, steps, cached>>
  PROVE  CacheKnows(World)'
<1>1. World' = World
  BY DEF World
<1> QED
  BY <1>1 DEF ViewInv, CacheKnows

LEMMA NothingIs ==
  /\ DOMAIN NoAnswer = AnswerFields /\ NoAnswer.tiers = <<>> /\ NoAnswer.listed = {} /\ DOMAIN NoAnswer.tiers = {}
  /\ DOMAIN Quiet = ViewFields /\ Quiet.stage = "idle" /\ Quiet.kind = "hosts" /\ Quiet.of = Tiers /\ Quiet.began = 0
  /\ Quiet.alerts = <<>> /\ Quiet.ports = <<>> /\ Quiet.tags = <<>> /\ Quiet.answer = NoAnswer
BY DEF NoAnswer, AnswerFields, Quiet, ViewFields

LEMMA ViewAsked ==
  ASSUME ViewInv, NEW v \in Viewers, Ask(v)
  PROVE  ViewInv'
<1>1. PICK kind \in Kinds, of \in {Tiers, {"critical"}} :
        /\ of # Tiers => kind = "monitoring"
        /\ Goes(v, [Quiet EXCEPT !.stage = IF kind \in Cached THEN "cache" ELSE "rows",
                                 !.kind = kind, !.of = of, !.began = steps])
  BY DEF Ask
<1>2. PICK r : r = [Quiet EXCEPT !.stage = IF kind \in Cached THEN "cache" ELSE "rows",
                                 !.kind = kind, !.of = of, !.began = steps]
  OBVIOUS
<1>3. /\ DOMAIN r = ViewFields /\ r.stage = (IF kind \in Cached THEN "cache" ELSE "rows") /\ r.kind = kind /\ r.of = of
      /\ r.began = steps /\ r.alerts = <<>> /\ r.ports = <<>> /\ r.tags = <<>> /\ r.answer = NoAnswer
  BY <1>2, NothingIs DEF ViewFields
<1>4. steps \in Nat /\ World.steps = steps /\ ViewLatency \in Nat
  BY ViewConstants, WorldIs DEF ViewInv, WorldTyped
<1>5. ViewTyped(r)
  <2>1. of \subseteq Tiers /\ (kind \in Cached => of = Tiers)
    BY <1>1 DEF Tiers, Cached
  <2> QED
    BY <1>3, <1>4, <2>1, NothingIs DEF ViewTyped, Stages
<1>6. RequestKnows(r, World)
  BY <1>3, <1>4 DEF RequestKnows
<1>7. UNCHANGED <<fleet, settled, steps, cached>>
  BY DEF Ask
<1> QED
  BY <1>1, <1>2, <1>5, <1>6, <1>7, CacheStands, RequestMoves

LEMMA CacheHit ==
  ASSUME ViewInv, NEW v \in Viewers, TryReadCache(v)
  PROVE  ViewInv'
<1>1. PICK q : q = view[v] /\ ViewTyped(q) /\ RequestKnows(q, World)
  BY DEF ViewInv, ViewsKnow
<1>2. PICK e : e = cached[q.kind]
  OBVIOUS
<1>3. PICK r : r = [q EXCEPT !.stage = "hit", !.answer = e.answer]
  OBVIOUS
<1>4. /\ q.stage = "cache" /\ q.kind \in Cached /\ Fresh(e) /\ Goes(v, r)
      /\ UNCHANGED <<fleet, settled, steps, cached>>
  BY <1>1, <1>2, <1>3 DEF TryReadCache, At, ViewTyped
<1>5. /\ DOMAIN r = ViewFields /\ r.stage = "hit" /\ r.answer = e.answer /\ r.kind = q.kind /\ r.of = q.of /\ r.began = q.began
  BY <1>1, <1>3 DEF ViewTyped, ViewFields
<1>6. EntryKnows(q.kind, e, World) /\ steps < e.expiresAt
  BY <1>2, <1>4 DEF ViewInv, CacheKnows, Fresh
<1>7. steps \in Nat /\ World.steps = steps /\ ViewLatency \in Nat /\ ViewTTL \in Nat /\ q.began \in Nat /\ q.began <= steps
  BY <1>1, ViewConstants, WorldIs DEF ViewInv, WorldTyped, ViewTyped, RequestKnows
<1>8. PICK b \in Int : e.expiresAt <= b + ViewLatency + ViewTTL /\ b <= steps /\ Truth(e.answer, q.kind, Tiers, b, World)
  BY <1>6, <1>7 DEF EntryKnows
<1>9. Served(r, World)
  <2>1. Behind(r) = q.began - (ViewTTL + ViewLatency)
    BY <1>4, <1>5 DEF Behind
  <2>2. e.expiresAt \in Int
    BY <1>6 DEF EntryKnows
  <2>3. Behind(r) <= b
    BY <1>6, <1>7, <1>8, <2>1, <2>2
  <2>4. r.of = Tiers
    BY <1>1, <1>4, <1>5 DEF ViewTyped
  <2> QED
    BY <1>5, <1>7, <1>8, <2>3, <2>4 DEF Served
<1>10. ViewTyped(r)
  BY <1>1, <1>4, <1>5, <1>6 DEF ViewTyped, Stages, EntryKnows
<1>11. RequestKnows(r, World)
  BY <1>1, <1>4, <1>5, <1>9 DEF RequestKnows
<1> QED
  BY <1>4, <1>10, <1>11, CacheStands, RequestMoves

LEMMA CacheMissed ==
  ASSUME ViewInv, NEW v \in Viewers, MissCache(v)
  PROVE  ViewInv'
<1>1. PICK q : q = view[v] /\ ViewTyped(q) /\ RequestKnows(q, World)
  BY DEF ViewInv, ViewsKnow
<1>2. PICK r : r = [q EXCEPT !.stage = "rows"]
  OBVIOUS
<1>3. q.stage = "cache" /\ Goes(v, r) /\ UNCHANGED <<fleet, settled, steps, cached>>
  BY <1>1, <1>2 DEF MissCache, At
<1>4. /\ DOMAIN r = ViewFields /\ r.stage = "rows" /\ r.answer = q.answer /\ r.kind = q.kind /\ r.of = q.of /\ r.began = q.began
      /\ r.alerts = q.alerts /\ r.ports = q.ports /\ r.tags = q.tags
  BY <1>1, <1>2 DEF ViewTyped, ViewFields
<1>5. ViewTyped(r)
  BY <1>1, <1>3, <1>4 DEF ViewTyped, Stages
<1>6. RequestKnows(r, World)
  BY <1>1, <1>3, <1>4 DEF RequestKnows
<1> QED
  BY <1>3, <1>5, <1>6, CacheStands, RequestMoves

\* Filtering by the hosts that are active shows nothing that is gone.
LEMMA HitServed ==
  ASSUME ViewInv, NEW v \in Viewers, ServeHit(v)
  PROVE  ViewInv'
<1>1. PICK q : q = view[v] /\ ViewTyped(q) /\ RequestKnows(q, World)
  BY DEF ViewInv, ViewsKnow
<1>2. PICK a : a = ActiveOnly(q.answer)
  OBVIOUS
<1>3. PICK r : r = [q EXCEPT !.stage = "answered", !.answer = a]
  OBVIOUS
<1>4. q.stage = "hit" /\ Goes(v, r) /\ UNCHANGED <<fleet, settled, steps, cached>>
  <2>1. [view[v] EXCEPT !.stage = "answered", !.answer = ActiveOnly(@)] = r
    BY <1>1, <1>2, <1>3
  <2> QED
    BY <1>1, <2>1 DEF ServeHit, At
<1>5. /\ DOMAIN r = ViewFields /\ r.stage = "answered" /\ r.answer = a /\ r.kind = q.kind /\ r.of = q.of /\ r.began = q.began
  BY <1>1, <1>3 DEF ViewTyped, ViewFields
<1>6. /\ DOMAIN a = AnswerFields /\ a.groups = q.answer.groups /\ a.overall = q.answer.overall
      /\ DOMAIN a.tiers = DOMAIN q.answer.tiers \cap DOMAIN fleet
      /\ \A h \in DOMAIN a.tiers : a.tiers[h] = q.answer.tiers[h]
      /\ \A h, rule : <<h, rule>> \in a.listed <=> <<h, rule>> \in q.answer.listed /\ h \in DOMAIN fleet
  <2>1. PICK old : old = q.answer /\ DOMAIN old = AnswerFields
    BY <1>1 DEF ViewTyped
  <2>2. a = [old EXCEPT !.tiers = Only(old.tiers, DOMAIN fleet), !.listed = {x \in old.listed : x[1] \in DOMAIN fleet}]
    BY <1>2, <2>1 DEF ActiveOnly
  <2>3. /\ DOMAIN a = AnswerFields /\ a.groups = old.groups /\ a.overall = old.overall
        /\ a.tiers = Only(old.tiers, DOMAIN fleet) /\ a.listed = {x \in old.listed : x[1] \in DOMAIN fleet}
    BY <2>1, <2>2 DEF AnswerFields
  <2> QED
    BY <2>1, <2>3 DEF Only
<1>7. World.fleet = fleet /\ World.steps = steps
  BY WorldIs
<1>8. NotShown(a, r.began, World)
  BY <1>6, <1>7 DEF NotShown
<1>9. Served(r, World)
  <2>1. PICK b \in Int : Behind(q) <= b /\ b <= steps /\ Truth(q.answer, q.kind, q.of, b, World)
    BY <1>1, <1>4, <1>7 DEF RequestKnows, Served
  <2>2. ASSUME NEW h \in DOMAIN fleet, NEW row, NEW due, Tells(q.answer, q.kind, q.of, h, row, due)
        PROVE  Tells(a, q.kind, q.of, h, row, due)
    <3>1. (h \in DOMAIN a.tiers <=> h \in DOMAIN q.answer.tiers) /\ (h \in DOMAIN a.tiers => a.tiers[h] = q.answer.tiers[h])
      BY <1>6
    <3>2. {x \in ViewRules : <<h, x>> \in a.listed} = {x \in ViewRules : <<h, x>> \in q.answer.listed}
      BY <1>6
    <3>3. a.groups = q.answer.groups /\ a.overall = q.answer.overall
      BY <1>6
    <3> QED
      BY <2>2, <3>1, <3>2, <3>3 DEF Tells
  <2>3. Truth(a, q.kind, q.of, b, World)
    BY <1>7, <2>1, <2>2 DEF Truth
  <2>4. Behind(r) = Behind(q)
    BY <1>5 DEF Behind
  <2> QED
    BY <1>5, <1>7, <2>1, <2>3, <2>4 DEF Served
<1>10. ViewTyped(r)
  BY <1>1, <1>5, <1>6 DEF ViewTyped, Stages
<1>11. RequestKnows(r, World)
  BY <1>1, <1>5, <1>8, <1>9 DEF RequestKnows
<1> QED
  BY <1>4, <1>10, <1>11, CacheStands, RequestMoves

LEMMA RowsRead ==
  ASSUME ViewInv, NEW v \in Viewers, ReadRows(v)
  PROVE  ViewInv'
<1>1. PICK q : q = view[v] /\ ViewTyped(q) /\ RequestKnows(q, World)
  BY DEF ViewInv, ViewsKnow
<1>2. PICK now \in (IF q.kind = "detail" THEN {steps} ELSE q.began..steps) :
        Goes(v, [q EXCEPT !.stage = IF DOMAIN fleet = {} THEN "built" ELSE "beside", !.now = now, !.rows = fleet])
  BY <1>1 DEF ReadRows
<1>3. PICK r : r = [q EXCEPT !.stage = IF DOMAIN fleet = {} THEN "built" ELSE "beside", !.now = now, !.rows = fleet]
  OBVIOUS
<1>4. q.stage = "rows" /\ q.kind # "alerts" /\ UNCHANGED <<fleet, settled, steps, cached>>
  BY <1>1 DEF ReadRows, At
<1>5. /\ DOMAIN r = ViewFields /\ r.stage = (IF DOMAIN fleet = {} THEN "built" ELSE "beside") /\ r.now = now /\ r.rows = fleet
      /\ r.kind = q.kind /\ r.of = q.of /\ r.began = q.began
      /\ r.answer = q.answer /\ r.alerts = q.alerts /\ r.ports = q.ports /\ r.tags = q.tags
  BY <1>1, <1>3 DEF ViewTyped, ViewFields
<1>6. q.answer = NoAnswer /\ q.alerts = <<>> /\ q.ports = <<>> /\ q.tags = <<>>
  BY <1>1, <1>4 DEF ViewTyped
<1>7. World.fleet = fleet /\ World.steps = steps /\ steps \in Nat /\ q.began \in Nat /\ q.began <= steps
  BY <1>1, WorldIs DEF ViewInv, WorldTyped, ViewTyped, RequestKnows
<1>8. now \in 0..steps /\ now >= q.began
  BY <1>2, <1>7
<1>9. ReadSoFar(r, World)
  BY <1>4, <1>5, <1>6, <1>7, <1>8 DEF ReadSoFar
<1>10. DOMAIN fleet = {} => Truth(r.answer, r.kind, r.of, r.began, World)
  BY <1>7 DEF Truth
<1>11. NotShown(r.answer, r.began, World)
  BY <1>5, <1>6, NothingIs DEF NotShown
<1>12. ViewTyped(r)
  BY <1>1, <1>5, <1>6, <1>4 DEF ViewTyped, Stages
<1>13. RequestKnows(r, World)
  BY <1>1, <1>4, <1>5, <1>9, <1>10, <1>11 DEF RequestKnows
<1> QED
  BY <1>2, <1>3, <1>4, <1>12, <1>13, CacheStands, RequestMoves

\* What is beside the rows is read of the hosts in them.
LEMMA BesideRead ==
  ASSUME ViewInv, NEW v \in Viewers, ReadBeside(v)
  PROVE  ViewInv'
<1>1. PICK q : q = view[v] /\ ViewTyped(q) /\ RequestKnows(q, World)
  BY DEF ViewInv, ViewsKnow
<1> DEFINE hs == DOMAIN q.rows
           alerts == [h \in hs |-> IF h \in DOMAIN fleet THEN fleet[h].alerts ELSE {}]
           ports == [h \in hs |-> h \in DOMAIN fleet /\ fleet[h].allowed]
           tags == [h \in hs |-> h \in DOMAIN fleet /\ fleet[h].tagged]
<1>2. q.stage = "beside" /\ UNCHANGED <<fleet, settled, steps, cached>>
  BY <1>1 DEF ReadBeside, At
<1>3. \/ Goes(v, [q EXCEPT !.alerts = alerts])
      \/ Goes(v, [q EXCEPT !.ports = ports])
      \/ Goes(v, [q EXCEPT !.tags = tags])
  BY <1>1 DEF ReadBeside
<1>4. ReadSoFar(q, World) /\ World.fleet = fleet /\ \A h \in DOMAIN fleet : fleet[h] \in FleetRow
  BY <1>1, <1>2, WorldIs DEF RequestKnows, ViewInv, WorldTyped
<1>5. \A h \in hs : h \in DOMAIN fleet =>
        alerts[h] = fleet[h].alerts /\ ports[h] = fleet[h].allowed /\ tags[h] = fleet[h].tagged
  <2> SUFFICES ASSUME NEW h \in hs, h \in DOMAIN fleet
               PROVE  alerts[h] = fleet[h].alerts /\ ports[h] = fleet[h].allowed /\ tags[h] = fleet[h].tagged
    OBVIOUS
  <2>1. fleet[h].allowed \in BOOLEAN /\ fleet[h].tagged \in BOOLEAN
    BY <1>4 DEF FleetRow
  <2> QED
    BY <2>1
<1> HIDE DEF alerts, ports, tags
<1>6. ASSUME NEW r, Goes(v, r), DOMAIN r = ViewFields,
             r.stage = q.stage, r.kind = q.kind, r.of = q.of, r.began = q.began, r.now = q.now, r.rows = q.rows, r.answer = q.answer,
             r.alerts = q.alerts \/ r.alerts = alerts, r.ports = q.ports \/ r.ports = ports, r.tags = q.tags \/ r.tags = tags
      PROVE  ViewInv'
  <2>1. ReadSoFar(r, World)
    <3>1. /\ r.kind # "alerts" /\ r.now \in 0..World.steps /\ r.now >= r.began
          /\ \A h \in Fleet \ DOMAIN World.fleet : World.settled[h] < r.began => h \notin DOMAIN r.rows
      BY <1>4, <1>6 DEF ReadSoFar
    <3>2. ASSUME NEW h \in DOMAIN World.fleet, World.settled[h] < r.began
          PROVE  /\ h \in DOMAIN r.rows /\ r.rows[h] = World.fleet[h]
                 /\ r.alerts # <<>> => r.alerts[h] = World.fleet[h].alerts
                 /\ r.ports # <<>> => r.ports[h] = World.fleet[h].allowed
                 /\ r.tags # <<>> => r.tags[h] = World.fleet[h].tagged
      <4>1. /\ h \in DOMAIN q.rows /\ q.rows[h] = World.fleet[h]
            /\ q.alerts # <<>> => q.alerts[h] = World.fleet[h].alerts
            /\ q.ports # <<>> => q.ports[h] = World.fleet[h].allowed
            /\ q.tags # <<>> => q.tags[h] = World.fleet[h].tagged
        BY <1>4, <1>6, <3>2 DEF ReadSoFar
      <4>2. alerts[h] = World.fleet[h].alerts /\ ports[h] = World.fleet[h].allowed /\ tags[h] = World.fleet[h].tagged
        BY <1>4, <1>5, <3>2, <4>1
      <4> QED
        BY <1>6, <4>1, <4>2
    <3> QED
      BY <3>1, <3>2 DEF ReadSoFar
  <2>2. ViewTyped(r)
    BY <1>1, <1>2, <1>6 DEF ViewTyped
  <2>3. RequestKnows(r, World)
    BY <1>1, <1>2, <1>6, <2>1 DEF RequestKnows
  <2> QED
    BY <1>2, <1>6, <2>2, <2>3, CacheStands, RequestMoves
<1>7. CASE Goes(v, [q EXCEPT !.alerts = alerts])
  <2>1. PICK r : r = [q EXCEPT !.alerts = alerts]
    OBVIOUS
  <2>2. /\ DOMAIN r = ViewFields /\ r.stage = q.stage /\ r.kind = q.kind /\ r.of = q.of /\ r.began = q.began /\ r.now = q.now
        /\ r.rows = q.rows /\ r.answer = q.answer /\ r.alerts = alerts /\ r.ports = q.ports /\ r.tags = q.tags
    BY <1>1, <2>1 DEF ViewTyped, ViewFields
  <2> QED
    BY <1>6, <1>7, <2>1, <2>2
<1>8. CASE Goes(v, [q EXCEPT !.ports = ports])
  <2>1. PICK r : r = [q EXCEPT !.ports = ports]
    OBVIOUS
  <2>2. /\ DOMAIN r = ViewFields /\ r.stage = q.stage /\ r.kind = q.kind /\ r.of = q.of /\ r.began = q.began /\ r.now = q.now
        /\ r.rows = q.rows /\ r.answer = q.answer /\ r.alerts = q.alerts /\ r.ports = ports /\ r.tags = q.tags
    BY <1>1, <2>1 DEF ViewTyped, ViewFields
  <2> QED
    BY <1>6, <1>8, <2>1, <2>2
<1>9. CASE Goes(v, [q EXCEPT !.tags = tags])
  <2>1. PICK r : r = [q EXCEPT !.tags = tags]
    OBVIOUS
  <2>2. /\ DOMAIN r = ViewFields /\ r.stage = q.stage /\ r.kind = q.kind /\ r.of = q.of /\ r.began = q.began /\ r.now = q.now
        /\ r.rows = q.rows /\ r.answer = q.answer /\ r.alerts = q.alerts /\ r.ports = q.ports /\ r.tags = tags
    BY <1>1, <2>1 DEF ViewTyped, ViewFields
  <2> QED
    BY <1>6, <1>9, <2>1, <2>2
<1> QED
  BY <1>3, <1>7, <1>8, <1>9

LEMMA PairsAre ==
  ASSUME NEW S, NEW f
  PROVE  \A h, rule : <<h, rule>> \in UNION {{<<g, x>> : x \in f[g]} : g \in S} <=> h \in S /\ rule \in f[h]
OBVIOUS

LEMMA BuiltAnswers ==
  ASSUME NEW r
  PROVE  /\ DOMAIN BuildList(r) = AnswerFields /\ DOMAIN BuildGroups(r) = AnswerFields /\ DOMAIN BuildFleet(r) = AnswerFields
         /\ BuildList(r).tiers = [h \in Shown(r) |-> TierOf(r, h)] /\ BuildList(r).listed = Listed(r)
         /\ BuildGroups(r).groups = Groups(r) /\ BuildGroups(r).tiers = <<>> /\ BuildGroups(r).listed = {}
         /\ BuildFleet(r).tiers = <<>> /\ BuildFleet(r).listed = {}
         /\ BuildFleet(r).overall = SummarizeHostStatuses({TierOf(r, h) : h \in DOMAIN r.rows})
BY DEF BuildList, BuildGroups, BuildFleet, NoAnswer, AnswerFields

LEMMA ListedIs ==
  ASSUME NEW r, NEW h, NEW rule
  PROVE  <<h, rule>> \in Listed(r) <=> h \in Shown(r) /\ TierOf(r, h) # "maintenance" /\ rule \in r.alerts[h]
<1> DEFINE S == {g \in Shown(r) : TierOf(r, g) # "maintenance"}
           f == r.alerts
<1>1. Listed(r) = UNION {{<<g, x>> : x \in f[g]} : g \in S}
  BY DEF Listed
<1>2. h \in S <=> h \in Shown(r) /\ TierOf(r, h) # "maintenance"
  OBVIOUS
<1> HIDE DEF S
<1> QED
  BY <1>1, <1>2, PairsAre

\* A host that was read as it is is shown as it is, by each of the answers.
LEMMA ListTells ==
  ASSUME NEW r, NEW row \in FleetRow, NEW h \in DOMAIN r.rows, NEW due \in Tiers,
         TierOf(r, h) = due, r.alerts[h] = row.alerts, r.kind \in {"hosts", "detail", "monitoring"}
  PROVE  Tells(BuildList(r), r.kind, r.of, h, row, due)
<1>1. h \in Shown(r) <=> due \in r.of
  BY DEF Shown
<1>2. DOMAIN BuildList(r).tiers = Shown(r) /\ (h \in Shown(r) => BuildList(r).tiers[h] = due)
  BY BuiltAnswers
<1>3. h \in Shown(r) =>
        {x \in ViewRules : <<h, x>> \in BuildList(r).listed} = IF due = "maintenance" THEN {} ELSE row.alerts
  <2>1. row.alerts \subseteq ViewRules
    BY DEF FleetRow
  <2>2. \A x : <<h, x>> \in BuildList(r).listed <=> h \in Shown(r) /\ due # "maintenance" /\ x \in row.alerts
    <3> TAKE x
    <3>1. BuildList(r).listed = Listed(r)
      BY BuiltAnswers
    <3>2. <<h, x>> \in Listed(r) <=> h \in Shown(r) /\ TierOf(r, h) # "maintenance" /\ x \in r.alerts[h]
      BY ListedIs
    <3> QED
      BY <3>1, <3>2
  <2> QED
    BY <2>1, <2>2
<1>4. r.kind # "alerts" /\ r.kind # "fleet" /\ r.kind # "groups"
  OBVIOUS
<1> QED
  BY <1>1, <1>2, <1>3, <1>4 DEF Tells

LEMMA FleetTells ==
  ASSUME NEW r, NEW row \in FleetRow, NEW h \in DOMAIN r.rows, NEW due \in Tiers, TierOf(r, h) = due, r.kind = "fleet"
  PROVE  Tells(BuildFleet(r), r.kind, r.of, h, row, due)
<1> DEFINE tiers == {TierOf(r, g) : g \in DOMAIN r.rows}
<1>1. due \in tiers /\ BuildFleet(r).overall = SummarizeHostStatuses(tiers) /\ BuildFleet(r).tiers = <<>>
  BY BuiltAnswers
<1> HIDE DEF tiers
<1>2. due \in {"critical", "offline"} => SummarizeHostStatuses(tiers) = "critical"
  BY <1>1 DEF SummarizeHostStatuses
<1>3. due = "warning" => SummarizeHostStatuses(tiers) \in {"degraded", "critical"}
  BY <1>1 DEF SummarizeHostStatuses
<1>4. h \notin DOMAIN BuildFleet(r).tiers
  BY <1>1, NothingIs
<1> QED
  BY <1>1, <1>2, <1>3, <1>4 DEF Tells

LEMMA GroupsTell ==
  ASSUME NEW r, NEW row \in FleetRow, NEW h \in DOMAIN r.rows, NEW due \in Tiers,
         TierOf(r, h) = due, r.tags[h] \in BOOLEAN, r.kind = "groups"
  PROVE  Tells(BuildGroups(r), r.kind, r.of, h, row, due)
<1> DEFINE Of(t) == {g \in DOMAIN r.rows : r.tags[g] = t}
           t == r.tags[h]
           T == {TierOf(r, g) : g \in Of(t)}
<1>1. Groups(r) = [x \in {u \in BOOLEAN : Of(u) # {}} |-> WorstTier({TierOf(r, g) : g \in Of(x)})]
  BY DEF Groups
<1>2. h \in Of(t)
  OBVIOUS
<1>3. t \in DOMAIN Groups(r) /\ Groups(r)[t] = WorstTier(T)
  BY <1>1, <1>2
<1>4. T \subseteq Tiers /\ due \in T
  BY <1>2, StatusIsTier DEF TierOf
<1> HIDE DEF T, Of, t
<1>5. Priority[due] <= Priority[Groups(r)[t]]
  BY <1>3, <1>4, WorstIs
<1>6. WorstTier(T) \in Tiers /\ \A u \in Tiers : Priority[u] \in Nat
  <2>1. WorstTier(T) \in T
    BY <1>4, WorstIs
  <2>2. \A u \in Tiers : Priority[u] \in Nat
    BY PriorityIs DEF Tiers
  <2> QED
    BY <1>4, <2>1, <2>2
<1>7. Priority[Groups(r)[t]] >= Priority[due]
  BY <1>3, <1>5, <1>6
<1>8. BuildGroups(r).groups = Groups(r) /\ h \notin DOMAIN BuildGroups(r).tiers
  BY BuiltAnswers, NothingIs
<1> QED
  BY <1>3, <1>7, <1>8 DEF Tells

LEMMA BuildTells ==
  ASSUME NEW r, NEW row \in FleetRow, NEW h \in DOMAIN r.rows, NEW due \in Tiers, TierOf(r, h) = due, r.alerts[h] = row.alerts,
         r.kind = "groups" => r.tags[h] \in BOOLEAN, r.kind \in Kinds, r.kind # "alerts"
  PROVE  Tells(Build(r), r.kind, r.of, h, row, due)
<1>1. CASE r.kind = "fleet"
  BY <1>1, FleetTells DEF Build
<1>2. CASE r.kind = "groups"
  BY <1>2, GroupsTell DEF Build
<1>3. CASE r.kind \in {"hosts", "detail", "monitoring"}
  BY <1>3, ListTells DEF Build, BuildDetail
<1> QED
  BY <1>1, <1>2, <1>3 DEF Kinds, Cached

LEMMA BuildOmits ==
  ASSUME NEW r, NEW h, h \notin DOMAIN r.rows
  PROVE  h \notin DOMAIN Build(r).tiers /\ \A x : <<h, x>> \notin Build(r).listed
<1>1. h \notin Shown(r)
  BY DEF Shown
<1>2. h \notin DOMAIN BuildList(r).tiers /\ \A x : <<h, x>> \notin BuildList(r).listed
  BY <1>1, BuiltAnswers, ListedIs
<1>3. /\ h \notin DOMAIN BuildGroups(r).tiers /\ \A x : <<h, x>> \notin BuildGroups(r).listed
      /\ h \notin DOMAIN BuildFleet(r).tiers /\ \A x : <<h, x>> \notin BuildFleet(r).listed
  BY BuiltAnswers, NothingIs
<1> QED
  BY <1>2, <1>3 DEF Build, BuildDetail

LEMMA ViewBuilt ==
  ASSUME ViewInv, NEW v \in Viewers, BuildView(v)
  PROVE  ViewInv'
<1>1. PICK q : q = view[v] /\ ViewTyped(q) /\ RequestKnows(q, World)
  BY DEF ViewInv, ViewsKnow
<1>2. PICK a : a = Build(q)
  OBVIOUS
<1>3. PICK r : r = Done(q, "built", a)
  OBVIOUS
<1>4. q.stage = "beside" /\ Complete(q) /\ Goes(v, r) /\ UNCHANGED <<fleet, settled, steps, cached>>
  BY <1>1, <1>2, <1>3 DEF BuildView, At
<1>5. /\ DOMAIN r = ViewFields /\ r.stage = "built" /\ r.kind = q.kind /\ r.of = q.of /\ r.began = q.began /\ r.answer = a
  BY <1>3, NothingIs DEF Done, ViewFields
<1>6. ReadSoFar(q, World) /\ WorldTyped(World)
  BY <1>1, <1>4 DEF RequestKnows, ViewInv
<1>7. Truth(a, q.kind, q.of, q.began, World)
  <2> SUFFICES ASSUME NEW h \in DOMAIN World.fleet, World.settled[h] < q.began
               PROVE  \E now \in 0..World.steps :
                        now >= q.began /\ Tells(a, q.kind, q.of, h, World.fleet[h], DueOf(World.fleet[h], now))
    BY DEF Truth
  <2>1. PICK row \in FleetRow : row = World.fleet[h]
    BY <1>6 DEF WorldTyped
  <2>2. /\ h \in DOMAIN q.rows /\ q.rows[h] = row /\ q.alerts[h] = row.alerts /\ q.ports[h] = row.allowed
        /\ q.kind = "groups" => q.tags[h] = row.tagged
    BY <1>4, <1>6, <2>1 DEF ReadSoFar, Complete
  <2>3. q.now \in 0..World.steps /\ q.now >= q.began /\ q.kind # "alerts" /\ q.now \in Nat
    BY <1>6 DEF ReadSoFar, WorldTyped
  <2>4. TierOf(q, h) = DueOf(row, q.now) /\ DueOf(row, q.now) \in Tiers
    BY <2>2, <2>3, StatusIsDue DEF TierOf
  <2>5. row.tagged \in BOOLEAN /\ q.kind \in Kinds
    BY <1>1 DEF FleetRow, ViewTyped
  <2>6. Tells(a, q.kind, q.of, h, row, DueOf(row, q.now))
    BY <1>2, <2>2, <2>3, <2>4, <2>5, BuildTells
  <2> QED
    BY <2>1, <2>3, <2>6
<1>8. NotShown(a, q.began, World)
  BY <1>2, <1>6, BuildOmits DEF NotShown, ReadSoFar
<1>9. DOMAIN a = AnswerFields
  BY <1>2, BuiltAnswers DEF Build, BuildDetail
<1>10. ViewTyped(r)
  BY <1>1, <1>5, <1>9 DEF ViewTyped, Stages
<1>11. RequestKnows(r, World)
  BY <1>1, <1>4, <1>5, <1>7, <1>8 DEF RequestKnows
<1> QED
  BY <1>4, <1>10, <1>11, CacheStands, RequestMoves

LEMMA AlertsJoined ==
  ASSUME ViewInv, NEW v \in Viewers, ReadAlertsJoined(v)
  PROVE  ViewInv'
<1>1. PICK q : q = view[v] /\ ViewTyped(q) /\ RequestKnows(q, World)
  BY DEF ViewInv, ViewsKnow
<1> DEFINE hs == {h \in DOMAIN fleet : ~InMaintenance(steps, fleet[h])}
           listed == UNION {{<<h, x>> : x \in fleet[h].alerts} : h \in hs}
<1>2. PICK a : a = [NoAnswer EXCEPT !.listed = listed]
  OBVIOUS
<1>3. PICK r : r = [q EXCEPT !.stage = "built", !.answer = a]
  OBVIOUS
<1>4. q.stage = "rows" /\ q.kind = "alerts" /\ Goes(v, r) /\ UNCHANGED <<fleet, settled, steps, cached>>
  BY <1>1, <1>2, <1>3 DEF ReadAlertsJoined, At
<1>5. /\ DOMAIN r = ViewFields /\ r.stage = "built" /\ r.kind = q.kind /\ r.of = q.of /\ r.began = q.began /\ r.answer = a
  BY <1>1, <1>3 DEF ViewTyped, ViewFields
<1>6. DOMAIN a = AnswerFields /\ a.tiers = <<>> /\ a.listed = listed
  BY <1>2, NothingIs DEF AnswerFields
<1>7. \A h, x : <<h, x>> \in listed <=> h \in hs /\ x \in fleet[h].alerts
  <2> DEFINE f == [h \in DOMAIN fleet |-> fleet[h].alerts]
  <2>1. \A h \in hs : f[h] = fleet[h].alerts
    OBVIOUS
  <2>2. listed = UNION {{<<h, x>> : x \in f[h]} : h \in hs}
    BY <2>1
  <2> HIDE DEF hs, listed, f
  <2>3. \A h, x : <<h, x>> \in listed <=> h \in hs /\ x \in f[h]
    BY <2>2, PairsAre
  <2> QED
    BY <2>1, <2>3
<1>8. World.fleet = fleet /\ World.steps = steps /\ WorldTyped(World) /\ q.began <= steps /\ q.began \in Nat
  BY <1>1, WorldIs DEF ViewInv, ViewTyped, RequestKnows
<1>9. Truth(a, q.kind, q.of, q.began, World)
  <2> SUFFICES ASSUME NEW h \in DOMAIN fleet, World.settled[h] < q.began
               PROVE  \E now \in 0..steps : now >= q.began /\ Tells(a, q.kind, q.of, h, fleet[h], DueOf(fleet[h], now))
    BY <1>8 DEF Truth
  <2>1. PICK row \in FleetRow : row = fleet[h]
    BY <1>8 DEF WorldTyped
  <2>2. steps \in Nat /\ steps \in 0..steps /\ steps >= q.began
    BY <1>8 DEF WorldTyped
  <2>3. h \in hs <=> DueOf(row, steps) # "maintenance"
    BY <2>1, <2>2, StatusIsDue
  <2>4. row.alerts \subseteq ViewRules
    BY DEF FleetRow
  <2>5. \A x : <<h, x>> \in a.listed <=> DueOf(row, steps) # "maintenance" /\ x \in row.alerts
    BY <1>6, <1>7, <2>1, <2>3
  <2>6. {x \in ViewRules : <<h, x>> \in a.listed} = IF DueOf(row, steps) = "maintenance" THEN {} ELSE row.alerts
    BY <2>4, <2>5
  <2>7. h \notin DOMAIN a.tiers
    BY <1>6, NothingIs
  <2>8. Tells(a, q.kind, q.of, h, row, DueOf(row, steps))
    BY <1>4, <2>6, <2>7 DEF Tells
  <2> QED
    BY <2>1, <2>2, <2>8
<1> HIDE DEF listed
<1>10. NotShown(a, q.began, World)
  BY <1>6, <1>7, <1>8, NothingIs DEF NotShown
<1>11. ViewTyped(r)
  BY <1>1, <1>4, <1>5, <1>6 DEF ViewTyped, Stages
<1>12. RequestKnows(r, World)
  BY <1>1, <1>4, <1>5, <1>9, <1>10 DEF RequestKnows
<1> QED
  BY <1>4, <1>11, <1>12, CacheStands, RequestMoves

\* What a request stores is as old as the request, and a request is not older than its latency.
LEMMA CacheWritten ==
  ASSUME ViewInv, NEW v \in Viewers, WriteCache(v)
  PROVE  ViewInv'
<1>1. PICK q : q = view[v] /\ ViewTyped(q) /\ RequestKnows(q, World)
  BY DEF ViewInv, ViewsKnow
<1>2. PICK r : r = [q EXCEPT !.stage = "answered"]
  OBVIOUS
<1>3. q.stage = "built" /\ Goes(v, r) /\ UNCHANGED <<fleet, settled, steps>>
  BY <1>1, <1>2 DEF WriteCache, At
<1>4. /\ DOMAIN r = ViewFields /\ r.stage = "answered" /\ r.kind = q.kind /\ r.of = q.of /\ r.began = q.began /\ r.answer = q.answer
  BY <1>1, <1>2 DEF ViewTyped, ViewFields
<1>5. World.steps = steps /\ steps \in Nat /\ q.began \in Nat /\ q.began <= steps /\ steps <= q.began + ViewLatency
      /\ ViewLatency \in Nat /\ ViewTTL \in Nat
  BY <1>1, <1>3, ViewConstants, WorldIs DEF ViewInv, WorldTyped, ViewTyped, RequestKnows
<1>6. Truth(q.answer, q.kind, q.of, q.began, World) /\ NotShown(q.answer, q.began, World)
  BY <1>1, <1>3 DEF RequestKnows
<1>7. Served(r, World)
  <2>1. Behind(r) <= q.began /\ q.began \in Int
    BY <1>4, <1>5 DEF Behind
  <2> QED
    BY <1>4, <1>5, <1>6, <2>1 DEF Served
<1>8. ViewTyped(r)
  BY <1>1, <1>4 DEF ViewTyped, Stages
<1>9. RequestKnows(r, World)
  BY <1>1, <1>3, <1>4, <1>6, <1>7 DEF RequestKnows
<1> DEFINE entry == [answer |-> q.answer, expiresAt |-> steps + ViewTTL, storedUntil |-> steps + StorageTTL]
<1>10. \/ cached' = cached
       \/ q.kind \in Cached /\ cached' = [cached EXCEPT ![q.kind] = entry]
  BY <1>1 DEF WriteCache
<1>11. q.kind \in Cached => EntryKnows(q.kind, entry, World)
  <2> SUFFICES ASSUME q.kind \in Cached PROVE EntryKnows(q.kind, entry, World)
    OBVIOUS
  <2>1. DOMAIN q.answer = AnswerFields /\ q.of = Tiers
    BY <1>1 DEF ViewTyped
  <2>2. entry.expiresAt \in Int /\ entry.expiresAt <= q.began + ViewLatency + ViewTTL /\ q.began \in Int
    BY <1>5
  <2> QED
    BY <1>5, <1>6, <2>1, <2>2 DEF EntryKnows
<1> HIDE DEF entry
<1>12. World' = World
  BY <1>3 DEF World
<1>13. CacheKnows(World)'
  <2>1. DOMAIN cached = Cached /\ \A k \in Cached : EntryKnows(k, cached[k], World)
    BY DEF ViewInv, CacheKnows
  <2>2. DOMAIN cached' = Cached /\ \A k \in Cached : EntryKnows(k, cached'[k], World)
    BY <1>10, <1>11, <2>1
  <2> QED
    BY <1>12, <2>2 DEF CacheKnows
<1> QED
  BY <1>3, <1>8, <1>9, <1>13, RequestMoves

LEMMA ViewsStart == ViewInit => ViewInv
<1> SUFFICES ASSUME ViewInit PROVE ViewInv
  OBVIOUS
<1>1. steps = 0 /\ DOMAIN fleet = Fleet /\ (\A h \in Fleet : fleet[h] = [New EXCEPT !.last_seen = -1])
      /\ settled \in [Fleet -> Int] /\ DOMAIN cached = Cached /\ DOMAIN view = Viewers
      /\ (\A k \in Cached : cached[k] = NoEntry) /\ (\A v \in Viewers : view[v] = Quiet)
  BY ViewConstants DEF ViewInit
<1>2. [New EXCEPT !.last_seen = -1] \in FleetRow
  <2>1. New \in FleetRow
    BY <1>1 DEF New, FleetRow
  <2>2. \A row \in FleetRow : \A x \in Int : [row EXCEPT !.last_seen = x] \in FleetRow
    BY DEF FleetRow
  <2>3. -1 \in Int
    OBVIOUS
  <2> QED
    BY <2>1, <2>2, <2>3
<1>3. WorldTyped(World)
  BY <1>1, <1>2, WorldIs DEF WorldTyped
<1>4. ViewTyped(Quiet) /\ RequestKnows(Quiet, World)
  BY <1>1, NothingIs, WorldIs DEF ViewTyped, RequestKnows, Stages, Kinds, Cached
<1>5. \A k \in Cached : EntryKnows(k, NoEntry, World)
  BY NothingIs DEF EntryKnows, NoEntry
<1> QED
  BY <1>1, <1>3, <1>4, <1>5 DEF ViewInv, ViewsKnow, CacheKnows

LEMMA ViewsStay ==
  ASSUME ViewInv, ViewNext
  PROVE  ViewInv'
<1>1. CASE \E v \in Viewers : \/ Ask(v) \/ TryReadCache(v) \/ MissCache(v) \/ ServeHit(v) \/ ReadRows(v)
                              \/ ReadBeside(v) \/ BuildView(v) \/ ReadAlertsJoined(v) \/ WriteCache(v)
  BY <1>1, ViewAsked, CacheHit, CacheMissed, HitServed, RowsRead, BesideRead, ViewBuilt, AlertsJoined, CacheWritten
<1>2. CASE \E h \in Fleet : Edit(h) \/ RemoveFromFleet(h) \/ AddToFleet(h)
  BY <1>2, HostEdited, HostRemoved, HostAdded
<1>3. CASE ViewTick
  BY <1>3, ViewsTick
<1> QED
  BY <1>1, <1>2, <1>3 DEF ViewNext

LEMMA DueIs ==
  ASSUME NEW h, NEW now
  PROVE  Due(h, now) = DueOf(fleet[h], now)
BY DEF Due, DueOf, Calm, WindowHolds, Rated

\* Whatever is read when and served from KV, a host that has not changed for the freshness of
\* the cache and a request is shown as it is, and one that was gone before is not shown
\* (dashboard-cache.ts, status.ts).
THEOREM ViewsStayTruthful == ViewSpec => []ViewsTruthful
<1>1. ViewInv /\ UNCHANGED viewVars => ViewInv'
  <2> SUFFICES ASSUME ViewInv, UNCHANGED viewVars PROVE ViewInv'
    OBVIOUS
  <2>1. World' = World /\ UNCHANGED <<view, cached>>
    BY DEF viewVars, World
  <2> QED
    BY <2>1 DEF ViewInv, ViewsKnow, CacheKnows
<1>2. ViewInv => ViewsTruthful
  <2> SUFFICES ASSUME ViewInv, NEW v \in Viewers, view[v].stage = "answered"
               PROVE  /\ \A h \in Steady(v, AsFarBack(v)) :
                           Tells(view[v].answer, view[v].kind, view[v].of, h, fleet[h], Due(h, steps))
                      /\ NotShown(view[v].answer, view[v].began, World)
    <3>1. World.fleet = fleet /\ World.settled = settled
      BY WorldIs
    <3> QED
      BY <3>1 DEF ViewsTruthful, SettledIsShown, GoneIsNotShown, At, Tells, NotShown
  <2>1. PICK r : r = view[v] /\ ViewTyped(r) /\ RequestKnows(r, World) /\ r.stage = "answered"
    BY DEF ViewInv, ViewsKnow
  <2>2. World.fleet = fleet /\ World.settled = settled /\ World.steps = steps
    BY WorldIs
  <2>3. PICK b \in Int : Behind(r) <= b /\ b <= steps /\ Truth(r.answer, r.kind, r.of, b, World)
    BY <2>1, <2>2 DEF RequestKnows, Served
  <2>4. Behind(r) = r.began - AsFarBack(v) /\ r.began \in Nat /\ AsFarBack(v) \in Int
    BY <2>1, ViewConstants DEF Behind, AsFarBack, ViewTyped
  <2>5. settled \in [Fleet -> Int] /\ DOMAIN fleet \subseteq Fleet /\ steps \in Nat
    BY <2>2 DEF ViewInv, WorldTyped
  <2>6. ASSUME NEW h \in Steady(v, AsFarBack(v))
        PROVE  Tells(r.answer, r.kind, r.of, h, fleet[h], Due(h, steps))
    <3>1. /\ h \in DOMAIN fleet /\ settled[h] < r.began - AsFarBack(v)
          /\ \A t \in 0..steps : t >= r.began - AsFarBack(v) => Due(h, t) = Due(h, steps)
      BY <2>1 DEF Steady
    <3>2. settled[h] < b
      BY <2>3, <2>4, <2>5, <3>1
    <3>3. PICK now \in 0..steps : now >= b /\ Tells(r.answer, r.kind, r.of, h, fleet[h], DueOf(fleet[h], now))
      BY <2>2, <2>3, <3>1, <3>2 DEF Truth
    <3>4. now >= r.began - AsFarBack(v)
      BY <2>3, <2>4, <2>5, <3>3
    <3>5. DueOf(fleet[h], now) = Due(h, steps)
      BY <3>1, <3>4, DueIs
    <3> QED
      BY <3>3, <3>5
  <2> QED
    BY <2>1, <2>6 DEF RequestKnows
<1> QED
  BY ViewsStart, ViewsStay, <1>1, <1>2, PTL DEF ViewSpec

=============================================================================
