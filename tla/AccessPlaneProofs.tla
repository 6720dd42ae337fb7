------------------------- MODULE AccessPlaneProofs --------------------------
(***************************************************************************)
(* Proofs about who gets through and what is filed then: the rate windows, *)
(* the layers of the entry, the probe with its report, and the revocation  *)
(* of CLI tokens.                                                          *)
(***************************************************************************)
EXTENDS RateWindows, EntryGate, ProbeCycle, CliTokenCache, ProbeReport, FiniteSetTheorems, WellFoundedInduction, NaturalsInduction, TLAPS

-----------------------------------------------------------------------------
(***************************************************************************)
(* RateWindows: what the counter guarantees for every limit, window and    *)
(* sweep, and what it guarantees when requests count in order.             *)
(***************************************************************************)

\* What a count does, with the window and the new count named.
Counted(p, w, c) ==
    /\ arrived[p] \in Start..MaxTime /\ w = Window(arrived[p]) /\ w \in Windows
    /\ c \in Nat \ {0} /\ c = NextCount(w)
    /\ row' = [window |-> w, count |-> c] /\ row' # None
    /\ accepted' = IF Allowed(c) THEN [accepted EXCEPT ![w] = @ + 1] ELSE accepted
    /\ refused' = IF Allowed(c) THEN refused ELSE refused \cup {w}
    /\ counted' = counted \cup {w}
    /\ disorder' = IF OutOfOrder(w) THEN disorder \cup {w} ELSE disorder
    /\ arrived' = [arrived EXCEPT ![p] = None]
    /\ UNCHANGED <<now, served>>

LEMMA CountIsCounted ==
  ASSUME RateTypeOK, NEW p \in Lanes, Count(p)
  PROVE  \E w \in Windows, c \in Nat \ {0} : Counted(p, w, c)
<1> DEFINE w == Window(arrived[p])
           c == NextCount(w)
<1>1. arrived[p] \in Start..MaxTime
  BY DEF RateTypeOK, Count
<1>2. w \in Windows
  BY <1>1 DEF Windows
<1>3. c \in Nat \ {0}
  BY DEF RateTypeOK, NextCount, RateRow
<1>4. [window |-> w, count |-> c] \in RateRow
  BY <1>2, <1>3 DEF RateRow
<1>5. [window |-> w, count |-> c] # None
  BY <1>4, RateAssumption
<1>6. Counted(p, w, c)
  BY <1>1, <1>2, <1>3, <1>5 DEF Count, Counted
<1> QED
  BY <1>2, <1>3, <1>6

-----------------------------------------------------------------------------
(* Type correctness.                                                       *)

LEMMA TypeInductive == RateTypeOK /\ [RateNext]_rateVars => RateTypeOK'
<1> SUFFICES ASSUME RateTypeOK, [RateNext]_rateVars PROVE RateTypeOK'
  OBVIOUS
<1> USE RateAssumption DEF RateTypeOK
<1>1. ASSUME NEW p \in Lanes, Arrive(p) \/ Abandon(p) PROVE RateTypeOK'
  BY <1>1 DEF Arrive, Abandon
<1>2. ASSUME NEW p \in Lanes, Count(p) PROVE RateTypeOK'
  <2>1. PICK w \in Windows, c \in Nat \ {0} : Counted(p, w, c)
    BY <1>2, CountIsCounted
  <2>2. row' \in RateRow
    BY <2>1 DEF Counted, RateRow
  <2> QED
    BY <2>1, <2>2 DEF Counted
<1>3. CASE Sweep \/ Tick \/ UNCHANGED rateVars
  BY <1>3 DEF Sweep, Tick, rateVars
<1> QED
  BY <1>1, <1>2, <1>3 DEF RateNext

\* The counter row and the requests under way are well typed in every reachable state.
THEOREM WindowsTypeCorrect == RateSpec => []RateTypeOK
<1>1. RateInit => RateTypeOK
  BY RateAssumption DEF RateInit, RateTypeOK
<1> QED
  BY <1>1, TypeInductive, PTL DEF RateSpec

-----------------------------------------------------------------------------
(* No refusal below the limit.                                             *)

\* Requests counted in the window of the row were let through, up to the maximum.
RowBacked ==
    row # None => \/ accepted[row.window] >= row.count
                  \/ accepted[row.window] >= Maximum

RefusalInv == RowBacked /\ RefusedOnlyAtLimit

LEMMA RefusalInductive ==
  ASSUME RateTypeOK, RefusalInv, [RateNext]_rateVars
  PROVE  RefusalInv'
<1> USE RateAssumption DEF RateTypeOK, RefusalInv
<1>1. ASSUME NEW p \in Lanes, Count(p) PROVE RefusalInv'
  <2>1. PICK w \in Windows, c \in Nat \ {0} : Counted(p, w, c)
    BY <1>1, CountIsCounted
  <2>2. c = 1 \/ accepted[w] >= c - 1 \/ accepted[w] >= Maximum
    BY <2>1 DEF Counted, NextCount, RowBacked, RateRow
  <2>3. accepted'[w] >= c \/ accepted'[w] >= Maximum
    BY <2>1, <2>2 DEF Counted, Allowed
  <2>4. \A v \in Windows : accepted'[v] >= accepted[v]
    BY <2>1 DEF Counted
  <2>5. RowBacked'
    BY <2>1, <2>3 DEF Counted, RowBacked
  <2>6. w \in refused' => w \in refused \/ accepted'[w] >= Maximum
    BY <2>1, <2>3 DEF Counted, Allowed
  <2>7. refused' \subseteq refused \cup {w}
    BY <2>1 DEF Counted
  <2>8. RefusedOnlyAtLimit'
    <3> SUFFICES ASSUME NEW v \in refused' PROVE accepted'[v] >= Maximum
      BY DEF RefusedOnlyAtLimit
    <3>1. v \in refused => accepted[v] >= Maximum /\ v \in Windows
      BY DEF RefusedOnlyAtLimit
    <3>2. CASE v \in refused
      <4>1. accepted[v] \in Nat /\ accepted'[v] >= accepted[v] /\ accepted[v] >= Maximum
        BY <2>4, <3>1, <3>2
      <4>2. accepted'[v] \in Nat
        BY <2>1, <3>1, <3>2 DEF Counted
      <4> QED
        BY <4>1, <4>2
    <3>3. CASE v \notin refused
      BY <2>6, <2>7, <3>3
    <3> QED
      BY <3>2, <3>3
  <2> QED
    BY <2>5, <2>8
<1>2. CASE ~\E p \in Lanes : Count(p)
  BY <1>2 DEF RateNext, Arrive, Abandon, Sweep, Tick, rateVars, RowBacked, RefusedOnlyAtLimit
<1> QED
  BY <1>1, <1>2

\* A request is refused only in a window that has let the maximum through: for any
\* number of requests counting in any order, any window length and any sweep.
THEOREM NoRefusalBelowLimit == RateSpec => []RefusedOnlyAtLimit
<1>1. RateInit => RefusalInv
  BY DEF RateInit, RefusalInv, RowBacked, RefusedOnlyAtLimit
<1>2. RateTypeOK /\ RefusalInv /\ [RateNext]_rateVars => RefusalInv'
  BY RefusalInductive
<1>3. RefusalInv => RefusedOnlyAtLimit
  BY DEF RefusalInv
<1> QED
  BY <1>1, <1>2, <1>3, WindowsTypeCorrect, PTL DEF RateSpec

-----------------------------------------------------------------------------
(* Only disorder breaks the limit.                                         *)

LEMMA WindowsAreIntegers == Windows \subseteq Int
<1>1. \A t, d \in Nat : d # 0 => t \div d \in Int
  BY SMT
<1> QED
  BY <1>1, RateAssumption DEF Windows, Window

\* Until a count is out of order, the row is the newest window counted in, with an
\* exact count.
RowNewest ==
    disorder = {} =>
      /\ \A w \in Windows \ counted : accepted[w] = 0
      /\ row # None => /\ row.window \in counted
                       /\ \A v \in counted : v <= row.window
                       /\ accepted[row.window] <= row.count

DisorderInv == RowNewest /\ LimitHeldInOrder

LEMMA DisorderInductive ==
  ASSUME RateTypeOK, DisorderInv, [RateNext]_rateVars
  PROVE  DisorderInv'
<1> USE RateAssumption, WindowsAreIntegers DEF RateTypeOK, DisorderInv
<1>1. ASSUME NEW p \in Lanes, Count(p) PROVE DisorderInv'
  <2>1. PICK w \in Windows, c \in Nat \ {0} : Counted(p, w, c)
    BY <1>1, CountIsCounted
  <2>2. CASE disorder' # {}
    BY <2>2 DEF RowNewest, LimitHeldInOrder
  <2>3. CASE disorder' = {}
    <3>1. /\ disorder = {} /\ \A v \in counted : v <= w
          /\ row = None => w \notin counted
      BY <2>1, <2>3 DEF Counted, OutOfOrder
    <3>2. accepted[w] <= c - 1
      <4>1. CASE row # None /\ row.window = w
        BY <2>1, <3>1, <4>1 DEF Counted, NextCount, RowNewest, RateRow
      <4>2. CASE ~(row # None /\ row.window = w)
        <5>1. ASSUME row # None PROVE w \notin counted
          <6>1. row.window \in Windows /\ row.window # w
            BY <4>2, <5>1 DEF RateRow
          <6>2. row.window \in counted /\ \A v \in counted : v <= row.window
            BY <3>1, <5>1 DEF RowNewest
          <6>3. row.window <= w
            BY <3>1, <6>2
          <6>4. row.window \in Int /\ w \in Int
            BY <6>1
          <6>5. ~(w <= row.window)
            BY <6>1, <6>3, <6>4
          <6> QED
            BY <6>2, <6>5
        <5>2. w \notin counted
          BY <3>1, <5>1
        <5>3. accepted[w] = 0
          BY <3>1, <5>2 DEF RowNewest
        <5> QED
          BY <5>3
      <4> QED
        BY <4>1, <4>2
    <3>3. /\ \A v \in Windows : v # w => accepted'[v] = accepted[v]
          /\ accepted'[w] <= c /\ accepted'[w] <= Maximum
      <4>1. accepted \in [Windows -> Nat] /\ accepted[w] \in Nat /\ accepted[w] <= Maximum
        BY <3>1 DEF LimitHeldInOrder, RateLimited
      <4>2. CASE Allowed(c)
        <5>1. accepted' = [accepted EXCEPT ![w] = @ + 1]
          BY <2>1, <4>2 DEF Counted
        <5>2. accepted'[w] = accepted[w] + 1 /\ \A v \in Windows : v # w => accepted'[v] = accepted[v]
          BY <4>1, <5>1
        <5>3. c <= Maximum
          BY <4>2 DEF Allowed
        <5> QED
          BY <3>2, <4>1, <5>2, <5>3
      <4>3. CASE ~Allowed(c)
        <5>1. accepted' = accepted
          BY <2>1, <4>3 DEF Counted
        <5> QED
          BY <3>2, <4>1, <5>1
      <4> QED
        BY <4>2, <4>3
    <3>4. row' # None /\ row'.window = w /\ row'.count = c /\ counted' = counted \cup {w}
      BY <2>1 DEF Counted
    <3>5. RowNewest'
      <4>1. \A v \in Windows \ counted' : accepted'[v] = 0
        <5>1. \A v \in Windows \ counted : accepted[v] = 0
          BY <3>1 DEF RowNewest
        <5> QED
          BY <3>3, <3>4, <5>1
      <4>2. \A v \in counted' : v <= w
        <5>1. w <= w
          OBVIOUS
        <5> QED
          BY <3>1, <3>4, <5>1
      <4>3. /\ row'.window \in counted' /\ accepted'[row'.window] <= row'.count
            /\ \A v \in counted' : v <= row'.window
        BY <3>3, <3>4, <4>2
      <4> QED
        BY <4>1, <4>3 DEF RowNewest
    <3>6. LimitHeldInOrder'
      BY <3>1, <3>3 DEF LimitHeldInOrder, RateLimited
    <3> QED
      BY <3>5, <3>6
  <2> QED
    BY <2>2, <2>3
<1>2. CASE Sweep
  BY <1>2 DEF Sweep, RowNewest, LimitHeldInOrder, RateLimited
<1>3. ASSUME UNCHANGED <<row, accepted, counted, disorder>> PROVE DisorderInv'
  BY <1>3 DEF RowNewest, LimitHeldInOrder, RateLimited
<1>4. (\E p \in Lanes : Arrive(p) \/ Abandon(p)) \/ Tick \/ UNCHANGED rateVars
      => UNCHANGED <<row, accepted, counted, disorder>>
  BY DEF Arrive, Abandon, Tick, rateVars
<1> QED
  BY <1>1, <1>2, <1>3, <1>4 DEF RateNext

\* For any limit, window, sweep and number of requests: as long as counts come in the
\* order of their windows and none finds its row swept, no window exceeds its maximum.
THEOREM OnlyDisorderExceedsLimit == RateSpec => []LimitHeldInOrder
<1>1. RateInit => DisorderInv
  BY RateAssumption DEF RateInit, DisorderInv, RowNewest, LimitHeldInOrder, RateLimited
<1>2. RateTypeOK /\ DisorderInv /\ [RateNext]_rateVars => DisorderInv'
  BY DisorderInductive
<1>3. DisorderInv => LimitHeldInOrder
  BY DEF DisorderInv
<1> QED
  BY <1>1, <1>2, <1>3, WindowsTypeCorrect, PTL DEF RateSpec

\* For any limit, window, sweep and number of requests: a window exceeds its maximum only
\* through disorder, and nothing is refused below it.
THEOREM RateIsExact == RateSpec => []RateExact
  BY WindowsTypeCorrect, OnlyDisorderExceedsLimit, NoRefusalBelowLimit, PTL DEF RateExact

-----------------------------------------------------------------------------
(* The limit holds when requests count in order.                           *)

\* One request at a time, windows of one minute as the sweep assumes, and a sweep that
\* spares the window of any request still under way.
InOrder == (\A p, q \in Lanes : p = q) /\ Period = 1 /\ Latency <= Keep

LEMMA MinuteWindows ==
  ASSUME InOrder
  PROVE  (\A t \in Nat : Window(t) = t) /\ Windows = Start..MaxTime
<1>1. \A t \in Nat : Window(t) = t
  BY DEF InOrder, Window
<1>2. Windows = Start..MaxTime
  BY <1>1, RateAssumption DEF Windows
<1> QED
  BY <1>1, <1>2

\* The row is the newest window that let a request through, with an exact count;
\* windows the sweep has forgotten are older than any request to come.
NewestCounted ==
    /\ row # None =>
         /\ row.window <= now
         /\ accepted[row.window] <= row.count
         /\ \A w \in Windows : w > row.window => accepted[w] = 0
         /\ \A p \in Lanes : arrived[p] # None => row.window <= arrived[p]
    /\ row = None =>
         \A w \in Windows : accepted[w] > 0 =>
           w < now /\ \A p \in Lanes : arrived[p] # None => w < arrived[p]
    /\ \A p \in Lanes : arrived[p] # None => arrived[p] <= now /\ now <= arrived[p] + Latency

LimitInv == NewestCounted /\ RateLimited

LEMMA LimitInductive ==
  ASSUME InOrder, RateTypeOK, LimitInv, [RateNext]_rateVars
  PROVE  LimitInv'
<1> USE RateAssumption, MinuteWindows DEF RateTypeOK, LimitInv, InOrder, RateRow
<1>1. ASSUME NEW p \in Lanes, Arrive(p) PROVE LimitInv'
  <2>1. /\ UNCHANGED <<now, row, accepted>>
        /\ \A q \in Lanes : arrived'[q] = now
    BY <1>1 DEF Arrive
  <2> QED
    BY <2>1 DEF NewestCounted, RateLimited
<1>2. ASSUME NEW p \in Lanes, Abandon(p) PROVE LimitInv'
  <2>1. /\ UNCHANGED <<now, row, accepted>>
        /\ \A q \in Lanes : arrived'[q] = None
    BY <1>2 DEF Abandon
  <2> QED
    BY <2>1 DEF NewestCounted, RateLimited
<1>3. ASSUME NEW p \in Lanes, Count(p) PROVE LimitInv'
  <2>1. PICK w \in Windows, c \in Nat \ {0} : Counted(p, w, c)
    BY <1>3, CountIsCounted
  <2>2. /\ w = arrived[p] /\ arrived[p] # None /\ w <= now /\ w \in Nat
        /\ UNCHANGED now /\ \A q \in Lanes : arrived'[q] = None
    BY <2>1 DEF Counted, NewestCounted
  <2>3. accepted[w] <= c - 1
    <3>1. c = NextCount(w)
      BY <2>1 DEF Counted
    <3>2. CASE row # None /\ row.window = w
      BY <3>1, <3>2 DEF NextCount, NewestCounted
    <3>3. CASE row # None /\ row.window # w
      <4>1. w > row.window
        BY <2>2, <3>3 DEF NewestCounted
      <4>2. accepted[w] = 0
        BY <3>3, <4>1 DEF NewestCounted
      <4> QED
        BY <4>2
    <3>4. CASE row = None
      <4>1. ~(accepted[w] > 0)
        BY <2>2, <3>4 DEF NewestCounted
      <4> QED
        BY <4>1
    <3> QED
      BY <3>2, <3>3, <3>4
  <2>4. \A v \in Windows : v > w => accepted[v] = 0
    BY <2>2 DEF NewestCounted
  <2>5. /\ \A v \in Windows : v # w => accepted'[v] = accepted[v]
        /\ accepted'[w] <= c /\ accepted'[w] <= Maximum
    BY <2>1, <2>3 DEF Counted, Allowed, RateLimited
  <2>6. row' # None /\ row'.window = w /\ row'.count = c
    BY <2>1 DEF Counted
  <2>7. NewestCounted'
    BY <2>2, <2>4, <2>5, <2>6 DEF NewestCounted
  <2>8. RateLimited'
    BY <2>5 DEF RateLimited
  <2> QED
    BY <2>7, <2>8
<1>4. CASE Sweep
  <2>1. /\ row # None /\ row' = None /\ row.window < now - Keep
        /\ UNCHANGED <<now, arrived, accepted>>
    BY <1>4 DEF Sweep, Stale
  <2>2. \A w \in Windows : accepted[w] > 0 => w <= row.window
    BY <2>1 DEF NewestCounted
  <2>3. \A q \in Lanes : arrived[q] # None => row.window < arrived[q]
    BY <2>1 DEF NewestCounted
  <2> QED
    BY <2>1, <2>2, <2>3 DEF NewestCounted, RateLimited
<1>5. CASE Tick
  BY <1>5 DEF Tick, NewestCounted, RateLimited
<1>6. CASE UNCHANGED rateVars
  BY <1>6 DEF rateVars, NewestCounted, RateLimited
<1> QED
  BY <1>1, <1>2, <1>3, <1>4, <1>5, <1>6 DEF RateNext

\* When requests count one at a time, in windows of one minute, no window ever lets
\* more than the maximum through.
THEOREM LimitIsKept ==
  ASSUME InOrder
  PROVE  RateSpec => []RateLimited
<1>1. RateInit => LimitInv
  BY RateAssumption DEF RateInit, LimitInv, NewestCounted, RateLimited
<1>2. RateTypeOK /\ LimitInv /\ [RateNext]_rateVars => LimitInv'
  BY LimitInductive
<1>3. LimitInv => RateLimited
  BY DEF LimitInv
<1> QED
  BY <1>1, <1>2, <1>3, WindowsTypeCorrect, PTL DEF RateSpec

-----------------------------------------------------------------------------
(***************************************************************************)
(* EntryGate, for any requests: what each layer has made sure of when the  *)
(* next one sees the request, and so what every answer tells.              *)
(***************************************************************************)

\* The stages a request reaches only past a given one, unless it is answered there.
PastConnect == {"handler", "handled"}
PastKey == PastConnect \cup {"connect"}
PastStation == PastKey \cup {"key"}
PastAccess == PastStation \cup {"station"}
PastEntry == PastAccess \cup {"access"}
PastFetch == PastEntry \cup {"envelope", "entry"}

KnownTyped ==
    known \in [access : BOOLEAN, principal : Jwts, station : BOOLEAN, token : Bearers,
               coordinated : BOOLEAN]

\* What each layer has made sure of, for the layers after it and to the end.
FetchSays == Coordinates(call.method, call.path) => known.coordinated
EntrySays ==
    /\ Production => call.host \in {"browser", "machine"}
    /\ call.host = "machine" => IsAllowedMachineRoute(call.method, call.path)
AccessSays ==
    \/ call.host = "localhost" /\ call.jwt = "none"
    \/ call.host = "machine"
    \/ call.path = "live"
    \/ known.access /\ call.jwt # "none"
StationSays == call.path \in StationProbe => call.bearer = "station"
KeySays ==
    \/ NeedsNoKey
    \/ call.bearer = (IF IsWriteRequest(call.method, call.path) THEN "write" ELSE "read")
    \/ call.bearer = "cli"
ConnectSays ==
    /\ call.path \in Management => ManagerSession /\ (Changes => call.confirmed)
    /\ IsVersionedPath => known.token = call.bearer /\ (Changes => call.bearer = "connect-write")
                          /\ call.bearer \in {"connect-read", "connect-write"}

Said ==
    /\ call.method \in Methods(call.path) /\ call.jwt \in Jwts /\ call.bearer \in Bearers
    /\ KnownTyped
    /\ stage \in PastFetch => FetchSays
    /\ stage \in PastEntry => EntrySays
    /\ stage \in PastAccess => AccessSays
    /\ stage \in PastStation => StationSays
    /\ stage \in PastKey => KeySays
    /\ stage \in PastConnect => ConnectSays

Recorded ==
    /\ stage \notin {"handled", "answered"} => audits = 0
    /\ stage = "fetch" => ~known.coordinated
    /\ AnswersAudited

GateInv == Said /\ Recorded

\* A middleware that lets the request on adds to what is known, and takes nothing back.
LEMMA LayersStep ==
  ASSUME Said, GateNext
  PROVE  Said'
<1>0. /\ call' = call /\ KnownTyped
  BY DEF GateNext, Said, Fetch, FetchBusy, ConnectEnvelope, EntryControl, AccessAuth, WorkstationKeyAuth,
     ApiKeyAuth, ConnectManager, ConnectBearer, OtherPaths, Handle, AuditUnavailable, Refuse, Pass,
     Learn
<1> DEFINE Stages == PastFetch \cup {"fetch", "answered"}
<1> USE DEF PastConnect, PastKey, PastStation, PastAccess, PastEntry, PastFetch
<1>1. ASSUME NEW status, Refuse(status) PROVE Said'
  BY <1>0, <1>1 DEF Refuse, Said, KnownTyped
<1>2. CASE Fetch
  <2>1. CASE Coordinates(call.method, call.path) /\ stage' = "envelope"
              /\ known' = [known EXCEPT !.coordinated = TRUE]
    BY <1>0, <2>1 DEF Said, FetchSays, KnownTyped
  <2>2. CASE ~Coordinates(call.method, call.path) /\ stage' = "envelope" /\ known' = known
    BY <1>0, <2>2 DEF Said, FetchSays, KnownTyped
  <2> QED
    BY <1>1, <1>2, <2>1, <2>2 DEF Fetch, Pass, Learn
<1>3. CASE FetchBusy
  BY <1>1, <1>3 DEF FetchBusy
<1>4. CASE ConnectEnvelope
  <2>1. CASE stage = "envelope" /\ Pass("entry")
    BY <1>0, <2>1 DEF Pass, Said, FetchSays, KnownTyped
  <2> QED
    BY <1>1, <1>4, <2>1 DEF ConnectEnvelope
<1>5. CASE EntryControl
  <2>1. CASE stage = "entry" /\ Pass("access") /\ EntrySays
    BY <1>0, <2>1 DEF Pass, Said, FetchSays, KnownTyped, EntrySays, Production
  <2> QED
    BY <1>1, <1>5, <2>1 DEF EntryControl, EntrySays
<1>6. CASE AccessAuth
  <2>1. CASE stage = "access" /\ Pass("station") /\ AccessSays
    BY <1>0, <2>1 DEF Pass, Said, FetchSays, KnownTyped, EntrySays, Production, AccessSays
  <2>2. CASE /\ stage = "access" /\ call.jwt # "none"
             /\ Learn("station", [known EXCEPT !.access = TRUE,
                                   !.principal = IF call.jwt = "nameless" THEN "none" ELSE call.jwt])
    <3>1. /\ known' \in [access : BOOLEAN, principal : Jwts, station : BOOLEAN, token : Bearers,
                        coordinated : BOOLEAN]
          /\ known'.access /\ known'.coordinated = known.coordinated /\ stage' = "station"
      BY <1>0, <2>2 DEF Learn, KnownTyped, Said, Jwts
    <3> QED
      BY <1>0, <2>2, <3>1 DEF Said, FetchSays, KnownTyped, EntrySays, Production, AccessSays
  <2> QED
    BY <1>1, <1>6, <2>1, <2>2 DEF AccessAuth, AccessSays
<1>7. CASE WorkstationKeyAuth
  <2>1. CASE stage = "station" /\ Pass("key") /\ call.path \notin StationProbe
    BY <1>0, <2>1 DEF Pass, Said, FetchSays, KnownTyped, EntrySays, Production, AccessSays,
       StationSays
  <2>2. CASE stage = "station" /\ call.bearer = "station"
             /\ Learn("key", [known EXCEPT !.station = TRUE])
    <3>1. /\ known' \in [access : BOOLEAN, principal : Jwts, station : BOOLEAN, token : Bearers,
                        coordinated : BOOLEAN]
          /\ known'.access = known.access /\ known'.coordinated = known.coordinated /\ stage' = "key"
      BY <1>0, <2>2 DEF Learn, KnownTyped
    <3> QED
      BY <1>0, <2>2, <3>1 DEF Said, FetchSays, KnownTyped, EntrySays, Production, AccessSays,
         StationSays
  <2> QED
    BY <1>1, <1>7, <2>1, <2>2 DEF WorkstationKeyAuth
<1>8. CASE ApiKeyAuth
  <2>1. CASE stage = "key" /\ Pass("connect") /\ KeySays
    BY <1>0, <2>1 DEF Pass, Said, FetchSays, KnownTyped, EntrySays, Production, AccessSays,
       StationSays, KeySays, NeedsNoKey, IsConnectPath, IsWorkstationPath
  <2> QED
    BY <1>1, <1>8, <2>1 DEF ApiKeyAuth, KeySays
<1>9. CASE ConnectManager \/ OtherPaths
  <2>1. CASE stage = "connect" /\ Pass("handler") /\ ConnectSays
    BY <1>0, <2>1 DEF Pass, Said, FetchSays, KnownTyped, EntrySays, Production, AccessSays,
       StationSays, KeySays, NeedsNoKey, IsConnectPath, IsWorkstationPath, ConnectSays, IsVersionedPath,
       ManagerSession, Changes
  <2>2. Versioned \cap Management = {}
    BY DEF Versioned, Management
  <2>3. stage = "connect" /\ Pass("handler") => ConnectSays
    BY <1>9, <2>2 DEF ConnectManager, OtherPaths, ConnectSays, IsConnectPath, IsVersionedPath,
       ConnectPaths, Changes, Refuse, Pass
  <2> QED
    BY <1>1, <1>9, <2>1, <2>3 DEF ConnectManager, OtherPaths
<1>10. CASE ConnectBearer
  <2>1. CASE /\ stage = "connect" /\ IsVersionedPath /\ call.bearer \in {"connect-read", "connect-write"}
             /\ Changes => call.bearer = "connect-write"
             /\ Learn("handler", [known EXCEPT !.token = call.bearer])
    <3>1. /\ known' \in [access : BOOLEAN, principal : Jwts, station : BOOLEAN, token : Bearers,
                        coordinated : BOOLEAN]
          /\ known'.access = known.access /\ known'.coordinated = known.coordinated
          /\ known'.token = call.bearer /\ stage' = "handler"
      BY <1>0, <2>1 DEF Learn, KnownTyped, Said
    <3>2. call.path \notin Management
      BY <2>1 DEF IsVersionedPath, Versioned, Management
    <3> QED
      BY <1>0, <2>1, <3>1, <3>2 DEF Said, FetchSays, KnownTyped, EntrySays, Production, AccessSays,
         StationSays, KeySays, NeedsNoKey, IsConnectPath, IsWorkstationPath, ConnectSays, IsVersionedPath,
         Changes
  <2> QED
    BY <1>1, <1>10, <2>1 DEF ConnectBearer, Changes
<1>11. CASE Handle \/ AuditUnavailable
  <2>1. CASE stage = "handler" /\ stage' = "handled" /\ known' = known
    BY <1>0, <2>1 DEF Said, FetchSays, KnownTyped, EntrySays, Production, AccessSays,
       StationSays, KeySays, NeedsNoKey, IsConnectPath, IsWorkstationPath, ConnectSays, IsVersionedPath,
       ManagerSession, Changes
  <2> QED
    BY <1>1, <1>11, <2>1 DEF Handle, AuditUnavailable
<1> QED
  BY <1>2, <1>3, <1>4, <1>5, <1>6, <1>7, <1>8, <1>9, <1>10, <1>11 DEF GateNext

\* Every way out of the chain leaves its record.
LEMMA RecordStep ==
  ASSUME Said, Recorded, GateNext
  PROVE  Recorded'
<1>0. call' = call
  BY DEF GateNext, Fetch, FetchBusy, ConnectEnvelope, EntryControl, AccessAuth, WorkstationKeyAuth,
     ApiKeyAuth, ConnectManager, ConnectBearer, OtherPaths, Handle, AuditUnavailable, Refuse, Pass,
     Learn
<1>1. ASSUME NEW status, stage \notin {"handled", "answered"}, Refuse(status),
             stage = "fetch" => Coordinates(call.method, call.path)
      PROVE  Recorded'
  <2>1. /\ audits = 0 /\ stage' = "answered" /\ known' = known
        /\ stage = "fetch" => ~known.coordinated /\ Changes
    BY <1>1 DEF Recorded, Refuse, Coordinates, Changes
  <2>2. \/ answer' = 503
        \/ audits' = IF Audited THEN 1 ELSE 0
    BY <1>1, <2>1 DEF Refuse
  <2> QED
    BY <1>0, <2>1, <2>2 DEF Recorded, AnswersAudited, Audited, IsConnectPath, Changes
<1>2. ASSUME NEW next \in {"envelope", "entry", "access", "station", "key", "connect", "handler"},
             stage' = next, audits' = audits, stage \notin {"handled", "answered"}
      PROVE  Recorded'
  BY <1>2 DEF Recorded, AnswersAudited
<1>3. CASE Fetch
  BY <1>1, <1>2, <1>3 DEF Fetch, Pass, Learn
<1>4. CASE FetchBusy
  BY <1>1, <1>4 DEF FetchBusy
<1>5. CASE ConnectEnvelope \/ EntryControl
  BY <1>1, <1>2, <1>5 DEF ConnectEnvelope, EntryControl, Pass
<1>6. CASE AccessAuth \/ WorkstationKeyAuth \/ ApiKeyAuth
  BY <1>1, <1>2, <1>6 DEF AccessAuth, WorkstationKeyAuth, ApiKeyAuth, Pass, Learn
<1>7. CASE ConnectManager \/ ConnectBearer \/ OtherPaths
  BY <1>1, <1>2, <1>7 DEF ConnectManager, ConnectBearer, OtherPaths, Pass, Learn
<1>8. CASE Handle \/ AuditUnavailable
  <2>1. CASE /\ stage = "handler" /\ stage' = "handled"
             /\ audits' = IF IsConnectPath THEN audits + 1 ELSE audits
    BY <1>0, <2>1 DEF Recorded, AnswersAudited, IsConnectPath
  <2>2. CASE stage = "handler" /\ stage' = "handled" /\ answer' = 503
    BY <1>0, <2>2 DEF Recorded, AnswersAudited, IsConnectPath
  <2> QED
    BY <1>1, <1>8, <2>1, <2>2 DEF Handle, AuditUnavailable
<1> QED
  BY <1>3, <1>4, <1>5, <1>6, <1>7, <1>8 DEF GateNext

LEMMA GateInitially == GateInit => GateInv
<1> SUFFICES ASSUME GateInit PROVE GateInv
  OBVIOUS
<1>1. /\ call.method \in Methods(call.path) /\ call.jwt \in Jwts /\ call.bearer \in Bearers
      /\ stage = "fetch" /\ known = Nothing /\ answer = 0 /\ audits = 0
  BY DEF GateInit
<1>2. KnownTyped /\ ~known.coordinated
  BY <1>1 DEF KnownTyped, Nothing, Jwts, Bearers
<1>3. Said
  BY <1>1, <1>2 DEF Said, PastConnect, PastKey, PastStation, PastAccess, PastEntry, PastFetch
<1>4. Recorded
  BY <1>1, <1>2 DEF Recorded, AnswersAudited
<1> QED
  BY <1>3, <1>4 DEF GateInv

-----------------------------------------------------------------------------
(* What the lists of routes have in common, and what not.                  *)

LEMMA DashboardApart ==
  ASSUME NEW path \in DOMAIN Dashboard
  PROVE  /\ path \notin ProbeWrites \cup {"events"} \cup AssetPaths \cup ConnectPaths \cup StationPaths
                        \cup Monitoring \cup PublicPaths
BY DEF Dashboard, ProbeWrites, AssetPaths, ConnectPaths, Versioned, Management, StationPaths,
   StationAuth, StationProbe, Monitoring, PublicPaths

LEMMA LiveOnlyReads ==
  ASSUME NEW method \in Methods("live")
  PROVE  Reading(method)
<1>1. "live" \in PublicPaths
  BY DEF PublicPaths
<1>2. Registered("live") = {"GET"}
  BY <1>1, DashboardApart DEF Registered, ProbeWrites, StationAuth, AssetPaths, Monitoring, Management,
     PublicPaths
<1> QED
  BY <1>2 DEF Methods, Reading

LEMMA GateEnds == GateInv => GateHolds
<1> SUFFICES ASSUME GateInv PROVE GateHolds
  OBVIOUS
<1>1. ASSUME Handled
      PROVE  /\ call.method \in Methods(call.path)
             /\ FetchSays /\ EntrySays /\ AccessSays /\ StationSays /\ KeySays /\ ConnectSays
  BY <1>1 DEF Handled, GateInv, Said, PastConnect, PastKey, PastStation, PastAccess, PastEntry,
     PastFetch
<1>2. ChangesAreSerial
  BY <1>1 DEF ChangesAreSerial, FetchSays, Coordinates, Changes
<1>3. ReadKeyReads
  <2> SUFFICES ASSUME Handled, Production, Changes, call.bearer = "read", call.jwt = "none"
               PROVE  call.path \in {"events", "workstation-auth/exchange", "workstation-auth/pair"}
    BY DEF ReadKeyReads
  <2>1. call.path # "live"
    BY <1>1, LiveOnlyReads DEF Changes
  <2>2. call.host = "machine"
    BY <1>1, <2>1 DEF EntrySays, AccessSays
  <2>3. IsAllowedMachineRoute(call.method, call.path) /\ ~Reading(call.method)
    BY <1>1, <2>2 DEF EntrySays, Changes
  <2>4. call.path \notin Versioned
    BY <1>1 DEF ConnectSays, IsVersionedPath
  <2>5. call.path \notin StationProbe
    BY <1>1 DEF StationSays
  <2>6. call.path \notin ProbeWrites \cup AssetPaths
    <3> SUFFICES ASSUME call.path \in ProbeWrites \cup AssetPaths PROVE FALSE
      OBVIOUS
    <3>1. IsWriteRequest(call.method, call.path)
      BY <2>3 DEF IsWriteRequest, Reading
    <3>2. ~NeedsNoKey
      BY <2>2, <2>3 DEF NeedsNoKey, IsConnectPath, IsWorkstationPath, ProbeWrites, AssetPaths,
         ConnectPaths, Versioned, Management, StationPaths, StationAuth, StationProbe, PublicPaths
    <3> QED
      BY <1>1, <3>1, <3>2 DEF KeySays
  <2> QED
    BY <2>3, <2>4, <2>5, <2>6 DEF IsAllowedMachineRoute, StationProbe
<1>4. DashboardNeedsSession
  <2> SUFFICES ASSUME Handled, Production, call.path \in DOMAIN Dashboard
               PROVE  known.access /\ call.host = "browser"
    BY DEF DashboardNeedsSession
  <2>1. ~IsAllowedMachineRoute(call.method, call.path)
    BY DashboardApart DEF IsAllowedMachineRoute, ConnectPaths, StationPaths, StationAuth, StationProbe
  <2>2. call.path # "live"
    BY DashboardApart DEF PublicPaths
  <2> QED
    BY <1>1, <2>1, <2>2 DEF EntrySays, AccessSays
<1>5. WorldsApart
  <2>1. ASSUME Handled, Production, call.path \in Management
        PROVE  known.principal # "none" /\ call.host = "browser"
    BY <1>1, <2>1 DEF ConnectSays, ManagerSession, Production, EntrySays
  <2> QED
    BY <1>1, <2>1 DEF WorldsApart, StationSays, ConnectSays
<1>6. AnswersAudited
  BY DEF GateInv, Recorded
<1> QED
  BY <1>2, <1>3, <1>4, <1>5, <1>6 DEF GateHolds

\* For every environment and host: no way around the coordinator, the scopes, the sessions
\* and the audit.
THEOREM NoWayAround == GateSpec => []GateHolds
<1>1. GateInv /\ [GateNext]_gateVars => GateInv'
  <2>1. CASE GateNext
    BY <2>1, LayersStep, RecordStep DEF GateInv
  <2>2. CASE UNCHANGED gateVars
    BY <2>2 DEF gateVars, GateInv, Said, Recorded, KnownTyped, FetchSays, EntrySays, Production,
       AccessSays, StationSays, KeySays, NeedsNoKey, ConnectSays, ManagerSession, IsConnectPath,
       IsWorkstationPath, IsVersionedPath, Changes, AnswersAudited
  <2> QED
    BY <2>1, <2>2
<1> QED
  BY <1>1, GateInitially, GateEnds, PTL DEF GateSpec

-----------------------------------------------------------------------------
(***************************************************************************)
(* ProbeCycle, for any runs, reports and times: whoever counts on the lock *)
(* holds it, what is filed is the newest, and every answer is true.        *)
(***************************************************************************)

RunPlaces == {"idle", "targets", "probe", "upload", "done", "crashed"}
Statuses == {"off", "sent", "checked", "200", "400", "403", "409", "503"}
RunRow == [at : RunPlaces, left : Nat, asleep : BOOLEAN, overslept : BOOLEAN,
           aborted : BOOLEAN, started : Nat, targets : SUBSET Nat, id : ReportIds \cup {Nobody},
           finished : Nat, attempt : 0..Attempts, exit : {-1, 0, 1}]
Moments == Nat \cup {-1}

CycleTyped ==
    /\ minute \in Nat /\ target \in Nat /\ upsets \in Nat
    /\ dir \in [by : Runs \cup {Nobody}, mtime : Nat]
    /\ run \in [Runs -> RunRow]
    /\ uploads \in [Runs -> [1..Attempts -> Statuses]]
    /\ station \in [disabled : BOOLEAN, last_seen_at : Moments, public_ip : Moments]
    /\ filed \subseteq [id : ReportIds \cup {Nobody}, of : Runs, finished : Nat]
    /\ links \subseteq [id : ReportIds \cup {Nobody}, of : Runs]

\* The actions of one run, and the Worker's part in an upload.
RunStep(r) ==
    \/ StartRun(r) \/ StartRefused(r) \/ Notice(r) \/ Suspend(r) \/ Wake(r) \/ Crash(r)
    \/ FetchTargetList(r) \/ Compromised(r) \/ RejectedLocally(r) \/ Assemble(r)
    \/ Accepted(r) \/ Retry(r) \/ GiveUp(r)

\* An end of a run: with exit code 0 only when its upload was answered so.
Finishes(r, code) ==
    /\ Awake(r) /\ run[r].at \in {"probe", "upload"}
    /\ Ends(r, code)
    /\ code \in {0, 1}
    /\ code = 0 => run[r].at = "upload" /\ Answer(r) = "200"

LEMMA EndsFinish ==
  ASSUME NEW r \in Runs, Compromised(r) \/ RejectedLocally(r) \/ Accepted(r) \/ GiveUp(r)
  PROVE  \E code \in {0, 1} : Finishes(r, code)
BY DEF Compromised, RejectedLocally, Accepted, GiveUp, Finishes

LEMMA ForgottenTyped ==
  ASSUME CycleTyped, NEW r \in Runs
  PROVE  /\ Forgotten(r) \in [1..Attempts -> {"off", "sent", "checked"}]
         /\ \A k \in 1..Attempts : Forgotten(r)[k] # "off" => Forgotten(r)[k] = uploads[r][k]
BY DEF Forgotten, CycleTyped, Statuses

LEMMA AnsweredTyped ==
  ASSUME CycleTyped, NEW r \in Runs, NEW k \in 1..Attempts, NEW status \in Statuses,
         Answered(r, k, status)
  PROVE  /\ uploads' \in [Runs -> [1..Attempts -> Statuses]]
         /\ \A s \in Runs, l \in 1..Attempts :
              /\ <<s, l>> # <<r, k>> => uploads'[s][l] = uploads[s][l]
              /\ uploads'[r][k] \in {status, "off"}
BY DEF Answered, CycleTyped, Statuses

LEMMA MaxOfTwo ==
  ASSUME NEW a \in Int, NEW b \in Int
  PROVE  Max({a, b}) = IF a >= b THEN a ELSE b
<1> DEFINE m == IF a >= b THEN a ELSE b
<1>1. m \in {a, b} /\ \A y \in {a, b} : m >= y
  OBVIOUS
<1>2. \A x \in {a, b} : (\A y \in {a, b} : x >= y) => x = m
  OBVIOUS
<1> QED
  BY <1>1, <1>2 DEF Max

\* Newest is the bound that some report reaches.
LEMMA NewestIs ==
  ASSUME NEW rows, \A b \in rows : b.finished \in Nat, NEW m \in Moments,
         \A b \in rows : b.finished <= m,
         m = -1 \/ \E b \in rows : b.finished = m
  PROVE  Newest(rows) = m
<1> DEFINE S == {b.finished : b \in rows} \cup {-1}
<1>1. m \in S /\ \A y \in S : m >= y
  BY DEF Moments
<1>2. \A x \in S : (\A y \in S : x >= y) => x = m
  <2> SUFFICES ASSUME NEW x \in S, \A y \in S : x >= y PROVE x = m
    OBVIOUS
  <2>1. x >= m /\ m >= x
    BY <1>1
  <2>2. x \in Int /\ m \in Int
    BY DEF Moments
  <2> QED
    BY <2>1, <2>2
<1> HIDE DEF S
<1>3. Max(S) = m
  BY <1>1, <1>2 DEF Max
<1> QED
  BY <1>3 DEF Newest, S

\* What every step of r leaves as it was in its next.
RowKept(r, next) ==
    /\ next.overslept = run[r].overslept
    /\ run[r].aborted => next.aborted
    /\ Assemble(r) \/ (next.id = run[r].id /\ next.finished = run[r].finished)

\* Each step of a run gives it a row of its type, and touches no other.
LEMMA RowOfStep ==
  ASSUME CycleTyped, NEW r \in Runs,
         RunStep(r) \/ \E code \in {0, 1} : Finishes(r, code)
  PROVE  /\ run' \in [Runs -> RunRow]
         /\ \A q \in Runs \ {r} : run'[q] = run[q]
         /\ RowKept(r, run'[r])
<1> DEFINE Goal == /\ run' \in [Runs -> RunRow]
                   /\ \A q \in Runs \ {r} : run'[q] = run[q]
                   /\ RowKept(r, run'[r])
<1>0. /\ run \in [Runs -> RunRow] /\ run[r] \in RunRow
      /\ minute \in Nat /\ target \in Nat /\ {0, 1} \subseteq 0..Attempts
  BY CycleAssumption DEF CycleTyped
<1>1. CASE StartRun(r)
  <2> DEFINE next == [run[r] EXCEPT !.at = "targets", !.started = minute]
  <2>1. next \in RunRow /\ RowKept(r, next)
    BY <1>0 DEF RunRow, RunPlaces, RowKept
  <2>2. run' = [run EXCEPT ![r] = next]
    BY <1>1 DEF StartRun
  <2> QED
    BY <1>0, <2>1, <2>2
<1>2. CASE StartRefused(r)
  <2> DEFINE next == [run[r] EXCEPT !.at = "done", !.exit = 1]
  <2>1. next \in RunRow /\ RowKept(r, next)
    BY <1>0 DEF RunRow, RunPlaces, RowKept
  <2>2. run' = [run EXCEPT ![r] = next]
    BY <1>2 DEF StartRefused
  <2> QED
    BY <1>0, <2>1, <2>2
<1>3. CASE Notice(r)
  <2> DEFINE next == [run[r] EXCEPT !.aborted = TRUE]
  <2>1. next \in RunRow /\ RowKept(r, next)
    BY <1>0 DEF RunRow, RunPlaces, RowKept
  <2>2. run' = [run EXCEPT ![r] = next]
    BY <1>3 DEF Notice
  <2> QED
    BY <1>0, <2>1, <2>2
<1>4. CASE Suspend(r)
  <2> DEFINE next == [run[r] EXCEPT !.asleep = TRUE]
  <2>1. next \in RunRow /\ RowKept(r, next)
    BY <1>0 DEF RunRow, RunPlaces, RowKept
  <2>2. run' = [run EXCEPT ![r] = next]
    BY <1>4 DEF Suspend
  <2> QED
    BY <1>0, <2>1, <2>2
<1>5. CASE Wake(r)
  <2> DEFINE next == [run[r] EXCEPT !.asleep = FALSE]
  <2>1. next \in RunRow /\ RowKept(r, next)
    BY <1>0 DEF RunRow, RunPlaces, RowKept
  <2>2. run' = [run EXCEPT ![r] = next]
    BY <1>5 DEF Wake
  <2> QED
    BY <1>0, <2>1, <2>2
<1>6. CASE Crash(r)
  <2> DEFINE next == [run[r] EXCEPT !.at = "crashed", !.left = 0, !.started = 0,
                                 !.asleep = FALSE, !.attempt = 0]
  <2>1. next \in RunRow /\ RowKept(r, next)
    BY <1>0 DEF RunRow, RunPlaces, RowKept
  <2>2. run' = [run EXCEPT ![r] = next]
    BY <1>6 DEF Crash
  <2> QED
    BY <1>0, <2>1, <2>2
<1>7. CASE FetchTargetList(r)
  <2>0. PICK ts \in {{}, {target}} : run' = [run EXCEPT ![r] = [@ EXCEPT !.at = "probe", !.targets = ts]]
    BY <1>7 DEF FetchTargetList
  <2> DEFINE next == [run[r] EXCEPT !.at = "probe", !.targets = ts]
  <2>1. next \in RunRow /\ RowKept(r, next)
    BY <1>0, <2>0 DEF RunRow, RunPlaces, RowKept
  <2>2. run' = [run EXCEPT ![r] = next]
    BY <2>0
  <2> QED
    BY <1>0, <2>1, <2>2
<1>8. CASE Assemble(r)
  <2>0. PICK id \in ReportIds :
          run' = [run EXCEPT ![r] = [@ EXCEPT !.at = "upload", !.id = id, !.finished = minute,
                                              !.attempt = 1]]
    BY <1>8 DEF Assemble
  <2> DEFINE next == [run[r] EXCEPT !.at = "upload", !.id = id, !.finished = minute, !.attempt = 1]
  <2>1. next \in RunRow /\ RowKept(r, next)
    BY <1>0, <1>8, <2>0 DEF RunRow, RunPlaces, RowKept
  <2>2. run' = [run EXCEPT ![r] = next]
    BY <2>0
  <2> QED
    BY <1>0, <2>1, <2>2
<1>9. CASE Retry(r)
  <2> DEFINE next == [run[r] EXCEPT !.attempt = run[r].attempt + 1]
  <2>0. run[r].attempt + 1 \in 0..Attempts
    BY <1>9, <1>0, CycleAssumption DEF Retry, RunRow
  <2>1. next \in RunRow /\ RowKept(r, next)
    BY <1>0, <2>0 DEF RunRow, RunPlaces, RowKept
  <2>2. run' = [run EXCEPT ![r] = next]
    BY <1>9 DEF Retry
  <2> QED
    BY <1>0, <2>1, <2>2
<1>10. ASSUME NEW code \in {0, 1}, Finishes(r, code)
       PROVE  Goal
  <2> DEFINE next == [run[r] EXCEPT !.at = "done", !.exit = code, !.left = 0, !.started = 0,
                                 !.attempt = 0]
  <2>1. next \in RunRow /\ RowKept(r, next)
    BY <1>0 DEF RunRow, RunPlaces, RowKept
  <2>2. run' = [run EXCEPT ![r] = next]
    BY <1>10 DEF Finishes, Ends
  <2> QED
    BY <1>0, <2>1, <2>2
<1> QED
  BY <1>1, <1>2, <1>3, <1>4, <1>5, <1>6, <1>7, <1>8, <1>9, <1>10, EndsFinish DEF RunStep

LEMMA TypedStep == CycleTyped /\ [CycleNext]_cycleVars => CycleTyped'
<1> SUFFICES ASSUME CycleTyped, [CycleNext]_cycleVars PROVE CycleTyped'
  OBVIOUS
<1>1. CASE Minute
  <2>1. run' \in [Runs -> RunRow]
    <3> SUFFICES ASSUME NEW r \in Runs PROVE run'[r] \in RunRow
      BY <1>1 DEF Minute
    <3>1. run[r] \in RunRow /\ (Awake(r) => run[r].left > 0)
      BY <1>1 DEF Minute, CycleTyped
    <3>2. \/ Awake(r) /\ run'[r] = [run[r] EXCEPT !.left = @ - 1, !.aborted = @ \/ dir.by # r]
          \/ run'[r] = [run[r] EXCEPT !.overslept = @ \/ minute + 1 - dir.mtime > LockStale]
          \/ run'[r] = run[r]
      BY <1>1 DEF Minute
    <3>3. Awake(r) => run[r].left - 1 \in Nat
      BY <3>1 DEF RunRow
    <3> QED
      BY <3>1, <3>2, <3>3 DEF RunRow
  <2>2. minute' \in Nat /\ dir' \in [by : Runs \cup {Nobody}, mtime : Nat]
    <3>0. minute' = minute + 1 /\ minute \in Nat
      BY <1>1 DEF Minute, CycleTyped
    <3>1. minute' \in Nat
      BY <3>0
    <3>2. dir' \in {[dir EXCEPT !.mtime = minute'], dir}
      BY <1>1 DEF Minute
    <3> QED
      BY <3>1, <3>2 DEF CycleTyped
  <2> QED
    BY <1>1, <2>1, <2>2 DEF Minute, CycleTyped
<1>2. CASE TargetMoves
  BY <1>2 DEF TargetMoves, Upset, remote, CycleTyped
<1>12. CASE DisableWorkstation
  <2>1. station' \in [disabled : BOOLEAN, last_seen_at : Moments, public_ip : Moments]
    BY <1>12 DEF DisableWorkstation, CycleTyped
  <2> QED
    BY <1>12, <2>1 DEF DisableWorkstation, Upset, remote, CycleTyped
<1>3. ASSUME NEW r \in Runs, StartRun(r) \/ StartRefused(r)
      PROVE  CycleTyped'
  <2>1. run' \in [Runs -> RunRow]
    BY <1>3, RowOfStep DEF RunStep
  <2> QED
    BY <1>3, <2>1 DEF StartRun, StartRefused, AcquireProbeLock, local, CycleTyped
<1>4. ASSUME NEW r \in Runs, Notice(r) \/ Suspend(r) \/ Wake(r) \/ FetchTargetList(r)
      PROVE  CycleTyped'
  <2>1. run' \in [Runs -> RunRow]
    BY <1>4, RowOfStep DEF RunStep
  <2> QED
    BY <1>4, <2>1 DEF Notice, Suspend, Wake, FetchTargetList, local, Upset, CycleTyped
<1>5. ASSUME NEW r \in Runs, Crash(r)
      PROVE  CycleTyped'
  <2>1. run' \in [Runs -> RunRow]
    BY <1>5, RowOfStep DEF RunStep
  <2>2. uploads' \in [Runs -> [1..Attempts -> Statuses]]
    BY <1>5, ForgottenTyped DEF Crash, CycleTyped, Statuses
  <2> QED
    BY <1>5, <2>1, <2>2 DEF Crash, Upset, CycleTyped
<1>6. ASSUME NEW r \in Runs, NEW code \in {0, 1}, Finishes(r, code)
      PROVE  CycleTyped'
  <2>1. run' \in [Runs -> RunRow]
    BY <1>6, RowOfStep
  <2>2. uploads' \in [Runs -> [1..Attempts -> Statuses]]
    BY <1>6, ForgottenTyped DEF Finishes, Ends, CycleTyped, Statuses
  <2>3. dir' \in [by : Runs \cup {Nobody}, mtime : Nat]
    BY <1>6 DEF Finishes, Ends, Release, CycleTyped
  <2> QED
    BY <1>6, <2>1, <2>2, <2>3 DEF Finishes, Ends, local, CycleTyped
<1>7. ASSUME NEW r \in Runs, Assemble(r)
      PROVE  CycleTyped'
  <2>1. run' \in [Runs -> RunRow]
    BY <1>7, RowOfStep DEF RunStep
  <2>2. uploads' \in [Runs -> [1..Attempts -> Statuses]]
    BY <1>7 DEF Assemble, CycleTyped, Statuses
  <2> QED
    BY <1>7, <2>1, <2>2 DEF Assemble, local, CycleTyped
<1>8. ASSUME NEW r \in Runs, Retry(r)
      PROVE  CycleTyped'
  <2>1. run' \in [Runs -> RunRow]
    BY <1>8, RowOfStep DEF RunStep
  <2>2. [Forgotten(r) EXCEPT ![run[r].attempt + 1] = "sent"] \in [1..Attempts -> Statuses]
    BY ForgottenTyped DEF Statuses
  <2>3. uploads' \in [Runs -> [1..Attempts -> Statuses]]
    BY <1>8, <2>2 DEF Retry, CycleTyped
  <2> QED
    BY <1>8, <2>1, <2>3 DEF Retry, local, CycleTyped
<1>9. ASSUME NEW r \in Runs, NEW k \in 1..Attempts, CheckReport(r, k)
      PROVE  CycleTyped'
  <2>1. PICK status \in Statuses : Answered(r, k, status)
    BY <1>9 DEF CheckReport, Statuses
  <2>2. uploads' \in [Runs -> [1..Attempts -> Statuses]]
    BY <2>1, AnsweredTyped
  <2> QED
    BY <1>9, <2>2 DEF CheckReport, remote, CycleTyped
<1>10. ASSUME NEW r \in Runs, NEW k \in 1..Attempts, InsertReport(r, k)
       PROVE  CycleTyped'
  <2> DEFINE rows == IF Inserts(r) THEN filed \cup {Body(r)} ELSE filed
  <2>0. run[r] \in RunRow /\ station \in [disabled : BOOLEAN, last_seen_at : Moments,
                                           public_ip : Moments]
    BY DEF CycleTyped
  <2>1. ResultOf(r, rows) \in Statuses
    BY DEF ResultOf, Statuses
  <2>2. uploads' \in [Runs -> [1..Attempts -> Statuses]]
    BY <1>10, <2>1, AnsweredTyped DEF InsertReport
  <2>3. Body(r) \in [id : ReportIds \cup {Nobody}, of : Runs, finished : Nat]
    BY <2>0 DEF Body, RunRow
  <2>4. LinksOf(r, rows) \subseteq [id : ReportIds \cup {Nobody}, of : Runs]
    BY <2>0 DEF LinksOf, RunRow
  <2>5. Seen(r, rows) \in [disabled : BOOLEAN, last_seen_at : Moments, public_ip : Moments]
    <3>1. run[r].finished \in Nat /\ station.last_seen_at \in Int
      BY <2>0 DEF RunRow, Moments
    <3>2. Max({station.last_seen_at, run[r].finished})
            = IF station.last_seen_at >= run[r].finished THEN station.last_seen_at
              ELSE run[r].finished
      BY <3>1, MaxOfTwo
    <3>3. Max({station.last_seen_at, run[r].finished}) \in Moments
      BY <2>0, <3>1, <3>2 DEF Moments
    <3>4. run[r].finished \in Moments
      BY <3>1 DEF Moments
    <3> QED
      BY <2>0, <3>3, <3>4 DEF Seen
  <2> QED
    BY <1>10, <2>2, <2>3, <2>4, <2>5 DEF InsertReport, remote, CycleTyped
<1>11. CASE UNCHANGED cycleVars
  BY <1>11 DEF cycleVars, CycleTyped
<1> QED
  BY <1>1, <1>2, <1>3, <1>4, <1>5, <1>6, <1>7, <1>8, <1>9, <1>10, <1>11, <1>12,
     EndsFinish DEF CycleNext

LEMMA InitTyped == CycleInit => CycleTyped
<1> SUFFICES ASSUME CycleInit PROVE CycleTyped
  OBVIOUS
<1>1. Idle \in RunRow
  BY CycleAssumption DEF Idle, RunRow, RunPlaces
<1> QED
  BY <1>1, CycleAssumption DEF CycleInit, CycleTyped, Statuses, Moments

-----------------------------------------------------------------------------
(* The lock.                                                               *)

\* As long as no run has slept through the life of its lock, whoever still counts on the
\* lock made the directory, and has kept it fresh.
LockHeld ==
    (\A q \in Runs : ~run[q].overslept) =>
      \A r \in Runs : Alive(r) /\ ~run[r].aborted => dir.by = r /\ minute - dir.mtime <= LockStale

LEMMA LockStep == CycleTyped /\ LockHeld /\ [CycleNext]_cycleVars => LockHeld'
<1> SUFFICES ASSUME CycleTyped, LockHeld, [CycleNext]_cycleVars, \A q \in Runs : ~run'[q].overslept,
                    NEW s \in Runs, Alive(s)', ~run'[s].aborted
             PROVE  dir'.by = s /\ minute' - dir'.mtime <= LockStale
  BY DEF LockHeld
<1>0. /\ run \in [Runs -> RunRow] /\ minute \in Nat /\ LockStale \in Nat
      /\ dir \in [by : Runs \cup {Nobody}, mtime : Nat] /\ Nobody \notin Runs
  BY CycleAssumption DEF CycleTyped
<1>1. CASE Minute
  <2>1. minute' = minute + 1
    BY <1>1 DEF Minute
  <2>2. \A q \in Runs : run[q].overslept => run'[q].overslept
    BY <1>0, <1>1 DEF Minute, RunRow
  <2>3. Alive(s) /\ ~run[s].aborted
    <3>1. \/ run'[s] = [run[s] EXCEPT !.left = @ - 1, !.aborted = @ \/ dir.by # s]
          \/ run'[s] = [run[s] EXCEPT !.overslept = @ \/ minute + 1 - dir.mtime > LockStale]
          \/ run'[s] = run[s]
      BY <1>0, <1>1 DEF Minute
    <3>2. run'[s].at = run[s].at /\ (run[s].aborted => run'[s].aborted)
      BY <1>0, <3>1 DEF RunRow
    <3> QED
      BY <3>2 DEF Alive
  <2>4. dir.by = s
    BY <2>2, <2>3 DEF LockHeld
  <2>5. CASE run[s].asleep
    <3>1. run'[s] = [run[s] EXCEPT !.overslept = @ \/ minute + 1 - dir.mtime > LockStale]
      BY <1>0, <1>1, <2>3, <2>5 DEF Minute, Awake
    <3>2. ~(minute + 1 - dir.mtime > LockStale)
      BY <1>0, <3>1 DEF RunRow
    <3>3. dir' = dir
      BY <1>1, <2>4, <2>5 DEF Minute, Busy, Awake
    <3> QED
      BY <1>0, <2>1, <2>4, <3>2, <3>3
  <2>6. CASE ~run[s].asleep
    <3>1. dir' = [dir EXCEPT !.mtime = minute + 1]
      BY <1>1, <2>3, <2>4, <2>6 DEF Minute, Busy, Awake
    <3> QED
      BY <1>0, <2>1, <2>4, <3>1
  <2> QED
    BY <2>5, <2>6
<1>2. ASSUME NEW r \in Runs, RunStep(r) \/ \E code \in {0, 1} : Finishes(r, code)
      PROVE  dir'.by = s /\ minute' - dir'.mtime <= LockStale
  <2>1. /\ \A q \in Runs \ {r} : run'[q] = run[q]
        /\ run'[r].overslept = run[r].overslept
        /\ run[r].aborted => run'[r].aborted
    BY <1>2, RowOfStep DEF RowKept
  <2>2. \A q \in Runs : ~run[q].overslept
    BY <2>1
  <2>3. \A q \in Runs : Alive(q) /\ ~run[q].aborted => dir.by = q /\ minute - dir.mtime <= LockStale
    BY <2>2 DEF LockHeld
  <2>4. minute' = minute
    BY <1>2, EndsFinish DEF RunStep, StartRun, StartRefused, Notice, Suspend, Wake, Crash,
       FetchTargetList, Assemble, Retry, Finishes, Ends, local
  <2>5. CASE StartRun(r)
    <3>1. dir' = [by |-> r, mtime |-> minute] /\ (dir.by = Nobody \/ dir.mtime < minute - LockStale)
      BY <2>5 DEF StartRun, AcquireProbeLock, IsLockStale
    <3>2. \A q \in Runs : Alive(q) => run[q].aborted
      BY <1>0, <2>3, <3>1
    <3>3. s = r
      BY <2>1, <3>2 DEF Alive
    <3> QED
      BY <1>0, <2>4, <3>1, <3>3
  <2>6. CASE ~StartRun(r) /\ ~\E code \in {0, 1} : Finishes(r, code)
    <3>1. StartRefused(r) \/ Notice(r) \/ Suspend(r) \/ Wake(r) \/ Crash(r)
          \/ FetchTargetList(r) \/ Assemble(r) \/ Retry(r)
      BY <1>2, <2>6, EndsFinish DEF RunStep
    <3>2. dir' = dir
      BY <3>1 DEF StartRefused, Notice, Suspend, Wake, Crash, FetchTargetList, Assemble, Retry
    <3>3. Alive(r) \/ run'[r].at = "done"
      <4>1. CASE StartRefused(r)
        BY <1>0, <4>1 DEF StartRefused, RunRow
      <4>2. CASE ~StartRefused(r)
        BY <3>1, <4>2 DEF Notice, Suspend, Wake, Crash, FetchTargetList, Assemble, Retry, Awake
      <4> QED
        BY <4>1, <4>2
    <3>4. Alive(s) /\ ~run[s].aborted
      BY <2>1, <3>3 DEF Alive
    <3> QED
      BY <2>3, <2>4, <3>2, <3>4
  <2>7. ASSUME NEW code \in {0, 1}, Finishes(r, code)
        PROVE  dir'.by = s /\ minute' - dir'.mtime <= LockStale
    <3>1. run'[r].at = "done" /\ Alive(r) /\ dir' = Release(r)
      BY <1>0, <2>7 DEF Finishes, Ends, Awake, RunRow
    <3>2. s # r
      BY <3>1 DEF Alive
    <3>3. Alive(s) /\ ~run[s].aborted
      BY <2>1, <3>2 DEF Alive
    <3>4. run[r].aborted
      BY <2>3, <3>1, <3>2, <3>3
    <3> QED
      BY <2>3, <2>4, <3>1, <3>3, <3>4 DEF Release
  <2> QED
    BY <1>2, <2>5, <2>6, <2>7
<1>3. CASE UNCHANGED <<minute, dir, run>>
  BY <1>3 DEF LockHeld, Alive
<1> QED
  BY <1>1, <1>2, <1>3 DEF CycleNext, RunStep, TargetMoves, DisableWorkstation, CheckReport,
     InsertReport, remote, cycleVars, Upset

-----------------------------------------------------------------------------
(* The file of reports.                                                    *)

\* The row of the workstation tells of the newest report; the address is of no later one.
SeenNewest ==
    /\ \A b \in filed : b.finished <= station.last_seen_at
    /\ station.last_seen_at = -1 \/ \E b \in filed : b.finished = station.last_seen_at
    /\ station.public_ip <= station.last_seen_at

\* A run sends nothing before it has its report, and "200" stands for that very report.
AnswersKnow ==
    \A r \in Runs :
        /\ run[r].at \in {"idle", "targets", "probe"} => \A k \in 1..Attempts : uploads[r][k] = "off"
        /\ \A k \in 1..Attempts : uploads[r][k] = "200" => Body(r) \in filed
        /\ run[r].exit = 0 => run[r].at = "done" /\ Body(r) \in filed
        /\ run[r].at = "upload" => run[r].attempt # 0

FileInv == SeenNewest /\ LinksOfOneBody /\ AnswersKnow

LEMMA FileOfRunStep ==
  ASSUME CycleTyped, FileInv, NEW r \in Runs,
         RunStep(r) \/ \E code \in {0, 1} : Finishes(r, code)
  PROVE  FileInv'
<1>0. run \in [Runs -> RunRow] /\ uploads \in [Runs -> [1..Attempts -> Statuses]]
  BY DEF CycleTyped
<1>1. UNCHANGED <<filed, links, station>>
  BY EndsFinish DEF RunStep, StartRun, StartRefused, Notice, Suspend, Wake, Crash,
     FetchTargetList, Assemble, Retry, Finishes, Ends, local
<1>2. SeenNewest' /\ LinksOfOneBody'
  BY <1>1 DEF FileInv, SeenNewest, LinksOfOneBody
<1>3. \A q \in Runs \ {r} : run'[q] = run[q] /\ uploads'[q] = uploads[q]
  <2>1. \A q \in Runs \ {r} : run'[q] = run[q]
    BY RowOfStep
  <2>2. \A q \in Runs \ {r} : uploads'[q] = uploads[q]
    BY <1>0, EndsFinish DEF RunStep, StartRun, StartRefused, Notice, Suspend, Wake, Crash,
       FetchTargetList, Assemble, Retry, Finishes, Ends
  <2> QED
    BY <2>1, <2>2
<1>4. Assemble(r) \/ Body(r)' = Body(r)
  BY RowOfStep DEF RowKept, Body
<1> DEFINE Early(at) == at \in {"idle", "targets", "probe"}
           Known == /\ Early(run'[r].at) => \A k \in 1..Attempts : uploads'[r][k] = "off"
                    /\ \A k \in 1..Attempts : uploads'[r][k] = "200" => Body(r)' \in filed
                    /\ run'[r].exit = 0 => run'[r].at = "done" /\ Body(r)' \in filed
                    /\ run'[r].at = "upload" => run'[r].attempt # 0
<1>5. /\ Early(run[r].at) => \A k \in 1..Attempts : uploads[r][k] = "off"
      /\ \A k \in 1..Attempts : uploads[r][k] = "200" => Body(r) \in filed
      /\ run[r].exit = 0 => run[r].at = "done" /\ Body(r) \in filed
      /\ run[r].at = "upload" => run[r].attempt # 0
  BY DEF FileInv, AnswersKnow
<1>6. CASE StartRun(r) \/ StartRefused(r) \/ FetchTargetList(r)
  <2>1. /\ Early(run[r].at) /\ uploads' = uploads
        /\ run'[r].exit \in {run[r].exit, 1} /\ run'[r].at # "upload"
        /\ run'[r].exit = 0 => run[r].exit = 0
    <3>1. CASE StartRun(r)
      BY <1>0, <3>1 DEF StartRun, RunRow
    <3>2. CASE StartRefused(r)
      BY <1>0, <3>2 DEF StartRefused, RunRow
    <3>3. CASE FetchTargetList(r)
      BY <1>0, <3>3 DEF FetchTargetList, RunRow
    <3> QED
      BY <1>6, <3>1, <3>2, <3>3
  <2>3. Known
    BY <1>5, <2>1
  <2> QED
    BY <1>1, <1>2, <1>3, <2>3 DEF FileInv, AnswersKnow, Body
<1>7. CASE Notice(r) \/ Suspend(r) \/ Wake(r)
  <2>1. run'[r].at = run[r].at /\ run'[r].exit = run[r].exit /\ uploads' = uploads
        /\ run'[r].attempt = run[r].attempt
    BY <1>0, <1>7 DEF Notice, Suspend, Wake, RunRow
  <2>2. Body(r)' = Body(r)
    BY <1>0, <1>7 DEF Notice, Suspend, Wake, RunRow, Body
  <2>3. Known
    BY <1>5, <2>1, <2>2
  <2> QED
    BY <1>1, <1>2, <1>3, <2>3 DEF FileInv, AnswersKnow, Body
<1>8. CASE Crash(r)
  <2>1. run'[r].at = "crashed" /\ run'[r].exit = run[r].exit /\ Alive(r)
    BY <1>0, <1>8 DEF Crash, RunRow
  <2>2. \A k \in 1..Attempts : uploads'[r][k] # "200"
    BY <1>0, <1>8, ForgottenTyped DEF Crash
  <2>3. Known
    BY <1>5, <2>1, <2>2 DEF Alive
  <2> QED
    BY <1>1, <1>2, <1>3, <2>3 DEF FileInv, AnswersKnow, Body
<1>9. CASE Assemble(r)
  <2>1. run'[r].at = "upload" /\ run'[r].exit = run[r].exit /\ run[r].at = "probe"
        /\ run'[r].attempt = 1
    BY <1>0, <1>9 DEF Assemble, RunRow
  <2>2. \A k \in 1..Attempts : uploads'[r][k] # "200"
    BY <1>0, <1>5, <1>9 DEF Assemble
  <2>3. Known
    BY <1>5, <2>1, <2>2
  <2> QED
    BY <1>1, <1>2, <1>3, <2>3 DEF FileInv, AnswersKnow, Body
<1>10. CASE Retry(r)
  <2>0. run'[r] = [run[r] EXCEPT !.attempt = @ + 1] /\ run[r].at = "upload"
    BY <1>0, <1>10 DEF Retry
  <2>1. run'[r].at = "upload" /\ run'[r].exit = run[r].exit /\ run[r].at = "upload"
        /\ run'[r].attempt # 0
    BY <1>0, <2>0 DEF RunRow
  <2>2. \A k \in 1..Attempts : uploads'[r][k] # "200"
    BY <1>0, <1>10, ForgottenTyped DEF Retry
  <2>3. Known
    BY <1>5, <2>1, <2>2
  <2> QED
    BY <1>1, <1>2, <1>3, <2>3 DEF FileInv, AnswersKnow, Body
<1>11. ASSUME NEW code \in {0, 1}, Finishes(r, code)
       PROVE  FileInv'
  <2>0. run' = [run EXCEPT ![r] = [@ EXCEPT !.at = "done", !.exit = code, !.left = 0,
                                           !.started = 0, !.attempt = 0]]
    BY <1>11 DEF Finishes, Ends
  <2>1. run'[r].at = "done" /\ run'[r].exit = code
    BY <1>0, <2>0 DEF RunRow
  <2>2. \A k \in 1..Attempts : uploads'[r][k] # "200"
    BY <1>0, <1>11, ForgottenTyped DEF Finishes, Ends
  <2>3. code = 0 => Body(r) \in filed
    <3> SUFFICES ASSUME code = 0 PROVE Body(r) \in filed
      OBVIOUS
    <3>1. uploads[r][run[r].attempt] = "200"
      BY <1>11 DEF Finishes, Answer
    <3>2. run[r].attempt \in 1..Attempts
      BY <1>0, <1>5, <1>11 DEF RunRow, Finishes
    <3> QED
      BY <1>5, <3>1, <3>2
  <2>4. Body(r)' = Body(r)
    BY <1>0, <2>0 DEF RunRow, Body
  <2>5. Known
    BY <2>1, <2>2, <2>3, <2>4
  <2> QED
    BY <1>1, <1>2, <1>3, <2>5 DEF FileInv, AnswersKnow, Body
<1> QED
  BY <1>6, <1>7, <1>8, <1>9, <1>10, <1>11, EndsFinish DEF RunStep

LEMMA FileOfInsert ==
  ASSUME CycleTyped, FileInv, NEW r \in Runs, NEW k \in 1..Attempts, InsertReport(r, k)
  PROVE  FileInv' /\ AddressNeverOlder
<1> DEFINE rows == IF Inserts(r) THEN filed \cup {Body(r)} ELSE filed
           fin == run[r].finished
           seen == station.last_seen_at
           newest == IF seen >= fin THEN seen ELSE fin
<1>0. /\ fin \in Nat /\ seen \in Moments /\ seen \in Int /\ station.public_ip \in Int
      /\ \A b \in filed : b.finished \in Nat
      /\ station \in [disabled : BOOLEAN, last_seen_at : Moments, public_ip : Moments]
  BY DEF CycleTyped, RunRow, Moments
<1>1. /\ filed' = rows /\ run' = run
      /\ links' = links \cup LinksOf(r, rows)
      /\ station' = IF Inserts(r) THEN Seen(r, rows) ELSE station
      /\ uploads[r][k] = "checked"
      /\ Answered(r, k, ResultOf(r, rows))
  BY DEF InsertReport, remote
<1>2. SeenNewest' /\ AddressNeverOlder
  <2>1. CASE Inserts(r)
    <3>1. newest \in Moments /\ newest \in Int
      BY <1>0 DEF Moments
    <3>2. Body(r).finished = fin
      BY DEF Body
    <3>3. \A b \in rows : b.finished \in Nat /\ b.finished <= newest
      BY <1>0, <2>1, <3>2 DEF FileInv, SeenNewest
    <3>4. \E b \in rows : b.finished = newest
      BY <1>0, <2>1, <3>2 DEF FileInv, SeenNewest
    <3>5. Newest(rows) = newest
      BY <3>1, <3>3, <3>4, NewestIs
    <3>6. Max({seen, fin}) = newest
      BY <1>0, MaxOfTwo
    <3>7. station' = [station EXCEPT !.last_seen_at = Max({@, fin}),
                                     !.public_ip = IF fin = Newest(rows) THEN fin ELSE @]
      BY <1>1, <2>1 DEF Seen
    <3>8. /\ station'.last_seen_at = newest
          /\ station'.public_ip = IF fin = newest THEN fin ELSE station.public_ip
      BY <1>0, <3>5, <3>6, <3>7
    <3>9. station.public_ip <= seen
      BY DEF FileInv, SeenNewest
    <3>10. seen <= newest /\ fin <= newest
      BY <1>0
    <3>11. station'.public_ip <= newest /\ station'.public_ip >= station.public_ip
      BY <1>0, <3>1, <3>8, <3>9, <3>10
    <3>12. filed' = rows
      BY <1>1
    <3> HIDE DEF rows, newest, fin, seen
    <3> QED
      BY <3>3, <3>4, <3>8, <3>11, <3>12 DEF SeenNewest, AddressNeverOlder
  <2>2. CASE ~Inserts(r)
    BY <1>0, <1>1, <2>2 DEF FileInv, SeenNewest, AddressNeverOlder
  <2> QED
    BY <2>1, <2>2
<1>3. LinksOfOneBody'
  <2>1. \A l \in links : \E b \in filed : b.id = l.id /\ b.of = l.of
    BY DEF FileInv, LinksOfOneBody
  <2>2. \A l \in LinksOf(r, rows) : Body(r) \in rows /\ Body(r).id = l.id /\ Body(r).of = l.of
    BY DEF LinksOf, Body
  <2>3. filed \subseteq rows
    OBVIOUS
  <2> QED
    BY <1>1, <2>1, <2>2, <2>3 DEF LinksOfOneBody
<1>4. AnswersKnow'
  <2> SUFFICES ASSUME NEW s \in Runs
               PROVE  /\ run[s].at \in {"idle", "targets", "probe"} =>
                            \A l \in 1..Attempts : uploads'[s][l] = "off"
                      /\ \A l \in 1..Attempts : uploads'[s][l] = "200" => Body(s) \in rows
                      /\ run[s].exit = 0 => run[s].at = "done" /\ Body(s) \in rows
                      /\ run[s].at = "upload" => run[s].attempt # 0
    BY <1>1 DEF AnswersKnow, Body
  <2>0. ResultOf(r, rows) \in Statuses
    BY DEF ResultOf, Statuses
  <2>1. /\ \A l \in 1..Attempts : <<s, l>> # <<r, k>> => uploads'[s][l] = uploads[s][l]
        /\ uploads'[r][k] \in {ResultOf(r, rows), "off"}
    BY <1>1, <2>0, AnsweredTyped
  <2>2. ResultOf(r, rows) = "200" => Body(r) \in rows
    BY DEF ResultOf
  <2>3. run[r].at \notin {"idle", "targets", "probe"}
    BY <1>1 DEF FileInv, AnswersKnow
  <2>4. filed \subseteq rows
    OBVIOUS
  <2> QED
    BY <2>1, <2>2, <2>3, <2>4 DEF FileInv, AnswersKnow
<1> QED
  BY <1>2, <1>3, <1>4 DEF FileInv

LEMMA FileStep ==
  ASSUME CycleTyped, FileInv, [CycleNext]_cycleVars
  PROVE  FileInv' /\ AddressNeverOlder /\ DisabledIsFrozen
<1>0. station.public_ip \in Int
  BY DEF CycleTyped, Moments
<1>1. ASSUME NEW r \in Runs, RunStep(r)
      PROVE  FileInv' /\ AddressNeverOlder /\ DisabledIsFrozen
  <2>1. UNCHANGED <<filed, links, station>>
    BY <1>1 DEF RunStep, StartRun, StartRefused, Notice, Suspend, Wake, Crash, Compromised,
       RejectedLocally, Accepted, GiveUp, FetchTargetList, Assemble, Retry, Ends, local
  <2> QED
    BY <1>0, <1>1, <2>1, FileOfRunStep DEF AddressNeverOlder, DisabledIsFrozen
<1>2. ASSUME NEW r \in Runs, NEW k \in 1..Attempts, CheckReport(r, k)
      PROVE  FileInv' /\ AddressNeverOlder /\ DisabledIsFrozen
  <2>1. /\ run' = run /\ UNCHANGED <<filed, links, station>>
        /\ uploads[r][k] = "sent"
    BY <1>2 DEF CheckReport, remote
  <2>2. PICK status \in Statuses \ {"200"} : Answered(r, k, status)
    BY <1>2 DEF CheckReport, Statuses
  <2>3. \A s \in Runs, l \in 1..Attempts :
          /\ <<s, l>> # <<r, k>> => uploads'[s][l] = uploads[s][l]
          /\ uploads'[r][k] # "200"
    BY <2>2, AnsweredTyped
  <2>4. run[r].at \notin {"idle", "targets", "probe"}
    BY <2>1 DEF FileInv, AnswersKnow
  <2>5. AnswersKnow'
    <3> SUFFICES ASSUME NEW s \in Runs
                 PROVE  /\ run[s].at \in {"idle", "targets", "probe"} =>
                              \A l \in 1..Attempts : uploads'[s][l] = "off"
                        /\ \A l \in 1..Attempts : uploads'[s][l] = "200" => Body(s) \in filed
                        /\ run[s].exit = 0 => run[s].at = "done" /\ Body(s) \in filed
                        /\ run[s].at = "upload" => run[s].attempt # 0
      BY <2>1 DEF AnswersKnow, Body
    <3> QED
      BY <2>3, <2>4 DEF FileInv, AnswersKnow
  <2> QED
    BY <1>0, <2>1, <2>5 DEF FileInv, SeenNewest, LinksOfOneBody, AddressNeverOlder, DisabledIsFrozen
<1>3. ASSUME NEW r \in Runs, NEW k \in 1..Attempts, InsertReport(r, k)
      PROVE  FileInv' /\ AddressNeverOlder /\ DisabledIsFrozen
  <2>1. DisabledIsFrozen
    BY <1>3 DEF InsertReport, Inserts, LinksOf, DisabledIsFrozen
  <2> QED
    BY <1>3, <2>1, FileOfInsert
<1>4. CASE Minute
  <2>1. UNCHANGED <<uploads, station, filed, links>>
    BY <1>4 DEF Minute
  <2>2. \A r \in Runs : /\ run'[r].at = run[r].at /\ run'[r].exit = run[r].exit
                        /\ run'[r].attempt = run[r].attempt
                        /\ Body(r)' = Body(r)
    <3> SUFFICES ASSUME NEW r \in Runs
                 PROVE  /\ run'[r].at = run[r].at /\ run'[r].exit = run[r].exit
                        /\ run'[r].attempt = run[r].attempt
                        /\ run'[r].id = run[r].id /\ run'[r].finished = run[r].finished
      BY DEF Body
    <3>1. \/ run'[r] = [run[r] EXCEPT !.left = @ - 1, !.aborted = @ \/ dir.by # r]
          \/ run'[r] = [run[r] EXCEPT !.overslept = @ \/ minute + 1 - dir.mtime > LockStale]
          \/ run'[r] = run[r]
      BY <1>4 DEF Minute
    <3>2. run[r] \in RunRow
      BY DEF CycleTyped
    <3> QED
      BY <3>1, <3>2 DEF RunRow
  <2> QED
    BY <1>0, <2>1, <2>2 DEF FileInv, SeenNewest, LinksOfOneBody, AnswersKnow, AddressNeverOlder,
       DisabledIsFrozen
<1>5. CASE TargetMoves \/ UNCHANGED cycleVars
  <2>1. UNCHANGED <<run, uploads, station, filed, links>>
    BY <1>5 DEF TargetMoves, remote, cycleVars
  <2> QED
    BY <1>0, <2>1 DEF FileInv, SeenNewest, LinksOfOneBody, AnswersKnow, Body, AddressNeverOlder,
       DisabledIsFrozen
<1>6. CASE DisableWorkstation
  <2>1. /\ UNCHANGED <<run, uploads, filed, links>> /\ ~station.disabled
        /\ station'.last_seen_at = station.last_seen_at
        /\ station'.public_ip = station.public_ip
    BY <1>6 DEF DisableWorkstation, remote, CycleTyped
  <2> QED
    BY <1>0, <2>1 DEF FileInv, SeenNewest, LinksOfOneBody, AnswersKnow, Body, AddressNeverOlder,
       DisabledIsFrozen
<1> QED
  BY <1>1, <1>2, <1>3, <1>4, <1>5, <1>6 DEF CycleNext, RunStep

-----------------------------------------------------------------------------

CycleInv == CycleTyped /\ LockHeld /\ FileInv

LEMMA InitInv == CycleInit => CycleInv
<1> SUFFICES ASSUME CycleInit PROVE CycleInv
  OBVIOUS
<1>1. LockHeld
  BY DEF CycleInit, LockHeld, Alive, Idle
<1>2. FileInv
  BY DEF CycleInit, FileInv, SeenNewest, LinksOfOneBody, AnswersKnow, Idle
<1> QED
  BY <1>1, <1>2, InitTyped DEF CycleInv

LEMMA InvFiled == CycleInv => ReportsFiled
<1> SUFFICES ASSUME CycleInv PROVE ReportsFiled
  OBVIOUS
<1>1. OneRun
  BY DEF CycleInv, LockHeld, OneRun, Busy, Awake
<1>2. LastSeenIsNewest
  <2>1. /\ \A b \in filed : b.finished \in Nat
        /\ station.last_seen_at \in Moments
    BY DEF CycleInv, CycleTyped
  <2> QED
    BY <2>1, NewestIs DEF CycleInv, FileInv, SeenNewest, LastSeenIsNewest
<1>3. LinksOfOneBody /\ AcceptedIsFiled
  BY DEF CycleInv, FileInv, AnswersKnow, AcceptedIsFiled
<1> QED
  BY <1>1, <1>2, <1>3 DEF ReportsFiled

\* Runs that overlap, sleep, retry and arrive late or under one id leave one consistent file.
THEOREM ReportsAreFiled == CycleSpec => []ReportsFiled
<1>1. CycleInv /\ [CycleNext]_cycleVars => CycleInv'
  BY TypedStep, LockStep, FileStep DEF CycleInv
<1> QED
  BY <1>1, InitInv, InvFiled, PTL DEF CycleSpec

\* A late report brings back no older address, and a disabled workstation gets nothing more.
THEOREM StationMovesForward == CycleSpec => StationOnlyForward
<1>1. CycleInv /\ [CycleNext]_cycleVars => CycleInv'
  BY TypedStep, LockStep, FileStep DEF CycleInv
<1>2. CycleInv /\ [CycleNext]_cycleVars => [AddressNeverOlder /\ DisabledIsFrozen]_cycleVars
  BY FileStep DEF CycleInv
<1> QED
  BY <1>1, <1>2, InitInv, PTL DEF CycleSpec, StationOnlyForward

-----------------------------------------------------------------------------
(***************************************************************************)
(* CliTokenCache, for any set of requests and any TTLs.                    *)
(***************************************************************************)

USE DEF Resting

-----------------------------------------------------------------------------
(* Type correctness.                                                       *)

\* Every reachable state of the authentication and revocation paths is well typed.
THEOREM CacheTypeCorrect == TokenCacheSpec => []TokenCacheTypeOK
<1>1. TokenCacheInit => TokenCacheTypeOK
  BY DEF TokenCacheInit, TokenCacheTypeOK
<1>2. TokenCacheTypeOK /\ [TokenCacheNext]_tokenCacheVars => TokenCacheTypeOK'
  <2> SUFFICES ASSUME TokenCacheTypeOK, [TokenCacheNext]_tokenCacheVars PROVE TokenCacheTypeOK'
    OBVIOUS
  <2> USE CliTokenAssumption DEF TokenCacheTypeOK, request
  <2>1. CASE TokenCacheTick \/ CreateToken
    BY <2>1 DEF TokenCacheTick, CreateToken
  <2>2. CASE Revoke
    BY <2>2 DEF Revoke, FindHash, DeleteRow, PutRevoked, DropCache, RevocationDies
  <2>3. ASSUME NEW p \in Requests, Authenticate(p) PROVE TokenCacheTypeOK'
    <3>1. CASE StartRequest(p)
      BY <3>1 DEF StartRequest
    <3>2. CASE ReadSentinel(p) \/ ReadCache(p)
      BY <3>2 DEF ReadSentinel, ReadCache, Goto
    <3>3. CASE SelectRow(p) \/ TouchRow(p) \/ Die(p)
      BY <3>3 DEF SelectRow, TouchRow, Die, Goto
    <3>4. CASE RememberToken(p)
      BY <3>4 DEF RememberToken, Goto
    <3> QED
      BY <2>3, <3>1, <3>2, <3>3, <3>4 DEF Authenticate
  <2>4. CASE UNCHANGED tokenCacheVars
    BY <2>4 DEF tokenCacheVars
  <2> QED
    BY <2>1, <2>2, <2>3, <2>4 DEF TokenCacheNext
<1> QED
  BY <1>1, <1>2, PTL DEF TokenCacheSpec

-----------------------------------------------------------------------------
(* How long a deleted token can live.                                      *)

\* The clock of the requests: none has outlived MaxLatency.
Young ==
    \A p \in Requests :
        started[p] <= tokenClock /\ (pc[p] \notin Resting => tokenClock <= started[p] + MaxLatency)

\* A revocation that has looked the hash up has a row to delete.
Deleting == rpc = "delete" => tokenRow = "live"

\* A request that found the row started before the row was deleted.
FoundBefore ==
    \A p \in Requests :
        pc[p] \in {"touch", "remember"}
          => tokenRow = "live" \/ (tokenRow = "deleted" /\ started[p] <= deletedAt)

\* How far ahead the positive cache entry can reach.
CacheBound ==
    /\ tokenRow # "deleted" => cache <= tokenClock + CacheTTL
    /\ tokenRow = "deleted" => cache <= deletedAt + MaxLatency + CacheTTL

LifeInv == Young /\ Deleting /\ FoundBefore /\ CacheBound

LEMMA LifeInductive ==
  ASSUME TokenCacheTypeOK, LifeInv, [TokenCacheNext]_tokenCacheVars
  PROVE  LifeInv'
<1> USE CliTokenAssumption DEF TokenCacheTypeOK, request
<1>1. CASE TokenCacheTick
  <2>1. Young'
    BY <1>1 DEF TokenCacheTick, LifeInv, Young
  <2>2. Deleting' /\ FoundBefore'
    BY <1>1 DEF TokenCacheTick, LifeInv, Deleting, FoundBefore
  <2>3. CacheBound'
    BY <1>1 DEF TokenCacheTick, LifeInv, CacheBound
  <2> QED
    BY <2>1, <2>2, <2>3 DEF LifeInv
<1>2. CASE CreateToken
  BY <1>2 DEF CreateToken, LifeInv, Young, Deleting, FoundBefore, CacheBound
<1>3. CASE FindHash \/ PutRevoked \/ DropCache \/ RevocationDies
  BY <1>3 DEF FindHash, PutRevoked, DropCache, RevocationDies,
              LifeInv, Young, Deleting, FoundBefore, CacheBound
<1>4. CASE DeleteRow
  <2>1. Young' /\ Deleting'
    BY <1>4 DEF DeleteRow, LifeInv, Young, Deleting
  <2>2. FoundBefore'
    BY <1>4 DEF DeleteRow, LifeInv, Young, FoundBefore
  <2>3. CacheBound'
    BY <1>4 DEF DeleteRow, LifeInv, Deleting, CacheBound
  <2> QED
    BY <2>1, <2>2, <2>3 DEF LifeInv
<1>5. ASSUME NEW p \in Requests, Authenticate(p) PROVE LifeInv'
  <2>1. CASE StartRequest(p)
    BY <2>1 DEF StartRequest, LifeInv, Young, Deleting, FoundBefore, CacheBound
  <2>2. CASE ReadSentinel(p) \/ ReadCache(p)
    BY <2>2 DEF ReadSentinel, ReadCache, Goto, LifeInv, Young, Deleting, FoundBefore, CacheBound
  <2>3. CASE SelectRow(p) \/ TouchRow(p) \/ Die(p)
    BY <2>3 DEF SelectRow, TouchRow, Die, Goto, LifeInv, Young, Deleting, FoundBefore, CacheBound
  <2>4. CASE RememberToken(p)
    <3>1. Young' /\ Deleting' /\ FoundBefore'
      BY <2>4 DEF RememberToken, Goto, LifeInv, Young, Deleting, FoundBefore
    <3>2. tokenRow = "deleted" => tokenClock + CacheTTL <= deletedAt + MaxLatency + CacheTTL
      BY <2>4 DEF RememberToken, LifeInv, Young, FoundBefore
    <3>3. CacheBound'
      BY <2>4, <3>2 DEF RememberToken, Goto, LifeInv, CacheBound
    <3> QED
      BY <3>1, <3>3 DEF LifeInv
  <2> QED
    BY <1>5, <2>1, <2>2, <2>3, <2>4 DEF Authenticate
<1>6. CASE UNCHANGED tokenCacheVars
  BY <1>6 DEF tokenCacheVars, LifeInv, Young, Deleting, FoundBefore, CacheBound
<1> QED
  BY <1>1, <1>2, <1>3, <1>4, <1>5, <1>6 DEF TokenCacheNext, Revoke

\* A deleted token is accepted no later than one request's latency plus the
\* positive cache's TTL after its row was deleted, whatever races or fails.
THEOREM DeletedTokenSafe == TokenCacheSpec => [][DeletedTokenDies]_tokenCacheVars
<1>1. TokenCacheInit => LifeInv
  BY CliTokenAssumption DEF TokenCacheInit, LifeInv, Young, Deleting, FoundBefore, CacheBound
<1>2. TokenCacheTypeOK /\ LifeInv /\ [TokenCacheNext]_tokenCacheVars => LifeInv'
  BY LifeInductive
<1>3. TokenCacheTypeOK /\ LifeInv /\ [TokenCacheNext]_tokenCacheVars => [DeletedTokenDies]_tokenCacheVars
  <2> SUFFICES ASSUME TokenCacheTypeOK, LifeInv, TokenCacheNext,
                      NEW p \in Requests, Accepts(p), tokenRow = "deleted"
               PROVE  tokenClock < deletedAt + MaxLatency + CacheTTL
    BY DEF DeletedTokenDies
  <2> USE CliTokenAssumption DEF TokenCacheTypeOK, Accepts
  <2>1. ReadCache(p) \/ RememberToken(p)
    BY DEF TokenCacheNext, TokenCacheTick, CreateToken, Revoke, FindHash, DeleteRow, PutRevoked, DropCache,
           RevocationDies, request, Authenticate, StartRequest, ReadSentinel, SelectRow,
           TouchRow, Die, Goto, ReadCache, RememberToken
  <2>2. CASE ReadCache(p)
    BY <2>2 DEF ReadCache, Goto, LifeInv, CacheBound
  <2>3. CASE RememberToken(p)
    BY <2>3 DEF RememberToken, LifeInv, Young, FoundBefore
  <2> QED
    BY <2>1, <2>2, <2>3
<1> QED
  BY <1>1, <1>2, <1>3, CacheTypeCorrect, PTL DEF TokenCacheSpec

-----------------------------------------------------------------------------
(* What the revoke sentinel shields.                                       *)

\* The sentinel is only ever put over a deleted row, and put once.
PutOnce ==
    /\ rpc = "delete" => tokenRow = "live"
    /\ rpc = "put" => tokenRow = "deleted" /\ revoked = 0
    /\ tokenRow # "deleted" => revoked = 0

\* A shielded request cannot find the row, and reads the cache only once the
\* sentinel it started under has expired.
ShieldedPath ==
    \A p \in Requests :
        shielded[p] => /\ revoked # 0
                       /\ pc[p] \notin {"touch", "remember"}
                       /\ pc[p] = "cache" => revoked <= tokenClock

ShieldInv == PutOnce /\ ShieldedPath

LEMMA ShieldInductive ==
  ASSUME TokenCacheTypeOK, ShieldInv, [TokenCacheNext]_tokenCacheVars
  PROVE  ShieldInv'
<1> USE CliTokenAssumption DEF TokenCacheTypeOK, request, ShieldInv
<1>1. CASE TokenCacheTick \/ CreateToken
  BY <1>1 DEF TokenCacheTick, CreateToken, PutOnce, ShieldedPath
<1>2. CASE Revoke
  BY <1>2 DEF Revoke, FindHash, DeleteRow, PutRevoked, DropCache, RevocationDies,
              PutOnce, ShieldedPath
<1>3. ASSUME NEW p \in Requests, Authenticate(p) PROVE ShieldInv'
  <2>1. PutOnce'
    BY <1>3 DEF Authenticate, StartRequest, ReadSentinel, ReadCache, SelectRow, TouchRow,
                RememberToken, Die, Goto, PutOnce
  <2>2. CASE StartRequest(p)
    BY <2>1, <2>2 DEF StartRequest, ShieldedPath
  <2>3. CASE ReadSentinel(p) \/ ReadCache(p)
    BY <2>1, <2>3 DEF ReadSentinel, ReadCache, Goto, ShieldedPath
  <2>4. CASE SelectRow(p)
    BY <2>1, <2>4 DEF SelectRow, Goto, PutOnce, ShieldedPath
  <2>5. CASE TouchRow(p) \/ RememberToken(p) \/ Die(p)
    BY <2>1, <2>5 DEF TouchRow, RememberToken, Die, Goto, ShieldedPath
  <2> QED
    BY <1>3, <2>2, <2>3, <2>4, <2>5 DEF Authenticate
<1>4. CASE UNCHANGED tokenCacheVars
  BY <1>4 DEF tokenCacheVars, PutOnce, ShieldedPath
<1> QED
  BY <1>1, <1>2, <1>3, <1>4 DEF TokenCacheNext

\* A request that started under the revoke sentinel is not accepted while the
\* sentinel stands, even when its KV reads fail or a stale cache entry exists.
THEOREM SentinelShieldsSafe == TokenCacheSpec => [][SentinelShields]_tokenCacheVars
<1>1. TokenCacheInit => ShieldInv
  BY DEF TokenCacheInit, ShieldInv, PutOnce, ShieldedPath
<1>2. TokenCacheTypeOK /\ ShieldInv /\ [TokenCacheNext]_tokenCacheVars => ShieldInv'
  BY ShieldInductive
<1>3. TokenCacheTypeOK /\ ShieldInv /\ [TokenCacheNext]_tokenCacheVars => [SentinelShields]_tokenCacheVars
  <2> SUFFICES ASSUME TokenCacheTypeOK, ShieldInv, TokenCacheNext, NEW p \in Requests, Accepts(p), shielded[p]
               PROVE  revoked <= tokenClock
    BY DEF SentinelShields
  <2> USE DEF TokenCacheTypeOK, Accepts
  <2>1. ReadCache(p) \/ RememberToken(p)
    BY DEF TokenCacheNext, TokenCacheTick, CreateToken, Revoke, FindHash, DeleteRow, PutRevoked, DropCache,
           RevocationDies, request, Authenticate, StartRequest, ReadSentinel, SelectRow,
           TouchRow, Die, Goto, ReadCache, RememberToken
  <2> QED
    BY <2>1 DEF ReadCache, RememberToken, ShieldInv, ShieldedPath
<1> QED
  BY <1>1, <1>2, <1>3, CacheTypeCorrect, PTL DEF TokenCacheSpec

\* For any number of requests and any KV faults: a revocation takes effect at once under its
\* sentinel and within one TTL and one latency otherwise.
THEOREM RevocationIsKept == TokenCacheSpec => RevocationHolds
  BY DeletedTokenSafe, SentinelShieldsSafe, PTL DEF RevocationHolds

-----------------------------------------------------------------------------
(****************************************************************************)
(* ProbeReport, for any machine, pings, limits and lanes.                   *)
(****************************************************************************)

\* The steps after each collection.
AfterCpu == {"memory", "disk", "network", "ping", "assembled", "validated"}
AfterMemory == AfterCpu \ {"memory"}
AfterDisk == AfterMemory \ {"disk"}
AfterNetwork == AfterDisk \ {"network"}

\* What has been collected fits the schema, but for what the collectors do not cut.
CpuFits(cpu) == cpu.count \in Nat /\ cpu.count >= 1 /\ (cpu.usage = Null \/ cpu.usage \in 0..100)
VolumeFits(v) == v.total \in Nat /\ v.total >= 1 /\ v.available \in 0..v.total
NetworkFits(network) ==
    /\ Cardinality(DOMAIN network) <= ListMax
    /\ \A i \in DOMAIN network : network[i] <= ListMax

MachineFits(m) ==
    /\ step \in AfterCpu => CpuFits(m.cpu)
    /\ step \in AfterMemory => VolumeFits(m.mem) /\ m.mem.total <= BytesMax
    /\ step \in AfterDisk => \A d \in m.disk : VolumeFits(d)
    /\ step \in AfterNetwork => NetworkFits(m.network) /\ m.text \in 1..TextMax
    /\ step \in {"assembled", "validated"} => m.span \in Int

PartsBy(reached) ==
    {"targets_error"} \cup (IF reached \in AfterCpu THEN {"cpu"} ELSE {}) \cup (IF reached \in AfterMemory THEN {"mem"} ELSE {})
    \cup (IF reached \in AfterDisk THEN {"disk"} ELSE {}) \cup (IF reached \in AfterNetwork THEN {"network", "text"} ELSE {})

EntryHonest(e) ==
    /\ e.local => e.status = "error"
    /\ e.status = "reachable" => e.replies = PingCount
    /\ e.replies = PingCount /\ ~e.local => e.status = "reachable"
    /\ e.status \in {"timeout", "unreachable"} => e.replies = 0

\* No more errors than the report takes.
ErrorsFit(es) == IsFiniteSet(es) /\ Cardinality(es) <= ErrorMax

ReportInv ==
    /\ step \in {"targets", "cpu"} \cup AfterCpu
    /\ ErrorsFit(errors)
    /\ step # "targets" => PartsBy(step) \subseteq DOMAIN machine
    /\ MachineFits(machine)
    /\ \A t \in DOMAIN entries : ReadConnectivity(entries[t]) /\ EntryHonest(entries[t])
    /\ verdict # "none" => step = "validated" /\ RefusedOnlyForCause

LEMMA ReportConstants ==
  /\ TextMax \in Nat /\ TextMax >= 1 /\ ListMax \in Nat /\ ListMax >= 1 /\ CpuMax \in Nat /\ CpuMax >= 1
  /\ BytesMax \in Nat /\ BytesMax >= 1 /\ ErrorMax \in Nat
BY ReportAssumption

LEMMA LesserOf ==
  ASSUME NEW a \in Int, NEW b \in Int
  PROVE  /\ Min({a, b}) = IF a <= b THEN a ELSE b
         /\ Max({a, b}) = IF a <= b THEN b ELSE a
BY DEF Min, Max

LEMMA BoundIs ==
  ASSUME NEW low \in Int, NEW x \in Int, NEW high \in Int, low <= high
  PROVE  Bound(low, x, high) \in low..high
<1>1. Max({low, x}) = IF low <= x THEN x ELSE low
  BY LesserOf
<1>2. Min({high, IF low <= x THEN x ELSE low}) \in low..high
  BY LesserOf
<1> QED
  BY <1>1, <1>2 DEF Bound

LEMMA PushFits ==
  ASSUME NEW es, NEW e, ErrorsFit(es)
  PROVE  ErrorsFit(ErrorPush(es, e))
<1>1. Cardinality(es) \in Nat /\ ErrorMax \in Nat
  BY FS_CardinalityType, ReportConstants DEF ErrorsFit
<1>2. CASE Cardinality(es) >= ErrorMax
  BY <1>2 DEF ErrorPush, ErrorsFit
<1>3. CASE ~(Cardinality(es) >= ErrorMax)
  <2>1. IsFiniteSet(es \cup {e}) /\ Cardinality(es \cup {e}) <= Cardinality(es) + 1
    BY <1>1, FS_AddElement DEF ErrorsFit
  <2> QED
    BY <1>1, <1>3, <2>1, FS_CardinalityType DEF ErrorPush, ErrorsFit
<1> QED
  BY <1>2, <1>3

\* The first of the interfaces are no more than fit.
LEMMA FirstFew ==
  ASSUME NEW kept \in SUBSET Nat, NEW n \in Nat, \A i \in kept : i <= n, NEW limit \in Nat
  PROVE  Cardinality({i \in kept : Cardinality({j \in kept : j <= i}) <= limit}) <= limit
<1> DEFINE first == {i \in kept : Cardinality({j \in kept : j <= i}) <= limit}
<1>0. first \subseteq kept /\ \A i \in first : Cardinality({j \in kept : j <= i}) <= limit
  OBVIOUS
<1> SUFFICES Cardinality(first) <= limit
  OBVIOUS
<1> HIDE DEF first
<1>1. CASE first = {}
  <2>1. Cardinality({}) = 0
    BY FS_EmptySet
  <2> QED
    BY <1>1, <2>1
<1>2. CASE first # {}
  <2> DEFINE back == {n - i : i \in first}
  <2>1. back \subseteq Nat /\ back # {}
    <3>1. \A i \in first : n - i \in Nat
      BY <1>0
    <3> QED
      BY <1>2, <3>1
  <2>2. \E x \in back : \A y \in back : ~(y < x)
    <3> DEFINE R == OpToRel(<, Nat)
    <3>1. IsWellFoundedOn(R, Nat)
      BY NatLessThanWellFounded
    <3>2. \A x \in back, y \in back : y < x => <<y, x>> \in R
      BY <2>1 DEF OpToRel
    <3> HIDE DEF R, back
    <3>3. PICK x \in back : \A y \in back : ~(<<y, x>> \in R)
      BY <2>1, <3>1, WFMin
    <3> QED
      BY <3>2, <3>3
  <2>3. PICK m \in first : \A i \in first : i <= m
    <3>1. PICK x \in back : \A y \in back : ~(y < x)
      BY <2>2
    <3>2. PICK m \in first : x = n - m
      BY <3>1
    <3>3. \A i \in first : ~(n - i < n - m) /\ i \in Nat
      BY <1>0, <3>1, <3>2
    <3> QED
      BY <3>3
  <2> DEFINE upto == {j \in kept : j <= m}
  <2>4. first \subseteq upto /\ upto \subseteq Nat /\ (\A j \in upto : j <= n) /\ Cardinality(upto) <= limit
    BY <1>0, <2>3
  <2> HIDE DEF upto
  <2>5. IsFiniteSet(upto)
    BY <2>4, FS_BoundedSetOfNaturals
  <2>6. Cardinality(first) <= Cardinality(upto) /\ Cardinality(first) \in Nat /\ Cardinality(upto) \in Nat
    BY <2>4, <2>5, FS_Subset, FS_CardinalityType
  <2> QED
    BY <2>4, <2>6
<1> QED
  BY <1>1, <1>2

LEMMA NetworkIs ==
  ASSUME NEW n \in 0..(ListMax + 1), NEW counts \in [1..n -> 0..(ListMax + 1)]
  PROVE  NetworkFits(CollectNetwork(counts))
<1> DEFINE kept == {i \in DOMAIN counts : counts[i] > 0}
           first == {i \in kept : Cardinality({j \in kept : j <= i}) <= ListMax}
<1>1. kept \in SUBSET Nat /\ (\A i \in kept : i <= n) /\ n \in Nat /\ ListMax \in Nat
  BY ReportConstants
<1>2. CollectNetwork(counts) = [i \in first |-> Min({counts[i], ListMax})]
  BY DEF CollectNetwork
<1>3. \A i \in first : Min({counts[i], ListMax}) <= ListMax
  <2> TAKE i \in first
  <2>1. counts[i] \in Int /\ ListMax \in Int
    BY ReportConstants
  <2> QED
    BY <2>1, LesserOf
<1> HIDE DEF kept
<1>4. Cardinality(first) <= ListMax
  BY <1>1, FirstFew
<1> HIDE DEF first
<1> QED
  BY <1>2, <1>3, <1>4 DEF NetworkFits

-----------------------------------------------------------------------------
(* Pings.                                                                  *)

\* Every reply lands in the slot of its packet, whatever the platform's numbers.
LEMMA SlotsAre ==
  ASSUME NEW r \in ExecResult
  PROVE  /\ Readable(r) => Slots(r) = r.replies
         /\ ~Readable(r) => Slots(r) = {}
         /\ r.replies \subseteq 0..2
<1>1. r.replies \subseteq 0..2 /\ r.platform \in {"linux", "darwin", "win32"} /\ r.garbled \in BOOLEAN
  BY DEF ExecResult, PingCount, Platforms
<1>2. CASE r.platform = "win32"
  BY <1>1, <1>2 DEF Readable, Slots, ParseWindows
<1>3. CASE r.platform # "win32"
  <2> DEFINE base == SequenceBase(r.platform)
  <2>1. FirstSequence(r.platform) = base /\ base \in Int
    BY DEF FirstSequence, SequenceBase
  <2>2. ParseUnix(r) = {q - base : q \in {s + base : s \in r.replies}} \cap 0..2
    BY <2>1 DEF ParseUnix, PingCount
  <2> HIDE DEF base
  <2>3. {q - base : q \in {s + base : s \in r.replies}} = r.replies
    <3>1. \A s \in r.replies : s \in Int /\ (s + base) - base = s
      BY <1>1, <2>1
    <3> QED
      BY <3>1
  <2> QED
    BY <1>1, <1>3, <2>2, <2>3 DEF Readable, Slots
<1> QED
  BY <1>2, <1>3

LEMMA PacketsAre ==
  ASSUME NEW s \in SUBSET (0..2)
  PROVE  Cardinality(s) \in 0..3 /\ (Cardinality(s) = 0 <=> s = {})
<1>1. s \in SUBSET Nat /\ \A x \in s : x <= 2
  OBVIOUS
<1>2. IsFiniteSet(s) /\ Cardinality(s) <= 2 + 1
  BY <1>1, FS_BoundedSetOfNaturals
<1>3. Cardinality(s) \in Nat /\ (Cardinality(s) = 0 <=> s = {})
  BY <1>2, FS_CardinalityType, FS_EmptySet
<1> QED
  BY <1>2, <1>3

LEMMA PingIsHonest ==
  ASSUME NEW r \in ExecResult
  PROVE  ReadConnectivity(PingTarget(r)) /\ EntryHonest(PingTarget(r))
<1> DEFINE received == Cardinality(Slots(r))
           fault == LocalFailure(r)
           answered == IF Readable(r) THEN Cardinality(r.replies) ELSE 0
           status == ClassifyConnectivity(received, r.unreachable, fault)
           broken == r.spawnError \/ r.aborted \/ r.denied
<1>1. /\ received \in 0..3 /\ answered = received
  <2>1. Cardinality({}) = 0
    BY FS_EmptySet
  <2> QED
    BY <2>1, SlotsAre, PacketsAre
<1>2. broken => fault
  BY DEF LocalFailure
<1>3. answered = 3 /\ ~broken => ~fault
  <2> SUFFICES ASSUME answered = 3, ~broken PROVE ~fault
    OBVIOUS
  <2>1. Readable(r)
    OBVIOUS
  <2>2. Slots(r) # {}
    <3>1. Cardinality({}) = 0
      BY FS_EmptySet
    <3> QED
      BY <1>1, <3>1
  <2> QED
    BY <2>1, <2>2 DEF LocalFailure, Readable
<1>4. PICK e : e = PingTarget(r)
  OBVIOUS
<1>5. e.received = received /\ e.status = status /\ e.replies = answered /\ (e.local <=> broken)
  BY <1>4 DEF PingTarget
<1>6. /\ fault => status = "error"
      /\ ~fault /\ received >= 3 => status = "reachable"
      /\ ~fault /\ received < 3 /\ received > 0 => status = "partial"
      /\ ~fault /\ received <= 0 => status \in {"timeout", "unreachable"}
  <2> HIDE DEF received, fault
  <2> QED
    BY <1>1 DEF ClassifyConnectivity, PingCount
<1> HIDE DEF received, fault, answered, status, broken
<1>7. ReadConnectivity(e)
  BY <1>1, <1>5, <1>6 DEF ReadConnectivity, ReadInteger, PingCount
<1>8. EntryHonest(e)
  BY <1>1, <1>2, <1>3, <1>5, <1>6 DEF EntryHonest, PingCount
<1> QED
  BY <1>4, <1>7, <1>8

-----------------------------------------------------------------------------
(* The steps.                                                              *)

\* A part is added to what was found.
LEMMA FoundIs ==
  ASSUME NEW part, NEW value, Found(part, value)
  PROVE  /\ DOMAIN machine' = DOMAIN machine \cup {part} /\ machine'[part] = value
         /\ \A p \in DOMAIN machine : p # part => machine'[p] = machine[p]
BY DEF Found

LEMMA ReportStarts == ReportInit => ReportInv
<1> SUFFICES ASSUME ReportInit PROVE ReportInv
  OBVIOUS
<1>1. step = "targets" /\ errors = {} /\ verdict = "none" /\ DOMAIN entries = {}
  BY DEF ReportInit, NoFindings
<1>2. ErrorsFit(errors)
  BY <1>1, FS_EmptySet, ReportConstants DEF ErrorsFit
<1> QED
  BY <1>1, <1>2 DEF ReportInv, MachineFits, AfterCpu, AfterMemory, AfterDisk, AfterNetwork

LEMMA TargetsFetched ==
  ASSUME ReportInv, FetchTargets
  PROVE  ReportInv'
<1>1. step = "targets" /\ step' = "cpu" /\ UNCHANGED <<entries, verdict>>
  BY DEF FetchTargets
<1>2. "targets_error" \in DOMAIN machine'
  BY FoundIs DEF FetchTargets
<1>3. ErrorsFit(errors')
  BY PushFits DEF FetchTargets, ReportInv
<1> QED
  BY <1>1, <1>2, <1>3 DEF ReportInv, MachineFits, PartsBy, AfterCpu, AfterMemory, AfterDisk, AfterNetwork

LEMMA UsageIs ==
  ASSUME NEW idle \in -1..2, NEW total \in -1..1
  PROVE  CpuUsage(idle, total) = Null \/ CpuUsage(idle, total) \in 0..100
<1>1. CASE total <= 0
  BY <1>1 DEF CpuUsage
<1>2. CASE ~(total <= 0)
  <2>1. total = 1
    BY <1>2
  <2>2. PICK x \in Int : x = ((total - idle) * 100) \div total
    BY <2>1
  <2>3. Bound(0, x, 100) \in 0..100
    <3>1. 0 \in Int /\ 100 \in Int /\ 0 <= 100
      OBVIOUS
    <3> QED
      BY <3>1, BoundIs
  <2> QED
    BY <1>2, <2>2, <2>3 DEF CpuUsage
<1> QED
  BY <1>1, <1>2

LEMMA CpuSampled ==
  ASSUME ReportInv, SampleCpu
  PROVE  ReportInv'
<1>1. step = "cpu" /\ step' = "memory" /\ UNCHANGED <<entries, verdict>>
  BY DEF SampleCpu, pings
<1>2. PICK short \in BOOLEAN, idle \in -1..2, total \in -1..1, count \in 0..(CpuMax + 1) :
        /\ errors' = IF short THEN ErrorPush(errors, Of("cpu")) ELSE errors
        /\ Found("cpu", [usage |-> IF short THEN Null ELSE CpuUsage(idle, total), count |-> Max({1, count})])
  BY DEF SampleCpu
<1>3. PICK cpu : cpu = [usage |-> IF short THEN Null ELSE CpuUsage(idle, total), count |-> Max({1, count})]
  OBVIOUS
<1>4. Max({1, count}) \in Nat /\ Max({1, count}) >= 1
  <2>1. count \in Int /\ 1 \in Int
    BY ReportConstants
  <2>2. Max({1, count}) = IF 1 <= count THEN count ELSE 1
    BY <2>1, LesserOf
  <2> QED
    BY <2>1, <2>2
<1>5. CpuFits(cpu)
  <2>1. cpu.count = Max({1, count}) /\ cpu.usage = (IF short THEN Null ELSE CpuUsage(idle, total))
    BY <1>3
  <2> QED
    BY <1>4, <2>1, UsageIs DEF CpuFits
<1>6. DOMAIN machine' = DOMAIN machine \cup {"cpu"} /\ machine'.cpu = cpu
  BY <1>2, <1>3, FoundIs
<1>7. ErrorsFit(errors')
  BY <1>2, PushFits DEF ReportInv
<1> QED
  BY <1>1, <1>5, <1>6, <1>7 DEF ReportInv, MachineFits, PartsBy, AfterCpu, AfterMemory, AfterDisk, AfterNetwork

LEMMA MemorySampled ==
  ASSUME ReportInv, SampleMemory
  PROVE  ReportInv'
<1>1. step = "memory" /\ step' = "disk" /\ UNCHANGED <<entries, verdict, errors>>
  BY DEF SampleMemory, pings
<1>2. PICK total \in 0..BytesMax, free \in -1..(BytesMax + 1) : Found("mem", CollectMemory(total, free))
  BY DEF SampleMemory
<1>3. PICK mem : mem = CollectMemory(total, free)
  OBVIOUS
<1>4. PICK all : all = Max({1, total})
  OBVIOUS
<1>5. all \in Nat /\ all >= 1 /\ all <= BytesMax /\ free \in Int
  <2>1. total \in Int /\ 1 \in Int /\ BytesMax \in Nat /\ BytesMax >= 1
    BY ReportConstants
  <2>2. all = IF 1 <= total THEN total ELSE 1
    BY <1>4, <2>1, LesserOf
  <2> QED
    BY <2>1, <2>2
<1>6. mem.total = all /\ mem.available \in 0..all
  <2>1. mem = [total |-> all, available |-> Bound(0, free, all)]
    BY <1>3, <1>4 DEF CollectMemory
  <2>2. Bound(0, free, all) \in 0..all
    <3>1. 0 \in Int /\ all \in Int /\ 0 <= all
      BY <1>5
    <3> QED
      BY <1>5, <3>1, BoundIs
  <2> QED
    BY <2>1, <2>2
<1>7. VolumeFits(mem) /\ mem.total <= BytesMax
  BY <1>5, <1>6 DEF VolumeFits
<1>8. /\ DOMAIN machine' = DOMAIN machine \cup {"mem"} /\ machine'.mem = mem
      /\ \A p \in DOMAIN machine : p # "mem" => machine'[p] = machine[p]
  BY <1>2, <1>3, FoundIs
<1>9. {"targets_error", "cpu"} \subseteq DOMAIN machine
  BY <1>1 DEF ReportInv, PartsBy, AfterCpu
<1>10. machine'.cpu = machine.cpu
  BY <1>8, <1>9
<1> QED
  BY <1>1, <1>7, <1>8, <1>9, <1>10 DEF ReportInv, MachineFits, PartsBy, AfterCpu, AfterMemory, AfterDisk, AfterNetwork

LEMMA DiskIs ==
  ASSUME NEW total \in 0..(BytesMax + 1), NEW available \in -1..(BytesMax + 1)
  PROVE  \A d \in DiskFromStats(total, available) : VolumeFits(d)
<1>1. CASE total < 1 \/ available < 0
  BY <1>1 DEF DiskFromStats
<1>2. CASE ~(total < 1 \/ available < 0)
  <2>1. total \in Nat /\ available \in Nat /\ total >= 1
    BY <1>2, ReportConstants
  <2>2. Min({total, available}) \in 0..total
    BY <2>1, LesserOf
  <2>3. VolumeFits([total |-> total, available |-> Min({total, available})])
    BY <2>1, <2>2 DEF VolumeFits
  <2> QED
    BY <1>2, <2>3 DEF DiskFromStats
<1> QED
  BY <1>1, <1>2

LEMMA DisksCollected ==
  ASSUME ReportInv, CollectDisks
  PROVE  ReportInv'
<1>1. step = "disk" /\ step' = "network" /\ UNCHANGED <<entries, verdict>>
  BY DEF CollectDisks, pings
<1>2. PICK disk : /\ disk = {} \/ \E total \in 0..(BytesMax + 1), available \in -1..(BytesMax + 1) : disk = DiskFromStats(total, available)
                  /\ Found("disk", disk)
                  /\ errors' = IF disk = {} THEN ErrorPush(errors, Of("disk")) ELSE errors
  BY DEF CollectDisks
<1>3. \A d \in disk : VolumeFits(d)
  BY <1>2, DiskIs
<1>4. ErrorsFit(errors')
  BY <1>2, PushFits DEF ReportInv
<1>5. /\ DOMAIN machine' = DOMAIN machine \cup {"disk"} /\ machine'.disk = disk
      /\ \A p \in DOMAIN machine : p # "disk" => machine'[p] = machine[p]
  BY <1>2, FoundIs
<1>6. {"targets_error", "cpu", "mem"} \subseteq DOMAIN machine
  BY <1>1 DEF ReportInv, PartsBy, AfterCpu, AfterMemory
<1>7. machine'.cpu = machine.cpu /\ machine'.mem = machine.mem
  BY <1>5, <1>6
<1> QED
  BY <1>1, <1>3, <1>4, <1>5, <1>6, <1>7 DEF ReportInv, MachineFits, PartsBy, AfterCpu, AfterMemory, AfterDisk, AfterNetwork

LEMMA IdentityCollected ==
  ASSUME ReportInv, CollectIdentity
  PROVE  ReportInv'
<1>1. step = "network" /\ step' = "ping" /\ UNCHANGED <<entries, verdict, errors>>
  BY DEF CollectIdentity, pings
<1>2. PICK counts \in UNION {[1..n -> 0..(ListMax + 1)] : n \in 0..(ListMax + 1)}, length \in 0..(TextMax + 1) :
        machine' = [p \in DOMAIN machine \cup {"network", "text"} |->
                        IF p = "network" THEN CollectNetwork(counts)
                        ELSE IF p = "text" THEN Truncate(IF length = 0 THEN 1 ELSE length)
                        ELSE machine[p]]
  BY DEF CollectIdentity
<1>3. NetworkFits(CollectNetwork(counts))
  <2>1. PICK n \in 0..(ListMax + 1) : counts \in [1..n -> 0..(ListMax + 1)]
    BY <1>2
  <2> QED
    BY <2>1, NetworkIs
<1>4. Truncate(IF length = 0 THEN 1 ELSE length) \in 1..TextMax
  <2>1. PICK x \in Nat : x = (IF length = 0 THEN 1 ELSE length) /\ x >= 1
    BY ReportConstants
  <2>2. TextMax \in Int /\ TextMax >= 1 /\ x \in Int
    BY ReportConstants
  <2>3. Truncate(x) \in 1..TextMax
    BY <2>1, <2>2, LesserOf DEF Truncate
  <2> QED
    BY <2>1, <2>3
<1>5. /\ DOMAIN machine' = DOMAIN machine \cup {"network", "text"}
      /\ machine'.network = CollectNetwork(counts) /\ machine'.text = Truncate(IF length = 0 THEN 1 ELSE length)
      /\ \A p \in DOMAIN machine : p # "network" /\ p # "text" => machine'[p] = machine[p]
  BY <1>2
<1>6. {"targets_error", "cpu", "mem", "disk"} \subseteq DOMAIN machine
  BY <1>1 DEF ReportInv, PartsBy, AfterCpu, AfterMemory, AfterDisk
<1>7. machine'.cpu = machine.cpu /\ machine'.mem = machine.mem /\ machine'.disk = machine.disk
  BY <1>5, <1>6
<1> QED
  BY <1>1, <1>3, <1>4, <1>5, <1>6, <1>7 DEF ReportInv, MachineFits, PartsBy, AfterCpu, AfterMemory, AfterDisk, AfterNetwork

\* What moves between the targets while they are pinged.
LEMMA PingsMove ==
  ASSUME ReportInv, step = "ping", UNCHANGED <<step, machine, verdict>>, ErrorsFit(errors'),
         \A t \in DOMAIN entries' : ReadConnectivity(entries'[t]) /\ EntryHonest(entries'[t])
  PROVE  ReportInv'
BY DEF ReportInv, MachineFits

LEMMA EntryEnds ==
  ASSUME ReportInv, NEW t, NEW e, Ended(t, e), ReadConnectivity(e), EntryHonest(e)
  PROVE  \A u \in DOMAIN entries' : ReadConnectivity(entries'[u]) /\ EntryHonest(entries'[u])
BY DEF Ended, ReportInv

LEMMA ReportStays ==
  ASSUME ReportInv, ReportNext
  PROVE  ReportInv'
<1>1. CASE \E t \in Targets : LaneTakes(t)
  BY <1>1, PingsMove DEF LaneTakes, ReportInv
<1>2. CASE \E t \in Targets : LaneWritesOff(t)
  <2>1. ReadConnectivity(UnprobedConnectivity) /\ EntryHonest(UnprobedConnectivity)
    BY DEF UnprobedConnectivity, ReadConnectivity, EntryHonest, ReadInteger, PingCount
  <2>2. PICK t \in Targets : LaneWritesOff(t)
    BY <1>2
  <2>3. ErrorsFit(errors')
    BY <2>2, PushFits DEF LaneWritesOff, ReportInv
  <2> QED
    BY <2>1, <2>2, <2>3, EntryEnds, PingsMove DEF LaneWritesOff
<1>3. CASE \E t \in Targets : PingEnds(t)
  <2>1. PICK t \in Targets : PingEnds(t)
    BY <1>3
  <2>2. PICK entry \in PingOutcomes :
          Ended(t, entry) /\ errors' = IF entry.status = "error" THEN ErrorPush(errors, <<"ping", t>>) ELSE errors
    BY <2>1 DEF PingEnds
  <2>3. ReadConnectivity(entry) /\ EntryHonest(entry)
    BY PingIsHonest DEF PingOutcomes
  <2>4. ErrorsFit(errors')
    BY <2>2, PushFits DEF ReportInv
  <2> QED
    BY <2>1, <2>2, <2>3, <2>4, EntryEnds, PingsMove DEF PingEnds
<1>4. CASE BudgetEnds
  BY <1>4, PingsMove DEF BudgetEnds, pings, ReportInv
<1>5. CASE AssembleReport
  <2>1. step = "ping" /\ step' = "assembled" /\ UNCHANGED <<entries, verdict, errors>>
    BY <1>5 DEF AssembleReport, pings
  <2>2. PICK span \in -1..(MaxSpan + 1) : Found("span", span)
    BY <1>5 DEF AssembleReport
  <2>3. span \in Int
    BY ReportAssumption
  <2>4. {"targets_error", "cpu", "mem", "disk", "network", "text"} \subseteq DOMAIN machine
    BY <2>1 DEF ReportInv, PartsBy, AfterCpu, AfterMemory, AfterDisk, AfterNetwork
  <2>5. /\ DOMAIN machine' = DOMAIN machine \cup {"span"} /\ machine'.span = span
        /\ \A p \in DOMAIN machine : p # "span" => machine'[p] = machine[p]
    BY <2>2, FoundIs
  <2>6. /\ machine'.cpu = machine.cpu /\ machine'.mem = machine.mem /\ machine'.disk = machine.disk
        /\ machine'.network = machine.network /\ machine'.text = machine.text
    BY <2>4, <2>5
  <2> QED
    BY <2>1, <2>3, <2>4, <2>5, <2>6 DEF ReportInv, MachineFits, PartsBy, AfterCpu, AfterMemory, AfterDisk, AfterNetwork
<1>6. CASE ValidateReport
  <2>1. step = "assembled" /\ step' = "validated" /\ UNCHANGED <<entries, machine, errors>>
        /\ verdict' = IF ValidReport THEN "valid" ELSE "invalid"
    BY <1>6 DEF ValidateReport, pings
  <2>2. /\ CpuFits(machine.cpu) /\ VolumeFits(machine.mem) /\ machine.mem.total <= BytesMax
        /\ (\A d \in machine.disk : VolumeFits(d)) /\ NetworkFits(machine.network) /\ machine.text \in 1..TextMax
        /\ machine.span \in Int
    BY <2>1 DEF ReportInv, MachineFits, AfterCpu, AfterMemory, AfterDisk, AfterNetwork
  <2>3. /\ \A t \in DOMAIN entries : ReadConnectivity(entries[t])
        /\ Cardinality(errors) <= ErrorMax
    BY DEF ReportInv, ErrorsFit
  <2>4. ASSUME machine.span \in 0..MaxSpan, machine.cpu.count <= CpuMax, \A d \in machine.disk : ~(d.total > BytesMax)
        PROVE  ValidReport
    <3>1. ReadSpan(machine.span) /\ ReadString(machine.text)
      BY <2>2, <2>4, ReportConstants DEF ReadSpan, ReadString, ReadInteger
    <3>2. ReadInteger(machine.cpu.count, 1, CpuMax) /\ ReadNullableNumber(machine.cpu.usage, 0, 100)
      BY <2>2, <2>4 DEF CpuFits, ReadInteger, ReadNullableNumber
    <3>3. ReadVolume(machine.mem)
      BY <2>2, ReportConstants DEF VolumeFits, ReadVolume, ReadInteger
    <3>4. \A d \in machine.disk : ReadVolume(d)
      <4> TAKE d \in machine.disk
      <4>1. VolumeFits(d) /\ ~(d.total > BytesMax)
        BY <2>2, <2>4
      <4> QED
        BY <4>1, ReportConstants DEF VolumeFits, ReadVolume, ReadInteger
    <3>5. ReadArray(Cardinality(DOMAIN machine.network), ListMax)
          /\ \A i \in DOMAIN machine.network : ReadInterface(machine.network[i])
      BY <2>2 DEF NetworkFits, ReadArray, ReadInterface
    <3> QED
      BY <2>3, <3>1, <3>2, <3>3, <3>4, <3>5 DEF ValidReport, ReadArray
  <2>5. RefusedOnlyForCause'
    <3>1. CASE ValidReport
      BY <2>1, <3>1 DEF RefusedOnlyForCause
    <3>2. CASE ~ValidReport
      <4>1. \/ machine.span \notin 0..MaxSpan
            \/ ~(machine.cpu.count <= CpuMax)
            \/ \E d \in machine.disk : d.total > BytesMax
        BY <2>4, <3>2
      <4>2. machine.cpu.count \in Int /\ CpuMax \in Int
        BY <2>2, ReportConstants DEF CpuFits
      <4> QED
        BY <2>1, <4>1, <4>2 DEF RefusedOnlyForCause
    <3> QED
      BY <3>1, <3>2
  <2> QED
    BY <2>1, <2>2, <2>5 DEF ReportInv, MachineFits, PartsBy, AfterCpu, AfterMemory, AfterDisk, AfterNetwork
<1> QED
  BY <1>1, <1>2, <1>3, <1>4, <1>5, <1>6, TargetsFetched, CpuSampled, MemorySampled, DisksCollected, IdentityCollected DEF ReportNext

\* Whatever the machine is, what the pings do and what the deadline cuts off: a report is
\* refused only for the clock, the CPUs or the volume, and its entries are true (run.ts, ping.ts).
THEOREM ReportsStayHonest == ReportSpec => []ReportHonest
<1>1. ReportInv /\ UNCHANGED reportVars => ReportInv'
  BY DEF reportVars, pings, ReportInv, MachineFits, RefusedOnlyForCause
<1>2. ReportInv => ReportHonest
  BY DEF ReportInv, ReportHonest, RefusedOnlyForCause, EntriesHonest, EntryHonest
<1> QED
  BY ReportStarts, ReportStays, <1>1, <1>2, PTL DEF ReportSpec

=============================================================================
