----------------------------- MODULE RateWindows ----------------------------
(***************************************************************************)
(* The fixed-window counters of connect_rate_windows and                   *)
(* workstation_rate_windows: one key, one row, counted by every request in *)
(* one upsert and swept by the cron job.  Time is in minutes.              *)
(*                                                                         *)
(* A request reads the clock when it arrives and counts itself after other *)
(* awaits, so requests that run at once may count out of order.  Requests  *)
(* that change something pass through the coordinator one at a time: one   *)
(* lane.  GETs do not: several lanes.                                      *)
(***************************************************************************)
EXTENDS Integers

CONSTANTS
    Lanes,        \* requests with this key that may be under way at once
    Maximum,      \* requests allowed per window
    Period,       \* length of a window: 60 or 600 seconds
    Keep,         \* minutes of windows the sweep spares: 2 (Connect) or 10
    CronEvery,    \* minutes between two cron runs
    Latency,      \* minutes between a request's arrival and its count, at most
    Start,        \* time of the first request
    MaxTime,      \* bound on the clock (model checking only)
    MaxRequests,  \* bound on the requests (model checking only)
    None

Window(t) == t \div Period
Windows == {Window(t) : t \in Start..MaxTime}
RateRow == [window : Windows, count : Nat \ {0}]

ASSUME RateAssumption ==
    /\ Maximum \in Nat \ {0} /\ Period \in Nat \ {0} /\ CronEvery \in Nat \ {0}
    /\ Keep \in Nat /\ Latency \in Nat
    /\ Start \in Nat /\ MaxTime \in Nat /\ Start <= MaxTime /\ MaxRequests \in Nat
    /\ None \notin RateRow /\ None \notin Nat

VARIABLES
    now,
    row,       \* the row of the key, or None
    arrived,   \* lane -> the time its request read, or None
    served,    \* requests that arrived (bounds the model)
    accepted,  \* history: window -> requests let through
    refused,   \* history: windows in which a request was refused
    counted,   \* history: windows some request was counted in
    disorder   \* history: windows of counts that came after one of a newer window, or
               \*   that found the row of their window swept

rateVars == <<now, row, arrived, served, accepted, refused, counted, disorder>>

RateInit ==
    /\ now = Start
    /\ row = None
    /\ arrived = [p \in Lanes |-> None]
    /\ served = 0
    /\ accepted = [w \in Windows |-> 0]
    /\ refused = {}
    /\ counted = {}
    /\ disorder = {}

Arrive(p) ==
    /\ arrived[p] = None
    /\ served < MaxRequests
    /\ served' = served + 1
    /\ arrived' = [arrived EXCEPT ![p] = now]
    /\ UNCHANGED <<now, row, accepted, refused, counted, disorder>>

\* Mutant: the count lives on in the next window.
NextCountCarried(w) == IF row = None THEN 1 ELSE row.count + 1

\* count = CASE WHEN window = excluded.window THEN count + 1 ELSE 1 END
NextCount(w) == IF row # None /\ row.window = w THEN row.count + 1 ELSE 1

Allowed(count) == count <= Maximum

OutOfOrder(w) == (\E v \in counted : v > w) \/ (row = None /\ w \in counted)

\* rate(): the upsert, and the verdict on the count it returns.
Count(p) ==
    /\ arrived[p] # None
    /\ LET w == Window(arrived[p])
           c == NextCount(w)
       IN /\ row' = [window |-> w, count |-> c]
          /\ accepted' = IF Allowed(c) THEN [accepted EXCEPT ![w] = @ + 1] ELSE accepted
          /\ refused' = IF Allowed(c) THEN refused ELSE refused \cup {w}
          /\ counted' = counted \cup {w}
          /\ disorder' = IF OutOfOrder(w) THEN disorder \cup {w} ELSE disorder
    /\ arrived' = [arrived EXCEPT ![p] = None]
    /\ UNCHANGED <<now, served>>

\* The request is refused for another reason, or its invocation is cancelled.
Abandon(p) ==
    /\ arrived[p] # None
    /\ arrived' = [arrived EXCEPT ![p] = None]
    /\ UNCHANGED <<now, row, served, accepted, refused, counted, disorder>>

\* Whatever the length of the key's window, it is compared with a number of minutes.
Stale(w) == w < now - Keep

Sweep ==
    /\ now % CronEvery = 0
    /\ row # None
    /\ Stale(row.window)
    /\ row' = None
    /\ UNCHANGED <<now, arrived, served, accepted, refused, counted, disorder>>

Tick ==
    /\ now < MaxTime
    /\ \A p \in Lanes : arrived[p] # None => now < arrived[p] + Latency
    /\ now' = now + 1
    /\ UNCHANGED <<row, arrived, served, accepted, refused, counted, disorder>>

RateNext ==
    \/ \E p \in Lanes : Arrive(p) \/ Count(p) \/ Abandon(p)
    \/ Sweep
    \/ Tick

RateSpec == RateInit /\ [][RateNext]_rateVars

-----------------------------------------------------------------------------
(* Properties.                                                             *)

\* Every variable has its type; the row never stores a count of zero.
RateTypeOK ==
    /\ now \in Start..MaxTime
    /\ row \in RateRow \cup {None}
    /\ arrived \in [Lanes -> (Start..MaxTime) \cup {None}]
    /\ served \in Nat
    /\ accepted \in [Windows -> Nat]
    /\ refused \subseteq Windows
    /\ counted \subseteq Windows
    /\ disorder \subseteq Windows

\* The limiter is authoritative: no window lets through more than the maximum.
RateLimited == \A w \in Windows : accepted[w] <= Maximum

\* Only two events can let more than the maximum through: a count that comes after one
\* of a newer window, and a count whose window was swept while it was in use.
LimitHeldInOrder == disorder = {} => RateLimited

\* A request is refused only in a window that has let the maximum through, whatever
\* counts out of order and whenever the sweep runs.
RefusedOnlyAtLimit == \A w \in refused : accepted[w] >= Maximum

\* A limiter neither lets too many through, disorder and sweeps aside, nor refuses too early.
RateExact == RateTypeOK /\ LimitHeldInOrder /\ RefusedOnlyAtLimit
=============================================================================
