----------------------------- MODULE ProbeLoop ------------------------------
(* The agent on a monitored host (probe/src): the loop of main.rs with its  *)
(* counters and their baselines, the sender and its retries, the tier 2     *)
(* collections beside the loop, and the worker as far as ingest shows it:   *)
(* a sample is kept under its timestamp, and the first one wins.            *)
EXTENDS Integers, Sequences, FiniteSets, SequencesExt, FiniteSetsExt

CONSTANTS
    Interval,        \* seconds between two ticks
    IdentityEvery,   \* seconds between two identities
    Tier2Every,      \* seconds between two tier 2 collections
    HeavyEvery,      \* seconds between two scans of the disks
    AttemptTimes,    \* how long a request may last, at most the client's timeout
    SkewLimit,       \* the worker refuses a sample that is older (MAX_CLOCK_SKEW_SECONDS)
    Word,            \* counters of the kernel are kept modulo this
    Traffic,         \* what an interface may count between two ticks
    SampleLimit      \* bound on samples

ASSUME ProbeLoopAssumption ==
    /\ {Interval, IdentityEvery, Tier2Every, HeavyEvery, SkewLimit, Word} \subseteq Nat \ {0}
    /\ AttemptTimes \subseteq Nat /\ Traffic \subseteq Nat /\ SampleLimit \in Nat

VARIABLES
    wall,         \* seconds since the counters were read first
    shows,        \* the counter of an interface
    baseline,     \* prev_net_counters, or NoReading
    sampledAt,    \* last_sample_at
    tickAt,       \* deadline of the ticker
    stage,        \* identity, seed, wait, ingest, reidentify, round, off
    samples,      \* how many were taken
    payload,      \* the sample that is sent
    attempt,      \* attempt of the post in progress
    failed,       \* attempts without success since the first reading
    newestRow,    \* the newest timestamp in metrics_raw
    rows,         \* timestamps under which the last sample is in metrics_raw
    told,         \* the worker answered the last sample with success
    identityAt,   \* identity_timer
    tier2At,      \* tier2_timer
    tier2Running, \* the flag
    tier2Tasks,   \* spawned tasks that have not ended
    lastDeep,     \* last_disk_deep
    scanAt        \* when the last scan of the disks began

clockVars == <<shows, baseline, sampledAt, tickAt, samples>>
postVars == <<payload, attempt, failed, newestRow, rows, told, identityAt>>
tier2Vars == <<tier2Running, tier2Tasks, lastDeep, scanAt>>
loopVars == <<wall, stage, tier2At, clockVars, postVars, tier2Vars>>

\* What read_all_counters may come to; when it was read is not in the reading.
NoReading == [read |-> FALSE]
Readings(c, at) == {NoReading, [read |-> TRUE, shows |-> c, at |-> at]}

LoopInit ==
    /\ wall = 0 /\ shows = Word - 1 /\ baseline = NoReading /\ sampledAt = 0 /\ tickAt = 0 /\ samples = 0
    /\ stage = "identity" /\ payload = <<>> /\ attempt = 0 /\ failed = 0
    /\ newestRow = -1 /\ rows = {} /\ told = FALSE
    /\ identityAt = 0 /\ tier2At = 0
    /\ tier2Running = FALSE /\ tier2Tasks = <<>> /\ lastDeep = 0 /\ scanAt = -HeavyEvery

-----------------------------------------------------------------------------
(* The sender.                                                             *)

MaxRetries == 5
MaxBackoff == 60
Backoff(n) == Min({2^n, MaxBackoff})

TooOld(at) == at - payload.ts > SkewLimit

\* What a request may come to: answered, answered too late to be heard, not answered (or with
\* a status that is worth another attempt), refused for good.  Of an identity the loop keeps
\* nothing, so that only the need for another attempt tells its outcomes apart.
Outcomes(at) ==
    CASE stage # "ingest" -> {"ok", "unreached"}
      [] TooOld(at) -> {"unreached", "refused"}
      [] OTHER -> {"ok", "unheard", "unreached", "refused"}

\* The worker's INSERT OR IGNORE.
Insert(ts) ==
    IF ts = newestRow THEN UNCHANGED <<newestRow, rows>> ELSE newestRow' = ts /\ rows' = rows \cup {ts}

\* What follows a post, whatever came of it.
PostDone(at) ==
    /\ attempt' = 0 /\ payload' = <<>>
    /\ stage' = CASE stage = "identity" -> "seed"
                  [] stage = "ingest" -> IF at - identityAt >= IdentityEvery THEN "reidentify" ELSE "round"
                  [] stage = "reidentify" -> "round"
    /\ identityAt' = IF stage = "reidentify" THEN at ELSE identityAt

\* Bound: one post after the first reading meets failures.
OneBadPost == failed = attempt

\* One request of Sender::post, and the pause before the next.
Post ==
    /\ stage \in {"identity", "ingest", "reidentify"}
    /\ \E d \in AttemptTimes : \E outcome \in Outcomes(wall + d) :
         /\ IF stage = "ingest" /\ outcome \in {"ok", "unheard"} THEN Insert(payload.ts) ELSE UNCHANGED <<newestRow, rows>>
         /\ told' = (told \/ (stage = "ingest" /\ outcome = "ok"))
         /\ IF outcome \in {"unheard", "unreached"}
            THEN OneBadPost /\ failed' = failed + 1
            ELSE UNCHANGED failed
         /\ IF outcome \in {"unheard", "unreached"} /\ attempt < MaxRetries
            THEN /\ attempt' = attempt + 1 /\ wall' = wall + d + Backoff(attempt)
                 /\ UNCHANGED <<stage, payload, identityAt>>
            ELSE wall' = wall + d /\ PostDone(wall + d)
    /\ UNCHANGED <<clockVars, tier2At, tier2Vars>>

-----------------------------------------------------------------------------
(* Tier 2 collections, which take as long as they take: their steps lie     *)
(* between two posts of the loop.                                          *)

Tier2Moves == stage # "off" /\ attempt = 0

\* spawn_tier2_task: the flag is up before the task runs.
SpawnTier2 == tier2Running' = TRUE /\ tier2Tasks' = Append(tier2Tasks, [step |-> "spawned", deep |-> FALSE])

\* A task looks at the last scan and collects.
Tier2Collect ==
    /\ Tier2Moves
    /\ \E i \in DOMAIN tier2Tasks :
         /\ tier2Tasks[i].step = "spawned"
         /\ LET deep == wall - lastDeep >= HeavyEvery
            IN /\ tier2Tasks' = [tier2Tasks EXCEPT ![i] = [step |-> "collecting", deep |-> deep]]
               /\ scanAt' = IF deep THEN wall ELSE scanAt
    /\ UNCHANGED <<wall, stage, tier2At, clockVars, postVars, tier2Running, lastDeep>>

\* Its post ended, whatever came of it: the scan counts as done, the flag is down.
Tier2End ==
    /\ Tier2Moves
    /\ \E i \in DOMAIN tier2Tasks :
         /\ tier2Tasks[i].step = "collecting"
         /\ lastDeep' = IF tier2Tasks[i].deep THEN wall ELSE lastDeep
         /\ tier2Tasks' = RemoveAt(tier2Tasks, i)
    /\ tier2Running' = FALSE
    /\ UNCHANGED <<wall, stage, tier2At, clockVars, postVars, scanAt>>

-----------------------------------------------------------------------------
(* The loop.                                                               *)

\* The counters are read for the first time, the timers start and so does a tier 2 collection.
Seed ==
    /\ stage = "seed" /\ stage' = "wait" /\ wall' = 0
    /\ baseline' \in Readings(shows, 0)
    /\ sampledAt' = 0 /\ tickAt' = Interval /\ identityAt' = 0 /\ tier2At' = 0 /\ lastDeep' = -HeavyEvery
    /\ failed' = 0 /\ SpawnTier2
    /\ UNCHANGED <<shows, samples, payload, attempt, newestRow, rows, told, scanAt>>

\* MissedTickBehavior::Delay.
NextTick(at) == at + Interval

\* compute_delta with its wrap, and the figures that saturate.
Delta(prev, curr) == (curr - prev) % Word
SaturatingDelta(prev, curr) == Max({curr - prev, 0})

\* Mutant: a failed reading leaves the last one.
NextBaselineKept(reading) == IF reading.read THEN reading ELSE baseline
NextBaseline(reading) == reading

\* collect_metrics: figures only from two readings.  The last three fields are not in the
\* payload: when the first of them was made, and what the interface really did since.
MetricsOf(reading, at, real, remade) ==
    IF baseline.read /\ reading.read
    THEN [ts |-> at, rated |-> TRUE, elapsed |-> at - sampledAt,
          delta |-> Delta(baseline.shows, reading.shows), saturating |-> SaturatingDelta(baseline.shows, reading.shows),
          since |-> baseline.at, real |-> real, remade |-> remade]
    ELSE [ts |-> at, rated |-> FALSE]

\* The ticker wakes the loop: at the deadline, or at once when that has passed.  Since the
\* last sample the interface counted, or was made anew and counted from zero.
Tick ==
    /\ stage = "wait" /\ samples < SampleLimit /\ stage' = "ingest" /\ samples' = samples + 1
    /\ wall' = Max({wall, tickAt}) /\ tickAt' = NextTick(wall')
    /\ \E real \in Traffic, remade \in BOOLEAN :
         /\ shows' = IF remade THEN real % Word ELSE (shows + real) % Word
         /\ \E reading \in Readings(shows', wall') :
              payload' = MetricsOf(reading, wall', real, remade) /\ baseline' = NextBaseline(reading)
    /\ sampledAt' = wall' /\ rows' = {} /\ told' = FALSE
    /\ UNCHANGED <<attempt, failed, newestRow, identityAt, tier2At, tier2Vars>>

\* Mutant: a collection that is under way is not looked at.
Tier2FreeAlways == TRUE
Tier2Free == ~tier2Running

\* The end of a round: a tier 2 collection that is due, unless one is under way.
Round ==
    /\ stage = "round" /\ stage' = "wait"
    /\ LET due == wall - tier2At >= Tier2Every
       IN /\ tier2At' = IF due THEN wall ELSE tier2At
          /\ IF due /\ Tier2Free THEN SpawnTier2 ELSE UNCHANGED <<tier2Running, tier2Tasks>>
    /\ UNCHANGED <<wall, clockVars, postVars, lastDeep, scanAt>>

\* SIGINT or SIGTERM while the loop waits or sends: what the process held is gone, its tasks
\* included; the table of the worker stays.
Shutdown ==
    /\ stage \in {"identity", "ingest", "reidentify", "wait"} /\ stage' = "off"
    /\ wall' = 0 /\ baseline' = NoReading /\ sampledAt' = 0 /\ tickAt' = 0
    /\ payload' = <<>> /\ attempt' = 0 /\ identityAt' = 0 /\ tier2At' = 0
    /\ tier2Running' = FALSE /\ tier2Tasks' = <<>> /\ lastDeep' = 0
    /\ UNCHANGED <<shows, samples, failed, newestRow, rows, told, scanAt>>

LoopNext == Post \/ Tier2Collect \/ Tier2End \/ Seed \/ Tick \/ Round \/ Shutdown

LoopSpec == LoopInit /\ [][LoopNext]_loopVars

-----------------------------------------------------------------------------
(* Properties.                                                             *)

\* Rates are of the time they are divided by (compute_net_delta, compute_rate): the two
\* readings are as far apart as the sample says, however long the posts between them took
\* and whichever reading failed.  A counter that passed its word counts right, unless the
\* interface was made anew or went around; figures that saturate never say more than there
\* was.
RateTrue ==
    stage = "ingest" /\ payload.rated =>
      /\ payload.since = payload.ts - payload.elapsed
      /\ ~payload.remade /\ payload.real < Word => payload.delta = payload.real
      /\ payload.saturating <= payload.real

\* A sample that the worker acknowledged is in the table, under one timestamp, however often
\* it was sent: ticks that were late never come twice in one second, where INSERT OR IGNORE
\* would drop the second sample.
StoredOnce == Cardinality(rows) <= 1 /\ (told => rows # {})

\* Retries end before the worker refuses the sample for its age: the longest post is shorter
\* than the skew that ingest allows.
RetriedInTime == stage = "ingest" => \A d \in AttemptTimes : ~TooOld(wall + d)

\* What the probe reports through late ticks, failed posts, retries and counters that wrap is
\* true, stored once and in time.
SamplesTrue == RateTrue /\ StoredOnce /\ RetriedInTime

\* Collections of tier 2 never overlap, whatever they last ("caused the iowait storm",
\* main.rs:132-134), and scans of the disks begin at least a heavy interval apart.
ScansSpaced ==
    [][Len(tier2Tasks') <= 1 /\ (scanAt' # scanAt => scanAt' - scanAt >= HeavyEvery)]_loopVars
=============================================================================
