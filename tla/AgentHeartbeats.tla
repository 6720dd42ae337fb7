-------------------------- MODULE AgentHeartbeats --------------------------
(***************************************************************************)
(* Agents, the heartbeats that report them, and the KV snapshots that keep *)
(* an unchanged heartbeat away from D1.                                    *)
(*                                                                         *)
(* Every request here is a coordinated write: they run one at a time.  But *)
(* a snapshot describes only the heartbeats of the CLI: edits, re-creation *)
(* and heartbeats that come through Connect change the row and leave the   *)
(* snapshot alone, KV may answer with an older value or not at all, and a  *)
(* request may end between its D1 batch and its KV writes.                 *)
(***************************************************************************)
EXTENDS Integers, FiniteSets

CONSTANTS
    Sources,      \* installations: source_key
    Matches,      \* match_key
    Runtimes,     \* values of runtime_app and runtime_version
    Throttle,     \* HEARTBEAT_THROTTLE_SECONDS
    SnapshotTTL,  \* HEARTBEAT_SNAPSHOT_TTL_SECONDS
    LastBeatTime, \* bound on the clock (model checking only)
    BeatLimit,    \* bound on the requests (model checking only)
    NoValue       \* null, and the absence of a row or a snapshot

ASSUME BeatAssumption ==
    /\ Throttle \in Nat \ {0} /\ SnapshotTTL \in Nat /\ SnapshotTTL > Throttle
    /\ LastBeatTime \in Nat /\ BeatLimit \in Nat
    /\ NoValue \notin Runtimes

Keys == Sources \X Matches
Values == Runtimes \cup {NoValue}
Reported == {"running", "stopped"}
AgentStatus == Reported \cup {"missing", "unknown"}
Homes == {"server", "elsewhere"}   \* host_id: the server of the Connect token, or not (or null)
BeatTimes == 0..LastBeatTime

\* A field an entry or a PATCH does not mention.
Unnamed == "unnamed"
Entry == [status : Reported, runtime : Values \cup {Unnamed}]

AgentRow == [status : AgentStatus, runtime : Values, seen : BeatTimes \cup {NoValue}, home : Homes]
Snapshot == [runtime : Values, at : BeatTimes]

ASSUME NoValueAssumption == NoValue \notin AgentRow \cup BeatTimes

VARIABLES
    agents,     \* agents: key -> [status, runtime, seen, home] or NoValue
    snapshots,  \* KV: key -> [runtime, at] or NoValue
    olderKv,    \* what a KV replica may still answer
    beat,       \* a heartbeat whose batch has landed and whose KV writes have not, or NoValue
    beatClock,
    handled,    \* history: requests
    flushes,    \* history: times at which a heartbeat really wrote the row
    since,      \* history: when the row was created, or its runtime set by somebody else
    lastBeat    \* history: the last heartbeat answered: [at, source, entries], or NoValue

beatVars == <<agents, snapshots, olderKv, beat, beatClock, handled, flushes, since, lastBeat>>

BeatInit ==
    /\ agents = [k \in Keys |-> NoValue]
    /\ snapshots = [k \in Keys |-> NoValue] /\ olderKv = snapshots
    /\ beat = NoValue /\ lastBeat = NoValue
    /\ beatClock = 0 /\ handled = 0
    /\ flushes = [k \in Keys |-> {}]
    /\ since = [k \in Keys |-> 0]

-----------------------------------------------------------------------------
(* Heartbeats of the CLI.                                                  *)

Exists(k) == agents[k] # NoValue
OfSource(s) == {k \in Keys : k[1] = s /\ Exists(k)}

\* A request is served when the one before has ended.
Serve == beat = NoValue /\ handled < BeatLimit /\ handled' = handled + 1

\* loadSnapshot: the value, an older one, an expired one is gone, and a failing KV has none.
LoadSnapshot(k) ==
    {NoValue} \cup {snap \in {snapshots[k], olderKv[k]} :
                        snap # NoValue /\ beatClock < snap.at + SnapshotTTL}

ShouldFlush(k, entry, snap) ==
    \/ entry.status # agents[k].status
    \/ snap = NoValue
    \/ beatClock - snap.at >= Throttle
    \/ entry.runtime # Unnamed /\ entry.runtime # snap.runtime

\* The row an UPDATE, or an INSERT on that host, of this entry leaves.
Flushed(k, entry, host) ==
    [status |-> entry.status, seen |-> beatClock,
     home |-> IF Exists(k) THEN agents[k].home ELSE host,
     runtime |-> IF entry.runtime # Unnamed THEN entry.runtime
                 ELSE IF Exists(k) THEN agents[k].runtime ELSE NoValue]

\* Mutant: every agent that is not reported goes missing.
UnreportedAnywhere(s, entries) == {k \in Keys : Exists(k) /\ k \notin DOMAIN entries}

\* Agents of the same installation that the heartbeat does not name.
Unreported(s, entries) == OfSource(s) \ DOMAIN entries

\* processHeartbeat up to its batch, which lands as a whole or fails.
ProcessHeartbeat(s, entries, snap) ==
    LET flush == {k \in DOMAIN entries : ~Exists(k) \/ ShouldFlush(k, entries[k], snap[k])}
    IN  /\ Serve
        /\ agents' = [k \in Keys |->
              IF k \in flush THEN Flushed(k, entries[k], "elsewhere")
              ELSE IF k \in Unreported(s, entries) THEN [agents[k] EXCEPT !.status = "missing"]
              ELSE agents[k]]
        /\ flushes' = [k \in Keys |-> IF k \in flush THEN flushes[k] \cup {beatClock} ELSE flushes[k]]
        /\ beat' = [k \in flush |-> [at |-> beatClock, runtime |->
                        IF entries[k].runtime = Unnamed THEN NoValue ELSE entries[k].runtime]]
        /\ lastBeat' = [at |-> beatClock, source |-> s, entries |-> entries]
        /\ since' = [k \in Keys |-> IF k \in flush /\ ~Exists(k) THEN beatClock ELSE since[k]]
        /\ UNCHANGED <<snapshots, olderKv, beatClock>>

\* Mutant: the snapshots are written although the batch has failed.
BatchFailsAfterSnapshots ==
    /\ Serve
    /\ \E k \in Keys : snapshots' = [snapshots EXCEPT ![k] = [at |-> beatClock, runtime |-> NoValue]]
    /\ UNCHANGED <<agents, olderKv, beat, beatClock, flushes, since, lastBeat>>

\* The batch fails: an error, and no snapshot is written.
BatchFails == Serve /\ UNCHANGED <<agents, snapshots, olderKv, beat, beatClock, flushes, since, lastBeat>>

\* writeSnapshot for each flushed key; any of the puts may fail.
WriteSnapshots(written) ==
    /\ beat # NoValue /\ written \subseteq DOMAIN beat
    /\ snapshots' = [k \in Keys |-> IF k \in written THEN beat[k] ELSE snapshots[k]]
    /\ olderKv' = snapshots
    /\ beat' = NoValue
    /\ UNCHANGED <<agents, beatClock, handled, flushes, since, lastBeat>>

-----------------------------------------------------------------------------
(* The other writers.                                                      *)

\* heartbeat() of the Connect view: only for an installation that is wholly on the server; no
\* throttle, and no snapshot either.
ConnectHeartbeat(s, entries) ==
    /\ Serve
    /\ \A k \in OfSource(s) : agents[k].home = "server"
    /\ agents' = [k \in Keys |->
          IF k \in DOMAIN entries THEN Flushed(k, entries[k], "server")
          ELSE IF k \in Unreported(s, entries) THEN [agents[k] EXCEPT !.status = "missing"]
          ELSE agents[k]]
    /\ since' = [k \in Keys |-> IF k \in DOMAIN entries THEN beatClock ELSE since[k]]
    /\ lastBeat' = NoValue
    /\ UNCHANGED <<snapshots, olderKv, beat, beatClock, flushes>>

Named(value, old) == IF value = Unnamed THEN old ELSE value

\* upsertBy: a new row, or the named fields of the one there is.
AgentUpsert(k, status, runtime, host) ==
    LET old == IF Exists(k) THEN agents[k]
               ELSE [status |-> "unknown", seen |-> NoValue, runtime |-> NoValue, home |-> "elsewhere"]
    IN  /\ Serve
        /\ agents' = [agents EXCEPT ![k] =
              [status |-> Named(status, old.status), seen |-> old.seen,
               runtime |-> Named(runtime, old.runtime), home |-> Named(host, old.home)]]
        /\ since' = [since EXCEPT ![k] = beatClock]
        /\ lastBeat' = NoValue
        /\ UNCHANGED <<snapshots, olderKv, beat, beatClock, flushes>>

AgentUpdate(k, status, runtime, host) == Exists(k) /\ AgentUpsert(k, status, runtime, host)

AgentDelete(k) ==
    /\ Serve /\ Exists(k)
    /\ agents' = [agents EXCEPT ![k] = NoValue]
    /\ lastBeat' = NoValue
    /\ UNCHANGED <<snapshots, olderKv, beat, beatClock, flushes, since>>

BeatTick ==
    /\ beatClock < LastBeatTime /\ beatClock' = beatClock + 1
    /\ lastBeat' = NoValue
    /\ UNCHANGED <<agents, snapshots, olderKv, beat, handled, flushes, since>>

Entries(s) == UNION {[({s} \X ms) -> Entry] : ms \in SUBSET Matches}
NamedStatus == AgentStatus \cup {Unnamed}
NamedRuntime == Values \cup {Unnamed}
NamedHome == Homes \cup {Unnamed}

BeatNext ==
    \/ \E s \in Sources : \E entries \in Entries(s) :
         \/ \E snap \in [DOMAIN entries -> UNION {LoadSnapshot(k) : k \in DOMAIN entries}] :
              /\ \A k \in DOMAIN entries : snap[k] \in LoadSnapshot(k)
              /\ ProcessHeartbeat(s, entries, snap)
         \/ ConnectHeartbeat(s, entries)
    \/ BatchFails
    \/ beat # NoValue /\ \E written \in SUBSET DOMAIN beat : WriteSnapshots(written)
    \/ \E k \in Keys : \/ AgentDelete(k)
                       \/ \E st \in NamedStatus, r \in NamedRuntime, h \in NamedHome :
                            (Exists(k) /\ AgentUpdate(k, st, r, h)) \/ (~Exists(k) /\ AgentUpsert(k, st, r, h))
    \/ BeatTick

BeatSpec == BeatInit /\ [][BeatNext]_beatVars

-----------------------------------------------------------------------------
(* Properties.                                                             *)

\* Every variable has its type.
BeatTypeOK ==
    /\ agents \in [Keys -> AgentRow \cup {NoValue}]
    /\ snapshots \in [Keys -> Snapshot \cup {NoValue}]
    /\ olderKv \in [Keys -> Snapshot \cup {NoValue}]
    /\ beatClock \in BeatTimes /\ handled \in 0..BeatLimit
    /\ since \in [Keys -> BeatTimes]

\* A snapshot never claims a flush that did not reach D1, through failing batches, lost puts
\* and restarts ("a snapshot must never claim a flush time that did not actually land in D1").
SnapshotHonest ==
    \A k \in Keys : snapshots[k] # NoValue => snapshots[k].at \in flushes[k]

\* What an answered heartbeat leaves in D1: every reported agent with the reported status,
\* and a last_seen_at that is younger than the throttle or than the row itself, whatever
\* snapshot the decision was made with.
HeartbeatLands ==
    lastBeat # NoValue =>
        \A k \in DOMAIN lastBeat.entries :
            /\ Exists(k) /\ agents[k].status = lastBeat.entries[k].status
            /\ \/ agents[k].seen # NoValue /\ lastBeat.at - agents[k].seen < Throttle
               \/ lastBeat.at - since[k] < Throttle

\* A runtime that a heartbeat named and D1 does not hold is withheld for less than the
\* throttle after a heartbeat's write; then the row catches up (shouldFlush).
DriftBounded ==
    lastBeat # NoValue =>
        \A k \in DOMAIN lastBeat.entries :
            lastBeat.entries[k].runtime \in {Unnamed, agents[k].runtime}
                \/ \E written \in flushes[k] : lastBeat.at - written < Throttle

\* Withholding heartbeats from D1 costs at most the throttle, whatever snapshot another
\* writer, a failed batch or a lost put has left behind (lib/heartbeat-cache.ts).
HeartbeatsHonest == BeatTypeOK /\ SnapshotHonest /\ HeartbeatLands /\ DriftBounded

\* A heartbeat speaks for its own installation: the agents of other sources keep their rows
\* (the mark-missing diff of processHeartbeat).
OtherSourcesUntouched ==
    [][(lastBeat' # lastBeat /\ lastBeat' # NoValue) =>
          \A k \in Keys : k[1] # lastBeat'.source => agents'[k] = agents[k]]_beatVars

=============================================================================
