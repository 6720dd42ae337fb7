---------------------------- MODULE MCToolPlane -----------------------------
(* What runs outside the worker: the heartbeat service of the CLI          *)
(* (CliService), its doctor and update (CliUpkeep), the agent on a host    *)
(* (ProbeLoop), the release script (ReleaseTrain), the local environments  *)
(* (LocalEnvironments), and the demo's recording: how it is made           *)
(* (RecordingSanitizer) and loaded (RecordedDemo).  A behaviour of this    *)
(* instance is one of the part that plane names: the parts share no state. *)
EXTENDS ProbeLoop, CliService, CliUpkeep, ReleaseTrain, LocalEnvironments,
        RecordingSanitizer, RecordedDemo

VARIABLE plane

planeVars == <<plane, loopVars, serviceVars, upkeepVars, releaseVars, envVars, sanitizerVars, recordedVars>>

\* A recording that nobody loads.
ParkedRecording ==
    [targets |-> ServerAliases, latestAge |-> 1, latest |-> ServerAliases, points |-> <<1>>,
     history |-> [a \in ServerAliases |-> Ages], packets |-> <<NoValue, NoValue, NoValue>>]

\* A part that does not move keeps one of its initial states.
PlaneInit ==
    /\ plane \in {"probe", "service", "upkeep", "release", "environments", "sanitizer", "demo"}
    /\ LoopInit /\ ServiceInit /\ UpkeepInit /\ ReleaseInit /\ EnvInit
    /\ IF plane = "sanitizer" THEN SanitizerInit
       ELSE /\ kind = "plain" /\ malformed = TRUE /\ capture = <<>> /\ table = <<>> /\ given = 0
            /\ shown = {} /\ targets = {} /\ written = "raw"
    /\ IF plane = "demo" THEN RecordedInit
       ELSE recording = ParkedRecording /\ loading = "read" /\ todo = {} /\ statements = {} /\ clash = FALSE /\ store = {}

PlaneNext ==
    \/ /\ plane = "probe" /\ LoopNext
       /\ UNCHANGED <<plane, serviceVars, upkeepVars, releaseVars, envVars, sanitizerVars, recordedVars>>
    \/ /\ plane = "service" /\ ServiceNext
       /\ UNCHANGED <<plane, loopVars, upkeepVars, releaseVars, envVars, sanitizerVars, recordedVars>>
    \/ /\ plane = "upkeep" /\ UpkeepNext
       /\ UNCHANGED <<plane, loopVars, serviceVars, releaseVars, envVars, sanitizerVars, recordedVars>>
    \/ /\ plane = "release" /\ ReleaseNext
       /\ UNCHANGED <<plane, loopVars, serviceVars, upkeepVars, envVars, sanitizerVars, recordedVars>>
    \/ /\ plane = "environments" /\ EnvNext
       /\ UNCHANGED <<plane, loopVars, serviceVars, upkeepVars, releaseVars, sanitizerVars, recordedVars>>
    \/ /\ plane = "sanitizer" /\ SanitizerNext
       /\ UNCHANGED <<plane, loopVars, serviceVars, upkeepVars, releaseVars, envVars, recordedVars>>
    \/ /\ plane = "demo" /\ RecordedNext
       /\ UNCHANGED <<plane, loopVars, serviceVars, upkeepVars, releaseVars, envVars, sanitizerVars>>

PlaneSpec == PlaneInit /\ [][PlaneNext]_planeVars

\* Updates and requests to switch are interchangeable and have the same model values, since
\* one part moves.
PlaneSymmetry == Permutations(Updaters \cup Switches)
=============================================================================
