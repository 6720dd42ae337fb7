---------------------------- MODULE MCHostPlane -----------------------------
(* The parts of the worker that serve a host: its row and its cached       *)
(* projection (HostRegistry), its samples and their rollup                 *)
(* (MetricsRollup) and the heartbeats of its agents (AgentHeartbeats).     *)
(* They share no table and no key of KV that the models keep, so           *)
(* interleaving them adds no behaviour: a behaviour of this instance is    *)
(* one of the part that plane names.                                       *)
EXTENDS HostRegistry, MetricsRollup, AgentHeartbeats, TLC

VARIABLE plane

planeVars == <<plane, registryVars, rollupVars, beatVars>>

\* A part that does not move keeps one of its initial states.
PlaneInit ==
    /\ plane \in {"registry", "rollup", "heartbeats"}
    /\ RegistryInit /\ (plane # "registry" => stored = NoRow)
    /\ RollupInit /\ (plane # "rollup" => retention = DefaultRetention)
    /\ BeatInit

PlaneNext ==
    \/ /\ plane = "registry" /\ RegistryNext
       /\ UNCHANGED <<plane, rollupVars, beatVars>>
    \/ /\ plane = "rollup" /\ RollupNext
       /\ UNCHANGED <<plane, registryVars, beatVars>>
    \/ /\ plane = "heartbeats" /\ BeatNext
       /\ UNCHANGED <<plane, registryVars, rollupVars>>

PlaneSpec == PlaneInit /\ [][PlaneNext]_planeVars

\* Lanes of reports, hosts and installations are interchangeable;
\* the configuration gives the parts the same model values, since only one of them moves.
PlaneSymmetry == Permutations(Reporters \cup Hosts \cup Sources)
=============================================================================
