---------------------------- MODULE MCAccessPlane ---------------------------
(* The way into the worker and the workstations that use it: the chain of  *)
(* middleware (EntryGate), the cached CLI tokens (CliTokenCache) and rate  *)
(* windows (RateWindows) behind it; the schedule of a workstation's probe  *)
(* (WorkstationSchedule), the report that a run makes (ProbeReport) and    *)
(* its way to the server (ProbeCycle).  A behaviour of this instance is    *)
(* one of the part that plane names: the parts share no state.             *)
EXTENDS EntryGate, CliTokenCache, RateWindows, WorkstationSchedule,
        ProbeReport, ProbeCycle, TLC

VARIABLE plane

planeVars == <<plane, gateVars, tokenCacheVars, rateVars, scheduleVars, reportVars, cycleVars>>

\* The request that the chain holds while another part moves.
ParkedCall == [path |-> "live", method |-> "GET", environment |-> "production", host |-> "browser",
               jwt |-> "none", bearer |-> "none", confirmed |-> FALSE, configured |-> TRUE]

\* A part that does not move keeps one of its initial states.
PlaneInit ==
    /\ plane \in {"gate", "tokens", "rates", "schedule", "report", "cycle"}
    /\ IF plane = "gate" THEN GateInit
       ELSE call = ParkedCall /\ stage = "fetch" /\ known = Nothing /\ answer = 0 /\ audits = 0
    /\ ScheduleInit /\ (plane # "schedule" => native = "launchd")
    /\ TokenCacheInit /\ RateInit /\ ReportInit /\ CycleInit

PlaneNext ==
    \/ /\ plane = "gate" /\ GateNext
       /\ UNCHANGED <<plane, tokenCacheVars, rateVars, scheduleVars, reportVars, cycleVars>>
    \/ /\ plane = "tokens" /\ TokenCacheNext
       /\ UNCHANGED <<plane, gateVars, rateVars, scheduleVars, reportVars, cycleVars>>
    \/ /\ plane = "rates" /\ RateNext
       /\ UNCHANGED <<plane, gateVars, tokenCacheVars, scheduleVars, reportVars, cycleVars>>
    \/ /\ plane = "schedule" /\ ScheduleNext
       /\ UNCHANGED <<plane, gateVars, tokenCacheVars, rateVars, reportVars, cycleVars>>
    \/ /\ plane = "report" /\ ReportNext
       /\ UNCHANGED <<plane, gateVars, tokenCacheVars, rateVars, scheduleVars, cycleVars>>
    \/ /\ plane = "cycle" /\ CycleNext
       /\ UNCHANGED <<plane, gateVars, tokenCacheVars, rateVars, scheduleVars, reportVars>>

PlaneSpec == PlaneInit /\ [][PlaneNext]_planeVars

\* Requests, targets and runs are interchangeable, and so are the ids of reports; the
\* configuration gives the first three the same model values, since one part moves.
PlaneSymmetry == Permutations(Requests \cup Targets \cup Runs) \cup Permutations(ReportIds)
=============================================================================
