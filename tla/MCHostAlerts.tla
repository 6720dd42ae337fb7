--------------------------- MODULE MCHostAlerts ----------------------------
(* Instances of HostAlerts for TLC.  iowait_high is the duration rule, the *)
(* others are instant.                                                     *)
EXTENDS HostAlerts, TLC

MCDuration == [r \in Rules |-> IF r = "iowait_high" THEN 1 ELSE 0]
=============================================================================
