---------------------------- MODULE MCAlertPlane ----------------------------
(* What a host raises and what is shown of it: the alerts of its samples   *)
(* with two ingests under way (HostAlerts), the events that its webhook    *)
(* sends (WebhookEvents) and the answers of the read APIs about the fleet  *)
(* (DashboardViews).  A behaviour of this instance is one of the part that *)
(* plane names: the parts share no state.                                  *)
EXTENDS MCHostAlerts, WebhookEvents, DashboardViews

\* A window that ends before it starts and one that does not.
MCWindows == {<<2, 1>>, <<0, 2>>}

VARIABLE plane

planeVars == <<plane, vars, webhookVars, viewVars>>

\* A part that does not move keeps one of its initial states.
PlaneInit ==
    /\ plane \in {"alerts", "webhooks", "views"}
    /\ Init /\ ViewInit
    /\ WebhookInit /\ (plane # "webhooks" => publicIp = NoHook)

PlaneNext ==
    \/ plane = "alerts" /\ Next /\ UNCHANGED <<plane, webhookVars, viewVars>>
    \/ plane = "webhooks" /\ WebhookNext /\ UNCHANGED <<plane, vars, viewVars>>
    \/ plane = "views" /\ ViewNext /\ UNCHANGED <<plane, vars, webhookVars>>

PlaneSpec == PlaneInit /\ [][PlaneNext]_planeVars

\* Lanes and senders are interchangeable; the configuration gives them the same
\* model values, since one part moves.
PlaneSymmetry == Permutations(Tier1Lanes \cup Deliverers)
=============================================================================
