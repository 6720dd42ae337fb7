--------------------------- MODULE MCConnectPlane ---------------------------
(* The configuration side of the worker: the coordinator through which     *)
(* every change goes (ConnectMutations), the tokens of Connect and their   *)
(* management (ConnectTokens), the agents, assets, bindings, tags and      *)
(* ports that routes and Connect products write (Inventory).  A behaviour  *)
(* of this instance is one of the part that plane names: the tables are    *)
(* disjoint.                                                               *)
EXTENDS ConnectMutations, ConnectTokens, Inventory, TLC

VARIABLE plane

planeVars == <<plane, vars, tokenVars, inventoryVars>>

\* A part that does not move keeps one of its initial states.
PlaneInit ==
    /\ plane \in {"mutations", "tokens", "inventory"}
    /\ TokensInit /\ (plane # "tokens" => liveServers = Servers)
    /\ InventoryInit /\ Init

PlaneNext ==
    \/ plane = "mutations" /\ Next /\ UNCHANGED <<plane, tokenVars, inventoryVars>>
    \/ plane = "tokens" /\ TokensNext /\ UNCHANGED <<plane, vars, inventoryVars>>
    \/ plane = "inventory" /\ InventoryNext /\ UNCHANGED <<plane, vars, tokenVars>>

PlaneSpec == PlaneInit /\ [][PlaneNext]_planeVars

\* The owner of every workstation is a manager without the global role.
OwnedByFirst == [w \in Stations |-> CHOOSE m \in Managers : m \notin Global]

\* The parts may be given the same model values, since only one of them moves.
PlaneSymmetry == Permutations(TokenIds) \cup Permutations(Terms)
                 \cup Permutations(Hosts) \cup Permutations(TagIds) \cup Permutations(Ports)
                 \cup Permutations(Keys) \cup Permutations(Intents)
=============================================================================
