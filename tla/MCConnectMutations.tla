------------------------- MODULE MCConnectMutations -------------------------
(* Instances of ConnectMutations for TLC: slots, keys and intents are      *)
(* interchangeable.                                                        *)
EXTENDS ConnectMutations, TLC

MCSymmetry == Permutations(Slots) \cup Permutations(Keys) \cup Permutations(Intents)
=============================================================================
