------------------------- MODULE MCWorkstationKeys --------------------------
(* Instances of WorkstationKeys for TLC: commands, codes and principals    *)
(* are interchangeable.                                                    *)
EXTENDS WorkstationKeys, TLC

MCSymmetry == Permutations(Commands) \cup Permutations(Codes) \cup Permutations(Principals)
=============================================================================
