--------------------------- MODULE MCStatusTypes ----------------------------
(* Small instances of StatusTypes for TLC. *)
EXTENDS StatusTypes, TLC

TypesSymmetry == Permutations(Keys \ Presets) \cup Permutations(Reqs)
=============================================================================
