----------------------------- MODULE MCFileStore ---------------------------
(* Small instances of FileStore for TLC. *)
EXTENDS FileStore, FiniteSetsExt, TLC

CONSTANTS f1, f2, f3, u1, u2

\* f3 belongs to a second user; f1 weighs one unit, the others two.
MCOwner == [f \in Files |-> IF f = f3 THEN u2 ELSE u1]
MCSize  == [f \in Files |-> IF f = f1 THEN 1 ELSE 2]
MCBytes(S) == MapThenSumSet(LAMBDA f : MCSize[f], S)

UowSymmetry == Permutations(Uows) \cup Permutations(Cleaners) \cup Permutations(Refs)
=============================================================================
