------------------------------ MODULE MCForms -------------------------------
(* Small instances of Forms for TLC. *)
EXTENDS Forms, TLC

CONSTANTS a, p, profile, daily

\* A field that is required, and a field for files.
MCSchemas == {[all |-> {a}, must |-> {a}], [all |-> {p}, must |-> {}]}
MCRevisions == profile :> 2 @@ daily :> 1
FormsSymmetry == Permutations(Reqs) \cup Permutations(Ids) \cup Permutations(Files)
=============================================================================
