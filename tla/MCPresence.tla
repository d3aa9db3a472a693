----------------------------- MODULE MCPresence -----------------------------
(* Small instances of Presence for TLC. *)
EXTENDS Presence, TLC

PresenceSymmetry == Permutations(Keys) \cup Permutations(Recs)
=============================================================================
