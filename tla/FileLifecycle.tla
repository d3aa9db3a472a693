--------------------------- MODULE FileLifecycle ---------------------------
(***************************************************************************)
(* What the files module promises, without its transactions: the life of   *)
(* the files whose upload succeeded.  A file is staged with its bytes, and *)
(* then either bound for ever to one reference, together with all other    *)
(* files of the same unit of work, or reclaimed: claimed, erased, deleted, *)
(* in that order and never back.                                           *)
(***************************************************************************)
CONSTANTS Files, Refs, Nil

VARIABLES
  status,   \* life of the row of a file
  ref,      \* the reference it is bound to, or Nil
  content   \* files whose bytes can be read

vars == <<status, ref, content>>

Init ==
  /\ status = [f \in Files |-> "none"] /\ ref = [f \in Files |-> Nil]
  /\ content = {}

(* An upload succeeds: the row appears with its bytes.  If the uploader is  *)
(* told of a failure the row may appear without them (held = {}).           *)
Stage(f) ==
  /\ status[f] = "none"
  /\ status' = [status EXCEPT ![f] = "staged"]
  /\ \E held \in {{}, {f}} : content' = content \cup held
  /\ UNCHANGED ref

(* One unit of work binds all its files at once. *)
Bind(S, r) ==
  /\ \A f \in S : status[f] = "staged"
  /\ status' = [f \in Files |-> IF f \in S THEN "attached" ELSE status[f]]
  /\ ref' = [f \in Files |-> IF f \in S THEN r ELSE ref[f]]
  /\ UNCHANGED content

Claim(S) ==
  /\ \A f \in S : status[f] \in {"staged", "deleting"}
  /\ status' = [f \in Files |-> IF f \in S THEN "deleting" ELSE status[f]]
  /\ UNCHANGED <<ref, content>>

Erase(f) ==
  /\ status[f] = "deleting"
  /\ content' = content \ {f}
  /\ UNCHANGED <<status, ref>>

Delete(f) ==
  /\ status[f] = "deleting" /\ f \notin content
  /\ status' = [status EXCEPT ![f] = "deleted"]
  /\ UNCHANGED <<ref, content>>

Next ==
  \/ \E f \in Files : Stage(f) \/ Erase(f) \/ Delete(f)
  \/ \E S \in SUBSET Files : Claim(S) \/ \E r \in Refs : Bind(S, r)

Spec == Init /\ [][Next]_vars
=============================================================================
