-------------------------- MODULE StatusDictionary --------------------------
(***************************************************************************)
(* What the dictionary of presence states promises: at every moment one    *)
(* type is the default and it is in use, though types are created,         *)
(* archived, restored and made the default at will.                        *)
(***************************************************************************)
CONSTANTS Keys

VARIABLES
  status,    \* status[k]: "none", "active" or "archived"
  default    \* the type of an employee without a record

vars == <<status, default>>

Init ==
  /\ default \in Keys
  /\ status \in [Keys -> {"none", "active"}] /\ status[default] = "active"

Create(k) ==
  /\ status[k] = "none"
  /\ status' = [status EXCEPT ![k] = "active"] /\ UNCHANGED default

SetDefault(k) ==
  /\ status[k] = "active"
  /\ default' = k /\ UNCHANGED status

Archive(k) ==
  /\ status[k] = "active" /\ k # default
  /\ status' = [status EXCEPT ![k] = "archived"] /\ UNCHANGED default

Restore(k) ==
  /\ status[k] = "archived"
  /\ status' = [status EXCEPT ![k] = "active"] /\ UNCHANGED default

Next == \E k \in Keys : Create(k) \/ SetDefault(k) \/ Archive(k) \/ Restore(k)

Spec == Init /\ [][Next]_vars
=============================================================================
