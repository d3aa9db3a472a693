----------------------------- MODULE MCAccounts ------------------------------
(* Small instances of Accounts for TLC. *)
EXTENDS Accounts, TLC

AccountsSymmetry == Permutations(Reqs) \cup Permutations(Roles) \cup Permutations(Edits)

(***************************************************************************)
(* Requests for identities and requests for roles read and write nothing   *)
(* in common; nor do assignments and settings, but for deletions, which    *)
(* are explored with either.  The bounds: they are explored apart, not in  *)
(* every mixture, and settings with one role at a time.                    *)
(***************************************************************************)
AssignSteps == {"open", "scan", "drop", "insert"}
DeleteSteps == {"count", "delete"}

AccountsUntouched ==
  /\ \A u \in Users : flag[u] /\ identity[u] = [failed |-> 0, lock |-> "off", must |-> TRUE]
  /\ \A q \in Reqs : req[q].pc \in AssignSteps \cup DeleteSteps \cup {"idle"}
SettingsUntouched ==
  /\ \A r \in Roles : setting[r] = New
  /\ \A e \in Edits : edit[e] = NoEdit
  /\ \A v \in Views : view[v] = NoView
RolesUntouched ==
  /\ SettingsUntouched
  /\ \A u \in Users : given[u] = {} /\ latest[u] = {{}}
  /\ \A q \in Reqs : req[q].pc \notin AssignSteps \cup DeleteSteps
Assigned ==
  /\ Cardinality({r \in Roles : role[r] # "unused"}) <= 1
  /\ \A u \in Users : latest[u] = {given[u]}
  /\ \A q \in Reqs : req[q].pc \in DeleteSteps \cup {"idle"}

Apart ==
  \/ RolesUntouched
  \/ AccountsUntouched /\ (SettingsUntouched \/ Assigned)
=============================================================================
