--------------------------- MODULE MCOrgDirectory ---------------------------
(* Small instances of OrgDirectory for TLC. *)
EXTENDS OrgDirectory, TLC

OrgSymmetry == Permutations(Depts) \cup Permutations(Emps) \cup Permutations(Reqs)

(***************************************************************************)
(* The bound: an instance has either an id of a department left to create  *)
(* or no employee.  With three ids that is two departments and employees,  *)
(* and a tree of three.                                                    *)
(***************************************************************************)
NobodyHired == \A e \in Emps : status[e] = "absent" /\ \A r \in Reqs : req[r].e # e
Bounded == NobodyHired \/ \E d \in Depts : dept[d] = "absent"
=============================================================================
