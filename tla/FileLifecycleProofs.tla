------------------------- MODULE FileLifecycleProofs -------------------------
(***************************************************************************)
(* What follows from the promise of the files module alone, for any number *)
(* of files and references.  The lemmas about a step are meant for those   *)
(* who implement the promise or build on it.                               *)
(***************************************************************************)
EXTENDS FileLifecycle, TLAPS

Status == {"none", "staged", "attached", "deleting", "deleted"}

TypeOK ==
  /\ status \in [Files -> Status] /\ ref \in [Files -> Refs \cup {Nil}]
  /\ content \subseteq Files

(***************************************************************************)
(* A file that is attached stays attached, to the same reference, and      *)
(* keeps its bytes.                                                        *)
(***************************************************************************)
KeepsAttached ==
  \A f \in Files : status[f] = "attached" =>
    /\ status'[f] = "attached" /\ ref'[f] = ref[f]
    /\ f \in content => f \in content'

AttachedForGood == [][KeepsAttached]_vars

(***************************************************************************)
(* The status of a file goes its way and never back: it is bound or        *)
(* claimed once, and what is claimed is never bound any more.              *)
(***************************************************************************)
Onward ==
  {<<"none", "staged">>, <<"staged", "attached">>, <<"staged", "deleting">>,
   <<"deleting", "deleted">>}
GoesOnward == \A f \in Files : status'[f] = status[f] \/ <<status[f], status'[f]>> \in Onward

NeverBack == [][GoesOnward]_vars

(***************************************************************************)
(* Bytes are taken only from a file that is claimed.                       *)
(***************************************************************************)
TakesOnlyClaimed == \A f \in content : f \in content' \/ status[f] = "deleting"

BytesTakenLast == [][TakesOnlyClaimed]_vars

\* Bytes can be read only of files that have a row and are not deleted.
ContentOfRows == \A f \in content : status[f] \notin {"none", "deleted"}

(* Types, one step, whoever takes it.                                       *)
LEMMA TypeStep == TypeOK /\ [Next]_vars => TypeOK'
<1> SUFFICES ASSUME TypeOK, [Next]_vars PROVE TypeOK'
  OBVIOUS
<1>1. ASSUME NEW f \in Files, Stage(f) PROVE TypeOK'
  BY <1>1 DEF Stage, TypeOK, Status
<1>2. ASSUME NEW f \in Files, Erase(f) \/ Delete(f) PROVE TypeOK'
  BY <1>2 DEF Erase, Delete, TypeOK, Status
<1>3. ASSUME NEW S \in SUBSET Files, Claim(S) PROVE TypeOK'
  BY <1>3 DEF Claim, TypeOK, Status
<1>4. ASSUME NEW S \in SUBSET Files, NEW r \in Refs, Bind(S, r) PROVE TypeOK'
  BY <1>4 DEF Bind, TypeOK, Status
<1>5. CASE UNCHANGED vars
  BY <1>5 DEF vars, TypeOK
<1> QED BY <1>1, <1>2, <1>3, <1>4, <1>5 DEF Next

(* What one step does to each file.                                         *)
LEMMA LifeStep ==
  ASSUME TypeOK, [Next]_vars
  PROVE  KeepsAttached /\ GoesOnward /\ TakesOnlyClaimed
<1> USE DEF KeepsAttached, GoesOnward, TakesOnlyClaimed, Onward
<1>1. ASSUME NEW f \in Files, Stage(f) PROVE KeepsAttached /\ GoesOnward /\ TakesOnlyClaimed
  BY <1>1 DEF Stage, TypeOK
<1>2. ASSUME NEW f \in Files, Erase(f) PROVE KeepsAttached /\ GoesOnward /\ TakesOnlyClaimed
  BY <1>2 DEF Erase, TypeOK
<1>3. ASSUME NEW f \in Files, Delete(f) PROVE KeepsAttached /\ GoesOnward /\ TakesOnlyClaimed
  BY <1>3 DEF Delete, TypeOK
<1>4. ASSUME NEW S \in SUBSET Files, Claim(S) PROVE KeepsAttached /\ GoesOnward /\ TakesOnlyClaimed
  BY <1>4 DEF Claim, TypeOK
<1>5. ASSUME NEW S \in SUBSET Files, NEW r \in Refs, Bind(S, r)
      PROVE  KeepsAttached /\ GoesOnward /\ TakesOnlyClaimed
  BY <1>5 DEF Bind, TypeOK
<1>6. CASE UNCHANGED vars
  BY <1>6 DEF vars
<1> QED BY <1>1, <1>2, <1>3, <1>4, <1>5, <1>6 DEF Next

(* A file that is attached is attached for good, in every implementation of *)
(* the promise.                                                             *)
THEOREM BoundForGood == Spec => AttachedForGood /\ NeverBack /\ BytesTakenLast
<1>1. Init => TypeOK
  BY DEF Init, TypeOK, Status
<1>2. TypeOK /\ [Next]_vars => [KeepsAttached]_vars /\ [GoesOnward]_vars /\ [TakesOnlyClaimed]_vars
  BY LifeStep
<1> QED BY <1>1, <1>2, TypeStep, PTL DEF Spec, AttachedForGood, NeverBack, BytesTakenLast

(* Deleted rows have no bytes left.                                         *)
THEOREM NoBytesWithoutRow == Spec => []ContentOfRows
<1>1. Init => TypeOK /\ ContentOfRows
  BY DEF Init, TypeOK, Status, ContentOfRows
<1>2. TypeOK /\ ContentOfRows /\ [Next]_vars => ContentOfRows'
  <2> SUFFICES ASSUME TypeOK, ContentOfRows, [Next]_vars PROVE ContentOfRows'
    OBVIOUS
  <2>1. ASSUME NEW f \in Files, Stage(f) PROVE ContentOfRows'
    BY <2>1 DEF Stage, TypeOK, ContentOfRows
  <2>2. ASSUME NEW f \in Files, Erase(f) \/ Delete(f) PROVE ContentOfRows'
    BY <2>2 DEF Erase, Delete, TypeOK, ContentOfRows
  <2>3. ASSUME NEW S \in SUBSET Files, Claim(S) PROVE ContentOfRows'
    BY <2>3 DEF Claim, TypeOK, ContentOfRows
  <2>4. ASSUME NEW S \in SUBSET Files, NEW r \in Refs, Bind(S, r) PROVE ContentOfRows'
    BY <2>4 DEF Bind, TypeOK, ContentOfRows
  <2>5. CASE UNCHANGED vars
    BY <2>5 DEF vars, ContentOfRows
  <2> QED BY <2>1, <2>2, <2>3, <2>4, <2>5 DEF Next
<1> QED BY <1>1, <1>2, TypeStep, PTL DEF Spec
=============================================================================
