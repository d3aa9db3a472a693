--------------------------- MODULE PresenceProofs ---------------------------
(***************************************************************************)
(* Proofs about Presence for every number of types and registrations and   *)
(* every horizon.                                                          *)
(***************************************************************************)
EXTENDS Presence, TLAPS

USE NilAssumption, HorizonAssumption

-----------------------------------------------------------------------------
(* A record with some fields replaced is still a record.                    *)
LEMMA RecUpdates ==
  ASSUME NEW q \in RecRecord
  PROVE  /\ \A pc \in {"typed", "check", "form", "insert"} \cup Ended :
              [q EXCEPT !.pc = pc] \in RecRecord
         /\ [q EXCEPT !.stale = TRUE] \in RecRecord
BY DEF RecRecord

(* A step of the dictionary only marks registrations as outdated.           *)
LEMMA TypesFrame ==
  ASSUME TypeOK, TypesStep, NEW i \in Recs
  PROVE  /\ rec' \in [Recs -> RecRecord]
         /\ rec'[i].pc = rec[i].pc /\ rec'[i].key = rec[i].key
         /\ rec'[i].from = rec[i].from /\ rec'[i].to = rec[i].to
         /\ rec'[i].exempt = rec[i].exempt
         /\ rec[i].stale => rec'[i].stale
         /\ ~shifted' => default' = default /\ ~shifted
<1>t. rec \in [Recs -> RecRecord] /\ rec[i] \in RecRecord
  BY DEF TypeOK
<1>1. CASE default' = default
  BY <1>1, <1>t DEF TypesStep
<1>2. CASE default' # default
  <2>1. rec' = [j \in Recs |-> IF InFlight(j) THEN [rec[j] EXCEPT !.stale = TRUE] ELSE rec[j]]
        /\ shifted' = TRUE
    BY <1>2 DEF TypesStep, Outdated
  <2> QED BY <1>t, <2>1, RecUpdates DEF RecRecord
<1> QED BY <1>1, <1>2

LEMMA TypeInit == Init => TypeOK
<1> SUFFICES ASSUME Init PROVE TypeOK
  OBVIOUS
<1>1. NoRecord \in RecRecord
  BY DEF NoRecord, RecRecord, Instants, Forever
<1>2. status \in [Keys -> {"none", "active", "archived"}] /\ default \in Keys
  BY DEF Init, Types!Init
<1> QED BY <1>1, <1>2 DEF Init, TypeOK, NoRecord

LEMMA TypeNext == TypeOK /\ [Next]_vars => TypeOK'
<1> SUFFICES ASSUME TypeOK, [Next]_vars PROVE TypeOK'
  OBVIOUS
<1>t. /\ rec \in [Recs -> RecRecord] /\ forms \subseteq Recs
      /\ raced \in BOOLEAN /\ shifted \in BOOLEAN
      /\ status \in [Keys -> {"none", "active", "archived"}] /\ default \in Keys
  BY DEF TypeOK
<1>1. CASE UNCHANGED vars
  BY <1>1 DEF vars, TypeOK
<1>2. CASE TypesStep
  <2>1. status' \in [Keys -> {"none", "active", "archived"}] /\ default' \in Keys
    BY <1>2, <1>t DEF TypesStep, Types!Next, Types!Create, Types!SetDefault, Types!Archive,
                      Types!Restore
  <2>2. forms' = forms /\ raced' = raced /\ shifted' \in BOOLEAN
    BY <1>2, <1>t DEF TypesStep
  <2>3. rec' \in [Recs -> RecRecord]
    BY <1>2, <1>t, TypesFrame DEF TypesStep
  <2> QED BY <1>2, <2>1, <2>2, <2>3, TypesFrame DEF TypeOK
<1>3. ASSUME NEW i \in Recs, Register(i) \/ Cancel(i)
      PROVE  TypeOK'
  <2>t. rec[i] \in RecRecord
    BY <1>t
  <2>f. status' = status /\ default' = default /\ shifted' = shifted
    BY <1>3 DEF Register, RegisterType, RegisterDefault, RegisterCheck, RegisterForm,
                RegisterInsert, RegisterFails, Cancel, typeVars
  <2>1. CASE RegisterType(i)
    <3>0. PICK k \in Keys, from \in Instants, to \in Instants \cup {Forever}, form \in BOOLEAN :
            /\ Registrable(k) /\ from < to
            /\ Set(i, [rec[i] EXCEPT !.pc = "typed", !.key = k, !.from = from, !.to = to,
                                     !.form = form])
      BY <2>1 DEF RegisterType
    <3>1. rec' = [rec EXCEPT ![i] = [rec[i] EXCEPT !.pc = "typed", !.key = k, !.from = from,
                                                   !.to = to, !.form = form]]
      BY <3>0 DEF Set
    <3>2. [rec[i] EXCEPT !.pc = "typed", !.key = k, !.from = from, !.to = to, !.form = form]
             \in RecRecord
      BY <2>t DEF RecRecord
    <3> QED BY <1>t, <2>t, <2>f, <2>1, <3>1, <3>2 DEF RegisterType, TypeOK, RecRecord
  <2>2. CASE RegisterDefault(i)
    <3>1. [rec[i] EXCEPT !.pc = "check", !.exempt = default] \in RecRecord
      BY <1>t, <2>t DEF RecRecord
    <3> QED BY <1>t, <2>t, <2>f, <2>2, <3>1 DEF RegisterDefault, Set, Exempt, TypeOK, RecRecord
  <2>3. CASE RegisterCheck(i)
    <3>1. PICK pc \in {"form", "insert", "refused"} :
            rec' = [rec EXCEPT ![i] = [rec[i] EXCEPT !.pc = pc]]
      BY <2>3 DEF RegisterCheck, Set
    <3>2. [rec[i] EXCEPT !.pc = pc] \in RecRecord
      BY <2>t, RecUpdates DEF Ended
    <3> QED BY <1>t, <2>t, <2>f, <2>3, <3>1, <3>2 DEF RegisterCheck, TypeOK, RecRecord
  <2>4. CASE RegisterForm(i) \/ RegisterFails(i) \/ Cancel(i)
    <3>1. PICK pc \in {"insert", "refused", "cancelled"} :
            rec' = [rec EXCEPT ![i] = [rec[i] EXCEPT !.pc = pc]]
      BY <2>4 DEF RegisterForm, RegisterFails, Cancel, Set
    <3>2. [rec[i] EXCEPT !.pc = pc] \in RecRecord
      BY <2>t, RecUpdates DEF Ended
    <3>3. /\ forms' \subseteq Recs /\ raced' = raced /\ rec[i].pc # "idle"
          /\ pc = "insert" => rec[i].pc = "form"
      BY <1>t, <2>4, <2>t, <3>1 DEF RegisterForm, RegisterFails, Cancel, InFlight, FormFirst,
                                    Ended, Set, RecRecord
    <3> QED BY <1>t, <2>t, <2>f, <3>1, <3>2, <3>3 DEF TypeOK, RecRecord
  <2>5. CASE RegisterInsert(i)
    <3>1. /\ rec' \in [Recs -> RecRecord]
          /\ \A j \in Recs : /\ rec'[j].key = rec[j].key /\ rec'[j].exempt = rec[j].exempt
                             /\ rec'[j].pc = IF j = i THEN "live" ELSE rec[j].pc
      <4>1. /\ [rec[i] EXCEPT !.pc = "live"] \in RecRecord
            /\ \A j \in Recs : /\ rec[j] \in RecRecord
                               /\ [rec[j] EXCEPT !.stale = TRUE] \in RecRecord
        BY <1>t, RecUpdates DEF Ended
      <4>2. rec' = [j \in Recs |-> IF j = i THEN [rec[i] EXCEPT !.pc = "live"]
                     ELSE IF HasChecked(j) THEN [rec[j] EXCEPT !.stale = TRUE] ELSE rec[j]]
        BY <2>5 DEF RegisterInsert, Outdated
      <4> QED BY <4>1, <4>2 DEF RecRecord
    <3> QED BY <1>t, <2>f, <2>5, <3>1 DEF RegisterInsert, TypeOK
  <2> QED BY <1>3, <2>1, <2>2, <2>3, <2>4, <2>5 DEF Register
<1> QED BY <1>1, <1>2, <1>3 DEF Next

(* The values of the tables and of the registrations under way.             *)
THEOREM TypeCorrect == Spec => []TypeOK
BY TypeInit, TypeNext, PTL DEF Spec

-----------------------------------------------------------------------------
(***************************************************************************)
(* While the default stays, no registration is of the default type and all *)
(* exempt it; a check that is not outdated has seen every live record.     *)
(***************************************************************************)
Exempts(i) ==
  /\ rec[i].pc \in {"typed", "check", "form", "insert", "live"} => rec[i].key # default
  /\ rec[i].pc \in {"check", "form", "insert", "live"} => rec[i].exempt = default
Clear(i) == \A j \in Live : j # i => ~Overlaps(j, i)
Checked(i) ==
  /\ HasChecked(i) /\ ~rec[i].stale => Clear(i)
  /\ rec[i].pc = "live" => Clear(i)

ExemptInv == ~shifted => \A i \in Recs : Exempts(i)
CheckInv  == ~shifted /\ ~raced => \A i \in Recs : Checked(i)
IInv == TypeOK /\ ExemptInv /\ CheckInv

LEMMA InvInit == Init => IInv
<1> SUFFICES ASSUME Init PROVE IInv
  OBVIOUS
<1>1. \A i \in Recs : rec[i].pc = "idle"
  BY DEF Init, NoRecord
<1> QED BY <1>1, TypeInit DEF IInv, ExemptInv, CheckInv, Exempts, Checked, HasChecked

LEMMA ExemptNext ==
  ASSUME IInv, NEW i \in Recs, Register(i) \/ Cancel(i)
  PROVE  ExemptInv'
<1> SUFFICES ASSUME ~shifted', NEW j \in Recs PROVE Exempts(j)'
  BY DEF ExemptInv
<1>f. default' = default /\ shifted' = shifted
  BY DEF Register, RegisterType, RegisterDefault, RegisterCheck, RegisterForm,
         RegisterInsert, RegisterFails, Cancel, typeVars
<1>t. rec \in [Recs -> RecRecord] /\ rec[i] \in RecRecord /\ rec[j] \in RecRecord
  BY DEF IInv, TypeOK
<1>e. Exempts(j) /\ Exempts(i)
  BY <1>f DEF IInv, ExemptInv
<1>1. CASE RegisterType(i)
  <2>0. PICK k \in Keys, from \in Instants, to \in Instants \cup {Forever}, form \in BOOLEAN :
          /\ Registrable(k) /\ from < to
          /\ Set(i, [rec[i] EXCEPT !.pc = "typed", !.key = k, !.from = from, !.to = to,
                                   !.form = form])
    BY <1>1 DEF RegisterType
  <2>1. rec' = [rec EXCEPT ![i] = [rec[i] EXCEPT !.pc = "typed", !.key = k, !.from = from,
                                                 !.to = to, !.form = form]]
    BY <2>0 DEF Set
  <2> QED BY <1>f, <1>t, <1>e, <2>0, <2>1 DEF Exempts, Registrable, RecRecord
<1>2. CASE RegisterDefault(i)
  BY <1>2, <1>f, <1>t, <1>e DEF RegisterDefault, Set, Exempt, Exempts, RecRecord
<1>3. CASE RegisterCheck(i) \/ RegisterForm(i) \/ RegisterFails(i) \/ Cancel(i)
  BY <1>3, <1>f, <1>t, <1>e DEF RegisterCheck, RegisterForm, RegisterFails, Cancel, Set, Exempts,
                                RecRecord
<1>4. CASE RegisterInsert(i)
  BY <1>4, <1>f, <1>t, <1>e DEF RegisterInsert, Outdated, Exempts, RecRecord
<1> QED BY <1>1, <1>2, <1>3, <1>4 DEF Register

LEMMA CheckNext ==
  ASSUME IInv, NEW i \in Recs, Register(i) \/ Cancel(i)
  PROVE  CheckInv'
<1> SUFFICES ASSUME ~shifted', ~raced', NEW j \in Recs PROVE Checked(j)'
  BY DEF CheckInv
<1>f. shifted' = shifted
  BY DEF Register, RegisterType, RegisterDefault, RegisterCheck, RegisterForm,
         RegisterInsert, RegisterFails, Cancel
<1>r. ~raced
  BY DEF Register, RegisterType, RegisterDefault, RegisterCheck, RegisterForm,
         RegisterInsert, RegisterFails, Cancel
<1>t. rec \in [Recs -> RecRecord] /\ \A k \in Recs : rec[k] \in RecRecord
  BY DEF IInv, TypeOK
<1>c. CheckInv /\ \A k \in Recs : Checked(k)
  BY <1>f, <1>r DEF IInv, CheckInv
<1>1. CASE RegisterType(i)
  <2>0. PICK k \in Keys, from \in Instants, to \in Instants \cup {Forever}, form \in BOOLEAN :
          /\ Registrable(k) /\ from < to
          /\ Set(i, [rec[i] EXCEPT !.pc = "typed", !.key = k, !.from = from, !.to = to,
                                   !.form = form])
    BY <1>1 DEF RegisterType
  <2>1. rec' = [rec EXCEPT ![i] = [rec[i] EXCEPT !.pc = "typed", !.key = k, !.from = from,
                                                 !.to = to, !.form = form]]
    BY <2>0 DEF Set
  <2>2. rec'[i].pc = "typed" /\ \A k1 \in Recs \ {i} : rec'[k1] = rec[k1]
    BY <1>t, <2>1 DEF RecRecord
  <2>3. Live' = Live
    BY <1>1, <2>2 DEF RegisterType, Live
  <2> QED BY <2>2, <2>3, <1>c DEF Checked, HasChecked, Clear, Live, Overlaps
<1>2. CASE RegisterDefault(i)
  <2>1. rec'[i].pc = "check" /\ \A k \in Recs \ {i} : rec'[k] = rec[k]
    BY <1>2, <1>t DEF RegisterDefault, Set, RecRecord
  <2>2. Live' = Live
    BY <1>2, <2>1 DEF RegisterDefault, Live
  <2> QED BY <2>1, <2>2, <1>c DEF Checked, HasChecked, Clear, Live, Overlaps
<1>3. CASE RegisterCheck(i)
  <2>1. PICK pc \in {"form", "insert", "refused"} :
          /\ pc = "refused" <=> Overlapping(i) # {}
          /\ rec' = [rec EXCEPT ![i] = [rec[i] EXCEPT !.pc = pc]]
    BY <1>3 DEF RegisterCheck, Set
  <2>2. /\ rec'[i].pc = pc /\ rec'[i].from = rec[i].from /\ rec'[i].to = rec[i].to
        /\ \A k \in Recs \ {i} : rec'[k] = rec[k]
    BY <1>t, <2>1 DEF RecRecord
  <2>3. Live' = Live /\ i \notin Live
    BY <1>3, <2>2 DEF RegisterCheck, Live
  <2>4. pc # "refused" => Clear(i)
    <3>1. \A k \in Live : rec[k].key # rec[i].exempt
      BY <1>3, <1>f DEF IInv, ExemptInv, Exempts, Live, RegisterCheck
    <3> QED BY <2>1, <3>1 DEF Overlapping, Clear
  <2> QED BY <2>2, <2>3, <2>4, <1>c DEF Checked, HasChecked, Clear, Live, Overlaps
<1>4. CASE RegisterForm(i) \/ RegisterFails(i) \/ Cancel(i)
  <2>1. PICK pc \in {"insert", "refused", "cancelled"} :
          /\ rec' = [rec EXCEPT ![i] = [rec[i] EXCEPT !.pc = pc]]
          /\ pc = "insert" => rec[i].pc = "form"
    BY <1>4 DEF RegisterForm, RegisterFails, Cancel, Set
  <2>2. /\ rec'[i].pc = pc /\ rec'[i].from = rec[i].from /\ rec'[i].to = rec[i].to
        /\ rec'[i].stale = rec[i].stale
        /\ \A k \in Recs \ {i} : rec'[k] = rec[k]
    BY <1>t, <2>1 DEF RecRecord
  <2>3. Live' \subseteq Live
    BY <2>2 DEF Live
  <2> QED BY <2>1, <2>2, <2>3, <1>c DEF Checked, HasChecked, Clear, Live, Overlaps
<1>5. CASE RegisterInsert(i)
  <2>1. /\ rec[i].pc = "insert" /\ ~rec[i].stale
        /\ \A k \in Recs : /\ rec'[k].pc = IF k = i THEN "live" ELSE rec[k].pc
                           /\ rec'[k].from = rec[k].from /\ rec'[k].to = rec[k].to
                           /\ k # i /\ HasChecked(k) => rec'[k].stale
    BY <1>5, <1>t DEF RegisterInsert, Outdated, RecRecord
  <2>2. Live' = Live \cup {i} /\ Clear(i)
    BY <2>1, <1>c DEF Live, Checked, HasChecked
  <2>3. \A k \in Live : Overlaps(i, k) <=> Overlaps(k, i)
    BY <1>t DEF Overlaps, Live
  <2> QED BY <2>1, <2>2, <2>3, <1>c DEF Checked, HasChecked, Clear, Live, Overlaps
<1> QED BY <1>1, <1>2, <1>3, <1>4, <1>5 DEF Register

LEMMA InvNext == IInv /\ [Next]_vars => IInv'
<1> SUFFICES ASSUME IInv, [Next]_vars PROVE IInv'
  OBVIOUS
<1>t. TypeOK /\ TypeOK'
  BY TypeNext DEF IInv
<1>1. CASE UNCHANGED vars
  BY <1>1, <1>t DEF vars, IInv, ExemptInv, CheckInv, Exempts, Checked, HasChecked, Clear, Live,
                    Overlaps
<1>2. CASE TypesStep
  <2>1. raced' = raced /\ (~shifted' => ~shifted)
    BY <1>2, <1>t, TypesFrame DEF TypesStep
  <2>2. ASSUME ~shifted', NEW i \in Recs PROVE Exempts(i)'
    BY <1>2, <1>t, <2>1, <2>2, TypesFrame DEF IInv, ExemptInv, Exempts
  <2>3. Live' = Live
    BY <1>2, <1>t, TypesFrame DEF Live
  <2>4. ASSUME ~shifted', ~raced', NEW i \in Recs PROVE Checked(i)'
    <3>1. \A k \in Recs : /\ rec'[k].pc = rec[k].pc
                          /\ rec[k].stale => rec'[k].stale
                          /\ rec'[k].from = rec[k].from /\ rec'[k].to = rec[k].to
      BY <1>2, <1>t, TypesFrame
    <3>2. Checked(i)
      BY <2>1, <2>4 DEF IInv, CheckInv
    <3> QED BY <2>3, <3>1, <3>2 DEF Checked, HasChecked, Clear, Overlaps, Live
  <2> QED BY <1>t, <2>2, <2>4 DEF IInv, ExemptInv, CheckInv
<1>3. ASSUME NEW i \in Recs, Register(i) \/ Cancel(i)
      PROVE  IInv'
  BY <1>3, <1>t, ExemptNext, CheckNext DEF IInv
<1> QED BY <1>1, <1>2, <1>3 DEF Next

LEMMA InvApart == IInv => OneStateUndisturbed
<1> SUFFICES ASSUME IInv, ~raced, ~shifted, NEW t \in Instants,
                    NEW i \in ActiveAt(t), NEW j \in ActiveAt(t), i # j
             PROVE  FALSE
  BY DEF OneStateUndisturbed, AtMostOne
<1>1. /\ i \in Live /\ rec[i].from <= t /\ t < rec[i].to
      /\ j \in Live /\ rec[j].from <= t /\ t < rec[j].to
  BY DEF ActiveAt
<1>2. /\ rec[i].from \in Nat /\ rec[i].to \in Nat /\ rec[j].from \in Nat /\ rec[j].to \in Nat
      /\ t \in Nat
  BY <1>1 DEF IInv, TypeOK, RecRecord, Live, Instants, Forever
<1>3. Overlaps(j, i)
  BY <1>1, <1>2 DEF Overlaps
<1>4. Clear(i)
  BY <1>1 DEF IInv, CheckInv, Checked, Live
<1> QED BY <1>1, <1>3, <1>4 DEF Clear

(* At most one state of an employee at any instant, for any number of       *)
(* registrations and spans, unless a check was outdated or the default      *)
(* changed.                                                                 *)
THEOREM OneState == Spec => []OneStateUndisturbed
BY InvInit, InvNext, InvApart, PTL DEF Spec

-----------------------------------------------------------------------------
(* A registration with a document holds the document when it comes to its   *)
(* insert, and from then on.                                                *)
Held(i)  == rec[i].form /\ rec[i].pc \in {"insert", "live"} => i \in forms
HeldInv  == TypeOK /\ \A i \in Recs : Held(i)

LEMMA HeldNext == HeldInv /\ [Next]_vars => HeldInv'
<1> SUFFICES ASSUME HeldInv, [Next]_vars, NEW j \in Recs PROVE Held(j)'
  BY TypeNext DEF HeldInv
<1>t. rec \in [Recs -> RecRecord] /\ rec[j] \in RecRecord /\ Held(j)
  BY DEF HeldInv, TypeOK
<1>1. CASE UNCHANGED vars
  BY <1>1, <1>t DEF vars, Held
<1>2. CASE TypesStep
  <2>1. forms' = forms /\ rec'[j].form = rec[j].form /\ rec'[j].pc = rec[j].pc
    BY <1>2, <1>t DEF TypesStep, Outdated, RecRecord
  <2> QED BY <2>1, <1>t DEF Held
<1>3. ASSUME NEW i \in Recs, Register(i) \/ Cancel(i)
      PROVE  Held(j)'
  <2>t. rec[i] \in RecRecord /\ Held(i)
    BY DEF HeldInv, TypeOK
  <2>1. CASE RegisterType(i)
    <3>1. PICK k \in Keys, from \in Instants, to \in Instants \cup {Forever}, form \in BOOLEAN :
            /\ Registrable(k) /\ from < to
            /\ Set(i, [rec[i] EXCEPT !.pc = "typed", !.key = k, !.from = from, !.to = to,
                                     !.form = form])
      BY <2>1 DEF RegisterType
    <3>2. forms' = forms /\ rec'[i].pc = "typed" /\ (j # i => rec'[j] = rec[j])
      BY <1>t, <2>t, <2>1, <3>1 DEF RegisterType, Set, RecRecord
    <3> QED BY <1>t, <3>2 DEF Held
  <2>2. CASE RegisterDefault(i) \/ RegisterCheck(i)
    <3>1. CASE RegisterDefault(i)
      BY <1>t, <2>t, <3>1 DEF RegisterDefault, Set, Held, RecRecord
    <3>2. CASE RegisterCheck(i)
      <4>1. PICK pc \in {"form", "insert", "refused"} :
              /\ pc = "insert" => ~rec[i].form
              /\ rec' = [rec EXCEPT ![i] = [rec[i] EXCEPT !.pc = pc]]
        BY <3>2 DEF RegisterCheck, Set
      <4> QED BY <1>t, <2>t, <3>2, <4>1 DEF RegisterCheck, Held, RecRecord
    <3> QED BY <2>2, <3>1, <3>2
  <2>3. CASE RegisterForm(i)
    BY <1>t, <2>t, <2>3 DEF RegisterForm, FormFirst, Set, Held, RecRecord
  <2>4. CASE RegisterInsert(i)
    <3>1. /\ forms' = forms /\ rec[i].pc = "insert" /\ rec'[j].form = rec[j].form
          /\ rec'[j].pc = IF j = i THEN "live" ELSE rec[j].pc
      BY <1>t, <2>t, <2>4 DEF RegisterInsert, Outdated, RecRecord
    <3> QED BY <1>t, <3>1 DEF Held
  <2>5. CASE RegisterFails(i) \/ Cancel(i)
    BY <1>t, <2>t, <2>5 DEF RegisterFails, Cancel, Set, Held, RecRecord
  <2> QED BY <1>3, <2>1, <2>2, <2>3, <2>4, <2>5 DEF Register
<1> QED BY <1>1, <1>2, <1>3 DEF Next

(* A live record that says it has a form has one, for any number of         *)
(* registrations that fail at any point.                                    *)
THEOREM FormBehind == Spec => []FormBehindRecord
<1>1. Init => HeldInv
  BY TypeInit DEF Init, NoRecord, HeldInv, Held
<1>2. HeldInv => FormBehindRecord
  BY DEF HeldInv, Held, FormBehindRecord, Live
<1> QED BY <1>1, <1>2, HeldNext, PTL DEF Spec

-----------------------------------------------------------------------------
(***************************************************************************)
(* What the change of the default can do, and what it cannot.  A check     *)
(* leaves out the records of the type that was the default when the        *)
(* registration read it, and nothing else: of two live records that        *)
(* overlap one is of that type.                                            *)
(***************************************************************************)
Exempted(i, j) == rec[j].key = rec[i].exempt

OverlapsOnlyExempt ==
  ~raced => \A i, j \in Live : i # j /\ Overlaps(j, i) => Exempted(i, j) \/ Exempted(j, i)

\* A check that is not outdated holds of every record that is live now.
ClearBut(i) == \A j \in Live : Overlaps(j, i) => Exempted(i, j)

ExemptedInv ==
  /\ TypeOK
  /\ \A i \in Recs : HasChecked(i) /\ ~rec[i].stale => ClearBut(i)
  /\ OverlapsOnlyExempt

LEMMA ExemptedKept ==
  ASSUME ExemptedInv, raced' = raced, Live' \subseteq Live,
         \A k \in Recs : HasChecked(k)' \/ k \in Live' =>
            /\ rec'[k].from = rec[k].from /\ rec'[k].to = rec[k].to
            /\ rec'[k].key = rec[k].key /\ rec'[k].exempt = rec[k].exempt,
         \A k \in Recs : HasChecked(k)' => ClearBut(k) \/ rec'[k].stale,
         TypeOK'
  PROVE  ExemptedInv'
<1>1. \A k \in Live' : k \in Recs
  BY DEF Live
<1>2. ASSUME NEW k \in Recs, HasChecked(k)', ~rec'[k].stale PROVE ClearBut(k)'
  BY <1>1, <1>2 DEF ClearBut, Overlaps, Exempted
<1>3. OverlapsOnlyExempt'
  BY <1>1 DEF ExemptedInv, OverlapsOnlyExempt, Overlaps, Exempted
<1> QED BY <1>2, <1>3 DEF ExemptedInv

LEMMA ExemptedNext == ExemptedInv /\ [Next]_vars => ExemptedInv'
<1> SUFFICES ASSUME ExemptedInv, [Next]_vars PROVE ExemptedInv'
  OBVIOUS
<1>t. TypeOK /\ TypeOK' /\ rec \in [Recs -> RecRecord] /\ \A k \in Recs : rec[k] \in RecRecord
  BY TypeNext DEF ExemptedInv, TypeOK
<1>1. CASE UNCHANGED vars
  BY <1>1, <1>t DEF vars, ExemptedInv, HasChecked, ClearBut, OverlapsOnlyExempt, Live, Overlaps, Exempted
<1>2. CASE TypesStep
  <2>1. \A k \in Recs : /\ rec'[k].pc = rec[k].pc /\ rec'[k].key = rec[k].key
                        /\ rec'[k].from = rec[k].from /\ rec'[k].to = rec[k].to
                        /\ rec'[k].exempt = rec[k].exempt
                        /\ rec[k].stale => rec'[k].stale
    BY <1>2, <1>t, TypesFrame
  <2>2. Live' = Live
    BY <2>1 DEF Live
  <2>3. \A k \in Recs : HasChecked(k)' => HasChecked(k)
    BY <2>1 DEF HasChecked
  <2> QED BY <1>2, <1>t, <2>1, <2>2, <2>3, ExemptedKept DEF TypesStep, ExemptedInv
<1>3. ASSUME NEW i \in Recs, Register(i) \/ Cancel(i), ~RegisterInsert(i)
      PROVE  ExemptedInv'
  <2>1. CASE RegisterType(i) \/ RegisterDefault(i)
    <3>1. /\ raced' = raced /\ \A k \in Recs \ {i} : rec'[k] = rec[k]
          /\ rec[i].pc \in {"idle", "typed"} /\ rec'[i].pc \in {"typed", "check"}
      <4>1. CASE RegisterType(i)
        <5>1. PICK k \in Keys, from \in Instants, to \in Instants \cup {Forever}, form \in BOOLEAN :
                Set(i, [rec[i] EXCEPT !.pc = "typed", !.key = k, !.from = from, !.to = to,
                                      !.form = form])
          BY <4>1 DEF RegisterType
        <5> QED BY <1>t, <4>1, <5>1 DEF RegisterType, Set, RecRecord
      <4>2. CASE RegisterDefault(i)
        BY <1>t, <4>2 DEF RegisterDefault, Set, RecRecord
      <4> QED BY <2>1, <4>1, <4>2
    <3>2. Live' = Live /\ \A k \in Recs : HasChecked(k)' \/ k \in Live' => rec'[k] = rec[k]
      BY <3>1 DEF Live, HasChecked
    <3> QED BY <1>t, <3>1, <3>2, ExemptedKept DEF HasChecked, ExemptedInv
  <2>2. CASE RegisterCheck(i) \/ RegisterForm(i) \/ RegisterFails(i) \/ Cancel(i)
    <3>1. PICK pc \in {"form", "insert", "refused", "cancelled"} :
            /\ rec' = [rec EXCEPT ![i] = [rec[i] EXCEPT !.pc = pc]]
            /\ RegisterCheck(i) => (pc = "refused" <=> Overlapping(i) # {})
            /\ pc \in {"form", "insert"} => rec[i].pc \in {"check", "form"}
            /\ pc \in {"form", "insert"} /\ rec[i].pc = "check" => RegisterCheck(i)
      BY <2>2 DEF RegisterCheck, RegisterForm, RegisterFails, Cancel, Set
    <3>2. /\ raced' = raced /\ \A k \in Recs \ {i} : rec'[k] = rec[k]
          /\ rec'[i].pc = pc /\ rec'[i].from = rec[i].from /\ rec'[i].to = rec[i].to
          /\ rec'[i].key = rec[i].key /\ rec'[i].exempt = rec[i].exempt
          /\ rec'[i].stale = rec[i].stale
      BY <1>t, <2>2, <3>1
         DEF RegisterCheck, RegisterForm, RegisterFails, Cancel, RecRecord
    <3>3. Live' \subseteq Live
      BY <3>2 DEF Live
    <3>4. HasChecked(i)' => ClearBut(i) \/ rec'[i].stale
      <4>1. CASE rec[i].pc = "check" /\ pc \in {"form", "insert"}
        BY <3>1, <4>1 DEF Overlapping, ClearBut, Exempted
      <4>2. CASE HasChecked(i)
        BY <3>2, <4>2 DEF ExemptedInv
      <4> QED BY <3>1, <3>2, <4>1, <4>2 DEF HasChecked
    <3>5. \A k \in Recs \ {i} : HasChecked(k)' => ClearBut(k) \/ rec'[k].stale
      BY <3>2 DEF ExemptedInv, HasChecked
    <3> QED BY <1>t, <3>2, <3>3, <3>4, <3>5, ExemptedKept
  <2> QED BY <1>3, <2>1, <2>2 DEF Register
<1>4. ASSUME NEW i \in Recs, RegisterInsert(i)
      PROVE  ExemptedInv'
  <2>1. /\ rec[i].pc = "insert" /\ (~raced' => ~raced /\ ~rec[i].stale)
        /\ \A k \in Recs : /\ rec'[k].pc = IF k = i THEN "live" ELSE rec[k].pc
                           /\ rec'[k].from = rec[k].from /\ rec'[k].to = rec[k].to
                           /\ rec'[k].key = rec[k].key /\ rec'[k].exempt = rec[k].exempt
                           /\ k # i /\ HasChecked(k) => rec'[k].stale
    BY <1>4, <1>t DEF RegisterInsert, Outdated, RecRecord
  <2>2. Live' = Live \cup {i} /\ Live \subseteq Recs
    BY <2>1 DEF Live
  <2>3. \A k \in Recs : HasChecked(k)' => rec'[k].stale
    BY <2>1 DEF HasChecked
  <2>4. ~raced' => ClearBut(i) /\ OverlapsOnlyExempt
    BY <2>1 DEF ExemptedInv, HasChecked
  <2>5. \A k \in Live : Overlaps(i, k) <=> Overlaps(k, i)
    BY <1>t DEF Overlaps, Live
  <2>6. OverlapsOnlyExempt'
    BY <2>1, <2>2, <2>4, <2>5 DEF OverlapsOnlyExempt, ClearBut, Overlaps, Exempted
  <2> QED BY <1>t, <2>3, <2>6 DEF ExemptedInv
<1> QED BY <1>1, <1>2, <1>3, <1>4 DEF Next, Register

(* Two states of an employee overlap, if no check was outdated, only where  *)
(* one of them is of the type that was the default when the other was       *)
(* registered (findOverlappingRecord), however often the default changes:   *)
(* the damage of an exempt type that is the default no longer is bounded.   *)
THEOREM OverlapsAreExempt == Spec => []OverlapsOnlyExempt
<1>1. Init => ExemptedInv
  BY TypeInit DEF Init, NoRecord, ExemptedInv, HasChecked, OverlapsOnlyExempt, Live
<1>2. ExemptedInv => OverlapsOnlyExempt
  BY DEF ExemptedInv
<1> QED BY <1>1, <1>2, ExemptedNext, PTL DEF Spec

-----------------------------------------------------------------------------
(***************************************************************************)
(* What registrations rely on in the dictionary, and keep: they take no    *)
(* step of it themselves, and types are archived but never gone.           *)
(***************************************************************************)
DefaultInUse == status[default] = "active"
TypesOfRecords == \A i \in Recs : rec[i].pc # "idle" => status[rec[i].key] # "none"

LEMMA TypesNext == TypeOK /\ TypesOfRecords /\ DefaultInUse /\ [Next]_vars
                     => (TypesOfRecords /\ DefaultInUse)' /\ [Types!Next]_(Types!vars)
<1> SUFFICES ASSUME TypeOK, TypesOfRecords, DefaultInUse, [Next]_vars
             PROVE  (TypesOfRecords /\ DefaultInUse)' /\ [Types!Next]_(Types!vars)
  OBVIOUS
<1>t. /\ rec \in [Recs -> RecRecord] /\ status \in [Keys -> {"none", "active", "archived"}]
      /\ default \in Keys /\ \A i \in Recs : rec[i].pc # "idle" => rec[i].key \in Keys
  BY DEF TypeOK
<1>1. CASE UNCHANGED vars
  BY <1>1 DEF vars, TypesOfRecords, DefaultInUse, Types!vars
<1>2. CASE TypesStep
  <2>1. Types!Next
    BY <1>2 DEF TypesStep
  <2>2. /\ DefaultInUse'
        /\ \A k \in Keys : status[k] # "none" => status'[k] # "none"
    <3>1. PICK k \in Keys : Types!Create(k) \/ Types!SetDefault(k) \/ Types!Archive(k) \/ Types!Restore(k)
      BY <2>1 DEF Types!Next
    <3> QED BY <1>t, <3>1 DEF Types!Create, Types!SetDefault, Types!Archive, Types!Restore, DefaultInUse
  <2>3. \A i \in Recs : rec'[i].pc = rec[i].pc /\ rec'[i].key = rec[i].key
    BY <1>t, <1>2 DEF TypesStep, Outdated, RecRecord
  <2> QED BY <1>t, <2>1, <2>2, <2>3 DEF TypesOfRecords
<1>3. ASSUME NEW i \in Recs, Register(i) \/ Cancel(i)
      PROVE  (TypesOfRecords /\ DefaultInUse)' /\ [Types!Next]_(Types!vars)
  <2>1. UNCHANGED <<status, default>>
    BY <1>3 DEF Register, RegisterType, RegisterDefault, RegisterCheck, RegisterForm,
                RegisterInsert, RegisterFails, Cancel, typeVars
  <2>2. ASSUME NEW j \in Recs, rec'[j].pc # "idle" PROVE status[rec'[j].key] # "none"
    <3>1. CASE RegisterType(i)
      <4>1. PICK k \in Keys, from \in Instants, to \in Instants \cup {Forever}, form \in BOOLEAN :
              /\ Registrable(k)
              /\ Set(i, [rec[i] EXCEPT !.pc = "typed", !.key = k, !.from = from, !.to = to,
                                       !.form = form])
        BY <3>1 DEF RegisterType
      <4>2. [rec[i] EXCEPT !.pc = "typed", !.key = k, !.from = from, !.to = to, !.form = form].key = k
        BY <1>t DEF RecRecord
      <4> QED BY <1>t, <2>2, <4>1, <4>2 DEF Set, Registrable, TypesOfRecords
    <3>2. CASE ~RegisterType(i)
      <4>1. rec[i].pc # "idle"
        BY <1>3, <3>2 DEF Register, RegisterDefault, RegisterCheck, RegisterForm, RegisterInsert,
                          RegisterFails, Cancel, InFlight
      <4>2. CASE RegisterInsert(i)
        <5>1. rec[j].pc # "idle"
          BY <2>2, <4>1, <4>2 DEF RegisterInsert, HasChecked
        <5>2. rec'[j].key = rec[j].key
          BY <1>t, <4>2 DEF RegisterInsert, Outdated, RecRecord
        <5> QED BY <5>1, <5>2 DEF TypesOfRecords
      <4>3. CASE ~RegisterInsert(i)
        <5>1. PICK x : Set(i, x) /\ x.key = rec[i].key
          <6>1. ASSUME NEW pc PROVE [rec[i] EXCEPT !.pc = pc].key = rec[i].key
            BY <1>t DEF RecRecord
          <6>2. [rec[i] EXCEPT !.pc = "check", !.exempt = Exempt].key = rec[i].key
            BY <1>t DEF RecRecord
          <6> QED BY <1>3, <3>2, <4>3, <6>1, <6>2
                  DEF Register, RegisterDefault, RegisterCheck, RegisterForm, RegisterFails, Cancel
        <5>2. rec'[i] = x /\ \A h \in Recs \ {i} : rec'[h] = rec[h]
          BY <1>t, <5>1 DEF Set
        <5> QED BY <2>2, <4>1, <5>1, <5>2 DEF TypesOfRecords
      <4> QED BY <4>2, <4>3
    <3> QED BY <3>1, <3>2
  <2> QED BY <2>1, <2>2 DEF TypesOfRecords, DefaultInUse, Types!vars
<1> QED BY <1>1, <1>2, <1>3 DEF Next

(* The records and the dictionary fit at the promise between them:          *)
(* registrations leave the dictionary to its own steps, so that an employee *)
(* without a record has a default state in use and every record, also one   *)
(* whose type was archived meanwhile, has a type that exists.               *)
THEOREM RecordsHaveTypes == Spec => Types!Spec /\ [](DefaultInUse /\ TypesOfRecords)
<1>1. Init => TypeOK /\ TypesOfRecords /\ DefaultInUse /\ Types!Init
  BY TypeInit DEF Init, TypesOfRecords, DefaultInUse, NoRecord, Types!Init
<1> QED BY <1>1, TypeNext, TypesNext, PTL DEF Spec, Types!Spec
=============================================================================
