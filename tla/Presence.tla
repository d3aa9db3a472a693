------------------------------ MODULE Presence ------------------------------
(***************************************************************************)
(* The presence records of one employee (presence.status_records,          *)
(* PresenceStatusService) over the dictionary of status types that         *)
(* managers change meanwhile.  Only committed types are read here, so the  *)
(* dictionary is the abstract one, which StatusTypes implements.           *)
(*                                                                         *)
(* createRecord reads the type, the default type and the overlapping       *)
(* records, writes a form record when the state has a form, and inserts    *)
(* the record: five calls with an await between any two, and no lock or    *)
(* constraint that repeats a check.  All statements filter on the employee,*)
(* so one employee stands for all.  Remarks, departments, the audit log    *)
(* and the published event are left out.                                   *)
(***************************************************************************)
EXTENDS Naturals, FiniteSets

CONSTANTS
  Keys,     \* keys of status types
  Recs,     \* registrations, hence record ids
  Horizon,  \* bound: the last instant told apart
  Nil       \* "no key"

ASSUME NilAssumption == Nil \notin Keys

ASSUME HorizonAssumption == Horizon \in Nat \ {0}

VARIABLES
  status, default,   \* of StatusDictionary
  rec,      \* rec[i]: registration i and the record it became
  forms,    \* registrations whose form record exists (forms module, external)
  raced,    \* history: a record was inserted on an outdated check
  shifted   \* history: the default changed

typeVars == <<status, default>>
vars == <<status, default, rec, forms, raced, shifted>>

Types == INSTANCE StatusDictionary

Instants == 1 .. Horizon
Forever  == Horizon + 1       \* end_at IS NULL

Ended    == {"refused", "live", "cancelled"}
NoRecord == [pc |-> "idle", key |-> Nil, from |-> 1, to |-> Forever,
             exempt |-> Nil, form |-> FALSE, stale |-> FALSE]

Init ==
  /\ Types!Init
  /\ rec = [i \in Recs |-> NoRecord]
  /\ forms = {} /\ raced = FALSE /\ shifted = FALSE

Set(i, fields) == rec' = [rec EXCEPT ![i] = fields]
InFlight(i) == rec[i].pc \notin {"idle"} \cup Ended
Live == {i \in Recs : rec[i].pc = "live"}

(* listActiveRecords: the records the board shows at an instant.            *)
ActiveAt(t) == {i \in Live : rec[i].from <= t /\ t < rec[i].to}

-----------------------------------------------------------------------------
(* The type exists, is active and is not the default; end after start.      *)
Registrable(k) == status[k] = "active" /\ k # default

RegisterType(i) ==
  /\ rec[i].pc = "idle"
  /\ \E k \in Keys, from \in Instants, to \in Instants \cup {Forever}, form \in BOOLEAN :
       /\ Registrable(k) /\ from < to
       /\ Set(i, [rec[i] EXCEPT !.pc = "typed", !.key = k, !.from = from, !.to = to,
                                !.form = form])
  /\ UNCHANGED <<typeVars, forms, raced, shifted>>

(* The default of the moment is the type that does not count as an overlap. *)
ExemptNone == Nil                       \* variant: the default is not looked up
Exempt == default

RegisterDefault(i) ==
  /\ rec[i].pc = "typed"
  /\ Set(i, [rec[i] EXCEPT !.pc = "check", !.exempt = Exempt])
  /\ UNCHANGED <<typeVars, forms, raced, shifted>>

(* findOverlappingRecord, two half-open intervals.                          *)
OverlapsStart(j, i) ==                  \* variant: the start of the new record only
  rec[j].from <= rec[i].from /\ rec[j].to > rec[i].from
Overlaps(j, i) == rec[j].from < rec[i].to /\ rec[j].to > rec[i].from
Overlapping(i) == {j \in Live : rec[j].key # rec[i].exempt /\ Overlaps(j, i)}

RegisterCheck(i) ==
  /\ rec[i].pc = "check"
  /\ \E pc \in {"form", "insert", "refused"} :
       /\ pc = "refused" <=> Overlapping(i) # {}
       /\ pc = "form" => rec[i].form
       /\ pc = "insert" => ~rec[i].form
       /\ Set(i, [rec[i] EXCEPT !.pc = pc])
  /\ UNCHANGED <<typeVars, forms, raced, shifted>>

(* createStatusFormRecord returns once the form record is committed.        *)
FormLater(i) == UNCHANGED forms         \* variant: the form is written afterwards
FormFirst(i) == forms' = forms \cup {i}

RegisterForm(i) ==
  /\ rec[i].pc = "form"
  /\ FormFirst(i) /\ Set(i, [rec[i] EXCEPT !.pc = "insert"])
  /\ UNCHANGED <<typeVars, raced, shifted>>

(* The INSERT; the checks of other registrations are now outdated.          *)
HasChecked(j) == rec[j].pc \in {"form", "insert"}
Outdated(j) == [rec[j] EXCEPT !.stale = TRUE]

RegisterInsert(i) ==
  /\ rec[i].pc = "insert"
  /\ rec' = [j \in Recs |-> IF j = i THEN [rec[i] EXCEPT !.pc = "live"]
                            ELSE IF HasChecked(j) THEN Outdated(j) ELSE rec[j]]
  /\ raced' = (raced \/ rec[i].stale)
  /\ UNCHANGED <<typeVars, forms, shifted>>

(* A call throws; a form record that was written stays behind.              *)
RegisterFails(i) ==
  /\ InFlight(i)
  /\ Set(i, [rec[i] EXCEPT !.pc = "refused"])
  /\ \E written \in {{}, {i}} :
       /\ written # {} => rec[i].pc = "form"
       /\ forms' = forms \cup written
  /\ UNCHANGED <<typeVars, raced, shifted>>

(* cancelRecord: one UPDATE that matches only a record not yet cancelled.   *)
Cancel(i) ==
  /\ rec[i].pc = "live"
  /\ Set(i, [rec[i] EXCEPT !.pc = "cancelled"])
  /\ UNCHANGED <<typeVars, forms, raced, shifted>>

(* A new default outdates what the registrations under way have read.       *)
TypesStep ==
  /\ Types!Next
  /\ IF default' = default THEN UNCHANGED <<rec, shifted>>
     ELSE /\ rec' = [j \in Recs |-> IF InFlight(j) THEN Outdated(j) ELSE rec[j]]
          /\ shifted' = TRUE
  /\ UNCHANGED <<forms, raced>>

Register(i) ==
  \/ RegisterType(i) \/ RegisterDefault(i) \/ RegisterCheck(i)
  \/ RegisterForm(i) \/ RegisterInsert(i) \/ RegisterFails(i)

Next == TypesStep \/ \E i \in Recs : Register(i) \/ Cancel(i)
Spec == Init /\ [][Next]_vars

-----------------------------------------------------------------------------
RecRecord ==
  [pc : {"idle", "typed", "check", "form", "insert"} \cup Ended, key : Keys \cup {Nil},
   from : Instants, to : Instants \cup {Forever}, exempt : Keys \cup {Nil},
   form : BOOLEAN, stale : BOOLEAN]

TypeOK ==
  /\ status \in [Keys -> {"none", "active", "archived"}] /\ default \in Keys
  /\ rec \in [Recs -> RecRecord] /\ forms \subseteq Recs
  /\ raced \in BOOLEAN /\ shifted \in BOOLEAN
  /\ \A i \in Recs :
       /\ rec[i].pc # "idle" => rec[i].key \in Keys
       /\ rec[i].pc \in {"check", "form", "insert", "live"} => rec[i].exempt \in Keys

(***************************************************************************)
(* Properties                                                              *)
(***************************************************************************)
AtMostOne(S) == \A i, j \in S : i = j

(* The check before the INSERT is right: an employee has at most one state  *)
(* at any instant, unless a check was outdated or the default changed.      *)
OneStateUndisturbed ==
  ~raced /\ ~shifted => \A t \in Instants : AtMostOne(ActiveAt(t))

(* A record that says it has a form has one, whatever fails in between.     *)
FormBehindRecord == \A i \in Live : rec[i].form => i \in forms

(* Registrations one after the other leave at most one active record of an  *)
(* employee at any instant (m9-3a-board-realtime-backend.md, 2.3).          *)
OneActiveRecord == ~raced => \A t \in Instants : AtMostOne(ActiveAt(t))
=============================================================================
