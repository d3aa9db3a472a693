----------------------------- MODULE StatusTypes ----------------------------
(***************************************************************************)
(* The dictionary of presence states of one enterprise: the table          *)
(* presence.status_types, PresenceStatusTypeService and the repository     *)
(* under it.  Making a type the default is a transaction of two UPDATEs    *)
(* (clear, then set) over a partial unique index; the other operations are *)
(* a read, a check and one UPDATE that repeats a part of the check.        *)
(*                                                                         *)
(* An UPDATE picks its rows in a snapshot, waits for the lock of each row, *)
(* and looks at the committed row again once it has the lock.  The lock    *)
(* stays with the transaction, also when the row no longer matches.        *)
(*                                                                         *)
(* Labels and sort order are left out.  A refused request leaves no trace. *)
(***************************************************************************)
EXTENDS Naturals, FiniteSets

CONSTANTS
  Keys,     \* keys, hence ids, of status types
  Presets,  \* the types ensurePresetStatusTypes inserts
  Working,  \* the preset that is inserted as the default
  Reqs,     \* request slots
  Nil       \* "no key", "no request"

ASSUME PresetAssumption == Presets \subseteq Keys /\ Working \in Presets
ASSUME NilAssumption == Nil \notin Keys \cup Reqs

VARIABLES
  status,     \* status[k]: committed status, "none" without a row
  isDefault,  \* the keys whose committed row has is_default
  rowLock,    \* rowLock[k]: the setDefault transaction that holds the row
  req         \* req[r]: the request in slot r

vars == <<status, isDefault, rowLock, req>>

NoRequest == [pc |-> "idle", key |-> Nil, left |-> {}, cleared |-> {}]

(* Every operation begins with ensurePresetStatusTypes, whose INSERT leaves *)
(* existing rows alone; the model starts when the first one has run.        *)
Init ==
  /\ status = [k \in Keys |-> IF k \in Presets THEN "active" ELSE "none"]
  /\ isDefault = {Working}
  /\ rowLock = [k \in Keys |-> Nil] /\ req = [r \in Reqs |-> NoRequest]

Active(k) == status[k] = "active"

Ask(r, pc, k) ==
  /\ req[r].pc = "idle"
  /\ req' = [req EXCEPT ![r] = [pc |-> pc, key |-> k, left |-> {}, cleared |-> {}]]
  /\ UNCHANGED <<status, isDefault, rowLock>>

EndLocked(r) ==                         \* variant: the client keeps its transaction
  req' = [req EXCEPT ![r] = NoRequest] /\ UNCHANGED rowLock
End(r) ==
  /\ req' = [req EXCEPT ![r] = NoRequest]
  /\ rowLock' = [k \in Keys |-> IF rowLock[k] = r THEN Nil ELSE rowLock[k]]
RollbackMissing(r) ==                   \* variant: the error path sends no ROLLBACK
  EndLocked(r) /\ UNCHANGED <<status, isDefault>>
Rollback(r) == End(r) /\ UNCHANGED <<status, isDefault>>

CanLock(r, k) == rowLock[k] \in {Nil, r}

-----------------------------------------------------------------------------
(***************************************************************************)
(* setDefault: read the type, BEGIN, clear, set, COMMIT.                   *)
(***************************************************************************)
DefaultBegin(r) == \E k \in Keys : Active(k) /\ Ask(r, "begin", k)

(* The first UPDATE: its snapshot, then row after row.                      *)
ClearStart(r) ==
  /\ req[r].pc = "begin"
  /\ req' = [req EXCEPT ![r] = [req[r] EXCEPT !.pc = "clear", !.left = isDefault]]
  /\ UNCHANGED <<status, isDefault, rowLock>>

Cleared(q, k) == [q EXCEPT !.left = q.left \ {k}, !.cleared = q.cleared \cup {k}]
Skipped(q, k) == [q EXCEPT !.left = q.left \ {k}]

ClearRow(r) ==
  \E k \in req[r].left :
    /\ req[r].pc = "clear" /\ CanLock(r, k)
    /\ rowLock' = [rowLock EXCEPT ![k] = r]
    /\ \/ k \in isDefault /\ req' = [req EXCEPT ![r] = Cleared(req[r], k)]
       \/ k \notin isDefault /\ req' = [req EXCEPT ![r] = Skipped(req[r], k)]
    /\ UNCHANGED <<status, isDefault>>

(* The second UPDATE has the condition status = 'active'.                   *)
SetMatchesAny(k) == TRUE                \* variant: trusts the read of the service
SetMatches(k) == Active(k)

SetRow(r) ==
  LET k == req[r].key IN
  /\ req[r].pc = "clear" /\ req[r].left = {}
  /\ \/ /\ SetMatches(k) /\ CanLock(r, k)
        /\ rowLock' = [rowLock EXCEPT ![k] = r]
        /\ req' = [req EXCEPT ![r] = [req[r] EXCEPT !.pc = "set"]]
        /\ UNCHANGED <<status, isDefault>>
     \/ ~SetMatches(k) /\ Rollback(r)                            \* no row: not found

(* The partial unique index: one row of the enterprise with is_default and  *)
(* status 'active'.  An entry that another transaction adds or removes      *)
(* makes the check wait for the end of that transaction.                    *)
Entries(r) == {k \in isDefault \ req[r].cleared : Active(k) /\ k # req[r].key}
IndexWaits(r, q) ==
  /\ q # r
  /\ \/ Entries(r) \cap req[q].cleared # {}
     \/ req[q].pc = "indexed" /\ req[q].key # req[r].key

IndexFreeUnchecked(r) == TRUE           \* variant: no partial unique index
IndexFree(r) == Entries(r) = {}

SetIndex(r) ==
  /\ req[r].pc = "set" /\ \A q \in Reqs : ~IndexWaits(r, q)
  /\ \/ /\ IndexFree(r)
        /\ req' = [req EXCEPT ![r] = [req[r] EXCEPT !.pc = "indexed"]]
        /\ UNCHANGED <<status, isDefault, rowLock>>
     \/ ~IndexFree(r) /\ Rollback(r)                             \* conflict

DefaultCommit(r) ==
  /\ req[r].pc = "indexed"
  /\ isDefault' = (isDefault \ req[r].cleared) \cup {req[r].key}
  /\ End(r) /\ UNCHANGED status

-----------------------------------------------------------------------------
(***************************************************************************)
(* archive, restore and create: the read of the service, then one          *)
(* statement that commits by itself.                                       *)
(***************************************************************************)
ArchiveBegin(r) ==
  \E k \in Keys : Active(k) /\ k \notin isDefault /\ Ask(r, "archive", k)

(* setStatusTypeStatus repeats that the row is not the default.             *)
ArchiveMatchesAny(k) == TRUE            \* variant: trusts the read of the service
ArchiveMatches(k) == k \notin isDefault

ArchiveUpdate(r) ==
  LET k == req[r].key IN
  /\ req[r].pc = "archive"
  /\ \/ /\ ArchiveMatches(k) /\ rowLock[k] = Nil
        /\ status' = [status EXCEPT ![k] = "archived"]
        /\ UNCHANGED isDefault /\ End(r)
     \/ ~ArchiveMatches(k) /\ Rollback(r)                        \* conflict

RestoreBegin(r) == \E k \in Keys : status[k] = "archived" /\ Ask(r, "restore", k)

RestoreUpdate(r) ==
  LET k == req[r].key IN
  /\ req[r].pc = "restore" /\ rowLock[k] = Nil
  /\ status' = [status EXCEPT ![k] = "active"]
  /\ UNCHANGED isDefault /\ End(r)

CreateBegin(r) == \E k \in Keys : status[k] = "none" /\ Ask(r, "create", k)

(* UNIQUE (enterprise_id, key) refuses the second of two equal keys.        *)
CreateInsert(r) ==
  LET k == req[r].key IN
  /\ req[r].pc = "create"
  /\ \/ /\ status[k] = "none"
        /\ status' = [status EXCEPT ![k] = "active"]
        /\ UNCHANGED isDefault /\ End(r)
     \/ status[k] # "none" /\ Rollback(r)

-----------------------------------------------------------------------------
WaitsForRow(r, k) == k \notin {j \in Keys : CanLock(r, j)}
WaitsFor(r, q) ==
  \/ \E k \in req[r].left : WaitsForRow(r, k) /\ rowLock[k] = q
  \/ /\ req[r].pc = "clear" /\ req[r].left = {} /\ Active(req[r].key)
     /\ WaitsForRow(r, req[r].key) /\ rowLock[req[r].key] = q
  \/ req[r].pc = "set" /\ IndexWaits(r, q)

(* PostgreSQL aborts a transaction that waits in a cycle.                   *)
Deadlocked(r) ==
  \E S \in SUBSET Reqs :
    /\ r \in S
    /\ \A s \in S : (\E q \in S : WaitsFor(s, q)) /\ (\E q \in S : WaitsFor(q, s))
DeadlockVictim(r) == Deadlocked(r) /\ Rollback(r)

(* A statement fails or the process dies.                                   *)
Fails(r) == req[r].pc # "idle" /\ Rollback(r)

Begin(r) == DefaultBegin(r) \/ ArchiveBegin(r) \/ RestoreBegin(r) \/ CreateBegin(r)
Step(r) ==
  \/ ClearStart(r) \/ ClearRow(r) \/ SetRow(r) \/ SetIndex(r) \/ DefaultCommit(r)
  \/ ArchiveUpdate(r) \/ RestoreUpdate(r) \/ CreateInsert(r) \/ DeadlockVictim(r)

Next == \E r \in Reqs : Begin(r) \/ Step(r) \/ Fails(r)
Spec == Init /\ [][Next]_vars

(* Requests are scheduled, and the queue of a row lock is served in turn.   *)
FairSpec == Spec /\ \A r \in Reqs : SF_vars(Step(r))

-----------------------------------------------------------------------------
ReqRecord ==
  [pc : {"idle", "begin", "clear", "set", "indexed", "archive", "restore", "create"},
   key : Keys \cup {Nil}, left : SUBSET Keys, cleared : SUBSET Keys]

TypeOK ==
  /\ status \in [Keys -> {"none", "active", "archived"}]
  /\ isDefault \subseteq Keys
  /\ rowLock \in [Keys -> Reqs \cup {Nil}]
  /\ req \in [Reqs -> ReqRecord]
  /\ \A r \in Reqs : req[r].pc # "idle" => req[r].key \in Keys
  /\ \A k \in Keys : rowLock[k] # Nil => req[rowLock[k]].pc \in {"clear", "set", "indexed"}

(***************************************************************************)
(* Properties                                                              *)
(***************************************************************************)

(* One type is the default and it is in use, whichever set-default requests *)
(* commit and however archiving interleaves (m9-presence-v2.md, section 6). *)
OneDefault == \E k \in Keys : isDefault = {k} /\ Active(k)

(* To whoever reads committed rows every request is one atomic step of the  *)
(* dictionary, its conditions true at the moment it takes effect.           *)
Dict == INSTANCE StatusDictionary WITH
          default <- CHOOSE d \in Keys : d \in isDefault
Dictionary == Dict!Spec

(* Every request ends: two that set the default wait for one another only   *)
(* until one is aborted.                                                    *)
RequestsEnd == \A r \in Reqs : req[r].pc # "idle" ~> req[r].pc = "idle"
=============================================================================
