------------------------------- MODULE Forms --------------------------------
(***************************************************************************)
(* The forms module: one definition with a revision per slot, and records  *)
(* that hold values for the fields of a definition (FormsService and the   *)
(* PostgreSQL repository under it), together with the files the values     *)
(* name.                                                                   *)
(*                                                                         *)
(* A request for a definition is one unit of work.  A save reads the row   *)
(* of the definition, then its fields, then (an upsert) the record of the  *)
(* subject, validates, and only then opens the unit of work that finds or  *)
(* inserts the record, attaches the files and writes the values.  Its      *)
(* effects show at COMMIT; the audit and the event follow.                 *)
(*                                                                         *)
(* The files are those of FileLifecycle: the promise of the files module,  *)
(* plus the row locks its uncommitted claims hold.                         *)
(*                                                                         *)
(* One enterprise is modelled.  Values are the set of keys they are given  *)
(* for and the files they name; data scopes, permissions and the checks of *)
(* single values are a refusal that may happen, and a refused request      *)
(* leaves no trace but its audit.                                          *)
(***************************************************************************)
EXTENDS Naturals, FiniteSets

CONSTANTS
  Slots,        \* slots with a form
  Singletons,   \* the slots with one record per subject
  Subjects,     \* employees records are about
  Keys,         \* keys of fields
  FileKeys,     \* the keys of fields that hold files
  Schemas,      \* the field lists definitions may get
  Ids,          \* ids of records
  Files,        \* uploaded files
  Reqs,         \* request slots: how many requests are under way at once
  Revisions,    \* bound: Revisions[s] is the last revision of the definition of s
  Nil           \* "none"

Schema == [all : SUBSET Keys, must : SUBSET Keys]

ASSUME SlotAssumption   == Singletons \subseteq Slots
ASSUME SchemaAssumption == FileKeys \subseteq Keys /\ Schemas \subseteq Schema
ASSUME RevisionAssumption == Revisions \in [Slots -> Nat]
ASSUME NilAssumption    == Nil \notin Ids \cup Reqs \cup Slots \cup Subjects

NoSchema == [all |-> {}, must |-> {}]
NoValues == [keys |-> {}, files |-> {}]

VARIABLES
  rev,       \* rev[s]: revision of the definition of s, 0 without a row
  fields,    \* fields[s]: its fields
  row,       \* row[i]: the committed record i with its values, or NoRow
  defLock,   \* defLock[s]: the request that holds the row of the definition
  rowLock,   \* rowLock[i]: the request that holds the row of record i
  req,       \* req[q]: the request in slot q
  status, ref, content,  \* the files, see FileLifecycle
  history,   \* history: the revisions, with the fields and the revision the editor saw
  created,   \* history: records whose save went on to report a creation
  unheard    \* history: records a save took for new and failed to report after its COMMIT

fileVars == <<status, ref, content>>
vars == <<rev, fields, row, defLock, rowLock, req, fileVars, history, created, unheard>>

Life == INSTANCE FileLifecycle WITH Refs <- Ids

NoRow == [slot |-> Nil, subj |-> Nil, rev |-> 0, vals |-> NoValues]
NoRequest == [pc |-> "idle", slot |-> Nil, subj |-> Nil, rev |-> 0, fields |-> NoSchema,
              first |-> FALSE, id |-> Nil, vals |-> NoValues, left |-> {}, held |-> {}]

Init ==
  /\ rev = [s \in Slots |-> 0] /\ fields = [s \in Slots |-> NoSchema]
  /\ row = [i \in Ids |-> NoRow]
  /\ defLock = [s \in Slots |-> Nil] /\ rowLock = [i \in Ids |-> Nil]
  /\ req = [q \in Reqs |-> NoRequest]
  /\ Life!Init
  /\ history = {} /\ created = {} /\ unheard = {}

Rows == {i \in Ids : row[i] # NoRow}
RowsOf(s, e) == {i \in Rows : row[i].slot = s /\ row[i].subj = e}

Set(q, r) == req' = [req EXCEPT ![q] = r]
To(q, pc) == Set(q, [req[q] EXCEPT !.pc = pc])

(* COMMIT and ROLLBACK release the rows.                                    *)
Release(q) ==
  /\ defLock' = [s \in Slots |-> IF defLock[s] = q THEN Nil ELSE defLock[s]]
  /\ rowLock' = [i \in Ids |-> IF rowLock[i] = q THEN Nil ELSE rowLock[i]]
ReleaseNothing(q) == UNCHANGED <<defLock, rowLock>>  \* variant: no ROLLBACK
Abandon(q) == Release(q)
Rollback(q) ==
  /\ Set(q, NoRequest) /\ Abandon(q)
  /\ UNCHANGED <<rev, fields, row, fileVars, history, created, unheard>>

(* What a step inside a request leaves alone.                               *)
Frame == UNCHANGED <<rev, fields, row, fileVars, history, created, unheard>>

-----------------------------------------------------------------------------
(***************************************************************************)
(* updateDefinition, replaceDefinitionFields.  The editor's revision is 0  *)
(* when no definition was shown.  Bound: Revisions.                        *)
(***************************************************************************)
EditBegin(q) ==
  /\ req[q].pc = "idle"
  /\ \E s \in Slots : \E seen \in 0..(Revisions[s] - 1) :
       Set(q, [NoRequest EXCEPT !.pc = "edit", !.slot = s, !.rev = seen])
  /\ Frame /\ UNCHANGED <<defLock, rowLock>>

EditRead(q) ==
  /\ req[q].pc = "edit"
  /\ \/ /\ rev[req[q].slot] # 0 /\ To(q, "replace")
        /\ Frame /\ UNCHANGED <<defLock, rowLock>>
     \/ /\ rev[req[q].slot] = 0 /\ req[q].rev = 0 /\ To(q, "define")
        /\ Frame /\ UNCHANGED <<defLock, rowLock>>
     \/ rev[req[q].slot] = 0 /\ req[q].rev # 0 /\ Rollback(q)    \* conflict

(* UNIQUE (enterprise_id, slot_key): the INSERT waits for another one that  *)
(* is not committed, and fails when a row exists.                           *)
Defining(p) == req[p].pc = "defined"
DefineWaits(q, p) == p # q /\ Defining(p) /\ req[p].slot = req[q].slot
EditDefine(q) ==
  /\ req[q].pc = "define" /\ ~\E p \in Reqs : DefineWaits(q, p)
  /\ \/ /\ rev[req[q].slot] = 0 /\ To(q, "defined")
        /\ Frame /\ UNCHANGED <<defLock, rowLock>>
     \/ rev[req[q].slot] # 0 /\ Rollback(q)

(* UPDATE ... WHERE revision = $3; after a wait the row is looked at again. *)
RevisionMatchesAny(q) == TRUE           \* variant: no condition on the revision
RevisionMatches(q) == rev[req[q].slot] = req[q].rev

EditReplace(q) ==
  /\ req[q].pc = "replace"
  /\ \/ /\ RevisionMatches(q) /\ defLock[req[q].slot] = Nil
        /\ defLock' = [defLock EXCEPT ![req[q].slot] = q]
        /\ To(q, "replaced") /\ Frame /\ UNCHANGED rowLock
     \/ ~RevisionMatches(q) /\ Rollback(q)                       \* conflict

(* DELETE and INSERT of the fields and the COMMIT.                          *)
EditCommit(q) ==
  LET s == req[q].slot
      r == rev[s] + 1 IN
  /\ req[q].pc \in {"defined", "replaced"}
  /\ \E sch \in Schemas :
       /\ fields' = [fields EXCEPT ![s] = sch]
       /\ history' = history \cup
                      {[slot |-> s, rev |-> r, fields |-> sch, seen |-> req[q].rev]}
  /\ rev' = [rev EXCEPT ![s] = r]
  /\ Set(q, NoRequest) /\ Release(q)
  /\ UNCHANGED <<row, fileVars, created, unheard>>

-----------------------------------------------------------------------------
(***************************************************************************)
(* createRecord and upsertRecordBySubject up to saveRecord.  Only an       *)
(* upsert, which serves the singleton slots, looks for the record.         *)
(***************************************************************************)
SaveBegin(q) ==
  /\ req[q].pc = "idle"
  /\ \E s \in Slots, e \in Subjects :
       Set(q, [NoRequest EXCEPT !.pc = "definition", !.slot = s, !.subj = e])
  /\ Frame /\ UNCHANGED <<defLock, rowLock>>

(* findDefinitionWithFields: the row, then the fields, each on its own.     *)
SaveDefinition(q) ==
  /\ req[q].pc = "definition"
  /\ \/ /\ rev[req[q].slot] # 0
        /\ Set(q, [req[q] EXCEPT !.pc = "fields", !.rev = rev[req[q].slot]])
        /\ Frame /\ UNCHANGED <<defLock, rowLock>>
     \/ rev[req[q].slot] = 0 /\ Rollback(q)                      \* not found

(* validateRecordValues; the values come with the request.                  *)
Values == [keys : SUBSET Keys, files : SUBSET Files]
Fits(v, sch) ==
  /\ sch.must \subseteq v.keys /\ v.keys \subseteq sch.all
  /\ v.files # {} => v.keys \cap FileKeys # {}

Validate(q, sch, first) ==
  \/ /\ \E v \in Values :
          /\ Fits(v, sch)
          /\ Set(q, [req[q] EXCEPT !.pc = "find", !.fields = NoSchema, !.first = first,
                                   !.vals = v, !.left = v.files])
     /\ Frame /\ UNCHANGED <<defLock, rowLock>>
  \/ Rollback(q)                                                \* conflict, bad values

SaveFields(q) ==
  /\ req[q].pc = "fields"
  /\ LET sch == fields[req[q].slot] IN
     \/ /\ req[q].slot \in Singletons
        /\ Set(q, [req[q] EXCEPT !.pc = "look", !.fields = sch])
        /\ Frame /\ UNCHANGED <<defLock, rowLock>>
     \/ req[q].slot \notin Singletons /\ Validate(q, sch, TRUE)

(* findRecordBySubject decides what is audited and published in the end.    *)
FirstOfAll(q) == Rows = {}              \* variant: a record of any slot counts
IsFirst(q) == RowsOf(req[q].slot, req[q].subj) = {}
SaveLook(q) == req[q].pc = "look" /\ Validate(q, req[q].fields, IsFirst(q))

-----------------------------------------------------------------------------
(***************************************************************************)
(* saveRecord: reserveRecord, attachFiles, replaceRecordValues, COMMIT.    *)
(***************************************************************************)
(* An uncommitted INSERT for the same subject of a singleton slot.          *)
Inserted(p) == req[p].pc = "files" /\ req[p].id \notin Rows
SameKey(q, p) == req[q].slot = req[p].slot /\ req[q].subj = req[p].subj
InsertWaits(q, p) == p # q /\ Inserted(p) /\ SameKey(q, p) /\ req[q].slot \in Singletons

Reserve(q, i) == Set(q, [req[q] EXCEPT !.pc = "files", !.id = i])

(* findExistingSingletonRecord, FOR UPDATE, and the UPDATE of the record;   *)
(* "again" is the look-up after a unique violation, when the row is there,  *)
(* since rows are never deleted.                                            *)
SaveFind(q) ==
  /\ req[q].pc \in {"find", "again"}
  /\ \/ /\ req[q].slot \in Singletons
        /\ \E i \in RowsOf(req[q].slot, req[q].subj) :
             /\ rowLock[i] = Nil
             /\ rowLock' = [rowLock EXCEPT ![i] = q]
             /\ Reserve(q, i)
     \/ /\ req[q].pc = "find"
        /\ req[q].slot \in Singletons => RowsOf(req[q].slot, req[q].subj) = {}
        /\ To(q, "insert") /\ UNCHANGED rowLock
  /\ Frame /\ UNCHANGED defLock

(* insertSingletonRecordOrUseExisting, insertRecord, with an id of its own. *)
FreshIds == Ids \ (Rows \cup {req[p].id : p \in Reqs})
IndexFreeUnchecked(q) == TRUE           \* variant: no unique index
IndexFree(q) == req[q].slot \in Singletons => RowsOf(req[q].slot, req[q].subj) = {}

SaveInsert(q) ==
  /\ req[q].pc = "insert" /\ ~\E p \in Reqs : InsertWaits(q, p)
  /\ \/ IndexFree(q) /\ \E i \in FreshIds : Reserve(q, i)
     \/ ~IndexFree(q) /\ To(q, "again")                         \* savepoint
  /\ Frame /\ UNCHANGED <<defLock, rowLock>>

(* attachFiles for one file: see FileStore for its steps.                   *)
Held == UNION {req[p].held : p \in Reqs}
AlreadyBound(q, f) == status[f] = "attached" \* variant: to any reference
BoundHere(q, f) == status[f] = "attached" /\ ref[f] = req[q].id
Passed(q, f)  == [req[q] EXCEPT !.left = req[q].left \ {f}]
Claimed(q, f) == [req[q] EXCEPT !.left = req[q].left \ {f}, !.held = req[q].held \cup {f}]

SaveAttach(q) ==
  \E f \in req[q].left :
    /\ req[q].pc = "files"
    /\ \/ /\ status[f] = "staged" /\ f \notin Held
          /\ Set(q, Claimed(q, f)) /\ Frame /\ UNCHANGED <<defLock, rowLock>>
       \/ /\ BoundHere(q, f)                                     \* idempotent
          /\ Set(q, Passed(q, f)) /\ Frame /\ UNCHANGED <<defLock, rowLock>>
       \/ status[f] # "staged" /\ ~BoundHere(q, f) /\ Rollback(q)

(* The record names the revision of the row that was read.                  *)
NewestRevision(q) == rev[req[q].slot]   \* variant: the revision at the end
RecordRevision(q) == req[q].rev

(* COMMIT.  Its reply may be lost, or the process stop: saveRecord throws,  *)
(* the save is audited as a failure, if at all, and the record stays.       *)
Unheard(q) == IF req[q].first THEN unheard \cup {req[q].id} ELSE unheard
SaveCommit(q) ==
  LET i == req[q].id IN
  /\ req[q].pc = "files" /\ req[q].left = {}
  /\ row' = [row EXCEPT ![i] = [slot |-> req[q].slot, subj |-> req[q].subj,
                                rev |-> RecordRevision(q), vals |-> req[q].vals]]
  /\ Life!Bind(req[q].held, i)
  /\ \/ /\ Set(q, [NoRequest EXCEPT !.pc = "tell", !.first = req[q].first, !.id = i])
        /\ UNCHANGED unheard
     \/ Set(q, NoRequest) /\ unheard' = Unheard(q)
  /\ Release(q)
  /\ UNCHANGED <<rev, fields, history, created>>

(* The audit, as a creation if the look-up has found no record, and then    *)
(* the event, both outside the unit of work: the audit may throw, or the    *)
(* process stop, and then the record stays and nobody hears of it.          *)
SaveTell(q) ==
  /\ req[q].pc = "tell" /\ Set(q, NoRequest)
  /\ \/ /\ created' = IF req[q].first THEN created \cup {req[q].id} ELSE created
        /\ UNCHANGED unheard
     \/ unheard' = Unheard(q) /\ UNCHANGED created
  /\ UNCHANGED <<rev, fields, row, defLock, rowLock, fileVars, history>>

-----------------------------------------------------------------------------
(* The request is refused, or fails before its COMMIT: a lost connection, or *)
(* the victim PostgreSQL chooses when units of work wait in a cycle for the  *)
(* files of one another.                                                    *)
Fails(q) == req[q].pc \notin {"idle", "tell"} /\ Rollback(q)

(* Uploads, and cleanup cycles up to the claim, after which no request can  *)
(* have the file; SKIP LOCKED passes the rows units of work hold over.      *)
FileStep ==
  /\ \E f \in Files : \/ Life!Stage(f) /\ content' = content \cup {f}
                      \/ status[f] = "staged" /\ f \notin Held /\ Life!Claim({f})
  /\ UNCHANGED <<rev, fields, row, defLock, rowLock, req, history, created, unheard>>

Edit(q) == EditRead(q) \/ EditDefine(q) \/ EditReplace(q) \/ EditCommit(q)
Save(q) ==
  \/ SaveDefinition(q) \/ SaveFields(q) \/ SaveLook(q)
  \/ SaveFind(q) \/ SaveInsert(q) \/ SaveAttach(q) \/ SaveCommit(q) \/ SaveTell(q)

Next ==
  \/ FileStep
  \/ \E q \in Reqs : EditBegin(q) \/ Edit(q) \/ SaveBegin(q) \/ Save(q) \/ Fails(q)
Spec == Init /\ [][Next]_vars

-----------------------------------------------------------------------------
ReqPc ==
  {"idle", "edit", "define", "defined", "replace", "replaced", "definition", "fields",
   "look", "find", "insert", "again", "files", "tell"}
ReqRecord ==
  [pc : ReqPc, slot : Slots \cup {Nil}, subj : Subjects \cup {Nil}, rev : Nat,
   fields : Schemas \cup {NoSchema}, first : BOOLEAN, id : Ids \cup {Nil}, vals : Values,
   left : SUBSET Files, held : SUBSET Files]
RowRecord ==
  [slot : Slots \cup {Nil}, subj : Subjects \cup {Nil}, rev : Nat, vals : Values]
Edition ==
  [slot : Slots, rev : Nat, fields : Schemas, seen : Nat]
FileStatus == {"none", "staged", "attached", "deleting", "deleted"}

TypeOK ==
  /\ rev \in [Slots -> Nat] /\ fields \in [Slots -> Schemas \cup {NoSchema}]
  /\ row \in [Ids -> RowRecord]
  /\ defLock \in [Slots -> Reqs \cup {Nil}] /\ rowLock \in [Ids -> Reqs \cup {Nil}]
  /\ req \in [Reqs -> ReqRecord]
  /\ status \in [Files -> FileStatus] /\ ref \in [Files -> Ids \cup {Nil}]
  /\ content \subseteq Files
  /\ history \subseteq Edition /\ created \subseteq Ids /\ unheard \subseteq Ids
  /\ \A q \in Reqs : req[q].pc \in {"files", "tell"} => req[q].id \in Ids
  /\ \A s \in Slots : defLock[s] # Nil => req[defLock[s]].pc = "replaced"
  /\ \A i \in Ids : rowLock[i] # Nil => req[rowLock[i]].pc = "files"

(***************************************************************************)
(* Properties                                                              *)
(***************************************************************************)

(* A subject has one record in a singleton slot, also when the first saves  *)
(* meet and one of them falls back from its INSERT to an update.            *)
OneRecord ==
  \A s \in Singletons, e \in Subjects : \A i, j \in RowsOf(s, e) : i = j

(* The values of a record name only files that are bound to this record, so *)
(* openFile finds them, whatever saves and cleanup cycles are under way.    *)
FilesBehindValues ==
  \A i \in Rows : \A f \in row[i].vals.files : status[f] = "attached" /\ ref[f] = i

(* No edit of a definition is lost: each revision was made by an editor who *)
(* had seen the one before.                                                 *)
NoLostEdit == \A h \in history : h.seen = h.rev - 1

(* The values of a record fit the fields of one published revision, the one *)
(* the record names or one that was published while the save was reading.   *)
FitsPublished ==
  \A i \in Rows : \E h \in history :
    /\ h.slot = row[i].slot /\ h.rev >= row[i].rev
    /\ Fits(row[i].vals, h.fields)

(* The creation of a record is never left to somebody else: when two first  *)
(* saves meet, one of those that committed takes the record for new, and if *)
(* nobody reports it, then because such a save failed after its COMMIT.     *)
CreationClaimed ==
  \A i \in Rows : \/ i \in created \cup unheard
                  \/ \E q \in Reqs : req[q].pc = "tell" /\ req[q].first /\ req[q].id = i
=============================================================================
