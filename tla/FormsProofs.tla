----------------------------- MODULE FormsProofs ------------------------------
(***************************************************************************)
(* Proofs about Forms for every set of slots, subjects, fields, files,     *)
(* records and requests.                                                   *)
(***************************************************************************)
EXTENDS Forms, TLAPS

USE SlotAssumption, SchemaAssumption, RevisionAssumption, NilAssumption

-----------------------------------------------------------------------------
(***************************************************************************)
(* What holds of a request, by the step it has come to.                    *)
(***************************************************************************)
Chosen  == {"find", "insert", "again", "files"}  \* its values are validated
Reading == {"fields", "look"} \cup Chosen        \* it has read a definition
Editing == {"edit", "define", "defined", "replace", "replaced"}

WellFormed(x) ==
  /\ x \in ReqRecord
  /\ x.pc \in Editing \cup Reading \cup {"definition"} => x.slot \in Slots
  /\ x.pc \in Reading \cup {"definition"} => x.subj \in Subjects
  /\ x.pc \in {"files", "tell"} => x.id \in Ids
  /\ x.pc # "files" => x.held = {}
  /\ x.pc = "look" => x.slot \in Singletons
  /\ x.pc \in {"find", "insert", "again"} => x.left = x.vals.files

\* The fields a save has read, or its values, are those of a revision no older than the one it names.
Backed(x) ==
  \E h \in history : /\ h.slot = x.slot /\ h.rev >= x.rev
                     /\ x.pc = "look" => h.fields = x.fields
                     /\ x.pc \in Chosen => Fits(x.vals, h.fields)

OfDefinition(q, x) ==
  /\ x.pc \in {"define", "defined"} => x.rev = 0
  /\ x.pc = "defined" => rev[x.slot] = 0
  /\ x.pc \in {"replace", "replaced"} => rev[x.slot] # 0
  /\ x.pc = "replaced" => defLock[x.slot] = q /\ rev[x.slot] = x.rev
  /\ x.pc \in Reading => rev[x.slot] # 0 /\ x.rev <= rev[x.slot]
  /\ x.pc \in Chosen \cup {"look"} => Backed(x)

OfRecord(q, x) ==
  /\ x.pc = "files" /\ x.id \in Rows =>
       rowLock[x.id] = q /\ row[x.id].slot = x.slot /\ row[x.id].subj = x.subj
  /\ x.pc = "files" /\ x.id \notin Rows /\ x.slot \in Singletons => RowsOf(x.slot, x.subj) = {}
  /\ x.pc \in Chosen => x.first \/ (x.slot \in Singletons /\ RowsOf(x.slot, x.subj) # {})

OfFiles(x) ==
  /\ \A f \in x.held : status[f] = "staged"
  /\ x.pc = "files" =>
       \A f \in x.vals.files : f \in x.left \cup x.held \/ (status[f] = "attached" /\ ref[f] = x.id)

\* Two requests do not define one slot, insert one record, or hold one row or file.
Aside(x, y) ==
  /\ ~(x.pc = "defined" /\ y.pc = "defined" /\ x.slot = y.slot)
  /\ x.pc = "files" /\ y.pc = "files" =>
       /\ x.id # y.id
       /\ ~(x.id \notin Rows /\ y.id \notin Rows /\ x.slot \in Singletons
            /\ x.slot = y.slot /\ x.subj = y.subj)
  /\ x.held \cap y.held = {}

Tables ==
  /\ rev \in [Slots -> Nat] /\ fields \in [Slots -> Schemas \cup {NoSchema}]
  /\ row \in [Ids -> RowRecord]
  /\ defLock \in [Slots -> Reqs \cup {Nil}] /\ rowLock \in [Ids -> Reqs \cup {Nil}]
  /\ req \in [Reqs -> ReqRecord]
  /\ status \in [Files -> FileStatus] /\ ref \in [Files -> Ids \cup {Nil}]
  /\ content \subseteq Files
  /\ history \subseteq Edition /\ created \subseteq Ids /\ unheard \subseteq Ids

Locks ==
  /\ \A s \in Slots : defLock[s] # Nil => req[defLock[s]].pc = "replaced" /\ req[defLock[s]].slot = s
  /\ \A i \in Ids : rowLock[i] # Nil => req[rowLock[i]].pc = "files" /\ req[rowLock[i]].id = i

\* The newest revision is in the history.
Recorded ==
  \A s \in Slots : rev[s] # 0 =>
    \E h \in history : h.slot = s /\ h.rev = rev[s] /\ h.fields = fields[s]

Requests ==
  /\ \A q \in Reqs : /\ WellFormed(req[q]) /\ OfDefinition(q, req[q])
                     /\ OfRecord(q, req[q]) /\ OfFiles(req[q])
  /\ \A p, q \in Reqs : p # q => Aside(req[p], req[q])

FormsInv ==
  /\ Tables /\ Locks /\ Recorded /\ Requests
  /\ OneRecord /\ FilesBehindValues /\ NoLostEdit /\ FitsPublished /\ CreationClaimed

LEMMA InvTyped == FormsInv => TypeOK
<1> SUFFICES ASSUME FormsInv PROVE TypeOK
  OBVIOUS
<1>1. \A q \in Reqs : req[q].pc \in {"files", "tell"} => req[q].id \in Ids
  BY DEF FormsInv, Requests, WellFormed
<1> QED BY <1>1 DEF FormsInv, Tables, Locks, TypeOK

LEMMA NoRequestFacts ==
  /\ NoRequest.pc = "idle" /\ NoRequest.held = {}
  /\ WellFormed(NoRequest) /\ OfFiles(NoRequest)
  /\ \A q \in Reqs : OfDefinition(q, NoRequest) /\ OfRecord(q, NoRequest)
<1>1. NoValues \in Values /\ NoSchema \in Schemas \cup {NoSchema}
  BY DEF NoValues, Values
<1>2. NoRequest \in ReqRecord /\ NoRequest.pc = "idle" /\ NoRequest.held = {}
  BY <1>1 DEF NoRequest, ReqRecord, ReqPc
<1> QED BY <1>2 DEF WellFormed, OfFiles, OfDefinition, OfRecord, Editing, Reading, Chosen

LEMMA InitInv == Init => FormsInv
<1> SUFFICES ASSUME Init PROVE FormsInv
  OBVIOUS
<1>1. NoRow \in RowRecord /\ NoRequest \in ReqRecord
  <2>1. NoValues \in Values
    BY DEF NoValues, Values
  <2> QED BY <2>1, NoRequestFacts DEF NoRow, RowRecord, WellFormed
<1>2. Tables
  BY <1>1 DEF Init, Tables, Life!Init, FileStatus
<1>3. Locks /\ Recorded
  BY DEF Init, Locks, Recorded
<1>4. \A q \in Reqs : req[q] = NoRequest
  BY DEF Init
<1>5. Requests
  BY <1>4, NoRequestFacts DEF Requests, Aside
<1>6. Rows = {}
  BY DEF Init, Rows
<1>7. OneRecord /\ FilesBehindValues /\ FitsPublished /\ CreationClaimed
  BY <1>6 DEF OneRecord, RowsOf, FilesBehindValues, FitsPublished, CreationClaimed
<1>8. NoLostEdit
  BY DEF Init, NoLostEdit
<1> QED BY <1>2, <1>3, <1>5, <1>7, <1>8 DEF FormsInv

-----------------------------------------------------------------------------
(***************************************************************************)
(* A step that does no more than set one request to one that is as it      *)
(* should be keeps the invariant.                                          *)
(***************************************************************************)
Fine(q, x) ==
  /\ WellFormed(x) /\ OfDefinition(q, x) /\ OfRecord(q, x) /\ OfFiles(x)
  /\ \A p \in Reqs : p # q => Aside(req[p], x) /\ Aside(x, req[p])

Still == Frame /\ UNCHANGED <<defLock, rowLock>>

LEMMA SetFacts ==
  ASSUME FormsInv, NEW q \in Reqs, NEW x, WellFormed(x), Set(q, x)
  PROVE  /\ req' \in [Reqs -> ReqRecord] /\ req'[q] = x
         /\ \A p \in Reqs : p # q => req'[p] = req[p]
BY DEF Set, FormsInv, Tables, WellFormed

LEMMA QuietSet ==
  ASSUME FormsInv, NEW q \in Reqs, NEW x, Fine(q, x), Set(q, x), Still,
         \A s \in Slots : defLock[s] = q => x.pc = req[q].pc /\ x.slot = req[q].slot,
         \A i \in Ids : rowLock[i] = q => x.pc = req[q].pc /\ x.id = req[q].id,
         req[q].pc = "tell" => ~req[q].first
  PROVE  FormsInv'
<1>1. /\ req' \in [Reqs -> ReqRecord] /\ req'[q] = x
      /\ \A p \in Reqs : p # q => req'[p] = req[p]
  BY SetFacts DEF Fine
<1>2. /\ rev' = rev /\ fields' = fields /\ row' = row /\ defLock' = defLock /\ rowLock' = rowLock
      /\ status' = status /\ ref' = ref /\ content' = content
      /\ history' = history /\ created' = created /\ unheard' = unheard
  BY DEF Still, Frame, fileVars
<1>3. Tables'
  BY <1>1, <1>2 DEF FormsInv, Tables
<1>4. Locks'
  BY <1>1, <1>2 DEF FormsInv, Locks, Tables
<1>5. Rows' = Rows /\ \A s, e : RowsOf(s, e)' = RowsOf(s, e)
  BY <1>2 DEF Rows, RowsOf
<1>6. Requests'
  <2>1. ASSUME NEW p \in Reqs
        PROVE  (WellFormed(req[p]) /\ OfDefinition(p, req[p]) /\ OfRecord(p, req[p]) /\ OfFiles(req[p]))'
    <3>1. /\ WellFormed(req'[p])
          /\ OfDefinition(p, req'[p]) /\ OfRecord(p, req'[p]) /\ OfFiles(req'[p])
      BY <1>1 DEF Fine, FormsInv, Requests
    <3> QED BY <1>2, <3>1 DEF OfDefinition, OfRecord, OfFiles, Backed, Rows, RowsOf
  <2>2. ASSUME NEW p1 \in Reqs, NEW p2 \in Reqs, p1 # p2 PROVE Aside(req[p1], req[p2])'
    <3>1. Aside(req'[p1], req'[p2])
      BY <1>1, <2>2 DEF Fine, FormsInv, Requests
    <3> QED BY <1>5, <3>1 DEF Aside
  <2> QED BY <2>1, <2>2 DEF Requests
<1>7. /\ Recorded' /\ OneRecord' /\ FilesBehindValues' /\ NoLostEdit' /\ FitsPublished'
  BY <1>2, <1>5 DEF FormsInv, Recorded, OneRecord, FilesBehindValues, NoLostEdit, FitsPublished
<1>8. CreationClaimed'
  BY <1>1, <1>2, <1>5 DEF FormsInv, CreationClaimed
<1> QED BY <1>3, <1>4, <1>6, <1>7, <1>8 DEF FormsInv

(***************************************************************************)
(* A request that ends lets its rows go.                                   *)
(***************************************************************************)
LEMMA RollbackInv ==
  ASSUME FormsInv, NEW q \in Reqs, Rollback(q), req[q].pc # "tell" PROVE FormsInv'
<1>1. /\ req' \in [Reqs -> ReqRecord] /\ req'[q] = NoRequest
      /\ \A p \in Reqs : p # q => req'[p] = req[p]
  BY SetFacts, NoRequestFacts DEF Rollback
<1>2. /\ rev' = rev /\ fields' = fields /\ row' = row
      /\ status' = status /\ ref' = ref /\ content' = content
      /\ history' = history /\ created' = created /\ unheard' = unheard
      /\ defLock' = [s \in Slots |-> IF defLock[s] = q THEN Nil ELSE defLock[s]]
      /\ rowLock' = [i \in Ids |-> IF rowLock[i] = q THEN Nil ELSE rowLock[i]]
  BY DEF Rollback, Abandon, Release, fileVars
<1>3. Tables'
  BY <1>1, <1>2 DEF FormsInv, Tables
<1>4. Locks'
  BY <1>1, <1>2 DEF FormsInv, Locks, Tables
<1>5. Rows' = Rows /\ \A s, e : RowsOf(s, e)' = RowsOf(s, e)
  BY <1>2 DEF Rows, RowsOf
<1>6. Requests'
  <2>1. (WellFormed(req[q]) /\ OfDefinition(q, req[q]) /\ OfRecord(q, req[q]) /\ OfFiles(req[q]))'
    BY <1>1, NoRequestFacts DEF WellFormed, OfFiles, OfDefinition, OfRecord, Editing, Reading, Chosen
  <2>2. ASSUME NEW p \in Reqs, p # q
        PROVE  (WellFormed(req[p]) /\ OfDefinition(p, req[p]) /\ OfRecord(p, req[p]) /\ OfFiles(req[p]))'
    <3>0. req'[p] = req[p]
      BY <1>1, <2>2
    <3>1. WellFormed(req[p]) /\ OfDefinition(p, req[p]) /\ OfRecord(p, req[p]) /\ OfFiles(req[p])
      BY DEF FormsInv, Requests
    <3>2. WellFormed(req[p])' /\ OfFiles(req[p])'
      BY <1>2, <3>0, <3>1 DEF OfFiles
    <3>3. OfDefinition(p, req[p])'
      <4>1. req[p].pc = "replaced" => req[p].slot \in Slots
        BY <3>1 DEF WellFormed, Editing
      <4> QED BY <1>2, <2>2, <3>0, <3>1, <4>1 DEF OfDefinition, Backed
    <3>4. OfRecord(p, req[p])'
      BY <1>2, <1>5, <2>2, <3>0, <3>1 DEF OfRecord, Rows
    <3> QED BY <3>2, <3>3, <3>4
  <2>3. ASSUME NEW p1 \in Reqs, NEW p2 \in Reqs, p1 # p2 PROVE Aside(req[p1], req[p2])'
    <3>1. CASE p1 = q \/ p2 = q
      BY <1>1, <2>3, <3>1, NoRequestFacts DEF Aside
    <3>2. CASE p1 # q /\ p2 # q
      <4>1. Aside(req[p1], req[p2])
        BY <2>3 DEF FormsInv, Requests
      <4> QED BY <1>1, <1>5, <3>2, <4>1 DEF Aside
    <3> QED BY <3>1, <3>2
  <2> QED BY <2>1, <2>2, <2>3 DEF Requests
<1>7. /\ Recorded' /\ OneRecord' /\ FilesBehindValues' /\ NoLostEdit' /\ FitsPublished'
  BY <1>2, <1>5 DEF FormsInv, Recorded, OneRecord, FilesBehindValues, NoLostEdit, FitsPublished
<1>8. CreationClaimed'
  BY <1>1, <1>2, <1>5 DEF FormsInv, CreationClaimed
<1> QED BY <1>3, <1>4, <1>6, <1>7, <1>8 DEF FormsInv

-----------------------------------------------------------------------------
(* Requests that hold no row and no file are aside from all others.         *)
LEMMA AsideFree ==
  ASSUME NEW x, x.pc \notin {"defined", "files"}, x.held = {}
  PROVE  \A y : Aside(x, y) /\ Aside(y, x)
BY DEF Aside

LEMMA NoLocks ==
  ASSUME FormsInv, NEW q \in Reqs
  PROVE  /\ req[q].pc # "replaced" => \A s \in Slots : defLock[s] # q
         /\ req[q].pc # "files" => \A i \in Ids : rowLock[i] # q
BY DEF FormsInv, Locks

(* The same for a quiet step before any row is held.                        *)
LEMMA FreeSet ==
  ASSUME FormsInv, NEW q \in Reqs, NEW x, Set(q, x), Still,
         req[q].pc \notin {"replaced", "files", "tell"},
         WellFormed(x), OfDefinition(q, x), OfRecord(q, x), OfFiles(x),
         x.pc \notin {"defined", "files"}
  PROVE  FormsInv'
<1>1. Fine(q, x)
  BY AsideFree DEF Fine, WellFormed
<1> QED BY <1>1, NoLocks, QuietSet

LEMMA EditBeginInv == ASSUME FormsInv, NEW q \in Reqs, EditBegin(q) PROVE FormsInv'
<1>0. PICK s \in Slots : \E seen \in 0..(Revisions[s] - 1) :
        Set(q, [NoRequest EXCEPT !.pc = "edit", !.slot = s, !.rev = seen])
  BY DEF EditBegin
<1>1. PICK seen \in 0..(Revisions[s] - 1) :
        Set(q, [NoRequest EXCEPT !.pc = "edit", !.slot = s, !.rev = seen])
  BY <1>0
<1> DEFINE x == [NoRequest EXCEPT !.pc = "edit", !.slot = s, !.rev = seen]
<1>2. NoRequest \in ReqRecord /\ NoRequest.held = {} /\ seen \in Nat
  BY NoRequestFacts DEF WellFormed
<1>3. x \in ReqRecord /\ x.pc = "edit" /\ x.held = {} /\ x.slot = s
  BY <1>2 DEF ReqRecord, ReqPc
<1> HIDE DEF x
<1>4. WellFormed(x) /\ OfDefinition(q, x) /\ OfRecord(q, x) /\ OfFiles(x)
  BY <1>3 DEF WellFormed, OfDefinition, OfRecord, OfFiles, Editing, Reading, Chosen
<1> QED BY <1>1, <1>3, <1>4, FreeSet DEF EditBegin, Still, x

LEMMA SaveBeginInv == ASSUME FormsInv, NEW q \in Reqs, SaveBegin(q) PROVE FormsInv'
<1>1. PICK s \in Slots, e \in Subjects :
        Set(q, [NoRequest EXCEPT !.pc = "definition", !.slot = s, !.subj = e])
  BY DEF SaveBegin
<1> DEFINE x == [NoRequest EXCEPT !.pc = "definition", !.slot = s, !.subj = e]
<1>2. NoRequest \in ReqRecord /\ NoRequest.held = {}
  BY NoRequestFacts DEF WellFormed
<1>3. x \in ReqRecord /\ x.pc = "definition" /\ x.held = {} /\ x.slot = s /\ x.subj = e
  BY <1>2 DEF ReqRecord, ReqPc
<1> HIDE DEF x
<1>4. WellFormed(x) /\ OfDefinition(q, x) /\ OfRecord(q, x) /\ OfFiles(x)
  BY <1>3 DEF WellFormed, OfDefinition, OfRecord, OfFiles, Editing, Reading, Chosen
<1> QED BY <1>1, <1>3, <1>4, FreeSet DEF SaveBegin, Still, x

(* What To leaves of a request.                                             *)
LEMMA ToFacts ==
  ASSUME NEW y \in ReqRecord, NEW pc \in ReqPc
  PROVE  LET x == [y EXCEPT !.pc = pc]
         IN  /\ x \in ReqRecord /\ x.pc = pc /\ x.slot = y.slot /\ x.subj = y.subj /\ x.rev = y.rev
             /\ x.fields = y.fields /\ x.first = y.first /\ x.id = y.id /\ x.vals = y.vals
             /\ x.left = y.left /\ x.held = y.held
BY DEF ReqRecord

LEMMA OneOf ==
  ASSUME FormsInv, NEW q \in Reqs
  PROVE  /\ req[q] \in ReqRecord /\ WellFormed(req[q]) /\ OfDefinition(q, req[q])
         /\ OfRecord(q, req[q]) /\ OfFiles(req[q])
         /\ \A p \in Reqs : p # q => Aside(req[p], req[q]) /\ Aside(req[q], req[p])
BY DEF FormsInv, Requests, WellFormed

LEMMA EditReadInv == ASSUME FormsInv, NEW q \in Reqs, EditRead(q) PROVE FormsInv'
<1> DEFINE y == req[q]
<1>0. y \in ReqRecord /\ WellFormed(y) /\ y.pc = "edit" /\ y.slot \in Slots /\ y.held = {}
  BY OneOf DEF EditRead, WellFormed, Editing
<1>1. ASSUME NEW pc \in {"replace", "define"}, To(q, pc), Still,
             pc = "replace" => rev[y.slot] # 0, pc = "define" => y.rev = 0
      PROVE  FormsInv'
  <2> DEFINE x == [y EXCEPT !.pc = pc]
  <2>1. pc \in ReqPc /\ Set(q, x)
    BY <1>1 DEF ReqPc, To
  <2>2. /\ x \in ReqRecord /\ x.pc = pc /\ x.slot = y.slot /\ x.rev = y.rev /\ x.held = {}
    BY <1>0, <2>1, ToFacts
  <2> HIDE DEF x, y
  <2>3. WellFormed(x) /\ OfDefinition(q, x) /\ OfRecord(q, x) /\ OfFiles(x)
    BY <1>0, <1>1, <2>2 DEF WellFormed, OfDefinition, OfRecord, OfFiles, Editing, Reading, Chosen
  <2> QED BY <1>0, <1>1, <2>1, <2>2, <2>3, FreeSet DEF y
<1>2. CASE Rollback(q)
  BY <1>0, <1>2, RollbackInv
<1> QED BY <1>1, <1>2 DEF EditRead, Still

LEMMA EditDefineInv == ASSUME FormsInv, NEW q \in Reqs, EditDefine(q) PROVE FormsInv'
<1> DEFINE y == req[q]
           x == [y EXCEPT !.pc = "defined"]
<1>0. /\ y \in ReqRecord /\ WellFormed(y) /\ y.pc = "define" /\ y.slot \in Slots /\ y.held = {}
      /\ y.rev = 0
  BY OneOf DEF EditDefine, WellFormed, OfDefinition, Editing
<1>1. CASE rev[y.slot] = 0 /\ Set(q, x) /\ Still
  <2>1. "defined" \in ReqPc
    BY DEF ReqPc
  <2>2. x \in ReqRecord /\ x.pc = "defined" /\ x.slot = y.slot /\ x.rev = 0 /\ x.held = {}
    BY <1>0, <2>1, ToFacts
  <2>3. ASSUME NEW p \in Reqs, p # q PROVE Aside(req[p], x) /\ Aside(x, req[p])
    <3>1. ~(req[p].pc = "defined" /\ req[p].slot = y.slot)
      BY <2>3 DEF EditDefine, DefineWaits, Defining
    <3> HIDE DEF x, y
    <3> QED BY <2>2, <3>1 DEF Aside
  <2> HIDE DEF x, y
  <2>4. WellFormed(x) /\ OfDefinition(q, x) /\ OfRecord(q, x) /\ OfFiles(x)
    BY <1>0, <1>1, <2>2 DEF WellFormed, OfDefinition, OfRecord, OfFiles, Editing, Reading, Chosen
  <2>5. Fine(q, x)
    BY <2>3, <2>4 DEF Fine
  <2> QED BY <1>0, <1>1, <2>5, NoLocks, QuietSet DEF y
<1>2. CASE Rollback(q)
  BY <1>0, <1>2, RollbackInv
<1> QED BY <1>1, <1>2 DEF EditDefine, Still, To

LEMMA SaveDefinitionInv == ASSUME FormsInv, NEW q \in Reqs, SaveDefinition(q) PROVE FormsInv'
<1> DEFINE y == req[q]
           x == [y EXCEPT !.pc = "fields", !.rev = rev[y.slot]]
<1>0. /\ y \in ReqRecord /\ WellFormed(y) /\ y.pc = "definition" /\ y.slot \in Slots /\ y.held = {}
      /\ rev[y.slot] \in Nat
  BY OneOf DEF SaveDefinition, WellFormed, FormsInv, Tables
<1>1. CASE rev[y.slot] # 0 /\ Set(q, x) /\ Still
  <2>1. /\ x \in ReqRecord /\ x.pc = "fields" /\ x.slot = y.slot /\ x.subj = y.subj
        /\ x.rev = rev[y.slot] /\ x.held = {}
    BY <1>0 DEF ReqRecord, ReqPc
  <2> HIDE DEF x, y
  <2>2. WellFormed(x) /\ OfDefinition(q, x) /\ OfRecord(q, x) /\ OfFiles(x)
    BY <1>0, <1>1, <2>1 DEF WellFormed, OfDefinition, OfRecord, OfFiles, Editing, Reading, Chosen
  <2> QED BY <1>0, <1>1, <2>1, <2>2, FreeSet DEF y
<1>2. CASE Rollback(q)
  BY <1>0, <1>2, RollbackInv
<1> QED BY <1>1, <1>2 DEF SaveDefinition, Still

(* Validated values are backed by the revision whose fields they fit.       *)
LEMMA ValidateInv ==
  ASSUME FormsInv, NEW q \in Reqs, NEW sch \in Schemas \cup {NoSchema}, NEW first \in BOOLEAN,
         req[q].pc \in {"fields", "look"}, Validate(q, sch, first),
         \E h \in history : h.slot = req[q].slot /\ h.rev >= req[q].rev /\ h.fields = sch,
         first \/ (req[q].slot \in Singletons /\ RowsOf(req[q].slot, req[q].subj) # {})
  PROVE  FormsInv'
<1> DEFINE y == req[q]
<1>0. /\ y \in ReqRecord /\ WellFormed(y) /\ y.slot \in Slots /\ y.subj \in Subjects /\ y.held = {}
      /\ rev[y.slot] # 0 /\ y.rev <= rev[y.slot]
  BY OneOf DEF WellFormed, OfDefinition, Reading
<1>1. ASSUME NEW v \in Values, Fits(v, sch), Still,
             Set(q, [y EXCEPT !.pc = "find", !.fields = NoSchema, !.first = first,
                              !.vals = v, !.left = v.files])
      PROVE  FormsInv'
  <2> DEFINE x == [y EXCEPT !.pc = "find", !.fields = NoSchema, !.first = first,
                            !.vals = v, !.left = v.files]
  <2>1. /\ x \in ReqRecord /\ x.pc = "find" /\ x.slot = y.slot /\ x.subj = y.subj /\ x.rev = y.rev
        /\ x.first = first /\ x.vals = v /\ x.left = v.files /\ x.held = {}
    BY <1>0 DEF ReqRecord, ReqPc, Values
  <2>2. \E h \in history : h.slot = y.slot /\ h.rev >= y.rev /\ h.fields = sch
    OBVIOUS
  <2>3. first \/ (y.slot \in Singletons /\ RowsOf(y.slot, y.subj) # {})
    OBVIOUS
  <2>p. y.pc \in {"fields", "look"}
    OBVIOUS
  <2> HIDE DEF x, y
  <2>4. Backed(x)
    BY <1>1, <2>1, <2>2 DEF Backed
  <2>5. WellFormed(x) /\ OfDefinition(q, x) /\ OfRecord(q, x) /\ OfFiles(x)
    BY <1>0, <2>1, <2>3, <2>4
       DEF WellFormed, OfDefinition, OfRecord, OfFiles, Editing, Reading, Chosen
  <2> QED BY <1>1, <2>1, <2>5, <2>p, FreeSet DEF x, y
<1>2. CASE Rollback(q)
  BY <1>0, <1>2, RollbackInv
<1>3. ASSUME ~Rollback(q)
      PROVE  /\ \E v \in Values :
                  /\ Fits(v, sch)
                  /\ Set(q, [y EXCEPT !.pc = "find", !.fields = NoSchema, !.first = first,
                                      !.vals = v, !.left = v.files])
             /\ Frame /\ UNCHANGED <<defLock, rowLock>>
  BY <1>3 DEF Validate
<1> QED BY <1>1, <1>2, <1>3 DEF Still

LEMMA SaveFieldsInv == ASSUME FormsInv, NEW q \in Reqs, SaveFields(q) PROVE FormsInv'
<1> DEFINE y == req[q]
           sch == fields[y.slot]
           x == [y EXCEPT !.pc = "look", !.fields = sch]
<1>0. /\ y \in ReqRecord /\ WellFormed(y) /\ y.pc = "fields" /\ y.slot \in Slots /\ y.subj \in Subjects
      /\ y.held = {} /\ rev[y.slot] # 0 /\ y.rev <= rev[y.slot] /\ sch \in Schemas \cup {NoSchema}
  BY OneOf DEF SaveFields, WellFormed, OfDefinition, Reading, FormsInv, Tables
<1>h. \E h \in history : h.slot = y.slot /\ h.rev >= y.rev /\ h.fields = sch
  <2>1. PICK h \in history : h.slot = y.slot /\ h.rev = rev[y.slot] /\ h.fields = sch
    BY <1>0 DEF FormsInv, Recorded
  <2>2. h.rev >= y.rev
    <3>1. y.rev \in Nat /\ rev[y.slot] \in Nat
      BY <1>0 DEF ReqRecord, FormsInv, Tables
    <3> QED BY <1>0, <2>1, <3>1
  <2> QED BY <2>1, <2>2
<1>1. CASE y.slot \in Singletons /\ Set(q, x) /\ Still
  <2>1. /\ x \in ReqRecord /\ x.pc = "look" /\ x.slot = y.slot /\ x.subj = y.subj /\ x.rev = y.rev
        /\ x.fields = sch /\ x.held = {}
    BY <1>0 DEF ReqRecord, ReqPc
  <2> HIDE DEF x, y, sch
  <2>2. Backed(x)
    BY <1>h, <2>1 DEF Backed, Chosen
  <2>3. WellFormed(x) /\ OfDefinition(q, x) /\ OfRecord(q, x) /\ OfFiles(x)
    BY <1>0, <1>1, <2>1, <2>2 DEF WellFormed, OfDefinition, OfRecord, OfFiles, Editing, Reading, Chosen
  <2> QED BY <1>0, <1>1, <2>1, <2>3, FreeSet DEF y
<1>2. CASE Validate(q, sch, TRUE)
  BY <1>0, <1>2, <1>h, ValidateInv
<1> QED BY <1>1, <1>2 DEF SaveFields, Still

LEMMA SaveLookInv == ASSUME FormsInv, NEW q \in Reqs, SaveLook(q) PROVE FormsInv'
<1>1. /\ req[q] \in ReqRecord /\ req[q].pc = "look" /\ Backed(req[q]) /\ req[q].slot \in Singletons
  BY OneOf DEF SaveLook, OfDefinition, WellFormed
<1>2. /\ req[q].fields \in Schemas \cup {NoSchema}
      /\ \E h \in history : h.slot = req[q].slot /\ h.rev >= req[q].rev /\ h.fields = req[q].fields
  BY <1>1 DEF ReqRecord, Backed
<1>3. IsFirst(q) \in BOOLEAN /\ (IsFirst(q) \/ RowsOf(req[q].slot, req[q].subj) # {})
  BY DEF IsFirst
<1>4. Validate(q, req[q].fields, IsFirst(q))
  BY DEF SaveLook
<1> QED BY <1>1, <1>2, <1>3, <1>4, ValidateInv

-----------------------------------------------------------------------------
(***************************************************************************)
(* Taking a row: of a definition, or of a record.                          *)
(***************************************************************************)
Ready(x) ==
  \/ x.pc = "replaced" /\ rev[x.slot] # 0 /\ rev[x.slot] = x.rev
  \/ /\ x.pc = "files" /\ rev[x.slot] # 0 /\ x.rev <= rev[x.slot] /\ Backed(x)
     /\ x.slot \in Singletons /\ x.id \in RowsOf(x.slot, x.subj) /\ x.left = x.vals.files

LEMMA LockSet ==
  ASSUME FormsInv, NEW q \in Reqs, NEW x, WellFormed(x), Set(q, x), Frame,
         req[q].pc \notin {"replaced", "files", "tell"}, x.pc \in {"replaced", "files"}, x.held = {},
         Ready(x),
         \A p \in Reqs : p # q => Aside(req[p], x) /\ Aside(x, req[p]),
         \/ /\ x.pc = "replaced" /\ x.slot \in Slots /\ defLock[x.slot] = Nil
            /\ defLock' = [defLock EXCEPT ![x.slot] = q] /\ rowLock' = rowLock
         \/ /\ x.pc = "files" /\ x.id \in Ids /\ rowLock[x.id] = Nil
            /\ rowLock' = [rowLock EXCEPT ![x.id] = q] /\ defLock' = defLock
  PROVE  FormsInv'
<1>1. /\ req' \in [Reqs -> ReqRecord] /\ req'[q] = x
      /\ \A p \in Reqs : p # q => req'[p] = req[p]
  BY SetFacts
<1>2. /\ rev' = rev /\ fields' = fields /\ row' = row
      /\ status' = status /\ ref' = ref /\ content' = content
      /\ history' = history /\ created' = created /\ unheard' = unheard
  BY DEF Frame, fileVars
<1>t. defLock \in [Slots -> Reqs \cup {Nil}] /\ rowLock \in [Ids -> Reqs \cup {Nil}]
  BY DEF FormsInv, Tables
<1>l. /\ \A s \in Slots : defLock'[s] = defLock[s] \/ (defLock[s] = Nil /\ defLock'[s] = q /\ x.pc = "replaced" /\ x.slot = s)
      /\ \A i \in Ids : rowLock'[i] = rowLock[i] \/ (rowLock[i] = Nil /\ rowLock'[i] = q /\ x.pc = "files" /\ x.id = i)
  BY <1>t
<1>3. Tables'
  BY <1>1, <1>2 DEF FormsInv, Tables
<1>4. Locks'
  BY <1>1, <1>l, <1>t, NoLocks DEF FormsInv, Locks
<1>5. Rows' = Rows /\ \A s, e : RowsOf(s, e)' = RowsOf(s, e)
  BY <1>2 DEF Rows, RowsOf
<1>6. Requests'
  <2>1. (WellFormed(req[q]) /\ OfDefinition(q, req[q]) /\ OfRecord(q, req[q]) /\ OfFiles(req[q]))'
    <3>1. x.pc = "replaced" => defLock'[x.slot] = q
      BY <1>t
    <3>2. x.pc = "files" => rowLock'[x.id] = q
      BY <1>t
    <3>3. WellFormed(req'[q]) /\ OfFiles(req[q])'
      BY <1>1, <1>2 DEF OfFiles, Ready
    <3>4. OfDefinition(q, req[q])'
      BY <1>1, <1>2, <3>1 DEF OfDefinition, Backed, Ready, Reading, Chosen
    <3>5. OfRecord(q, req[q])'
      BY <1>1, <1>2, <3>2 DEF OfRecord, Ready, Rows, RowsOf, Chosen
    <3> QED BY <3>3, <3>4, <3>5
  <2>2. ASSUME NEW p \in Reqs, p # q
        PROVE  (WellFormed(req[p]) /\ OfDefinition(p, req[p]) /\ OfRecord(p, req[p]) /\ OfFiles(req[p]))'
    <3>0. req'[p] = req[p]
      BY <1>1, <2>2
    <3>1. WellFormed(req[p]) /\ OfDefinition(p, req[p]) /\ OfRecord(p, req[p]) /\ OfFiles(req[p])
      BY DEF FormsInv, Requests
    <3>2. WellFormed(req[p])' /\ OfFiles(req[p])'
      BY <1>2, <3>0, <3>1 DEF OfFiles
    <3>3. OfDefinition(p, req[p])'
      <4>1. req[p].pc = "replaced" => req[p].slot \in Slots
        BY <3>1 DEF WellFormed, Editing
      <4>2. req[p].pc = "replaced" => defLock'[req[p].slot] = p
        BY <1>l, <3>1, <4>1 DEF OfDefinition
      <4> QED BY <1>2, <3>0, <3>1, <4>2 DEF OfDefinition, Backed
    <3>4. OfRecord(p, req[p])'
      <4>1. req[p].pc = "files" => req[p].id \in Ids
        BY <3>1 DEF WellFormed
      <4>2. req[p].pc = "files" /\ req[p].id \in Rows => rowLock'[req[p].id] = p
        BY <1>l, <3>1, <4>1 DEF OfRecord
      <4> QED BY <1>2, <1>5, <3>0, <3>1, <4>2 DEF OfRecord, Rows
    <3> QED BY <3>2, <3>3, <3>4
  <2>3. ASSUME NEW p1 \in Reqs, NEW p2 \in Reqs, p1 # p2 PROVE Aside(req[p1], req[p2])'
    <3>1. Aside(req'[p1], req'[p2])
      BY <1>1, <2>3 DEF FormsInv, Requests
    <3> QED BY <1>5, <3>1 DEF Aside
  <2> QED BY <2>1, <2>2, <2>3 DEF Requests
<1>7. /\ Recorded' /\ OneRecord' /\ FilesBehindValues' /\ NoLostEdit' /\ FitsPublished'
  BY <1>2, <1>5 DEF FormsInv, Recorded, OneRecord, FilesBehindValues, NoLostEdit, FitsPublished
<1>8. CreationClaimed'
  BY <1>1, <1>2, <1>5 DEF FormsInv, CreationClaimed
<1> QED BY <1>3, <1>4, <1>6, <1>7, <1>8 DEF FormsInv

LEMMA EditReplaceInv == ASSUME FormsInv, NEW q \in Reqs, EditReplace(q) PROVE FormsInv'
<1> DEFINE y == req[q]
           x == [y EXCEPT !.pc = "replaced"]
<1>0. /\ y \in ReqRecord /\ WellFormed(y) /\ y.pc = "replace" /\ y.slot \in Slots /\ y.held = {}
      /\ rev[y.slot] # 0
  BY OneOf DEF EditReplace, WellFormed, OfDefinition, Editing
<1>1. CASE /\ RevisionMatches(q) /\ defLock[y.slot] = Nil /\ defLock' = [defLock EXCEPT ![y.slot] = q]
           /\ Set(q, x) /\ Frame /\ UNCHANGED rowLock
  <2>1. "replaced" \in ReqPc
    BY DEF ReqPc
  <2>2. x \in ReqRecord /\ x.pc = "replaced" /\ x.slot = y.slot /\ x.rev = y.rev /\ x.held = {}
    BY <1>0, <2>1, ToFacts
  <2>3. rev[y.slot] = y.rev /\ rev' = rev /\ defLock'[y.slot] = q
    BY <1>0, <1>1 DEF RevisionMatches, Frame, FormsInv, Tables
  <2>m. Set(q, x) /\ defLock[y.slot] = Nil /\ defLock' = [defLock EXCEPT ![y.slot] = q] /\ rowLock' = rowLock /\ Frame
    BY <1>1
  <2> HIDE DEF x, y
  <2>4. WellFormed(x) /\ Ready(x)
    BY <1>0, <2>2, <2>3 DEF WellFormed, Ready, Editing, Reading, Chosen
  <2>5. \A p \in Reqs : Aside(req[p], x) /\ Aside(x, req[p])
    BY <2>2, AsideFree
  <2>6. /\ x.pc = "replaced" /\ x.slot \in Slots /\ defLock[x.slot] = Nil
        /\ defLock' = [defLock EXCEPT ![x.slot] = q] /\ rowLock' = rowLock
    BY <1>0, <2>2, <2>m
  <2>7. req[q].pc = "replace"
    BY <1>0 DEF y
  <2> QED BY <2>2, <2>4, <2>5, <2>6, <2>7, <2>m, LockSet
<1>2. CASE Rollback(q)
  BY <1>0, <1>2, RollbackInv
<1> QED BY <1>1, <1>2 DEF EditReplace, To

(* Reserving a record, found or new.                                        *)
LEMMA ReserveFacts ==
  ASSUME FormsInv, NEW q \in Reqs, NEW i \in Ids, req[q].pc \in {"find", "insert", "again"}
  PROVE  LET y == req[q]
             x == [y EXCEPT !.pc = "files", !.id = i]
         IN  /\ x \in ReqRecord /\ x.pc = "files" /\ x.id = i /\ x.slot = y.slot /\ x.subj = y.subj
             /\ x.rev = y.rev /\ x.first = y.first /\ x.vals = y.vals /\ x.left = y.vals.files
             /\ x.held = {} /\ WellFormed(x)
<1> DEFINE y == req[q]
           x == [y EXCEPT !.pc = "files", !.id = i]
<1>0. /\ y \in ReqRecord /\ WellFormed(y) /\ y.slot \in Slots /\ y.subj \in Subjects /\ y.held = {}
      /\ y.left = y.vals.files
  BY OneOf DEF WellFormed, Reading, Chosen
<1>1. /\ x \in ReqRecord /\ x.pc = "files" /\ x.id = i /\ x.slot = y.slot /\ x.subj = y.subj
      /\ x.rev = y.rev /\ x.first = y.first /\ x.vals = y.vals /\ x.left = y.vals.files /\ x.held = {}
  BY <1>0 DEF ReqRecord, ReqPc
<1> HIDE DEF x, y
<1>2. WellFormed(x)
  BY <1>0, <1>1 DEF WellFormed
<1> QED BY <1>1, <1>2 DEF x, y

LEMMA SaveFindInv == ASSUME FormsInv, NEW q \in Reqs, SaveFind(q) PROVE FormsInv'
<1> DEFINE y == req[q]
<1>0. /\ y \in ReqRecord /\ WellFormed(y) /\ OfDefinition(q, y) /\ OfRecord(q, y)
      /\ y.pc \in {"find", "again"} /\ y.slot \in Slots /\ y.subj \in Subjects /\ y.held = {}
      /\ y.left = y.vals.files
  BY OneOf DEF SaveFind, WellFormed, Reading, Chosen
<1>1. ASSUME NEW i \in RowsOf(y.slot, y.subj), rowLock[i] = Nil, y.slot \in Singletons,
             rowLock' = [rowLock EXCEPT ![i] = q], Reserve(q, i), Frame, UNCHANGED defLock
      PROVE  FormsInv'
  <2> DEFINE x == [y EXCEPT !.pc = "files", !.id = i]
  <2>1. i \in Ids /\ i \in Rows /\ row[i].slot = y.slot /\ row[i].subj = y.subj
    BY DEF RowsOf, Rows
  <2>2. /\ x \in ReqRecord /\ x.pc = "files" /\ x.id = i /\ x.slot = y.slot /\ x.subj = y.subj
        /\ x.rev = y.rev /\ x.first = y.first /\ x.vals = y.vals /\ x.left = y.vals.files
        /\ x.held = {} /\ WellFormed(x)
    BY <1>0, <2>1, ReserveFacts
  <2>3. ASSUME NEW p \in Reqs, p # q PROVE Aside(req[p], x) /\ Aside(x, req[p])
    <3>1. ~(req[p].pc = "files" /\ req[p].id = i)
      <4>1. OfRecord(p, req[p])
        BY OneOf
      <4> QED BY <1>1, <2>1, <4>1 DEF OfRecord
    <3> HIDE DEF x, y
    <3> QED BY <2>1, <2>2, <3>1 DEF Aside
  <2>m. Set(q, x)
    BY <1>1 DEF Reserve
  <2> HIDE DEF x, y
  <2>5. Ready(x)
    <3>1. Backed(x)
      BY <1>0, <2>2 DEF OfDefinition, Backed, Chosen
    <3>2. i \in RowsOf(y.slot, y.subj) /\ y.slot \in Singletons
      BY <1>1
    <3> QED BY <1>0, <2>2, <3>1, <3>2 DEF OfDefinition, Ready, Reading, Chosen
  <2>8. req[q].pc \in {"find", "again"}
    BY <1>0 DEF y
  <2> QED BY <1>1, <2>1, <2>2, <2>3, <2>5, <2>8, <2>m, LockSet
<1>2. CASE y.pc = "find" /\ To(q, "insert") /\ Still
  <2> DEFINE x == [y EXCEPT !.pc = "insert"]
  <2>1. "insert" \in ReqPc /\ Set(q, x)
    BY <1>2 DEF ReqPc, To
  <2>2. /\ x \in ReqRecord /\ x.pc = "insert" /\ x.slot = y.slot /\ x.subj = y.subj /\ x.rev = y.rev
        /\ x.first = y.first /\ x.vals = y.vals /\ x.left = y.left /\ x.held = {}
    BY <1>0, <2>1, ToFacts
  <2> HIDE DEF x, y
  <2>3. WellFormed(x) /\ OfDefinition(q, x) /\ OfRecord(q, x) /\ OfFiles(x)
    BY <1>0, <2>2 DEF WellFormed, OfDefinition, OfRecord, OfFiles, Backed, Editing, Reading, Chosen
  <2> QED BY <1>0, <1>2, <2>1, <2>2, <2>3, FreeSet DEF y
<1> QED BY <1>1, <1>2 DEF SaveFind, Still

LEMMA SaveInsertInv == ASSUME FormsInv, NEW q \in Reqs, SaveInsert(q) PROVE FormsInv'
<1> DEFINE y == req[q]
<1>0. /\ y \in ReqRecord /\ WellFormed(y) /\ OfDefinition(q, y) /\ OfRecord(q, y)
      /\ y.pc = "insert" /\ y.slot \in Slots /\ y.subj \in Subjects /\ y.held = {}
      /\ y.left = y.vals.files
  BY OneOf DEF SaveInsert, WellFormed, Reading, Chosen
<1>1. ASSUME IndexFree(q), NEW i \in FreshIds, Reserve(q, i), Still PROVE FormsInv'
  <2> DEFINE x == [y EXCEPT !.pc = "files", !.id = i]
  <2>1. i \in Ids /\ i \notin Rows /\ \A p \in Reqs : req[p].id # i
    BY DEF FreshIds
  <2>2. /\ x \in ReqRecord /\ x.pc = "files" /\ x.id = i /\ x.slot = y.slot /\ x.subj = y.subj
        /\ x.rev = y.rev /\ x.first = y.first /\ x.vals = y.vals /\ x.left = y.vals.files
        /\ x.held = {} /\ WellFormed(x)
    BY <1>0, <2>1, ReserveFacts
  <2>3. ASSUME NEW p \in Reqs, p # q PROVE Aside(req[p], x) /\ Aside(x, req[p])
    <3>1. ~(/\ req[p].pc = "files" /\ req[p].id \notin Rows /\ y.slot \in Singletons
            /\ y.slot = req[p].slot /\ y.subj = req[p].subj)
      BY <2>3 DEF SaveInsert, InsertWaits, Inserted, SameKey
    <3> HIDE DEF x, y
    <3> QED BY <2>1, <2>2, <3>1 DEF Aside
  <2>m. Set(q, x) /\ (y.slot \in Singletons => RowsOf(y.slot, y.subj) = {})
    BY <1>1 DEF Reserve, IndexFree
  <2> HIDE DEF x, y
  <2>4. OfDefinition(q, x) /\ OfRecord(q, x) /\ OfFiles(x)
    BY <1>0, <2>1, <2>2, <2>m DEF OfDefinition, OfRecord, OfFiles, Backed, Reading, Chosen
  <2>5. Fine(q, x)
    BY <2>2, <2>3, <2>4 DEF Fine
  <2> QED BY <1>0, <1>1, <2>5, <2>m, NoLocks, QuietSet DEF y
<1>2. CASE To(q, "again") /\ Still
  <2> DEFINE x == [y EXCEPT !.pc = "again"]
  <2>1. "again" \in ReqPc /\ Set(q, x)
    BY <1>2 DEF ReqPc, To
  <2>2. /\ x \in ReqRecord /\ x.pc = "again" /\ x.slot = y.slot /\ x.subj = y.subj /\ x.rev = y.rev
        /\ x.first = y.first /\ x.vals = y.vals /\ x.left = y.left /\ x.held = {}
    BY <1>0, <2>1, ToFacts
  <2> HIDE DEF x, y
  <2>3. WellFormed(x) /\ OfDefinition(q, x) /\ OfRecord(q, x) /\ OfFiles(x)
    BY <1>0, <2>2 DEF WellFormed, OfDefinition, OfRecord, OfFiles, Backed, Editing, Reading, Chosen
  <2> QED BY <1>0, <1>2, <2>1, <2>2, <2>3, FreeSet DEF y
<1> QED BY <1>1, <1>2 DEF SaveInsert, Still

LEMMA SaveAttachInv == ASSUME FormsInv, NEW q \in Reqs, SaveAttach(q) PROVE FormsInv'
<1> DEFINE y == req[q]
<1>1. PICK f \in y.left :
        /\ y.pc = "files"
        /\ \/ status[f] = "staged" /\ f \notin Held /\ Set(q, Claimed(q, f)) /\ Still
           \/ BoundHere(q, f) /\ Set(q, Passed(q, f)) /\ Still
           \/ Rollback(q)
  BY DEF SaveAttach, Still
<1>0. /\ y \in ReqRecord /\ WellFormed(y) /\ OfDefinition(q, y) /\ OfRecord(q, y) /\ OfFiles(y)
      /\ y.pc = "files" /\ y.slot \in Slots /\ y.subj \in Subjects /\ y.id \in Ids
      /\ y.left \subseteq Files /\ y.held \subseteq Files
      /\ \A p \in Reqs : p # q => Aside(req[p], y) /\ Aside(y, req[p])
  BY <1>1, OneOf DEF WellFormed, Reading, Chosen, ReqRecord
<1>2. ASSUME NEW H \in SUBSET Files, Set(q, [y EXCEPT !.left = y.left \ {f}, !.held = H]), Still,
             \/ H = y.held /\ BoundHere(q, f)
             \/ H = y.held \cup {f} /\ status[f] = "staged" /\ f \notin Held
      PROVE  FormsInv'
  <2> DEFINE x == [y EXCEPT !.left = y.left \ {f}, !.held = H]
  <2>1. /\ x \in ReqRecord /\ x.pc = "files" /\ x.id = y.id /\ x.slot = y.slot /\ x.subj = y.subj
        /\ x.rev = y.rev /\ x.first = y.first /\ x.vals = y.vals /\ x.left = y.left \ {f} /\ x.held = H
    BY <1>0 DEF ReqRecord
  <2>2. ASSUME NEW p \in Reqs, p # q PROVE req[p].held \cap H = {}
    <3>1. req[p].held \cap y.held = {}
      BY <1>0, <2>2 DEF Aside
    <3> QED BY <1>2, <2>2, <3>1 DEF Held
  <2>m. /\ Set(q, x)
        /\ \/ H = y.held /\ status[f] = "attached" /\ ref[f] = y.id
           \/ H = y.held \cup {f} /\ status[f] = "staged"
    BY <1>2 DEF BoundHere
  <2> HIDE DEF x, y
  <2>3. \A p \in Reqs : p # q => Aside(req[p], x) /\ Aside(x, req[p])
    BY <1>0, <2>1, <2>2 DEF Aside
  <2>4. WellFormed(x) /\ OfDefinition(q, x) /\ OfRecord(q, x)
    BY <1>0, <2>1 DEF WellFormed, OfDefinition, OfRecord, Backed, Reading, Chosen
  <2>5. OfFiles(x)
    BY <1>0, <2>1, <2>m DEF OfFiles
  <2>6. Fine(q, x)
    BY <2>3, <2>4, <2>5 DEF Fine
  <2>7. req[q].pc = "files" /\ x.pc = req[q].pc /\ x.id = req[q].id
    BY <1>0, <2>1 DEF y
  <2> QED BY <1>2, <2>6, <2>7, <2>m, NoLocks, QuietSet
<1>3. CASE status[f] = "staged" /\ f \notin Held /\ Set(q, Claimed(q, f)) /\ Still
  <2>1. y.held \cup {f} \in SUBSET Files
    BY <1>0
  <2> QED BY <1>2, <1>3, <2>1 DEF Claimed
<1>4. CASE BoundHere(q, f) /\ Set(q, Passed(q, f)) /\ Still
  <2>1. Passed(q, f) = [y EXCEPT !.left = y.left \ {f}, !.held = y.held]
    BY <1>0 DEF Passed, ReqRecord
  <2> QED BY <1>0, <1>2, <1>4, <2>1
<1>5. CASE Rollback(q)
  BY <1>0, <1>5, RollbackInv
<1> QED BY <1>1, <1>3, <1>4, <1>5

-----------------------------------------------------------------------------
(***************************************************************************)
(* The COMMIT of an edit: the only step that moves a revision.             *)
(***************************************************************************)
LEMMA EditCommitInv == ASSUME FormsInv, NEW q \in Reqs, EditCommit(q) PROVE FormsInv'
<1> DEFINE y == req[q]
           s == y.slot
<1>0. /\ y \in ReqRecord /\ WellFormed(y) /\ OfDefinition(q, y) /\ y.pc \in {"defined", "replaced"}
      /\ s \in Slots /\ y.rev \in Nat /\ rev[s] \in Nat /\ y.rev = rev[s]
  <2>1. y \in ReqRecord /\ WellFormed(y) /\ OfDefinition(q, y) /\ y.pc \in {"defined", "replaced"}
    BY OneOf DEF EditCommit
  <2>2. s \in Slots
    BY <2>1 DEF WellFormed, Editing
  <2> QED BY <2>1, <2>2 DEF OfDefinition, ReqRecord, FormsInv, Tables
<1>1. PICK sch \in Schemas :
        /\ fields' = [fields EXCEPT ![s] = sch]
        /\ history' = history \cup
                        {[slot |-> s, rev |-> rev[s] + 1, fields |-> sch, seen |-> y.rev]}
  BY DEF EditCommit
<1> DEFINE h == [slot |-> s, rev |-> rev[s] + 1, fields |-> sch, seen |-> y.rev]
<1>h. /\ h \in Edition /\ h.slot = s /\ h.rev = rev[s] + 1 /\ h.fields = sch /\ h.seen = rev[s]
      /\ history' = history \cup {h}
  BY <1>0, <1>1 DEF Edition
<1>2. /\ rev' = [rev EXCEPT ![s] = rev[s] + 1]
      /\ row' = row /\ status' = status /\ ref' = ref /\ content' = content /\ created' = created /\ unheard' = unheard
      /\ defLock' = [t \in Slots |-> IF defLock[t] = q THEN Nil ELSE defLock[t]]
      /\ rowLock' = [i \in Ids |-> IF rowLock[i] = q THEN Nil ELSE rowLock[i]]
  BY DEF EditCommit, Release, fileVars
<1>3. /\ req' \in [Reqs -> ReqRecord] /\ req'[q] = NoRequest
      /\ \A p \in Reqs : p # q => req'[p] = req[p]
  BY SetFacts, NoRequestFacts DEF EditCommit
<1>p. y.pc # "tell" /\ y.pc # "files"
  BY <1>0
<1> HIDE DEF h, s, y
<1>t. /\ rev \in [Slots -> Nat] /\ fields \in [Slots -> Schemas \cup {NoSchema}]
      /\ defLock \in [Slots -> Reqs \cup {Nil}] /\ rowLock \in [Ids -> Reqs \cup {Nil}]
  BY DEF FormsInv, Tables
<1>v. /\ rev'[s] = rev[s] + 1 /\ fields'[s] = sch
      /\ \A t \in Slots : t # s => rev'[t] = rev[t] /\ fields'[t] = fields[t]
  BY <1>0, <1>1, <1>2, <1>t
<1>4. Tables'
  BY <1>0, <1>1, <1>2, <1>3, <1>h DEF FormsInv, Tables
<1>5. Locks'
  BY <1>2, <1>3, <1>t DEF FormsInv, Locks
<1>6. Rows' = Rows /\ \A t, e : RowsOf(t, e)' = RowsOf(t, e)
  BY <1>2 DEF Rows, RowsOf
<1>7. Recorded'
  <2> SUFFICES ASSUME NEW t \in Slots, rev'[t] # 0
               PROVE  \E g \in history' : g.slot = t /\ g.rev = rev'[t] /\ g.fields = fields'[t]
    BY DEF Recorded
  <2>1. CASE t = s
    BY <1>h, <1>v, <2>1
  <2>2. CASE t # s
    BY <1>h, <1>v, <2>2 DEF FormsInv, Recorded
  <2> QED BY <2>1, <2>2
<1>8. Requests'
  <2>1. (WellFormed(req[q]) /\ OfDefinition(q, req[q]) /\ OfRecord(q, req[q]) /\ OfFiles(req[q]))'
    BY <1>3, NoRequestFacts DEF WellFormed, OfFiles, OfDefinition, OfRecord, Editing, Reading, Chosen
  <2>2. ASSUME NEW p \in Reqs, p # q
        PROVE  (WellFormed(req[p]) /\ OfDefinition(p, req[p]) /\ OfRecord(p, req[p]) /\ OfFiles(req[p]))'
    <3> DEFINE x == req[p]
    <3>0. req'[p] = x
      BY <1>3, <2>2
    <3>1. /\ x \in ReqRecord /\ WellFormed(x) /\ OfDefinition(p, x) /\ OfRecord(p, x) /\ OfFiles(x)
          /\ Aside(x, y)
      BY <2>2, OneOf DEF y
    <3>2. WellFormed(req[p])' /\ OfFiles(req[p])'
      BY <1>2, <3>0, <3>1 DEF OfFiles
    <3> HIDE DEF x
    <3>3. x.pc \in {"defined", "replaced"} => x.slot \in Slots /\ x.slot # s
      <4>1. x.pc \in {"defined", "replaced"} => x.slot \in Slots
        BY <3>1 DEF WellFormed, Editing
      <4>2. CASE y.pc = "defined" /\ x.slot = s
        BY <1>0, <3>1, <4>1, <4>2 DEF OfDefinition, Aside, s
      <4>3. CASE y.pc = "replaced" /\ x.slot = s
        BY <1>0, <2>2, <3>1, <4>1, <4>3 DEF OfDefinition, s
      <4> QED BY <1>0, <4>1, <4>2, <4>3
    <3>4. x.pc \in Editing \cup Reading => x.slot \in Slots /\ rev'[x.slot] >= rev[x.slot]
      <4>1. x.pc \in Editing \cup Reading => x.slot \in Slots
        BY <3>1 DEF WellFormed
      <4>2. \A t \in Slots : rev'[t] >= rev[t] /\ rev[t] \in Nat /\ rev'[t] \in Nat
        BY <1>0, <1>v, <1>t
      <4> QED BY <4>1, <4>2
    <3>5. x.pc = "replaced" => defLock'[x.slot] = p
      BY <1>2, <2>2, <3>1, <3>3 DEF OfDefinition
    <3>6. Backed(x) => \E g \in history' : /\ g.slot = x.slot /\ g.rev >= x.rev
                                           /\ x.pc = "look" => g.fields = x.fields
                                           /\ x.pc \in Chosen => Fits(x.vals, g.fields)
      BY <1>h DEF Backed
    <3>7. /\ x.pc \in {"define", "defined"} => x.rev = 0
          /\ x.pc = "defined" => rev'[x.slot] = 0
          /\ x.pc = "replaced" => rev'[x.slot] = x.rev
          /\ x.pc \in {"replace", "replaced"} => rev'[x.slot] # 0
          /\ x.pc \in Reading => rev'[x.slot] # 0 /\ x.rev <= rev'[x.slot]
      <4>1. /\ x.pc = "defined" => rev'[x.slot] = 0
            /\ x.pc = "replaced" => rev'[x.slot] = x.rev
        BY <1>v, <3>1, <3>3 DEF OfDefinition
      <4>2. x.pc \in Editing \cup Reading => rev[x.slot] \in Nat /\ rev'[x.slot] \in Nat /\ x.rev \in Nat
        <5>1. \A t \in Slots : rev[t] \in Nat /\ rev'[t] \in Nat
          BY <1>0, <1>v, <1>t
        <5> QED BY <3>1, <3>4, <5>1 DEF ReqRecord
      <4> QED BY <3>1, <3>4, <4>1, <4>2 DEF OfDefinition, Editing
    <3>8. OfDefinition(p, req[p])'
      BY <3>0, <3>1, <3>5, <3>6, <3>7 DEF OfDefinition, Backed, x
    <3>9. OfRecord(p, req[p])'
      <4>1. x.pc = "files" => x.id \in Ids
        BY <3>1 DEF WellFormed
      <4> QED BY <1>2, <1>6, <2>2, <3>0, <3>1, <4>1 DEF OfRecord, Rows, x
    <3> QED BY <3>2, <3>8, <3>9
  <2>3. ASSUME NEW p1 \in Reqs, NEW p2 \in Reqs, p1 # p2 PROVE Aside(req[p1], req[p2])'
    <3>1. CASE p1 = q \/ p2 = q
      BY <1>3, <2>3, <3>1, NoRequestFacts DEF Aside
    <3>2. CASE p1 # q /\ p2 # q
      <4>1. Aside(req[p1], req[p2])
        BY <2>3 DEF FormsInv, Requests
      <4> QED BY <1>3, <1>6, <3>2, <4>1 DEF Aside
    <3> QED BY <3>1, <3>2
  <2> QED BY <2>1, <2>2, <2>3 DEF Requests
<1>9. NoLostEdit'
  BY <1>0, <1>h DEF FormsInv, NoLostEdit
<1>10. OneRecord' /\ FilesBehindValues' /\ FitsPublished'
  BY <1>2, <1>6, <1>h DEF FormsInv, OneRecord, FilesBehindValues, FitsPublished
<1>11. CreationClaimed'
  BY <1>2, <1>3, <1>6, <1>p DEF FormsInv, CreationClaimed, y
<1> QED BY <1>4, <1>5, <1>7, <1>8, <1>9, <1>10, <1>11 DEF FormsInv

(***************************************************************************)
(* The end of a save.                                                      *)
(***************************************************************************)
LEMMA SaveTellInv == ASSUME FormsInv, NEW q \in Reqs, SaveTell(q) PROVE FormsInv'
<1>0. req[q].pc = "tell" /\ req[q].id \in Ids
  BY OneOf DEF SaveTell, WellFormed
<1>1. /\ req' \in [Reqs -> ReqRecord] /\ req'[q] = NoRequest
      /\ \A p \in Reqs : p # q => req'[p] = req[p]
  BY SetFacts, NoRequestFacts DEF SaveTell
<1>2. /\ rev' = rev /\ fields' = fields /\ row' = row /\ defLock' = defLock /\ rowLock' = rowLock
      /\ status' = status /\ ref' = ref /\ content' = content /\ history' = history
      /\ created' \cup unheard' =
           created \cup unheard \cup (IF req[q].first THEN {req[q].id} ELSE {})
      /\ created' \subseteq created \cup {req[q].id} /\ unheard' \subseteq unheard \cup {req[q].id}
  BY DEF SaveTell, Unheard, fileVars
<1>3. Tables'
  BY <1>0, <1>1, <1>2 DEF FormsInv, Tables
<1>4. Locks'
  BY <1>0, <1>1, <1>2, NoLocks DEF FormsInv, Locks, Tables
<1>5. Rows' = Rows /\ \A s, e : RowsOf(s, e)' = RowsOf(s, e)
  BY <1>2 DEF Rows, RowsOf
<1>6. Requests'
  <2>1. ASSUME NEW p \in Reqs
        PROVE  (WellFormed(req[p]) /\ OfDefinition(p, req[p]) /\ OfRecord(p, req[p]) /\ OfFiles(req[p]))'
    <3>1. /\ WellFormed(req'[p]) /\ OfDefinition(p, req'[p]) /\ OfRecord(p, req'[p]) /\ OfFiles(req'[p])
      BY <1>1, NoRequestFacts DEF FormsInv, Requests
    <3> QED BY <1>2, <3>1 DEF OfDefinition, OfRecord, OfFiles, Backed, Rows, RowsOf
  <2>2. ASSUME NEW p1 \in Reqs, NEW p2 \in Reqs, p1 # p2 PROVE Aside(req[p1], req[p2])'
    <3>1. CASE p1 = q \/ p2 = q
      BY <1>1, <2>2, <3>1, NoRequestFacts DEF Aside
    <3>2. CASE p1 # q /\ p2 # q
      <4>1. Aside(req[p1], req[p2])
        BY <2>2 DEF FormsInv, Requests
      <4> QED BY <1>1, <1>5, <3>2, <4>1 DEF Aside
    <3> QED BY <3>1, <3>2
  <2> QED BY <2>1, <2>2 DEF Requests
<1>7. /\ Recorded' /\ OneRecord' /\ FilesBehindValues' /\ NoLostEdit' /\ FitsPublished'
  BY <1>2, <1>5 DEF FormsInv, Recorded, OneRecord, FilesBehindValues, NoLostEdit, FitsPublished
<1>8. CreationClaimed'
  BY <1>0, <1>1, <1>2, <1>5 DEF FormsInv, CreationClaimed
<1> QED BY <1>3, <1>4, <1>6, <1>7, <1>8 DEF FormsInv

(***************************************************************************)
(* Uploads and cleanup leave alone the files that are held or bound.       *)
(***************************************************************************)
LEMMA FileStepInv == ASSUME FormsInv, FileStep PROVE FormsInv'
<1>1. /\ rev' = rev /\ fields' = fields /\ row' = row /\ defLock' = defLock /\ rowLock' = rowLock
      /\ req' = req /\ history' = history /\ created' = created /\ unheard' = unheard
  BY DEF FileStep
<1>2. /\ status' \in [Files -> FileStatus] /\ ref' = ref /\ content' \subseteq Files
      /\ \A f \in Files : status[f] = "attached" => status'[f] = "attached"
      /\ \A f \in Held : status[f] = "staged" => status'[f] = "staged"
  <2>t. status \in [Files -> FileStatus] /\ content \subseteq Files
    BY DEF FormsInv, Tables
  <2>1. PICK f \in Files : \/ Life!Stage(f) /\ content' = content \cup {f}
                           \/ status[f] = "staged" /\ f \notin Held /\ Life!Claim({f})
    BY DEF FileStep
  <2>2. CASE Life!Stage(f) /\ content' = content \cup {f}
    <3>1. status[f] = "none" /\ status' = [status EXCEPT ![f] = "staged"] /\ ref' = ref
      BY <2>2 DEF Life!Stage
    <3> QED BY <2>2, <2>t, <3>1 DEF FileStatus
  <2>3. CASE status[f] = "staged" /\ f \notin Held /\ Life!Claim({f})
    <3>1. /\ status' = [g \in Files |-> IF g \in {f} THEN "deleting" ELSE status[g]]
          /\ ref' = ref /\ content' = content
      BY <2>3 DEF Life!Claim
    <3>2. Held \subseteq Files
      BY DEF Held, FormsInv, Tables, ReqRecord
    <3> QED BY <2>3, <2>t, <3>1, <3>2 DEF FileStatus
  <2> QED BY <2>1, <2>2, <2>3
<1>3. Tables'
  BY <1>1, <1>2 DEF FormsInv, Tables
<1>4. Rows' = Rows /\ \A s, e : RowsOf(s, e)' = RowsOf(s, e)
  BY <1>1 DEF Rows, RowsOf
<1>5. Requests'
  <2>1. ASSUME NEW p \in Reqs
        PROVE  (WellFormed(req[p]) /\ OfDefinition(p, req[p]) /\ OfRecord(p, req[p]) /\ OfFiles(req[p]))'
    <3>1. /\ req[p] \in ReqRecord /\ WellFormed(req[p]) /\ OfDefinition(p, req[p])
          /\ OfRecord(p, req[p]) /\ OfFiles(req[p])
      BY OneOf
    <3>2. (WellFormed(req[p]) /\ OfDefinition(p, req[p]) /\ OfRecord(p, req[p]))'
      BY <1>1, <3>1 DEF OfDefinition, OfRecord, Backed, Rows, RowsOf
    <3>3. OfFiles(req[p])'
      <4>1. req[p].held \subseteq Held /\ req[p].vals.files \subseteq Files
        BY <3>1 DEF Held, ReqRecord, Values
      <4> QED BY <1>1, <1>2, <3>1, <4>1 DEF OfFiles
    <3> QED BY <3>2, <3>3
  <2>2. ASSUME NEW p1 \in Reqs, NEW p2 \in Reqs, p1 # p2 PROVE Aside(req[p1], req[p2])'
    BY <1>1, <1>4, <2>2 DEF FormsInv, Requests, Aside
  <2> QED BY <2>1, <2>2 DEF Requests
<1>6. Locks' /\ Recorded' /\ OneRecord' /\ NoLostEdit' /\ FitsPublished' /\ CreationClaimed'
  BY <1>1, <1>4 DEF FormsInv, Locks, Recorded, OneRecord, NoLostEdit, FitsPublished, CreationClaimed
<1>7. FilesBehindValues'
  <2>1. \A i \in Rows : row[i].vals.files \subseteq Files
    BY DEF Rows, FormsInv, Tables, RowRecord, Values
  <2> QED BY <1>1, <1>2, <1>4, <2>1 DEF FormsInv, FilesBehindValues
<1> QED BY <1>3, <1>5, <1>6, <1>7 DEF FormsInv

-----------------------------------------------------------------------------
(***************************************************************************)
(* The COMMIT of a save.                                                   *)
(***************************************************************************)
\* The record that is written, and what becomes of the rows of subjects.
LEMMA CommitRows ==
  ASSUME FormsInv, NEW q \in Reqs, SaveCommit(q)
  PROVE  LET y == req[q]
             i == y.id
         IN  /\ i \in Ids /\ y.slot \in Slots /\ y.subj \in Subjects
             /\ row' \in [Ids -> RowRecord]
             /\ row'[i] = [slot |-> y.slot, subj |-> y.subj, rev |-> y.rev, vals |-> y.vals]
             /\ \A j \in Ids : j # i => row'[j] = row[j]
             /\ Rows' = Rows \cup {i}
             /\ \A s, e : RowsOf(s, e)' = IF s = y.slot /\ e = y.subj
                                         THEN RowsOf(s, e) \cup {i} ELSE RowsOf(s, e)
<1> DEFINE y == req[q]
           i == y.id
           R == [slot |-> y.slot, subj |-> y.subj, rev |-> y.rev, vals |-> y.vals]
<1>1. /\ y \in ReqRecord /\ WellFormed(y) /\ OfRecord(q, y) /\ y.pc = "files" /\ row \in [Ids -> RowRecord]
  BY OneOf DEF SaveCommit, FormsInv, Tables
<1>2. i \in Ids /\ y.slot \in Slots /\ y.subj \in Subjects
  BY <1>1 DEF WellFormed, Reading, Chosen
<1>3. R \in RowRecord /\ R # NoRow /\ R.slot = y.slot /\ R.subj = y.subj
  BY <1>1, <1>2 DEF RowRecord, ReqRecord, NoRow
<1>4. row' = [row EXCEPT ![i] = R]
  BY DEF SaveCommit, RecordRevision
<1>5. /\ row' \in [Ids -> RowRecord] /\ row'[i] = R
      /\ \A j \in Ids : j # i => row'[j] = row[j]
  BY <1>1, <1>2, <1>3, <1>4
<1>6. i \in Rows => row[i].slot = y.slot /\ row[i].subj = y.subj
  BY <1>1 DEF OfRecord
<1> HIDE DEF R, i, y
<1>7. Rows' = Rows \cup {i}
  BY <1>2, <1>3, <1>5 DEF Rows
<1>8. ASSUME NEW s, NEW e
      PROVE  RowsOf(s, e)' = IF s = y.slot /\ e = y.subj THEN RowsOf(s, e) \cup {i} ELSE RowsOf(s, e)
  <2>1. ASSUME NEW j
        PROVE  j \in RowsOf(s, e)' <=> \/ j \in RowsOf(s, e) /\ j # i
                                       \/ j = i /\ s = y.slot /\ e = y.subj
    <3>1. CASE j = i
      BY <1>2, <1>3, <1>5, <1>7, <3>1 DEF RowsOf
    <3>2. CASE j # i
      BY <1>5, <1>7, <3>2 DEF RowsOf, Rows
    <3> QED BY <3>1, <3>2
  <2>2. i \in RowsOf(s, e) => s = y.slot /\ e = y.subj
    BY <1>6 DEF RowsOf
  <2> QED BY <2>1, <2>2
<1> QED BY <1>2, <1>5, <1>7, <1>8 DEF R, i, y

LEMMA SaveCommitInv == ASSUME FormsInv, NEW q \in Reqs, SaveCommit(q) PROVE FormsInv'
<1> DEFINE y == req[q]
           i == y.id
<1>0. /\ y \in ReqRecord /\ WellFormed(y) /\ OfDefinition(q, y) /\ OfRecord(q, y) /\ OfFiles(y)
      /\ y.pc = "files" /\ y.left = {} /\ y.held \subseteq Files /\ y.first \in BOOLEAN
      /\ y.vals.files \subseteq Files /\ y.rev \in Nat
  BY OneOf DEF SaveCommit, ReqRecord, Values
<1>1. /\ i \in Ids /\ y.slot \in Slots /\ y.subj \in Subjects
      /\ row' \in [Ids -> RowRecord] /\ row'[i].slot = y.slot /\ row'[i].subj = y.subj
      /\ row'[i].rev = y.rev /\ row'[i].vals = y.vals
      /\ \A j \in Ids : j # i => row'[j] = row[j]
      /\ Rows' = Rows \cup {i}
      /\ \A s, e : RowsOf(s, e)' = IF s = y.slot /\ e = y.subj
                                  THEN RowsOf(s, e) \cup {i} ELSE RowsOf(s, e)
  <2> DEFINE R == [slot |-> y.slot, subj |-> y.subj, rev |-> y.rev, vals |-> y.vals]
  <2>1. R.slot = y.slot /\ R.subj = y.subj /\ R.rev = y.rev /\ R.vals = y.vals
    OBVIOUS
  <2>2. row'[i] = R
    BY CommitRows
  <2> HIDE DEF R
  <2>3. /\ i \in Ids /\ y.slot \in Slots /\ y.subj \in Subjects /\ row' \in [Ids -> RowRecord]
        /\ \A j \in Ids : j # i => row'[j] = row[j]
        /\ Rows' = Rows \cup {i}
    BY CommitRows
  <2>4. ASSUME NEW s, NEW e
        PROVE  RowsOf(s, e)' = IF s = y.slot /\ e = y.subj THEN RowsOf(s, e) \cup {i} ELSE RowsOf(s, e)
    <3>1. \A a, b : RowsOf(a, b)' = IF a = y.slot /\ b = y.subj
                                   THEN RowsOf(a, b) \cup {i} ELSE RowsOf(a, b)
      BY CommitRows, Zenon
    <3> QED BY <3>1, Zenon
  <2> QED BY <2>1, <2>2, <2>3, <2>4
<1>2. /\ rev' = rev /\ fields' = fields /\ history' = history /\ created' = created
      /\ content' = content
      /\ defLock' = [s \in Slots |-> IF defLock[s] = q THEN Nil ELSE defLock[s]]
      /\ rowLock' = [j \in Ids |-> IF rowLock[j] = q THEN Nil ELSE rowLock[j]]
      /\ \A f \in y.held : status[f] = "staged"
      /\ status' = [f \in Files |-> IF f \in y.held THEN "attached" ELSE status[f]]
      /\ ref' = [f \in Files |-> IF f \in y.held THEN i ELSE ref[f]]
  BY DEF SaveCommit, Release, Life!Bind
<1>s. PICK x : /\ Set(q, x)
               /\ \/ /\ x = [NoRequest EXCEPT !.pc = "tell", !.first = y.first, !.id = i]
                     /\ unheard' = unheard
                  \/ x = NoRequest /\ unheard' = Unheard(q)
  BY DEF SaveCommit
<1>x. /\ x \in ReqRecord /\ x.pc \in {"tell", "idle"} /\ x.held = {} /\ WellFormed(x)
      /\ unheard' \subseteq unheard \cup {i} /\ unheard \subseteq unheard'
      /\ y.first => (x.pc = "tell" /\ x.first /\ x.id = i) \/ i \in unheard'
  <2>1. CASE x = [NoRequest EXCEPT !.pc = "tell", !.first = y.first, !.id = i] /\ unheard' = unheard
    <3>1. NoRequest \in ReqRecord /\ NoRequest.held = {}
      BY NoRequestFacts DEF WellFormed
    <3>2. x \in ReqRecord /\ x.pc = "tell" /\ x.first = y.first /\ x.id = i /\ x.held = {}
      BY <1>0, <1>1, <2>1, <3>1 DEF ReqRecord, ReqPc
    <3>3. WellFormed(x)
      BY <1>1, <3>2 DEF WellFormed, Editing, Reading, Chosen
    <3> QED BY <2>1, <3>2, <3>3
  <2>2. CASE x = NoRequest /\ unheard' = Unheard(q)
    <3>1. NoRequest \in ReqRecord /\ NoRequest.held = {} /\ NoRequest.pc = "idle" /\ WellFormed(NoRequest)
      BY NoRequestFacts DEF WellFormed, NoRequest
    <3> QED BY <2>2, <3>1 DEF Unheard
  <2> QED BY <1>s, <2>1, <2>2
<1>w. WellFormed(x)
  BY <1>x
<1>3. /\ req' \in [Reqs -> ReqRecord] /\ req'[q] = x
      /\ \A p \in Reqs : p # q => req'[p] = req[p]
  BY <1>s, <1>w, SetFacts
<1>t. /\ status \in [Files -> FileStatus] /\ ref \in [Files -> Ids \cup {Nil}]
      /\ defLock \in [Slots -> Reqs \cup {Nil}] /\ rowLock \in [Ids -> Reqs \cup {Nil}]
      /\ row \in [Ids -> RowRecord]
  BY DEF FormsInv, Tables
<1>g. req[q].pc = "files"
  BY <1>0
<1> HIDE DEF y, i
<1>b. \A f \in Files : status[f] = "attached" => status'[f] = "attached" /\ ref'[f] = ref[f]
  BY <1>2
<1>4. Tables'
  <2>1. status' \in [Files -> FileStatus] /\ ref' \in [Files -> Ids \cup {Nil}]
    BY <1>1, <1>2, <1>t DEF FileStatus
  <2>2. unheard' \subseteq Ids
    BY <1>1, <1>x DEF FormsInv, Tables
  <2> QED BY <1>1, <1>2, <1>3, <2>1, <2>2 DEF FormsInv, Tables
<1>5. Locks'
  BY <1>2, <1>3, <1>t DEF FormsInv, Locks
<1>6. Requests'
  <2>1. (WellFormed(req[q]) /\ OfDefinition(q, req[q]) /\ OfRecord(q, req[q]) /\ OfFiles(req[q]))'
    BY <1>3, <1>w, <1>x DEF OfDefinition, OfRecord, OfFiles, Reading, Chosen
  <2>2. ASSUME NEW p \in Reqs, p # q
        PROVE  (WellFormed(req[p]) /\ OfDefinition(p, req[p]) /\ OfRecord(p, req[p]) /\ OfFiles(req[p]))'
    <3> DEFINE z == req[p]
    <3>0. req'[p] = z
      BY <1>3, <2>2
    <3>1. /\ z \in ReqRecord /\ WellFormed(z) /\ OfDefinition(p, z) /\ OfRecord(p, z) /\ OfFiles(z)
          /\ Aside(z, y)
      BY <2>2, OneOf DEF y
    <3> HIDE DEF z
    <3>2. WellFormed(req[p])'
      BY <3>0, <3>1
    <3>3. OfDefinition(p, req[p])'
      <4>1. z.pc = "replaced" => z.slot \in Slots
        BY <3>1 DEF WellFormed, Editing
      <4> QED BY <1>2, <2>2, <3>0, <3>1, <4>1 DEF OfDefinition, Backed
    <3>4. OfRecord(p, req[p])'
      <4>1. z.pc = "files" => z.id \in Ids /\ z.id # i
        BY <1>0, <3>1 DEF WellFormed, Aside, i
      <4>2. z.pc = "files" /\ z.id \in Rows' =>
              rowLock'[z.id] = p /\ row'[z.id].slot = z.slot /\ row'[z.id].subj = z.subj
        BY <1>1, <1>2, <2>2, <3>1, <4>1 DEF OfRecord
      <4>3. ASSUME z.pc = "files", z.id \notin Rows', z.slot \in Singletons,
                   NEW s, NEW e, s = z.slot, e = z.subj
            PROVE  RowsOf(s, e)' = {}
        <5>1. RowsOf(z.slot, z.subj) = {} /\ z.id \notin Rows
          BY <1>1, <3>1, <4>3 DEF OfRecord
        <5>2. ~(z.slot = y.slot /\ z.subj = y.subj)
          <6>1. CASE i \in Rows
            <7>1. i \in RowsOf(y.slot, y.subj)
              BY <1>0, <6>1 DEF OfRecord, RowsOf, i
            <7> QED BY <5>1, <7>1
          <6>2. CASE i \notin Rows
            BY <1>0, <3>1, <4>3, <5>1, <6>2 DEF Aside, i
          <6> QED BY <6>1, <6>2
        <5> QED BY <1>1, <4>3, <5>1, <5>2
      <4>4. ASSUME z.pc \in Chosen, NEW s, NEW e, s = z.slot, e = z.subj
            PROVE  z.first \/ (z.slot \in Singletons /\ RowsOf(s, e)' # {})
        <5>1. RowsOf(s, e) \subseteq RowsOf(s, e)'
          BY <1>1
        <5> QED BY <3>1, <4>4, <5>1 DEF OfRecord
      <4> QED BY <3>0, <4>2, <4>3, <4>4 DEF OfRecord
    <3>5. OfFiles(req[p])'
      <4>1. z.held \subseteq Files /\ z.vals.files \subseteq Files /\ z.held \cap y.held = {}
        BY <3>1 DEF ReqRecord, Values, Aside
      <4>2. \A f \in z.held : status'[f] = "staged"
        BY <1>2, <3>1, <4>1 DEF OfFiles
      <4>3. z.pc = "files" =>
              \A f \in z.vals.files :
                f \in z.left \cup z.held \/ (status'[f] = "attached" /\ ref'[f] = z.id)
        BY <1>b, <3>1, <4>1 DEF OfFiles
      <4> QED BY <3>0, <4>2, <4>3 DEF OfFiles
    <3> QED BY <3>2, <3>3, <3>4, <3>5
  <2>3. ASSUME NEW p1 \in Reqs, NEW p2 \in Reqs, p1 # p2 PROVE Aside(req[p1], req[p2])'
    <3>1. CASE p1 = q \/ p2 = q
      BY <1>3, <1>x, <2>3, <3>1 DEF Aside
    <3>2. CASE p1 # q /\ p2 # q
      <4>1. Aside(req[p1], req[p2])
        BY <2>3 DEF FormsInv, Requests
      <4> QED BY <1>1, <1>3, <3>2, <4>1 DEF Aside
    <3> QED BY <3>1, <3>2
  <2> QED BY <2>1, <2>2, <2>3 DEF Requests
<1>7. Recorded' /\ NoLostEdit'
  BY <1>2 DEF FormsInv, Recorded, NoLostEdit
<1>8. OneRecord'
  <2> SUFFICES ASSUME NEW s \in Singletons, NEW e \in Subjects,
                      NEW j \in RowsOf(s, e)', NEW k \in RowsOf(s, e)'
               PROVE  j = k
    BY DEF OneRecord
  <2>0. \A a, b \in RowsOf(s, e) : a = b
    BY DEF FormsInv, OneRecord
  <2>1. CASE s = y.slot /\ e = y.subj
    <3>1. CASE i \in Rows
      <4>1. i \in RowsOf(y.slot, y.subj)
        BY <1>0, <3>1 DEF OfRecord, RowsOf, i
      <4> QED BY <1>1, <2>0, <2>1, <4>1
    <3>2. CASE i \notin Rows
      <4>1. RowsOf(y.slot, y.subj) = {}
        BY <1>0, <2>1, <3>2 DEF OfRecord, i
      <4> QED BY <1>1, <2>1, <4>1
    <3> QED BY <3>1, <3>2
  <2>2. CASE s # y.slot \/ e # y.subj
    BY <1>1, <2>0, <2>2
  <2> QED BY <2>1, <2>2
<1>9. FilesBehindValues'
  <2> SUFFICES ASSUME NEW j \in Rows', NEW f \in row'[j].vals.files
               PROVE  status'[f] = "attached" /\ ref'[f] = j
    BY DEF FilesBehindValues
  <2>1. CASE j = i
    <3>1. f \in y.vals.files /\ f \in Files
      BY <1>0, <1>1, <2>1
    <3>2. f \in y.held \/ (status[f] = "attached" /\ ref[f] = i)
      BY <1>0, <3>1 DEF OfFiles, i
    <3> QED BY <1>2, <1>b, <2>1, <3>1, <3>2
  <2>2. CASE j # i
    <3>1. j \in Rows /\ row'[j] = row[j] /\ j \in Ids
      BY <1>1, <2>2 DEF Rows
    <3>2. f \in Files
      BY <1>t, <3>1 DEF RowRecord, Values
    <3>3. status[f] = "attached" /\ ref[f] = j
      BY <3>1 DEF FormsInv, FilesBehindValues
    <3> QED BY <1>b, <3>2, <3>3
  <2> QED BY <2>1, <2>2
<1>10. FitsPublished'
  <2> SUFFICES ASSUME NEW j \in Rows'
               PROVE  \E h \in history : h.slot = row'[j].slot /\ h.rev >= row'[j].rev /\ Fits(row'[j].vals, h.fields)
    BY <1>2 DEF FitsPublished
  <2>1. CASE j = i
    BY <1>0, <1>1, <2>1 DEF OfDefinition, Backed, Chosen
  <2>2. CASE j # i
    <3>1. j \in Rows /\ row'[j] = row[j]
      BY <1>1, <2>2 DEF Rows
    <3> QED BY <3>1 DEF FormsInv, FitsPublished
  <2> QED BY <2>1, <2>2
<1>11. CreationClaimed'
  <2> SUFFICES ASSUME NEW j \in Rows'
               PROVE  \/ j \in created \cup unheard'
                      \/ \E p \in Reqs : req'[p].pc = "tell" /\ req'[p].first /\ req'[p].id = j
    BY <1>2 DEF CreationClaimed
  <2>1. CASE j \in Rows
    <3>1. \/ j \in created \cup unheard
          \/ \E p \in Reqs : req[p].pc = "tell" /\ req[p].first /\ req[p].id = j
      BY <2>1 DEF FormsInv, CreationClaimed
    <3> QED BY <1>3, <1>g, <1>x, <3>1
  <2>2. CASE j \notin Rows
    <3>1. j = i
      BY <1>1, <2>2
    <3>2. y.first
      BY <1>0, <2>2, <3>1 DEF OfRecord, Chosen, i
    <3> QED BY <1>3, <1>x, <3>1, <3>2
  <2> QED BY <2>1, <2>2
<1> QED BY <1>4, <1>5, <1>6, <1>7, <1>8, <1>9, <1>10, <1>11 DEF FormsInv

-----------------------------------------------------------------------------
LEMMA NextInv == FormsInv /\ [Next]_vars => FormsInv'
<1> SUFFICES ASSUME FormsInv, [Next]_vars PROVE FormsInv'
  OBVIOUS
<1>1. ASSUME NEW q \in Reqs, EditBegin(q) \/ Edit(q) PROVE FormsInv'
  BY <1>1, EditBeginInv, EditReadInv, EditDefineInv, EditReplaceInv, EditCommitInv DEF Edit
<1>2. ASSUME NEW q \in Reqs, SaveBegin(q) \/ Save(q) PROVE FormsInv'
  BY <1>2, SaveBeginInv, SaveDefinitionInv, SaveFieldsInv, SaveLookInv, SaveFindInv,
     SaveInsertInv, SaveAttachInv, SaveCommitInv, SaveTellInv DEF Save
<1>3. ASSUME NEW q \in Reqs, Fails(q) PROVE FormsInv'
  BY <1>3, RollbackInv DEF Fails
<1>4. CASE UNCHANGED vars
  BY <1>4 DEF vars, fileVars, FormsInv, Tables, Locks, Recorded, Requests, WellFormed, OfDefinition,
     Backed, OfRecord, OfFiles, Aside, Rows, RowsOf, OneRecord, FilesBehindValues, NoLostEdit,
     FitsPublished, CreationClaimed
<1> QED BY <1>1, <1>2, <1>3, <1>4, FileStepInv DEF Next

LEMMA Invariant == Spec => []FormsInv
<1> QED BY InitInv, NextInv, PTL DEF Spec

(* Types, and which requests hold rows.                                     *)
THEOREM TypeCorrect == Spec => []TypeOK
<1> QED BY Invariant, InvTyped, PTL

(***************************************************************************)
(* A subject has one record in a singleton slot, whatever first saves meet *)
(* (reserveRecord, insertSingletonRecordOrUseExisting).                    *)
(***************************************************************************)
THEOREM OneRecordPerSubject == Spec => []OneRecord
<1>1. FormsInv => OneRecord
  BY DEF FormsInv
<1> QED BY <1>1, Invariant, PTL

(***************************************************************************)
(* What the values of a record name is bound to it (attachFiles inside     *)
(* saveRecord, beside uploads, cleanup and other saves).                   *)
(***************************************************************************)
THEOREM ValuesHaveTheirFiles == Spec => []FilesBehindValues
<1>1. FormsInv => FilesBehindValues
  BY DEF FormsInv
<1> QED BY <1>1, Invariant, PTL

(* Each revision was made from the one before (replaceDefinitionFields).    *)
THEOREM EditsAreNotLost == Spec => []NoLostEdit
<1>1. FormsInv => NoLostEdit
  BY DEF FormsInv
<1> QED BY <1>1, Invariant, PTL

(***************************************************************************)
(* The values of a record fit one published revision, no older than the    *)
(* one it names (findDefinitionWithFields, validateRecordValues).          *)
(***************************************************************************)
THEOREM ValuesFitSomeRevision == Spec => []FitsPublished
<1>1. FormsInv => FitsPublished
  BY DEF FormsInv
<1> QED BY <1>1, Invariant, PTL

(* Some committed save takes every record for new, and reports it unless it *)
(* fails after its COMMIT (upsertRecordBySubject, createRecord).            *)
THEOREM CreationIsClaimed == Spec => []CreationClaimed
<1>1. FormsInv => CreationClaimed
  BY DEF FormsInv
<1> QED BY <1>1, Invariant, PTL

-----------------------------------------------------------------------------
(***************************************************************************)
(* Which steps change what is committed.                                   *)
(***************************************************************************)
LEMMA StepCases ==
  ASSUME [Next]_vars
  PROVE  \/ FileStep
         \/ \E q \in Reqs : EditCommit(q)
         \/ \E q \in Reqs : SaveCommit(q)
         \/ UNCHANGED <<rev, fields, row, fileVars, history>>
<1>1. ASSUME NEW q \in Reqs, EditBegin(q) \/ EditRead(q) \/ EditDefine(q) \/ EditReplace(q) \/ Fails(q)
      PROVE  UNCHANGED <<rev, fields, row, fileVars, history>>
  BY <1>1 DEF EditBegin, EditRead, EditDefine, EditReplace, Fails, Rollback, Frame
<1>2. ASSUME NEW q \in Reqs, SaveBegin(q) \/ SaveDefinition(q) \/ SaveFields(q) \/ SaveLook(q)
      PROVE  UNCHANGED <<rev, fields, row, fileVars, history>>
  BY <1>2 DEF SaveBegin, SaveDefinition, SaveFields, SaveLook, Validate, Rollback, Frame
<1>3. ASSUME NEW q \in Reqs, SaveFind(q) \/ SaveInsert(q) \/ SaveAttach(q) \/ SaveTell(q)
      PROVE  UNCHANGED <<rev, fields, row, fileVars, history>>
  BY <1>3 DEF SaveFind, SaveInsert, SaveAttach, SaveTell, Rollback, Frame
<1>4. CASE UNCHANGED vars
  BY <1>4 DEF vars
<1> QED BY <1>1, <1>2, <1>3, <1>4 DEF Next, Edit, Save

-----------------------------------------------------------------------------
(***************************************************************************)
(* The forms module keeps the promise of the files module and may rely on  *)
(* it: it binds only files that are staged, those of one save together.    *)
(***************************************************************************)
Promise == INSTANCE FileLifecycleProofs WITH Refs <- Ids

LEMMA PromiseStep == FormsInv /\ [Next]_vars => [Promise!Next]_Promise!vars
<1> SUFFICES ASSUME FormsInv, [Next]_vars PROVE [Promise!Next]_Promise!vars
  OBVIOUS
<1>1. CASE FileStep
  <2>1. PICK f \in Files : \/ Life!Stage(f)
                           \/ status[f] = "staged" /\ f \notin Held /\ Life!Claim({f})
    BY <1>1 DEF FileStep
  <2>2. CASE Life!Stage(f)
    BY <2>2 DEF Life!Stage, Promise!Stage, Promise!Next
  <2>3. CASE Life!Claim({f})
    <3>1. Promise!Claim({f}) /\ {f} \in SUBSET Files
      BY <2>3 DEF Life!Claim, Promise!Claim
    <3> QED BY <3>1 DEF Promise!Next
  <2> QED BY <2>1, <2>2, <2>3
<1>2. ASSUME NEW q \in Reqs, SaveCommit(q) PROVE Promise!Next
  <2>1. Life!Bind(req[q].held, req[q].id) /\ req[q].pc = "files"
    BY <1>2 DEF SaveCommit
  <2>2. req[q].held \in SUBSET Files /\ req[q].id \in Ids
    BY <2>1 DEF FormsInv, Tables, Requests, WellFormed, ReqRecord
  <2>3. Promise!Bind(req[q].held, req[q].id)
    BY <2>1 DEF Life!Bind, Promise!Bind
  <2> QED BY <2>2, <2>3 DEF Promise!Next
<1>3. ASSUME NEW q \in Reqs, EditCommit(q) PROVE UNCHANGED fileVars
  BY <1>3 DEF EditCommit
<1>4. UNCHANGED fileVars => UNCHANGED Promise!vars
  BY DEF fileVars, Promise!vars
<1> QED BY <1>1, <1>2, <1>3, <1>4, StepCases

(* Seen from the files, saves are units of work as FileStore runs them: the *)
(* two components fit at the promise between them.                          *)
THEOREM FilesAsPromised == Spec => Promise!Spec
<1>1. Init => Promise!Init
  BY DEF Init, Life!Init, Promise!Init
<1> QED BY <1>1, PromiseStep, Invariant, PTL DEF Spec, Promise!Spec

(* Hence what a record has got it keeps: a file bound to it stays bound to  *)
(* it with its bytes, whatever is saved, fails or is cleaned up later.      *)
THEOREM RecordsKeepTheirFiles == Spec => Promise!AttachedForGood
BY FilesAsPromised, Promise!BoundForGood, PTL

-----------------------------------------------------------------------------
(***************************************************************************)
(* A record that is there stays there, about the same subject and in the   *)
(* same slot, and only records of singleton slots are ever written again.  *)
(***************************************************************************)
StaysSo(i) ==
  /\ i \in Rows' /\ row'[i].slot = row[i].slot /\ row'[i].subj = row[i].subj
  /\ row[i].slot \notin Singletons => row'[i] = row[i]

RecordsStay == [][\A i \in Rows : StaysSo(i)]_vars

\* A save that found its record is an upsert.
UpdatesSingletons ==
  \A q \in Reqs : req[q].pc = "files" /\ req[q].id \in Rows => req[q].slot \in Singletons

LEMMA StayNext == ASSUME FormsInv, UpdatesSingletons, [Next]_vars, NEW i \in Rows PROVE StaysSo(i)
<1>1. CASE UNCHANGED row
  BY <1>1 DEF StaysSo, Rows
<1>2. ASSUME NEW q \in Reqs, SaveCommit(q) PROVE StaysSo(i)
  <2>1. /\ req[q].pc = "files" /\ req[q].id \in Ids
        /\ row'[req[q].id].slot = req[q].slot /\ row'[req[q].id].subj = req[q].subj
        /\ \A j \in Ids : j # req[q].id => row'[j] = row[j]
        /\ Rows' = Rows \cup {req[q].id}
    BY <1>2, CommitRows DEF SaveCommit
  <2>2. CASE i = req[q].id
    <3>1. row[i].slot = req[q].slot /\ row[i].subj = req[q].subj
      BY <2>1, <2>2 DEF FormsInv, Requests, OfRecord
    <3>2. req[q].slot \in Singletons
      BY <2>1, <2>2 DEF UpdatesSingletons
    <3> QED BY <2>1, <2>2, <3>1, <3>2 DEF StaysSo
  <2>3. CASE i # req[q].id
    <3>1. i \in Ids /\ row'[i] = row[i]
      BY <2>1, <2>3 DEF Rows
    <3> QED BY <2>1, <3>1 DEF StaysSo
  <2> QED BY <2>2, <2>3
<1>3. FileStep \/ (\E q \in Reqs : EditCommit(q)) => UNCHANGED row
  BY DEF FileStep, EditCommit
<1> QED BY <1>1, <1>2, <1>3, StepCases

LEMMA UpdatesNext ==
  ASSUME FormsInv, FormsInv', UpdatesSingletons, [Next]_vars PROVE UpdatesSingletons'
<1>t. req \in [Reqs -> ReqRecord]
  BY DEF FormsInv, Tables
<1>n. NoRequest.pc = "idle"
  BY NoRequestFacts
<1>1. ASSUME UNCHANGED row, NEW q \in Reqs,
             \E x : Set(q, x) /\ (x.pc = "files" /\ x.id \in Rows => x.slot \in Singletons)
      PROVE  UpdatesSingletons'
  BY <1>1, <1>t DEF UpdatesSingletons, Set, Rows
<1>2. ASSUME UNCHANGED <<row, req>> PROVE UpdatesSingletons'
  BY <1>2 DEF UpdatesSingletons, Rows
<1>3. ASSUME NEW q \in Reqs, EditBegin(q) \/ SaveBegin(q) PROVE UpdatesSingletons'
  <2>1. PICK x : Set(q, x) /\ x.pc \in {"edit", "definition"}
    <3>1. NoRequest \in ReqRecord
      BY NoRequestFacts DEF WellFormed
    <3>2. CASE EditBegin(q)
      <4>1. PICK s, seen : Set(q, [NoRequest EXCEPT !.pc = "edit", !.slot = s, !.rev = seen])
        BY <3>2 DEF EditBegin
      <4>2. [NoRequest EXCEPT !.pc = "edit", !.slot = s, !.rev = seen].pc = "edit"
        BY <3>1 DEF ReqRecord
      <4> QED BY <4>1, <4>2
    <3>3. CASE SaveBegin(q)
      <4>1. PICK s, e : Set(q, [NoRequest EXCEPT !.pc = "definition", !.slot = s, !.subj = e])
        BY <3>3 DEF SaveBegin
      <4>2. [NoRequest EXCEPT !.pc = "definition", !.slot = s, !.subj = e].pc = "definition"
        BY <3>1 DEF ReqRecord
      <4> QED BY <4>1, <4>2
    <3> QED BY <1>3, <3>2, <3>3
  <2> QED BY <1>1, <1>3, <2>1 DEF EditBegin, SaveBegin, Frame
<1>4. ASSUME NEW q \in Reqs, Rollback(q) PROVE UpdatesSingletons'
  BY <1>1, <1>4, <1>n DEF Rollback
<1>5. ASSUME NEW q \in Reqs, NEW pc, pc # "files", To(q, pc), UNCHANGED row PROVE UpdatesSingletons'
  <2>1. req[q] \in ReqRecord
    BY <1>t
  <2>2. [req[q] EXCEPT !.pc = pc].pc = pc
    BY <2>1 DEF ReqRecord
  <2> QED BY <1>1, <1>5, <2>2 DEF To
<1>6. ASSUME NEW q \in Reqs, Edit(q) \/ SaveDefinition(q) PROVE UpdatesSingletons'
  <2>0. req[q] \in ReqRecord
    BY <1>t
  <2>1. CASE EditRead(q)
    BY <1>4, <1>5, <2>1 DEF EditRead, Frame
  <2>2. CASE EditDefine(q)
    BY <1>4, <1>5, <2>2 DEF EditDefine, Frame
  <2>3. CASE EditReplace(q)
    BY <1>4, <1>5, <2>3 DEF EditReplace, Frame
  <2>4. CASE EditCommit(q)
    BY <1>1, <1>n, <2>4 DEF EditCommit
  <2>5. CASE SaveDefinition(q)
    <3>1. [req[q] EXCEPT !.pc = "fields", !.rev = rev[req[q].slot]].pc = "fields"
      BY <2>0 DEF ReqRecord
    <3> QED BY <1>1, <1>4, <2>5, <3>1 DEF SaveDefinition, Frame
  <2> QED BY <1>6, <2>1, <2>2, <2>3, <2>4, <2>5 DEF Edit
<1>7. ASSUME NEW q \in Reqs, NEW sch, NEW first, Validate(q, sch, first) PROVE UpdatesSingletons'
  <2>0. req[q] \in ReqRecord
    BY <1>t
  <2>1. ASSUME NEW v, Set(q, [req[q] EXCEPT !.pc = "find", !.fields = NoSchema, !.first = first,
                                            !.vals = v, !.left = v.files]), UNCHANGED row
        PROVE  UpdatesSingletons'
    <3>1. [req[q] EXCEPT !.pc = "find", !.fields = NoSchema, !.first = first,
                         !.vals = v, !.left = v.files].pc = "find"
      BY <2>0 DEF ReqRecord
    <3> QED BY <1>1, <2>1, <3>1
  <2> QED BY <1>4, <1>7, <2>1 DEF Validate, Frame
<1>8. ASSUME NEW q \in Reqs, SaveFields(q) \/ SaveLook(q) PROVE UpdatesSingletons'
  <2>0. req[q] \in ReqRecord
    BY <1>t
  <2>1. CASE SaveFields(q)
    <3>1. [req[q] EXCEPT !.pc = "look", !.fields = fields[req[q].slot]].pc = "look"
      BY <2>0 DEF ReqRecord
    <3> QED BY <1>1, <1>7, <2>1, <3>1 DEF SaveFields, Frame
  <2>2. CASE SaveLook(q)
    BY <1>7, <2>2 DEF SaveLook
  <2> QED BY <1>8, <2>1, <2>2
<1>9. ASSUME NEW q \in Reqs, NEW i, Reserve(q, i), UNCHANGED row,
             i \in Rows => req[q].slot \in Singletons
      PROVE  UpdatesSingletons'
  <2>1. req[q] \in ReqRecord
    BY <1>t
  <2>2. /\ [req[q] EXCEPT !.pc = "files", !.id = i].id = i
        /\ [req[q] EXCEPT !.pc = "files", !.id = i].slot = req[q].slot
    BY <2>1 DEF ReqRecord
  <2> QED BY <1>1, <1>9, <2>2 DEF Reserve
<1>10. ASSUME NEW q \in Reqs, SaveFind(q) PROVE UpdatesSingletons'
  BY <1>5, <1>9, <1>10 DEF SaveFind, Frame
<1>11. ASSUME NEW q \in Reqs, SaveInsert(q) PROVE UpdatesSingletons'
  BY <1>5, <1>9, <1>11 DEF SaveInsert, FreshIds, Frame
<1>12. ASSUME NEW q \in Reqs, SaveAttach(q) PROVE UpdatesSingletons'
  <2>0. req[q] \in ReqRecord
    BY <1>t
  <2>1. req[q].pc = "files"
    BY <1>12 DEF SaveAttach
  <2>2. \A f : /\ Claimed(q, f).pc = req[q].pc /\ Claimed(q, f).id = req[q].id
               /\ Claimed(q, f).slot = req[q].slot
               /\ Passed(q, f).pc = req[q].pc /\ Passed(q, f).id = req[q].id
               /\ Passed(q, f).slot = req[q].slot
    BY <2>0 DEF ReqRecord, Claimed, Passed
  <2>3. \/ Rollback(q)
        \/ UNCHANGED row /\ \E f : Set(q, Claimed(q, f)) \/ Set(q, Passed(q, f))
    BY <1>12 DEF SaveAttach, Frame
  <2> QED BY <1>1, <1>4, <2>1, <2>2, <2>3 DEF UpdatesSingletons
<1>13. ASSUME NEW q \in Reqs, SaveCommit(q) PROVE UpdatesSingletons'
  <2>1. [NoRequest EXCEPT !.pc = "tell", !.first = req[q].first, !.id = req[q].id].pc = "tell"
    BY NoRequestFacts DEF WellFormed, ReqRecord
  <2>2. PICK x : Set(q, x) /\ x.pc # "files" /\ req[q].pc = "files"
    BY <1>13, <1>n, <2>1 DEF SaveCommit
  <2>3. req'[q] = x /\ \A p \in Reqs \ {q} : req'[p] = req[p]
    BY <1>t, <2>2 DEF Set
  <2>4. Rows' = Rows \cup {req[q].id}
    BY <1>13, CommitRows
  <2>5. \A p \in Reqs \ {q} : req[p].pc = "files" => req[p].id # req[q].id
    BY <2>2 DEF FormsInv, Requests, Aside
  <2> QED BY <2>2, <2>3, <2>4, <2>5 DEF UpdatesSingletons
<1>14. ASSUME NEW q \in Reqs, SaveTell(q) PROVE UpdatesSingletons'
  BY <1>1, <1>14, <1>n DEF SaveTell
<1>15. CASE FileStep \/ UNCHANGED vars
  BY <1>2, <1>15 DEF FileStep, vars
<1>16. ASSUME NEW q \in Reqs, Save(q) \/ Fails(q) PROVE UpdatesSingletons'
  BY <1>4, <1>6, <1>8, <1>10, <1>11, <1>12, <1>13, <1>14, <1>16 DEF Save, Fails
<1> QED BY <1>3, <1>6, <1>15, <1>16 DEF Next

(* Inserts never meet an id that is taken and upserts never another         *)
(* subject's record, so nobody's record is overwritten or lost              *)
(* (reserveRecord, replaceRecordValues).                                    *)
THEOREM RecordsAreKept == Spec => RecordsStay
<1>1. Init => UpdatesSingletons
  BY DEF Init, UpdatesSingletons, NoRequest
<1>2. FormsInv /\ UpdatesSingletons /\ [Next]_vars => [\A i \in Rows : StaysSo(i)]_vars
  BY StayNext
<1> QED BY <1>1, <1>2, UpdatesNext, Invariant, PTL DEF Spec, RecordsStay

-----------------------------------------------------------------------------
(***************************************************************************)
(* The revisions of a definition are one line: each number from 1 to the   *)
(* current one was published once, and what a record cites is in it.       *)
(***************************************************************************)
OneLine ==
  /\ \A h \in history : h.rev \in 1..rev[h.slot]
  /\ \A g, h \in history : g.slot = h.slot /\ g.rev = h.rev => g = h
  /\ \A s \in Slots : \A r \in 1..rev[s] : \E h \in history : h.slot = s /\ h.rev = r
CitesPublished == \A i \in Rows : row[i].rev \in 1..rev[row[i].slot]

ReadsPublished == \A q \in Reqs : req[q].pc \in Reading => req[q].rev \in 1..rev[req[q].slot]

\* Where a request that has read a definition has its revision from.
ReadBefore(x, y) == x.pc \in Reading /\ y.rev = x.rev /\ y.slot = x.slot
ReadNow(x, y) == y.slot = x.slot /\ x.slot \in Slots /\ y.rev = rev[x.slot] /\ rev[x.slot] # 0
Becomes(x, y) == y = x \/ y.pc \notin Reading \/ ReadBefore(x, y) \/ ReadNow(x, y)

LEMMA ReqStep == ASSUME FormsInv, [Next]_vars, NEW p \in Reqs PROVE Becomes(req[p], req'[p])
<1>t. req \in [Reqs -> ReqRecord]
  BY DEF FormsInv, Tables
<1>n. NoRequest.pc \notin Reading
  BY NoRequestFacts DEF Reading, Chosen
<1>1. ASSUME NEW q \in Reqs, NEW x, Set(q, x), Becomes(req[q], x) PROVE Becomes(req[p], req'[p])
  BY <1>1, <1>t DEF Set, Becomes
<1>2. ASSUME NEW q \in Reqs, NEW x, Set(q, x), x.pc \notin Reading PROVE Becomes(req[p], req'[p])
  BY <1>1, <1>2 DEF Becomes
<1>3. ASSUME NEW q \in Reqs, Rollback(q) PROVE Becomes(req[p], req'[p])
  BY <1>2, <1>3, <1>n DEF Rollback
<1>4. ASSUME NEW q \in Reqs, NEW pc, To(q, pc), req[q].pc \in Reading \/ pc \notin Reading
      PROVE  Becomes(req[p], req'[p])
  <2>1. req[q] \in ReqRecord
    BY <1>t
  <2>2. /\ [req[q] EXCEPT !.pc = pc].pc = pc
        /\ [req[q] EXCEPT !.pc = pc].rev = req[q].rev
        /\ [req[q] EXCEPT !.pc = pc].slot = req[q].slot
    BY <2>1 DEF ReqRecord
  <2>3. Becomes(req[q], [req[q] EXCEPT !.pc = pc])
    BY <1>4, <2>2 DEF Becomes, ReadBefore
  <2> QED BY <1>1, <1>4, <2>3 DEF To
<1>5. ASSUME NEW q \in Reqs, EditBegin(q) \/ SaveBegin(q) PROVE Becomes(req[p], req'[p])
  <2>0. NoRequest \in ReqRecord
    BY NoRequestFacts DEF WellFormed
  <2>1. CASE EditBegin(q)
    <3>1. PICK s, seen : Set(q, [NoRequest EXCEPT !.pc = "edit", !.slot = s, !.rev = seen])
      BY <2>1 DEF EditBegin
    <3>2. [NoRequest EXCEPT !.pc = "edit", !.slot = s, !.rev = seen].pc = "edit"
      BY <2>0 DEF ReqRecord
    <3> QED BY <1>2, <3>1, <3>2 DEF Reading, Chosen
  <2>2. CASE SaveBegin(q)
    <3>1. PICK s, e : Set(q, [NoRequest EXCEPT !.pc = "definition", !.slot = s, !.subj = e])
      BY <2>2 DEF SaveBegin
    <3>2. [NoRequest EXCEPT !.pc = "definition", !.slot = s, !.subj = e].pc = "definition"
      BY <2>0 DEF ReqRecord
    <3> QED BY <1>2, <3>1, <3>2 DEF Reading, Chosen
  <2> QED BY <1>5, <2>1, <2>2
<1>6. ASSUME NEW q \in Reqs, Edit(q) PROVE Becomes(req[p], req'[p])
  <2>1. "define" \notin Reading /\ "defined" \notin Reading
        /\ "replace" \notin Reading /\ "replaced" \notin Reading
    BY DEF Reading, Chosen
  <2>2. CASE EditRead(q) \/ EditDefine(q) \/ EditReplace(q)
    BY <1>3, <1>4, <2>1, <2>2 DEF EditRead, EditDefine, EditReplace
  <2>3. CASE EditCommit(q)
    BY <1>2, <1>n, <2>3 DEF EditCommit
  <2> QED BY <1>6, <2>2, <2>3 DEF Edit
<1>7. ASSUME NEW q \in Reqs, SaveDefinition(q) PROVE Becomes(req[p], req'[p])
  <2>1. CASE Rollback(q)
    BY <1>3, <2>1
  <2>2. CASE ~Rollback(q)
    <3> DEFINE x == [req[q] EXCEPT !.pc = "fields", !.rev = rev[req[q].slot]]
    <3>1. Set(q, x) /\ rev[req[q].slot] # 0 /\ req[q].pc = "definition"
      BY <1>7, <2>2 DEF SaveDefinition
    <3>2. x.rev = rev[req[q].slot] /\ x.slot = req[q].slot
      BY <1>t DEF ReqRecord
    <3>3. req[q].slot \in Slots
      BY <3>1 DEF FormsInv, Requests, WellFormed
    <3>4. Becomes(req[q], x)
      BY <3>1, <3>2, <3>3 DEF Becomes, ReadNow
    <3> QED BY <1>1, <3>1, <3>4
  <2> QED BY <2>1, <2>2
<1>8. ASSUME NEW q \in Reqs, NEW sch, NEW first, Validate(q, sch, first), req[q].pc \in Reading
      PROVE  Becomes(req[p], req'[p])
  <2>1. ASSUME NEW v, Set(q, [req[q] EXCEPT !.pc = "find", !.fields = NoSchema, !.first = first,
                                            !.vals = v, !.left = v.files])
        PROVE  Becomes(req[p], req'[p])
    <3> DEFINE x == [req[q] EXCEPT !.pc = "find", !.fields = NoSchema, !.first = first,
                                   !.vals = v, !.left = v.files]
    <3>1. x.rev = req[q].rev /\ x.slot = req[q].slot
      BY <1>t DEF ReqRecord
    <3>2. Becomes(req[q], x)
      BY <1>8, <3>1 DEF Becomes, ReadBefore
    <3> QED BY <1>1, <2>1, <3>2
  <2> QED BY <1>3, <1>8, <2>1 DEF Validate
<1>9. ASSUME NEW q \in Reqs, SaveFields(q) \/ SaveLook(q) PROVE Becomes(req[p], req'[p])
  <2>1. req[q].pc \in Reading
    BY <1>9 DEF SaveFields, SaveLook, Reading
  <2>2. CASE Set(q, [req[q] EXCEPT !.pc = "look", !.fields = fields[req[q].slot]])
    <3> DEFINE x == [req[q] EXCEPT !.pc = "look", !.fields = fields[req[q].slot]]
    <3>1. x.rev = req[q].rev /\ x.slot = req[q].slot
      BY <1>t DEF ReqRecord
    <3>2. Becomes(req[q], x)
      BY <2>1, <3>1 DEF Becomes, ReadBefore
    <3> QED BY <1>1, <2>2, <3>2
  <2> QED BY <1>8, <1>9, <2>1, <2>2 DEF SaveFields, SaveLook
<1>10. ASSUME NEW q \in Reqs, NEW i, Reserve(q, i), req[q].pc \in Reading
       PROVE  Becomes(req[p], req'[p])
  <2> DEFINE x == [req[q] EXCEPT !.pc = "files", !.id = i]
  <2>1. x.rev = req[q].rev /\ x.slot = req[q].slot
    BY <1>t DEF ReqRecord
  <2>2. Becomes(req[q], x)
    BY <1>10, <2>1 DEF Becomes, ReadBefore
  <2> QED BY <1>1, <1>10, <2>2 DEF Reserve
<1>11. ASSUME NEW q \in Reqs, SaveFind(q) \/ SaveInsert(q) PROVE Becomes(req[p], req'[p])
  <2>1. req[q].pc \in Reading
    BY <1>11 DEF SaveFind, SaveInsert, Reading, Chosen
  <2> QED BY <1>4, <1>10, <1>11, <2>1 DEF SaveFind, SaveInsert
<1>12. ASSUME NEW q \in Reqs, SaveAttach(q) PROVE Becomes(req[p], req'[p])
  <2>1. req[q].pc \in Reading
    BY <1>12 DEF SaveAttach, Reading, Chosen
  <2>2. \A f : /\ Claimed(q, f).rev = req[q].rev /\ Claimed(q, f).slot = req[q].slot
               /\ Passed(q, f).rev = req[q].rev /\ Passed(q, f).slot = req[q].slot
    BY <1>t DEF ReqRecord, Claimed, Passed
  <2>3. \A f : Becomes(req[q], Claimed(q, f)) /\ Becomes(req[q], Passed(q, f))
    BY <2>1, <2>2 DEF Becomes, ReadBefore
  <2> QED BY <1>1, <1>3, <1>12, <2>3 DEF SaveAttach
<1>13. ASSUME NEW q \in Reqs, SaveCommit(q) \/ SaveTell(q) PROVE Becomes(req[p], req'[p])
  <2> DEFINE x == [NoRequest EXCEPT !.pc = "tell", !.first = req[q].first, !.id = req[q].id]
  <2>1. x.pc \notin Reading
    BY NoRequestFacts DEF WellFormed, ReqRecord, Reading, Chosen
  <2> QED BY <1>2, <1>n, <1>13, <2>1 DEF SaveCommit, SaveTell
<1>14. CASE FileStep \/ UNCHANGED vars
  BY <1>14 DEF FileStep, vars, Becomes
<1>15. ASSUME NEW q \in Reqs, Save(q) \/ Fails(q) PROVE Becomes(req[p], req'[p])
  BY <1>3, <1>7, <1>9, <1>11, <1>12, <1>13, <1>15 DEF Save, Fails
<1> QED BY <1>5, <1>6, <1>14, <1>15 DEF Next

Linear == OneLine /\ CitesPublished /\ ReadsPublished

LEMMA LinearNext == ASSUME FormsInv, FormsInv', Linear, [Next]_vars PROVE Linear'
<1>t. /\ rev \in [Slots -> Nat] /\ history \subseteq Edition
      /\ \A i \in Rows : row[i].rev \in Nat
      /\ row \in [Ids -> RowRecord]
  BY DEF FormsInv, Tables, RowRecord, Rows
<1>1. \A s \in Slots : rev'[s] \in Nat /\ rev'[s] >= rev[s]
  <2>1. ASSUME NEW q \in Reqs, EditCommit(q) PROVE \A s \in Slots : rev'[s] \in Nat /\ rev'[s] >= rev[s]
    BY <1>t, <2>1 DEF EditCommit
  <2>2. UNCHANGED rev => \A s \in Slots : rev'[s] \in Nat /\ rev'[s] >= rev[s]
    BY <1>t
  <2> QED BY <2>1, <2>2, StepCases DEF FileStep, SaveCommit
<1>2. ReadsPublished'
  <2> SUFFICES ASSUME NEW p \in Reqs, req'[p].pc \in Reading
               PROVE  req'[p].rev \in 1..rev'[req'[p].slot]
    BY DEF ReadsPublished
  <2>1. req'[p].slot \in Slots
    BY DEF FormsInv, Requests, WellFormed
  <2>2. \/ ReadNow(req[p], req'[p])
        \/ req[p].pc \in Reading /\ req'[p].rev = req[p].rev /\ req'[p].slot = req[p].slot
    BY ReqStep DEF Becomes, ReadBefore
  <2>3. CASE ReadNow(req[p], req'[p])
    BY <1>1, <1>t, <2>1, <2>3 DEF ReadNow
  <2>4. CASE req[p].pc \in Reading /\ req'[p].rev = req[p].rev /\ req'[p].slot = req[p].slot
    <3>1. req[p].rev \in 1..rev[req[p].slot]
      BY <2>4 DEF Linear, ReadsPublished
    <3> QED BY <1>1, <1>t, <2>1, <2>4, <3>1
  <2> QED BY <2>2, <2>3, <2>4
<1>3. CitesPublished'
  <2> SUFFICES ASSUME NEW i \in Rows' PROVE row'[i].rev \in 1..rev'[row'[i].slot]
    BY DEF CitesPublished
  <2>1. ASSUME i \in Rows, row'[i] = row[i] PROVE row'[i].rev \in 1..rev'[row'[i].slot]
    <3>1. row[i].rev \in 1..rev[row[i].slot]
      BY <2>1 DEF Linear, CitesPublished
    <3>2. row[i].slot \in Slots
      <4>1. \E h \in history : h.slot = row[i].slot
        BY <2>1 DEF FormsInv, FitsPublished
      <4> QED BY <4>1, <1>t DEF Edition
    <3> QED BY <1>1, <1>t, <2>1, <3>1, <3>2
  <2>2. ASSUME NEW q \in Reqs, SaveCommit(q) PROVE row'[i].rev \in 1..rev'[row'[i].slot]
    <3>1. /\ req[q].pc = "files" /\ req[q].id \in Ids /\ req[q].slot \in Slots
          /\ req[q].rev \in 1..rev[req[q].slot]
          /\ row'[req[q].id].slot = req[q].slot /\ row'[req[q].id].rev = req[q].rev
          /\ \A j \in Ids : j # req[q].id => row'[j] = row[j]
          /\ Rows' = Rows \cup {req[q].id}
      <4>1. req[q].pc = "files"
        BY <2>2 DEF SaveCommit
      <4>2. req[q].id \in Ids /\ req[q].slot \in Slots
        BY <4>1 DEF FormsInv, Requests, WellFormed, Reading, Chosen
      <4>3. req[q].rev \in 1..rev[req[q].slot]
        BY <4>1 DEF Linear, ReadsPublished, Reading, Chosen
      <4>4. row'[req[q].id].slot = req[q].slot /\ row'[req[q].id].rev = req[q].rev
            /\ \A j \in Ids : j # req[q].id => row'[j] = row[j]
        BY <1>t, <2>2, <4>2 DEF SaveCommit, RecordRevision
      <4> QED BY <2>2, <4>1, <4>2, <4>3, <4>4, CommitRows
    <3>2. UNCHANGED rev
      BY <2>2 DEF SaveCommit
    <3> QED BY <2>1, <3>1, <3>2 DEF Rows
  <2>3. UNCHANGED row => i \in Rows /\ row'[i] = row[i]
    BY DEF Rows
  <2> QED BY <2>1, <2>2, <2>3, StepCases DEF FileStep, EditCommit
<1>4. OneLine'
  <2>1. CASE UNCHANGED <<rev, history>>
    BY <2>1 DEF Linear, OneLine
  <2>2. ASSUME NEW q \in Reqs, EditCommit(q) PROVE OneLine'
    <3> DEFINE s == req[q].slot
    <3>1. PICK sch \in Schemas :
            history' = history \cup
              {[slot |-> s, rev |-> rev[s] + 1, fields |-> sch, seen |-> req[q].rev]}
      BY <2>2 DEF EditCommit
    <3> DEFINE e == [slot |-> s, rev |-> rev[s] + 1, fields |-> sch, seen |-> req[q].rev]
    <3>2. s \in Slots
      BY <2>2 DEF EditCommit, FormsInv, Requests, WellFormed, Editing
    <3>3. /\ rev[s] \in Nat /\ rev'[s] = rev[s] + 1
          /\ \A t \in Slots : t # s => rev'[t] = rev[t]
      BY <1>t, <2>2, <3>2 DEF EditCommit
    <3>4. e.slot = s /\ e.rev = rev[s] + 1 /\ e \in history'
      BY <3>1
    <3> HIDE DEF e, s
    <3>5. \A h \in history : h.slot \in Slots /\ h.rev \in 1..rev[h.slot]
      BY <1>t DEF Linear, OneLine, Edition
    <3>6. \A h \in history' : h \in history \/ h = e
      BY <3>1 DEF e, s
    <3>7. history \subseteq history'
      BY <3>1
    <3>8. \A h \in history' : h.rev \in 1..rev'[h.slot]
      BY <1>1, <1>t, <3>2, <3>3, <3>4, <3>5, <3>6
    <3>9. \A h \in history : ~(h.slot = e.slot /\ h.rev = e.rev)
      BY <1>t, <3>2, <3>3, <3>4, <3>5
    <3>10. \A g, h \in history' : g.slot = h.slot /\ g.rev = h.rev => g = h
      BY <3>6, <3>9 DEF Linear, OneLine
    <3>11. ASSUME NEW t \in Slots, NEW r \in 1..rev'[t]
           PROVE  \E h \in history' : h.slot = t /\ h.rev = r
      <4>1. CASE t = s /\ r = rev[s] + 1
        BY <3>4, <4>1
      <4>2. CASE ~(t = s /\ r = rev[s] + 1)
        <5>1. r \in 1..rev[t]
          BY <1>t, <3>3, <3>11, <4>2
        <5> QED BY <3>7, <5>1 DEF Linear, OneLine
      <4> QED BY <4>1, <4>2
    <3> QED BY <3>8, <3>10, <3>11 DEF OneLine
  <2> QED BY <2>1, <2>2, StepCases DEF FileStep, SaveCommit
<1> QED BY <1>2, <1>3, <1>4 DEF Linear

(* However many editors there are, a revision number stands for one list of *)
(* fields for good, and the revision a record cites is among those that     *)
(* were published (replaceDefinitionFields, createRecord).                  *)
THEOREM OneEditionPerRevision == Spec => [](OneLine /\ CitesPublished)
<1>1. Init => Linear
  <2> SUFFICES ASSUME Init PROVE Linear
    OBVIOUS
  <2>1. \A q \in Reqs : req[q].pc \notin Reading
    BY NoRequestFacts DEF Init, Reading, Chosen
  <2>2. history = {} /\ Rows = {} /\ \A s \in Slots : rev[s] = 0
    BY DEF Init, Rows
  <2> QED BY <2>1, <2>2 DEF Linear, OneLine, CitesPublished, ReadsPublished
<1>2. Linear => OneLine /\ CitesPublished
  BY DEF Linear
<1> QED BY <1>1, <1>2, LinearNext, Invariant, PTL DEF Spec

-----------------------------------------------------------------------------
(***************************************************************************)
(* Waiting.  An edit waits for an edit, a save for a save.  What is waited *)
(* for waits in turn only for files: a circle of waits is one of saves,    *)
(* each for a file another one has claimed.                                *)
(***************************************************************************)
WaitsForFile(q, p) ==
  req[q].pc = "files" /\ \E f \in req[q].left : status[f] = "staged" /\ f \in req[p].held

Waits(q, p) ==
  \/ req[q].pc = "define" /\ DefineWaits(q, p)
  \/ req[q].pc = "replace" /\ RevisionMatches(q) /\ defLock[req[q].slot] = p
  \/ /\ req[q].pc \in {"find", "again"} /\ req[q].slot \in Singletons
     /\ \E i \in RowsOf(req[q].slot, req[q].subj) : rowLock[i] = p
  \/ req[q].pc = "insert" /\ InsertWaits(q, p)
  \/ WaitsForFile(q, p)

CirclesAreOfFiles ==
  \A q, p \in Reqs : Waits(q, p) =>
    /\ p # q /\ req[p].pc \in {"defined", "replaced", "files"}
    /\ \A o \in Reqs : Waits(p, o) => WaitsForFile(p, o)

\* A request has no file still to claim that it has claimed.
ClaimsOnce == \A q \in Reqs : req[q].left \cap req[q].held = {}

(* How a request comes to be at its files, or goes on with them.            *)
LEMMA AtFiles ==
  ASSUME FormsInv, [Next]_vars, NEW p \in Reqs, req'[p].pc = "files", req'[p] # req[p]
  PROVE  \/ \E i : Reserve(p, i) /\ req[p].pc # "files"
         \/ SaveAttach(p) /\ ~Rollback(p)
<1>t. req \in [Reqs -> ReqRecord]
  BY DEF FormsInv, Tables
<1>n. NoRequest \in ReqRecord /\ NoRequest.pc = "idle"
  BY NoRequestFacts DEF WellFormed
<1>1. ASSUME NEW q \in Reqs, NEW x, Set(q, x) PROVE q = p /\ x.pc = "files"
  BY <1>1, <1>t DEF Set
<1>2. ASSUME NEW q \in Reqs PROVE ~Rollback(q) /\ \A pc : pc # "files" => ~To(q, pc)
  <2>1. ~Rollback(q)
    BY <1>1, <1>n DEF Rollback
  <2>2. ASSUME NEW pc, pc # "files", To(q, pc) PROVE FALSE
    <3>1. [req[q] EXCEPT !.pc = pc].pc = pc
      BY <1>t DEF ReqRecord
    <3> QED BY <1>1, <2>2, <3>1 DEF To
  <2> QED BY <2>1, <2>2
<1>3. ASSUME NEW q \in Reqs PROVE ~EditBegin(q) /\ ~SaveBegin(q)
  <2>1. \A s, seen : ~Set(q, [NoRequest EXCEPT !.pc = "edit", !.slot = s, !.rev = seen])
    <3> SUFFICES ASSUME NEW s, NEW seen, Set(q, [NoRequest EXCEPT !.pc = "edit", !.slot = s, !.rev = seen])
                 PROVE  FALSE
      OBVIOUS
    <3>1. [NoRequest EXCEPT !.pc = "edit", !.slot = s, !.rev = seen].pc = "edit"
      BY <1>n DEF ReqRecord
    <3> QED BY <1>1, <3>1
  <2>2. \A s, e : ~Set(q, [NoRequest EXCEPT !.pc = "definition", !.slot = s, !.subj = e])
    <3> SUFFICES ASSUME NEW s, NEW e, Set(q, [NoRequest EXCEPT !.pc = "definition", !.slot = s, !.subj = e])
                 PROVE  FALSE
      OBVIOUS
    <3>1. [NoRequest EXCEPT !.pc = "definition", !.slot = s, !.subj = e].pc = "definition"
      BY <1>n DEF ReqRecord
    <3> QED BY <1>1, <3>1
  <2> QED BY <2>1, <2>2 DEF EditBegin, SaveBegin
<1>4. ASSUME NEW q \in Reqs PROVE ~Edit(q) /\ ~SaveTell(q) /\ ~Fails(q)
  BY <1>1, <1>2, <1>n DEF Edit, EditRead, EditDefine, EditReplace, EditCommit, SaveTell, Fails
<1>5. ASSUME NEW q \in Reqs PROVE ~SaveDefinition(q) /\ ~SaveCommit(q)
  <2>1. [req[q] EXCEPT !.pc = "fields", !.rev = rev[req[q].slot]].pc = "fields"
    BY <1>t DEF ReqRecord
  <2>2. [NoRequest EXCEPT !.pc = "tell", !.first = req[q].first, !.id = req[q].id].pc = "tell"
    BY <1>n DEF ReqRecord
  <2>3. ~Set(q, NoRequest)
    BY <1>1, <1>n
  <2> QED BY <1>1, <1>2, <2>1, <2>2, <2>3 DEF SaveDefinition, SaveCommit
<1>6. ASSUME NEW q \in Reqs PROVE ~SaveFields(q) /\ ~SaveLook(q)
  <2>1. ASSUME NEW sch, NEW first PROVE ~Validate(q, sch, first)
    <3>1. ASSUME NEW v, Set(q, [req[q] EXCEPT !.pc = "find", !.fields = NoSchema, !.first = first,
                                              !.vals = v, !.left = v.files])
          PROVE  FALSE
      <4>1. [req[q] EXCEPT !.pc = "find", !.fields = NoSchema, !.first = first,
                           !.vals = v, !.left = v.files].pc = "find"
        BY <1>t DEF ReqRecord
      <4> QED BY <1>1, <3>1, <4>1
    <3> QED BY <1>2, <3>1 DEF Validate
  <2>2. [req[q] EXCEPT !.pc = "look", !.fields = fields[req[q].slot]].pc = "look"
    BY <1>t DEF ReqRecord
  <2> QED BY <1>1, <2>1, <2>2 DEF SaveFields, SaveLook
<1>7. ASSUME NEW q \in Reqs, SaveFind(q) \/ SaveInsert(q)
      PROVE  \E i : Reserve(p, i) /\ req[p].pc # "files"
  <2>1. PICK i : Reserve(q, i)
    BY <1>2, <1>7 DEF SaveFind, SaveInsert
  <2>2. q = p
    BY <1>1, <2>1 DEF Reserve
  <2> QED BY <1>7, <2>1, <2>2 DEF SaveFind, SaveInsert
<1>8. ASSUME NEW q \in Reqs, SaveAttach(q) PROVE SaveAttach(p) /\ ~Rollback(p)
  <2>1. q = p
    BY <1>1, <1>2, <1>8 DEF SaveAttach
  <2> QED BY <1>2, <1>8, <2>1
<1>9. ~FileStep /\ ~UNCHANGED vars
  BY DEF FileStep, vars
<1> QED BY <1>3, <1>4, <1>5, <1>6, <1>7, <1>8, <1>9 DEF Next, Save

LEMMA ClaimsNext == ASSUME FormsInv, FormsInv', ClaimsOnce, [Next]_vars PROVE ClaimsOnce'
<1> SUFFICES ASSUME NEW p \in Reqs PROVE req'[p].left \cap req'[p].held = {}
  BY DEF ClaimsOnce
<1>t. req[p] \in ReqRecord /\ req \in [Reqs -> ReqRecord]
  BY DEF FormsInv, Tables
<1>1. CASE req'[p].pc # "files"
  BY <1>1 DEF FormsInv, Requests, WellFormed
<1>2. CASE req'[p] = req[p]
  BY <1>2 DEF ClaimsOnce
<1>3. ASSUME NEW i, Reserve(p, i), req[p].pc # "files" PROVE req'[p].left \cap req'[p].held = {}
  <2>1. req[p].held = {}
    BY <1>3 DEF FormsInv, Requests, WellFormed
  <2>2. [req[p] EXCEPT !.pc = "files", !.id = i].held = req[p].held
    BY <1>t DEF ReqRecord
  <2>3. req'[p] = [req[p] EXCEPT !.pc = "files", !.id = i]
    BY <1>3, <1>t DEF Reserve, Set
  <2> QED BY <2>1, <2>2, <2>3
<1>4. CASE SaveAttach(p) /\ ~Rollback(p)
  <2>1. PICK f : Set(p, Claimed(p, f)) \/ Set(p, Passed(p, f))
    BY <1>4 DEF SaveAttach
  <2>2. req'[p] = Claimed(p, f) \/ req'[p] = Passed(p, f)
    BY <1>t, <2>1 DEF Set
  <2>3. /\ Claimed(p, f).left = req[p].left \ {f} /\ Claimed(p, f).held = req[p].held \cup {f}
        /\ Passed(p, f).left = req[p].left \ {f} /\ Passed(p, f).held = req[p].held
    BY <1>t DEF Claimed, Passed, ReqRecord
  <2> QED BY <2>2, <2>3 DEF ClaimsOnce
<1> QED BY <1>1, <1>2, <1>3, <1>4, AtFiles

LEMMA WaitsAreOfFiles == FormsInv /\ ClaimsOnce => CirclesAreOfFiles
<1> SUFFICES ASSUME FormsInv, ClaimsOnce, NEW q \in Reqs, NEW p \in Reqs, Waits(q, p)
             PROVE  /\ p # q /\ req[p].pc \in {"defined", "replaced", "files"}
                    /\ \A o \in Reqs : Waits(p, o) => WaitsForFile(p, o)
  BY DEF CirclesAreOfFiles
<1>1. p # Nil /\ Rows \subseteq Ids
  BY DEF Rows
<1>2. p # q /\ req[p].pc \in {"defined", "replaced", "files"}
  <2>1. CASE req[q].pc = "define" /\ DefineWaits(q, p)
    BY <2>1 DEF DefineWaits, Defining
  <2>2. CASE req[q].pc = "replace" /\ RevisionMatches(q) /\ defLock[req[q].slot] = p
    <3>1. req[q].slot \in Slots
      BY <2>2 DEF FormsInv, Requests, WellFormed, Editing
    <3>2. req[p].pc = "replaced"
      BY <1>1, <2>2, <3>1 DEF FormsInv, Locks
    <3> QED BY <2>2, <3>2
  <2>3. CASE req[q].pc \in {"find", "again"} /\ \E i \in RowsOf(req[q].slot, req[q].subj) : rowLock[i] = p
    <3>1. req[p].pc = "files"
      BY <1>1, <2>3 DEF FormsInv, Locks, RowsOf
    <3> QED BY <2>3, <3>1
  <2>4. CASE req[q].pc = "insert" /\ InsertWaits(q, p)
    BY <2>4 DEF InsertWaits, Inserted
  <2>5. CASE WaitsForFile(q, p)
    <3>1. p # q
      BY <2>5 DEF WaitsForFile, ClaimsOnce
    <3>2. req[p].pc = "files"
      BY <2>5 DEF WaitsForFile, FormsInv, Requests, WellFormed
    <3> QED BY <3>1, <3>2
  <2> QED BY <2>1, <2>2, <2>3, <2>4, <2>5 DEF Waits
<1>3. ASSUME NEW o \in Reqs, Waits(p, o) PROVE WaitsForFile(p, o)
  BY <1>2, <1>3 DEF Waits
<1> QED BY <1>2, <1>3

(* Nobody waits for themselves or for a request that is over, and the only  *)
(* deadlock is the one PostgreSQL has to break: saves that have claimed     *)
(* files of one another in opposite orders (attachFiles, reserveRecord,     *)
(* replaceDefinitionFields).                                                *)
THEOREM OnlyFilesDeadlock == Spec => []CirclesAreOfFiles
<1>1. Init => ClaimsOnce
  BY NoRequestFacts DEF Init, ClaimsOnce
<1> QED BY <1>1, ClaimsNext, WaitsAreOfFiles, Invariant, PTL DEF Spec
=============================================================================
