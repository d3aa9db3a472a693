-------------------------- MODULE StatusTypesProofs -------------------------
(***************************************************************************)
(* Proofs about StatusTypes for every number of types and of concurrent    *)
(* requests: one default that is in use, the refinement of                 *)
(* StatusDictionary, and what a request can be waiting for.                *)
(***************************************************************************)
EXTENDS StatusTypes, TLAPS

USE PresetAssumption, NilAssumption

(* What a set-default transaction may rely on until it ends: the rows it    *)
(* cleared are the committed default and locked, the row it sets is locked  *)
(* and active, and past the index no other default is left.  A row that was *)
(* read to be archived or restored stays.                                   *)
Tx(r) ==
  LET q == req[r] IN
  /\ q.cleared \subseteq isDefault
  /\ \A k \in q.cleared : rowLock[k] = r
  /\ q.pc \in {"set", "indexed"} => rowLock[q.key] = r /\ Active(q.key)
  /\ q.pc = "indexed" => isDefault \ q.cleared \subseteq {q.key}
  /\ q.pc \in {"archive", "restore"} => status[q.key] # "none"

IInv == TypeOK /\ OneDefault /\ \A r \in Reqs : Tx(r)

-----------------------------------------------------------------------------
Acts(r) == Begin(r) \/ Step(r) \/ Fails(r)

(* The steps that commit a change of the dictionary.                        *)
Commits(r) ==
  \/ DefaultCommit(r)
  \/ ArchiveUpdate(r) /\ ArchiveMatches(req[r].key)
  \/ RestoreUpdate(r)
  \/ CreateInsert(r) /\ status[req[r].key] = "none"

LEMMA Quiet ==
  ASSUME NEW r \in Reqs, Acts(r), ~Commits(r)
  PROVE  UNCHANGED <<status, isDefault>>
<1> USE DEF Ask, Rollback, Commits
<1>1. CASE Begin(r)
  BY <1>1 DEF Begin, DefaultBegin, ArchiveBegin, RestoreBegin, CreateBegin
<1>2. CASE ClearStart(r) \/ ClearRow(r)       BY <1>2 DEF ClearStart, ClearRow
<1>3. CASE SetRow(r) \/ SetIndex(r)           BY <1>3 DEF SetRow, SetIndex
<1>4. CASE ArchiveUpdate(r) \/ CreateInsert(r) BY <1>4 DEF ArchiveUpdate, CreateInsert
<1>5. CASE DeadlockVictim(r) \/ Fails(r)      BY <1>5 DEF DeadlockVictim, Fails
<1> QED BY <1>1, <1>2, <1>3, <1>4, <1>5 DEF Acts, Step

(* A row that is cleared, or passed over, changes the request's record so.  *)
LEMMA ClearedRow ==
  ASSUME TypeOK, NEW r \in Reqs, ClearRow(r)
  PROVE  \E k \in Keys, q \in ReqRecord :
           /\ CanLock(r, k) /\ rowLock' = [rowLock EXCEPT ![k] = r]
           /\ req' = [req EXCEPT ![r] = q] /\ UNCHANGED <<status, isDefault>>
           /\ q.pc = "clear" /\ q.key = req[r].key /\ q.key \in Keys
           /\ q.cleared \subseteq req[r].cleared \cup {k}
           /\ q.cleared \subseteq req[r].cleared \cup isDefault
<1>t. req[r] \in ReqRecord /\ isDefault \subseteq Keys
  BY DEF TypeOK
<1>1. PICK k \in req[r].left :
        /\ req[r].pc = "clear" /\ CanLock(r, k)
        /\ rowLock' = [rowLock EXCEPT ![k] = r] /\ UNCHANGED <<status, isDefault>>
        /\ \/ k \in isDefault /\ req' = [req EXCEPT ![r] = Cleared(req[r], k)]
           \/ k \notin isDefault /\ req' = [req EXCEPT ![r] = Skipped(req[r], k)]
  BY DEF ClearRow
<1>2. k \in Keys /\ req[r].key \in Keys
  BY <1>t, <1>1 DEF ReqRecord, TypeOK
<1>3. /\ Cleared(req[r], k) \in ReqRecord /\ Cleared(req[r], k).pc = req[r].pc
      /\ Cleared(req[r], k).key = req[r].key
      /\ Cleared(req[r], k).cleared = req[r].cleared \cup {k}
  BY <1>t, <1>2 DEF ReqRecord, Cleared
<1>4. /\ Skipped(req[r], k) \in ReqRecord /\ Skipped(req[r], k).pc = req[r].pc
      /\ Skipped(req[r], k).key = req[r].key
      /\ Skipped(req[r], k).cleared = req[r].cleared
  BY <1>t, <1>2 DEF ReqRecord, Skipped
<1>5. CASE k \in isDefault
  <2>1. req' = [req EXCEPT ![r] = Cleared(req[r], k)]
    BY <1>1, <1>5
  <2>2. Cleared(req[r], k).cleared \subseteq req[r].cleared \cup isDefault
    BY <1>3, <1>5
  <2> QED BY <1>1, <1>2, <1>3, <2>1, <2>2
<1>6. CASE k \notin isDefault
  <2>1. req' = [req EXCEPT ![r] = Skipped(req[r], k)]
    BY <1>1, <1>6
  <2> QED BY <1>1, <1>2, <1>4, <2>1
<1> QED BY <1>5, <1>6

(* A request changes its own record and takes no lock from another.         *)
LEMMA Frame ==
  ASSUME TypeOK, NEW r \in Reqs, Acts(r)
  PROVE  /\ req' \in [Reqs -> ReqRecord]
         /\ \A q \in Reqs \ {r} : req'[q] = req[q]
         /\ rowLock' \in [Keys -> Reqs \cup {Nil}]
         /\ \A k \in Keys : \A q \in Reqs \ {r} : rowLock[k] = q <=> rowLock'[k] = q
<1> DEFINE Goal ==
         /\ req' \in [Reqs -> ReqRecord]
         /\ \A q \in Reqs \ {r} : req'[q] = req[q]
         /\ rowLock' \in [Keys -> Reqs \cup {Nil}]
         /\ \A k \in Keys : \A q \in Reqs \ {r} : rowLock[k] = q <=> rowLock'[k] = q
<1>t. req[r] \in ReqRecord /\ req \in [Reqs -> ReqRecord] /\ rowLock \in [Keys -> Reqs \cup {Nil}]
  BY DEF TypeOK
<1>e. End(r) => Goal
  BY <1>t DEF End, NoRequest, ReqRecord
<1>a. ASSUME NEW pc \in {"begin", "archive", "restore", "create"}, NEW k \in Keys, Ask(r, pc, k)
      PROVE  Goal
  BY <1>t, <1>a DEF Ask, ReqRecord
<1>k. ASSUME NEW k \in Keys, CanLock(r, k), rowLock' = [rowLock EXCEPT ![k] = r]
      PROVE  /\ rowLock' \in [Keys -> Reqs \cup {Nil}]
             /\ \A j \in Keys : \A q \in Reqs \ {r} : rowLock[j] = q <=> rowLock'[j] = q
  BY <1>t, <1>k DEF CanLock
<1>1. CASE Begin(r)
  BY <1>1, <1>a DEF Begin, DefaultBegin, ArchiveBegin, RestoreBegin, CreateBegin
<1>2. CASE ClearStart(r)
  <2>1. [req[r] EXCEPT !.pc = "clear", !.left = isDefault] \in ReqRecord
    BY <1>t DEF ReqRecord, TypeOK
  <2> QED BY <1>t, <1>2, <2>1 DEF ClearStart
<1>3. CASE ClearRow(r)
  <2>1. PICK k \in Keys, q \in ReqRecord :
          /\ CanLock(r, k) /\ rowLock' = [rowLock EXCEPT ![k] = r]
          /\ req' = [req EXCEPT ![r] = q]
    BY <1>3, ClearedRow
  <2> QED BY <1>t, <1>k, <2>1
<1>4. CASE SetRow(r)
  <2>1. [req[r] EXCEPT !.pc = "set"] \in ReqRecord
    BY <1>t DEF ReqRecord
  <2>2. req[r].key \in Keys
    BY <1>4 DEF SetRow, TypeOK
  <2> QED BY <1>t, <1>e, <1>k, <1>4, <2>1, <2>2 DEF SetRow, Rollback
<1>5. CASE SetIndex(r)
  <2>1. [req[r] EXCEPT !.pc = "indexed"] \in ReqRecord
    BY <1>t DEF ReqRecord
  <2> QED BY <1>t, <1>e, <1>5, <2>1 DEF SetIndex, Rollback
<1>6. CASE DefaultCommit(r) \/ ArchiveUpdate(r) \/ RestoreUpdate(r) \/ CreateInsert(r)
             \/ DeadlockVictim(r) \/ Fails(r)
  BY <1>e, <1>6 DEF DefaultCommit, ArchiveUpdate, RestoreUpdate, CreateInsert, DeadlockVictim,
                    Fails, Rollback
<1> QED BY <1>1, <1>2, <1>3, <1>4, <1>5, <1>6 DEF Acts, Step

-----------------------------------------------------------------------------
LEMMA OneDefaultNext ==
  ASSUME IInv, NEW r \in Reqs, Acts(r)
  PROVE  OneDefault'
<1>o. PICK d \in Keys : isDefault = {d} /\ Active(d)
  BY DEF IInv, OneDefault
<1>x. Tx(r) /\ TypeOK
  BY DEF IInv
<1>1. CASE ~Commits(r)
  BY <1>1, <1>o, Quiet DEF OneDefault, Active
<1>2. CASE DefaultCommit(r)
  <2>1. isDefault' = {req[r].key} /\ status' = status
    BY <1>2, <1>x DEF DefaultCommit, Tx
  <2>2. req[r].key \in Keys /\ Active(req[r].key)
    BY <1>2, <1>x DEF DefaultCommit, Tx, TypeOK
  <2> QED BY <2>1, <2>2 DEF OneDefault, Active
<1>3. CASE ArchiveUpdate(r) /\ ArchiveMatches(req[r].key)
  BY <1>3, <1>o, <1>x DEF ArchiveUpdate, ArchiveMatches, OneDefault, Active, TypeOK
<1>4. CASE RestoreUpdate(r)
  BY <1>4, <1>o, <1>x DEF RestoreUpdate, OneDefault, Active, TypeOK
<1>5. CASE CreateInsert(r) /\ status[req[r].key] = "none"
  BY <1>5, <1>o, <1>x DEF CreateInsert, OneDefault, Active, TypeOK
<1> QED BY <1>1, <1>2, <1>3, <1>4, <1>5 DEF Commits

LEMMA TypeNext ==
  ASSUME IInv, NEW r \in Reqs, Acts(r)
  PROVE  TypeOK'
<1>t. TypeOK
  BY DEF IInv
<1>f. /\ req' \in [Reqs -> ReqRecord]
      /\ \A q \in Reqs \ {r} : req'[q] = req[q]
      /\ rowLock' \in [Keys -> Reqs \cup {Nil}]
      /\ \A k \in Keys : \A q \in Reqs \ {r} : rowLock[k] = q <=> rowLock'[k] = q
  BY <1>t, Frame
<1>d. status' \in [Keys -> {"none", "active", "archived"}] /\ isDefault' \subseteq Keys
  <2>1. CASE ~Commits(r)          BY <2>1, <1>t, Quiet DEF TypeOK
  <2>2. CASE DefaultCommit(r)     BY <2>2, <1>t DEF DefaultCommit, TypeOK
  <2>3. CASE ArchiveUpdate(r) \/ RestoreUpdate(r) \/ CreateInsert(r)
    BY <2>3, <1>t DEF ArchiveUpdate, RestoreUpdate, CreateInsert, Rollback, TypeOK
  <2> QED BY <2>1, <2>2, <2>3 DEF Commits
<1>r. /\ req'[r].pc # "idle" => req'[r].key \in Keys
      /\ \A k \in Keys : rowLock'[k] = r => req'[r].pc \in {"clear", "set", "indexed"}
  <2>t. /\ req \in [Reqs -> ReqRecord] /\ rowLock \in [Keys -> Reqs \cup {Nil}]
        /\ req[r].pc # "idle" => req[r].key \in Keys
        /\ \A k \in Keys : rowLock[k] = r => req[r].pc \in {"clear", "set", "indexed"}
    BY <1>t DEF TypeOK
  <2>e. End(r) => \A k \in Keys : rowLock'[k] # r /\ req'[r].pc = "idle"
    BY <2>t DEF End, NoRequest
  <2>p. req[r] \in ReqRecord
    BY <2>t
  <2>1. CASE Begin(r)
    BY <2>1, <2>t DEF Begin, DefaultBegin, ArchiveBegin, RestoreBegin, CreateBegin, Ask
  <2>2. CASE ClearStart(r)
    BY <2>2, <2>t, <2>p DEF ClearStart, ReqRecord
  <2>3. CASE ClearRow(r)
    <3>1. PICK k \in Keys, q \in ReqRecord :
            /\ req' = [req EXCEPT ![r] = q] /\ q.pc = "clear" /\ q.key \in Keys
      BY <2>3, <1>t, ClearedRow
    <3> QED BY <3>1, <2>t
  <2>4. CASE SetRow(r)
    BY <2>4, <2>t, <2>p, <2>e DEF SetRow, Rollback, ReqRecord, End, NoRequest
  <2>5. CASE SetIndex(r)
    BY <2>5, <2>t, <2>p, <2>e DEF SetIndex, Rollback, ReqRecord, End, NoRequest
  <2>6. CASE DefaultCommit(r) \/ ArchiveUpdate(r) \/ RestoreUpdate(r) \/ CreateInsert(r)
               \/ DeadlockVictim(r) \/ Fails(r)
    BY <2>6, <2>t, <2>e DEF DefaultCommit, ArchiveUpdate, RestoreUpdate, CreateInsert,
                            DeadlockVictim, Fails, Rollback, End, NoRequest
  <2> QED BY <2>1, <2>2, <2>3, <2>4, <2>5, <2>6 DEF Acts, Step
<1> QED BY <1>t, <1>f, <1>d, <1>r DEF TypeOK

(* The transactions of the other requests keep what they rely on.           *)
LEMMA TxOthers ==
  ASSUME IInv, NEW r \in Reqs, Acts(r), NEW q \in Reqs, q # r
  PROVE  Tx(q)'
<1>t. TypeOK /\ Tx(q) /\ Tx(r)
  BY DEF IInv
<1>f. /\ req'[q] = req[q]
      /\ \A k \in Keys : rowLock[k] = q <=> rowLock'[k] = q
  BY <1>t, Frame
<1>k. /\ req[q].cleared \subseteq Keys
      /\ req[q].pc # "idle" => req[q].key \in Keys
      /\ req[r].pc # "idle" => req[r].key \in Keys
      /\ status \in [Keys -> {"none", "active", "archived"}]
  BY <1>t DEF TypeOK, ReqRecord
<1>1. CASE ~Commits(r)
  BY <1>1, <1>t, <1>f, <1>k, Quiet DEF Tx, Active
<1>2. CASE DefaultCommit(r)
  <2>1. /\ isDefault' = {req[r].key} /\ status' = status
        /\ rowLock[req[r].key] = r /\ req[r].key \in Keys
        /\ isDefault \subseteq req[r].cleared \cup {req[r].key}
    BY <1>2, <1>t, <1>k DEF DefaultCommit, Tx
  <2>2. req[q].cleared = {}
    BY <2>1, <1>t DEF Tx
  <2>3. req[q].pc # "indexed"
    <3>1. PICK d \in Keys : isDefault = {d}
      BY DEF IInv, OneDefault
    <3> QED BY <2>1, <2>2, <3>1, <1>t DEF Tx
  <2> QED BY <1>t, <1>f, <1>k, <2>1, <2>2, <2>3 DEF Tx, Active
<1>3. CASE ArchiveUpdate(r) /\ ArchiveMatches(req[r].key)
  <2>1. /\ isDefault' = isDefault
        /\ \A k \in Keys : rowLock[k] = q => status'[k] = status[k]
        /\ \A k \in Keys : status[k] # "none" => status'[k] # "none"
    BY <1>3, <1>k DEF ArchiveUpdate, ArchiveMatches, Rollback
  <2> QED BY <1>t, <1>f, <1>k, <2>1 DEF Tx, Active
<1>4. CASE RestoreUpdate(r) \/ (CreateInsert(r) /\ status[req[r].key] = "none")
  <2>1. /\ isDefault' = isDefault /\ \A k \in Keys : Active(k) => Active(k)'
        /\ \A k \in Keys : status[k] # "none" => status'[k] # "none"
    BY <1>4, <1>k DEF RestoreUpdate, CreateInsert, Rollback, Active
  <2> QED BY <1>t, <1>f, <1>k, <2>1 DEF Tx, Active
<1>5. Commits(r) => DefaultCommit(r) \/ (ArchiveUpdate(r) /\ ArchiveMatches(req[r].key))
        \/ (RestoreUpdate(r) \/ (CreateInsert(r) /\ status[req[r].key] = "none"))
  BY DEF Commits
<1> QED BY <1>1, <1>2, <1>3, <1>4, <1>5

LEMMA TxOwn ==
  ASSUME IInv, NEW r \in Reqs, Acts(r)
  PROVE  Tx(r)'
<1>t. TypeOK /\ Tx(r) /\ OneDefault
  BY DEF IInv
<1>k. /\ req \in [Reqs -> ReqRecord] /\ req[r] \in ReqRecord
      /\ rowLock \in [Keys -> Reqs \cup {Nil}] /\ isDefault \subseteq Keys
      /\ req[r].pc # "idle" => req[r].key \in Keys
  BY <1>t DEF TypeOK
<1>e. End(r) => Tx(r)'
  BY <1>k DEF End, NoRequest, Tx
<1>1. CASE Begin(r)
  BY <1>1, <1>k DEF Begin, DefaultBegin, ArchiveBegin, RestoreBegin, CreateBegin, Ask, Active, Tx
<1>2. CASE ClearStart(r)
  BY <1>2, <1>t, <1>k DEF ClearStart, Tx, ReqRecord
<1>3. CASE ClearRow(r)
  <2>1. PICK k \in Keys, q \in ReqRecord :
          /\ rowLock' = [rowLock EXCEPT ![k] = r]
          /\ req' = [req EXCEPT ![r] = q] /\ UNCHANGED <<status, isDefault>>
          /\ q.pc = "clear" /\ q.cleared \subseteq req[r].cleared \cup {k}
          /\ q.cleared \subseteq req[r].cleared \cup isDefault
    BY <1>3, <1>t, ClearedRow
  <2>2. q.cleared \subseteq isDefault /\ req'[r] = q /\ q.cleared \subseteq Keys
    BY <2>1, <1>t, <1>k DEF Tx, ReqRecord
  <2> QED BY <2>1, <2>2, <1>t, <1>k DEF Tx
<1>4. CASE SetRow(r)
  <2>1. CASE SetMatches(req[r].key)
    <3>1. /\ req'[r].pc = "set" /\ req'[r].key = req[r].key
          /\ req'[r].cleared = req[r].cleared
          /\ rowLock' = [rowLock EXCEPT ![req[r].key] = r] /\ UNCHANGED <<status, isDefault>>
      BY <2>1, <1>4, <1>k DEF SetRow, ReqRecord
    <3>2. req[r].cleared \subseteq Keys /\ req[r].key \in Keys
      BY <1>4, <1>k DEF SetRow, ReqRecord
    <3> QED BY <3>1, <3>2, <2>1, <1>t, <1>k DEF Tx, Active, SetMatches
  <2> QED BY <2>1, <1>4, <1>e DEF SetRow, Rollback
<1>5. CASE SetIndex(r)
  <2>1. CASE IndexFree(r)
    <3>1. /\ req'[r].pc = "indexed" /\ req'[r].key = req[r].key
          /\ req'[r].cleared = req[r].cleared
          /\ UNCHANGED <<status, isDefault, rowLock>>
      BY <2>1, <1>5, <1>k DEF SetIndex, ReqRecord
    <3>2. isDefault \ req[r].cleared \subseteq {req[r].key}
      BY <2>1, <1>t DEF IndexFree, Entries, OneDefault
    <3> QED BY <3>1, <3>2, <1>5, <1>t, <1>k DEF Tx, Active, SetIndex
  <2> QED BY <2>1, <1>5, <1>e DEF SetIndex, Rollback
<1>6. CASE DefaultCommit(r) \/ ArchiveUpdate(r) \/ RestoreUpdate(r) \/ CreateInsert(r)
             \/ DeadlockVictim(r) \/ Fails(r)
  BY <1>e, <1>6 DEF DefaultCommit, ArchiveUpdate, RestoreUpdate, CreateInsert, DeadlockVictim,
                    Fails, Rollback
<1> QED BY <1>1, <1>2, <1>3, <1>4, <1>5, <1>6 DEF Acts, Step

-----------------------------------------------------------------------------
LEMMA InvInit == Init => IInv
<1> SUFFICES ASSUME Init PROVE IInv
  OBVIOUS
<1>1. TypeOK
  BY DEF Init, TypeOK, ReqRecord, NoRequest
<1>2. OneDefault
  BY DEF Init, OneDefault, Active
<1>3. \A r \in Reqs : Tx(r)
  BY DEF Init, Tx, NoRequest
<1> QED BY <1>1, <1>2, <1>3 DEF IInv

LEMMA InvNext == IInv /\ [Next]_vars => IInv'
<1> SUFFICES ASSUME IInv, [Next]_vars PROVE IInv'
  OBVIOUS
<1>1. CASE UNCHANGED vars
  BY <1>1 DEF vars, IInv, TypeOK, OneDefault, Active, Tx
<1>2. CASE Next
  <2>1. PICK r \in Reqs : Acts(r)
    BY <1>2 DEF Next, Acts
  <2>2. \A q \in Reqs : Tx(q)'
    BY <2>1, TxOthers, TxOwn
  <2> QED BY <2>1, <2>2, TypeNext, OneDefaultNext DEF IInv
<1> QED BY <1>1, <1>2

(* The values of the tables, and what an open transaction holds and locks.  *)
THEOREM TypeCorrect == Spec => []TypeOK
BY InvInit, InvNext, PTL DEF Spec, IInv

(* At every moment one type is the default and in use, for any number of    *)
(* concurrent setDefault, archive, restore and create requests.             *)
THEOREM DefaultUnique == Spec => []OneDefault
BY InvInit, InvNext, PTL DEF Spec, IInv

-----------------------------------------------------------------------------
(***************************************************************************)
(* Refinement                                                              *)
(***************************************************************************)
Default == CHOOSE d \in Keys : d \in isDefault

LEMMA DefaultIs ==
  ASSUME NEW k \in Keys, isDefault = {k}
  PROVE  Default = k
BY DEF Default

LEMMA RefineInit == Init => Dict!Init
<1> SUFFICES ASSUME Init PROVE Dict!Init
  OBVIOUS
<1>1. Default = Working
  BY DefaultIs DEF Init
<1> QED BY <1>1 DEF Init, Dict!Init, Default

LEMMA RefineNext == IInv /\ IInv' /\ [Next]_vars => [Dict!Next]_(Dict!vars)
<1> SUFFICES ASSUME IInv, IInv', [Next]_vars PROVE [Dict!Next]_(Dict!vars)
  OBVIOUS
<1>d. /\ Default \in Keys /\ isDefault = {Default}
      /\ Default' \in Keys /\ isDefault' = {Default'}
  BY DEF IInv, OneDefault, Default
<1>s. (UNCHANGED <<status, isDefault>>) => UNCHANGED Dict!vars
  BY DEF Dict!vars
<1>1. CASE UNCHANGED vars
  BY <1>1, <1>s DEF vars
<1>2. CASE Next
  <2>1. PICK r \in Reqs : Acts(r)
    BY <1>2 DEF Next, Acts
  <2>t. TypeOK /\ Tx(r)
    BY DEF IInv
  <2>2. CASE ~Commits(r)
    BY <2>1, <2>2, <1>s, Quiet
  <2>3. CASE DefaultCommit(r)
    <3>1. /\ req[r].key \in Keys /\ Active(req[r].key)
          /\ isDefault' = {req[r].key} /\ status' = status
      BY <2>3, <2>t DEF DefaultCommit, Tx, TypeOK
    <3>2. Default' = req[r].key
      BY <3>1, <1>d
    <3>3. Dict!SetDefault(req[r].key)
      <4>1. Active(req[r].key) /\ status' = status
        BY <3>1
      <4> QED BY <4>1, <3>2 DEF Dict!SetDefault, Active, Default
    <3> QED BY <3>1, <3>3, SMT DEF Dict!Next, Dict!SetDefault
  <2>4. ASSUME isDefault' = isDefault PROVE UNCHANGED Default
    BY <2>4 DEF Default
  <2>5. CASE ArchiveUpdate(r) /\ ArchiveMatches(req[r].key)
    <3>1. /\ req[r].key \in Keys /\ req[r].key # Default
          /\ status[req[r].key] # "none" /\ isDefault' = isDefault
          /\ status' = [status EXCEPT ![req[r].key] = "archived"]
      BY <2>5, <2>t, <1>d DEF ArchiveUpdate, ArchiveMatches, Tx, TypeOK
    <3>2. CASE status[req[r].key] = "active"
      <4>1. Dict!Archive(req[r].key)
        BY <3>1, <3>2, <2>4 DEF Dict!Archive, Default
      <4> QED BY <3>1, <4>1 DEF Dict!Next
    <3>3. CASE status[req[r].key] = "archived"
      BY <3>1, <3>3, <2>t, <1>s DEF TypeOK
    <3> QED BY <3>1, <3>2, <3>3, <2>t DEF TypeOK
  <2>6. CASE RestoreUpdate(r)
    <3>1. /\ req[r].key \in Keys
          /\ status[req[r].key] # "none" /\ isDefault' = isDefault
          /\ status' = [status EXCEPT ![req[r].key] = "active"]
      BY <2>6, <2>t DEF RestoreUpdate, Tx, TypeOK
    <3>2. CASE status[req[r].key] = "archived"
      <4>1. Dict!Restore(req[r].key)
        BY <3>1, <3>2, <2>4 DEF Dict!Restore, Default
      <4> QED BY <3>1, <4>1 DEF Dict!Next
    <3>3. CASE status[req[r].key] = "active"
      BY <3>1, <3>3, <2>t, <1>s DEF TypeOK
    <3> QED BY <3>1, <3>2, <3>3, <2>t DEF TypeOK
  <2>7. CASE CreateInsert(r) /\ status[req[r].key] = "none"
    <3>1. /\ req[r].key \in Keys /\ isDefault' = isDefault
          /\ status' = [status EXCEPT ![req[r].key] = "active"]
      BY <2>7, <2>t DEF CreateInsert, TypeOK
    <3>2. Dict!Create(req[r].key)
      BY <3>1, <2>7, <2>4 DEF Dict!Create, Default
    <3> QED BY <3>1, <3>2 DEF Dict!Next
  <2> QED BY <2>2, <2>3, <2>5, <2>6, <2>7 DEF Commits
<1> QED BY <1>1, <1>2

(* Whoever reads committed rows sees atomic operations of the dictionary,   *)
(* each with its conditions true when it takes effect.                      *)
THEOREM ImplementsDictionary == Spec => Dictionary
BY InvInit, InvNext, RefineInit, RefineNext, PTL DEF Spec, Dictionary, Dict!Spec

-----------------------------------------------------------------------------
(***************************************************************************)
(* Waiting.  What RequestsEnd rests on, apart from fairness and from the   *)
(* aborts that end a cycle of waits: a request that has begun can take its *)
(* next step, or waits for a transaction that is open.                     *)
(***************************************************************************)
Open == {"clear", "set", "indexed"}

\* The conditions of the next step of r on locks and on the index, one per step.
Ready(r) ==
  LET k == req[r].key IN
  /\ req[r].pc = "clear" => IF req[r].left # {} THEN \E j \in req[r].left : CanLock(r, j)
                                                ELSE SetMatches(k) => CanLock(r, k)
  /\ req[r].pc = "set" => \A q \in Reqs : ~IndexWaits(r, q)
  /\ req[r].pc = "archive" => (ArchiveMatches(k) => rowLock[k] = Nil)
  /\ req[r].pc = "restore" => rowLock[k] = Nil

HeldUpBy(r, q) ==
  \/ WaitsFor(r, q)
  \/ req[r].pc \in {"archive", "restore"} /\ rowLock[req[r].key] = q

NobodyIsStuck ==
  \A r \in Reqs : req[r].pc # "idle" =>
    Ready(r) \/ \E q \in Reqs \ {r} : req[q].pc \in Open /\ HeldUpBy(r, q)

LEMMA WaitsForOpen == IInv => NobodyIsStuck
<1> SUFFICES ASSUME IInv, NEW r \in Reqs, req[r].pc # "idle", ~Ready(r)
             PROVE  \E q \in Reqs \ {r} : req[q].pc \in Open /\ HeldUpBy(r, q)
  BY DEF NobodyIsStuck
<1>t. /\ rowLock \in [Keys -> Reqs \cup {Nil}] /\ req \in [Reqs -> ReqRecord]
      /\ req[r].key \in Keys /\ req[r].left \subseteq Keys
      /\ \A k \in Keys : rowLock[k] # Nil => req[rowLock[k]].pc \in Open
  <2>1. req[r] \in ReqRecord /\ TypeOK
    BY DEF IInv, TypeOK
  <2> QED BY <2>1 DEF TypeOK, ReqRecord, Open
<1>1. CASE req[r].pc = "clear" /\ req[r].left # {}
  <2>1. PICK k \in req[r].left : ~CanLock(r, k)
    BY <1>1 DEF Ready
  <2>2. rowLock[k] \in Reqs \ {r}
    BY <1>t, <2>1 DEF CanLock
  <2>3. WaitsFor(r, rowLock[k])
    BY <2>1 DEF WaitsFor, WaitsForRow
  <2> QED BY <1>t, <2>2, <2>3 DEF HeldUpBy
<1>2. CASE req[r].pc = "clear" /\ req[r].left = {}
  <2> DEFINE k == req[r].key
  <2>1. Active(k) /\ ~CanLock(r, k)
    BY <1>2 DEF Ready, SetMatches
  <2>2. rowLock[k] \in Reqs \ {r}
    BY <1>t, <2>1 DEF CanLock
  <2>3. WaitsFor(r, rowLock[k])
    BY <1>2, <2>1 DEF WaitsFor, WaitsForRow
  <2> QED BY <1>t, <2>2, <2>3 DEF HeldUpBy
<1>3. CASE req[r].pc = "set"
  <2>1. PICK q \in Reqs : IndexWaits(r, q)
    BY <1>3 DEF Ready
  <2>2. q # r /\ HeldUpBy(r, q)
    BY <1>3, <2>1 DEF IndexWaits, HeldUpBy, WaitsFor
  <2>3. req[q].pc \in Open
    <3>1. CASE req[q].cleared = {}
      BY <2>1, <3>1 DEF IndexWaits, Open
    <3>2. CASE req[q].cleared # {}
      <4>1. PICK k \in req[q].cleared : rowLock[k] = q
        BY <3>2 DEF IInv, Tx
      <4>2. k \in Keys
        BY <1>t DEF ReqRecord
      <4> QED BY <1>t, <4>1, <4>2
    <3> QED BY <3>1, <3>2
  <2> QED BY <2>2, <2>3
<1>4. CASE req[r].pc \in {"archive", "restore"}
  <2> DEFINE q == rowLock[req[r].key]
  <2>1. q # Nil
    BY <1>4 DEF Ready
  <2>2. q \in Reqs /\ req[q].pc \in Open
    BY <1>t, <2>1
  <2>3. q # r
    BY <1>4, <2>2 DEF Open
  <2> QED BY <1>4, <2>2, <2>3 DEF HeldUpBy
<1> QED BY <1>1, <1>2, <1>3, <1>4 DEF Ready

(* Nobody waits for a lock that was left behind, or for a request that is   *)
(* over: with the cycles broken, the requests end.                          *)
THEOREM WaitsForTheOpen == Spec => []NobodyIsStuck
BY InvInit, InvNext, WaitsForOpen, PTL DEF Spec
=============================================================================
