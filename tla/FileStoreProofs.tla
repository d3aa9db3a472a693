-------------------------- MODULE FileStoreProofs --------------------------
(***************************************************************************)
(* Proofs about FileStore for every number of uploads, users, references,  *)
(* units of work and cleanup cycles, every quota and every file size.      *)
(***************************************************************************)
EXTENDS FileStore, TLAPS

USE NullAssumption, LimitsAssumption

-----------------------------------------------------------------------------
(***************************************************************************)
(* Type correctness                                                        *)
(***************************************************************************)
LEMMA TypeInit == Init => TypeOK
<1> SUFFICES ASSUME Init PROVE TypeOK
  OBVIOUS
<1>1. UploadTypeOK
  BY DEF Init, UploadTypeOK, UploadState, NoTally
<1>2. RowTypeOK
  BY DEF Init, RowTypeOK, Status
<1>3. UowTypeOK
  BY DEF Init, UowTypeOK, UowRecord, NewUow, Status
<1>4. CleanTypeOK
  BY DEF Init, CleanTypeOK, CleanerRecord, Idle
<1> QED BY <1>1, <1>2, <1>3, <1>4 DEF Init, TypeOK

(* A part of the type invariant depends on its own variables only.          *)
LEMMA TypeFrame ==
  /\ UploadTypeOK /\ UNCHANGED <<uploadVars, disk>> => UploadTypeOK'
  /\ RowTypeOK /\ UNCHANGED <<rowVars, expired>> => RowTypeOK'
  /\ UowTypeOK /\ UNCHANGED uowVars => UowTypeOK'
  /\ CleanTypeOK /\ UNCHANGED cleanVars => CleanTypeOK'
<1>1. UploadTypeOK /\ UNCHANGED <<uploadVars, disk>> => UploadTypeOK'
  BY DEF uploadVars, UploadTypeOK
<1>2. RowTypeOK /\ UNCHANGED <<rowVars, expired>> => RowTypeOK'
  BY DEF rowVars, RowTypeOK
<1>3. UowTypeOK /\ UNCHANGED uowVars => UowTypeOK'
  BY DEF uowVars, UowTypeOK
<1>4. CleanTypeOK /\ UNCHANGED cleanVars => CleanTypeOK'
  BY DEF cleanVars, CleanTypeOK
<1> QED BY <1>1, <1>2, <1>3, <1>4

LEMMA TypeUpload ==
  ASSUME TypeOK, NEW f \in Files, UploadStep(f) \/ StoreFails(f) \/ QuotaFails(f)
  PROVE  TypeOK'
<1> USE DEF UploadTypeOK, RowTypeOK, UploadState, UploadEnded, Goto
<1>0. UNCHANGED <<expired, ref, uowVars, cleanVars, crashes>>
  BY DEF UploadStep, UploadBegin, StoreProbe, StoreTemp, StoreRename, QuotaSum,
         QuotaInsert, QuotaRefuse, UploadUndo, StoreFails, QuotaFails
<1>t. UploadTypeOK /\ RowTypeOK
  BY DEF TypeOK
<1>b. Counted \in SUBSET Files /\ CountedOf(Owner[f]) \in SUBSET Files
  BY DEF Counted, CountedOf
<1>p. UploadTypeOK' /\ status' \in [Files -> Status]
  <2>1. CASE UploadBegin(f)   BY <1>t, <2>1 DEF UploadBegin
  <2>2. CASE StoreProbe(f)    BY <1>t, <2>2 DEF StoreProbe
  <2>3. CASE StoreTemp(f)     BY <1>t, <2>3 DEF StoreTemp
  <2>4. CASE StoreRename(f)   BY <1>t, <2>4 DEF StoreRename, ReleaseWriter
  <2>5. CASE QuotaSum(f)
    BY <1>t, <1>b, <2>5, BytesAssumption DEF QuotaSum
  <2>6. CASE QuotaInsert(f)
    BY <1>t, <2>6 DEF QuotaInsert, EndQuota, NoTally, Status
  <2>7. CASE QuotaRefuse(f)   BY <1>t, <2>7 DEF QuotaRefuse, EndQuota, NoTally
  <2>8. CASE UploadUndo(f)    BY <1>t, <2>8 DEF UploadUndo, Erase
  <2>9. CASE StoreFails(f)    BY <1>t, <2>9 DEF StoreFails, ReleaseWriter
  <2>10. CASE QuotaFails(f)
    <3>1. NoTally \in [tenant : Nat, user : Nat]
      BY DEF NoTally
    <3> QED BY <1>t, <2>10, <3>1 DEF QuotaFails, EndQuota
  <2> QED
    BY <2>1, <2>2, <2>3, <2>4, <2>5, <2>6, <2>7, <2>8, <2>9, <2>10 DEF UploadStep
<1> QED BY <1>0, <1>p, TypeFrame DEF TypeOK

(* The operators on the records of units of work and cleanup cycles.       *)
LEMMA UowRecords ==
  ASSUME NEW u \in UowRecord
  PROVE  /\ \A a \in Users, r \in Refs, fs \in SUBSET Files : Begun(u, a, r, fs) \in UowRecord
         /\ \A f \in Files : status[f] \in Status => Found(u, f) \in UowRecord
         /\ Unbound(u) \in UowRecord
         /\ \A S \in SUBSET Files : Bound(u, S) \in UowRecord
         /\ \A pc \in UowEnded : Ended(u, pc) \in UowRecord
BY DEF UowRecord, UowEnded, Status, Begun, Found, Unbound, Bound, Ended

LEMMA UowFields ==
  ASSUME NEW u \in UowRecord
  PROVE  /\ \A a, r, fs : LET b == Begun(u, a, r, fs) IN
              /\ b.pc = "next" /\ b.actor = a /\ b.ref = r /\ b.asked = fs /\ b.left = fs
              /\ b.held = u.held /\ b.cur = u.cur
         /\ \A f : LET b == Found(u, f) IN
              /\ b.pc = "ref" /\ b.actor = u.actor /\ b.ref = u.ref /\ b.asked = u.asked
              /\ b.left = u.left /\ b.held = u.held /\ b.cur = f
         /\ LET b == Unbound(u) IN
              /\ b.pc = "claim" /\ b.actor = u.actor /\ b.ref = u.ref /\ b.asked = u.asked
              /\ b.left = u.left /\ b.held = u.held /\ b.cur = u.cur
         /\ \A S : LET b == Bound(u, S) IN
              /\ b.pc = "next" /\ b.actor = u.actor /\ b.ref = u.ref /\ b.asked = u.asked
              /\ b.left = u.left \ {u.cur} /\ b.held = u.held \cup S /\ b.cur = Nil
         /\ \A pc : LET b == Ended(u, pc) IN
              /\ b.pc = pc /\ b.actor = u.actor /\ b.ref = u.ref /\ b.asked = u.asked
              /\ b.left = {} /\ b.held = {} /\ b.cur = Nil
BY DEF UowRecord, Begun, Found, Unbound, Bound, Ended

LEMMA CleanerRecords ==
  ASSUME NEW cl \in CleanerRecord
  PROVE  /\ \A f \in Files : Erased(cl, f) \in CleanerRecord /\ Finished(cl, f) \in CleanerRecord
         /\ \A S \in SUBSET Files : [pc |-> "erase", todo |-> S, cur |-> Nil] \in CleanerRecord
         /\ Idle \in CleanerRecord
BY DEF CleanerRecord, Erased, Finished, Idle

LEMMA CleanerFields ==
  ASSUME NEW cl \in CleanerRecord, NEW f
  PROVE  /\ Erased(cl, f).pc = "mark" /\ Erased(cl, f).todo = cl.todo /\ Erased(cl, f).cur = f
         /\ /\ Finished(cl, f).pc = "erase" /\ Finished(cl, f).todo = cl.todo \ {f}
            /\ Finished(cl, f).cur = Nil
         /\ Idle.pc = "idle" /\ Idle.todo = {} /\ Idle.cur = Nil
BY DEF CleanerRecord, Erased, Finished, Idle

LEMMA TypeUow ==
  ASSUME TypeOK, NEW t \in Uows, UowBegin(t) \/ UowStep(t) \/ UowFails(t)
  PROVE  TypeOK'
<1>t. uow[t] \in UowRecord /\ UowTypeOK /\ RowTypeOK
  BY DEF TypeOK, UowTypeOK
<1>f. uow[t].left \subseteq Files /\ uow[t].ref \in Refs \cup {Nil}
  BY <1>t DEF UowRecord
<1>0. UNCHANGED <<uploadVars, disk, expired, cleanVars, crashes>>
  BY DEF UowStep, UowBegin, UowFails, AttachRead, AttachReference, AttachClaim, UowCommit,
         DeadlockVictim, Rollback
<1>1. ASSUME NEW u \in UowRecord, uow' = [uow EXCEPT ![t] = u],
             rowLock' \in [Files -> Uows \cup {Nil}],
             u.pc \in {"ref", "claim"} => u.cur \in Files
      PROVE  UowTypeOK'
  BY <1>1, <1>t DEF UowTypeOK
<1>2. ASSUME NEW pc \in UowEnded, EndUow(t, pc)
      PROVE  UowTypeOK'
  <2>1. Ended(uow[t], pc) \in UowRecord /\ Ended(uow[t], pc).pc = pc
    BY <1>t, UowRecords, UowFields
  <2> QED BY <1>1, <1>2, <1>t, <2>1 DEF EndUow, UowEnded, UowTypeOK
<1>3. Rollback(t) => UowTypeOK' /\ RowTypeOK'
  BY <1>0, <1>2, <1>t, TypeFrame DEF Rollback, UowEnded
<1>p. UowTypeOK' /\ RowTypeOK'
  <2>1. CASE UowBegin(t)
    <3>1. PICK a \in Users, r \in Refs, fs \in SUBSET Files :
            uow' = [uow EXCEPT ![t] = Begun(uow[t], a, r, fs)]
      BY <2>1 DEF UowBegin
    <3>2. Begun(uow[t], a, r, fs) \in UowRecord /\ Begun(uow[t], a, r, fs).pc = "next"
      BY <1>t, UowRecords, UowFields
    <3> QED BY <1>1, <1>t, <2>1, <3>1, <3>2, TypeFrame DEF UowBegin, UowTypeOK
  <2>2. CASE AttachRead(t)
    <3>1. ASSUME NEW f \in uow[t].left, uow' = [uow EXCEPT ![t] = Found(uow[t], f)],
                 UNCHANGED <<rowVars, expired, rowLock>>
          PROVE  UowTypeOK' /\ RowTypeOK'
      <4>1. status[f] \in Status
        BY <1>t, <1>f DEF RowTypeOK
      <4>2. Found(uow[t], f) \in UowRecord /\ Found(uow[t], f).cur = f
        BY <1>f, <1>t, <4>1, UowRecords, UowFields
      <4> QED BY <1>1, <1>f, <1>t, <3>1, <4>2, TypeFrame DEF UowTypeOK
    <3> QED BY <1>3, <2>2, <3>1 DEF AttachRead
  <2>3. CASE AttachReference(t)
    <3>1. uow[t].cur \in Files
      BY <1>t, <2>3 DEF AttachReference, UowTypeOK
    <3>2. /\ Unbound(uow[t]) \in UowRecord /\ Unbound(uow[t]).cur = uow[t].cur
          /\ Bound(uow[t], {uow[t].cur}) \in UowRecord
          /\ Bound(uow[t], {uow[t].cur}).pc = "next"
      BY <1>t, <3>1, UowRecords, UowFields
    <3> QED BY <1>1, <1>3, <1>t, <2>3, <3>1, <3>2, TypeFrame DEF AttachReference, UowTypeOK
  <2>4. CASE AttachClaim(t)
    <3>1. Bound(uow[t], {}) \in UowRecord /\ Bound(uow[t], {}).pc = "next"
      BY <1>t, UowRecords, UowFields
    <3> QED BY <1>1, <1>3, <1>t, <2>4, <3>1, TypeFrame
            DEF AttachClaim, ReferenceOnCommit, UowTypeOK, rowVars
  <2>5. CASE UowCommit(t)
    <3>1. RowTypeOK'
      BY <1>f, <1>t, <2>5 DEF UowCommit, RowTypeOK, Status
    <3> QED BY <1>2, <2>5, <3>1 DEF UowCommit, UowEnded
  <2> QED BY <1>3, <2>1, <2>2, <2>3, <2>4, <2>5 DEF UowStep, UowFails, DeadlockVictim
<1> QED BY <1>0, <1>p, TypeFrame DEF TypeOK

LEMMA TypeClean ==
  ASSUME TypeOK, NEW c \in Cleaners, CleanStep(c) \/ CleanFails(c)
  PROVE  TypeOK'
<1>t. cleaner[c] \in CleanerRecord /\ CleanTypeOK /\ RowTypeOK
  BY DEF TypeOK, CleanTypeOK
<1>f. cleaner[c].todo \subseteq Files
  BY <1>t DEF CleanerRecord
<1>0. UNCHANGED <<uploadVars, uowVars, crashes>> /\ UploadTypeOK'
  BY DEF CleanStep, CleanFails, CleanClaim, CleanErase, CleanMark, CleanEnd, Erase,
         TypeOK, UploadTypeOK, uploadVars
<1>1. ASSUME NEW cl \in CleanerRecord, cleaner' = [cleaner EXCEPT ![c] = cl],
             cleaned' \in [Files -> Nat], cl.pc = "mark" => cl.cur \in Files
      PROVE  CleanTypeOK'
  BY <1>1, <1>t DEF CleanTypeOK
<1>i. Idle \in CleanerRecord /\ Idle.pc = "idle"
  BY <1>t, CleanerRecords, CleanerFields
<1>r. ASSUME NEW f \in Files
      PROVE  /\ Finished(cleaner[c], f) \in CleanerRecord
             /\ Finished(cleaner[c], f).pc = "erase"
             /\ Erased(cleaner[c], f) \in CleanerRecord
             /\ Erased(cleaner[c], f).cur = f
  BY <1>t, CleanerRecords, CleanerFields
<1>p. CleanTypeOK' /\ RowTypeOK'
  <2>1. CASE CleanClaim(c)
    <3>1. PICK S \in SUBSET Claimable :
            /\ status' = [f \in Files |-> IF f \in S THEN "deleting" ELSE status[f]]
            /\ cleaner' = [cleaner EXCEPT ![c] = [pc |-> "erase", todo |-> S, cur |-> Nil]]
      BY <2>1 DEF CleanClaim
    <3>2. [pc |-> "erase", todo |-> S, cur |-> Nil] \in CleanerRecord
      BY DEF CleanerRecord, Claimable
    <3> QED BY <1>1, <1>t, <2>1, <3>1, <3>2 DEF CleanClaim, RowTypeOK, CleanTypeOK, Status
  <2>2. ASSUME NEW f \in Files, CleanErase(c, f) PROVE CleanTypeOK' /\ RowTypeOK'
    BY <1>1, <1>r, <1>t, <2>2, TypeFrame DEF CleanErase, CleanTypeOK
  <2>3. CASE CleanMark(c)
    <3>1. cleaner[c].cur \in Files
      BY <1>t, <2>3 DEF CleanMark, CleanTypeOK
    <3> QED BY <1>1, <1>r, <1>t, <2>3, <3>1 DEF CleanMark, MarkRow, CleanTypeOK, RowTypeOK, Status
  <2>4. CASE CleanEnd(c)
    BY <1>1, <1>i, <1>t, <2>4, TypeFrame DEF CleanEnd, CleanTypeOK
  <2>5. CASE CleanFails(c)
    <3>1. \E f \in Files : \/ cleaner' = [cleaner EXCEPT ![c] = Finished(cleaner[c], f)]
                           \/ cleaner' = [cleaner EXCEPT ![c] = Idle]
      BY <1>f, <1>t, <2>5 DEF CleanFails, CleanTypeOK
    <3>2. CleanTypeOK'
      BY <1>1, <1>i, <1>r, <1>t, <2>5, <3>1 DEF CleanFails, CleanTypeOK
    <3>3. RowTypeOK'
      BY <1>t, <2>5 DEF CleanFails, MarkRow, RowTypeOK, Status
    <3> QED BY <3>2, <3>3
  <2> QED BY <2>1, <2>2, <2>3, <2>4, <2>5 DEF CleanStep
<1> QED BY <1>0, <1>p, TypeFrame DEF TypeOK

LEMMA TypeCrash == TypeOK /\ Crash => TypeOK'
<1> SUFFICES ASSUME TypeOK, Crash PROVE TypeOK'
  OBVIOUS
<1>1. UploadTypeOK'
  BY DEF TypeOK, UploadTypeOK, Crash, UploadState, UploadEnded, NoTally
<1>2. UowTypeOK'
  <2>1. \A t \in Uows : /\ Ended(uow[t], "aborted") \in UowRecord
                        /\ Ended(uow[t], "aborted").pc = "aborted"
    BY UowRecords, UowFields DEF TypeOK, UowTypeOK, UowEnded
  <2> QED BY <2>1 DEF TypeOK, UowTypeOK, Crash
<1>3. CleanTypeOK'
  <2>1. Idle \in CleanerRecord /\ Idle.pc = "idle"
    BY DEF Idle, CleanerRecord
  <2> QED BY <2>1 DEF TypeOK, CleanTypeOK, Crash
<1> QED BY <1>1, <1>2, <1>3, TypeFrame DEF TypeOK, Crash

LEMMA TypeNext == TypeOK /\ [Next]_vars => TypeOK'
<1> SUFFICES ASSUME TypeOK, [Next]_vars PROVE TypeOK'
  OBVIOUS
<1>1. ASSUME NEW f \in Files, Expire(f) PROVE TypeOK'
  BY <1>1, TypeFrame DEF Expire, TypeOK, RowTypeOK, rowVars
<1>2. CASE UNCHANGED vars
  BY <1>2, TypeFrame DEF vars, TypeOK, uploadVars, rowVars, uowVars, cleanVars
<1> QED
  BY <1>1, <1>2, TypeUpload, TypeUow, TypeClean, TypeCrash DEF Next, Settled

(* The state of FileStore keeps its type; in particular the sums a quota    *)
(* check works with never become negative.                                  *)
THEOREM TypeCorrect == Spec => []TypeOK
BY TypeInit, TypeNext, PTL DEF Spec

-----------------------------------------------------------------------------
(***************************************************************************)
(* The inductive invariant: what the two locks, the row locks and the      *)
(* statuses protect, one part per mechanism.                               *)
(***************************************************************************)

(* Write lock and disk: between the probe and the write of an upload no     *)
(* other upload writes, so the probe still holds when the bytes arrive.     *)
DiskInv ==
  /\ \A f \in Files :
       /\ up[f] \in {"idle", "queued", "probed"} => f \notin disk \cup temp
       /\ up[f] = "temp" => f \in temp \ disk
       /\ up[f] \in {"stored", "summed"} => f \in disk
       /\ up[f] \in {"probed", "temp"} <=> writer = f
       /\ up[f] = "probed" => Bytes(disk \cup temp) + Size[f] <= DiskRoom
  /\ DiskWithinRoom

(* Advisory lock: the sums an upload works with are upper bounds until it   *)
(* ends its transaction, since only cleanup changes a counted status then.  *)
QuotaInv ==
  /\ \A f \in Files :
       /\ up[f] = "summed" <=> quotaLock = f
       /\ up[f] = "summed" =>
            /\ Bytes(Counted) <= tally[f].tenant
            /\ Bytes(CountedOf(Owner[f])) <= tally[f].user
  /\ QuotaRespected

(* Rows and bytes. *)
RowInv ==
  /\ \A f \in Files :
       /\ up[f] \in {"idle", "queued", "probed", "temp", "stored", "summed"} =>
            status[f] = "none"
       /\ status[f] = "deleted" => f \notin disk
  /\ BoundIffAttached
  /\ BytesBehindRows

(* A row lock is held by a live unit of work on a row that stays staged;    *)
(* what a unit of work has dealt with is locked by it or bound to its       *)
(* reference.                                                               *)
UowInv ==
  /\ \A t \in Uows :
       /\ uow[t].pc # "idle" => uow[t].ref \in Refs
       /\ uow[t].left \subseteq uow[t].asked
       /\ uow[t].pc \in {"ref", "claim"} =>
            uow[t].cur \in uow[t].left /\ Owner[uow[t].cur] = uow[t].actor
       /\ Active(t) => \A f \in uow[t].asked \ uow[t].left :
            /\ Owner[f] = uow[t].actor
            /\ rowLock[f] = t \/ (status[f] = "attached" /\ ref[f] = uow[t].ref)
  /\ \A f \in Files : \A t \in Uows : rowLock[f] = t =>
       status[f] = "staged" /\ Active(t) /\ f \in uow[t].asked \ uow[t].left
  /\ UowAllOrNothing

(* What a cleanup cycle still has to do is claimed and stays claimed.       *)
CleanInv ==
  /\ \A c \in Cleaners :
       /\ \A f \in cleaner[c].todo : status[f] \in {"deleting", "deleted"}
       /\ cleaner[c].pc = "mark" =>
            cleaner[c].cur \in cleaner[c].todo /\ cleaner[c].cur \notin disk
  /\ CleanedOnce

(* Without crashes and disk faults, bytes without a row belong to an upload *)
(* in flight.                                                               *)
OrphanInv ==
  (crashes = 0 /\ ~DiskFaults) =>
    \A f \in Files : /\ up[f] # "lost"
                     /\ f \in temp => up[f] = "temp"
                     /\ up[f] = "done" => status[f] # "none"
                     /\ f \in disk /\ up[f] = "refused" => status[f] # "none"

IInv == TypeOK /\ DiskInv /\ QuotaInv /\ RowInv /\ UowInv /\ CleanInv /\ OrphanInv

LEMMA InvInit == Init => IInv
<1> SUFFICES ASSUME Init PROVE IInv
  OBVIOUS
<1>1. TypeOK
  BY TypeInit
<1>2. Counted = {} /\ \A u \in Users : CountedOf(u) = {}
  BY DEF Init, Counted, CountedOf
<1>3. DiskInv
  BY BytesAssumption DEF Init, DiskInv, DiskWithinRoom
<1>4. QuotaInv
  BY <1>2, BytesAssumption DEF Init, QuotaInv, QuotaRespected
<1>5. RowInv
  BY DEF Init, RowInv, BoundIffAttached, BytesBehindRows
<1>6. UowInv
  BY DEF Init, UowInv, UowAllOrNothing, NewUow, Active, UowEnded
<1>7. CleanInv
  BY DEF Init, CleanInv, CleanedOnce, Idle
<1>8. OrphanInv
  BY DEF Init, OrphanInv
<1> QED BY <1>1, <1>3, <1>4, <1>5, <1>6, <1>7, <1>8 DEF IInv

-----------------------------------------------------------------------------
(***************************************************************************)
(* The disk                                                                *)
(***************************************************************************)

(* Less on disk takes less room.                                            *)
LEMMA LessOnDisk ==
  ASSUME UploadTypeOK, NEW S \in SUBSET Files, S \subseteq disk \cup temp
  PROVE  Bytes(S) \in Nat /\ Bytes(disk \cup temp) \in Nat /\ Bytes(S) <= Bytes(disk \cup temp)
<1>1. disk \cup temp \in SUBSET Files
  BY DEF UploadTypeOK
<1> QED BY <1>1, BytesAssumption

LEMMA DiskUpload ==
  ASSUME IInv, NEW f \in Files, UploadStep(f) \/ StoreFails(f) \/ QuotaFails(f)
  PROVE  DiskInv'
<1> USE DEF DiskInv, DiskWithinRoom, Goto
<1>t. UploadTypeOK /\ DiskInv
  BY DEF IInv, TypeOK
<1>s. \A g \in Files : Size[g] \in Nat
  BY BytesAssumption
<1>1. CASE UploadBegin(f)
  BY <1>1, <1>t DEF UploadBegin, UploadTypeOK
<1>2. CASE StoreProbe(f)
  BY <1>2, <1>t DEF StoreProbe, WriterFree, UploadTypeOK
<1>3. CASE StoreTemp(f)
  <2>1. f \notin disk \cup temp /\ disk \cup temp \in SUBSET Files
    BY <1>3, <1>t DEF StoreTemp, UploadTypeOK
  <2>2. disk' \cup temp' = (disk \cup temp) \cup {f}
    BY <1>3 DEF StoreTemp
  <2>3. Bytes(disk' \cup temp') = Bytes(disk \cup temp) + Size[f]
    BY <2>1, <2>2, BytesAssumption
  <2>4. \A g \in Files \ {f} : up[g] \notin {"probed", "temp"}
    BY <1>3, <1>t DEF StoreTemp
  <2> QED BY <1>3, <1>t, <2>1, <2>3, <2>4 DEF StoreTemp, UploadTypeOK
<1>4. CASE StoreRename(f)
  <2>1. disk' \cup temp' = disk \cup temp
    BY <1>4, <1>t DEF StoreRename
  <2> QED BY <1>4, <1>t, <2>1 DEF StoreRename, ReleaseWriter, UploadTypeOK, NullAssumption
<1>5. CASE StoreFails(f)
  <2>1. disk' \cup temp' \subseteq disk \cup temp /\ disk' \cup temp' \in SUBSET Files
    BY <1>5, <1>t DEF StoreFails, UploadTypeOK
  <2>2. /\ Bytes(disk' \cup temp') <= Bytes(disk \cup temp)
        /\ Bytes(disk' \cup temp') \in Nat /\ Bytes(disk \cup temp) \in Nat
    BY <1>t, <2>1, LessOnDisk
  <2>3. \A g \in Files \ {f} : up[g] \notin {"probed", "temp"}
    BY <1>5, <1>t DEF StoreFails
  <2> QED BY <1>5, <1>t, <2>1, <2>2, <2>3 DEF StoreFails, ReleaseWriter, UploadTypeOK
<1>6. CASE UploadUndo(f)
  <2>1. disk' \cup temp' \subseteq disk \cup temp /\ disk' \cup temp' \in SUBSET Files
    BY <1>6, <1>t DEF UploadUndo, UploadTypeOK, Erase
  <2>2. /\ Bytes(disk' \cup temp') <= Bytes(disk \cup temp)
        /\ Bytes(disk' \cup temp') \in Nat /\ Bytes(disk \cup temp) \in Nat
    BY <1>t, <2>1, LessOnDisk
  <2> QED BY <1>6, <1>s, <1>t, <2>1, <2>2 DEF UploadUndo, UploadTypeOK, Erase
<1>7. CASE QuotaSum(f) \/ QuotaInsert(f) \/ QuotaRefuse(f) \/ QuotaFails(f)
  <2>1. /\ UNCHANGED <<writer, temp, disk>> /\ up[f] \in {"stored", "summed"}
        /\ \E pc \in {"summed", "done", "undo"} : up' = [up EXCEPT ![f] = pc]
    BY <1>7 DEF QuotaSum, QuotaInsert, QuotaRefuse, QuotaFails
  <2>2. /\ \A g \in Files : g # f => up'[g] = up[g]
        /\ up'[f] \in {"summed", "done", "undo"}
    BY <1>t, <2>1 DEF UploadTypeOK
  <2> QED BY <1>t, <2>1, <2>2
<1> QED BY <1>1, <1>2, <1>3, <1>4, <1>5, <1>6, <1>7 DEF UploadStep

LEMMA DiskErase ==
  ASSUME IInv, NEW c \in Cleaners, NEW f \in Files, CleanErase(c, f)
  PROVE  DiskInv'
<1>t. UploadTypeOK /\ DiskInv /\ RowInv /\ CleanInv
  BY DEF IInv, TypeOK
<1>s. \A g \in Files : Size[g] \in Nat
  BY BytesAssumption
<1>1. up[f] \notin {"stored", "summed"}
  BY <1>t DEF CleanErase, CleanInv, RowInv
<1>2. disk' \cup temp' \subseteq disk \cup temp /\ disk' \cup temp' \in SUBSET Files
  BY <1>t DEF CleanErase, Erase, UploadTypeOK, uploadVars
<1>3. /\ Bytes(disk' \cup temp') <= Bytes(disk \cup temp)
      /\ Bytes(disk' \cup temp') \in Nat /\ Bytes(disk \cup temp) \in Nat
  BY <1>t, <1>2, LessOnDisk
<1>4. UNCHANGED <<up, writer, temp>> /\ disk' = disk \ {f}
  BY DEF CleanErase, Erase, uploadVars
<1>5. Bytes(disk' \cup temp') <= DiskRoom
  BY <1>3, <1>t DEF DiskInv, DiskWithinRoom
<1>6. ASSUME NEW g \in Files, up[g] = "probed"
      PROVE  Bytes(disk' \cup temp') + Size[g] <= DiskRoom
  <2>1. Bytes(disk \cup temp) + Size[g] <= DiskRoom
    BY <1>6, <1>t DEF DiskInv
  <2> QED BY <1>3, <1>s, <2>1, LimitsAssumption
<1> QED BY <1>1, <1>4, <1>5, <1>6, <1>t DEF DiskInv, DiskWithinRoom

LEMMA DiskCrash == IInv /\ Crash => DiskInv'
BY DEF IInv, TypeOK, UploadTypeOK, DiskInv, DiskWithinRoom, Crash, InFlight, UploadEnded, NullAssumption

LEMMA DiskFrame == DiskInv /\ UNCHANGED <<uploadVars, disk>> => DiskInv'
BY DEF DiskInv, DiskWithinRoom, uploadVars

-----------------------------------------------------------------------------
(***************************************************************************)
(* The quota                                                               *)
(***************************************************************************)
LEMMA CountedBytes ==
  ASSUME NEW u
  PROVE  /\ Counted \in SUBSET Files /\ Bytes(Counted) \in Nat
         /\ CountedOf(u) \in SUBSET Files /\ Bytes(CountedOf(u)) \in Nat
         /\ Counted' \in SUBSET Files /\ Bytes(Counted') \in Nat
         /\ CountedOf(u)' \in SUBSET Files /\ Bytes(CountedOf(u)') \in Nat
<1>1. /\ Counted \in SUBSET Files /\ CountedOf(u) \in SUBSET Files
      /\ Counted' \in SUBSET Files /\ CountedOf(u)' \in SUBSET Files
  BY DEF Counted, CountedOf
<1> QED BY <1>1, BytesAssumption

(* A step after which no more rows count keeps the quota and every sum.     *)
LEMMA QuotaShrinks ==
  ASSUME IInv, UNCHANGED uploadVars,
         \A f \in Files : status'[f] \in {"staged", "attached", "deleting"}
                            => status[f] \in {"staged", "attached", "deleting"}
  PROVE  QuotaInv'
<1>1. Counted' \subseteq Counted /\ \A u : CountedOf(u)' \subseteq CountedOf(u)
  BY DEF Counted, CountedOf
<1>2. Bytes(Counted') <= Bytes(Counted)
  BY <1>1, CountedBytes, BytesAssumption
<1>3. ASSUME NEW u PROVE Bytes(CountedOf(u)') <= Bytes(CountedOf(u))
  BY <1>1, CountedBytes, BytesAssumption
<1>4. \A f \in Files : /\ tally[f].tenant \in Nat /\ tally[f].user \in Nat
                       /\ Owner[f] \in Users
  BY BytesAssumption DEF IInv, TypeOK, UploadTypeOK
<1>5. QuotaRespected'
  BY <1>2, <1>3, CountedBytes DEF IInv, QuotaInv, QuotaRespected
<1>6. ASSUME NEW f \in Files, up'[f] = "summed"
      PROVE  /\ Bytes(Counted') <= tally'[f].tenant
             /\ Bytes(CountedOf(Owner[f])') <= tally'[f].user
  BY <1>2, <1>3, <1>4, <1>6, CountedBytes DEF IInv, QuotaInv, uploadVars
<1> QED BY <1>5, <1>6 DEF IInv, QuotaInv, uploadVars

LEMMA QuotaUpload ==
  ASSUME IInv, NEW f \in Files, UploadStep(f) \/ StoreFails(f) \/ QuotaFails(f)
  PROVE  QuotaInv'
<1>t. /\ UploadTypeOK /\ RowTypeOK /\ QuotaInv /\ RowInv
      /\ \A g \in Files : /\ Owner[g] \in Users /\ Size[g] \in Nat
                          /\ tally[g].tenant \in Nat /\ tally[g].user \in Nat
  BY BytesAssumption DEF IInv, TypeOK, UploadTypeOK
<1>1. CASE UNCHANGED <<quotaLock, tally, status>> /\ up[f] # "summed" /\ up'[f] # "summed"
           /\ \A g \in Files : g # f => up'[g] = up[g]
  <2>1. UNCHANGED Counted /\ \A u : UNCHANGED CountedOf(u)
    BY <1>1 DEF Counted, CountedOf
  <2>2. QuotaRespected'
    BY <1>t, <2>1 DEF QuotaInv, QuotaRespected
  <2> QED BY <1>1, <1>t, <2>1, <2>2 DEF QuotaInv
<1>2. CASE QuotaSum(f)
  <2>1. UNCHANGED Counted /\ \A u : UNCHANGED CountedOf(u)
    BY <1>2 DEF QuotaSum, Counted, CountedOf
  <2>2. QuotaRespected'
    BY <1>t, <2>1 DEF QuotaInv, QuotaRespected
  <2>3. /\ tally'[f].tenant = Bytes(Counted) /\ tally'[f].user = Bytes(CountedOf(Owner[f]))
        /\ up'[f] = "summed" /\ quotaLock' = f
        /\ \A g \in Files : g # f => up'[g] = up[g] /\ up[g] # "summed"
    BY <1>2, <1>t DEF QuotaSum, QuotaFree, UploadTypeOK, QuotaInv, Goto
  <2> QED BY <2>1, <2>2, <2>3, CountedBytes DEF QuotaInv
<1>3. CASE QuotaInsert(f)
  <2>1. f \notin Counted /\ Counted' = Counted \cup {f}
    BY <1>3, <1>t DEF QuotaInsert, Counted, RowInv, RowTypeOK
  <2>2. ASSUME NEW u \in Users
        PROVE  CountedOf(u)' = IF u = Owner[f] THEN CountedOf(u) \cup {f} ELSE CountedOf(u)
    BY <2>1 DEF CountedOf
  <2>3. Bytes(Counted') = Bytes(Counted) + Size[f]
    BY <2>1, CountedBytes, BytesAssumption
  <2>4. ASSUME NEW u \in Users, u = Owner[f]
        PROVE  Bytes(CountedOf(u)') = Bytes(CountedOf(u)) + Size[f]
    <3>1. f \in Files \ CountedOf(u)
      BY <2>1 DEF CountedOf
    <3> QED BY <2>2, <2>4, <3>1, CountedBytes, BytesAssumption
  <2>5. /\ Bytes(Counted) + Size[f] <= TenantQuota
        /\ Bytes(CountedOf(Owner[f])) + Size[f] <= UserQuota
    BY <1>3, <1>t, CountedBytes DEF QuotaInsert, WithinQuota, QuotaInv
  <2>6. QuotaRespected'
    <3>1. Bytes(Counted') <= TenantQuota
      BY <2>3, <2>5
    <3>2. ASSUME NEW u \in Users PROVE Bytes(CountedOf(u)') <= UserQuota
      BY <1>t, <2>2, <2>4, <2>5 DEF QuotaInv, QuotaRespected
    <3> QED BY <3>1, <3>2 DEF QuotaRespected
  <2>7. \A g \in Files : up'[g] # "summed" /\ quotaLock' = Nil
    BY <1>3, <1>t DEF QuotaInsert, EndQuota, Goto, UploadTypeOK, QuotaInv
  <2> QED BY <2>6, <2>7 DEF QuotaInv, NullAssumption
<1>4. CASE up[f] = "summed" /\ up'[f] = "undo" /\ EndQuota(f) /\ UNCHANGED status
           /\ \A g \in Files : g # f => up'[g] = up[g]
  <2>1. UNCHANGED Counted /\ \A u : UNCHANGED CountedOf(u)
    BY <1>4 DEF Counted, CountedOf
  <2>2. QuotaRespected'
    BY <1>t, <2>1 DEF QuotaInv, QuotaRespected
  <2>3. \A g \in Files : up'[g] # "summed" /\ quotaLock' = Nil
    BY <1>4, <1>t DEF EndQuota, QuotaInv
  <2> QED BY <2>2, <2>3 DEF QuotaInv, NullAssumption
<1>5. CASE QuotaRefuse(f) \/ QuotaFails(f)
  BY <1>1, <1>4, <1>5, <1>t DEF QuotaRefuse, QuotaFails, Goto, UploadTypeOK
<1>6. CASE UploadBegin(f) \/ StoreProbe(f) \/ StoreTemp(f) \/ StoreRename(f)
           \/ StoreFails(f) \/ UploadUndo(f)
  <2>1. /\ UNCHANGED <<quotaLock, tally, status>> /\ up[f] # "summed"
        /\ \E pc \in UploadState \ {"summed"} : up' = [up EXCEPT ![f] = pc]
    BY <1>6 DEF UploadBegin, StoreProbe, StoreTemp, StoreRename, StoreFails, UploadUndo,
                Goto, UploadState, UploadEnded
  <2> QED BY <1>1, <1>t, <2>1 DEF UploadTypeOK
<1> QED BY <1>2, <1>3, <1>5, <1>6 DEF UploadStep

LEMMA QuotaCrash == IInv /\ Crash => QuotaInv'
<1> SUFFICES ASSUME IInv, Crash PROVE QuotaInv'
  OBVIOUS
<1>1. UNCHANGED Counted /\ \A u : UNCHANGED CountedOf(u)
  BY DEF Crash, rowVars, Counted, CountedOf
<1>2. QuotaRespected'
  BY <1>1 DEF IInv, QuotaInv, QuotaRespected
<1>3. \A f \in Files : up'[f] # "summed" /\ quotaLock' = Nil
  BY DEF Crash, InFlight, UploadEnded
<1> QED BY <1>2, <1>3 DEF QuotaInv, NullAssumption

-----------------------------------------------------------------------------
(***************************************************************************)
(* Rows, references and bytes                                              *)
(***************************************************************************)
LEMMA RowUpload ==
  ASSUME IInv, NEW f \in Files, UploadStep(f) \/ StoreFails(f) \/ QuotaFails(f)
  PROVE  RowInv'
<1> USE DEF RowInv, BoundIffAttached, BytesBehindRows, Goto
<1>t. UploadTypeOK /\ RowTypeOK /\ RowInv /\ DiskInv
  BY DEF IInv, TypeOK
<1>o. \A g \in Files : g # f => up'[g] = up[g]
  BY <1>t DEF UploadTypeOK, UploadStep, UploadBegin, StoreProbe, StoreTemp, StoreRename,
     QuotaSum, QuotaInsert, QuotaRefuse, UploadUndo, StoreFails, QuotaFails
<1>1. CASE UNCHANGED <<status, ref, disk>> /\ up'[f] # "done"
           /\ up[f] \in {"idle", "queued", "probed", "temp", "stored", "summed"}
  BY <1>1, <1>o, <1>t DEF RowTypeOK
<1>2. CASE StoreRename(f)
  BY <1>2, <1>o, <1>t DEF StoreRename, UploadTypeOK, RowTypeOK
<1>3. CASE QuotaInsert(f)
  BY <1>3, <1>o, <1>t DEF QuotaInsert, UploadTypeOK, RowTypeOK, DiskInv
<1>4. CASE UploadUndo(f)
  BY <1>4, <1>o, <1>t DEF UploadUndo, Erase, UploadTypeOK, RowTypeOK
<1>5. CASE UploadBegin(f) \/ StoreProbe(f) \/ StoreTemp(f) \/ StoreFails(f) \/ QuotaSum(f)
           \/ QuotaRefuse(f) \/ QuotaFails(f)
  BY <1>1, <1>5, <1>t DEF UploadBegin, StoreProbe, StoreTemp, StoreFails, QuotaSum,
     QuotaRefuse, QuotaFails, UploadTypeOK
<1> QED BY <1>2, <1>3, <1>4, <1>5 DEF UploadStep

LEMMA RowCommit == ASSUME IInv, NEW t \in Uows, UowCommit(t) PROVE RowInv'
<1>t. UploadTypeOK /\ RowTypeOK /\ RowInv /\ UowInv
  BY DEF IInv, TypeOK
<1>1. /\ UNCHANGED <<up, disk>> /\ uow[t].ref \in Refs
      /\ \A f \in Files :
           IF rowLock[f] = t
           THEN /\ status[f] = "staged" /\ status'[f] = "attached" /\ ref'[f] = uow[t].ref
           ELSE UNCHANGED <<status[f], ref[f]>>
  BY <1>t DEF UowCommit, UowInv, uploadVars
<1> QED BY <1>1, <1>t DEF RowInv, BoundIffAttached, BytesBehindRows, NullAssumption

LEMMA RowClean ==
  ASSUME IInv, NEW c \in Cleaners, CleanStep(c) \/ CleanFails(c)
  PROVE  RowInv'
<1>t. UploadTypeOK /\ RowTypeOK /\ CleanTypeOK /\ RowInv /\ CleanInv /\ UNCHANGED <<up, ref>>
  BY DEF IInv, TypeOK, CleanStep, CleanClaim, CleanErase, CleanMark, CleanEnd, CleanFails,
     uploadVars, rowVars
<1> USE DEF RowInv, BoundIffAttached, BytesBehindRows
<1>1. CASE CleanClaim(c)
  <2>1. /\ UNCHANGED disk
        /\ \A f \in Files : \/ status'[f] = status[f]
                            \/ /\ status[f] \in {"staged", "deleting"} /\ ref[f] = Nil
                               /\ status'[f] = "deleting"
    BY <1>1, <1>t DEF CleanClaim, Claimable
  <2> QED BY <1>t, <2>1
<1>2. ASSUME NEW f \in Files, CleanErase(c, f) PROVE RowInv'
  BY <1>2, <1>t DEF CleanErase, Erase, CleanInv, rowVars
<1>3. CASE CleanMark(c)
  <2>1. cleaner[c].cur \in Files /\ cleaner[c].cur \notin disk
    BY <1>3, <1>t DEF CleanMark, CleanInv, CleanTypeOK
  <2> QED BY <1>3, <1>t, <2>1 DEF CleanMark, MarkRow, MarkMatches, RowTypeOK
<1>4. CASE CleanEnd(c) \/ (CleanFails(c) /\ UNCHANGED status)
  BY <1>4, <1>t DEF CleanEnd, CleanFails, rowVars
<1>5. CASE CleanFails(c) /\ cleaner[c].pc = "mark" /\ MarkRow(cleaner[c].cur)
  <2>1. cleaner[c].cur \in Files /\ cleaner[c].cur \notin disk /\ disk' = disk
    BY <1>5, <1>t DEF CleanFails, CleanInv, CleanTypeOK
  <2> QED BY <1>5, <1>t, <2>1 DEF MarkRow, MarkMatches, RowTypeOK
<1> QED BY <1>1, <1>2, <1>3, <1>4, <1>5 DEF CleanStep, CleanFails

LEMMA RowCrash == IInv /\ Crash => RowInv'
BY DEF IInv, TypeOK, UploadTypeOK, RowInv, BoundIffAttached, BytesBehindRows, Crash, InFlight,
       UploadEnded, rowVars

LEMMA RowFrame == RowInv /\ UNCHANGED <<up, disk, status, ref>> => RowInv'
BY DEF RowInv, BoundIffAttached, BytesBehindRows

-----------------------------------------------------------------------------
(***************************************************************************)
(* Units of work                                                           *)
(***************************************************************************)

(* Steps of other parts: no locked row changes, no attached row either.     *)
LEMMA UowKept ==
  /\ IInv /\ uow' = uow /\ rowLock' = rowLock /\ ref' = ref
  /\ \A f \in Files : status'[f] = status[f] \/ (rowLock[f] = Nil /\ status[f] # "attached")
  => UowInv'
<1> SUFFICES
      ASSUME IInv, uow' = uow, rowLock' = rowLock, ref' = ref,
             \A f \in Files :
               status'[f] = status[f] \/ (rowLock[f] = Nil /\ status[f] # "attached")
      PROVE  UowInv'
  OBVIOUS
<1>1. \A f \in Files : status[f] = "attached" => status'[f] = "attached"
  OBVIOUS
<1>2. \A f \in Files, t \in Uows : rowLock[f] = t => status'[f] = status[f]
  BY NullAssumption
<1>3. UowAllOrNothing'
  <2>1. \A t \in Uows : uow[t].asked \subseteq Files
    BY DEF IInv, TypeOK, UowTypeOK, UowRecord
  <2> QED BY <1>1, <2>1 DEF IInv, UowInv, UowAllOrNothing
<1>4. \A t \in Uows : uow[t].asked \subseteq Files
  BY DEF IInv, TypeOK, UowTypeOK, UowRecord
<1> QED BY <1>1, <1>2, <1>3, <1>4 DEF IInv, UowInv, Active

LEMMA UowUpload ==
  ASSUME IInv, NEW f \in Files, UploadStep(f) \/ StoreFails(f) \/ QuotaFails(f)
  PROVE  UowInv'
<1>1. UNCHANGED <<uow, rowLock, ref>>
  BY DEF UploadStep, UploadBegin, StoreProbe, StoreTemp, StoreRename, QuotaSum, QuotaInsert,
     QuotaRefuse, UploadUndo, StoreFails, QuotaFails, uowVars
<1>2. UNCHANGED status \/ QuotaInsert(f)
  BY DEF UploadStep, UploadBegin, StoreProbe, StoreTemp, StoreRename, QuotaSum,
     QuotaRefuse, UploadUndo, StoreFails, QuotaFails
<1>3. QuotaInsert(f) => status[f] = "none" /\ rowLock[f] = Nil
  BY DEF IInv, TypeOK, UowTypeOK, RowInv, UowInv, QuotaInsert
<1>4. \A g \in Files : status'[g] = status[g] \/ (rowLock[g] = Nil /\ status[g] # "attached")
  BY <1>2, <1>3 DEF IInv, TypeOK, RowTypeOK, QuotaInsert
<1> QED BY <1>1, <1>4, UowKept

LEMMA UowClean ==
  ASSUME IInv, NEW c \in Cleaners, CleanStep(c) \/ CleanFails(c)
  PROVE  UowInv'
<1>1. UNCHANGED <<uow, rowLock, ref>>
  BY DEF CleanStep, CleanClaim, CleanErase, CleanMark, CleanEnd, CleanFails, uowVars, rowVars
<1>2. CASE CleanClaim(c)
  <2>1. \A f \in Files : status'[f] = status[f] \/ (rowLock[f] = Nil /\ status[f] # "attached")
    BY <1>2 DEF CleanClaim, Claimable, IInv, TypeOK, RowTypeOK
  <2> QED BY <1>1, <2>1, UowKept
<1>3. CASE MarkRow(cleaner[c].cur)
  <2>1. MarkMatches(cleaner[c].cur) /\ cleaner[c].cur \in Files
          => rowLock[cleaner[c].cur] = Nil
    BY DEF MarkMatches, IInv, UowInv, TypeOK, UowTypeOK
  <2>2. \A f \in Files : status'[f] = status[f] \/ (rowLock[f] = Nil /\ status[f] # "attached")
    BY <1>3, <2>1 DEF MarkRow, MarkMatches, IInv, TypeOK, RowTypeOK
  <2> QED BY <1>1, <2>2, UowKept
<1>4. CASE UNCHANGED status
  BY <1>1, <1>4, UowKept
<1> QED BY <1>2, <1>3, <1>4
        DEF CleanStep, CleanErase, CleanMark, CleanEnd, CleanFails, rowVars

(* A step in which only the record of unit of work t moves, to u, and t may *)
(* lock rows nobody has locked.                                             *)
UowMove(t, u) ==
  /\ status' = status /\ ref' = ref
  /\ uow' = [uow EXCEPT ![t] = u] /\ u \in UowRecord
  /\ uow[t].pc \notin UowEnded /\ u.pc \notin {"idle"} \cup UowEnded /\ u.ref \in Refs
  /\ u.left \subseteq u.asked
  /\ u.pc \in {"ref", "claim"} => u.cur \in u.left /\ Owner[u.cur] = u.actor
  /\ rowLock' \in [Files -> Uows \cup {Nil}]
  /\ \A f \in Files : rowLock'[f] = rowLock[f] \/ (rowLock[f] = Nil /\ rowLock'[f] = t)
  /\ \A f \in Files : rowLock'[f] = t => status[f] = "staged" /\ f \in u.asked \ u.left
  /\ \A f \in u.asked \ u.left :
       /\ Owner[f] = u.actor
       /\ rowLock'[f] = t \/ (status[f] = "attached" /\ ref[f] = u.ref)

LEMMA UowMoves == ASSUME IInv, NEW t \in Uows, NEW u, UowMove(t, u) PROVE UowInv'
<1> USE DEF UowMove
<1>t. RowTypeOK /\ UowTypeOK /\ UowInv /\ \A s \in Uows : uow[s].asked \subseteq Files
  BY DEF IInv, TypeOK, UowTypeOK, UowRecord
<1>1. /\ uow'[t] = u /\ \A s \in Uows \ {t} : uow'[s] = uow[s]
      /\ status' = status /\ ref' = ref
  BY <1>t DEF UowTypeOK, rowVars
<1>2. ASSUME NEW s \in Uows
      PROVE  /\ uow'[s].pc # "idle" => uow'[s].ref \in Refs
             /\ uow'[s].left \subseteq uow'[s].asked
             /\ uow'[s].pc \in {"ref", "claim"} =>
                  uow'[s].cur \in uow'[s].left /\ Owner[uow'[s].cur] = uow'[s].actor
  <2>1. CASE s = t
    BY <1>1, <2>1
  <2>2. CASE s # t
    BY <1>1, <1>t, <2>2 DEF UowInv
  <2> QED BY <2>1, <2>2
<1>3. ASSUME NEW s \in Uows, Active(s)', NEW f \in uow'[s].asked \ uow'[s].left
      PROVE  /\ Owner[f] = uow'[s].actor
             /\ rowLock'[f] = s \/ (status'[f] = "attached" /\ ref'[f] = uow'[s].ref)
  <2>1. CASE s = t
    BY <1>1, <1>3, <2>1
  <2>2. CASE s # t
    <3>1. uow'[s] = uow[s] /\ Active(s) /\ f \in Files
      BY <1>1, <1>3, <1>t, <2>2 DEF Active
    <3>2. rowLock[f] = s => rowLock'[f] = s
      BY <2>2, <3>1, NullAssumption
    <3> QED BY <1>1, <1>3, <1>t, <3>1, <3>2 DEF UowInv
  <2> QED BY <2>1, <2>2
<1>4. ASSUME NEW f \in Files, NEW s \in Uows, rowLock'[f] = s
      PROVE  status'[f] = "staged" /\ Active(s)' /\ f \in uow'[s].asked \ uow'[s].left
  <2>1. CASE s = t
    BY <1>1, <1>4, <2>1 DEF Active
  <2>2. CASE s # t
    <3>1. rowLock[f] = s /\ uow'[s] = uow[s]
      BY <1>1, <1>4, <2>2, NullAssumption
    <3> QED BY <1>1, <1>t, <3>1 DEF UowInv, Active
  <2> QED BY <2>1, <2>2
<1>5. UowAllOrNothing'
  <2>1. \A s \in Uows : uow'[s].pc = "committed" <=> s # t /\ uow[s].pc = "committed"
    BY <1>1 DEF UowEnded
  <2>2. uow[t].pc # "committed"
    BY DEF UowEnded
  <2> QED BY <1>1, <1>t, <2>1, <2>2 DEF UowInv, UowAllOrNothing
<1> QED BY <1>2, <1>3, <1>4, <1>5 DEF UowInv

(* A unit of work that ends without a commit.                               *)
LEMMA UowRollback == ASSUME IInv, NEW t \in Uows, Active(t), Rollback(t) PROVE UowInv'
<1>t. RowTypeOK /\ UowTypeOK /\ UowInv /\ \A s \in Uows : uow[s].asked \subseteq Files
  BY DEF IInv, TypeOK, UowTypeOK, UowRecord
<1>1. /\ uow'[t] = Ended(uow[t], "aborted") /\ \A s \in Uows \ {t} : uow'[s] = uow[s]
      /\ status' = status /\ ref' = ref
      /\ \A f \in Files : rowLock'[f] = IF rowLock[f] = t THEN Nil ELSE rowLock[f]
  BY <1>t DEF Rollback, EndUow, UowTypeOK, rowVars
<1>2. LET u == Ended(uow[t], "aborted") IN
      /\ u.pc = "aborted" /\ u.ref = uow[t].ref /\ u.left = {}
  BY <1>t, UowFields DEF UowTypeOK
<1>3. ~Active(t)' /\ \A s \in Uows \ {t} : Active(s)' <=> Active(s)
  BY <1>1, <1>2 DEF Active, UowEnded
<1>4. ASSUME NEW s \in Uows
      PROVE  /\ uow'[s].pc # "idle" => uow'[s].ref \in Refs
             /\ uow'[s].left \subseteq uow'[s].asked
             /\ uow'[s].pc \in {"ref", "claim"} =>
                  uow'[s].cur \in uow'[s].left /\ Owner[uow'[s].cur] = uow'[s].actor
  BY <1>1, <1>2, <1>t DEF UowInv, Active
<1>5. ASSUME NEW s \in Uows, Active(s)', NEW f \in uow'[s].asked \ uow'[s].left
      PROVE  /\ Owner[f] = uow'[s].actor
             /\ rowLock'[f] = s \/ (status'[f] = "attached" /\ ref'[f] = uow'[s].ref)
  BY <1>1, <1>3, <1>5, <1>t DEF UowInv
<1>6. ASSUME NEW f \in Files, NEW s \in Uows, rowLock'[f] = s
      PROVE  status'[f] = "staged" /\ Active(s)' /\ f \in uow'[s].asked \ uow'[s].left
  <2>1. s # t /\ rowLock[f] = s
    BY <1>1, <1>6, NullAssumption
  <2> QED BY <1>1, <1>3, <1>t, <2>1 DEF UowInv
<1>7. UowAllOrNothing'
  <2>1. uow[t].pc # "committed" /\ uow'[t].pc # "committed"
    BY <1>1, <1>2 DEF Active, UowEnded
  <2> QED BY <1>1, <1>t, <2>1 DEF UowInv, UowAllOrNothing
<1> QED BY <1>4, <1>5, <1>6, <1>7 DEF UowInv

LEMMA UowCommits == ASSUME IInv, NEW t \in Uows, UowCommit(t) PROVE UowInv'
<1>t. RowTypeOK /\ UowTypeOK /\ UowInv /\ \A s \in Uows : uow[s].asked \subseteq Files
  BY DEF IInv, TypeOK, UowTypeOK, UowRecord
<1>a. Active(t) /\ uow[t].left = {} /\ uow[t].pc = "next"
  BY DEF UowCommit, Active, UowEnded
<1>1. /\ uow'[t] = Ended(uow[t], "committed") /\ \A s \in Uows \ {t} : uow'[s] = uow[s]
      /\ \A f \in Files : rowLock'[f] = IF rowLock[f] = t THEN Nil ELSE rowLock[f]
      /\ \A f \in Files : status'[f] = IF rowLock[f] = t THEN "attached" ELSE status[f]
      /\ \A f \in Files : ref'[f] = IF rowLock[f] = t THEN uow[t].ref ELSE ref[f]
  BY <1>t DEF UowCommit, EndUow, UowTypeOK
<1>2. LET u == Ended(uow[t], "committed") IN
      /\ u.pc = "committed" /\ u.ref = uow[t].ref /\ u.left = {} /\ u.asked = uow[t].asked
      /\ u.actor = uow[t].actor
  BY <1>t, UowFields DEF UowTypeOK
<1>3. ~Active(t)' /\ \A s \in Uows \ {t} : Active(s)' <=> Active(s)
  BY <1>1, <1>2 DEF Active, UowEnded
<1>k. \A f \in Files : status[f] = "attached" => status'[f] = "attached" /\ ref'[f] = ref[f]
  BY <1>1, <1>t DEF UowInv
<1>o. \A f \in uow[t].asked : /\ f \in Files /\ Owner[f] = uow[t].actor
                             /\ status'[f] = "attached" /\ ref'[f] = uow[t].ref
  BY <1>1, <1>a, <1>t DEF UowInv
<1>4. ASSUME NEW s \in Uows
      PROVE  /\ uow'[s].pc # "idle" => uow'[s].ref \in Refs
             /\ uow'[s].left \subseteq uow'[s].asked
             /\ uow'[s].pc \in {"ref", "claim"} =>
                  uow'[s].cur \in uow'[s].left /\ Owner[uow'[s].cur] = uow'[s].actor
  BY <1>1, <1>2, <1>a, <1>t DEF UowInv
<1>5. ASSUME NEW s \in Uows, Active(s)', NEW f \in uow'[s].asked \ uow'[s].left
      PROVE  /\ Owner[f] = uow'[s].actor
             /\ rowLock'[f] = s \/ (status'[f] = "attached" /\ ref'[f] = uow'[s].ref)
  <2>1. s # t /\ uow'[s] = uow[s] /\ Active(s) /\ f \in Files
    BY <1>1, <1>3, <1>5, <1>t
  <2>2. Owner[f] = uow[s].actor
    BY <1>5, <1>t, <2>1 DEF UowInv
  <2>3. CASE rowLock[f] = s
    BY <1>1, <2>1, <2>2, <2>3
  <2>4. CASE status[f] = "attached" /\ ref[f] = uow[s].ref
    BY <1>k, <2>1, <2>2, <2>4
  <2> QED BY <1>5, <1>t, <2>1, <2>3, <2>4 DEF UowInv
<1>6. ASSUME NEW f \in Files, NEW s \in Uows, rowLock'[f] = s
      PROVE  status'[f] = "staged" /\ Active(s)' /\ f \in uow'[s].asked \ uow'[s].left
  <2>1. s # t /\ rowLock[f] = s
    BY <1>1, <1>6, NullAssumption
  <2> QED BY <1>1, <1>3, <1>t, <2>1 DEF UowInv
<1>7. UowAllOrNothing'
  <2>1. ASSUME NEW s \in Uows, uow'[s].pc = "committed", NEW f \in uow'[s].asked
        PROVE  status'[f] = "attached" /\ ref'[f] = uow'[s].ref
    <3>1. CASE s = t
      BY <1>1, <1>2, <1>o, <2>1, <3>1
    <3>2. CASE s # t
      <4>1. uow'[s] = uow[s] /\ f \in Files
        BY <1>1, <1>t, <2>1, <3>2
      <4> QED BY <1>k, <1>t, <2>1, <4>1 DEF UowInv, UowAllOrNothing
    <3> QED BY <3>1, <3>2
  <2>2. ASSUME NEW f \in Files, ref'[f] # Nil
        PROVE  \E s \in Uows : /\ uow'[s].pc = "committed" /\ uow'[s].ref = ref'[f]
                               /\ f \in uow'[s].asked /\ uow'[s].actor = Owner[f]
    <3>1. CASE rowLock[f] = t
      <4>1. f \in uow[t].asked
        BY <1>t, <3>1 DEF UowInv
      <4> WITNESS t \in Uows
      <4> QED BY <1>1, <1>2, <1>o, <3>1, <4>1
    <3>2. CASE rowLock[f] # t
      <4>1. PICK s \in Uows : /\ uow[s].pc = "committed" /\ uow[s].ref = ref[f]
                             /\ f \in uow[s].asked /\ uow[s].actor = Owner[f]
        BY <1>1, <1>t, <2>2, <3>2 DEF UowInv, UowAllOrNothing
      <4>2. s # t
        BY <1>a, <4>1
      <4> WITNESS s \in Uows
      <4> QED BY <1>1, <3>2, <4>1, <4>2
    <3> QED BY <3>1, <3>2
  <2> QED BY <2>1, <2>2 DEF UowAllOrNothing
<1> QED BY <1>4, <1>5, <1>6, <1>7 DEF UowInv

LEMMA UowSteps ==
  ASSUME IInv, NEW t \in Uows, UowBegin(t) \/ UowStep(t) \/ UowFails(t)
  PROVE  UowInv'
<1>t. /\ RowTypeOK /\ UowTypeOK /\ UowInv
      /\ uow[t] \in UowRecord /\ uow[t].asked \subseteq Files /\ uow[t].left \subseteq Files
  BY DEF IInv, TypeOK, UowTypeOK, UowRecord
<1>0. CASE Active(t) /\ Rollback(t)
  BY <1>0, UowRollback
<1>1. CASE UowBegin(t)
  <2>1. PICK a \in Users, r \in Refs, fs \in SUBSET Files :
          uow' = [uow EXCEPT ![t] = Begun(uow[t], a, r, fs)]
    BY <1>1 DEF UowBegin
  <2> DEFINE u == Begun(uow[t], a, r, fs)
  <2>2. /\ u \in UowRecord /\ u.pc = "next" /\ u.ref \in Refs
        /\ u.asked = fs /\ u.left = fs
    BY <1>t, UowRecords, UowFields
  <2>3. /\ status' = status /\ ref' = ref /\ rowLock' = rowLock /\ uow[t].pc = "idle"
    BY <1>1 DEF UowBegin, rowVars
  <2>4. \A f \in Files : rowLock[f] # t
    BY <1>t, <2>3 DEF UowInv, Active
  <2>5. UowMove(t, u)
    BY <1>t, <2>1, <2>2, <2>3, <2>4 DEF UowMove, UowTypeOK, UowEnded
  <2> QED BY <2>5, UowMoves
<1>2. CASE AttachRead(t)
  <2>1. ASSUME NEW f \in uow[t].left, Owner[f] = uow[t].actor,
               uow' = [uow EXCEPT ![t] = Found(uow[t], f)],
               status' = status, ref' = ref, rowLock' = rowLock
        PROVE  UowInv'
    <3> DEFINE u == Found(uow[t], f)
    <3>1. /\ u \in UowRecord /\ u.pc = "ref" /\ u.ref = uow[t].ref /\ u.actor = uow[t].actor
          /\ u.asked = uow[t].asked /\ u.left = uow[t].left /\ u.cur = f
      BY <1>t, UowRecords, UowFields DEF RowTypeOK
    <3>2. Active(t) /\ uow[t].pc = "next"
      BY <1>2 DEF AttachRead, Active, UowEnded
    <3>3. /\ u.ref \in Refs /\ u.left \subseteq u.asked
          /\ \A g \in u.asked \ u.left :
               /\ Owner[g] = u.actor
               /\ rowLock[g] = t \/ (status[g] = "attached" /\ ref[g] = u.ref)
          /\ \A g \in Files : rowLock[g] = t => status[g] = "staged" /\ g \in u.asked \ u.left
      BY <1>t, <3>1, <3>2 DEF UowInv
    <3>4. uow' = [uow EXCEPT ![t] = u] /\ status' = status /\ ref' = ref
      BY <2>1
    <3>5. uow[t].pc \notin UowEnded /\ u.pc \notin {"idle"} \cup UowEnded
      BY <3>2, <3>1 DEF UowEnded, Active
    <3>6. UowMove(t, u)
      BY <1>t, <2>1, <3>1, <3>2, <3>3, <3>4, <3>5 DEF UowMove, UowTypeOK
    <3> QED BY <3>6, UowMoves
  <2>2. Active(t)
    BY <1>2 DEF AttachRead, Active, UowEnded
  <2> QED BY <1>0, <1>2, <2>1, <2>2 DEF AttachRead, rowVars
<1>3. CASE AttachReference(t)
  <2>1. /\ Active(t) /\ uow[t].pc = "ref" /\ uow[t].cur \in uow[t].left
        /\ Owner[uow[t].cur] = uow[t].actor
    BY <1>3, <1>t DEF AttachReference, Active, UowEnded, UowInv
  <2>2. CASE /\ uow' = [uow EXCEPT ![t] = Unbound(uow[t])]
             /\ status' = status /\ ref' = ref /\ rowLock' = rowLock
    <3> DEFINE u == Unbound(uow[t])
    <3>1. /\ u \in UowRecord /\ u.pc = "claim" /\ u.ref = uow[t].ref /\ u.actor = uow[t].actor
          /\ u.asked = uow[t].asked /\ u.left = uow[t].left /\ u.cur = uow[t].cur
      BY <1>t, UowRecords, UowFields
    <3>3. /\ u.ref \in Refs /\ u.left \subseteq u.asked
          /\ \A g \in u.asked \ u.left :
               /\ Owner[g] = u.actor
               /\ rowLock[g] = t \/ (status[g] = "attached" /\ ref[g] = u.ref)
          /\ \A g \in Files : rowLock[g] = t => status[g] = "staged" /\ g \in u.asked \ u.left
      BY <1>t, <3>1, <2>1 DEF UowInv
    <3>4. uow' = [uow EXCEPT ![t] = u] /\ status' = status /\ ref' = ref
      BY <2>2
    <3>5. uow[t].pc \notin UowEnded /\ u.pc \notin {"idle"} \cup UowEnded
      BY <2>1, <3>1 DEF UowEnded, Active
    <3>6. UowMove(t, u)
      BY <1>t, <2>1, <2>2, <3>1, <3>3, <3>4, <3>5 DEF UowMove, UowTypeOK
    <3> QED BY <3>6, UowMoves
  <2>3. CASE /\ uow' = [uow EXCEPT ![t] = Bound(uow[t], {uow[t].cur})]
             /\ ref[uow[t].cur] = uow[t].ref
             /\ status' = status /\ ref' = ref /\ rowLock' = rowLock
    <3> DEFINE u == Bound(uow[t], {uow[t].cur})
    <3>1. /\ u \in UowRecord /\ u.pc = "next" /\ u.ref = uow[t].ref /\ u.actor = uow[t].actor
          /\ u.asked = uow[t].asked /\ u.left = uow[t].left \ {uow[t].cur}
      BY <1>t, <2>1, UowRecords, UowFields
    <3>2. uow[t].ref \in Refs /\ status[uow[t].cur] = "attached"
      BY <1>t, <2>1, <2>3, NullAssumption DEF UowInv, IInv, RowInv, BoundIffAttached
    <3>3. /\ u.ref \in Refs /\ u.left \subseteq u.asked
          /\ \A g \in u.asked \ u.left :
               /\ Owner[g] = u.actor
               /\ rowLock[g] = t \/ (status[g] = "attached" /\ ref[g] = u.ref)
          /\ \A g \in Files : rowLock[g] = t => status[g] = "staged" /\ g \in u.asked \ u.left
      BY <1>t, <2>1, <2>3, <3>1, <3>2 DEF UowInv
    <3>4. uow' = [uow EXCEPT ![t] = u] /\ status' = status /\ ref' = ref
      BY <2>3
    <3>5. uow[t].pc \notin UowEnded /\ u.pc \notin {"idle"} \cup UowEnded
      BY <2>1, <3>1 DEF UowEnded, Active
    <3>6. UowMove(t, u)
      BY <1>t, <2>1, <2>3, <3>1, <3>3, <3>4, <3>5 DEF UowMove, UowTypeOK
    <3> QED BY <3>6, UowMoves
  <2> QED BY <1>0, <1>3, <2>1, <2>2, <2>3 DEF AttachReference, rowVars
<1>4. CASE AttachClaim(t)
  <2>1. /\ Active(t) /\ uow[t].pc = "claim" /\ uow[t].cur \in uow[t].left
        /\ Owner[uow[t].cur] = uow[t].actor /\ rowLock[uow[t].cur] = Nil
    BY <1>4, <1>t DEF AttachClaim, Active, UowEnded, UowInv
  <2>2. CASE /\ ClaimMatches(t) /\ uow' = [uow EXCEPT ![t] = Bound(uow[t], {})]
             /\ rowLock' = [rowLock EXCEPT ![uow[t].cur] = t]
             /\ status' = status /\ ref' = ref
    <3> DEFINE u == Bound(uow[t], {})
    <3>1. /\ u \in UowRecord /\ u.pc = "next" /\ u.ref = uow[t].ref /\ u.actor = uow[t].actor
          /\ u.asked = uow[t].asked /\ u.left = uow[t].left \ {uow[t].cur}
      BY <1>t, <2>1, UowRecords, UowFields
    <3>2. /\ rowLock' \in [Files -> Uows \cup {Nil}]
          /\ rowLock'[uow[t].cur] = t /\ status[uow[t].cur] = "staged"
          /\ \A g \in Files : g # uow[t].cur => rowLock'[g] = rowLock[g]
      BY <1>t, <2>1, <2>2 DEF UowTypeOK, ClaimMatches
    <3>3. /\ u.ref \in Refs /\ u.left \subseteq u.asked
          /\ \A g \in u.asked \ u.left :
               /\ Owner[g] = u.actor
               /\ rowLock'[g] = t \/ (status[g] = "attached" /\ ref[g] = u.ref)
          /\ \A g \in Files : rowLock'[g] = t => status[g] = "staged" /\ g \in u.asked \ u.left
      BY <1>t, <2>1, <3>1, <3>2 DEF UowInv
    <3>4. uow' = [uow EXCEPT ![t] = u] /\ status' = status /\ ref' = ref
      BY <2>2
    <3>5. uow[t].pc \notin UowEnded /\ u.pc \notin {"idle"} \cup UowEnded
      BY <2>1, <3>1 DEF UowEnded, Active
    <3>6. UowMove(t, u)
      BY <1>t, <2>1, <2>2, <3>1, <3>2, <3>3, <3>4, <3>5 DEF UowMove
    <3> QED BY <3>6, UowMoves
  <2> QED BY <1>0, <1>4, <2>1, <2>2 DEF AttachClaim, ReferenceOnCommit
<1>5. CASE UowCommit(t)
  BY <1>5, UowCommits
<1>6. CASE DeadlockVictim(t)
  <2>1. Active(t)
    BY <1>6 DEF DeadlockVictim, Deadlocked, WaitsFor, Active, UowEnded
  <2> QED BY <1>0, <1>6, <2>1 DEF DeadlockVictim
<1> QED BY <1>0, <1>1, <1>2, <1>3, <1>4, <1>5, <1>6 DEF UowStep, UowFails

LEMMA UowCrash == IInv /\ Crash => UowInv'
<1> SUFFICES ASSUME IInv, Crash PROVE UowInv'
  OBVIOUS
<1>t. UowTypeOK /\ UowInv
  BY DEF IInv, TypeOK
<1>1. \A t \in Uows : LET u == Ended(uow[t], "aborted") IN
        u.pc = "aborted" /\ u.ref = uow[t].ref /\ u.left = {} /\ u.asked = uow[t].asked
  BY <1>t, UowFields DEF UowTypeOK
<1>2. /\ status' = status /\ ref' = ref
      /\ \A f \in Files : rowLock'[f] = Nil
      /\ \A t \in Uows : uow'[t] = IF Active(t) THEN Ended(uow[t], "aborted") ELSE uow[t]
  BY DEF Crash, rowVars
<1>3. \A t \in Uows : ~Active(t)' /\ (uow'[t].pc = "committed" <=> uow[t].pc = "committed")
  BY <1>1, <1>2 DEF Active, UowEnded
<1>4. \A t \in Uows : /\ uow'[t].pc # "idle" => uow'[t].ref \in Refs
                      /\ uow'[t].left \subseteq uow'[t].asked
                      /\ uow'[t].pc \notin {"ref", "claim"}
  BY <1>1, <1>2, <1>t DEF UowInv, Active, UowEnded
<1>5. UowAllOrNothing'
  <2>1. \A t \in Uows : uow[t].pc = "committed" => uow'[t] = uow[t]
    BY <1>2 DEF Active, UowEnded
  <2> QED BY <1>2, <1>3, <1>t, <2>1 DEF UowInv, UowAllOrNothing
<1> QED BY <1>2, <1>3, <1>4, <1>5, NullAssumption DEF UowInv

-----------------------------------------------------------------------------
(***************************************************************************)
(* Cleanup cycles                                                          *)
(***************************************************************************)

(* Steps of other parts: claimed and deleted rows stay, and no bytes come   *)
(* back for them.                                                           *)
LEMMA CleanKept ==
  /\ IInv /\ cleaner' = cleaner /\ cleaned' = cleaned
  /\ \A f \in Files :
       \/ status'[f] = status[f]
       \/ status[f] \notin {"deleting", "deleted"} /\ status'[f] # "deleted"
  /\ \A f \in Files : f \in disk' => f \in disk \/ status[f] = "none"
  => CleanInv'
<1> SUFFICES
      ASSUME IInv, cleaner' = cleaner, cleaned' = cleaned,
             \A f \in Files :
               \/ status'[f] = status[f]
               \/ status[f] \notin {"deleting", "deleted"} /\ status'[f] # "deleted",
             \A f \in Files : f \in disk' => f \in disk \/ status[f] = "none"
      PROVE  CleanInv'
  OBVIOUS
<1>1. \A c \in Cleaners : cleaner[c].todo \subseteq Files
  BY DEF IInv, TypeOK, CleanTypeOK, CleanerRecord
<1>2. CleanedOnce'
  BY DEF IInv, CleanInv, CleanedOnce
<1> QED BY <1>1, <1>2 DEF IInv, CleanInv

LEMMA CleanUpload ==
  ASSUME IInv, NEW f \in Files, UploadStep(f) \/ StoreFails(f) \/ QuotaFails(f)
  PROVE  CleanInv'
<1>1. cleaner' = cleaner /\ cleaned' = cleaned
  BY DEF UploadStep, UploadBegin, StoreProbe, StoreTemp, StoreRename, QuotaSum, QuotaInsert,
     QuotaRefuse, UploadUndo, StoreFails, QuotaFails, cleanVars
<1>2. \A g \in Files : status'[g] = status[g] \/ (status[g] = "none" /\ status'[g] = "staged")
  BY DEF UploadStep, UploadBegin, StoreProbe, StoreTemp, StoreRename, QuotaSum, QuotaInsert,
     QuotaRefuse, UploadUndo, StoreFails, QuotaFails, IInv, TypeOK, RowTypeOK, RowInv
<1>3. \A g \in Files : g \in disk' => g \in disk \/ status[g] = "none"
  BY DEF UploadStep, UploadBegin, StoreProbe, StoreTemp, StoreRename, QuotaSum, QuotaInsert,
     QuotaRefuse, UploadUndo, StoreFails, QuotaFails, IInv, RowInv, Erase
<1> QED BY <1>1, <1>2, <1>3, CleanKept

LEMMA CleanCommit == ASSUME IInv, NEW t \in Uows, UowCommit(t) PROVE CleanInv'
<1>1. cleaner' = cleaner /\ cleaned' = cleaned /\ disk' = disk
  BY DEF UowCommit, cleanVars
<1>2. \A f \in Files :
        status'[f] = status[f] \/ (status[f] = "staged" /\ status'[f] = "attached")
  BY DEF UowCommit, IInv, UowInv
<1> QED BY <1>1, <1>2, CleanKept

(* A step in which the record of cycle c moves to cl, and rows only move    *)
(* towards deletion.                                                        *)
CleanMove(c, cl) ==
  /\ cleaner' = [cleaner EXCEPT ![c] = cl] /\ CleanedOnce' /\ disk' \subseteq disk
  /\ \A f \in Files : status[f] \in {"deleting", "deleted"}
                      => status'[f] \in {"deleting", "deleted"}
  /\ \A f \in cl.todo : f \in Files /\ status'[f] \in {"deleting", "deleted"}
  /\ cl.pc = "mark" => cl.cur \in cl.todo /\ cl.cur \notin disk'

LEMMA CleanMoves == ASSUME IInv, NEW c \in Cleaners, NEW cl, CleanMove(c, cl) PROVE CleanInv'
<1>t. CleanTypeOK /\ CleanInv /\ \A d \in Cleaners : cleaner[d].todo \subseteq Files
  BY DEF IInv, TypeOK, CleanTypeOK, CleanerRecord
<1>1. cleaner'[c] = cl /\ \A d \in Cleaners \ {c} : cleaner'[d] = cleaner[d]
  BY <1>t DEF CleanMove, CleanTypeOK
<1> QED BY <1>t, <1>1 DEF CleanMove, CleanInv

LEMMA CleanSteps ==
  ASSUME IInv, NEW c \in Cleaners, CleanStep(c) \/ CleanFails(c)
  PROVE  CleanInv'
<1>t. /\ CleanTypeOK /\ RowTypeOK /\ CleanInv /\ cleaner[c] \in CleanerRecord
      /\ \A d \in Cleaners : cleaner[d].todo \subseteq Files
  BY DEF IInv, TypeOK, CleanTypeOK, CleanerRecord
<1>i. Idle.pc = "idle" /\ Idle.todo = {}
  BY DEF Idle
<1>r. ASSUME NEW f
      PROVE  /\ Finished(cleaner[c], f).pc = "erase"
             /\ Finished(cleaner[c], f).todo = cleaner[c].todo \ {f}
             /\ Erased(cleaner[c], f).pc = "mark" /\ Erased(cleaner[c], f).cur = f
             /\ Erased(cleaner[c], f).todo = cleaner[c].todo
  BY <1>t, CleanerFields
<1>1. CASE CleanClaim(c)
  <2>1. PICK S \in SUBSET Claimable :
          /\ status' = [f \in Files |-> IF f \in S THEN "deleting" ELSE status[f]]
          /\ cleaner' = [cleaner EXCEPT ![c] = [pc |-> "erase", todo |-> S, cur |-> Nil]]
    BY <1>1 DEF CleanClaim
  <2>2. disk' = disk /\ cleaned' = cleaned
    BY <1>1 DEF CleanClaim
  <2>3. \A f \in S : f \in Files /\ status[f] # "deleted" /\ status'[f] = "deleting"
    BY <2>1 DEF Claimable
  <2>4. \A f \in Files : status'[f] = status[f] \/ (status[f] # "deleted" /\ status'[f] = "deleting")
    BY <2>1, <2>3
  <2>5. CleanedOnce'
    BY <1>t, <2>2, <2>4 DEF CleanInv, CleanedOnce
  <2>6. CleanMove(c, [pc |-> "erase", todo |-> S, cur |-> Nil])
    BY <2>1, <2>2, <2>3, <2>4, <2>5 DEF CleanMove
  <2> QED BY <2>6, CleanMoves
<1>2. ASSUME NEW f \in Files, CleanErase(c, f) PROVE CleanInv'
  <2>1. /\ cleaner' = [cleaner EXCEPT ![c] = Erased(cleaner[c], f)]
        /\ disk' = disk \ {f} /\ cleaned' = cleaned /\ status' = status
        /\ f \in cleaner[c].todo
    BY <1>2 DEF CleanErase, Erase, rowVars
  <2>2. CleanedOnce'
    BY <1>t, <2>1 DEF CleanInv, CleanedOnce
  <2>3. \A g \in cleaner[c].todo : g \in Files /\ status[g] \in {"deleting", "deleted"}
    BY <1>t DEF CleanInv
  <2>4. CleanMove(c, Erased(cleaner[c], f))
    BY <1>r, <2>1, <2>2, <2>3 DEF CleanMove
  <2> QED BY <2>4, CleanMoves
<1>3. CASE CleanMark(c)
  <2> DEFINE g == cleaner[c].cur
  <2>1. /\ cleaner' = [cleaner EXCEPT ![c] = Finished(cleaner[c], g)]
        /\ disk' = disk /\ g \in Files
    BY <1>3, <1>t DEF CleanMark, CleanTypeOK
  <2>2. CleanedOnce'
    <3>1. CASE MarkMatches(g)
      <4>1. cleaned' = [cleaned EXCEPT ![g] = @ + 1] /\ status' = [status EXCEPT ![g] = "deleted"]
        BY <1>3, <3>1 DEF CleanMark, MarkRow
      <4>2. cleaned[g] = 0
        BY <1>t, <2>1, <3>1 DEF CleanInv, CleanedOnce, MarkMatches
      <4> QED BY <1>t, <2>1, <4>1, <4>2 DEF CleanInv, CleanedOnce, CleanTypeOK, RowTypeOK
    <3>2. CASE ~MarkMatches(g)
      BY <1>3, <1>t, <3>2 DEF CleanMark, MarkRow, CleanInv, CleanedOnce
    <3> QED BY <3>1, <3>2
  <2>3. \A f \in Files : status[f] \in {"deleting", "deleted"} =>
          status'[f] \in {"deleting", "deleted"}
    BY <1>3, <1>t DEF CleanMark, MarkRow, RowTypeOK
  <2>4. \A f \in cleaner[c].todo : f \in Files /\ status[f] \in {"deleting", "deleted"}
    BY <1>t DEF CleanInv
  <2>5. CleanMove(c, Finished(cleaner[c], g))
    BY <1>r, <2>1, <2>2, <2>3, <2>4 DEF CleanMove
  <2> QED BY <2>5, CleanMoves
<1>4. CASE CleanEnd(c) \/ CleanFails(c)
  <2>1. /\ \/ \E f : cleaner' = [cleaner EXCEPT ![c] = Finished(cleaner[c], f)]
           \/ cleaner' = [cleaner EXCEPT ![c] = Idle]
        /\ disk' = disk /\ cleaned' = cleaned
    BY <1>4 DEF CleanEnd, CleanFails, rowVars
  <2>0. \A g \in Files : \/ status'[g] = status[g]
                         \/ status[g] = "deleting" /\ status'[g] = "deleted"
    BY <1>4, <1>t DEF CleanEnd, CleanFails, MarkRow, MarkMatches, RowTypeOK, rowVars
  <2>2. CleanedOnce'
    BY <1>t, <2>0, <2>1 DEF CleanInv, CleanedOnce
  <2>3. /\ \A g \in cleaner[c].todo : g \in Files /\ status'[g] \in {"deleting", "deleted"}
        /\ \A g \in Files : status[g] \in {"deleting", "deleted"}
                            => status'[g] \in {"deleting", "deleted"}
    BY <1>t, <2>0 DEF CleanInv
  <2>4. CASE cleaner' = [cleaner EXCEPT ![c] = Idle]
    <3>1. CleanMove(c, Idle)
      BY <1>i, <2>1, <2>2, <2>3, <2>4 DEF CleanMove
    <3> QED BY <3>1, CleanMoves
  <2>5. ASSUME NEW f, cleaner' = [cleaner EXCEPT ![c] = Finished(cleaner[c], f)] PROVE CleanInv'
    <3>1. CleanMove(c, Finished(cleaner[c], f))
      BY <1>r, <2>1, <2>2, <2>3, <2>5 DEF CleanMove
    <3> QED BY <3>1, CleanMoves
  <2> QED BY <2>1, <2>4, <2>5
<1> QED BY <1>1, <1>2, <1>3, <1>4 DEF CleanStep

LEMMA CleanCrash == IInv /\ Crash => CleanInv'
<1> SUFFICES ASSUME IInv, Crash PROVE CleanInv'
  OBVIOUS
<1>1. /\ status' = status /\ cleaned' = cleaned /\ disk' = disk
      /\ \A c \in Cleaners : cleaner'[c] = cleaner[c] \/ cleaner'[c] = Idle
  BY DEF Crash, rowVars
<1>2. Idle.pc = "idle" /\ Idle.todo = {}
  BY DEF Idle
<1>3. CleanedOnce'
  BY <1>1 DEF IInv, CleanInv, CleanedOnce
<1> QED BY <1>1, <1>2, <1>3 DEF IInv, CleanInv

-----------------------------------------------------------------------------
(***************************************************************************)
(* Bytes without an owner                                                  *)
(***************************************************************************)
LEMMA OrphanUpload ==
  ASSUME IInv, NEW f \in Files, UploadStep(f) \/ StoreFails(f) \/ QuotaFails(f)
  PROVE  OrphanInv'
<1> USE DEF OrphanInv, Goto
<1>t. UploadTypeOK /\ RowTypeOK /\ RowInv /\ DiskInv /\ OrphanInv
  BY DEF IInv, TypeOK
<1>c. crashes' = crashes
  BY DEF UploadStep, UploadBegin, StoreProbe, StoreTemp, StoreRename, QuotaSum, QuotaInsert,
     QuotaRefuse, UploadUndo, StoreFails, QuotaFails
<1>1. CASE UploadBegin(f) \/ StoreProbe(f)
  BY <1>1, <1>c, <1>t DEF UploadBegin, StoreProbe, UploadTypeOK, DiskInv
<1>2. CASE StoreTemp(f)     BY <1>2, <1>c, <1>t DEF StoreTemp, UploadTypeOK
<1>3. CASE StoreRename(f)   BY <1>3, <1>c, <1>t DEF StoreRename, UploadTypeOK
<1>4. CASE StoreFails(f)
  BY <1>4, <1>c, <1>t DEF StoreFails, UploadTypeOK, DiskInv
<1>5. CASE QuotaSum(f) \/ QuotaRefuse(f) \/ QuotaFails(f)
  BY <1>5, <1>c, <1>t DEF QuotaSum, QuotaRefuse, QuotaFails, UploadTypeOK
<1>6. CASE QuotaInsert(f)   BY <1>6, <1>c, <1>t DEF QuotaInsert, UploadTypeOK, RowTypeOK
<1>7. CASE UploadUndo(f)    BY <1>7, <1>c, <1>t DEF UploadUndo, Erase, UploadTypeOK
<1> QED BY <1>1, <1>2, <1>3, <1>4, <1>5, <1>6, <1>7 DEF UploadStep

(* Steps that leave uploads alone, create no row and bring back no bytes.   *)
LEMMA OrphanKept ==
  /\ IInv /\ up' = up /\ temp' = temp /\ disk' \subseteq disk /\ crashes' = crashes
  /\ \A f \in Files : status'[f] = "none" => status[f] = "none"
  => OrphanInv'
BY DEF IInv, OrphanInv

LEMMA OrphanUow ==
  ASSUME IInv, NEW t \in Uows, UowBegin(t) \/ UowStep(t) \/ UowFails(t)
  PROVE  OrphanInv'
<1>1. /\ up' = up /\ temp' = temp /\ disk' = disk /\ crashes' = crashes
      /\ \A f \in Files : status'[f] = "none" => status[f] = "none"
  BY DEF UowBegin, UowStep, UowFails, AttachRead, AttachReference, AttachClaim, UowCommit,
         DeadlockVictim, Rollback, uploadVars, rowVars
<1> QED BY <1>1, OrphanKept

LEMMA OrphanClean ==
  ASSUME IInv, NEW c \in Cleaners, CleanStep(c) \/ CleanFails(c)
  PROVE  OrphanInv'
<1>1. /\ up' = up /\ temp' = temp /\ disk' \subseteq disk /\ crashes' = crashes
      /\ \A f \in Files : status'[f] = "none" => status[f] = "none"
  BY DEF CleanStep, CleanClaim, CleanErase, CleanMark, MarkRow, CleanEnd, CleanFails, Erase,
         uploadVars, rowVars, IInv, TypeOK, RowTypeOK
<1> QED BY <1>1, OrphanKept

LEMMA OrphanCrash == IInv /\ Crash => OrphanInv'
BY DEF IInv, TypeOK, Crash, OrphanInv, LimitsAssumption

-----------------------------------------------------------------------------
(***************************************************************************)
(* The invariant is inductive                                              *)
(***************************************************************************)
LEMMA InvUpload ==
  ASSUME IInv, NEW f \in Files, UploadStep(f) \/ StoreFails(f) \/ QuotaFails(f)
  PROVE  IInv'
BY TypeUpload, DiskUpload, QuotaUpload, RowUpload, UowUpload, CleanUpload, OrphanUpload DEF IInv

LEMMA InvExpire == ASSUME IInv, NEW f \in Files, Expire(f) PROVE IInv'
<1>1. /\ UNCHANGED uploadVars /\ disk' = disk /\ status' = status /\ ref' = ref /\ uow' = uow
      /\ rowLock' = rowLock /\ cleaner' = cleaner /\ cleaned' = cleaned /\ crashes' = crashes
  BY DEF Expire, rowVars, uowVars, cleanVars
<1>2. up' = up /\ temp' = temp
  BY <1>1 DEF uploadVars
<1>3. TypeOK'
  BY TypeNext DEF IInv, Next
<1>4. DiskInv' /\ RowInv'
  BY <1>1, <1>2, DiskFrame, RowFrame DEF IInv
<1>5. QuotaInv'
  BY <1>1, QuotaShrinks
<1>6. UowInv' /\ CleanInv' /\ OrphanInv'
  BY <1>1, <1>2, UowKept, CleanKept, OrphanKept
<1> QED BY <1>3, <1>4, <1>5, <1>6 DEF IInv

LEMMA InvUow ==
  ASSUME IInv, NEW t \in Uows, UowBegin(t) \/ UowStep(t) \/ UowFails(t)
  PROVE  IInv'
<1>1. UNCHANGED uploadVars /\ disk' = disk /\ up' = up /\ cleaner' = cleaner /\ cleaned' = cleaned
  BY DEF UowBegin, UowStep, UowFails, AttachRead, AttachReference, AttachClaim, UowCommit,
         DeadlockVictim, Rollback, uploadVars, cleanVars
<1>2. UowCommit(t) \/ (status' = status /\ ref' = ref)
  BY DEF UowBegin, UowStep, UowFails, AttachRead, AttachReference, AttachClaim, ReferenceOnCommit,
         DeadlockVictim, Rollback, rowVars
<1>3. QuotaInv'
  <2>1. \A f \in Files : status'[f] \in {"staged", "attached", "deleting"}
                           => status[f] \in {"staged", "attached", "deleting"}
    BY <1>2 DEF UowCommit, IInv, UowInv
  <2> QED BY <1>1, <2>1, QuotaShrinks
<1>4. RowInv'
  BY <1>1, <1>2, RowCommit, RowFrame DEF IInv
<1>5. CleanInv'
  <2>1. status' = status => CleanInv'
    BY <1>1, CleanKept
  <2> QED BY <1>2, <2>1, CleanCommit
<1>6. TypeOK' /\ DiskInv'
  BY <1>1, TypeUow, DiskFrame DEF IInv
<1> QED BY <1>3, <1>4, <1>5, <1>6, UowSteps, OrphanUow DEF IInv

LEMMA InvClean ==
  ASSUME IInv, NEW c \in Cleaners, CleanStep(c) \/ CleanFails(c)
  PROVE  IInv'
<1>1. UNCHANGED uploadVars
  BY DEF CleanStep, CleanFails, CleanClaim, CleanErase, CleanMark, CleanEnd
<1>2. DiskInv'
  <2>1. disk' = disk \/ \E f \in Files : CleanErase(c, f)
    BY DEF CleanStep, CleanFails, CleanClaim, CleanMark, CleanEnd
  <2> QED BY <1>1, <2>1, DiskErase, DiskFrame DEF IInv
<1>3. QuotaInv'
  <2>1. \A f \in Files : status'[f] \in {"staged", "attached", "deleting"}
                           => status[f] \in {"staged", "attached", "deleting"}
    BY DEF CleanStep, CleanFails, CleanClaim, Claimable, CleanErase, CleanMark, MarkRow, MarkMatches,
           CleanEnd, rowVars, IInv, TypeOK, RowTypeOK
  <2> QED BY <1>1, <2>1, QuotaShrinks
<1> QED BY <1>2, <1>3, TypeClean, RowClean, UowClean, CleanSteps, OrphanClean DEF IInv

LEMMA InvCrash == IInv /\ Crash => IInv'
BY TypeCrash, DiskCrash, QuotaCrash, RowCrash, UowCrash, CleanCrash, OrphanCrash DEF IInv

LEMMA InvStutter == IInv /\ UNCHANGED vars => IInv'
<1> SUFFICES ASSUME IInv, UNCHANGED vars PROVE IInv'
  OBVIOUS
<1>1. /\ UNCHANGED uploadVars /\ disk' = disk /\ status' = status /\ ref' = ref /\ uow' = uow
      /\ rowLock' = rowLock /\ cleaner' = cleaner /\ cleaned' = cleaned /\ crashes' = crashes
      /\ up' = up /\ temp' = temp
  BY DEF vars, uploadVars
<1>2. TypeOK'
  BY TypeNext DEF IInv
<1>3. DiskInv' /\ RowInv' /\ QuotaInv'
  BY <1>1, DiskFrame, RowFrame, QuotaShrinks DEF IInv
<1>4. UowInv' /\ CleanInv' /\ OrphanInv'
  BY <1>1, UowKept, CleanKept, OrphanKept
<1> QED BY <1>2, <1>3, <1>4 DEF IInv

LEMMA InvNext == IInv /\ [Next]_vars => IInv'
BY InvUpload, InvExpire, InvUow, InvClean, InvCrash, InvStutter DEF Next, Settled

THEOREM Invariant == Spec => []IInv
BY InvInit, InvNext, PTL DEF Spec

-----------------------------------------------------------------------------
(***************************************************************************)
(* The safety properties                                                   *)
(***************************************************************************)

(* No cleanup cycle, failed request or crash erases the bytes of a file     *)
(* that is staged or attached, whatever the units of work and cycles.       *)
THEOREM BytesSafe == Spec => []BytesBehindRows
<1>1. IInv => BytesBehindRows
  BY DEF IInv, RowInv
<1> QED BY <1>1, Invariant, PTL

(* The status of a row and the reference table agree at every commit.       *)
THEOREM ReferenceSafe == Spec => []BoundIffAttached
<1>1. IInv => BoundIffAttached
  BY DEF IInv, RowInv
<1> QED BY <1>1, Invariant, PTL

(* A unit of work owns all files it asked for, for ever, or none.           *)
THEOREM AttachAtomic == Spec => []UowAllOrNothing
<1>1. IInv => UowAllOrNothing
  BY DEF IInv, UowInv
<1> QED BY <1>1, Invariant, PTL

(* However many uploads run, neither quota is ever exceeded.                *)
THEOREM QuotaSafe == Spec => []QuotaRespected
<1>1. IInv => QuotaRespected
  BY DEF IInv, QuotaInv
<1> QED BY <1>1, Invariant, PTL

(* However many uploads run, the reserve of the volume is not touched.      *)
THEOREM DiskSafe == Spec => []DiskWithinRoom
<1>1. IInv => DiskWithinRoom
  BY DEF IInv, DiskInv
<1> QED BY <1>1, Invariant, PTL

(* Overlapping cleanup cycles count no file twice and none that is not      *)
(* deleted; a deleted file may go uncounted when the reply to its UPDATE is *)
(* lost or the process stops before the count (cleanupExpiredStaged).       *)
THEOREM CountedOnce == Spec => []CleanedOnce
<1>1. IInv => CleanedOnce
  BY DEF IInv, CleanInv
<1> QED BY <1>1, Invariant, PTL

(* Without crashes and disk faults no bytes are left behind.                *)
THEOREM OrphanFree == Spec => []NoOrphanBytes
<1>1. IInv => NoOrphanBytes
  BY DEF IInv, TypeOK, UploadTypeOK, UploadState, OrphanInv, DiskInv, RowInv, NoOrphanBytes,
         InFlight, UploadEnded
<1> QED BY <1>1, Invariant, PTL

-----------------------------------------------------------------------------
(***************************************************************************)
(* Refinement                                                              *)
(***************************************************************************)

(* What a reader of the committed rows and of the bytes sees.               *)
Content == {f \in disk : up[f] = "done"}

LEMMA LifeInit == Init => Life!Init
BY DEF Init, Life!Init

LEMMA LifeUpload ==
  ASSUME IInv, NEW f \in Files, UploadStep(f) \/ StoreFails(f) \/ QuotaFails(f)
  PROVE  [Life!Next]_Life!vars
<1> USE DEF Goto
<1>t. UploadTypeOK /\ RowTypeOK /\ RowInv /\ DiskInv
  BY DEF IInv, TypeOK
<1>1. CASE QuotaInsert(f)
  <2>1. /\ status[f] = "none" /\ status' = [status EXCEPT ![f] = "staged"] /\ ref' = ref
        /\ disk' = disk /\ \A g \in Files : g # f => up'[g] = up[g]
        /\ up[f] = "summed" /\ disk \subseteq Files
    BY <1>1, <1>t DEF QuotaInsert, RowInv, UploadTypeOK
  <2>2. Content' = Content \/ Content' = Content \cup {f}
    BY <2>1 DEF Content
  <2>3. \E held \in {{}, {f}} : Content' = Content \cup held
    BY <2>2
  <2>4. Life!Stage(f)
    BY <2>1, <2>3 DEF Life!Stage, Content
  <2> QED BY <2>4 DEF Life!Next
<1>2. CASE ~QuotaInsert(f)
  <2>1. status' = status /\ ref' = ref
    BY <1>2 DEF UploadStep, UploadBegin, StoreProbe, StoreTemp, StoreRename, QuotaSum,
       QuotaRefuse, UploadUndo, StoreFails, QuotaFails
  <2>2. /\ \A g \in Files : g # f => up'[g] = up[g] /\ (g \in disk' <=> g \in disk)
        /\ up[f] # "done" /\ up'[f] # "done" /\ disk \subseteq Files /\ disk' \subseteq Files
    BY <1>2, <1>t DEF UploadStep, UploadBegin, StoreProbe, StoreTemp, StoreRename, QuotaSum,
       QuotaRefuse, UploadUndo, StoreFails, QuotaFails, Erase, UploadTypeOK
  <2>3. Content' = Content
    BY <2>2 DEF Content
  <2> QED BY <2>1, <2>3 DEF Life!vars, Content
<1> QED BY <1>1, <1>2

LEMMA LifeUow ==
  ASSUME IInv, NEW t \in Uows, UowBegin(t) \/ UowStep(t) \/ UowFails(t)
  PROVE  [Life!Next]_Life!vars
<1>1. up' = up /\ disk' = disk
  BY DEF UowBegin, UowStep, UowFails, AttachRead, AttachReference, AttachClaim, UowCommit,
         DeadlockVictim, Rollback, uploadVars
<1>2. CASE UowCommit(t)
  <2> DEFINE S == {f \in Files : rowLock[f] = t}
  <2>1. uow[t].ref \in Refs /\ \A f \in S : status[f] = "staged"
    BY <1>2 DEF IInv, UowInv, UowCommit
  <2>2. /\ status' = [f \in Files |-> IF f \in S THEN "attached" ELSE status[f]]
        /\ ref' = [f \in Files |-> IF f \in S THEN uow[t].ref ELSE ref[f]]
    BY <1>2 DEF UowCommit
  <2>3. Life!Bind(S, uow[t].ref)
    BY <1>1, <2>1, <2>2 DEF Life!Bind
  <2>4. S \in SUBSET Files
    OBVIOUS
  <2> QED BY <2>1, <2>3, <2>4 DEF Life!Next
<1>3. CASE ~UowCommit(t)
  <2>1. status' = status /\ ref' = ref
    BY <1>3 DEF UowBegin, UowStep, UowFails, AttachRead, AttachReference, AttachClaim,
       ReferenceOnCommit, DeadlockVictim, Rollback, rowVars
  <2> QED BY <1>1, <2>1 DEF Life!vars
<1> QED BY <1>2, <1>3

LEMMA LifeClean ==
  ASSUME IInv, NEW c \in Cleaners, CleanStep(c) \/ CleanFails(c)
  PROVE  [Life!Next]_Life!vars
<1>t. UploadTypeOK /\ RowTypeOK /\ CleanTypeOK /\ RowInv /\ CleanInv
  BY DEF IInv, TypeOK
<1>u. up' = up /\ ref' = ref
  BY DEF CleanStep, CleanFails, CleanClaim, CleanErase, CleanMark, CleanEnd, uploadVars, rowVars
<1>1. CASE CleanClaim(c)
  <2>1. PICK S \in SUBSET Claimable :
          status' = [f \in Files |-> IF f \in S THEN "deleting" ELSE status[f]]
    BY <1>1 DEF CleanClaim
  <2>2. S \in SUBSET Files /\ \A f \in S : status[f] \in {"staged", "deleting"}
    BY DEF Claimable
  <2>3. disk' = disk
    BY <1>1 DEF CleanClaim
  <2>4. Life!Claim(S)
    BY <1>u, <2>1, <2>2, <2>3 DEF Life!Claim
  <2> QED BY <2>2, <2>4 DEF Life!Next
<1>2. ASSUME NEW f \in Files, CleanErase(c, f) PROVE [Life!Next]_Life!vars
  <2>1. /\ status[f] \in {"deleting", "deleted"} /\ status' = status /\ disk' = disk \ {f}
        /\ status[f] = "deleted" => f \notin disk
    BY <1>2, <1>t DEF CleanErase, Erase, CleanInv, RowInv, rowVars
  <2>2. Content' = Content \ {f}
    BY <1>u, <2>1 DEF Content
  <2>3. CASE status[f] = "deleting"
    <3>1. Life!Erase(f)
      BY <1>u, <2>1, <2>2, <2>3 DEF Life!Erase, Content
    <3> QED BY <3>1 DEF Life!Next
  <2>4. CASE status[f] = "deleted"
    BY <1>u, <2>1, <2>4 DEF Life!vars
  <2> QED BY <2>1, <2>3, <2>4
<1>3. CASE cleaner[c].pc = "mark" /\ MarkRow(cleaner[c].cur) /\ disk' = disk
  <2> DEFINE f == cleaner[c].cur
  <2>1. f \in Files /\ f \notin disk
    BY <1>3, <1>t DEF CleanTypeOK, CleanInv
  <2>2. Life!Delete(f)
    BY <1>3, <1>u, <2>1 DEF MarkRow, MarkMatches, Life!Delete
  <2> QED BY <2>1, <2>2 DEF Life!Next
<1>4. CASE UNCHANGED <<status, disk>>
  BY <1>4, <1>u DEF Life!vars
<1>5. CASE CleanMark(c) \/ CleanEnd(c) \/ CleanFails(c)
  BY <1>3, <1>4, <1>5 DEF CleanMark, CleanEnd, CleanFails, rowVars
<1> QED BY <1>1, <1>2, <1>5 DEF CleanStep

LEMMA LifeCrash == IInv /\ Crash => UNCHANGED Life!vars
<1> SUFFICES ASSUME IInv, Crash PROVE UNCHANGED Life!vars
  OBVIOUS
<1>1. disk' = disk /\ status' = status /\ ref' = ref /\ disk \subseteq Files
  BY DEF Crash, rowVars, IInv, TypeOK, UploadTypeOK
<1>2. \A f \in Files : up'[f] = "done" <=> up[f] = "done"
  BY DEF Crash, InFlight, UploadEnded
<1>3. Content' = Content
  BY <1>1, <1>2 DEF Content
<1> QED BY <1>1, <1>3 DEF Life!vars, Content

(* Every step of the files module is a step of the life of a file as        *)
(* FileLifecycle tells it, or invisible there.                              *)
LEMMA LifeNext == IInv /\ [Next]_vars => [Life!Next]_Life!vars
<1> SUFFICES ASSUME IInv, [Next]_vars PROVE [Life!Next]_Life!vars
  OBVIOUS
<1>1. ASSUME NEW f \in Files, Expire(f) PROVE [Life!Next]_Life!vars
  BY <1>1 DEF Expire, uploadVars, rowVars, Life!vars
<1>2. CASE UNCHANGED vars
  BY <1>2 DEF vars, Life!vars
<1> QED BY <1>1, <1>2, LifeUpload, LifeUow, LifeClean, LifeCrash DEF Next, Settled

(* The files module implements the life of a file: transactions, failures,  *)
(* overlapping cycles and crashes never show.                               *)
THEOREM ImplementsLifecycle == Spec => Lifecycle
<1>1. Spec => []IInv
  BY Invariant
<1> QED BY <1>1, LifeInit, LifeNext, PTL DEF Spec, Lifecycle, Life!Spec

-----------------------------------------------------------------------------
(***************************************************************************)
(* What the refinement carries over: the promise of FileLifecycle and what *)
(* follows from it.                                                        *)
(***************************************************************************)
Promise == INSTANCE FileLifecycleProofs WITH
             content <- {f \in disk : up[f] = "done"}

LEMMA PromiseStep == [Life!Next]_Life!vars => [Promise!Next]_Promise!vars
BY DEF Life!Next, Life!vars, Life!Stage, Life!Bind, Life!Claim, Life!Erase, Life!Delete,
       Promise!Next, Promise!vars, Promise!Stage, Promise!Bind, Promise!Claim, Promise!Erase,
       Promise!Delete

LEMMA PromiseKept == Lifecycle => Promise!Spec
<1>1. Life!Init => Promise!Init
  BY DEF Life!Init, Promise!Init
<1> QED BY <1>1, PromiseStep, PTL DEF Lifecycle, Life!Spec, Promise!Spec

(* A file that a unit of work has attached stays attached to that           *)
(* reference and keeps its bytes, whatever requests, units of work, cycles  *)
(* and crashes come after; no status is ever taken back, and bytes a reader *)
(* may see go only when a cleanup cycle has claimed the row.                *)
THEOREM AttachedForGood ==
  Spec => Promise!AttachedForGood /\ Promise!NeverBack /\ Promise!BytesTakenLast
BY ImplementsLifecycle, PromiseKept, Promise!BoundForGood, PTL

(* A row that says deleted has no bytes left, and no bytes of a successful  *)
(* upload are there without a row.                                          *)
THEOREM DeletedRowsAreEmpty == Spec => []Promise!ContentOfRows
BY ImplementsLifecycle, PromiseKept, Promise!NoBytesWithoutRow, PTL

-----------------------------------------------------------------------------
(***************************************************************************)
(* Nothing is stuck: what fairness needs to make the requests and the      *)
(* cleanup come to their end.                                              *)
(***************************************************************************)

(* A lock of the files module is held by somebody who is on the way to      *)
(* release it: the write lock by an upload that writes, the advisory lock   *)
(* by one that has read the sums, a row by a unit of work that goes on.     *)
LocksAreHeld ==
  /\ writer # Nil => up[writer] \in {"probed", "temp"}
  /\ quotaLock # Nil => up[quotaLock] = "summed"
  /\ \A f \in Files : rowLock[f] # Nil => Active(rowLock[f]) /\ f \in uow[rowLock[f]].asked

(* A unit of work waits only for another one that goes on, never for itself *)
(* or for one that has ended, failed or died.                               *)
WaitsForOthers ==
  \A t, s \in Uows : WaitsFor(t, s) => s # t /\ Active(t) /\ Active(s)

(* A claimed file is within reach of the next cleanup cycle, also when the  *)
(* cycle that claimed it died, and a staged file whose time ran out is so   *)
(* too unless a unit of work under way has claimed it.                      *)
ReclaimIsDue ==
  \A f \in Files :
    /\ status[f] = "deleting" => f \in Claimable
    /\ status[f] = "staged" /\ f \in expired =>
         f \in Claimable \/ (rowLock[f] # Nil /\ Active(rowLock[f]))

LEMMA InvHeld == IInv => LocksAreHeld
<1> SUFFICES ASSUME IInv PROVE LocksAreHeld
  OBVIOUS
<1>t. /\ writer \in Files \cup {Nil} /\ quotaLock \in Files \cup {Nil}
      /\ rowLock \in [Files -> Uows \cup {Nil}]
  BY DEF IInv, TypeOK, UploadTypeOK, UowTypeOK
<1>1. writer # Nil => up[writer] \in {"probed", "temp"}
  BY <1>t DEF IInv, DiskInv
<1>2. quotaLock # Nil => up[quotaLock] = "summed"
  BY <1>t DEF IInv, QuotaInv
<1>3. \A f \in Files : rowLock[f] # Nil => Active(rowLock[f]) /\ f \in uow[rowLock[f]].asked
  BY <1>t DEF IInv, UowInv
<1> QED BY <1>1, <1>2, <1>3 DEF LocksAreHeld

(* The locks of the module are never left behind.                           *)
THEOREM LocksNeverLeak == Spec => []LocksAreHeld
BY Invariant, InvHeld, PTL

\* The reference rows a unit of work has locked go with it.
HeldByActive == \A t \in Uows : uow[t].held # {} => Active(t)

LEMMA HeldMoves ==
  ASSUME TypeOK, NEW t \in Uows, UowBegin(t) \/ UowStep(t) \/ UowFails(t)
  PROVE  \E u : /\ uow' = [uow EXCEPT ![t] = u]
                /\ u.held # {} => u.pc \in {"next", "ref", "claim"}
<1>t. uow[t] \in UowRecord
  BY DEF TypeOK, UowTypeOK
<1>1. ASSUME NEW pc, EndUow(t, pc)
      PROVE  \E u : /\ uow' = [uow EXCEPT ![t] = u]
                    /\ u.held # {} => u.pc \in {"next", "ref", "claim"}
  <2>1. Ended(uow[t], pc).held = {}
    BY <1>t, UowFields
  <2> QED BY <1>1, <2>1 DEF EndUow
<1>2. Rollback(t) => \E u : /\ uow' = [uow EXCEPT ![t] = u]
                            /\ u.held # {} => u.pc \in {"next", "ref", "claim"}
  BY <1>1 DEF Rollback
<1>3. CASE UowBegin(t)
  <2>1. PICK a \in Users, r \in Refs, fs \in SUBSET Files :
          uow' = [uow EXCEPT ![t] = Begun(uow[t], a, r, fs)]
    BY <1>3 DEF UowBegin
  <2>2. Begun(uow[t], a, r, fs).pc = "next"
    BY <1>t, UowFields
  <2> QED BY <2>1, <2>2
<1>4. CASE AttachRead(t)
  <2>1. \A f : Found(uow[t], f).pc = "ref"
    BY <1>t, UowFields
  <2> QED BY <1>2, <1>4, <2>1 DEF AttachRead
<1>5. CASE AttachReference(t)
  <2>1. Unbound(uow[t]).pc = "claim" /\ \A S : Bound(uow[t], S).pc = "next"
    BY <1>t, UowFields
  <2> QED BY <1>2, <1>5, <2>1 DEF AttachReference
<1>6. CASE AttachClaim(t)
  <2>1. \A S : Bound(uow[t], S).pc = "next"
    BY <1>t, UowFields
  <2> QED BY <1>2, <1>6, <2>1 DEF AttachClaim
<1>7. CASE UowCommit(t)
  BY <1>1, <1>7 DEF UowCommit
<1> QED BY <1>2, <1>3, <1>4, <1>5, <1>6, <1>7 DEF UowStep, UowFails, DeadlockVictim

LEMMA HeldNext == TypeOK /\ HeldByActive /\ [Next]_vars => HeldByActive'
<1> SUFFICES ASSUME TypeOK, HeldByActive, [Next]_vars PROVE HeldByActive'
  OBVIOUS
<1>t. uow \in [Uows -> UowRecord]
  BY DEF TypeOK, UowTypeOK
<1>1. CASE UNCHANGED uow
  BY <1>1 DEF HeldByActive, Active
<1>2. ASSUME NEW t \in Uows, UowBegin(t) \/ UowStep(t) \/ UowFails(t) PROVE HeldByActive'
  <2>1. PICK u : /\ uow' = [uow EXCEPT ![t] = u]
                 /\ u.held # {} => u.pc \in {"next", "ref", "claim"}
    BY <1>2, HeldMoves
  <2>2. uow'[t] = u /\ \A s \in Uows \ {t} : uow'[s] = uow[s]
    BY <1>t, <2>1
  <2> QED BY <2>1, <2>2 DEF HeldByActive, Active, UowEnded
<1>3. CASE Crash
  <2>1. \A t \in Uows : Ended(uow[t], "aborted").held = {}
    BY <1>t, UowFields
  <2>2. \A t \in Uows : uow'[t] = uow[t] \/ uow'[t] = Ended(uow[t], "aborted")
    BY <1>3 DEF Crash
  <2> QED BY <2>1, <2>2 DEF HeldByActive, Active
<1>4. ASSUME NEW f \in Files, UploadStep(f) \/ StoreFails(f) \/ QuotaFails(f) \/ Expire(f)
      PROVE  UNCHANGED uow
  BY <1>4 DEF UploadStep, UploadBegin, StoreProbe, StoreTemp, StoreRename, QuotaSum, QuotaInsert,
              QuotaRefuse, UploadUndo, StoreFails, QuotaFails, Expire, uowVars
<1>5. ASSUME NEW c \in Cleaners, CleanStep(c) \/ CleanFails(c) PROVE UNCHANGED uow
  BY <1>5 DEF CleanStep, CleanFails, CleanClaim, CleanErase, CleanMark, CleanEnd, uowVars
<1>6. CASE UNCHANGED vars
  BY <1>1, <1>6 DEF vars
<1> QED BY <1>1, <1>2, <1>3, <1>4, <1>5, <1>6 DEF Next, Settled

LEMMA InvWaits == IInv /\ HeldByActive => WaitsForOthers
<1> SUFFICES ASSUME IInv, HeldByActive, NEW t \in Uows, NEW s \in Uows, WaitsFor(t, s)
             PROVE  s # t /\ Active(t) /\ Active(s)
  BY DEF WaitsForOthers
<1>1. Active(t)
  BY DEF WaitsFor, Active, UowEnded
<1>2. CASE uow[t].pc = "claim" /\ rowLock[uow[t].cur] = s
  <2>1. uow[t].cur \in Files /\ uow[t].cur \in uow[t].left
    BY <1>2 DEF IInv, TypeOK, UowTypeOK, UowInv
  <2>2. Active(s) /\ uow[t].cur \in uow[s].asked \ uow[s].left
    BY <1>2, <2>1 DEF IInv, UowInv
  <2> QED BY <1>1, <2>1, <2>2
<1>3. CASE uow[t].pc = "ref" /\ s # t /\ uow[t].cur \in uow[s].held
  BY <1>1, <1>3 DEF HeldByActive
<1> QED BY <1>2, <1>3 DEF WaitsFor

(* Who waits for a row waits for a unit of work that will end: what is left *)
(* is a circle of at least two, which PostgreSQL breaks (attachStagedFile). *)
THEOREM WaitsEndWithOthers == Spec => []WaitsForOthers
<1>1. Init => HeldByActive
  BY DEF Init, HeldByActive, NewUow
<1> QED BY <1>1, HeldNext, InvWaits, Invariant, TypeCorrect, PTL DEF Spec

LEMMA InvDue == IInv => ReclaimIsDue
<1> SUFFICES ASSUME IInv, NEW f \in Files
             PROVE  /\ status[f] = "deleting" => f \in Claimable
                    /\ status[f] = "staged" /\ f \in expired =>
                         f \in Claimable \/ (rowLock[f] # Nil /\ Active(rowLock[f]))
  BY DEF ReclaimIsDue
<1>1. rowLock[f] \in Uows \cup {Nil}
  BY DEF IInv, TypeOK, UowTypeOK
<1>2. rowLock[f] # Nil => status[f] = "staged" /\ Active(rowLock[f])
  BY <1>1 DEF IInv, UowInv
<1>3. status[f] = "staged" => ref[f] = Nil
  BY DEF IInv, RowInv, BoundIffAttached
<1> QED BY <1>2, <1>3 DEF Claimable

(* Cleanup never loses sight of a file (claimExpiredStagedFiles), so that   *)
(* ExpiredReclaimed leaves to fairness only that cycles go on.              *)
THEOREM NothingIsForgotten == Spec => []ReclaimIsDue
BY Invariant, InvDue, PTL
=============================================================================
