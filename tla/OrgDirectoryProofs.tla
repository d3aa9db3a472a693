------------------------- MODULE OrgDirectoryProofs -------------------------
(***************************************************************************)
(* Proofs about OrgDirectory for every number of departments, employees    *)
(* and concurrent requests.                                                *)
(***************************************************************************)
EXTENDS OrgDirectory, TLAPS

USE NilAssumption

-----------------------------------------------------------------------------
(***************************************************************************)
(* Type correctness, together with the shape of a request at each of its   *)
(* steps: what it refers to and which advisory lock it holds.              *)
(***************************************************************************)
Refers(r) ==
  LET q == req[r] IN
  /\ q.pc = "lock" => q.op \in {"create", "hire", "delete"} /\ LockKey(r) \in Depts
  /\ q.pc = "locked" => /\ q.op \in {"create", "hire", "delete"}
                        /\ LockKey(r) \in Depts /\ refLock[LockKey(r)] = r
  /\ q.pc = "inserted" => /\ q.op \in {"create", "hire"}
                          /\ q.p # Nil => q.p \in Live /\ refLock[q.p] = r
  /\ q.pc = "count" => q.op = "delete" /\ q.d \in Depts
  /\ q.pc = "deleted" => q.op = "delete" /\ q.d \in Live /\ refLock[q.d] = r
  /\ q.pc \in {"parent", "cycle", "hung", "update"} => q.op = "move" /\ q.d \in Depts
  /\ q.pc \in {"parent", "cycle"} => q.p \in Depts
  /\ q.pc = "cycle" => q.p # q.d
  /\ q.pc \in {"cycle", "update"} /\ q.p # Nil => dept[q.p] # "absent"
  /\ q.pc \in {"dept", "save"} => /\ q.op \in {"self", "status", "profile"}
                                  /\ q.e \in Present /\ q.s # "absent"

Shape == TypeOK /\ \A r \in Reqs : Refers(r)

(* The steps that change no department and no employee.                     *)
Quiet(r) ==
  \/ Begin(r) \/ Lock(r) \/ CreateInsert(r) \/ DeleteCount(r) \/ DeleteUpdate(r)
  \/ MoveParent(r) \/ MoveCycle(r) \/ ProfileDept(r) \/ Fails(r)

LEMMA Cases ==
  ASSUME NEW r \in Reqs, Begin(r) \/ Lock(r) \/ Unlocked(r) \/ MoveUpdate(r) \/ Fails(r)
  PROVE  Quiet(r) \/ CreateCommit(r) \/ HireCommit(r) \/ DeleteCommit(r)
           \/ MoveUpdate(r) \/ Save(r)
BY DEF Unlocked, Quiet

LEMMA QuietFrame ==
  ASSUME NEW r \in Reqs, Quiet(r)
  PROVE  /\ dept' = dept /\ parent' = parent /\ status' = status /\ member' = member
         /\ moved' = moved /\ saved' = saved /\ raced' = raced
BY DEF Quiet, Begin, CreateBegin, DeleteBegin, MoveBegin, SelfRead, StatusRead, ProfileRead,
       Lock, CreateInsert, DeleteCount, DeleteUpdate, MoveParent, MoveCycle, ProfileDept,
       Fails, deptVars, empVars, history

(* A quiet step gives one request a new record and touches its locks only.  *)
LEMMA QuietRequest ==
  ASSUME Shape, NEW r \in Reqs, Quiet(r)
  PROVE  \E q \in ReqRecord : req' = [req EXCEPT ![r] = q]
<1>t. req[r] \in ReqRecord
  BY DEF Shape, TypeOK
<1>n. NoRequest \in ReqRecord
  BY DEF ReqRecord, NoRequest
<1>to. \A pc \in {"locked", "inserted", "lock", "deleted", "cycle", "hung", "update", "save"} :
         [req[r] EXCEPT !.pc = pc] \in ReqRecord
  BY <1>t DEF ReqRecord
<1>1. CASE Begin(r)
  <2> USE DEF Shape, TypeOK, ReqRecord, Ask
  <2>1. CASE \E op \in {"create", "hire"} : CreateBegin(r, op)
    BY <2>1 DEF CreateBegin, Live
  <2>2. CASE DeleteBegin(r)   BY <2>2 DEF DeleteBegin, Live
  <2>3. CASE MoveBegin(r)     BY <2>3 DEF MoveBegin, Live
  <2>4. CASE SelfRead(r)      BY <2>4 DEF SelfRead, Present
  <2>5. CASE StatusRead(r)    BY <2>5 DEF StatusRead, Present
  <2>6. CASE ProfileRead(r)   BY <2>6 DEF ProfileRead, Present
  <2> QED BY <1>1, <2>1, <2>2, <2>3, <2>4, <2>5, <2>6 DEF Begin
<1>2. CASE Lock(r)            BY <1>2, <1>to DEF Lock, To
<1>3. CASE CreateInsert(r)    BY <1>3, <1>to, <1>n DEF CreateInsert, To, End
<1>4. CASE DeleteCount(r)     BY <1>4, <1>to, <1>n DEF DeleteCount, To, End
<1>5. CASE DeleteUpdate(r)    BY <1>5, <1>to, <1>n DEF DeleteUpdate, To, End
<1>6. CASE MoveParent(r)      BY <1>6, <1>to, <1>n DEF MoveParent, To, End
<1>7. CASE MoveCycle(r)       BY <1>7, <1>to, <1>n DEF MoveCycle, To, End
<1>8. CASE ProfileDept(r)     BY <1>8, <1>to, <1>n DEF ProfileDept, To, End
<1>9. CASE Fails(r)           BY <1>9, <1>n DEF Fails, End
<1> QED
  BY <1>1, <1>2, <1>3, <1>4, <1>5, <1>6, <1>7, <1>8, <1>9 DEF Quiet

(* Another request keeps its record and its locks.                          *)
LEMMA QuietLocks ==
  ASSUME Shape, NEW r \in Reqs, Quiet(r)
  PROVE  /\ refLock' \in [Depts -> Reqs \cup {Nil}]
         /\ \A d \in Depts : refLock[d] # r /\ refLock[d] # Nil => refLock'[d] = refLock[d]
         /\ \A d \in Depts : refLock'[d] # r => refLock'[d] = refLock[d] \/ refLock'[d] = Nil
<1>t. refLock \in [Depts -> Reqs \cup {Nil}]
  BY DEF Shape, TypeOK, LockTypeOK
<1>1. Unlock(r) \/ UNCHANGED refLock \/ Lock(r)
  BY DEF Quiet, Begin, CreateBegin, DeleteBegin, MoveBegin, SelfRead, StatusRead,
         ProfileRead, CreateInsert, DeleteCount, DeleteUpdate, MoveParent, MoveCycle,
         ProfileDept, Fails, End
<1>2. CASE Unlock(r)          BY <1>2, <1>t DEF Unlock
<1>3. CASE UNCHANGED refLock  BY <1>3, <1>t
<1>4. CASE Lock(r)
  <2>1. LockKey(r) \in Depts /\ refLock[LockKey(r)] = Nil
    BY <1>4 DEF Lock, Shape, Refers
  <2> QED BY <1>4, <1>t, <2>1 DEF Lock
<1> QED BY <1>1, <1>2, <1>3, <1>4

(* What a quiet step does to the request that takes it.                     *)
LEMMA QuietShape ==
  ASSUME Shape, NEW r \in Reqs, Quiet(r)
  PROVE  /\ Refers(r)'
         /\ \A d \in Depts : refLock'[d] = r => Holding(r, d)'
<1> USE DEF LockKey, Holding
<1>t. /\ req \in [Reqs -> ReqRecord] /\ refLock \in [Depts -> Reqs \cup {Nil}]
      /\ Refers(r) /\ \A d \in Depts : refLock[d] = r => Holding(r, d)
  BY DEF Shape, TypeOK, LockTypeOK
<1>f. UNCHANGED <<dept, status>> /\ Live' = Live /\ Present' = Present
  BY QuietFrame DEF Live, Present
<1>e. ASSUME End(r) PROVE Refers(r)' /\ \A d \in Depts : refLock'[d] # r
  BY <1>e, <1>t DEF End, Unlock, NoRequest, Refers
<1>1. CASE Begin(r)
  <2>1. refLock' = refLock /\ req[r].pc = "idle"
    BY <1>1 DEF Begin, CreateBegin, DeleteBegin, MoveBegin, SelfRead, StatusRead,
                ProfileRead, Ask
  <2>2. \A d \in Depts : refLock'[d] # r
    BY <1>t, <2>1
  <2>3. Refers(r)'
    <3> USE DEF Ask, Refers
    <3>1. CASE \E op \in {"create", "hire"} : CreateBegin(r, op)
      BY <3>1, <1>t, <1>f DEF CreateBegin, Live
    <3>2. CASE DeleteBegin(r)   BY <3>2, <1>t, <1>f DEF DeleteBegin, Live
    <3>3. CASE MoveBegin(r)     BY <3>3, <1>t, <1>f DEF MoveBegin, Live
    <3>4. CASE SelfRead(r)      BY <3>4, <1>t, <1>f DEF SelfRead, Present
    <3>5. CASE StatusRead(r)    BY <3>5, <1>t, <1>f DEF StatusRead, Present
    <3>6. CASE ProfileRead(r)   BY <3>6, <1>t, <1>f DEF ProfileRead, Present
    <3> QED BY <1>1, <3>1, <3>2, <3>3, <3>4, <3>5, <3>6 DEF Begin
  <2> QED BY <2>2, <2>3
<1>2. CASE Lock(r)
  BY <1>2, <1>t, <1>f DEF Lock, To, Refers, ReqRecord
<1>3. CASE CreateInsert(r)
  BY <1>3, <1>t, <1>f, <1>e DEF CreateInsert, To, Refers, ReqRecord, Recheck
<1>4. CASE DeleteCount(r)
  BY <1>4, <1>t, <1>f, <1>e DEF DeleteCount, To, Refers, ReqRecord
<1>5. CASE DeleteUpdate(r)
  BY <1>5, <1>t, <1>f, <1>e DEF DeleteUpdate, To, Refers, ReqRecord, DeleteMatches
<1>6. CASE MoveParent(r)
  BY <1>6, <1>t, <1>f, <1>e DEF MoveParent, To, Refers, ReqRecord, Live
<1>7. CASE MoveCycle(r)
  BY <1>7, <1>t, <1>f, <1>e DEF MoveCycle, To, Refers, ReqRecord
<1>8. CASE ProfileDept(r)
  BY <1>8, <1>t, <1>f, <1>e DEF ProfileDept, To, Refers, ReqRecord
<1>9. CASE Fails(r)             BY <1>9, <1>e DEF Fails
<1> QED
  BY <1>1, <1>2, <1>3, <1>4, <1>5, <1>6, <1>7, <1>8, <1>9 DEF Quiet

LEMMA ShapeQuiet ==
  ASSUME Shape, NEW r \in Reqs, Quiet(r)
  PROVE  Shape'
<1>t. /\ req \in [Reqs -> ReqRecord] /\ refLock \in [Depts -> Reqs \cup {Nil}]
      /\ \A q \in Reqs : Refers(q)
      /\ \A d \in Depts : refLock[d] # Nil => Holding(refLock[d], d)
  BY DEF Shape, TypeOK, LockTypeOK
<1>f. UNCHANGED <<dept, parent, status, member, moved, saved, raced>>
      /\ Live' = Live /\ Present' = Present
  BY QuietFrame DEF Live, Present
<1>1. req' \in [Reqs -> ReqRecord] /\ \A q \in Reqs \ {r} : req'[q] = req[q]
  BY <1>t, QuietRequest
<1>2. \A q \in Reqs : Refers(q)'
  <2> SUFFICES ASSUME NEW q \in Reqs \ {r} PROVE Refers(q)'
    BY QuietShape
  <2>1. req'[q] = req[q] /\ Refers(q) /\ q # Nil
    BY <1>1, <1>t
  <2>2. \A d \in Depts : refLock[d] = q => refLock'[d] = q
    BY <2>1, QuietLocks
  <2>3. Live \subseteq Depts
    BY DEF Live
  <2> QED BY <2>1, <2>2, <2>3, <1>f, <1>t DEF Refers, LockKey, ReqRecord
<1>3. LockTypeOK'
  <2>1. ASSUME NEW d \in Depts, refLock'[d] # Nil PROVE Holding(refLock[d], d)'
    <3>1. CASE refLock'[d] = r      BY <3>1, QuietShape DEF Holding
    <3>2. CASE refLock'[d] # r
      <4>1. refLock'[d] = refLock[d] /\ refLock[d] \in Reqs \ {r}
        BY <2>1, <3>2, <1>t, QuietLocks
      <4> QED BY <4>1, <1>1, <1>t DEF Holding, LockKey
    <3> QED BY <3>1, <3>2
  <2> QED BY <2>1, QuietLocks DEF LockTypeOK
<1> QED BY <1>1, <1>2, <1>3, <1>f DEF Shape, TypeOK

(* The five steps that write.                                               *)
LEMMA ShapeCommit ==
  ASSUME Shape, NEW r \in Reqs, CreateCommit(r) \/ HireCommit(r) \/ DeleteCommit(r)
  PROVE  Shape'
<1>t. /\ req \in [Reqs -> ReqRecord] /\ refLock \in [Depts -> Reqs \cup {Nil}]
      /\ \A q \in Reqs : Refers(q)
      /\ \A d \in Depts : refLock[d] # Nil => Holding(refLock[d], d)
      /\ moved \subseteq Depts /\ saved \subseteq Emps /\ raced \in BOOLEAN
  BY DEF Shape, TypeOK, LockTypeOK
<1>e. End(r) /\ UNCHANGED history
  BY DEF CreateCommit, HireCommit, DeleteCommit
<1>n. NoRequest \in ReqRecord /\ NoRequest.pc = "idle"
  BY DEF NoRequest, ReqRecord
<1>1. /\ req' \in [Reqs -> ReqRecord] /\ \A q \in Reqs \ {r} : req'[q] = req[q]
      /\ req'[r] = NoRequest
  BY <1>t, <1>e, <1>n DEF End
<1>2. /\ refLock' \in [Depts -> Reqs \cup {Nil}]
      /\ \A d \in Depts : refLock'[d] # Nil => refLock'[d] = refLock[d] /\ refLock[d] # r
      /\ \A d \in Depts : refLock[d] # r => refLock'[d] = refLock[d]
  BY <1>t, <1>e DEF End, Unlock
<1>3. LockTypeOK'
  <2>1. ASSUME NEW d \in Depts, refLock'[d] # Nil PROVE Holding(refLock[d], d)'
    BY <2>1, <1>1, <1>2, <1>t DEF Holding, LockKey
  <2> QED BY <2>1, <1>2 DEF LockTypeOK
<1>4. /\ dept' \in [Depts -> {"absent", "live", "deleted"}]
      /\ parent' \in [Depts -> Depts \cup {Nil}]
      /\ status' \in [Emps -> {"absent", "active", "inactive"}]
      /\ member' \in [Emps -> Depts \cup {Nil}]
  BY <1>t DEF CreateCommit, HireCommit, DeleteCommit, Shape, TypeOK, ReqRecord, deptVars,
              empVars
<1>5. /\ \A d \in Depts : dept[d] # "absent" => dept'[d] # "absent"
      /\ Present \subseteq Present'
  BY DEF CreateCommit, HireCommit, DeleteCommit, Shape, TypeOK, deptVars, empVars, Present
<1>6. \A q \in Reqs : Refers(q)'
  <2>0. Refers(r)'
    BY <1>1, <1>n DEF Refers
  <2> SUFFICES ASSUME NEW q \in Reqs \ {r} PROVE Refers(q)'
    BY <2>0
  <2>1. req'[q] = req[q] /\ Refers(q) /\ q # Nil
    BY <1>1, <1>t
  <2>2. \A d \in Depts : refLock[d] = q => refLock'[d] = q
    BY <1>2
  <2>3. \A d \in Live : refLock[d] = q => d \in Live'
    <3>1. CASE DeleteCommit(r)
      <4>1. refLock[req[r].d] = r /\ req[r].d \in Depts
        BY <3>1, <1>t DEF DeleteCommit, Refers, Live
      <4> QED BY <3>1, <4>1 DEF DeleteCommit, Live, Shape, TypeOK
    <3>2. CASE ~DeleteCommit(r)
      BY <3>2 DEF CreateCommit, HireCommit, Live, Shape, TypeOK, deptVars
    <3> QED BY <3>1, <3>2
  <2>4. Live \subseteq Depts
    BY DEF Live
  <2>5. req[q] \in ReqRecord
    BY <1>t
  <2> QED BY <2>1, <2>2, <2>3, <2>4, <2>5, <1>5 DEF Refers, LockKey, ReqRecord
<1> QED BY <1>1, <1>3, <1>4, <1>6, <1>e, <1>t DEF Shape, TypeOK, history

(* A write ends its request; of the others it changes at most the flag.      *)
LEMMA WriteRequests ==
  ASSUME Shape, NEW r \in Reqs, MoveUpdate(r) \/ Save(r)
  PROVE  /\ req' \in [Reqs -> ReqRecord] /\ req'[r] = NoRequest
         /\ \A q \in Reqs \ {r} : /\ req'[q].pc = req[q].pc /\ req'[q].op = req[q].op
                                  /\ req'[q].d = req[q].d /\ req'[q].p = req[q].p
                                  /\ req'[q].e = req[q].e /\ req'[q].s = req[q].s
<1>t. req \in [Reqs -> ReqRecord]
  BY DEF Shape, TypeOK
<1>n. NoRequest \in ReqRecord
  BY DEF NoRequest, ReqRecord
<1>1. \A q \in Reqs : [req[q] EXCEPT !.stale = TRUE] \in ReqRecord
  <2>1. ASSUME NEW x \in ReqRecord PROVE [x EXCEPT !.stale = TRUE] \in ReqRecord
    BY DEF ReqRecord
  <2> QED BY <2>1, <1>t
<1>2. \A q \in Reqs : LET x == [req[q] EXCEPT !.stale = TRUE] IN
        /\ x.pc = req[q].pc /\ x.op = req[q].op /\ x.d = req[q].d /\ x.p = req[q].p
        /\ x.e = req[q].e /\ x.s = req[q].s
  BY <1>t DEF ReqRecord
<1>3. CASE MoveUpdate(r)
  <2>1. CASE req' = [req EXCEPT ![r] = NoRequest]
    BY <2>1, <1>t, <1>n
  <2>2. CASE Outdate(r)
    BY <2>2, <1>1, <1>2, <1>t, <1>n DEF Outdate
  <2> QED BY <1>3, <2>1, <2>2 DEF MoveUpdate
<1>4. CASE Save(r)
  BY <1>1, <1>2, <1>4, <1>t, <1>n DEF Save, SaveEnd
<1> QED BY <1>3, <1>4

LEMMA ShapeWrite ==
  ASSUME Shape, NEW r \in Reqs, MoveUpdate(r) \/ Save(r)
  PROVE  Shape'
<1>t. /\ req \in [Reqs -> ReqRecord] /\ refLock \in [Depts -> Reqs \cup {Nil}]
      /\ \A q \in Reqs : Refers(q)
      /\ \A d \in Depts : refLock[d] # Nil => Holding(refLock[d], d)
      /\ moved \subseteq Depts /\ saved \subseteq Emps /\ raced \in BOOLEAN
  BY DEF Shape, TypeOK, LockTypeOK
<1>n. NoRequest \in ReqRecord /\ NoRequest.pc = "idle"
  BY DEF NoRequest, ReqRecord
<1>f. dept' = dept /\ refLock' = refLock /\ Live' = Live
  BY DEF MoveUpdate, Save, deptVars, Live
<1>1. /\ req' \in [Reqs -> ReqRecord] /\ req'[r] = NoRequest
      /\ \A q \in Reqs \ {r} : /\ req'[q].pc = req[q].pc /\ req'[q].op = req[q].op
                               /\ req'[q].d = req[q].d /\ req'[q].p = req[q].p
                               /\ req'[q].e = req[q].e /\ req'[q].s = req[q].s
  BY WriteRequests
<1>p. req[r].p \in Depts \cup {Nil} /\ req[r].s \in {"absent", "active", "inactive"}
  BY <1>t DEF ReqRecord
<1>2. /\ parent' \in [Depts -> Depts \cup {Nil}] /\ moved' \subseteq Depts
      /\ raced' \in BOOLEAN
  <2>1. CASE MoveUpdate(r)
    <3>1. req[r].d \in Depts /\ req[r].stale \in BOOLEAN
      BY <2>1, <1>t DEF MoveUpdate, Refers, ReqRecord
    <3> QED BY <2>1, <3>1, <1>p, <1>t DEF MoveUpdate, Shape, TypeOK
  <2>2. CASE Save(r)
    BY <2>2, <1>t DEF Save, deptVars, Shape, TypeOK
  <2> QED BY <2>1, <2>2
<1>3. /\ status' \in [Emps -> {"absent", "active", "inactive"}]
      /\ member' \in [Emps -> Depts \cup {Nil}] /\ saved' \subseteq Emps
      /\ Present \subseteq Present'
  <2>1. CASE Save(r)
    <3>1. req[r].e \in Emps /\ req[r].s # "absent"
      BY <2>1, <1>t DEF Save, Refers, Present
    <3> QED BY <2>1, <3>1, <1>p, <1>t DEF Save, Copied, Shape, TypeOK, Present
  <2>2. CASE MoveUpdate(r)
    BY <2>2, <1>t DEF MoveUpdate, empVars, Shape, TypeOK, Present
  <2> QED BY <2>1, <2>2
<1>l. req[r].pc \in {"update", "save"}
  BY DEF MoveUpdate, Save
<1>4. LockTypeOK'
  <2>1. ASSUME NEW d \in Depts, refLock'[d] # Nil PROVE Holding(refLock[d], d)'
    <3>1. refLock[d] \in Reqs \ {r} /\ Holding(refLock[d], d)
      BY <2>1, <1>f, <1>t, <1>l DEF Holding
    <3> QED BY <3>1, <1>1, <1>f DEF Holding, LockKey
  <2> QED BY <2>1, <1>t, <1>f DEF LockTypeOK
<1>5. \A q \in Reqs : Refers(q)'
  <2>0. Refers(r)'
    BY <1>1, <1>n DEF Refers
  <2> SUFFICES ASSUME NEW q \in Reqs \ {r} PROVE Refers(q)'
    BY <2>0
  <2>1. Refers(q)
    BY <1>t
  <2> QED BY <2>1, <1>1, <1>3, <1>f DEF Refers, LockKey
<1>6. dept' \in [Depts -> {"absent", "live", "deleted"}]
  BY <1>f DEF Shape, TypeOK
<1> QED BY <1>1, <1>2, <1>3, <1>4, <1>5, <1>6 DEF Shape, TypeOK

LEMMA ShapeInit == Init => Shape
<1> SUFFICES ASSUME Init PROVE Shape
  OBVIOUS
<1>1. \A r \in Reqs : req[r] = NoRequest
  BY DEF Init
<1>2. NoRequest \in ReqRecord /\ NoRequest.pc = "idle"
  BY DEF NoRequest, ReqRecord
<1>3. TypeOK
  BY <1>2 DEF Init, TypeOK, LockTypeOK
<1>4. \A r \in Reqs : Refers(r)
  BY <1>1, <1>2 DEF Refers
<1> QED BY <1>3, <1>4 DEF Shape

LEMMA ShapeNext == Shape /\ [Next]_vars => Shape'
<1> SUFFICES ASSUME Shape, [Next]_vars PROVE Shape'
  OBVIOUS
<1>1. CASE UNCHANGED vars
  BY <1>1 DEF vars, Shape, TypeOK, LockTypeOK, Holding, LockKey, Refers, Live, Present
<1>2. CASE Next
  <2>1. PICK r \in Reqs : Begin(r) \/ Lock(r) \/ Unlocked(r) \/ MoveUpdate(r) \/ Fails(r)
    BY <1>2 DEF Next
  <2> QED BY <2>1, Cases, ShapeQuiet, ShapeCommit, ShapeWrite
<1> QED BY <1>1, <1>2

(* The state stays within its types, and an advisory lock is held only by a  *)
(* transaction open on its department.                                       *)
THEOREM TypeCorrect == Spec => []TypeOK
<1>1. Shape => TypeOK
  BY DEF Shape
<1> QED BY ShapeInit, ShapeNext, <1>1, PTL DEF Spec

-----------------------------------------------------------------------------
(***************************************************************************)
(* References made under the lock                                          *)
(***************************************************************************)

(* A deletion that is about to commit has left nobody behind who came in     *)
(* under the lock.                                                           *)
Empty(d) ==
  /\ \A c \in Live \ moved : parent[c] # d
  /\ \A e \in Emps \ saved : status[e] = "active" => member[e] # d
Emptied == \A r \in Reqs : req[r].pc = "deleted" => Empty(req[r].d)

RefInv == Emptied /\ LockedReferences

LEMMA RefQuiet ==
  ASSUME Shape, RefInv, NEW r \in Reqs, Quiet(r)
  PROVE  RefInv'
<1>f. UNCHANGED <<dept, parent, status, member, moved, saved>> /\ Live' = Live
  BY QuietFrame DEF Live
<1>1. LockedReferences'
  BY <1>f DEF RefInv, LockedReferences
<1>2. ASSUME NEW q \in Reqs, req'[q].pc = "deleted" PROVE Empty(req[q].d)'
  <2>1. CASE q # r
    <3>1. req'[q] = req[q]
      BY <2>1, QuietRequest DEF Shape, TypeOK
    <3> QED BY <3>1, <1>2, <1>f DEF RefInv, Emptied, Empty
  <2>2. CASE q = r
    <3>1. DeleteUpdate(r) /\ To(r, "deleted") /\ DeleteMatches(req[r].d)
      BY <1>2, <2>2 DEF Quiet, Begin, CreateBegin, DeleteBegin, MoveBegin, SelfRead,
         StatusRead, ProfileRead, Ask, Lock, CreateInsert, DeleteCount, DeleteUpdate,
         MoveParent, MoveCycle, ProfileDept, Fails, To, End, NoRequest, Shape, TypeOK,
         ReqRecord
    <3>2. req'[r].d = req[r].d
      BY <3>1 DEF To, Shape, TypeOK, ReqRecord
    <3> QED BY <3>1, <3>2, <2>2, <1>f DEF DeleteMatches, Occupied, Empty, Live
  <2> QED BY <2>1, <2>2
<1> QED BY <1>1, <1>2 DEF RefInv, Emptied

(* A transaction that makes a reference to p excludes the deletion of p.    *)
LEMMA Excluded ==
  ASSUME Shape, NEW r \in Reqs, NEW q \in Reqs,
         req[r].pc = "inserted", req[q].pc = "deleted"
  PROVE  req[r].p # req[q].d
<1>1. Refers(r) /\ Refers(q) /\ Live \subseteq Depts
  BY DEF Shape, Live
<1>2. q # r
  OBVIOUS
<1> QED BY <1>1, <1>2 DEF Refers

LEMMA RefCommit ==
  ASSUME Shape, RefInv, NEW r \in Reqs, CreateCommit(r) \/ HireCommit(r) \/ DeleteCommit(r)
  PROVE  RefInv'
<1>t. /\ req \in [Reqs -> ReqRecord] /\ Refers(r) /\ Emptied /\ LockedReferences
      /\ dept \in [Depts -> {"absent", "live", "deleted"}]
      /\ parent \in [Depts -> Depts \cup {Nil}]
      /\ status \in [Emps -> {"absent", "active", "inactive"}]
      /\ member \in [Emps -> Depts \cup {Nil}]
  BY DEF Shape, TypeOK, RefInv
<1>1. /\ \A q \in Reqs : req'[q].pc = "deleted" => q # r /\ req'[q] = req[q]
      /\ moved' = moved /\ saved' = saved
  BY <1>t DEF CreateCommit, HireCommit, DeleteCommit, End, NoRequest, history
<1>2. CASE CreateCommit(r)
  <2>1. PICK d \in Depts : /\ dept[d] = "absent" /\ dept' = [dept EXCEPT ![d] = "live"]
                           /\ parent' = [parent EXCEPT ![d] = req[r].p]
    BY <1>2 DEF CreateCommit
  <2>2. Live' = Live \cup {d} /\ d \notin Live /\ UNCHANGED <<status, member>>
    BY <2>1, <1>2, <1>t DEF Live, CreateCommit, empVars
  <2>3. req[r].p # Nil => req[r].p \in Live
    BY <1>2, <1>t DEF CreateCommit, Refers
  <2>4. LockedReferences'
    BY <2>1, <2>2, <2>3, <1>1, <1>t DEF LockedReferences, Live
  <2>5. ASSUME NEW q \in Reqs, req'[q].pc = "deleted" PROVE Empty(req[q].d)'
    <3>1. req'[q] = req[q] /\ Empty(req[q].d) /\ req[r].p # req[q].d
      BY <2>5, <1>1, <1>2, <1>t, Excluded DEF Emptied, CreateCommit
    <3> QED BY <3>1, <2>1, <2>2, <1>1, <1>t DEF Empty, Live
  <2> QED BY <2>4, <2>5 DEF RefInv, Emptied
<1>3. CASE HireCommit(r)
  <2>1. PICK e \in Emps : /\ status[e] = "absent" /\ status' = [status EXCEPT ![e] = "active"]
                          /\ member' = [member EXCEPT ![e] = req[r].p]
    BY <1>3 DEF HireCommit
  <2>2. UNCHANGED <<dept, parent>> /\ Live' = Live
    BY <1>3 DEF HireCommit, deptVars, Live
  <2>3. req[r].p # Nil => req[r].p \in Live
    BY <1>3, <1>t DEF HireCommit, Refers
  <2>4. LockedReferences'
    BY <2>1, <2>2, <2>3, <1>1, <1>t DEF LockedReferences
  <2>5. ASSUME NEW q \in Reqs, req'[q].pc = "deleted" PROVE Empty(req[q].d)'
    <3>1. req'[q] = req[q] /\ Empty(req[q].d) /\ req[r].p # req[q].d
      BY <2>5, <1>1, <1>3, <1>t, Excluded DEF Emptied, HireCommit
    <3> QED BY <3>1, <2>1, <2>2, <1>1, <1>t DEF Empty
  <2> QED BY <2>4, <2>5 DEF RefInv, Emptied
<1>4. CASE DeleteCommit(r)
  <2>1. Empty(req[r].d) /\ req[r].d \in Depts
    BY <1>4, <1>t DEF DeleteCommit, Emptied, Refers, Live
  <2>2. Live' = Live \ {req[r].d} /\ UNCHANGED <<parent, status, member>>
    BY <2>1, <1>4, <1>t DEF Live, DeleteCommit, empVars
  <2>3. LockedReferences'
    BY <2>1, <2>2, <1>1, <1>t DEF LockedReferences, Empty
  <2>4. ASSUME NEW q \in Reqs, req'[q].pc = "deleted" PROVE Empty(req[q].d)'
    BY <2>4, <2>2, <1>1, <1>t DEF Empty, Emptied
  <2> QED BY <2>3, <2>4 DEF RefInv, Emptied
<1> QED BY <1>2, <1>3, <1>4

LEMMA RefWrite ==
  ASSUME Shape, RefInv, NEW r \in Reqs, MoveUpdate(r) \/ Save(r)
  PROVE  RefInv'
<1>t. /\ req \in [Reqs -> ReqRecord] /\ Refers(r) /\ Emptied /\ LockedReferences
      /\ parent \in [Depts -> Depts \cup {Nil}]
      /\ status \in [Emps -> {"absent", "active", "inactive"}]
      /\ member \in [Emps -> Depts \cup {Nil}]
  BY DEF Shape, TypeOK, RefInv
<1>1. \A q \in Reqs : req'[q].pc = "deleted" => req[q].pc = "deleted" /\ req'[q].d = req[q].d
  BY WriteRequests DEF NoRequest
<1>2. dept' = dept /\ Live' = Live
  BY DEF MoveUpdate, Save, deptVars, Live
<1>3. CASE MoveUpdate(r)
  <2>1. UNCHANGED <<status, member, saved>> /\ moved \subseteq moved'
    BY <1>3 DEF MoveUpdate, empVars
  <2>2. \A c \in Live \ moved' : parent'[c] = parent[c]
    BY <1>3, <1>t DEF MoveUpdate, Live
  <2> QED BY <1>1, <1>2, <1>t, <2>1, <2>2 DEF RefInv, Emptied, Empty, LockedReferences
<1>4. CASE Save(r)
  <2>1. UNCHANGED <<parent, moved>> /\ saved' = saved \cup {req[r].e}
    BY <1>4 DEF Save, deptVars
  <2>2. \A e \in Emps \ saved' : status'[e] = status[e] /\ member'[e] = member[e]
    BY <1>4, <1>t, <2>1 DEF Save
  <2> QED BY <1>1, <1>2, <1>t, <2>1, <2>2 DEF RefInv, Emptied, Empty, LockedReferences
<1> QED BY <1>3, <1>4

LEMMA RefNext == Shape /\ RefInv /\ [Next]_vars => RefInv'
<1> SUFFICES ASSUME Shape, RefInv, [Next]_vars PROVE RefInv'
  OBVIOUS
<1>1. CASE UNCHANGED vars
  BY <1>1 DEF vars, RefInv, Emptied, Empty, LockedReferences, Live
<1>2. CASE Next
  <2>1. PICK r \in Reqs : Begin(r) \/ Lock(r) \/ Unlocked(r) \/ MoveUpdate(r) \/ Fails(r)
    BY <1>2 DEF Next
  <2> QED BY <2>1, Cases, RefQuiet, RefCommit, RefWrite
<1> QED BY <1>1, <1>2

(* However creations and deletions interleave, no department and no active   *)
(* employee that is still where its creation put it is in a deleted          *)
(* department.                                                               *)
THEOREM ReferencesLocked == Spec => []LockedReferences
<1>1. Init => RefInv
  BY DEF Init, RefInv, Emptied, LockedReferences, NoRequest, Live
<1>2. RefInv => LockedReferences
  BY DEF RefInv
<1> QED BY <1>1, <1>2, ShapeInit, ShapeNext, RefNext, PTL DEF Spec

-----------------------------------------------------------------------------
(***************************************************************************)
(* Data scopes.  While no live department is below a deleted one, the walk *)
(* through all departments finds the live ones the other walk finds: the   *)
(* deleted ones can be added to any closed set of live ones.               *)
(***************************************************************************)
Rooted == \A c \in Live : parent[c] \in Live \cup {Nil}

LEMMA SeenIsBelow ==
  ASSUME Rooted, NEW d \in Live
  PROVE  SeenBelow(d) \cap Live = Descendants(d)
<1>0. Live \subseteq Active /\ Live \subseteq Depts /\ d # Nil
  BY DEF Live, Active
<1>1. ASSUME NEW x \in Descendants(d) PROVE x \in SeenBelow(d)
  <2>1. x \in Live /\ \A S \in SUBSET Live : ClosedBelow(S, d) => x \in S
    BY <1>1 DEF Descendants
  <2>2. ASSUME NEW S \in SUBSET Active, \A c \in Active : parent[c] \in S \cup {d} => c \in S
        PROVE  x \in S
    <3>1. ClosedBelow(S \cap Live, d)
      BY <1>0, <2>2 DEF ClosedBelow
    <3> QED BY <2>1, <3>1
  <2> QED BY <1>0, <2>1, <2>2 DEF SeenBelow
<1>2. ASSUME NEW x \in SeenBelow(d) \cap Live PROVE x \in Descendants(d)
  <2>1. \A S \in SUBSET Active : (\A c \in Active : parent[c] \in S \cup {d} => c \in S) => x \in S
    BY <1>2 DEF SeenBelow
  <2>2. ASSUME NEW S \in SUBSET Live, ClosedBelow(S, d) PROVE x \in S
    <3> DEFINE T == S \cup (Active \ Live)
    <3>1. ASSUME NEW c \in Active, parent[c] \in T \cup {d} PROVE c \in T
      <4>1. CASE c \in Live
        <5>1. parent[c] \in Live \cup {Nil} /\ Nil \notin Active
          BY <4>1 DEF Rooted, Active
        <5>2. parent[c] \in S \cup {d}
          BY <1>0, <3>1, <5>1
        <5> QED BY <2>2, <4>1, <5>2 DEF ClosedBelow
      <4> QED BY <4>1
    <3>2. x \in T
      BY <1>0, <2>1, <3>1
    <3> QED BY <1>2, <3>2
  <2> QED BY <1>2, <2>2 DEF Descendants
<1>3. Descendants(d) \subseteq Live
  BY DEF Descendants
<1> QED BY <1>1, <1>2, <1>3

-----------------------------------------------------------------------------
(***************************************************************************)
(* The tree                                                                *)
(***************************************************************************)
LEMMA DescendantsClosed ==
  ASSUME NEW d, NEW c \in Live, parent[c] \in Descendants(d) \cup {d}
  PROVE  c \in Descendants(d)
BY DEF Descendants, ClosedBelow

(* In a tree nothing is its own descendant, so the query of the check ends. *)
LEMMA NoSelfDescent ==
  ASSUME Acyclic, NEW d \in Depts
  PROVE  d \notin Descendants(d)
<1> SUFFICES ASSUME d \in Descendants(d) PROVE FALSE
  OBVIOUS
<1> DEFINE D == Descendants(d)
<1>1. D \in SUBSET Live /\ d \in D
  BY DEF Descendants
<1>2. PICK x \in D : parent[x] \notin D
  BY <1>1 DEF Acyclic
<1>3. D \ {x} \in SUBSET Live
  BY <1>1
<1>4. ClosedBelow(D \ {x}, d)
  <2> SUFFICES ASSUME NEW c \in Live, parent[c] \in (D \ {x}) \cup {d} PROVE c \in D \ {x}
    BY DEF ClosedBelow
  <2>1. parent[c] \in D
    BY <1>1
  <2>2. c \in D
    BY <2>1, DescendantsClosed
  <2> QED BY <2>1, <2>2, <1>2
<1>5. x \in D \ {x}
  BY <1>2, <1>3, <1>4 DEF Descendants
<1> QED BY <1>5

(* A set that holds d and whatever is below it, and not p.                   *)
Below(T, d, p) ==
  d \in T /\ p \notin T /\ \A c \in Live : parent[c] \in T => c \in T
Apart(d, p) == \E T \in SUBSET Depts : Below(T, d, p)

(* What the check of a move found still holds when no other move outdated it. *)
Known == \A d \in Depts : parent[d] # Nil => dept[parent[d]] # "absent"
Checked == \A r \in Reqs :
  Moves(r) /\ req[r].p # Nil /\ ~req[r].stale => Apart(req[r].d, req[r].p)
TreeInv == Known /\ Checked /\ TreeWithoutRaces

LEMMA TreeQuiet ==
  ASSUME Shape, TreeInv, NEW r \in Reqs, Quiet(r)
  PROVE  TreeInv'
<1>t. /\ req \in [Reqs -> ReqRecord] /\ Refers(r)
      /\ Known /\ Checked /\ TreeWithoutRaces
  BY DEF Shape, TypeOK, TreeInv
<1>f. UNCHANGED <<dept, parent, raced>> /\ Live' = Live
  BY QuietFrame DEF Live
<1>1. \A q \in Reqs \ {r} : req'[q] = req[q]
  BY <1>t, QuietRequest
<1>2. Known'
  BY <1>f, <1>t DEF Known
<1>3. ASSUME NEW q \in Reqs, Moves(q)', req'[q].p # Nil, ~req'[q].stale
      PROVE  Apart(req[q].d, req[q].p)'
  <2>1. CASE q # r
    BY <2>1, <1>1, <1>3, <1>t, <1>f DEF Moves, Checked, Apart, Below
  <2>2. CASE q = r
    <3>1. \/ MoveCycle(r) /\ To(r, "update")
          \/ req[r].pc = "idle" /\ MoveBegin(r)
      <4>0. req'[r].pc = "update" /\ req'[r].op = "move"
        BY <1>3, <2>2 DEF Moves
      <4>1. CASE Begin(r)
        <5>1. MoveBegin(r)
          BY <4>0, <4>1, <1>t DEF Begin, CreateBegin, DeleteBegin, SelfRead, StatusRead,
                                  ProfileRead, Ask
        <5> QED BY <5>1 DEF MoveBegin, Ask
      <4>2. CASE MoveCycle(r)
        <5>1. (To(r, "hung") => req'[r].pc = "hung") /\ (End(r) => req'[r].pc = "idle")
          BY <1>t DEF To, End, NoRequest, ReqRecord
        <5>2. To(r, "update")
          BY <4>0, <4>2, <5>1 DEF MoveCycle
        <5> QED BY <4>2, <5>2
      <4> QED
        BY <4>0, <4>1, <4>2, <1>t DEF Quiet, Lock, CreateInsert, DeleteCount, DeleteUpdate,
           MoveParent, ProfileDept, Fails, To, End, NoRequest, ReqRecord
    <3>2. CASE MoveCycle(r) /\ To(r, "update")
      <4> DEFINE d == req[r].d  p == req[r].p  T == Descendants(d) \cup {d}
      <4>0. req'[r].pc = "update" /\ req'[r].d = d /\ req'[r].p = p
        BY <3>2, <1>t DEF To, ReqRecord
      <4>1. p \notin Descendants(d) /\ p # d /\ d \in Depts
        <5>1. req[r].pc = "cycle"
          BY <3>2 DEF MoveCycle
        <5>2. p \notin Descendants(d)
          BY <3>2, <4>0, <1>t, <5>1 DEF MoveCycle, To, End, NoCycleBelow, NoRequest, ReqRecord
        <5> QED BY <5>1, <5>2, <1>t DEF Refers
      <4>2. T \in SUBSET Depts
        BY <4>1 DEF Descendants, Live
      <4>3. \A c \in Live : parent[c] \in T => c \in T
        BY DescendantsClosed
      <4>4. Below(T, d, p)
        BY <4>1, <4>3 DEF Below
      <4>5. Apart(d, p)
        BY <4>2, <4>4 DEF Apart
      <4> QED BY <2>2, <4>0, <4>5, <1>f DEF Apart, Below
    <3>3. CASE req[r].pc = "idle" /\ MoveBegin(r)
      BY <3>3, <2>2, <1>3, <1>t DEF MoveBegin, Ask, Moves, ReqRecord
    <3> QED BY <3>1, <3>2, <3>3
  <2> QED BY <2>1, <2>2
<1>4. TreeWithoutRaces'
  <2> SUFFICES ASSUME ~raced PROVE Acyclic' /\ \A q \in Reqs : req'[q].pc # "hung"
    BY <1>f DEF TreeWithoutRaces
  <2>1. Acyclic /\ Acyclic'
    BY <1>t, <1>f DEF TreeWithoutRaces, Acyclic
  <2>2. \A q \in Reqs \ {r} : req'[q].pc # "hung"
    BY <1>1, <1>t DEF TreeWithoutRaces
  <2>3. req'[r].pc # "hung"
    <3> SUFFICES ASSUME req'[r].pc = "hung" PROVE FALSE
      OBVIOUS
    <3>1. MoveCycle(r)
      BY <1>t DEF Quiet, Begin, CreateBegin, DeleteBegin, SelfRead, StatusRead,
         ProfileRead, Ask, Lock, CreateInsert, DeleteCount, DeleteUpdate, MoveParent,
         ProfileDept, Fails, To, End, NoRequest, ReqRecord, MoveBegin
    <3>2. req[r].d \in Depts
      BY <3>1, <1>t DEF MoveCycle, Refers
    <3>3. req[r].d \notin Descendants(req[r].d)
      BY <2>1, <3>2, NoSelfDescent
    <3> QED BY <3>1, <3>3, <1>t DEF MoveCycle, To, End, NoRequest, ReqRecord
  <2> QED BY <2>1, <2>2, <2>3
<1> QED BY <1>2, <1>3, <1>4 DEF TreeInv, Checked

LEMMA TreeCommit ==
  ASSUME Shape, TreeInv, NEW r \in Reqs, CreateCommit(r) \/ HireCommit(r) \/ DeleteCommit(r)
  PROVE  TreeInv'
<1>t. /\ req \in [Reqs -> ReqRecord] /\ Known /\ Checked /\ TreeWithoutRaces
      /\ \A q \in Reqs : Refers(q)
      /\ dept \in [Depts -> {"absent", "live", "deleted"}]
      /\ parent \in [Depts -> Depts \cup {Nil}]
  BY DEF Shape, TypeOK, TreeInv
<1>1. /\ \A q \in Reqs : q # r => req'[q] = req[q]
      /\ req'[r].pc = "idle" /\ raced' = raced
  BY <1>t DEF CreateCommit, HireCommit, DeleteCommit, End, NoRequest, history
<1>2. CASE CreateCommit(r)
  <2>1. PICK n \in Depts : /\ dept[n] = "absent" /\ dept' = [dept EXCEPT ![n] = "live"]
                           /\ parent' = [parent EXCEPT ![n] = req[r].p]
    BY <1>2 DEF CreateCommit
  <2>2. Live' = Live \cup {n} /\ n \notin Live
    BY <2>1, <1>t DEF Live
  <2>3. req[r].p # Nil => req[r].p \in Live
    BY <1>2, <1>t DEF CreateCommit, Refers
  <2>4. Known'
    BY <2>1, <2>3, <1>t DEF Known, Live
  <2>5. \A c \in Depts : parent[c] # n
    BY <2>1, <1>t DEF Known
  <2>6. ASSUME NEW q \in Reqs, Moves(q)', req'[q].p # Nil, ~req'[q].stale
        PROVE  Apart(req[q].d, req[q].p)'
    <3>1. q # r /\ req'[q] = req[q] /\ dept[req[q].p] # "absent"
      BY <2>6, <1>1, <1>t DEF Moves, Refers
    <3>2. PICK T \in SUBSET Depts : Below(T, req[q].d, req[q].p)
      BY <2>6, <3>1, <1>t DEF Moves, Checked, Apart
    <3>3. n # req[q].p
      BY <2>1, <3>1
    <3> DEFINE U == T \cup {n}
    <3>4. Below(U, req[q].d, req[q].p)'
      BY <3>1, <3>2, <3>3, <2>1, <2>2, <2>5, <1>t DEF Below, Live
    <3> QED BY <3>4, <2>1 DEF Apart
  <2>7. Acyclic => Acyclic'
    <3> SUFFICES ASSUME Acyclic, NEW S \in SUBSET Live', S # {},
                        \A d \in S : parent'[d] \in S
                 PROVE  FALSE
      BY DEF Acyclic
    <3>1. S \ {n} \in SUBSET Live
      BY <2>2
    <3>2. \A d \in S \ {n} : parent[d] \in S \ {n}
      BY <2>1, <2>5, <1>t, <3>1 DEF Live
    <3>3. S \ {n} # {}
      BY <2>1, <2>2, <2>3, <1>t
    <3> QED BY <3>1, <3>2, <3>3 DEF Acyclic
  <2> QED BY <2>4, <2>6, <2>7, <1>1, <1>t DEF TreeInv, Checked, TreeWithoutRaces
<1>3. CASE HireCommit(r)
  <2>1. UNCHANGED <<dept, parent>> /\ Live' = Live
    BY <1>3 DEF HireCommit, deptVars, Live
  <2>2. ASSUME NEW q \in Reqs, Moves(q)', req'[q].p # Nil, ~req'[q].stale
        PROVE  Apart(req[q].d, req[q].p)'
    BY <2>1, <2>2, <1>1, <1>t DEF Moves, Checked, Apart, Below
  <2> QED BY <2>1, <2>2, <1>1, <1>t DEF TreeInv, Known, Checked, TreeWithoutRaces, Acyclic
<1>4. CASE DeleteCommit(r)
  <2>1. /\ parent' = parent /\ Live' \subseteq Live
        /\ \A d \in Depts : dept[d] # "absent" => dept'[d] # "absent"
    BY <1>4, <1>t DEF DeleteCommit, Live
  <2>2. ASSUME NEW q \in Reqs, Moves(q)', req'[q].p # Nil, ~req'[q].stale
        PROVE  Apart(req[q].d, req[q].p)'
    BY <2>1, <2>2, <1>1, <1>t DEF Moves, Checked, Apart, Below
  <2>3. Known' /\ (Acyclic => Acyclic')
    BY <2>1, <1>t DEF Known, Acyclic
  <2> QED BY <2>2, <2>3, <1>1, <1>t DEF TreeInv, Checked, TreeWithoutRaces
<1> QED BY <1>2, <1>3, <1>4

(* The move itself: if the target is outside a set that holds the moved      *)
(* department and all below it, no cycle closes.                             *)
LEMMA MoveKeepsTree ==
  ASSUME Shape, Acyclic, NEW d \in Live, NEW p, Apart(d, p),
         Live' = Live, parent' = [parent EXCEPT ![d] = p]
  PROVE  Acyclic'
<1> SUFFICES ASSUME NEW S \in SUBSET Live, S # {}, \A x \in S : parent'[x] \in S
             PROVE  FALSE
  BY DEF Acyclic
<1>t. parent \in [Depts -> Depts \cup {Nil}] /\ Live \subseteq Depts
  BY DEF Shape, TypeOK, Live
<1>1. PICK T \in SUBSET Depts : Below(T, d, p)
  BY DEF Apart
<1>2. \A x \in S \ T : parent[x] \in S \ T
  BY <1>1, <1>t DEF Below
<1>3. S \ T # {}
  <2>1. CASE d \in S
    BY <2>1, <1>1, <1>t DEF Below
  <2>2. CASE d \notin S
    BY <2>2, <1>t DEF Acyclic
  <2> QED BY <2>1, <2>2
<1> QED BY <1>2, <1>3 DEF Acyclic

LEMMA TreeWrite ==
  ASSUME Shape, TreeInv, NEW r \in Reqs, MoveUpdate(r) \/ Save(r)
  PROVE  TreeInv'
<1>t. /\ req \in [Reqs -> ReqRecord] /\ Known /\ Checked /\ TreeWithoutRaces
      /\ Refers(r) /\ parent \in [Depts -> Depts \cup {Nil}] /\ Live \subseteq Depts
  BY DEF Shape, TypeOK, TreeInv, Live
<1>f. dept' = dept /\ Live' = Live
  BY DEF MoveUpdate, Save, deptVars, Live
<1>r. /\ req'[r].pc = "idle"
      /\ \A q \in Reqs \ {r} : /\ req'[q].pc = req[q].pc /\ req'[q].op = req[q].op
                               /\ req'[q].d = req[q].d /\ req'[q].p = req[q].p
  BY WriteRequests DEF NoRequest
<1>s. \A q \in Reqs \ {r} : ~req'[q].stale => ~req[q].stale
  <2>1. \A q \in Reqs : [req[q] EXCEPT !.stale = TRUE].stale = TRUE
    BY <1>t DEF ReqRecord
  <2> QED BY <2>1, <1>t DEF MoveUpdate, Outdate, Save, SaveEnd
<1>h. (\A q \in Reqs : req[q].pc # "hung") => \A q \in Reqs : req'[q].pc # "hung"
  BY <1>r
<1>1. CASE parent' = parent /\ raced' = raced
  <2>1. ASSUME NEW q \in Reqs, Moves(q)', req'[q].p # Nil, ~req'[q].stale
        PROVE  Apart(req[q].d, req[q].p)'
    BY <2>1, <1>1, <1>r, <1>s, <1>f, <1>t DEF Moves, Checked, Apart, Below
  <2> QED BY <2>1, <1>1, <1>h, <1>f, <1>t DEF TreeInv, Known, Checked, TreeWithoutRaces,
                                               Acyclic
<1>2. CASE MoveUpdate(r) /\ req[r].d \in Live
  <2> DEFINE d == req[r].d  p == req[r].p
  <2>1. parent' = [parent EXCEPT ![d] = p] /\ d \in Depts /\ Moves(r)
    BY <1>2, <1>t DEF MoveUpdate, Refers, Moves
  <2>2. Known'
    BY <2>1, <1>f, <1>t DEF Known, Moves, Refers
  <2>3. CASE p = Nil
    <3>1. raced' = raced
      BY <2>3, <1>2 DEF MoveUpdate
    <3>2. ASSUME NEW q \in Reqs, Moves(q)', req'[q].p # Nil, ~req'[q].stale
          PROVE  Apart(req[q].d, req[q].p)'
      <4>1. PICK T \in SUBSET Depts : Below(T, req[q].d, req[q].p)
        BY <3>2, <1>r, <1>s, <1>t DEF Moves, Checked, Apart
      <4>2. q # r /\ Below(T, req[q].d, req[q].p)'
        BY <4>1, <3>2, <2>1, <2>3, <1>r, <1>f, <1>t DEF Below, Moves
      <4> QED BY <4>2 DEF Apart
    <3>3. Acyclic => Acyclic'
      <4> SUFFICES ASSUME Acyclic, NEW S \in SUBSET Live, S # {},
                          \A x \in S : parent'[x] \in S
                   PROVE  FALSE
        BY <1>f DEF Acyclic
      <4>1. \A x \in S : parent[x] \in S
        BY <2>1, <2>3, <1>t
      <4> QED BY <4>1 DEF Acyclic
    <3> QED BY <2>2, <3>1, <3>2, <3>3, <1>h, <1>t DEF TreeInv, Checked, TreeWithoutRaces
  <2>4. CASE p # Nil
    <3>1. Outdate(r) /\ raced' = (raced \/ req[r].stale)
      BY <2>4, <1>2 DEF MoveUpdate
    <3>2. \A q \in Reqs \ {r} : Moves(q)' => req'[q].stale
      <4>1. \A q \in Reqs : [req[q] EXCEPT !.stale = TRUE].stale = TRUE
        BY <1>t DEF ReqRecord
      <4> QED BY <4>1, <3>1, <1>r DEF Outdate, Moves
    <3>3. Checked'
      BY <3>2, <1>r DEF Checked, Moves
    <3>4. ~raced' => Acyclic /\ Apart(d, p)
      BY <3>1, <2>1, <2>4, <1>t DEF Checked, TreeWithoutRaces
    <3>5. ~raced' => Acyclic'
      BY <3>4, <2>1, <1>2, <1>f, MoveKeepsTree
    <3> QED BY <2>2, <3>1, <3>3, <3>5, <1>h, <1>t DEF TreeInv, TreeWithoutRaces
  <2> QED BY <2>3, <2>4
<1> QED BY <1>1, <1>2 DEF MoveUpdate, Save, deptVars

LEMMA TreeNext == Shape /\ TreeInv /\ [Next]_vars => TreeInv'
<1> SUFFICES ASSUME Shape, TreeInv, [Next]_vars PROVE TreeInv'
  OBVIOUS
<1>1. CASE UNCHANGED vars
  BY <1>1 DEF vars, TreeInv, Known, Checked, Apart, Below, Moves, TreeWithoutRaces, Acyclic,
              Live
<1>2. CASE Next
  <2>1. PICK r \in Reqs : Begin(r) \/ Lock(r) \/ Unlocked(r) \/ MoveUpdate(r) \/ Fails(r)
    BY <1>2 DEF Next
  <2> QED BY <2>1, Cases, TreeQuiet, TreeCommit, TreeWrite
<1> QED BY <1>1, <1>2

(* As long as no move commits on an outdated check, the departments form a   *)
(* tree and no descendants query runs forever.                               *)
THEOREM TreeUnraced == Spec => []TreeWithoutRaces
<1>1. Init => TreeInv
  BY DEF Init, TreeInv, Known, Checked, Moves, TreeWithoutRaces, Acyclic, NoRequest, Live
<1>2. TreeInv => TreeWithoutRaces
  BY DEF TreeInv
<1> QED BY <1>1, <1>2, ShapeInit, ShapeNext, TreeNext, PTL DEF Spec

(***************************************************************************)
(* What a scope shows, once the tree is one and the query has ended.       *)
(***************************************************************************)
LEMMA ScopeStep == LockedReferences /\ TreeWithoutRaces /\ Shape => ScopeFollowsTree
<1> SUFFICES ASSUME LockedReferences, TreeWithoutRaces, Shape,
                    \A c \in Live \cap moved : parent[c] \in Live \cup {Nil},
                    NEW kinds \in SUBSET Kinds, NEW d \in Live \cup {Nil}
             PROVE  /\ ~raced => ScopeReturns(kinds, d)
                    /\ MatchesScope(kinds, d, TRUE, d)
                    /\ \A x \in Live \cup {Nil} : MatchesScope(kinds, d, FALSE, x)
                                                  <=> \E kind \in kinds : Grants(kind, d, x)
  BY DEF ScopeFollowsTree
<1>1. Rooted
  BY DEF LockedReferences, Rooted
<1>2. Nil \notin Live /\ Live \subseteq Depts
  BY DEF Live
<1>3. ASSUME ~raced PROVE ScopeReturns(kinds, d)
  <2>1. CASE d = Nil
    BY <2>1 DEF ScopeReturns, Effective, Widest
  <2>2. CASE d # Nil
    <3>1. d \notin Descendants(d)
      BY <1>2, <1>3, <2>2, NoSelfDescent DEF TreeWithoutRaces
    <3> QED BY <1>1, <2>2, <3>1, SeenIsBelow DEF ScopeReturns
  <2> QED BY <2>1, <2>2
<1>4. MatchesScope(kinds, d, TRUE, d)
  BY DEF MatchesScope, Effective, Widest, ScopeDepts
<1>5. Nil \notin Descendants(d)
  BY <1>2 DEF Descendants
<1>6. ASSUME NEW x \in Live \cup {Nil}
      PROVE  MatchesScope(kinds, d, FALSE, x) <=> \E kind \in kinds : Grants(kind, d, x)
  <2>1. CASE d = Nil
    BY <2>1 DEF MatchesScope, Effective, Widest, Grants
  <2>2. CASE d # Nil /\ x = Nil
    BY <1>5, <2>2 DEF MatchesScope, Effective, Widest, Grants
  <2>3. CASE d # Nil /\ x # Nil
    <3>1. x \in SeenBelow(d) <=> x \in Descendants(d)
      BY <1>1, <2>3, SeenIsBelow
    <3> QED BY <2>3, <3>1 DEF MatchesScope, Effective, Widest, ScopeDepts, Grants
  <2> QED BY <2>1, <2>2, <2>3
<1> QED BY <1>3, <1>4, <1>6

(***************************************************************************)
(* As long as no move commits on an outdated check the query behind every  *)
(* scope ends; and where it ends a person sees what any of their kinds     *)
(* grants, and themselves, whatever requests have done to the tree, unless *)
(* a move has put a department below a deleted one (PlatformScopeService). *)
(***************************************************************************)
THEOREM ScopesFollowTree == Spec => []ScopeFollowsTree
<1>1. Init => RefInv
  BY DEF Init, RefInv, Emptied, LockedReferences, NoRequest, Live
<1>2. RefInv => LockedReferences
  BY DEF RefInv
<1> QED
  BY <1>1, <1>2, ScopeStep, TreeUnraced, ShapeInit, ShapeNext, RefNext, PTL DEF Spec

-----------------------------------------------------------------------------
(***************************************************************************)
(* Saves                                                                   *)
(***************************************************************************)

(* A copy that no other save has outdated agrees with the row, except in the *)
(* field the request is about.                                               *)
FreshInv ==
  \A r \in Reqs : req[r].pc \in {"dept", "save"} /\ ~req[r].stale =>
    /\ req[r].op # "status" => req[r].s = status[req[r].e]
    /\ req[r].op # "profile" => req[r].p = member[req[r].e]

LEMMA FreshNext == Shape /\ FreshInv /\ [Next]_vars => FreshInv'
<1> SUFFICES ASSUME Shape, FreshInv, [Next]_vars PROVE FreshInv'
  OBVIOUS
<1>1. CASE UNCHANGED vars
  BY <1>1 DEF vars, FreshInv
<1>2. CASE Next
  <2>1. PICK r \in Reqs : Begin(r) \/ Lock(r) \/ Unlocked(r) \/ MoveUpdate(r) \/ Fails(r)
    BY <1>2 DEF Next
  <2>t. /\ req \in [Reqs -> ReqRecord] /\ \A q \in Reqs : Refers(q)
        /\ status \in [Emps -> {"absent", "active", "inactive"}]
        /\ member \in [Emps -> Depts \cup {Nil}]
    BY DEF Shape, TypeOK
  <2>2. CASE Quiet(r)
    <3>1. UNCHANGED <<status, member>> /\ \A q \in Reqs \ {r} : req'[q] = req[q]
      BY <2>2, <2>t, QuietFrame, QuietRequest
    <3>2. ASSUME req'[r].pc \in {"dept", "save"}, ~req'[r].stale
          PROVE  /\ req'[r].op # "status" => req'[r].s = status[req'[r].e]
                 /\ req'[r].op # "profile" => req'[r].p = member[req'[r].e]
      <4>1. CASE Begin(r)
        BY <3>2, <4>1, <2>t DEF Begin, CreateBegin, DeleteBegin, MoveBegin, SelfRead,
                                StatusRead, ProfileRead, Ask
      <4>2. CASE ProfileDept(r)
        <5>1. To(r, "save") => /\ req'[r].op = req[r].op /\ req'[r].s = req[r].s
                               /\ req'[r].p = req[r].p /\ req'[r].e = req[r].e
                               /\ req'[r].stale = req[r].stale
          BY <2>t DEF To, ReqRecord
        <5>2. End(r) => req'[r].pc = "idle"
          BY <2>t DEF End, NoRequest
        <5> QED BY <3>2, <4>2, <5>1, <5>2 DEF ProfileDept, FreshInv
      <4> QED
        BY <2>2, <3>2, <4>1, <4>2, <2>t DEF Quiet, Lock, CreateInsert, DeleteCount,
           DeleteUpdate, MoveParent, MoveCycle, Fails, To, End, NoRequest, ReqRecord
    <3> QED BY <3>1, <3>2 DEF FreshInv
  <2>3. CASE CreateCommit(r) \/ DeleteCommit(r) \/ HireCommit(r)
    <3>1. req'[r].pc = "idle" /\ \A q \in Reqs \ {r} : req'[q] = req[q]
      BY <2>3, <2>t DEF CreateCommit, DeleteCommit, HireCommit, End, NoRequest
    <3>2. \A e \in Present : status'[e] = status[e] /\ member'[e] = member[e]
      BY <2>3, <2>t DEF CreateCommit, DeleteCommit, HireCommit, Present, empVars
    <3> QED BY <3>1, <3>2, <2>t DEF FreshInv, Refers
  <2>4. CASE MoveUpdate(r) \/ Save(r)
    <3>r. /\ req'[r].pc = "idle"
          /\ \A q \in Reqs \ {r} : /\ req'[q].pc = req[q].pc /\ req'[q].op = req[q].op
                                   /\ req'[q].p = req[q].p
                                   /\ req'[q].e = req[q].e /\ req'[q].s = req[q].s
      BY <2>4, WriteRequests DEF NoRequest
    <3>s. \A q \in Reqs : [req[q] EXCEPT !.stale = TRUE].stale = TRUE
      BY <2>t DEF ReqRecord
    <3>1. CASE MoveUpdate(r)
      <4>1. UNCHANGED <<status, member>>
        BY <3>1 DEF MoveUpdate, empVars
      <4>2. \A q \in Reqs \ {r} : ~req'[q].stale => ~req[q].stale
        BY <3>1, <3>s, <2>t DEF MoveUpdate, Outdate
      <4> QED BY <4>1, <4>2, <3>r DEF FreshInv
    <3>2. CASE Save(r)
      <4>1. \A q \in Reqs \ {r} : ~req'[q].stale => ~req[q].stale /\ req[q].e # req[r].e
        BY <3>2, <3>s, <2>t DEF Save, SaveEnd, Holds
      <4>2. \A e \in Emps \ {req[r].e} : status'[e] = status[e] /\ member'[e] = member[e]
        BY <3>2, <2>t DEF Save
      <4>3. \A q \in Reqs : req[q].pc \in {"dept", "save"} => req[q].e \in Emps
        BY <2>t DEF Refers, Present
      <4> QED BY <4>1, <4>2, <4>3, <3>r DEF FreshInv
    <3> QED BY <2>4, <3>1, <3>2
  <2> QED BY <2>1, <2>2, <2>3, <2>4, Cases
<1> QED BY <1>1, <1>2

(* A save ends only through Save itself, or by failing.                     *)
LEMMA SaveStep ==
  ASSUME Shape, Next, NEW r \in Reqs, Saves(r)
  PROVE  Save(r) \/ (Fails(r) /\ UNCHANGED <<status, member>>)
<1>1. PICK q \in Reqs : Begin(q) \/ Lock(q) \/ Unlocked(q) \/ MoveUpdate(q) \/ Fails(q)
  BY DEF Next
<1>t. req \in [Reqs -> ReqRecord] /\ Refers(q)
  BY DEF Shape, TypeOK
<1>2. q = r
  <2> SUFFICES ASSUME q # r PROVE FALSE
    OBVIOUS
  <2>1. req'[r].pc = req[r].pc
    <3>1. CASE Quiet(q)    BY <3>1, <1>t, QuietRequest
    <3>2. CASE CreateCommit(q) \/ HireCommit(q) \/ DeleteCommit(q)
      BY <3>2, <1>t DEF CreateCommit, HireCommit, DeleteCommit, End
    <3>3. CASE MoveUpdate(q) \/ Save(q)
      BY <3>3, WriteRequests
    <3> QED BY <1>1, <3>1, <3>2, <3>3, Cases
  <2> QED BY <2>1 DEF Saves
<1>3. req[r].pc = "save"
  BY DEF Saves
<1>4. CASE Fails(r)
  BY <1>4 DEF Fails, empVars
<1> QED
  BY <1>1, <1>2, <1>3, <1>4 DEF Begin, CreateBegin, DeleteBegin, MoveBegin, SelfRead,
     StatusRead, ProfileRead, Ask, Lock, Unlocked, CreateInsert, CreateCommit, HireCommit,
     DeleteCount, DeleteUpdate, DeleteCommit, MoveParent, MoveCycle, ProfileDept, MoveUpdate

(* A save that was not outdated by another changes nothing but the field its *)
(* request is about, although it writes the whole row.                       *)
THEOREM FreshSaves == Spec => FreshSavesNarrow
<1>1. Init => FreshInv
  BY DEF Init, FreshInv, NoRequest
<1>2. ASSUME Shape, FreshInv, Next, NEW r \in Reqs, Saves(r), ~req[r].stale
      PROVE  /\ req[r].op # "status" => UNCHANGED status
             /\ req[r].op # "profile" => UNCHANGED member
  <2>1. CASE UNCHANGED <<status, member>>
    BY <2>1
  <2>2. CASE Save(r)
    <3>1. /\ req[r].op # "status" => req[r].s = status[req[r].e]
          /\ req[r].op # "profile" => req[r].p = member[req[r].e]
      BY <1>2 DEF FreshInv, Saves
    <3>2. /\ status \in [Emps -> {"absent", "active", "inactive"}]
          /\ member \in [Emps -> Depts \cup {Nil}]
      BY <1>2 DEF Shape, TypeOK
    <3>3. req[r].op # "status" => status' = status
      BY <2>2, <3>1, <3>2 DEF Save
    <3>4. req[r].op # "profile" => member' = member
      BY <2>2, <3>1, <3>2 DEF Save, Copied
    <3> QED BY <3>3, <3>4
  <2> QED BY <1>2, <2>1, <2>2, SaveStep
<1>3. Shape /\ FreshInv /\ [Next]_vars =>
        [\A r \in Reqs : Saves(r) /\ ~req[r].stale =>
           /\ req[r].op # "status" => UNCHANGED status
           /\ req[r].op # "profile" => UNCHANGED member]_vars
  BY <1>2
<1> QED
  BY <1>1, <1>3, ShapeInit, ShapeNext, FreshNext, PTL DEF Spec, FreshSavesNarrow

-----------------------------------------------------------------------------
(***************************************************************************)
(* The advisory locks.  A request holds one at most, and has it when it    *)
(* waits for nothing any more.                                             *)
(***************************************************************************)
LocksExclude ==
  \A d \in Depts : \A p, q \in Reqs : Holding(p, d) /\ Holding(q, d) => p = q

\* Lock, and the UPDATE of a department whose deletion is not committed.
Waits(p, q) ==
  \/ req[p].pc = "lock" /\ refLock[LockKey(p)] = q
  \/ req[p].pc = "update" /\ req[q].pc = "deleted" /\ req[q].d = req[p].d
WaitsEnd == \A p, q \in Reqs : Waits(p, q) => \A r \in Reqs : ~Waits(q, r)

LEMMA LocksAreSound == Shape => LocksExclude /\ WaitsEnd
<1> SUFFICES ASSUME Shape PROVE LocksExclude /\ WaitsEnd
  OBVIOUS
<1>1. ASSUME NEW r \in Reqs, NEW d \in Depts, Holding(r, d) PROVE refLock[d] = r
  <2>1. Refers(r) /\ LockKey(r) = d /\ req[r].pc \in {"locked", "inserted", "deleted"}
    BY <1>1 DEF Shape, Holding
  <2>2. CASE req[r].pc = "locked"
    BY <2>1, <2>2 DEF Refers
  <2>3. CASE req[r].pc = "inserted"
    <3>1. req[r].op # "delete"
      BY <2>1, <2>3 DEF Refers
    <3>2. req[r].p = d
      BY <2>1, <3>1 DEF LockKey
    <3> QED BY <2>1, <2>3, <3>2 DEF Refers
  <2>4. CASE req[r].pc = "deleted"
    <3>1. req[r].d = d
      BY <2>1, <2>4 DEF Refers, LockKey
    <3> QED BY <2>1, <2>4, <3>1 DEF Refers
  <2> QED BY <2>1, <2>2, <2>3, <2>4
<1>2. LocksExclude
  BY <1>1 DEF LocksExclude
<1>3. ASSUME NEW p \in Reqs, NEW q \in Reqs, Waits(p, q), NEW r \in Reqs, Waits(q, r) PROVE FALSE
  <2>1. req[q].pc \in {"lock", "update"}
    BY <1>3 DEF Waits
  <2>2. CASE req[p].pc = "lock" /\ refLock[LockKey(p)] = q
    <3>1. LockKey(p) \in Depts /\ q # Nil
      BY <2>2 DEF Shape, Refers
    <3>2. Holding(q, LockKey(p))
      BY <2>2, <3>1 DEF Shape, TypeOK, LockTypeOK
    <3> QED BY <2>1, <3>2 DEF Holding
  <2>3. CASE req[q].pc = "deleted"
    BY <2>1, <2>3
  <2> QED BY <1>3, <2>2, <2>3 DEF Waits
<1> QED BY <1>2, <1>3 DEF WaitsEnd

(* Two requests never hold the lock of one department, and whoever is       *)
(* waited for waits for nobody: the directory has no deadlock, and a wait   *)
(* is over with the transaction it is for (lockDepartmentReference).        *)
THEOREM LocksNeverMeet == Spec => [](LocksExclude /\ WaitsEnd)
BY ShapeInit, ShapeNext, LocksAreSound, PTL DEF Spec

-----------------------------------------------------------------------------
(***************************************************************************)
(* Deletions                                                               *)
(***************************************************************************)
StaysDeleted(d) == dept'[d] = "deleted" /\ parent'[d] = parent[d]
LeavesNobody(d) ==
  /\ \A c \in Live' \ moved' : parent'[c] # d
  /\ \A e \in Emps \ saved' : status'[e] = "active" => member'[e] # d

DeletionsAreFinal ==
  [][/\ \A d \in Depts : dept[d] = "deleted" => StaysDeleted(d)
     /\ \A d \in Live \ Live' : LeavesNobody(d)]_vars

LEMMA DeletionStep ==
  ASSUME Shape, Shape', LockedReferences', [Next]_vars
  PROVE  /\ \A d \in Depts : dept[d] = "deleted" => StaysDeleted(d)
         /\ \A d \in Live \ Live' : LeavesNobody(d)
<1>t. /\ dept \in [Depts -> {"absent", "live", "deleted"}]
      /\ parent \in [Depts -> Depts \cup {Nil}]
  BY DEF Shape, TypeOK
<1>1. ASSUME NEW d \in Depts, dept[d] = "deleted" PROVE StaysDeleted(d)
  <2>1. CASE UNCHANGED <<dept, parent>>
    BY <1>1, <2>1 DEF StaysDeleted
  <2>2. ASSUME NEW r \in Reqs, CreateCommit(r) PROVE StaysDeleted(d)
    BY <1>t, <1>1, <2>2 DEF CreateCommit, StaysDeleted
  <2>3. ASSUME NEW r \in Reqs, DeleteCommit(r) PROVE StaysDeleted(d)
    BY <1>t, <1>1, <2>3 DEF DeleteCommit, StaysDeleted
  <2>4. ASSUME NEW r \in Reqs, MoveUpdate(r) PROVE StaysDeleted(d)
    BY <1>t, <1>1, <2>4 DEF MoveUpdate, StaysDeleted, Live
  <2>5. ASSUME NEW r \in Reqs, Quiet(r) \/ HireCommit(r) \/ Save(r) PROVE UNCHANGED <<dept, parent>>
    BY <2>5, QuietFrame DEF HireCommit, Save, deptVars
  <2> QED BY <2>1, <2>2, <2>3, <2>4, <2>5, Cases DEF Next, vars
<1>2. ASSUME NEW d \in Live \ Live' PROVE LeavesNobody(d)
  <2>1. d \in Depts /\ d # Nil
    BY DEF Live
  <2> QED BY <1>2, <2>1 DEF LockedReferences, LeavesNobody
<1> QED BY <1>1, <1>2

(* A deleted department is deleted for good, in the place where it was, and *)
(* at the moment it is deleted nothing that was put there by its creation   *)
(* is left in it (softDeleteDepartment).                                    *)
THEOREM DeletedForGood == Spec => DeletionsAreFinal
<1>1. Init => RefInv
  BY DEF Init, RefInv, Emptied, LockedReferences, Live, NoRequest
<1>2. RefInv => LockedReferences
  BY DEF RefInv
<1>3. Shape /\ Shape' /\ LockedReferences' /\ [Next]_vars =>
        [/\ \A d \in Depts : dept[d] = "deleted" => StaysDeleted(d)
         /\ \A d \in Live \ Live' : LeavesNobody(d)]_vars
  BY DeletionStep
<1> QED BY <1>1, <1>2, <1>3, ShapeInit, ShapeNext, RefNext, PTL DEF Spec, DeletionsAreFinal
=============================================================================
