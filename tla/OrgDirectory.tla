---------------------------- MODULE OrgDirectory ----------------------------
(***************************************************************************)
(* The organisation directory of the platform: the department tree and the *)
(* employees that belong to its departments (apps/platform-api, OrgService,*)
(* EmployeeService and the PostgreSQL repository under them).              *)
(*                                                                         *)
(* A request reads, checks and writes with an await between any two of     *)
(* these, and requests interleave.  Creating a department or an employee   *)
(* and deleting a department take an advisory lock on the department that  *)
(* is referenced and check again under it; moving a department and saving  *)
(* an employee do neither.                                                 *)
(*                                                                         *)
(* One enterprise is modelled.  Names, managers, sort order and the audit  *)
(* log are left out; a request that is refused before it wrote anything    *)
(* ends without a trace.                                                   *)
(***************************************************************************)
EXTENDS Naturals, FiniteSets

CONSTANTS
  Depts,   \* ids of departments
  Emps,    \* ids of employees
  Reqs,    \* request slots: how many requests are under way at once
  Nil      \* "no department", "no employee", "no request"

ASSUME NilAssumption == Nil \notin Depts \cup Emps \cup Reqs

VARIABLES
  dept,      \* dept[d]: "absent", "live" or "deleted" (deleted_at is set)
  parent,    \* parent[d]: parent_id
  status,    \* status[e]: "absent", "active", "inactive" (disabled or left)
  member,    \* member[e]: department_id
  req,       \* req[r]: the request in slot r
  refLock,   \* refLock[d]: the request that holds the advisory lock on d
  moved,     \* history: departments placed by a move, not by their creation
  saved,     \* history: employees whose row was rewritten after creation
  raced      \* history: a move committed although its check was outdated

deptVars == <<dept, parent>>
empVars  == <<status, member>>
history  == <<moved, saved, raced>>
vars     == <<dept, parent, status, member, req, refLock, moved, saved, raced>>

NoRequest == [pc |-> "idle", op |-> "none", d |-> Nil, p |-> Nil, e |-> Nil,
              s |-> "absent", stale |-> FALSE]

Init ==
  /\ dept = [d \in Depts |-> "absent"] /\ parent = [d \in Depts |-> Nil]
  /\ status = [e \in Emps |-> "absent"] /\ member = [e \in Emps |-> Nil]
  /\ req = [r \in Reqs |-> NoRequest] /\ refLock = [d \in Depts |-> Nil]
  /\ moved = {} /\ saved = {} /\ raced = FALSE

Live == {d \in Depts : dept[d] = "live"}

(* hasActiveChildDepartments and countActiveEmployeesInDepartment.          *)
Occupied(d) ==
  \/ \E c \in Live : parent[c] = d
  \/ \E e \in Emps : status[e] = "active" /\ member[e] = d

(* listDescendantDepartmentIdsForCycleCheck: the least set of live          *)
(* departments that holds the children of d and of its members.             *)
ClosedBelow(S, d) == \A c \in Live : parent[c] \in S \cup {d} => c \in S
Descendants(d) == {x \in Live : \A S \in SUBSET Live : ClosedBelow(S, d) => x \in S}

Ask(r, op, pc, d, p, e, s) ==
  /\ req[r].pc = "idle"
  /\ req' = [req EXCEPT ![r] = [pc |-> pc, op |-> op, d |-> d, p |-> p, e |-> e,
                                s |-> s, stale |-> FALSE]]
To(r, pc) == req' = [req EXCEPT ![r] = [req[r] EXCEPT !.pc = pc]]

(* COMMIT, ROLLBACK or the lost connection releases the advisory lock.      *)
UnlockNothing(r) == UNCHANGED refLock   \* variant: the client keeps its session
Unlock(r) == refLock' = [d \in Depts |-> IF refLock[d] = r THEN Nil ELSE refLock[d]]
End(r) == req' = [req EXCEPT ![r] = NoRequest] /\ Unlock(r)

-----------------------------------------------------------------------------
(***************************************************************************)
(* createDepartment and createEmployee: the service looks the reference up *)
(* (assertParentDepartment), the repository locks it and looks again.      *)
(***************************************************************************)
(* Bound: ids are finite here, so every request under way has one to use.    *)
Under(op) == {r \in Reqs : req[r].op = op}
IdLeft(op) ==
  IF op = "create" THEN Cardinality(Under(op)) < Cardinality({d \in Depts : dept[d] = "absent"})
                   ELSE Cardinality(Under(op)) < Cardinality({e \in Emps : status[e] = "absent"})

CreateBegin(r, op) ==
  /\ IdLeft(op)
  /\ \/ \E p \in Live : Ask(r, op, "lock", Nil, p, Nil, "absent")
     \/ Ask(r, op, "inserted", Nil, Nil, Nil, "absent")
  /\ UNCHANGED <<deptVars, empVars, refLock, history>>

(* lockDepartmentReference, for create, hire and delete.                    *)
LockKey(r) == IF req[r].op = "delete" THEN req[r].d ELSE req[r].p
Lock(r) ==
  /\ req[r].pc = "lock" /\ refLock[LockKey(r)] = Nil
  /\ refLock' = [refLock EXCEPT ![LockKey(r)] = r]
  /\ To(r, "locked")
  /\ UNCHANGED <<deptVars, empVars, history>>

RecheckNothing(r) == TRUE               \* variant: trusts the check of the service
Recheck(r) == req[r].p \in Live

CreateInsert(r) ==
  /\ req[r].pc = "locked" /\ req[r].op \in {"create", "hire"}
  /\ \/ Recheck(r) /\ To(r, "inserted") /\ UNCHANGED refLock
     \/ ~Recheck(r) /\ End(r)
  /\ UNCHANGED <<deptVars, empVars, history>>

CreateCommit(r) ==
  /\ req[r].pc = "inserted" /\ req[r].op = "create"
  /\ \E d \in Depts :
       /\ dept[d] = "absent"
       /\ dept' = [dept EXCEPT ![d] = "live"]
       /\ parent' = [parent EXCEPT ![d] = req[r].p]
  /\ End(r)
  /\ UNCHANGED <<empVars, history>>

HireCommit(r) ==
  /\ req[r].pc = "inserted" /\ req[r].op = "hire"
  /\ \E e \in Emps :
       /\ status[e] = "absent"
       /\ status' = [status EXCEPT ![e] = "active"]
       /\ member' = [member EXCEPT ![e] = req[r].p]
  /\ End(r)
  /\ UNCHANGED <<deptVars, history>>

-----------------------------------------------------------------------------
(***************************************************************************)
(* deleteDepartment: the service counts first, softDeleteDepartment locks  *)
(* and repeats both counts in the WHERE of its UPDATE.                     *)
(***************************************************************************)
DeleteBegin(r) ==
  /\ \E d \in Live : Ask(r, "delete", "count", d, Nil, Nil, "absent")
  /\ UNCHANGED <<deptVars, empVars, refLock, history>>

DeleteCount(r) ==
  /\ req[r].pc = "count"
  /\ \/ ~Occupied(req[r].d) /\ To(r, "lock") /\ UNCHANGED refLock
     \/ Occupied(req[r].d) /\ End(r)
  /\ UNCHANGED <<deptVars, empVars, history>>

DeleteMatchesUncounted(d) == d \in Live \* variant: relies on the first counts
DeleteMatches(d) == d \in Live /\ ~Occupied(d)

DeleteUpdate(r) ==
  /\ req[r].pc = "locked" /\ req[r].op = "delete"
  /\ \/ DeleteMatches(req[r].d) /\ To(r, "deleted") /\ UNCHANGED refLock
     \/ ~DeleteMatches(req[r].d) /\ End(r)
  /\ UNCHANGED <<deptVars, empVars, history>>

DeleteCommit(r) ==
  /\ req[r].pc = "deleted"
  /\ dept' = [dept EXCEPT ![req[r].d] = "deleted"]
  /\ End(r)
  /\ UNCHANGED <<parent, empVars, history>>

-----------------------------------------------------------------------------
(***************************************************************************)
(* updateDepartment with a new parent: look up the department, the parent, *)
(* the descendants, then one UPDATE that checks nothing of them again.     *)
(***************************************************************************)
MoveBegin(r) ==
  /\ \E d \in Live :
       \/ \E p \in Depts : Ask(r, "move", "parent", d, p, Nil, "absent")
       \/ Ask(r, "move", "update", d, Nil, Nil, "absent")      \* to the top
  /\ UNCHANGED <<deptVars, empVars, refLock, history>>

MoveParent(r) ==
  /\ req[r].pc = "parent"
  /\ \/ req[r].p \in Live /\ req[r].p # req[r].d /\ To(r, "cycle") /\ UNCHANGED refLock
     \/ (req[r].p \notin Live \/ req[r].p = req[r].d) /\ End(r)
  /\ UNCHANGED <<deptVars, empVars, history>>

(* assertNoDepartmentCycle.  The recursive query is a UNION ALL: it does    *)
(* not end when the department lies on a cycle.                             *)
NoCycleBelowChildren(d, p) ==           \* variant: looks at the children only
  ~(p \in Live /\ parent[p] = d)
NoCycleBelow(d, p) == p \notin Descendants(d)

MoveCycle(r) ==
  LET d == req[r].d IN
  /\ req[r].pc = "cycle"
  /\ \/ d \in Descendants(d) /\ To(r, "hung") /\ UNCHANGED refLock
     \/ /\ d \notin Descendants(d) /\ NoCycleBelow(d, req[r].p)
        /\ To(r, "update") /\ UNCHANGED refLock
     \/ d \notin Descendants(d) /\ ~NoCycleBelow(d, req[r].p) /\ End(r)
  /\ UNCHANGED <<deptVars, empVars, history>>

(* A soft delete that is not committed holds the row.                       *)
RowFree(d) == \A r \in Reqs : ~(req[r].pc = "deleted" /\ req[r].d = d)

(* The other moves that have checked the tree are outdated once d is under  *)
(* a department.                                                            *)
Moves(r) == req[r].op = "move" /\ req[r].pc = "update"
Outdate(r) ==
  req' = [q \in Reqs |-> IF q = r THEN NoRequest
                         ELSE IF Moves(q) THEN [req[q] EXCEPT !.stale = TRUE] ELSE req[q]]

MoveUpdate(r) ==
  LET d == req[r].d  p == req[r].p IN
  /\ req[r].pc = "update" /\ RowFree(d)
  /\ \/ /\ d \in Live
        /\ parent' = [parent EXCEPT ![d] = p]
        /\ moved' = moved \cup {d}
        /\ IF p = Nil
             THEN req' = [req EXCEPT ![r] = NoRequest] /\ UNCHANGED raced
             ELSE Outdate(r) /\ raced' = (raced \/ req[r].stale)
     \/ /\ d \notin Live                                      \* no row: not found
        /\ req' = [req EXCEPT ![r] = NoRequest]
        /\ UNCHANGED <<parent, moved, raced>>
  /\ UNCHANGED <<dept, empVars, refLock, saved>>

-----------------------------------------------------------------------------
(***************************************************************************)
(* updateEmployeeProfile (by the employee, or by a manager who may also    *)
(* choose the department) and updateStatus: read the row, change a copy,   *)
(* write the whole copy back.                                              *)
(***************************************************************************)
Present == {e \in Emps : status[e] # "absent"}

SelfRead(r) ==
  /\ \E e \in Present : Ask(r, "self", "save", Nil, member[e], e, status[e])
  /\ UNCHANGED <<deptVars, empVars, refLock, history>>

StatusRead(r) ==
  /\ \E e \in Present, s \in {"active", "inactive"} :
       Ask(r, "status", "save", Nil, member[e], e, s)
  /\ UNCHANGED <<deptVars, empVars, refLock, history>>

ProfileRead(r) ==
  /\ \E e \in Present :
       \/ \E p \in Depts : Ask(r, "profile", "dept", Nil, p, e, status[e])
       \/ Ask(r, "profile", "save", Nil, Nil, e, status[e])    \* no department
  /\ UNCHANGED <<deptVars, empVars, refLock, history>>

ProfileDept(r) ==
  /\ req[r].pc = "dept"
  /\ \/ req[r].p \in Live /\ To(r, "save") /\ UNCHANGED refLock
     \/ req[r].p \notin Live /\ End(r)
  /\ UNCHANGED <<deptVars, empVars, history>>

(* The copies of the same row that other requests hold are outdated.        *)
Holds(q, e) == req[q].e = e
SaveEnd(r) ==
  req' = [q \in Reqs |-> IF q = r THEN NoRequest
                         ELSE IF Holds(q, req[r].e)
                           THEN [req[q] EXCEPT !.stale = TRUE] ELSE req[q]]

(* buildProfileUpdate and updateStatus copy the row before they change it.  *)
CopiedDefault(r) ==                     \* variant: a fresh object, department unset
  IF req[r].op = "status" THEN Nil ELSE req[r].p
Copied(r) == req[r].p

Save(r) ==
  LET e == req[r].e IN
  /\ req[r].pc = "save"
  /\ status' = [status EXCEPT ![e] = req[r].s]
  /\ member' = [member EXCEPT ![e] = Copied(r)]
  /\ saved' = saved \cup {e}
  /\ SaveEnd(r)
  /\ UNCHANGED <<deptVars, refLock, moved, raced>>

-----------------------------------------------------------------------------
(***************************************************************************)
(* Data scopes (PlatformScopeService), read by every list and every check  *)
(* of access: kinds are those the roles of the viewer have for a type of   *)
(* data, d is the department of the viewer, x that of the person looked at.*)
(***************************************************************************)
Kinds == {"company", "department_tree", "department", "self", "custom"}

(* listDescendantDepartmentIds asks for active departments, where the query *)
(* of the cycle check asks for departments that are not deleted: a deleted  *)
(* one keeps its status and is walked through.                              *)
Active == {d \in Depts : dept[d] # "absent"}
SeenBelow(d) ==
  {x \in Active : \A S \in SUBSET Active :
     (\A c \in Active : parent[c] \in S \cup {d} => c \in S) => x \in S}

(* resolveScope: the first of EFFECTIVE_SCOPE_ORDER, "self" without any.     *)
Widest(kinds) ==
  CASE "company" \in kinds -> "company"
    [] "company" \notin kinds /\ "department_tree" \in kinds -> "department_tree"
    [] kinds \cap {"company", "department_tree"} = {} /\ "department" \in kinds -> "department"
    [] OTHER -> "self"
Effective(kinds, d) ==
  IF d = Nil /\ Widest(kinds) # "company" THEN "self" ELSE Widest(kinds)

(* This query is a UNION ALL, too: below a department on a cycle it does not *)
(* end.  A department has one parent, so a walk downwards meets a cycle only *)
(* if it starts on it.                                                       *)
ScopeReturns(kinds, d) == Effective(kinds, d) = "department_tree" => d \notin SeenBelow(d)

(* What the scope lets through, where the query returns.                     *)
ScopeDepts(kind, d) == {d} \cup (IF kind = "department_tree" THEN SeenBelow(d) ELSE {})

MatchesScope(kinds, d, self, x) ==
  LET kind == Effective(kinds, d) IN
  \/ kind = "company"
  \/ kind = "self" /\ self
  \/ kind \in {"department", "department_tree"} /\ x # Nil /\ x \in ScopeDepts(kind, d)

-----------------------------------------------------------------------------
(* A statement fails, or the process dies: nothing uncommitted remains.     *)
Fails(r) ==
  /\ req[r].pc # "idle"
  /\ End(r)
  /\ UNCHANGED <<deptVars, empVars, history>>

Begin(r) ==
  \/ \E op \in {"create", "hire"} : CreateBegin(r, op)
  \/ DeleteBegin(r) \/ MoveBegin(r) \/ SelfRead(r) \/ StatusRead(r) \/ ProfileRead(r)
Unlocked(r) ==
  \/ CreateInsert(r) \/ CreateCommit(r) \/ HireCommit(r)
  \/ DeleteCount(r) \/ DeleteUpdate(r) \/ DeleteCommit(r)
  \/ MoveParent(r) \/ MoveCycle(r) \/ ProfileDept(r) \/ Save(r)

Next == \E r \in Reqs : Begin(r) \/ Lock(r) \/ Unlocked(r) \/ MoveUpdate(r) \/ Fails(r)

Spec == Init /\ [][Next]_vars

-----------------------------------------------------------------------------
ReqRecord ==
  [pc : {"idle", "lock", "locked", "inserted", "count", "deleted", "parent", "cycle",
         "hung", "update", "dept", "save"},
   op : {"none", "create", "hire", "delete", "move", "self", "status", "profile"},
   d : Depts \cup {Nil}, p : Depts \cup {Nil}, e : Emps \cup {Nil},
   s : {"absent", "active", "inactive"}, stale : BOOLEAN]

(* An advisory lock is held by the transaction that is open on it.           *)
Holding(r, d) == req[r].pc \in {"locked", "inserted", "deleted"} /\ LockKey(r) = d
LockTypeOK ==
  /\ refLock \in [Depts -> Reqs \cup {Nil}]
  /\ \A d \in Depts : refLock[d] # Nil => Holding(refLock[d], d)

TypeOK ==
  /\ dept \in [Depts -> {"absent", "live", "deleted"}]
  /\ parent \in [Depts -> Depts \cup {Nil}]
  /\ status \in [Emps -> {"absent", "active", "inactive"}]
  /\ member \in [Emps -> Depts \cup {Nil}]
  /\ req \in [Reqs -> ReqRecord]
  /\ LockTypeOK
  /\ moved \subseteq Depts /\ saved \subseteq Emps /\ raced \in BOOLEAN

(***************************************************************************)
(* Safety                                                                  *)
(***************************************************************************)

(* Creation and deletion exclude each other by the advisory lock: a          *)
(* department or an active employee still where its creation put it is in a  *)
(* department that was not deleted, however the deletion interleaved.        *)
LockedReferences ==
  /\ \A d \in Live \ moved : parent[d] # Nil => parent[d] \in Live
  /\ \A e \in Emps \ saved :
       status[e] = "active" /\ member[e] # Nil => member[e] \in Live

(* Every set of live departments has a member whose parent is outside: no    *)
(* department is above itself (m8-1-department-management.md, 1.3).          *)
Acyclic == \A S \in SUBSET Live : S # {} => \E d \in S : parent[d] \notin S

(* The check before the UPDATE is right: without a move that commits on an   *)
(* outdated check the tree stays a tree and every descendants query ends.    *)
TreeWithoutRaces ==
  ~raced => Acyclic /\ \A r \in Reqs : req[r].pc # "hung"

(* Without a move on an outdated check the query behind a scope ends, and    *)
(* wherever it ends what somebody may see is what any of their kinds grants  *)
(* in the tree of the departments that exist, and always themselves, although*)
(* the query walks through deleted departments too: those are empty          *)
(* (m8-1-department-management.md, 2.5), unless a move has put a department  *)
(* below one.  Looked at between requests, which is wherever the tree can be.*)
Grants(kind, d, x) ==
  \/ kind = "company"
  \/ d # Nil /\ x = d /\ kind \in {"department", "department_tree"}
  \/ d # Nil /\ x \in Descendants(d) /\ kind = "department_tree"

ScopeFollowsTree ==
  /\ \A r \in Reqs : req[r].pc = "idle"
  /\ \A c \in Live \cap moved : parent[c] \in Live \cup {Nil}
  => \A kinds \in SUBSET Kinds, d \in Live \cup {Nil} :
       /\ ~raced => ScopeReturns(kinds, d)
       /\ ScopeReturns(kinds, d) =>
            /\ MatchesScope(kinds, d, TRUE, d)
            /\ \A x \in Live \cup {Nil} : MatchesScope(kinds, d, FALSE, x)
                                          <=> \E kind \in kinds : Grants(kind, d, x)

Saves(r) == req[r].pc = "save" /\ req'[r].pc = "idle"

(* A save whose copy of the row is still current changes no more than its    *)
(* request is about: nothing but a status request changes the status, and    *)
(* nothing but a manager's request the department.                           *)
FreshSavesNarrow ==
  [][\A r \in Reqs : Saves(r) /\ ~req[r].stale =>
       /\ req[r].op # "status" => UNCHANGED status
       /\ req[r].op # "profile" => UNCHANGED member]_vars
=============================================================================
