------------------------------ MODULE Accounts -------------------------------
(***************************************************************************)
(* The accounts of employees: their local identities (AuthService), the    *)
(* flag that they must change their password, which is kept in two tables, *)
(* the roles they are given (RbacService, EmployeeService.assignRoles), and*)
(* the permissions and data scopes these roles give to them.               *)
(*                                                                         *)
(* A request runs in steps, one per query; what it has read is what it     *)
(* writes from.  A password is right or wrong; a lock is off, on, or over  *)
(* (it has expired and nobody has logged in since).  updatePassword writes *)
(* both tables in one transaction, whose rows others write only singly:    *)
(* it is one step.  The roles of a user are rows of user_roles; the        *)
(* statements of an assignment see and lock rows as PostgreSQL does under  *)
(* READ COMMITTED, and its writes show at COMMIT.                          *)
(*                                                                         *)
(* One enterprise; its employees exist.  Their departments and status are  *)
(* in OrgDirectory: here a request that finds an employee inactive is one  *)
(* that fails.  Of a row of employees only the flag is kept.  Sessions are *)
(* not modelled, nor are the names of roles.                               *)
(***************************************************************************)
EXTENDS Naturals, FiniteSets

CONSTANTS
  Users,      \* ids of employees
  Roles,      \* ids of roles
  Reqs,       \* request slots: how many requests are under way at once
  Edits,      \* slots for requests that save the settings of a role
  Views,      \* slots for requests that put together what a user may do
  Codes,      \* rows a role can have in role_permissions
  Scopes,     \* rows a role can have in role_data_scopes
  MaxFailed,  \* MAX_FAILED_ATTEMPTS
  Nil         \* "none"

ASSUME MaxFailedAssumption == MaxFailed \in Nat \ {0}
ASSUME NilAssumption       == Nil \notin Users

VARIABLES
  flag,      \* flag[u]: must_change_password in the row of employees
  identity,  \* identity[u]: the row of local_identities
  role,      \* role[r]: "unused", "live" or "gone"
  given,     \* given[u]: the roles of u, committed rows of user_roles
  req,       \* req[q]: the request in slot q
  streak,    \* history: wrong passwords in a row, each counted from the last
  exact,     \* history: no login has written from a row that had changed
  agreed,    \* history: no save has written back an old flag
  latest,    \* history: the role sets last assigned, several if they overlapped
  setting,   \* setting[r]: status and rows of role r, committed
  edit,      \* edit[e]: the save of a role in slot e
  view,      \* view[v]: the user that is being put together in slot v
  saved      \* history: saved[r]: what the saves of r make together

accounts == <<flag, identity>>
rbac     == <<role, given, latest>>
history  == <<streak, exact, agreed>>
settings == <<setting, edit, view, saved>>
vars     == <<accounts, rbac, req, history, settings>>

Identity == [failed : 0..MaxFailed, lock : {"off", "on", "over"}, must : BOOLEAN]

Steps == {"idle", "wrong", "right", "change", "reset", "save", "open", "scan", "drop", "insert", "count", "delete"}

Request == [pc : Steps, user : Users \cup {Nil},
            row : Identity \cup {Nil}, flag : BOOLEAN,
            roles : SUBSET Roles, left : SUBSET Roles, snap : SUBSET Roles,
            dropped : SUBSET Roles, put : SUBSET Roles,
            peers : SUBSET SUBSET Roles, late : SUBSET Users]

NoReq == [pc |-> "idle", user |-> Nil, row |-> Nil, flag |-> FALSE,
          roles |-> {}, left |-> {}, snap |-> {}, dropped |-> {}, put |-> {},
          peers |-> {}, late |-> {}]

Rows     == Codes \cup Scopes
Statuses == {"active", "disabled"}
Setting  == [status : Statuses, rows : SUBSET Rows]
New      == [status |-> "active", rows |-> {}]

\* What a save leaves out stays as it is: the status, either table.
Parts  == {{}, Codes, Scopes, Rows}
Edit   == [pc : {"idle", "lock", "replace", "commit"}, role : Roles \cup {Nil},
           status : Statuses \cup {Nil}, part : Parts, rows : SUBSET Rows, seen : SUBSET Rows]
NoEdit == [pc |-> "idle", role |-> Nil, status |-> Nil, part |-> {}, rows |-> {}, seen |-> {}]

\* What a role gives is a pair of the role and a row.
Gifts  == Roles \X Rows
View   == [pc : {"idle", "read"}, roles : SUBSET Roles, left : SUBSET Roles,
           got : SUBSET Gifts, ever : SUBSET Gifts, always : SUBSET Gifts]
NoView == [pc |-> "idle", roles |-> {}, left |-> {}, got |-> {}, ever |-> {}, always |-> {}]

TypeOK ==
  /\ setting \in [Roles -> Setting] /\ saved \in [Roles -> Setting]
  /\ edit \in [Edits -> Edit] /\ view \in [Views -> View]
  /\ flag \in [Users -> BOOLEAN] /\ identity \in [Users -> Identity]
  /\ role \in [Roles -> {"unused", "live", "gone"}]
  /\ given \in [Users -> SUBSET Roles] /\ latest \in [Users -> SUBSET SUBSET Roles]
  /\ req \in [Reqs -> Request]
  /\ streak \in [Users -> 0..MaxFailed]
  /\ exact \in [Users -> BOOLEAN] /\ agreed \in [Users -> BOOLEAN]

\* Every account as it was created; roles may come later.
Init ==
  /\ flag = [u \in Users |-> TRUE]
  /\ identity = [u \in Users |-> [failed |-> 0, lock |-> "off", must |-> TRUE]]
  /\ role \in [Roles -> {"unused", "live"}]
  /\ given = [u \in Users |-> {}] /\ latest = [u \in Users |-> {{}}]
  /\ req = [q \in Reqs |-> NoReq]
  /\ setting = [r \in Roles |-> New] /\ saved = [r \in Roles |-> New]
  /\ edit = [e \in Edits |-> NoEdit] /\ view = [v \in Views |-> NoView]
  /\ streak = [u \in Users |-> 0]
  /\ exact = [u \in Users |-> TRUE] /\ agreed = [u \in Users |-> TRUE]

Live == {r \in Roles : role[r] = "live"}

Ask(q, r) == req[q] = NoReq /\ req' = [req EXCEPT ![q] = r]
Set(q, r) == req' = [req EXCEPT ![q] = r]
Done(q)   == Set(q, NoReq)

-----------------------------------------------------------------------------
(***************************************************************************)
(* AuthService.login                                                       *)
(***************************************************************************)
\* The row is read, then the employee, and the password is compared.
LoginRead(q, u) ==
  /\ identity[u].lock # "on"
  /\ \E pc \in {"wrong", "right"} :
       Ask(q, [NoReq EXCEPT !.pc = pc, !.user = u, !.row = identity[u]])
  /\ UNCHANGED <<accounts, rbac, history, settings>>

\* The row a wrong password leads to, from the row that was read.
Fail(row, failed, limit) ==
  [row EXCEPT !.failed = failed, !.lock = IF failed >= limit THEN "on" ELSE "off"]
CountedOn(row)   == Fail(row, row.failed + 1, MaxFailed)
CountedLate(row) == Fail(row, (IF row.lock = "over" THEN 0 ELSE row.failed) + 1, MaxFailed + 1)
Counted(row)     == Fail(row, (IF row.lock = "over" THEN 0 ELSE row.failed) + 1, MaxFailed)

\* Only the counter and the lock are written: the flag stays what it is.
Stale(q, u) == \/ req[q].row.failed # identity[u].failed
               \/ req[q].row.lock # identity[u].lock

LoginWrong(q) ==
  LET u == req[q].user
  IN  /\ req[q].pc = "wrong"
      /\ identity' = [identity EXCEPT ![u] = [Counted(req[q].row) EXCEPT !.must = identity[u].must]]
      /\ IF Stale(q, u)
         THEN exact' = [exact EXCEPT ![u] = FALSE] /\ UNCHANGED streak
         ELSE /\ streak' = IF ~exact[u] THEN streak
                           ELSE [streak EXCEPT ![u] = IF identity[u].lock = "over" THEN 1 ELSE @ + 1]
              /\ UNCHANGED exact
      /\ Done(q)
      /\ UNCHANGED <<flag, rbac, agreed, settings>>

Clear(u) == exact' = [exact EXCEPT ![u] = TRUE] /\ streak' = [streak EXCEPT ![u] = 0]

LoginRight(q) ==
  LET u == req[q].user
  IN  /\ req[q].pc = "right"
      /\ identity' = [identity EXCEPT ![u].failed = 0, ![u].lock = "off"]
      /\ Clear(u)
      /\ Done(q)
      /\ UNCHANGED <<flag, rbac, agreed, settings>>

LockExpires(u) ==
  /\ identity[u].lock = "on"
  /\ identity' = [identity EXCEPT ![u].lock = "over"]
  /\ UNCHANGED <<flag, rbac, req, history, settings>>

-----------------------------------------------------------------------------
(***************************************************************************)
(* AuthService.changePassword and EmployeeService.resetPassword            *)
(***************************************************************************)
\* A change has compared the old password, a reset has found the employee.
PasswordBegin(q, u) ==
  /\ \E pc \in {"change", "reset"} : Ask(q, [NoReq EXCEPT !.pc = pc, !.user = u])
  /\ UNCHANGED <<accounts, rbac, history, settings>>

UpdateIdentityOnly(u, must) ==
  /\ identity' = [identity EXCEPT ![u] = [failed |-> 0, lock |-> "off", must |-> must]]
  /\ flag' = flag
UpdatePassword(u, must) ==
  /\ identity' = [identity EXCEPT ![u] = [failed |-> 0, lock |-> "off", must |-> must]]
  /\ flag' = [flag EXCEPT ![u] = must]

PasswordCommit(q) ==
  LET u == req[q].user
  IN  /\ req[q].pc \in {"change", "reset"}
      /\ UpdatePassword(u, req[q].pc = "reset")
      /\ Clear(u)
      /\ agreed' = [agreed EXCEPT ![u] = TRUE]
      /\ Done(q)
      /\ UNCHANGED <<rbac, settings>>

(***************************************************************************)
(* EmployeeService.updateStatus and updateEmployeeProfile: the whole row   *)
(* is written back as it was read, but for what is saved.                  *)
(***************************************************************************)
SaveBegin(q, u) ==
  /\ Ask(q, [NoReq EXCEPT !.pc = "save", !.user = u, !.flag = flag[u]])
  /\ UNCHANGED <<accounts, rbac, history, settings>>

SaveWrite(q) ==
  LET u == req[q].user
  IN  /\ req[q].pc = "save"
      /\ flag' = [flag EXCEPT ![u] = req[q].flag]
      /\ agreed' = [agreed EXCEPT ![u] = @ /\ req[q].flag = flag[u]]
      /\ Done(q)
      /\ UNCHANGED <<identity, rbac, streak, exact, settings>>

-----------------------------------------------------------------------------
(***************************************************************************)
(* EmployeeService.assignRoles: the roles are looked up, then again in the *)
(* transaction that deletes the rows of the user and inserts the new ones. *)
(***************************************************************************)
AssignBegin(q, u) ==
  /\ \E S \in SUBSET Live :
       Ask(q, [NoReq EXCEPT !.pc = "open", !.user = u, !.roles = S, !.left = S])
  /\ UNCHANGED <<accounts, rbac, history, settings>>

AssignOpen(q) ==
  /\ req[q].pc = "open" /\ req[q].roles \subseteq Live
  /\ Set(q, [req[q] EXCEPT !.pc = "scan"])
  /\ UNCHANGED <<accounts, rbac, history, settings>>

\* DELETE FROM user_roles: the rows it will delete are those it sees now ...
AssignScan(q) ==
  /\ req[q].pc = "scan"
  /\ Set(q, [req[q] EXCEPT !.pc = "drop", !.snap = given[req[q].user]])
  /\ UNCHANGED <<accounts, rbac, history, settings>>

\* ... once nobody else has them locked.
SameUser(p, q) == p # q /\ req[p].user = req[q].user

DropNothing(q) == {}
Dropping(q) == req[q].snap

AssignDrop(q) ==
  /\ req[q].pc = "drop"
  /\ \A p \in Reqs : SameUser(p, q) => req[p].dropped \cap req[q].snap = {}
  /\ Set(q, [req[q] EXCEPT !.pc = "insert", !.dropped = Dropping(q), !.snap = {}])
  /\ UNCHANGED <<accounts, rbac, history, settings>>

\* INSERT ... ON CONFLICT DO NOTHING waits for whoever has the row.
AssignInsert(q) ==
  LET u == req[q].user
  IN  /\ req[q].pc = "insert"
      /\ \E r \in req[q].left :
           /\ \A p \in Reqs : SameUser(p, q) => r \notin req[p].put \cup req[p].dropped
           /\ r \in given[u] \ req[q].dropped \/ r \in Live
           /\ Set(q, [req[q] EXCEPT !.left = @ \ {r},
                        !.put = IF r \in given[u] \ req[q].dropped THEN @ ELSE @ \cup {r}])
      /\ UNCHANGED <<accounts, rbac, history, settings>>

\* A row this commit deletes is none another DELETE finds; who has looked hears of it.
Told(p, q) ==
  CASE req[p].pc \in {"drop", "insert"} /\ SameUser(p, q) ->
         [req[p] EXCEPT !.snap = @ \ req[q].dropped, !.peers = @ \cup {req[q].roles}]
    [] req[p].pc = "delete" -> [req[p] EXCEPT !.late = @ \cup {req[q].user}]
    [] OTHER -> req[p]

AssignCommit(q) ==
  LET u == req[q].user
  IN  /\ req[q].pc = "insert" /\ req[q].left = {}
      /\ given' = [given EXCEPT ![u] = (@ \ req[q].dropped) \cup req[q].put]
      /\ latest' = [latest EXCEPT ![u] = req[q].peers \cup {req[q].roles}]
      /\ req' = [p \in Reqs |-> IF p = q THEN NoReq ELSE Told(p, q)]
      /\ UNCHANGED <<accounts, role, history, settings>>

-----------------------------------------------------------------------------
(***************************************************************************)
(* RbacService.updateRole and createRole: one transaction, which begins    *)
(* with the UPDATE of the row of the role.                                 *)
(***************************************************************************)
\* What the settings s say that role r gives.
Gives(s, r) == {r} \X (IF s[r].status = "active" THEN s[r].rows ELSE {})

\* The settings become s; whoever is being put together notes what changes.
Save(s) ==
  /\ saved' = s
  /\ view' = [v \in Views |->
       LET now == UNION {Gives(s, r) : r \in view[v].roles}
       IN  [view[v] EXCEPT !.ever = @ \cup now, !.always = @ \cap now]]

EditBegin(e) ==
  /\ edit[e].pc = "idle"
  /\ \E r \in Live : edit' = [edit EXCEPT ![e].pc = "lock", ![e].role = r]
  /\ UNCHANGED <<accounts, rbac, req, history, setting, view, saved>>

\* The UPDATE holds the row from here to the end of the transaction.  What the
\* request asks for is chosen here, where it is used first.
Locks(e, r) == edit[e].pc \in {"replace", "commit"} /\ edit[e].role = r
RowAlways(r) == TRUE
RowFree(r)   == \A e \in Edits : ~Locks(e, r)

EditLock(e) ==
  /\ edit[e].pc = "lock" /\ edit[e].role \in Live /\ RowFree(edit[e].role)
  /\ \E status \in Statuses \cup {Nil}, part \in Parts : \E rows \in SUBSET part :
       edit' = [edit EXCEPT ![e].pc = "replace", ![e].status = status,
                            ![e].part = part, ![e].rows = rows]
  /\ UNCHANGED <<accounts, rbac, req, history, setting, view, saved>>

\* DELETE takes the rows it sees; those of the request are inserted after it.
EditReplace(e) ==
  /\ edit[e].pc = "replace"
  /\ edit' = [edit EXCEPT ![e].pc = "commit",
                          ![e].seen = setting[edit[e].role].rows \cap edit[e].part]
  /\ UNCHANGED <<accounts, rbac, req, history, setting, view, saved>>

Replaced(old, e, gone) ==
  [status |-> IF edit[e].status = Nil THEN old.status ELSE edit[e].status,
   rows   |-> (old.rows \ gone) \cup edit[e].rows]

EditCommit(e) ==
  LET r == edit[e].role
  IN  /\ edit[e].pc = "commit"
      /\ setting' = [setting EXCEPT ![r] = Replaced(@, e, edit[e].seen)]
      /\ Save([saved EXCEPT ![r] = Replaced(@, e, edit[e].part)])
      /\ edit' = [edit EXCEPT ![e] = NoEdit]
      /\ UNCHANGED <<accounts, rbac, req, history>>

\* Refused, without a role or failed: nothing is left of it.
EditFails(e) ==
  /\ edit[e] # NoEdit
  /\ edit' = [edit EXCEPT ![e] = NoEdit]
  /\ UNCHANGED <<accounts, rbac, req, history, setting, view, saved>>

(***************************************************************************)
(* AuthService.toCurrentUser: the ids of the roles come with the employee, *)
(* then each role is read by a query of its own.                           *)
(***************************************************************************)
ViewBegin(v) ==
  /\ view[v].pc = "idle"
  /\ \E u \in Users :
       LET now == UNION {Gives(saved, r) : r \in given[u]}
       IN  view' = [view EXCEPT ![v] = [pc |-> "read", roles |-> given[u], left |-> given[u],
                                        got |-> {}, ever |-> now, always |-> now]]
  /\ UNCHANGED <<accounts, rbac, req, history, setting, edit, saved>>

ReadAll(r)  == {r} \X setting[r].rows
RoleRead(r) == Gives(setting, r)

ViewRole(v) ==
  /\ \E r \in view[v].left :
       view' = [view EXCEPT ![v].left = @ \ {r},
                            ![v].got = @ \cup (IF r \in Live THEN RoleRead(r) ELSE {})]
  /\ UNCHANGED <<accounts, rbac, req, history, setting, edit, saved>>

\* All roles are read, or the request fails.
ViewEnd(v) ==
  /\ view[v].pc = "read"
  /\ view' = [view EXCEPT ![v] = NoView]
  /\ UNCHANGED <<accounts, rbac, req, history, setting, edit, saved>>

-----------------------------------------------------------------------------
(***************************************************************************)
(* RbacService.createRole and deleteRole                                   *)
(***************************************************************************)
CreateRole(r) ==
  /\ role[r] = "unused"
  /\ role' = [role EXCEPT ![r] = "live"]
  /\ \E rows \in SUBSET Rows :
       /\ setting' = [setting EXCEPT ![r].rows = rows]
       /\ Save([saved EXCEPT ![r].rows = rows])
  /\ UNCHANGED <<accounts, given, latest, req, history, edit>>

DeleteBegin(q) ==
  /\ \E r \in Live : Ask(q, [NoReq EXCEPT !.pc = "count", !.roles = {r}])
  /\ UNCHANGED <<accounts, rbac, history, settings>>

Uncounted(q) == TRUE
Unused(q) == \A u \in Users : given[u] \cap req[q].roles = {}

DeleteCount(q) ==
  /\ req[q].pc = "count" /\ Unused(q)
  /\ Set(q, [req[q] EXCEPT !.pc = "delete"])
  /\ UNCHANGED <<accounts, rbac, history, settings>>

\* DELETE waits for uncommitted rows that refer to the role and for a save of it;
\* then its rows go with it.
DeleteRole(q) ==
  LET gone == req[q].roles
  IN  /\ req[q].pc = "delete" /\ gone \subseteq Live
      /\ \A p \in Reqs : (req[p].put \cup req[p].dropped) \cap gone = {}
      /\ \A r \in gone : RowFree(r)
      /\ role' = [r \in Roles |-> IF r \in gone THEN "gone" ELSE role[r]]
      /\ given' = [u \in Users |-> given[u] \ gone]
      /\ req' = [p \in Reqs |-> IF p = q THEN NoReq ELSE [req[p] EXCEPT !.snap = @ \ gone]]
      /\ setting' = [r \in Roles |-> IF r \in gone THEN New ELSE setting[r]]
      /\ Save([r \in Roles |-> IF r \in gone THEN New ELSE saved[r]])
      /\ UNCHANGED <<accounts, latest, history, edit>>

(***************************************************************************)
(* A request is refused, fails or is the victim of a deadlock: it has      *)
(* written nothing, or its transaction is rolled back.                     *)
(***************************************************************************)
Fails(q) ==
  /\ req[q] # NoReq
  /\ Done(q)
  /\ UNCHANGED <<accounts, rbac, history, settings>>

Begin(q) == \/ \E u \in Users : \/ LoginRead(q, u) \/ PasswordBegin(q, u)
                                \/ SaveBegin(q, u) \/ AssignBegin(q, u)
            \/ DeleteBegin(q)
Write(q)     == LoginWrong(q) \/ LoginRight(q) \/ PasswordCommit(q) \/ SaveWrite(q)
Assign(q)    == AssignOpen(q) \/ AssignScan(q) \/ AssignDrop(q) \/ AssignInsert(q) \/ AssignCommit(q)
Delete(q)    == DeleteCount(q) \/ DeleteRole(q)
Configure(e) == EditBegin(e) \/ EditLock(e) \/ EditReplace(e) \/ EditCommit(e) \/ EditFails(e)
Look(v)      == ViewBegin(v) \/ ViewRole(v) \/ ViewEnd(v)

Next ==
  \/ \E q \in Reqs : \/ Begin(q) \/ Write(q) \/ Assign(q) \/ Delete(q) \/ Fails(q)
  \/ \E u \in Users : LockExpires(u)
  \/ \E r \in Roles : CreateRole(r)
  \/ \E e \in Edits : Configure(e)
  \/ \E v \in Views : Look(v)

Spec == Init /\ [][Next]_vars

-----------------------------------------------------------------------------
(***************************************************************************)
(* While no login has written from a row that had changed since it was     *)
(* read, an account counts its wrong passwords one by one, is locked by    *)
(* exactly the last one allowed, and starts again at one when the lock is  *)
(* over (AuthService.login).  A correct login and a new password end the   *)
(* effect of any that had.                                                 *)
(***************************************************************************)
LockoutExact ==
  \A u \in Users : exact[u] =>
    /\ identity[u].failed = streak[u]
    /\ identity[u].lock = "off" <=> streak[u] < MaxFailed

(***************************************************************************)
(* The two flags that the password must be changed say the same, unless a  *)
(* save of the employee has written back a flag it read before a password  *)
(* was changed or reset; the next change or reset repairs that             *)
(* (updatePassword, updateEmployee).                                       *)
(***************************************************************************)
FlagsAgree == \A u \in Users : agreed[u] => flag[u] = identity[u].must

(***************************************************************************)
(* The roles of a user are those last assigned that still exist.           *)
(* Assignments that overlap may add up, since neither deletes the rows of  *)
(* the other, but nothing of an earlier one is left (setUserRoles).        *)
(***************************************************************************)
RolesAsAssigned ==
  \A u \in Users :
    /\ given[u] \subseteq (UNION latest[u]) \cap Live
    /\ \A S \in SUBSET Roles : latest[u] = {S} => given[u] = S \cap Live

(***************************************************************************)
(* Deleting a role takes it from nobody but a user to whom it was assigned *)
(* after the deletion had found it unused (deleteRole).                    *)
(***************************************************************************)
InUseStays ==
  [][\A u \in Users : \A r \in given[u] \ Live' :
       \E q \in Reqs : req[q].pc = "delete" /\ r \in req[q].roles /\ u \in req[q].late]_vars

(***************************************************************************)
(* However saves of a role overlap, its status, permissions and data       *)
(* scopes are what the saves that were committed make one after another:   *)
(* no row of a replaced part is left (updateRole).                         *)
(***************************************************************************)
SettingsAsSaved == \A r \in Live : setting[r] = saved[r]

(***************************************************************************)
(* A user is put together from several queries while roles are saved and   *)
(* deleted.  Nothing is given that none of the user's roles gave at one    *)
(* moment of the request, between two saves, in particular nothing of a    *)
(* role that was disabled all along; and nothing is missed that a role has *)
(* given all along (toCurrentUser; platform-core.md:132).                  *)
(***************************************************************************)
RightsAsSaved ==
  \A v \in Views :
    /\ view[v].got \subseteq view[v].ever
    /\ \A gift \in view[v].always : gift[1] \notin view[v].left => gift \in view[v].got
=============================================================================
