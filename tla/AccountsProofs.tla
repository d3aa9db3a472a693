--------------------------- MODULE AccountsProofs ----------------------------
(***************************************************************************)
(* Proofs about Accounts for every number of employees, roles and requests *)
(* and every limit of failed attempts.                                     *)
(***************************************************************************)
EXTENDS Accounts, TLAPS

USE MaxFailedAssumption, NilAssumption

-----------------------------------------------------------------------------
(***************************************************************************)
(* Types, and the counters they rest on.  An account that is not locked    *)
(* has attempts left; so has the row a wrong password counts from.         *)
(***************************************************************************)
Open(row) == row.lock = "off" => row.failed < MaxFailed

UserSteps == Steps \ {"idle", "count", "delete"}

WellFormed(x) ==
  /\ x \in Request
  /\ x.pc \in UserSteps => x.user \in Users
  /\ x.pc = "wrong" => x.row \in Identity /\ x.row.lock # "on" /\ Open(x.row)

ReqsWell == req \in [Reqs -> Request] /\ \A q \in Reqs : WellFormed(req[q])

Tables ==
  /\ flag \in [Users -> BOOLEAN] /\ identity \in [Users -> Identity]
  /\ \A u \in Users : Open(identity[u])
  /\ streak \in [Users -> 0..MaxFailed]
  /\ exact \in [Users -> BOOLEAN] /\ agreed \in [Users -> BOOLEAN]

RoleTables ==
  /\ role \in [Roles -> {"unused", "live", "gone"}]
  /\ given \in [Users -> SUBSET Roles] /\ latest \in [Users -> SUBSET SUBSET Roles]

AccountInv == ReqsWell /\ Tables /\ RoleTables /\ LockoutExact /\ FlagsAgree

LEMMA NoReqWell == WellFormed(NoReq)
BY DEF WellFormed, NoReq, Request, Steps, UserSteps

(* A step that replaces one request by a well-formed one.                   *)
LEMMA SetWell ==
  ASSUME ReqsWell, NEW q \in Reqs, NEW x, WellFormed(x), Set(q, x)
  PROVE  /\ ReqsWell' /\ req'[q] = x
         /\ \A p \in Reqs : p # q => req'[p] = req[p]
BY DEF ReqsWell, WellFormed, Set

LEMMA AskIsSet ==
  ASSUME NEW q \in Reqs, NEW x, Ask(q, x) PROVE Set(q, x) /\ req[q] = NoReq
BY DEF Ask, Set

LEMMA DoneWell ==
  ASSUME ReqsWell, NEW q \in Reqs, Done(q)
  PROVE  ReqsWell' /\ req'[q] = NoReq /\ \A p \in Reqs : p # q => req'[p] = req[p]
BY NoReqWell, SetWell DEF Done

LEMMA InitInv == Init => AccountInv
<1> SUFFICES ASSUME Init PROVE AccountInv
  OBVIOUS
<1>1. ReqsWell
  BY NoReqWell DEF Init, ReqsWell, WellFormed
<1>2. Tables
  BY DEF Init, Tables, Open, Identity
<1>3. RoleTables
  BY DEF Init, RoleTables
<1>4. LockoutExact /\ FlagsAgree
  <2>1. ASSUME NEW u \in Users
        PROVE  /\ identity[u].failed = 0 /\ identity[u].lock = "off" /\ identity[u].must = TRUE
               /\ streak[u] = 0 /\ flag[u] = TRUE
    BY DEF Init
  <2>2. LockoutExact
    <3>1. 0 < MaxFailed
      OBVIOUS
    <3>2. ASSUME NEW u \in Users
          PROVE  identity[u].failed = streak[u] /\ (identity[u].lock = "off" <=> streak[u] < MaxFailed)
      BY <2>1, <3>1
    <3> QED BY <3>2 DEF LockoutExact
  <2>3. FlagsAgree
    BY <2>1 DEF FlagsAgree
  <2> QED BY <2>2, <2>3
<1> QED BY <1>1, <1>2, <1>3, <1>4 DEF AccountInv

(***************************************************************************)
(* Every step of request q but the two that write to other requests too    *)
(* replaces it by a well-formed one.                                       *)
(***************************************************************************)
Single(q) == Begin(q) \/ Write(q) \/ Fails(q) \/ AssignOpen(q) \/ AssignScan(q)
             \/ AssignDrop(q) \/ AssignInsert(q) \/ DeleteCount(q)

LEMMA SingleSets ==
  ASSUME AccountInv, NEW q \in Reqs, Single(q)
  PROVE  \E x : WellFormed(x) /\ Set(q, x)
<1>t. /\ ReqsWell /\ req[q] \in Request /\ WellFormed(req[q])
      /\ identity \in [Users -> Identity] /\ \A u \in Users : Open(identity[u])
      /\ flag \in [Users -> BOOLEAN] /\ given \in [Users -> SUBSET Roles]
  BY DEF AccountInv, ReqsWell, Tables, RoleTables
<1>1. CASE Done(q)
  BY <1>1, NoReqWell DEF Done
<1>2. ASSUME NEW u \in Users, LoginRead(q, u) PROVE \E x : WellFormed(x) /\ Set(q, x)
  <2>1. PICK pc \in {"wrong", "right"} :
          Ask(q, [NoReq EXCEPT !.pc = pc, !.user = u, !.row = identity[u]])
    BY <1>2 DEF LoginRead
  <2>2. identity[u] \in Identity /\ identity[u].lock # "on" /\ Open(identity[u])
    BY <1>t, <1>2 DEF LoginRead
  <2>3. WellFormed([NoReq EXCEPT !.pc = pc, !.user = u, !.row = identity[u]])
    BY <2>2 DEF WellFormed, NoReq, Request, Steps, UserSteps
  <2> QED BY <2>1, <2>3, AskIsSet
<1>3. ASSUME NEW u \in Users, PasswordBegin(q, u) PROVE \E x : WellFormed(x) /\ Set(q, x)
  <2>1. PICK pc \in {"change", "reset"} : Ask(q, [NoReq EXCEPT !.pc = pc, !.user = u])
    BY <1>3 DEF PasswordBegin
  <2>2. WellFormed([NoReq EXCEPT !.pc = pc, !.user = u])
    BY DEF WellFormed, NoReq, Request, Steps, UserSteps
  <2> QED BY <2>1, <2>2, AskIsSet
<1>4. ASSUME NEW u \in Users, SaveBegin(q, u) PROVE \E x : WellFormed(x) /\ Set(q, x)
  <2>1. WellFormed([NoReq EXCEPT !.pc = "save", !.user = u, !.flag = flag[u]])
    BY <1>t DEF WellFormed, NoReq, Request, Steps, UserSteps
  <2> QED BY <1>4, <2>1, AskIsSet DEF SaveBegin
<1>5. ASSUME NEW u \in Users, AssignBegin(q, u) PROVE \E x : WellFormed(x) /\ Set(q, x)
  <2>1. PICK S \in SUBSET Live :
          Ask(q, [NoReq EXCEPT !.pc = "open", !.user = u, !.roles = S, !.left = S])
    BY <1>5 DEF AssignBegin
  <2>2. WellFormed([NoReq EXCEPT !.pc = "open", !.user = u, !.roles = S, !.left = S])
    BY DEF WellFormed, NoReq, Request, Steps, UserSteps, Live
  <2> QED BY <2>1, <2>2, AskIsSet
<1>6. CASE DeleteBegin(q)
  <2>1. PICK r \in Live : Ask(q, [NoReq EXCEPT !.pc = "count", !.roles = {r}])
    BY <1>6 DEF DeleteBegin
  <2>2. WellFormed([NoReq EXCEPT !.pc = "count", !.roles = {r}])
    BY DEF WellFormed, NoReq, Request, Steps, UserSteps, Live
  <2> QED BY <2>1, <2>2, AskIsSet
<1>7. CASE AssignOpen(q)
  <2>1. WellFormed([req[q] EXCEPT !.pc = "scan"])
    BY <1>t, <1>7 DEF AssignOpen, WellFormed, Request, Steps, UserSteps
  <2> QED BY <1>7, <2>1 DEF AssignOpen
<1>8. CASE AssignScan(q)
  <2>1. req[q].user \in Users
    BY <1>t, <1>8 DEF AssignScan, WellFormed, Steps, UserSteps
  <2>2. WellFormed([req[q] EXCEPT !.pc = "drop", !.snap = given[req[q].user]])
    <3>1. ASSUME NEW S \in SUBSET Roles
          PROVE  WellFormed([req[q] EXCEPT !.pc = "drop", !.snap = S])
      BY <1>t, <2>1 DEF WellFormed, Request, Steps, UserSteps
    <3> QED BY <1>t, <2>1, <3>1
  <2> QED BY <1>8, <2>2 DEF AssignScan
<1>9. CASE AssignDrop(q)
  <2>1. WellFormed([req[q] EXCEPT !.pc = "insert", !.dropped = Dropping(q), !.snap = {}])
    BY <1>t, <1>9 DEF AssignDrop, Dropping, WellFormed, Request, Steps, UserSteps
  <2> QED BY <1>9, <2>1 DEF AssignDrop
<1>10. CASE AssignInsert(q)
  <2>1. PICK r \in req[q].left :
          Set(q, [req[q] EXCEPT !.left = @ \ {r},
                    !.put = IF r \in given[req[q].user] \ req[q].dropped THEN @ ELSE @ \cup {r}])
    BY <1>10 DEF AssignInsert
  <2>2. r \in Roles
    BY <1>t DEF Request
  <2>3. ASSUME NEW P \in SUBSET Roles
        PROVE  WellFormed([req[q] EXCEPT !.left = @ \ {r}, !.put = P])
    BY <1>t, <1>10 DEF AssignInsert, WellFormed, Request, Steps, UserSteps
  <2>4. (IF r \in given[req[q].user] \ req[q].dropped THEN req[q].put ELSE req[q].put \cup {r})
           \in SUBSET Roles
    BY <1>t, <2>2 DEF Request
  <2> QED BY <2>1, <2>3, <2>4
<1>11. CASE DeleteCount(q)
  <2>1. WellFormed([req[q] EXCEPT !.pc = "delete"])
    BY <1>t DEF WellFormed, Request, Steps, UserSteps
  <2> QED BY <1>11, <2>1 DEF DeleteCount
<1> QED BY <1>1, <1>2, <1>3, <1>4, <1>5, <1>6, <1>7, <1>8, <1>9, <1>10, <1>11
        DEF Single, Begin, Write, Fails, LoginWrong, LoginRight, PasswordCommit, SaveWrite

-----------------------------------------------------------------------------
(* A row that is counted on is a row, and an account is locked by the last  *)
(* attempt it has left.                                                     *)
LEMMA CountedRow ==
  ASSUME NEW row \in Identity, row.lock # "on", Open(row), NEW must \in BOOLEAN
  PROVE  LET next == [Counted(row) EXCEPT !.must = must]
         IN  /\ next \in Identity /\ Open(next)
             /\ next.failed = IF row.lock = "over" THEN 1 ELSE row.failed + 1
             /\ next.lock = "off" <=> next.failed < MaxFailed
             /\ next.must = must
<1> DEFINE failed == (IF row.lock = "over" THEN 0 ELSE row.failed) + 1
<1>1. failed \in 1..MaxFailed
  BY DEF Identity, Open
<1>2. Counted(row) = [row EXCEPT !.failed = failed,
                                 !.lock = IF failed >= MaxFailed THEN "on" ELSE "off"]
  BY DEF Counted, Fail
<1> HIDE DEF failed
<1>3. /\ Counted(row) \in Identity /\ Counted(row).failed = failed
      /\ Counted(row).lock = IF failed >= MaxFailed THEN "on" ELSE "off"
  <2>1. ASSUME NEW f \in 0..MaxFailed, NEW l \in {"off", "on"}
        PROVE  LET x == [row EXCEPT !.failed = f, !.lock = l]
               IN  x \in Identity /\ x.failed = f /\ x.lock = l
    BY DEF Identity
  <2>2. /\ failed \in 0..MaxFailed
        /\ (IF failed >= MaxFailed THEN "on" ELSE "off") \in {"off", "on"}
    BY <1>1
  <2> QED BY <1>2, <2>1, <2>2
<1>4. ASSUME NEW x \in Identity
      PROVE  /\ [x EXCEPT !.must = must] \in Identity
             /\ [x EXCEPT !.must = must].failed = x.failed
             /\ [x EXCEPT !.must = must].lock = x.lock
             /\ [x EXCEPT !.must = must].must = must
  BY DEF Identity
<1>5. failed = IF row.lock = "over" THEN 1 ELSE row.failed + 1
  BY DEF failed, Identity
<1> QED BY <1>1, <1>3, <1>4, <1>5 DEF Open, Identity

LEMMA WritesInv ==
  ASSUME AccountInv, NEW q \in Reqs, Write(q) PROVE AccountInv'
<1>t. /\ ReqsWell /\ WellFormed(req[q]) /\ Tables /\ RoleTables /\ LockoutExact /\ FlagsAgree
  BY DEF AccountInv, ReqsWell
<1>r. ReqsWell' /\ RoleTables'
  BY <1>t, DoneWell DEF Write, LoginWrong, LoginRight, PasswordCommit, SaveWrite, RoleTables, rbac
<1> DEFINE u == req[q].user
<1>u. u \in Users /\ identity[u] \in Identity /\ req[q] \in Request
  BY <1>t DEF Write, LoginWrong, LoginRight, PasswordCommit, SaveWrite, WellFormed, UserSteps,
              Steps, Tables
<1>1. CASE LoginWrong(q)
  <2> DEFINE next == [Counted(req[q].row) EXCEPT !.must = identity[u].must]
  <2>1. identity' = [identity EXCEPT ![u] = next] /\ flag' = flag /\ agreed' = agreed
    BY <1>1 DEF LoginWrong
  <2>2. req[q].row \in Identity /\ req[q].row.lock # "on" /\ Open(req[q].row)
    BY <1>1, <1>t DEF LoginWrong, WellFormed
  <2>3. identity[u].must \in BOOLEAN
    BY <1>u DEF Identity
  <2>4. /\ next \in Identity /\ Open(next) /\ next.must = identity[u].must
        /\ next.failed = IF req[q].row.lock = "over" THEN 1 ELSE req[q].row.failed + 1
        /\ next.lock = "off" <=> next.failed < MaxFailed
    BY <2>2, <2>3, CountedRow
  <2> HIDE DEF next
  <2>5. FlagsAgree'
    BY <1>t, <1>u, <2>1, <2>4 DEF FlagsAgree, Tables
  <2>6. CASE Stale(q, u)
    <3>1. exact' = [exact EXCEPT ![u] = FALSE] /\ streak' = streak
      BY <1>1, <2>6 DEF LoginWrong
    <3>2. Tables'
      BY <1>t, <1>u, <2>1, <2>4, <3>1 DEF Tables
    <3>3. LockoutExact'
      BY <1>t, <1>u, <2>1, <3>1 DEF Tables, LockoutExact
    <3> QED BY <1>r, <2>5, <3>2, <3>3 DEF AccountInv
  <2>7. CASE ~Stale(q, u)
    <3>1. /\ req[q].row.failed = identity[u].failed /\ req[q].row.lock = identity[u].lock
      BY <2>7 DEF Stale
    <3>2. /\ exact' = exact
          /\ streak' = IF ~exact[u] THEN streak
                       ELSE [streak EXCEPT ![u] = next.failed]
      <4>1. exact[u] => identity[u].failed = streak[u]
        BY <1>t, <1>u DEF LockoutExact
      <4> QED BY <1>1, <2>7, <2>4, <3>1, <4>1 DEF LoginWrong
    <3>3. next.failed \in 0..MaxFailed
      BY <2>4 DEF Identity
    <3>4. Tables'
      BY <1>t, <1>u, <2>1, <2>4, <3>2, <3>3 DEF Tables
    <3>5. LockoutExact'
      BY <1>t, <1>u, <2>1, <2>4, <3>2 DEF Tables, LockoutExact
    <3> QED BY <1>r, <2>5, <3>4, <3>5 DEF AccountInv
  <2> QED BY <2>6, <2>7
<1>2. CASE LoginRight(q)
  <2>1. /\ identity' = [identity EXCEPT ![u].failed = 0, ![u].lock = "off"]
        /\ exact' = [exact EXCEPT ![u] = TRUE] /\ streak' = [streak EXCEPT ![u] = 0]
        /\ flag' = flag /\ agreed' = agreed
    BY <1>2 DEF LoginRight, Clear
  <2>2. /\ identity' \in [Users -> Identity]
        /\ identity'[u].failed = 0 /\ identity'[u].lock = "off"
        /\ identity'[u].must = identity[u].must
        /\ \A v \in Users : v # u => identity'[v] = identity[v]
    BY <1>t, <1>u, <2>1 DEF Tables, Identity
  <2>3. Tables'
    BY <1>t, <1>u, <2>1, <2>2 DEF Tables, Open
  <2>4. LockoutExact' /\ FlagsAgree'
    BY <1>t, <1>u, <2>1, <2>2 DEF Tables, LockoutExact, FlagsAgree
  <2> QED BY <1>r, <2>3, <2>4 DEF AccountInv
<1>3. CASE PasswordCommit(q)
  <2> DEFINE must == req[q].pc = "reset"
             next == [failed |-> 0, lock |-> "off", must |-> must]
  <2>1. /\ identity' = [identity EXCEPT ![u] = next] /\ flag' = [flag EXCEPT ![u] = must]
        /\ exact' = [exact EXCEPT ![u] = TRUE] /\ streak' = [streak EXCEPT ![u] = 0]
        /\ agreed' = [agreed EXCEPT ![u] = TRUE]
    BY <1>3 DEF PasswordCommit, UpdatePassword, Clear
  <2>2. /\ next \in Identity /\ must \in BOOLEAN /\ Open(next) /\ next.must = must
        /\ next.failed = 0 /\ next.lock = "off"
    BY DEF Identity, Open
  <2> HIDE DEF next, must
  <2>3. Tables'
    BY <1>t, <1>u, <2>1, <2>2 DEF Tables
  <2>4. LockoutExact' /\ FlagsAgree'
    BY <1>t, <1>u, <2>1, <2>2 DEF Tables, LockoutExact, FlagsAgree
  <2> QED BY <1>r, <2>3, <2>4 DEF AccountInv
<1>4. CASE SaveWrite(q)
  <2>1. /\ flag' = [flag EXCEPT ![u] = req[q].flag]
        /\ agreed' = [agreed EXCEPT ![u] = agreed[u] /\ req[q].flag = flag[u]]
        /\ identity' = identity /\ streak' = streak /\ exact' = exact
    BY <1>4 DEF SaveWrite
  <2>2. req[q].flag \in BOOLEAN
    BY <1>u DEF Request
  <2>3. Tables' /\ LockoutExact'
    BY <1>t, <1>u, <2>1, <2>2 DEF Tables, LockoutExact
  <2>4. FlagsAgree'
    BY <1>t, <1>u, <2>1 DEF Tables, FlagsAgree
  <2> QED BY <1>r, <2>3, <2>4 DEF AccountInv
<1> QED BY <1>1, <1>2, <1>3, <1>4 DEF Write

-----------------------------------------------------------------------------
(***************************************************************************)
(* The two steps that write to other requests: they keep them well-formed, *)
(* and leave accounts alone.                                               *)
(***************************************************************************)
LEMMA ToldWell ==
  ASSUME ReqsWell, NEW q \in Reqs, NEW p \in Reqs, req[q].pc = "insert" PROVE WellFormed(Told(p, q))
<1>1. WellFormed(req[p]) /\ WellFormed(req[q]) /\ req[p] \in Request /\ req[q] \in Request
  BY DEF ReqsWell
<1>2. CASE req[p].pc \in {"drop", "insert"} /\ SameUser(p, q)
  <2>1. ASSUME NEW S \in SUBSET Roles, NEW P \in SUBSET SUBSET Roles
        PROVE  WellFormed([req[p] EXCEPT !.snap = S, !.peers = P])
    BY <1>1 DEF WellFormed, Request
  <2>2. /\ req[p].snap \ req[q].dropped \in SUBSET Roles
        /\ req[p].peers \cup {req[q].roles} \in SUBSET SUBSET Roles
    BY <1>1 DEF Request
  <2> QED BY <1>2, <2>1, <2>2 DEF Told
<1>3. CASE req[p].pc = "delete"
  <2>1. ASSUME NEW U \in SUBSET Users PROVE WellFormed([req[p] EXCEPT !.late = U])
    BY <1>1 DEF WellFormed, Request
  <2>2. req[q].user \in Users /\ req[p].late \cup {req[q].user} \in SUBSET Users
    BY <1>1 DEF WellFormed, UserSteps, Steps, Request
  <2>3. Told(p, q) = [req[p] EXCEPT !.late = req[p].late \cup {req[q].user}]
    BY <1>3 DEF Told
  <2> QED BY <2>1, <2>2, <2>3
<1>4. CASE ~(req[p].pc \in {"drop", "insert"} /\ SameUser(p, q)) /\ req[p].pc # "delete"
  BY <1>1, <1>4 DEF Told
<1> QED BY <1>2, <1>3, <1>4

LEMMA CommitInv ==
  ASSUME AccountInv, NEW q \in Reqs, AssignCommit(q) PROVE AccountInv'
<1>t. /\ ReqsWell /\ Tables /\ RoleTables /\ LockoutExact /\ FlagsAgree
      /\ WellFormed(req[q]) /\ req[q] \in Request /\ req[q].pc = "insert"
  BY DEF AccountInv, ReqsWell, AssignCommit
<1>1. ReqsWell'
  <2>1. req' = [p \in Reqs |-> IF p = q THEN NoReq ELSE Told(p, q)]
    BY DEF AssignCommit
  <2>2. \A p \in Reqs : WellFormed(req'[p])
    BY <1>t, <2>1, ToldWell, NoReqWell
  <2>3. \A p \in Reqs : req'[p] \in Request
    BY <2>2 DEF WellFormed
  <2> QED BY <2>1, <2>2, <2>3 DEF ReqsWell, WellFormed
<1>2. RoleTables'
  <2> DEFINE u == req[q].user
             G == (given[u] \ req[q].dropped) \cup req[q].put
             L == req[q].peers \cup {req[q].roles}
  <2>1. u \in Users /\ G \in SUBSET Roles /\ L \in SUBSET SUBSET Roles
    BY <1>t DEF WellFormed, UserSteps, Steps, Request, RoleTables
  <2>2. given' = [given EXCEPT ![u] = G] /\ latest' = [latest EXCEPT ![u] = L] /\ role' = role
    BY DEF AssignCommit
  <2> HIDE DEF u, G, L
  <2> QED BY <1>t, <2>1, <2>2 DEF RoleTables
<1>3. Tables' /\ LockoutExact' /\ FlagsAgree'
  BY <1>t DEF AssignCommit, accounts, history, Tables, LockoutExact, FlagsAgree
<1> QED BY <1>1, <1>2, <1>3 DEF AccountInv

LEMMA DeleteRoleInv ==
  ASSUME AccountInv, NEW q \in Reqs, DeleteRole(q) PROVE AccountInv'
<1>t. ReqsWell /\ Tables /\ RoleTables /\ LockoutExact /\ FlagsAgree
  BY DEF AccountInv
<1> DEFINE gone == req[q].roles
<1>0. /\ role' = [r \in Roles |-> IF r \in gone THEN "gone" ELSE role[r]]
      /\ given' = [u \in Users |-> given[u] \ gone] /\ latest' = latest
      /\ req' = [p \in Reqs |-> IF p = q THEN NoReq ELSE [req[p] EXCEPT !.snap = req[p].snap \ gone]]
  BY DEF DeleteRole
<1>1. ReqsWell'
  <2>1. ASSUME NEW p \in Reqs PROVE WellFormed([req[p] EXCEPT !.snap = req[p].snap \ gone])
    <3>1. ASSUME NEW S \in SUBSET Roles PROVE WellFormed([req[p] EXCEPT !.snap = S])
      BY <1>t DEF ReqsWell, WellFormed, Request
    <3>2. req[p].snap \ gone \in SUBSET Roles
      BY <1>t DEF ReqsWell, Request
    <3> QED BY <3>1, <3>2
  <2>2. \A p \in Reqs : WellFormed(req'[p])
    BY <1>0, <2>1, NoReqWell
  <2>3. \A p \in Reqs : req'[p] \in Request
    BY <2>2 DEF WellFormed
  <2> QED BY <1>0, <2>2, <2>3 DEF ReqsWell, WellFormed
<1>2. RoleTables'
  BY <1>t, <1>0 DEF RoleTables
<1>3. Tables' /\ LockoutExact' /\ FlagsAgree'
  BY <1>t DEF DeleteRole, accounts, history, Tables, LockoutExact, FlagsAgree
<1> QED BY <1>1, <1>2, <1>3 DEF AccountInv

LEMMA LockExpiresInv ==
  ASSUME AccountInv, NEW u \in Users, LockExpires(u) PROVE AccountInv'
<1>t. ReqsWell /\ Tables /\ RoleTables /\ LockoutExact /\ FlagsAgree
  BY DEF AccountInv
<1>0. /\ identity' = [identity EXCEPT ![u].lock = "over"] /\ identity[u].lock = "on"
      /\ flag' = flag /\ streak' = streak /\ exact' = exact /\ agreed' = agreed
  BY DEF LockExpires, history
<1>1. /\ identity' \in [Users -> Identity]
      /\ identity'[u].lock = "over" /\ identity'[u].failed = identity[u].failed
      /\ identity'[u].must = identity[u].must
      /\ \A v \in Users : v # u => identity'[v] = identity[v]
  BY <1>t, <1>0 DEF Tables, Identity
<1>2. Tables'
  BY <1>t, <1>0, <1>1 DEF Tables, Open
<1>3. LockoutExact' /\ FlagsAgree'
  BY <1>t, <1>0, <1>1 DEF LockoutExact, FlagsAgree
<1>4. ReqsWell' /\ RoleTables'
  BY <1>t DEF LockExpires, rbac, ReqsWell, WellFormed, RoleTables
<1> QED BY <1>2, <1>3, <1>4 DEF AccountInv

LEMMA CreateRoleInv ==
  ASSUME AccountInv, NEW r \in Roles, CreateRole(r) PROVE AccountInv'
<1>t. ReqsWell /\ Tables /\ RoleTables /\ LockoutExact /\ FlagsAgree
  BY DEF AccountInv
<1>1. RoleTables'
  BY <1>t DEF CreateRole, RoleTables
<1>2. ReqsWell' /\ Tables' /\ LockoutExact' /\ FlagsAgree'
  BY <1>t DEF CreateRole, accounts, history, ReqsWell, WellFormed, Tables, LockoutExact, FlagsAgree
<1> QED BY <1>1, <1>2 DEF AccountInv

(* Every other step of one request sets that request only.                  *)
Quiet(q) == Single(q) /\ UNCHANGED <<accounts, rbac, history>>

LEMMA QuietInv ==
  ASSUME AccountInv, NEW q \in Reqs, Quiet(q) PROVE AccountInv'
<1>1. ReqsWell'
  BY SingleSets, SetWell DEF Quiet, AccountInv
<1>2. Tables' /\ RoleTables' /\ LockoutExact' /\ FlagsAgree'
  BY DEF AccountInv, Quiet, accounts, rbac, history, Tables, RoleTables, LockoutExact, FlagsAgree
<1> QED BY <1>1, <1>2 DEF AccountInv

(* Saves of settings and views of them touch nothing else.                  *)
Apart == UNCHANGED <<accounts, rbac, req, history>>

LEMMA ApartInv == ASSUME AccountInv, Apart PROVE AccountInv'
BY DEF Apart, accounts, rbac, history, AccountInv, ReqsWell, WellFormed, Tables, RoleTables,
       LockoutExact, FlagsAgree

LEMMA ConfigureApart ==
  /\ \A e \in Edits : Configure(e) => Apart
  /\ \A v \in Views : Look(v) => Apart
BY DEF Apart, Configure, EditBegin, EditLock, EditReplace, EditCommit, EditFails,
       Look, ViewBegin, ViewRole, ViewEnd

(* The steps, sorted by what they write.                                    *)
LEMMA StepCases ==
  ASSUME Next
  PROVE  \/ \E q \in Reqs : Write(q) \/ Quiet(q) \/ AssignCommit(q) \/ DeleteRole(q)
         \/ \E u \in Users : LockExpires(u)
         \/ \E r \in Roles : CreateRole(r)
         \/ Apart
<1>1. ASSUME NEW q \in Reqs, Begin(q) \/ Assign(q) \/ Delete(q) \/ Fails(q)
      PROVE  Quiet(q) \/ AssignCommit(q) \/ DeleteRole(q)
  BY <1>1 DEF Quiet, Single, Begin, Assign, Delete, Fails, LoginRead, PasswordBegin, SaveBegin,
     AssignBegin, DeleteBegin, AssignOpen, AssignScan, AssignDrop, AssignInsert, DeleteCount
<1> QED BY <1>1, ConfigureApart DEF Next

LEMMA NextInv == AccountInv /\ [Next]_vars => AccountInv'
<1> SUFFICES ASSUME AccountInv, [Next]_vars PROVE AccountInv'
  OBVIOUS
<1>1. CASE Next
  BY <1>1, StepCases, WritesInv, QuietInv, CommitInv, DeleteRoleInv, LockExpiresInv, CreateRoleInv,
     ApartInv
<1>2. CASE UNCHANGED vars
  BY <1>2, ApartInv DEF vars, Apart
<1> QED BY <1>1, <1>2

LEMMA AccountsInvariant == Spec => []AccountInv
<1> QED BY InitInv, NextInv, PTL DEF Spec

(***************************************************************************)
(* However many logins of one account run at once, its counter and its     *)
(* lock are exact as long as none has written from a row that changed      *)
(* under it (AuthService.login).                                           *)
(***************************************************************************)
THEOREM LockoutIsExact == Spec => []LockoutExact
<1>1. AccountInv => LockoutExact
  BY DEF AccountInv
<1> QED BY <1>1, AccountsInvariant, PTL

(***************************************************************************)
(* The flag of the employee and that of the identity agree but for a save  *)
(* that wrote an old flag back (updatePassword, updateEmployee).           *)
(***************************************************************************)
THEOREM FlagsStayTogether == Spec => []FlagsAgree
<1>1. AccountInv => FlagsAgree
  BY DEF AccountInv
<1> QED BY <1>1, AccountsInvariant, PTL

-----------------------------------------------------------------------------
(***************************************************************************)
(* Roles.  What an assignment has locked is still there, and what it found *)
(* and did not delete was assigned meanwhile by one it overlaps.  g and ro *)
(* are given and role.                                                     *)
(***************************************************************************)
LiveIn(ro) == {r \in Roles : ro[r] = "live"}
UsedIn(ro) == {r \in Roles : ro[r] # "unused"}

Among(R, P) == \A r \in R : \E Y \in P : r \in Y

Inserting(x, G, L) ==
  /\ x.dropped \subseteq G /\ Among(G \ x.dropped, x.peers)
  /\ x.put \subseteq x.roles \cap L /\ x.put \cap G \subseteq x.dropped
  /\ (x.roles \ x.left) \cap x.dropped \subseteq x.put
  /\ \A r \in (x.roles \ x.left) \cap L :
       r \in x.put \/ r \in G \ x.dropped \/ \E Y \in x.peers : r \notin Y

AssignSteps == {"open", "scan", "drop", "insert"}

Sound(x, g, ro) ==
  /\ x.left \subseteq x.roles
  /\ x.pc \in AssignSteps => x.roles \subseteq UsedIn(ro)
  /\ \A Y \in x.peers : Y \subseteq UsedIn(ro)
  /\ x.pc # "insert" => x.put = {} /\ x.dropped = {}
  /\ x.pc # "drop" => x.snap = {}
  /\ x.pc = "drop" => x.snap \subseteq g[x.user] /\ Among(g[x.user] \ x.snap, x.peers) /\ x.left = x.roles
  /\ x.pc \in {"open", "scan"} => x.left = x.roles /\ x.peers = {}
  /\ x.pc = "insert" => Inserting(x, g[x.user], LiveIn(ro))
  /\ x.pc = "delete" => \A u \in Users : g[u] \cap x.roles # {} => u \in x.late

\* Two assignments to one user lock different rows.
Aside(x, y) ==
  x.put \cap y.put = {} /\ x.dropped \cap y.dropped = {}
  /\ x.put \cap y.dropped = {} /\ y.put \cap x.dropped = {}

Assigned(G, S, ro) ==
  /\ G \subseteq LiveIn(ro) /\ Among(G, S)
  /\ \A Y \in S : Y \subseteq UsedIn(ro)
  /\ \A Y \in SUBSET Roles : S = {Y} => G = Y \cap LiveIn(ro)

RoleInv ==
  /\ \A u \in Users : Assigned(given[u], latest[u], role)
  /\ \A q \in Reqs : Sound(req[q], given, role)
  /\ \A p, q \in Reqs : SameUser(p, q) => Aside(req[p], req[q])

LEMMA NoReqSound == ASSUME NEW g, NEW ro PROVE Sound(NoReq, g, ro)
BY DEF Sound, NoReq, AssignSteps

LEMMA RoleInit == Init => RoleInv
<1> SUFFICES ASSUME Init PROVE RoleInv
  OBVIOUS
<1>1. ASSUME NEW q \in Reqs PROVE req[q] = NoReq
  BY DEF Init
<1>2. \A u \in Users : Assigned(given[u], latest[u], role)
  <2>1. ASSUME NEW u \in Users PROVE given[u] = {} /\ latest[u] = {{}}
    BY DEF Init
  <2>2. Assigned({}, {{}}, role)
    BY DEF Assigned, Among
  <2> QED BY <2>1, <2>2
<1>3. \A p, q \in Reqs : Aside(req[p], req[q])
  BY <1>1 DEF Aside, NoReq
<1> QED BY <1>1, <1>2, <1>3, NoReqSound DEF RoleInv

(***************************************************************************)
(* A step that sets one request to a sound one which is aside from the     *)
(* others of its user, and changes no role, keeps the invariant.           *)
(***************************************************************************)
LEMMA RoleSet ==
  ASSUME AccountInv, RoleInv, NEW q \in Reqs, NEW x, Set(q, x), UNCHANGED rbac,
         Sound(x, given, role),
         \A p \in Reqs : p # q /\ req[p].user = x.user => Aside(req[p], x)
  PROVE  RoleInv'
<1>1. req'[q] = x /\ \A p \in Reqs : p # q => req'[p] = req[p]
  BY DEF Set, AccountInv, ReqsWell
<1>2. given' = given /\ role' = role /\ latest' = latest
  BY DEF rbac
<1>3. \A u \in Users : Assigned(given[u], latest[u], role)'
  BY <1>2 DEF RoleInv
<1>4. \A p \in Reqs : Sound(req'[p], given', role')
  BY <1>1, <1>2 DEF RoleInv
<1>5. ASSUME NEW p1 \in Reqs, NEW p2 \in Reqs, SameUser(p1, p2)' PROVE Aside(req'[p1], req'[p2])
  <2>1. ASSUME NEW a, NEW b, Aside(a, b) PROVE Aside(b, a)
    BY <2>1 DEF Aside
  <2>2. CASE p1 = q
    BY <1>1, <1>5, <2>1, <2>2 DEF SameUser
  <2>3. CASE p2 = q
    BY <1>1, <1>5, <2>3 DEF SameUser
  <2>4. CASE p1 # q /\ p2 # q
    BY <1>1, <1>5, <2>4 DEF SameUser, RoleInv
  <2> QED BY <2>2, <2>3, <2>4
<1> QED BY <1>3, <1>4, <1>5 DEF RoleInv

LEMMA AsideEmpty ==
  ASSUME NEW x, NEW y, x.put = {}, x.dropped = {} PROVE Aside(y, x)
BY DEF Aside

LEMMA RoleWrite ==
  ASSUME AccountInv, RoleInv, NEW q \in Reqs, Write(q) \/ Fails(q) PROVE RoleInv'
<1>1. Set(q, NoReq) /\ UNCHANGED rbac
  BY DEF Write, Fails, LoginWrong, LoginRight, PasswordCommit, SaveWrite, Done
<1>2. \A y : Aside(y, NoReq)
  BY AsideEmpty DEF NoReq
<1> QED BY <1>1, <1>2, NoReqSound, RoleSet

LEMMA RoleBegin ==
  ASSUME AccountInv, RoleInv, NEW q \in Reqs, Begin(q) PROVE RoleInv'
<1>0. UNCHANGED rbac
  BY DEF Begin, LoginRead, PasswordBegin, SaveBegin, AssignBegin, DeleteBegin
<1>1. ASSUME NEW u \in Users, LoginRead(q, u) PROVE RoleInv'
  <2>1. PICK pc \in {"wrong", "right"} :
          Ask(q, [NoReq EXCEPT !.pc = pc, !.user = u, !.row = identity[u]])
    BY <1>1 DEF LoginRead
  <2> DEFINE x == [NoReq EXCEPT !.pc = pc, !.user = u, !.row = identity[u]]
  <2>2. Sound(x, given, role) /\ x.put = {} /\ x.dropped = {}
    BY DEF Sound, NoReq, AssignSteps
  <2> QED BY <1>0, <2>1, <2>2, AskIsSet, AsideEmpty, RoleSet
<1>2. ASSUME NEW u \in Users, PasswordBegin(q, u) PROVE RoleInv'
  <2>1. PICK pc \in {"change", "reset"} : Ask(q, [NoReq EXCEPT !.pc = pc, !.user = u])
    BY <1>2 DEF PasswordBegin
  <2> DEFINE x == [NoReq EXCEPT !.pc = pc, !.user = u]
  <2>2. Sound(x, given, role) /\ x.put = {} /\ x.dropped = {}
    BY DEF Sound, NoReq, AssignSteps
  <2> QED BY <1>0, <2>1, <2>2, AskIsSet, AsideEmpty, RoleSet
<1>3. ASSUME NEW u \in Users, SaveBegin(q, u) PROVE RoleInv'
  <2> DEFINE x == [NoReq EXCEPT !.pc = "save", !.user = u, !.flag = flag[u]]
  <2>1. Ask(q, x)
    BY <1>3 DEF SaveBegin
  <2>2. Sound(x, given, role) /\ x.put = {} /\ x.dropped = {}
    BY DEF Sound, NoReq, AssignSteps
  <2> QED BY <1>0, <2>1, <2>2, AskIsSet, AsideEmpty, RoleSet
<1>4. ASSUME NEW u \in Users, AssignBegin(q, u) PROVE RoleInv'
  <2>1. PICK S \in SUBSET Live :
          Ask(q, [NoReq EXCEPT !.pc = "open", !.user = u, !.roles = S, !.left = S])
    BY <1>4 DEF AssignBegin
  <2> DEFINE x == [NoReq EXCEPT !.pc = "open", !.user = u, !.roles = S, !.left = S]
  <2>2. S \subseteq UsedIn(role)
    BY DEF Live, UsedIn
  <2>3. Sound(x, given, role) /\ x.put = {} /\ x.dropped = {}
    BY <2>2 DEF Sound, NoReq, AssignSteps
  <2> QED BY <1>0, <2>1, <2>3, AskIsSet, AsideEmpty, RoleSet
<1>5. CASE DeleteBegin(q)
  <2>1. PICK r \in Live : Ask(q, [NoReq EXCEPT !.pc = "count", !.roles = {r}])
    BY <1>5 DEF DeleteBegin
  <2> DEFINE x == [NoReq EXCEPT !.pc = "count", !.roles = {r}]
  <2>2. Sound(x, given, role) /\ x.put = {} /\ x.dropped = {}
    BY DEF Sound, NoReq, AssignSteps
  <2> QED BY <1>0, <2>1, <2>2, AskIsSet, AsideEmpty, RoleSet
<1> QED BY <1>1, <1>2, <1>3, <1>4, <1>5 DEF Begin

LEMMA RoleAssign ==
  ASSUME AccountInv, RoleInv, NEW q \in Reqs,
         AssignOpen(q) \/ AssignScan(q) \/ AssignDrop(q) \/ AssignInsert(q) \/ DeleteCount(q)
  PROVE  RoleInv'
<1> DEFINE u == req[q].user
<1>0. UNCHANGED rbac
  BY DEF AssignOpen, AssignScan, AssignDrop, AssignInsert, DeleteCount
<1>t. /\ req[q] \in Request /\ Sound(req[q], given, role)
      /\ \A p \in Reqs : SameUser(p, q) => Aside(req[p], req[q])
      /\ \A p \in Reqs : Sound(req[p], given, role)
  BY DEF AccountInv, ReqsWell, RoleInv
<1>1. CASE AssignOpen(q)
  <2> DEFINE x == [req[q] EXCEPT !.pc = "scan"]
  <2>1. Set(q, x) /\ req[q].pc = "open"
    BY <1>1 DEF AssignOpen
  <2>2. Sound(x, given, role) /\ x.put = {} /\ x.dropped = {}
    BY <1>t, <2>1 DEF Sound, Request, AssignSteps
  <2> QED BY <1>0, <2>1, <2>2, AsideEmpty, RoleSet
<1>2. CASE AssignScan(q)
  <2> DEFINE x == [req[q] EXCEPT !.pc = "drop", !.snap = given[u]]
  <2>1. Set(q, x) /\ req[q].pc = "scan"
    BY <1>2 DEF AssignScan
  <2>2. Sound(x, given, role) /\ x.put = {} /\ x.dropped = {}
    BY <1>t, <2>1 DEF Sound, Request, AssignSteps, Among
  <2> QED BY <1>0, <2>1, <2>2, AsideEmpty, RoleSet
<1>3. CASE AssignDrop(q)
  <2> DEFINE x == [req[q] EXCEPT !.pc = "insert", !.dropped = Dropping(q), !.snap = {}]
  <2>1. /\ Set(q, x) /\ req[q].pc = "drop"
        /\ \A p \in Reqs : SameUser(p, q) => req[p].dropped \cap req[q].snap = {}
    BY <1>3 DEF AssignDrop
  <2>2. /\ x.pc = "insert" /\ x.put = {} /\ x.dropped = req[q].snap /\ x.snap = {} /\ x.left = x.roles
        /\ x.user = u /\ x.roles = req[q].roles /\ x.peers = req[q].peers /\ x.late = req[q].late
    BY <1>t, <2>1 DEF Sound, Request, Dropping
  <2> HIDE DEF x
  <2>3. Inserting(x, given[u], LiveIn(role))
    BY <1>t, <2>1, <2>2 DEF Sound, Inserting
  <2>4. Sound(x, given, role)
    BY <1>t, <2>1, <2>2, <2>3 DEF Sound, AssignSteps
  <2>5. ASSUME NEW p \in Reqs, p # q, req[p].user = x.user PROVE Aside(req[p], x)
    <3>1. req[p].dropped \cap x.dropped = {}
      BY <2>1, <2>2, <2>5 DEF SameUser
    <3>2. req[p].put \cap given[u] \subseteq req[p].dropped
      <4>1. Sound(req[p], given, role) /\ req[p].user = u
        BY <1>t, <2>2, <2>5
      <4>2. CASE req[p].pc = "insert"
        <5>1. Inserting(req[p], given[u], LiveIn(role))
          BY <4>1, <4>2 DEF Sound
        <5> QED BY <5>1 DEF Inserting
      <4>3. CASE req[p].pc # "insert"
        BY <4>1, <4>3 DEF Sound
      <4> QED BY <4>2, <4>3
    <3>3. x.dropped \subseteq given[u]
      BY <1>t, <2>1, <2>2 DEF Sound
    <3> QED BY <2>2, <3>1, <3>2, <3>3 DEF Aside
  <2> QED BY <1>0, <2>1, <2>4, <2>5, RoleSet
<1>4. CASE AssignInsert(q)
  <2>1. PICK r \in req[q].left :
          /\ \A p \in Reqs : SameUser(p, q) => r \notin req[p].put \cup req[p].dropped
          /\ r \in given[u] \ req[q].dropped \/ r \in Live
          /\ Set(q, [req[q] EXCEPT !.left = @ \ {r},
                       !.put = IF r \in given[u] \ req[q].dropped THEN @ ELSE @ \cup {r}])
    BY <1>4 DEF AssignInsert
  <2> DEFINE put == IF r \in given[u] \ req[q].dropped THEN req[q].put ELSE req[q].put \cup {r}
             x == [req[q] EXCEPT !.left = req[q].left \ {r}, !.put = put]
  <2>2. Set(q, x) /\ req[q].pc = "insert"
    BY <2>1, <1>4 DEF AssignInsert
  <2>3. /\ x.pc = "insert" /\ x.put = put /\ x.left = req[q].left \ {r} /\ x.snap = req[q].snap
        /\ x.dropped = req[q].dropped /\ x.user = u /\ x.roles = req[q].roles
        /\ x.peers = req[q].peers /\ x.late = req[q].late
    BY <1>t, <2>2 DEF Request
  <2>4. r \in req[q].roles /\ (r \in given[u] \ req[q].dropped \/ r \in LiveIn(role))
    BY <1>t, <2>1 DEF Sound, Live, LiveIn
  <2> HIDE DEF x
  <2>5. Inserting(x, given[u], LiveIn(role))
    <3>1. Inserting(req[q], given[u], LiveIn(role))
      BY <1>t, <2>2 DEF Sound
    <3>2. CASE r \in given[u] \ req[q].dropped
      BY <2>3, <2>4, <3>1, <3>2 DEF Inserting
    <3>3. CASE r \notin given[u] \ req[q].dropped
      BY <2>3, <2>4, <3>1, <3>3 DEF Inserting
    <3> QED BY <3>2, <3>3
  <2>6. Sound(x, given, role)
    BY <1>t, <2>2, <2>3, <2>5 DEF Sound, AssignSteps
  <2>7. ASSUME NEW p \in Reqs, p # q, req[p].user = x.user PROVE Aside(req[p], x)
    <3>1. r \notin req[p].put \cup req[p].dropped /\ Aside(req[p], req[q])
      BY <1>t, <2>1, <2>3, <2>7 DEF SameUser
    <3> QED BY <2>3, <3>1 DEF Aside
  <2> QED BY <1>0, <2>2, <2>6, <2>7, RoleSet
<1>5. CASE DeleteCount(q)
  <2> DEFINE x == [req[q] EXCEPT !.pc = "delete"]
  <2>1. Set(q, x) /\ req[q].pc = "count" /\ Unused(q)
    BY <1>5 DEF DeleteCount
  <2>2. Sound(x, given, role) /\ x.put = {} /\ x.dropped = {}
    BY <1>t, <2>1 DEF Sound, Request, AssignSteps, Unused
  <2> QED BY <1>0, <2>1, <2>2, AsideEmpty, RoleSet
<1> QED BY <1>1, <1>2, <1>3, <1>4, <1>5

(***************************************************************************)
(* The commit of q as the other requests see it.                           *)
(***************************************************************************)
LEMMA CommitOfAnother ==
  ASSUME AccountInv, RoleInv, NEW q \in Reqs, AssignCommit(q), NEW p \in Reqs, p # q
  PROVE  /\ Sound(req'[p], given', role')
         /\ req'[p].user = req[p].user /\ req'[p].put = req[p].put
         /\ req'[p].dropped = req[p].dropped
<1> DEFINE u == req[q].user
           x == req[p]
           y == req[q]
           G == given[u]
           G2 == (G \ y.dropped) \cup y.put
<1>0. /\ req'[p] = Told(p, q) /\ role' = role /\ y.pc = "insert" /\ y.left = {}
      /\ given' = [given EXCEPT ![u] = G2]
  BY DEF AssignCommit
<1>t. /\ x \in Request /\ y \in Request /\ u \in Users /\ G \in SUBSET Roles
      /\ given \in [Users -> SUBSET Roles]
      /\ Sound(x, given, role) /\ Sound(y, given, role)
  BY <1>0 DEF AccountInv, ReqsWell, WellFormed, UserSteps, Steps, RoleInv, RoleTables
<1>g. given'[u] = G2 /\ \A v \in Users : v # u => given'[v] = given[v]
  BY <1>0, <1>t
<1>y. Inserting(y, G, LiveIn(role)) /\ y.roles \subseteq UsedIn(role)
  BY <1>0, <1>t DEF Sound, AssignSteps
<1> HIDE DEF G2
<1>1. CASE x.pc \in {"drop", "insert"} /\ SameUser(p, q)
  <2> DEFINE z == [x EXCEPT !.snap = x.snap \ y.dropped, !.peers = x.peers \cup {y.roles}]
  <2>1. /\ req'[p] = z /\ z.pc = x.pc /\ z.user = u /\ x.user = u /\ z.roles = x.roles /\ z.left = x.left
        /\ z.put = x.put /\ z.dropped = x.dropped /\ z.late = x.late
        /\ z.snap = x.snap \ y.dropped /\ z.peers = x.peers \cup {y.roles}
    BY <1>0, <1>1, <1>t DEF Told, Request, SameUser
  <2> HIDE DEF z, x, y, G
  <2>2. Aside(x, y)
    BY <1>1 DEF RoleInv, x, y
  <2>3. \A Y \in z.peers : Y \subseteq UsedIn(role)
    BY <1>t, <1>y, <2>1 DEF Sound
  <2>4. ASSUME NEW D \in SUBSET Roles, Among(G \ D, x.peers)
        PROVE  Among(G2 \ (D \ y.dropped), z.peers) /\ Among(G2 \ D, z.peers)
    BY <1>y, <2>1, <2>4 DEF Among, Inserting, G2
  <2>5. CASE x.pc = "drop"
    <3>1. x.snap \subseteq G /\ Among(G \ x.snap, x.peers) /\ x.left = x.roles
      BY <1>t, <2>1, <2>5 DEF Sound, G
    <3>2. z.snap \subseteq G2 /\ Among(G2 \ z.snap, z.peers)
      BY <1>t, <2>1, <2>4, <3>1 DEF G2
    <3> QED BY <1>0, <1>t, <1>g, <2>1, <2>3, <2>5, <3>1, <3>2 DEF Sound, AssignSteps, x
  <2>6. CASE x.pc = "insert"
    <3>1. Inserting(x, G, LiveIn(role))
      BY <1>t, <2>1, <2>6 DEF Sound, G
    <3>2. x.dropped \subseteq G2 /\ x.put \cap G2 \subseteq x.dropped
      BY <2>2, <3>1 DEF Inserting, Aside, G2
    <3>3. x.dropped \in SUBSET Roles
      BY <1>t, <3>1 DEF Inserting, G
    <3>4. Among(G2 \ z.dropped, z.peers)
      BY <2>1, <2>4, <3>1, <3>3 DEF Inserting
    <3>5. ASSUME NEW r \in (z.roles \ z.left) \cap LiveIn(role)
          PROVE  r \in z.put \/ r \in G2 \ z.dropped \/ \E Y \in z.peers : r \notin Y
      <4>1. r \in x.put \/ r \in G \ x.dropped \/ \E Y \in x.peers : r \notin Y
        BY <2>1, <3>1 DEF Inserting
      <4>2. CASE r \in G \ x.dropped /\ r \notin G2
        <5>1. r \in y.dropped /\ r \notin y.put
          BY <4>2 DEF G2
        <5>2. r \notin y.roles
          BY <1>0, <1>y, <5>1 DEF Inserting, y
        <5> QED BY <2>1, <5>2
      <4> QED BY <2>1, <4>1, <4>2
    <3>6. Inserting(z, G2, LiveIn(role))
      BY <2>1, <3>1, <3>2, <3>4, <3>5 DEF Inserting
    <3> QED BY <1>0, <1>t, <1>g, <2>1, <2>3, <2>6, <3>6 DEF Sound, AssignSteps, x
  <2> QED BY <1>1, <2>1, <2>5, <2>6 DEF x
<1>2. CASE x.pc = "delete"
  <2> DEFINE z == [x EXCEPT !.late = x.late \cup {u}]
  <2>1. /\ req'[p] = z /\ z.pc = x.pc /\ z.user = x.user /\ z.roles = x.roles /\ z.left = x.left
        /\ z.put = x.put /\ z.dropped = x.dropped /\ z.peers = x.peers /\ z.snap = x.snap
        /\ z.late = x.late \cup {u}
    BY <1>0, <1>2, <1>t DEF Told, Request
  <2> HIDE DEF z
  <2> QED BY <1>0, <1>t, <1>g, <1>2, <2>1 DEF Sound, AssignSteps
<1>3. CASE ~(x.pc \in {"drop", "insert"} /\ SameUser(p, q)) /\ x.pc # "delete"
  <2>1. req'[p] = x
    BY <1>0, <1>3 DEF Told
  <2>2. x.pc \in {"drop", "insert"} => x.user \in Users /\ x.user # u
    BY <1>3 DEF SameUser, AccountInv, ReqsWell, WellFormed, UserSteps, Steps
  <2>3. x.pc \in {"drop", "insert"} => given'[x.user] = given[x.user]
    BY <1>g, <2>2
  <2> QED BY <1>0, <1>t, <1>3, <2>1, <2>3 DEF Sound, AssignSteps
<1> QED BY <1>1, <1>2, <1>3

LEMMA RoleCommit ==
  ASSUME AccountInv, RoleInv, NEW q \in Reqs, AssignCommit(q) PROVE RoleInv'
<1> DEFINE u == req[q].user
           y == req[q]
           G == given[u]
           G2 == (G \ y.dropped) \cup y.put
           L == LiveIn(role)
<1>0. /\ role' = role /\ y.pc = "insert" /\ y.left = {} /\ req'[q] = NoReq
      /\ given' = [given EXCEPT ![u] = G2]
      /\ latest' = [latest EXCEPT ![u] = y.peers \cup {y.roles}]
  BY DEF AssignCommit
<1>t. /\ u \in Users /\ G \in SUBSET Roles /\ y \in Request
      /\ given \in [Users -> SUBSET Roles] /\ latest \in [Users -> SUBSET SUBSET Roles]
      /\ Sound(y, given, role) /\ \A v \in Users : Assigned(given[v], latest[v], role)
  BY <1>0 DEF AccountInv, ReqsWell, WellFormed, UserSteps, Steps, RoleInv, RoleTables
<1>1. /\ given'[u] = G2 /\ \A v \in Users : v # u => given'[v] = given[v]
      /\ latest'[u] = y.peers \cup {y.roles} /\ \A v \in Users : v # u => latest'[v] = latest[v]
  BY <1>0, <1>t
<1>2. Inserting(y, G, L) /\ y.roles \subseteq UsedIn(role) /\ \A Y \in y.peers : Y \subseteq UsedIn(role)
  BY <1>0, <1>t DEF Sound, AssignSteps
<1>3. Assigned(G2, y.peers \cup {y.roles}, role)
  <2>1. G \subseteq L
    BY <1>t DEF Assigned
  <2>2. G2 \subseteq L /\ Among(G2, y.peers \cup {y.roles})
    BY <1>2, <2>1 DEF Inserting, Among
  <2>3. ASSUME NEW Y \in SUBSET Roles, y.peers \cup {y.roles} = {Y} PROVE G2 = Y \cap L
    <3>1. Y = y.roles /\ \A Z \in y.peers : Z = Y
      BY <2>3
    <3>2. G2 \subseteq Y \cap L
      BY <2>2, <2>3, <3>1 DEF Among
    <3>3. ASSUME NEW r \in Y \cap L PROVE r \in G2
      BY <1>0, <1>2, <3>1, <3>3 DEF Inserting
    <3> QED BY <3>2, <3>3
  <2> QED BY <1>2, <2>2, <2>3 DEF Assigned
<1>4. \A v \in Users : Assigned(given'[v], latest'[v], role')
  BY <1>0, <1>t, <1>1, <1>3
<1>5. \A p \in Reqs : Sound(req'[p], given', role')
  BY <1>0, NoReqSound, CommitOfAnother
<1>6. ASSUME NEW p1 \in Reqs, NEW p2 \in Reqs, SameUser(p1, p2)' PROVE Aside(req'[p1], req'[p2])
  <2>1. CASE p1 = q \/ p2 = q
    BY <1>0, <2>1 DEF Aside, NoReq
  <2>2. CASE p1 # q /\ p2 # q
    <3>1. SameUser(p1, p2)
      BY <1>6, <2>2, CommitOfAnother DEF SameUser
    <3>2. Aside(req[p1], req[p2])
      BY <3>1 DEF RoleInv
    <3> QED BY <2>2, <3>2, CommitOfAnother DEF Aside
  <2> QED BY <2>1, <2>2
<1> QED BY <1>4, <1>5, <1>6 DEF RoleInv

LEMMA RoleDelete ==
  ASSUME AccountInv, RoleInv, NEW q \in Reqs, DeleteRole(q) PROVE RoleInv'
<1> DEFINE gone == req[q].roles
<1>0. /\ role' = [r \in Roles |-> IF r \in gone THEN "gone" ELSE role[r]]
      /\ given' = [u \in Users |-> given[u] \ gone] /\ latest' = latest
      /\ req' = [p \in Reqs |-> IF p = q THEN NoReq ELSE [req[p] EXCEPT !.snap = req[p].snap \ gone]]
      /\ gone \subseteq LiveIn(role)
      /\ \A p \in Reqs : (req[p].put \cup req[p].dropped) \cap gone = {}
  BY DEF DeleteRole, Live, LiveIn
<1>t. /\ \A p \in Reqs : req[p] \in Request /\ Sound(req[p], given, role)
      /\ \A u \in Users : Assigned(given[u], latest[u], role)
      /\ role \in [Roles -> {"unused", "live", "gone"}]
  BY DEF AccountInv, ReqsWell, RoleInv, RoleTables
<1>1. LiveIn(role') = LiveIn(role) \ gone /\ UsedIn(role') = UsedIn(role)
  BY <1>0, <1>t DEF LiveIn, UsedIn
<1>2. \A u \in Users : given'[u] = given[u] \ gone
  BY <1>0
<1> HIDE DEF gone
<1>3. ASSUME NEW u \in Users PROVE Assigned(given'[u], latest'[u], role')
  <2>1. Assigned(given[u], latest[u], role)
    BY <1>t
  <2> QED BY <1>0, <1>1, <1>2, <2>1 DEF Assigned, Among
<1>4. ASSUME NEW p \in Reqs, p # q
      PROVE  /\ Sound(req'[p], given', role') /\ req'[p].user = req[p].user
             /\ req'[p].put = req[p].put /\ req'[p].dropped = req[p].dropped
  <2> DEFINE x == req[p]
             z == [x EXCEPT !.snap = x.snap \ gone]
  <2>1. /\ req'[p] = z /\ z.pc = x.pc /\ z.user = x.user /\ z.roles = x.roles /\ z.left = x.left
        /\ z.put = x.put /\ z.dropped = x.dropped /\ z.peers = x.peers /\ z.late = x.late
        /\ z.snap = x.snap \ gone
    BY <1>0, <1>t, <1>4 DEF Request
  <2>2. Sound(x, given, role) /\ (x.put \cup x.dropped) \cap gone = {}
    BY <1>0, <1>t
  <2>3. x.pc \in {"drop", "insert"} => x.user \in Users
    BY DEF AccountInv, ReqsWell, WellFormed, UserSteps, Steps
  <2> HIDE DEF x, z
  <2>4. x.pc = "drop" => z.snap \subseteq given'[x.user] /\ Among(given'[x.user] \ z.snap, z.peers)
    BY <1>2, <2>1, <2>2, <2>3 DEF Sound, Among
  <2>5. x.pc = "insert" => Inserting(z, given'[x.user], LiveIn(role'))
    <3> SUFFICES ASSUME x.pc = "insert" PROVE Inserting(z, given'[x.user], LiveIn(role'))
      OBVIOUS
    <3>1. Inserting(x, given[x.user], LiveIn(role)) /\ given'[x.user] = given[x.user] \ gone
      BY <1>2, <2>2, <2>3 DEF Sound
    <3> HIDE DEF Sound
    <3>2. /\ z.dropped \subseteq given'[x.user] /\ Among(given'[x.user] \ z.dropped, z.peers)
          /\ z.put \subseteq z.roles \cap LiveIn(role')
          /\ z.put \cap given'[x.user] \subseteq z.dropped
          /\ (z.roles \ z.left) \cap z.dropped \subseteq z.put
      BY <1>1, <2>1, <2>2, <3>1 DEF Inserting, Among
    <3>3. ASSUME NEW r \in (z.roles \ z.left) \cap LiveIn(role')
          PROVE  r \in z.put \/ r \in given'[x.user] \ z.dropped \/ \E Y \in z.peers : r \notin Y
      BY <1>1, <2>1, <3>1 DEF Inserting
    <3> QED BY <3>2, <3>3 DEF Inserting
  <2>6. x.pc = "delete" => \A u \in Users : given'[u] \cap z.roles # {} => u \in z.late
    BY <1>2, <2>1, <2>2 DEF Sound
  <2> QED BY <1>1, <2>1, <2>2, <2>4, <2>5, <2>6 DEF Sound, AssignSteps, x
<1>5. \A p \in Reqs : Sound(req'[p], given', role')
  BY <1>0, <1>4, NoReqSound
<1>6. ASSUME NEW p1 \in Reqs, NEW p2 \in Reqs, SameUser(p1, p2)' PROVE Aside(req'[p1], req'[p2])
  <2>1. CASE p1 = q \/ p2 = q
    BY <1>0, <2>1 DEF Aside, NoReq
  <2>2. CASE p1 # q /\ p2 # q
    <3>1. SameUser(p1, p2)
      BY <1>4, <1>6, <2>2 DEF SameUser
    <3>2. Aside(req[p1], req[p2])
      BY <3>1 DEF RoleInv
    <3> QED BY <1>4, <2>2, <3>2 DEF Aside
  <2> QED BY <2>1, <2>2
<1> QED BY <1>3, <1>5, <1>6 DEF RoleInv

LEMMA RoleCreate ==
  ASSUME AccountInv, RoleInv, NEW r \in Roles, CreateRole(r) PROVE RoleInv'
<1>0. /\ role' = [role EXCEPT ![r] = "live"] /\ role[r] = "unused"
      /\ given' = given /\ latest' = latest /\ req' = req
  BY DEF CreateRole
<1>t. /\ \A p \in Reqs : Sound(req[p], given, role)
      /\ \A u \in Users : Assigned(given[u], latest[u], role)
      /\ role \in [Roles -> {"unused", "live", "gone"}]
  BY DEF AccountInv, RoleInv, RoleTables
<1>1. /\ LiveIn(role') = LiveIn(role) \cup {r} /\ UsedIn(role') = UsedIn(role) \cup {r}
      /\ r \notin UsedIn(role)
  BY <1>0, <1>t DEF LiveIn, UsedIn
<1>2. ASSUME NEW u \in Users PROVE Assigned(given'[u], latest'[u], role')
  <2>1. Assigned(given[u], latest[u], role)
    BY <1>t
  <2>2. ASSUME NEW Y \in SUBSET Roles, latest[u] = {Y} PROVE given[u] = Y \cap LiveIn(role')
    <3>1. r \notin Y /\ given[u] = Y \cap LiveIn(role)
      BY <1>1, <2>1, <2>2 DEF Assigned
    <3> QED BY <1>1, <3>1
  <2> QED BY <1>0, <1>1, <2>1, <2>2 DEF Assigned
<1>3. ASSUME NEW p \in Reqs PROVE Sound(req'[p], given', role')
  <2> DEFINE x == req[p]
  <2>1. Sound(x, given, role)
    BY <1>t
  <2>2. x.pc = "insert" => Inserting(x, given[x.user], LiveIn(role'))
    <3> SUFFICES ASSUME x.pc = "insert" PROVE Inserting(x, given[x.user], LiveIn(role'))
      OBVIOUS
    <3>1. Inserting(x, given[x.user], LiveIn(role)) /\ x.roles \subseteq UsedIn(role)
      BY <2>1 DEF Sound, AssignSteps
    <3> QED BY <1>1, <3>1 DEF Inserting
  <2> QED BY <1>0, <1>1, <2>1, <2>2 DEF Sound, AssignSteps
<1>4. \A p1, p2 \in Reqs : SameUser(p1, p2)' => Aside(req'[p1], req'[p2])
  BY <1>0 DEF RoleInv, SameUser
<1> QED BY <1>2, <1>3, <1>4 DEF RoleInv

-----------------------------------------------------------------------------
LEMMA RoleNext == AccountInv /\ RoleInv /\ [Next]_vars => RoleInv'
<1> SUFFICES ASSUME AccountInv, RoleInv, [Next]_vars PROVE RoleInv'
  OBVIOUS
<1>1. ASSUME NEW q \in Reqs,
             Begin(q) \/ Write(q) \/ Assign(q) \/ Delete(q) \/ Fails(q)
      PROVE  RoleInv'
  BY <1>1, RoleBegin, RoleWrite, RoleAssign, RoleCommit, RoleDelete DEF Assign, Delete
<1>2. ASSUME NEW u \in Users, LockExpires(u) PROVE RoleInv'
  BY <1>2 DEF LockExpires, rbac, RoleInv, SameUser
<1>3. CASE Apart
  BY <1>3 DEF Apart, rbac, RoleInv, SameUser
<1>4. CASE UNCHANGED vars
  BY <1>3, <1>4 DEF vars, Apart
<1> QED BY <1>1, <1>2, <1>3, <1>4, RoleCreate, ConfigureApart DEF Next

LEMMA RolesInvariant == Spec => [](AccountInv /\ RoleInv)
<1>1. AccountInv /\ RoleInv /\ [Next]_vars => (AccountInv /\ RoleInv)'
  BY NextInv, RoleNext
<1> QED BY <1>1, InitInv, RoleInit, PTL DEF Spec

(***************************************************************************)
(* However assignments of roles and deletions of roles interleave, a user  *)
(* has the roles last assigned that still exist, and of overlapping        *)
(* assignments nothing but what one of them assigned (setUserRoles).       *)
(***************************************************************************)
THEOREM RolesStayAsAssigned == Spec => []RolesAsAssigned
<1>1. RoleInv => RolesAsAssigned
  <2> SUFFICES ASSUME RoleInv, NEW u \in Users
               PROVE  /\ given[u] \subseteq (UNION latest[u]) \cap Live
                      /\ \A S \in SUBSET Roles : latest[u] = {S} => given[u] = S \cap Live
    BY DEF RolesAsAssigned
  <2>1. Assigned(given[u], latest[u], role) /\ LiveIn(role) = Live
    BY DEF RoleInv, Live, LiveIn
  <2>2. given[u] \subseteq (UNION latest[u]) \cap Live
    BY <2>1 DEF Assigned, Among
  <2> QED BY <2>1, <2>2 DEF Assigned
<1> QED BY <1>1, RolesInvariant, PTL

(***************************************************************************)
(* A role is taken from nobody who held it when the deletion counted       *)
(* (deleteRole).                                                           *)
(***************************************************************************)
THEOREM DeletionsSpareRolesInUse == Spec => InUseStays
<1> DEFINE A == \A u \in Users : \A r \in given[u] \ Live' :
                  \E q \in Reqs : req[q].pc = "delete" /\ r \in req[q].roles /\ u \in req[q].late
<1>1. ASSUME AccountInv, RoleInv, [Next]_vars PROVE A
  <2>1. ASSUME NEW u \in Users PROVE given[u] \subseteq Live
    BY <1>1 DEF RoleInv, Assigned, Live, LiveIn
  <2>2. CASE role' = role
    BY <2>1, <2>2 DEF Live
  <2>3. ASSUME NEW q \in Reqs, DeleteRole(q) PROVE A
    <3>1. Live' = Live \ req[q].roles /\ req[q].pc = "delete"
      BY <2>3 DEF DeleteRole, Live
    <3>2. \A u \in Users : given[u] \cap req[q].roles # {} => u \in req[q].late
      BY <1>1, <3>1 DEF RoleInv, Sound
    <3> QED BY <2>1, <3>1, <3>2
  <2>4. ASSUME NEW r \in Roles, CreateRole(r) PROVE A
    <3>1. Live \subseteq Live'
      BY <1>1, <2>4 DEF CreateRole, Live, AccountInv, RoleTables
    <3> QED BY <2>1, <3>1
  <2>5. ASSUME NEW q \in Reqs, Write(q) \/ Quiet(q) \/ AssignCommit(q) PROVE A
    <3>1. role' = role
      BY <2>5 DEF Write, LoginWrong, LoginRight, PasswordCommit, SaveWrite, Quiet, AssignCommit, rbac
    <3> QED BY <2>2, <3>1
  <2>6. ASSUME NEW u \in Users, LockExpires(u) PROVE A
    BY <2>2, <2>6 DEF LockExpires, rbac
  <2>7. CASE UNCHANGED vars \/ Apart
    BY <2>2, <2>7 DEF vars, Apart, rbac
  <2> QED BY <1>1, <2>3, <2>4, <2>5, <2>6, <2>7, StepCases
<1> QED BY <1>1, RolesInvariant, PTL DEF Spec, InUseStays

-----------------------------------------------------------------------------
(***************************************************************************)
(* Settings of roles.  A save that is past its UPDATE has the role to      *)
(* itself, so that the rows its DELETE saw are still those of the role;    *)
(* a view has read what the roles gave, within what it notes.              *)
(***************************************************************************)
Giving(roles) == UNION {Gives(saved, r) : r \in roles}

ViewSound(x) ==
  /\ x.left \subseteq x.roles
  /\ x.got \subseteq x.ever
  /\ x.always \subseteq Giving(x.roles) /\ Giving(x.roles) \subseteq x.ever
  /\ \A gift \in x.always : gift[1] \notin x.left => gift \in x.got

SettingTables ==
  /\ setting \in [Roles -> Setting] /\ saved = setting
  /\ \A r \in Roles \ Live : setting[r] = New
EditTables ==
  /\ edit \in [Edits -> Edit]
  /\ \A e \in Edits : edit[e].pc # "idle" => edit[e].role \in Roles
  /\ \A e \in Edits, r \in Roles : Locks(e, r) => r \in Live
  /\ \A e, f \in Edits, r \in Roles : Locks(e, r) /\ Locks(f, r) => e = f
  /\ \A e \in Edits :
       edit[e].pc = "commit" => edit[e].seen = setting[edit[e].role].rows \cap edit[e].part
ViewTables == view \in [Views -> View] /\ \A v \in Views : ViewSound(view[v])

SettingInv == SettingTables /\ EditTables /\ ViewTables

LEMMA NewTyped == New \in Setting
BY DEF New, Setting, Statuses

LEMMA NoEditTyped == NoEdit \in Edit
BY DEF NoEdit, Edit, Parts

LEMMA GivesTyped ==
  ASSUME NEW s \in [Roles -> Setting], NEW R \in SUBSET Roles
  PROVE  UNION {Gives(s, r) : r \in R} \in SUBSET Gifts
<1>1. ASSUME NEW r \in Roles PROVE Gives(s, r) \subseteq Gifts
  BY DEF Gives, Setting, Gifts
<1> QED BY <1>1

LEMMA GivesOf ==
  ASSUME NEW s, NEW r, NEW gift \in Gives(s, r) PROVE gift[1] = r
BY DEF Gives

LEMMA SettingInit == Init => SettingInv
<1> SUFFICES ASSUME Init PROVE SettingInv
  OBVIOUS
<1>1. SettingTables
  BY NewTyped DEF Init, SettingTables
<1>2. EditTables
  BY NoEditTyped DEF Init, EditTables, NoEdit, Locks
<1>3. ASSUME NEW v \in Views PROVE view[v] = NoView
  BY DEF Init
<1>4. NoView \in View /\ ViewSound(NoView)
  BY DEF NoView, View, ViewSound, Giving
<1>5. ViewTables
  BY <1>3, <1>4 DEF Init, ViewTables
<1> QED BY <1>1, <1>2, <1>5 DEF SettingInv

(* The settings change: views stay sound.                                   *)
LEMMA SaveViews ==
  ASSUME SettingInv, NEW s \in [Roles -> Setting], Save(s) PROVE ViewTables'
<1> DEFINE now(x) == UNION {Gives(s, r) : r \in x.roles}
<1>t. /\ view \in [Views -> View] /\ \A v \in Views : ViewSound(view[v])
  BY DEF SettingInv, ViewTables
<1>0. /\ saved' = s
      /\ view' = [v \in Views |-> [view[v] EXCEPT !.ever = view[v].ever \cup now(view[v]),
                                                !.always = view[v].always \cap now(view[v])]]
  BY DEF Save
<1>1. ASSUME NEW v \in Views
      PROVE  view'[v] \in View /\ ViewSound(view[v])'
  <2> DEFINE x == view[v]
             E == x.ever \cup now(x)
             A == x.always \cap now(x)
  <2>1. x \in View /\ ViewSound(x)
    BY <1>t
  <2>2. now(x) \in SUBSET Gifts
    BY <2>1, GivesTyped DEF View
  <2>3. view'[v] = [x EXCEPT !.ever = E, !.always = A]
    BY <1>0
  <2>4. Giving(x.roles)' = now(x')
    BY <1>0 DEF Giving
  <2>e. E \in SUBSET Gifts /\ A \in SUBSET Gifts
    BY <2>1, <2>2 DEF View
  <2> HIDE DEF x, E, A
  <2>5. /\ view'[v] \in View /\ view'[v].roles = x.roles /\ view'[v].left = x.left
        /\ view'[v].got = x.got /\ view'[v].ever = E /\ view'[v].always = A
    BY <2>1, <2>3, <2>e DEF View
  <2>6. UNION {Gives(saved', r) : r \in view'[v].roles} = now(x)
    BY <1>0, <2>5
  <2> HIDE DEF now
  <2>7. ViewSound(view[v])'
    BY <2>1, <2>5, <2>6 DEF ViewSound, Giving, E, A
  <2> QED BY <2>5, <2>7
<1> QED BY <1>0, <1>1 DEF ViewTables

LEMMA EditInv ==
  ASSUME SettingInv, NEW e \in Edits, Configure(e) PROVE SettingInv'
<1>t. /\ setting \in [Roles -> Setting] /\ saved = setting /\ edit \in [Edits -> Edit]
      /\ edit[e] \in Edit /\ SettingTables /\ EditTables /\ ViewTables
  BY DEF SettingInv, SettingTables, EditTables
<1>0. Live' = Live
  BY ConfigureApart DEF Apart, rbac, Live
<1>1. ASSUME EditBegin(e) \/ EditLock(e) \/ EditReplace(e) \/ EditFails(e)
      PROVE  SettingTables' /\ ViewTables'
  <2>1. setting' = setting /\ saved' = saved /\ view' = view
    BY <1>1 DEF EditBegin, EditLock, EditReplace, EditFails
  <2> QED BY <1>0, <1>t, <2>1 DEF SettingTables, ViewTables, ViewSound, Giving
<1>2. CASE EditBegin(e)
  <2>1. PICK r \in Live : edit' = [edit EXCEPT ![e].pc = "lock", ![e].role = r]
    BY <1>2 DEF EditBegin
  <2>2. /\ edit' \in [Edits -> Edit] /\ edit'[e].pc = "lock" /\ edit'[e].role \in Roles
        /\ \A f \in Edits : f # e => edit'[f] = edit[f]
    BY <1>t, <2>1 DEF Edit, Live
  <2>3. EditTables'
    BY <1>0, <1>t, <1>2, <2>2 DEF EditTables, Locks, EditBegin
  <2> QED BY <1>1, <1>2, <2>3 DEF SettingInv
<1>3. CASE EditLock(e)
  <2>1. PICK status \in Statuses \cup {Nil}, part \in Parts : \E rows \in SUBSET part :
          edit' = [edit EXCEPT ![e].pc = "replace", ![e].status = status,
                               ![e].part = part, ![e].rows = rows]
    BY <1>3 DEF EditLock
  <2>2. PICK rows \in SUBSET part :
          edit' = [edit EXCEPT ![e].pc = "replace", ![e].status = status,
                               ![e].part = part, ![e].rows = rows]
    BY <2>1
  <2>p. rows \in SUBSET Rows
    BY DEF Parts, Rows
  <2>3. /\ edit' \in [Edits -> Edit] /\ edit'[e].pc = "replace" /\ edit'[e].role = edit[e].role
        /\ \A f \in Edits : f # e => edit'[f] = edit[f]
    BY <1>t, <2>2, <2>p DEF Edit
  <2>4. edit[e].role \in Live /\ \A f \in Edits : ~Locks(f, edit[e].role)
    BY <1>3 DEF EditLock, RowFree
  <2>5. EditTables'
    BY <1>0, <1>t, <1>3, <2>3, <2>4 DEF EditTables, Locks, Live, EditLock
  <2> QED BY <1>1, <1>3, <2>5 DEF SettingInv
<1>4. CASE EditReplace(e)
  <2> DEFINE S == setting[edit[e].role].rows \cap edit[e].part
  <2>1. edit' = [edit EXCEPT ![e].pc = "commit", ![e].seen = S] /\ edit[e].pc = "replace"
        /\ setting' = setting
    BY <1>4 DEF EditReplace
  <2>2. S \in SUBSET Rows
    BY <1>t, <2>1 DEF EditTables, Setting
  <2> HIDE DEF S
  <2>3. /\ edit' \in [Edits -> Edit] /\ edit'[e].pc = "commit" /\ edit'[e].role = edit[e].role
        /\ edit'[e].seen = S /\ edit'[e].part = edit[e].part
        /\ \A f \in Edits : f # e => edit'[f] = edit[f]
    BY <1>t, <2>1, <2>2 DEF Edit
  <2>4. edit'[e].seen = setting'[edit'[e].role].rows \cap edit'[e].part
    BY <2>1, <2>3 DEF S
  <2>5. \A f \in Edits, r \in Roles : Locks(f, r)' <=> Locks(f, r)
    BY <2>1, <2>3 DEF Locks
  <2>6. EditTables'
    BY <1>0, <1>t, <2>1, <2>3, <2>4, <2>5 DEF EditTables
  <2> QED BY <1>1, <1>4, <2>6 DEF SettingInv
<1>5. CASE EditCommit(e)
  <2> DEFINE r == edit[e].role
             X == Replaced(setting[r], e, edit[e].seen)
  <2>1. /\ r \in Roles /\ r \in Live /\ Locks(e, r) /\ edit[e].pc = "commit"
        /\ edit[e].seen = setting[r].rows \cap edit[e].part
    BY <1>t, <1>5 DEF EditCommit, EditTables, Locks
  <2>2. X = Replaced(setting[r], e, edit[e].part)
    BY <2>1 DEF Replaced
  <2>3. X \in Setting
    <3>1. setting[r] \in Setting /\ edit[e].rows \in SUBSET Rows
          /\ edit[e].status \in Statuses \cup {Nil}
      BY <1>t, <2>1 DEF Edit
    <3> QED BY <3>1 DEF Replaced, Setting
  <2>4. /\ setting' = [setting EXCEPT ![r] = X]
        /\ Save([saved EXCEPT ![r] = X]) /\ edit' = [edit EXCEPT ![e] = NoEdit]
    BY <1>t, <1>5, <2>2 DEF EditCommit
  <2> HIDE DEF X
  <2>5. setting' \in [Roles -> Setting] /\ saved' = setting'
    BY <1>t, <2>3, <2>4 DEF Save
  <2>6. SettingTables'
    BY <1>0, <1>t, <2>1, <2>4, <2>5 DEF SettingTables
  <2>7. ViewTables'
    BY <1>t, <2>3, <2>4, SaveViews
  <2>8. /\ edit' \in [Edits -> Edit] /\ edit'[e].pc = "idle"
        /\ \A f \in Edits : f # e => edit'[f] = edit[f]
    BY <1>t, <2>4, NoEditTyped DEF NoEdit
  <2>9. ASSUME NEW f \in Edits, edit'[f].pc = "commit"
        PROVE  edit'[f].seen = setting'[edit'[f].role].rows \cap edit'[f].part
    <3>1. f # e /\ edit'[f] = edit[f] /\ edit[f].role \in Roles /\ Locks(f, edit[f].role)
      BY <1>t, <2>8, <2>9 DEF EditTables, Locks
    <3>2. edit[f].role # r
      BY <1>t, <2>1, <3>1 DEF EditTables
    <3> QED BY <1>t, <2>4, <2>9, <3>1, <3>2 DEF EditTables
  <2>10. EditTables'
    BY <1>0, <1>t, <2>8, <2>9 DEF EditTables, Locks
  <2> QED BY <2>6, <2>7, <2>10 DEF SettingInv
<1>6. CASE EditFails(e)
  <2>1. /\ edit' \in [Edits -> Edit] /\ edit'[e].pc = "idle" /\ setting' = setting
        /\ \A f \in Edits : f # e => edit'[f] = edit[f]
    BY <1>t, <1>6, NoEditTyped DEF NoEdit, EditFails
  <2>2. EditTables'
    BY <1>0, <1>t, <2>1 DEF EditTables, Locks
  <2> QED BY <1>1, <1>6, <2>2 DEF SettingInv
<1> QED BY <1>2, <1>3, <1>4, <1>5, <1>6 DEF Configure

LEMMA LookInv ==
  ASSUME AccountInv, SettingInv, NEW v \in Views, Look(v) PROVE SettingInv'
<1>t. /\ SettingTables /\ EditTables /\ view \in [Views -> View]
      /\ setting \in [Roles -> Setting] /\ saved = setting
      /\ \A w \in Views : view[w] \in View /\ ViewSound(view[w])
  BY DEF SettingInv, SettingTables, ViewTables
<1>0. /\ setting' = setting /\ saved' = saved /\ edit' = edit /\ Live' = Live
  BY DEF Look, ViewBegin, ViewRole, ViewEnd, rbac, Live
<1>1. SettingTables' /\ EditTables'
  BY <1>0, <1>t DEF SettingTables, EditTables, Locks
<1>2. ASSUME NEW x \in View, ViewSound(x), view' = [view EXCEPT ![v] = x] PROVE ViewTables'
  <2>1. \A w \in Views : view'[w] \in View /\ ViewSound(view'[w])
    BY <1>t, <1>2
  <2>2. \A w \in Views : ViewSound(view[w])'
    BY <1>0, <2>1 DEF ViewSound, Giving
  <2> QED BY <1>t, <1>2, <2>2 DEF ViewTables
<1>3. CASE ViewBegin(v)
  <2>1. PICK u \in Users :
          view' = [view EXCEPT ![v] =
            [pc |-> "read", roles |-> given[u], left |-> given[u], got |-> {},
             ever |-> Giving(given[u]), always |-> Giving(given[u])]]
    BY <1>3 DEF ViewBegin, Giving
  <2> DEFINE x == [pc |-> "read", roles |-> given[u], left |-> given[u], got |-> {},
                   ever |-> Giving(given[u]), always |-> Giving(given[u])]
  <2>2. given[u] \in SUBSET Roles
    BY DEF AccountInv, RoleTables
  <2>3. Giving(given[u]) \in SUBSET Gifts
    BY <1>t, <2>2, GivesTyped DEF Giving
  <2>4. x \in View
    BY <2>2, <2>3 DEF View
  <2>5. \A gift \in Giving(given[u]) : gift[1] \in given[u]
    BY GivesOf DEF Giving
  <2>6. ViewSound(x)
    BY <2>5 DEF ViewSound
  <2> QED BY <1>1, <1>2, <2>1, <2>4, <2>6 DEF SettingInv
<1>4. CASE ViewRole(v)
  <2> DEFINE x == view[v]
  <2>1. PICK r \in x.left :
          view' = [view EXCEPT ![v].left = x.left \ {r},
                               ![v].got = x.got \cup (IF r \in Live THEN RoleRead(r) ELSE {})]
    BY <1>4 DEF ViewRole
  <2>2. x \in View /\ ViewSound(x) /\ r \in Roles /\ r \in x.roles
    BY <1>t DEF View, ViewSound
  <2>3. (IF r \in Live THEN RoleRead(r) ELSE {}) = Gives(saved, r)
    BY <1>t, <2>2 DEF RoleRead, Gives, SettingTables, New
  <2> DEFINE G == x.got \cup Gives(saved, r)
             y == [x EXCEPT !.left = x.left \ {r}, !.got = G]
  <2>4. Gives(saved, r) \subseteq Giving(x.roles) /\ Giving(x.roles) \in SUBSET Gifts
    BY <1>t, <2>2, GivesTyped DEF Giving, View
  <2>g. G \in SUBSET Gifts
    BY <2>2, <2>4 DEF View
  <2>5. view' = [view EXCEPT ![v] = y]
    BY <1>t, <2>1, <2>3
  <2>6. ASSUME NEW gift \in x.always, gift[1] = r PROVE gift \in Gives(saved, r)
    <3>1. PICK r2 \in x.roles : gift \in Gives(saved, r2)
      BY <2>2 DEF ViewSound, Giving
    <3> QED BY <2>6, <3>1, GivesOf
  <2> HIDE DEF x, G
  <2>7. /\ y \in View /\ y.left = x.left \ {r} /\ y.got = G /\ y.roles = x.roles
        /\ y.ever = x.ever /\ y.always = x.always
    BY <2>2, <2>g DEF View
  <2> HIDE DEF y
  <2>8. ViewSound(y)
    BY <2>2, <2>4, <2>6, <2>7 DEF ViewSound, G
  <2> QED BY <1>1, <1>2, <2>5, <2>7, <2>8 DEF SettingInv
<1>5. CASE ViewEnd(v)
  <2>1. NoView \in View /\ ViewSound(NoView)
    BY DEF NoView, View, ViewSound, Giving
  <2> QED BY <1>1, <1>2, <1>5, <2>1 DEF ViewEnd, SettingInv
<1> QED BY <1>3, <1>4, <1>5 DEF Look

LEMMA CreateSettingInv ==
  ASSUME AccountInv, SettingInv, NEW r \in Roles, CreateRole(r) PROVE SettingInv'
<1>t. /\ setting \in [Roles -> Setting] /\ saved = setting /\ edit \in [Edits -> Edit]
      /\ SettingTables /\ EditTables /\ role \in [Roles -> {"unused", "live", "gone"}]
  BY DEF SettingInv, SettingTables, EditTables, AccountInv, RoleTables
<1>1. PICK rows \in SUBSET Rows :
        setting' = [setting EXCEPT ![r].rows = rows] /\ Save([saved EXCEPT ![r].rows = rows])
  BY DEF CreateRole
<1>2. Live' = Live \cup {r} /\ r \notin Live /\ edit' = edit
  BY <1>t DEF CreateRole, Live
<1>3. [setting EXCEPT ![r].rows = rows] \in [Roles -> Setting]
  BY <1>t DEF Setting
<1>4. SettingTables'
  BY <1>t, <1>1, <1>2, <1>3 DEF SettingTables, Save
<1>5. ViewTables'
  BY <1>t, <1>1, <1>3, SaveViews
<1>6. ASSUME NEW e \in Edits, edit[e].pc = "commit"
      PROVE  edit[e].role # r /\ setting'[edit[e].role] = setting[edit[e].role]
  BY <1>t, <1>1, <1>2, <1>6 DEF EditTables, Locks
<1>7. EditTables'
  BY <1>t, <1>2, <1>6 DEF EditTables, Locks
<1> QED BY <1>4, <1>5, <1>7 DEF SettingInv

LEMMA DeleteSettingInv ==
  ASSUME AccountInv, SettingInv, NEW q \in Reqs, DeleteRole(q) PROVE SettingInv'
<1> DEFINE gone == req[q].roles
           S == [r \in Roles |-> IF r \in gone THEN New ELSE setting[r]]
<1>t. /\ setting \in [Roles -> Setting] /\ saved = setting /\ edit \in [Edits -> Edit]
      /\ SettingTables /\ EditTables
  BY DEF SettingInv, SettingTables, EditTables
<1>1. setting' = S /\ Save(S) /\ edit' = edit /\ \A r \in gone : \A e \in Edits : ~Locks(e, r)
  BY <1>t DEF DeleteRole, RowFree
<1>2. Live' = Live \ gone
  BY DEF DeleteRole, Live
<1>3. S \in [Roles -> Setting] /\ \A r \in Roles : S[r] = IF r \in gone THEN New ELSE setting[r]
  BY <1>t, NewTyped
<1> HIDE DEF S, gone
<1>4. SettingTables'
  BY <1>t, <1>1, <1>2, <1>3 DEF SettingTables, Save
<1>5. ViewTables'
  BY <1>1, <1>3, SaveViews
<1>6. ASSUME NEW e \in Edits, edit[e].pc = "commit"
      PROVE  setting'[edit[e].role] = setting[edit[e].role]
  BY <1>t, <1>1, <1>3, <1>6 DEF EditTables, Locks
<1>7. EditTables'
  BY <1>t, <1>1, <1>2, <1>6 DEF EditTables, Locks
<1> QED BY <1>4, <1>5, <1>7 DEF SettingInv

LEMMA SettingNext == AccountInv /\ SettingInv /\ [Next]_vars => SettingInv'
<1> SUFFICES ASSUME AccountInv, SettingInv, [Next]_vars PROVE SettingInv'
  OBVIOUS
<1>1. ASSUME UNCHANGED settings, UNCHANGED role PROVE SettingInv'
  BY <1>1 DEF settings, SettingInv, SettingTables, EditTables, ViewTables, Locks, Live, ViewSound, Giving
<1>2. ASSUME NEW q \in Reqs, Begin(q) \/ Write(q) \/ Assign(q) \/ DeleteCount(q) \/ Fails(q)
      PROVE  SettingInv'
  <2>1. UNCHANGED settings /\ UNCHANGED role
    BY <1>2 DEF Begin, Write, Assign, Fails, LoginRead, PasswordBegin, SaveBegin, AssignBegin, DeleteBegin,
       LoginWrong, LoginRight, PasswordCommit, SaveWrite, AssignOpen, AssignScan, AssignDrop,
       AssignInsert, AssignCommit, DeleteCount, rbac
  <2> QED BY <1>1, <2>1
<1>3. ASSUME NEW u \in Users, LockExpires(u) PROVE SettingInv'
  BY <1>1, <1>3 DEF LockExpires, rbac
<1>4. CASE UNCHANGED vars
  BY <1>1, <1>4 DEF vars, rbac
<1> QED BY <1>2, <1>3, <1>4, EditInv, LookInv, CreateSettingInv, DeleteSettingInv DEF Next, Delete

LEMMA SettingsInvariant == Spec => [](AccountInv /\ SettingInv)
<1>1. AccountInv /\ SettingInv /\ [Next]_vars => (AccountInv /\ SettingInv)'
  BY NextInv, SettingNext
<1> QED BY <1>1, InitInv, SettingInit, PTL DEF Spec

(* Types.                                                                   *)
THEOREM TypeCorrect == Spec => []TypeOK
<1>1. AccountInv /\ SettingInv => TypeOK
  BY DEF AccountInv, ReqsWell, Tables, RoleTables, SettingInv, SettingTables, EditTables, ViewTables,
         TypeOK
<1> QED BY <1>1, SettingsInvariant, PTL

(***************************************************************************)
(* Any number of overlapping saves of a role leave what they would have    *)
(* left one after another (updateRole).                                    *)
(***************************************************************************)
THEOREM SettingsStayAsSaved == Spec => []SettingsAsSaved
<1>1. SettingInv => SettingsAsSaved
  BY DEF SettingInv, SettingTables, SettingsAsSaved
<1> QED BY <1>1, SettingsInvariant, PTL

(***************************************************************************)
(* What a request finds a user may do lies between what the user's roles   *)
(* gave all along and what they gave at one moment (toCurrentUser).        *)
(***************************************************************************)
THEOREM RightsStayAsSaved == Spec => []RightsAsSaved
<1>1. SettingInv => RightsAsSaved
  BY DEF SettingInv, ViewTables, ViewSound, RightsAsSaved
<1> QED BY <1>1, SettingsInvariant, PTL

-----------------------------------------------------------------------------
(***************************************************************************)
(* What may ease the lockout of an account: its count goes down, or a lock *)
(* in effect is lifted.                                                    *)
(***************************************************************************)
Eases(u) ==
  \/ identity'[u].failed < identity[u].failed
  \/ identity[u].lock = "on" /\ identity'[u].lock = "off"

\* A right password or a new one, or a lock that is over and counts from one again.
Entitles(u) ==
  \/ identity[u].lock = "over"
  \/ \E q \in Reqs : req[q].pc \in {"right", "change", "reset"} /\ req[q].user = u /\ req'[q] = NoReq

LockoutHolds == [][\A u \in Users : Eases(u) => Entitles(u) \/ ~exact'[u]]_vars

LEMMA LockoutStep ==
  ASSUME AccountInv, [Next]_vars, NEW u \in Users, Eases(u) PROVE Entitles(u) \/ ~exact'[u]
<1>t. ReqsWell /\ Tables /\ req \in [Reqs -> Request]
  BY DEF AccountInv, ReqsWell
<1>n. identity[u] \in Identity /\ identity[u].failed \in Nat
  BY <1>t DEF Tables, Identity
<1>0. CASE identity'[u] = identity[u]
  BY <1>0, <1>n DEF Eases
<1>1. ASSUME NEW q \in Reqs, LoginWrong(q) PROVE Entitles(u) \/ ~exact'[u]
  <2> DEFINE row == req[q].row
             next == [Counted(row) EXCEPT !.must = identity[u].must]
  <2>1. CASE req[q].user # u
    BY <1>0, <1>1, <1>t, <2>1 DEF LoginWrong, Tables
  <2>2. CASE req[q].user = u /\ Stale(q, u)
    BY <1>1, <1>t, <2>2 DEF LoginWrong, Tables
  <2>3. CASE req[q].user = u /\ ~Stale(q, u)
    <3>1. identity'[u] = next
      BY <1>1, <1>t, <2>3 DEF LoginWrong, Tables
    <3>2. row \in Identity /\ row.lock # "on" /\ Open(row)
      BY <1>1, <1>t DEF LoginWrong, ReqsWell, WellFormed
    <3>3. identity[u].must \in BOOLEAN
      BY <1>n DEF Identity
    <3>4. next.failed = IF row.lock = "over" THEN 1 ELSE row.failed + 1
      BY <3>2, <3>3, CountedRow
    <3>5. row.failed = identity[u].failed /\ row.lock = identity[u].lock
      BY <2>3 DEF Stale
    <3> HIDE DEF next, row
    <3>6. identity[u].lock = "over"
      BY <1>n, <3>1, <3>2, <3>4, <3>5 DEF Eases
    <3> QED BY <3>6 DEF Entitles
  <2> QED BY <2>1, <2>2, <2>3
<1>2. ASSUME NEW q \in Reqs, LoginRight(q) \/ PasswordCommit(q) PROVE Entitles(u) \/ ~exact'[u]
  <2>1. CASE req[q].user # u
    BY <1>0, <1>2, <1>t, <2>1 DEF LoginRight, PasswordCommit, UpdatePassword, Tables
  <2>2. CASE req[q].user = u
    <3>1. req[q].pc \in {"right", "change", "reset"} /\ req'[q] = NoReq
      BY <1>2, <1>t DEF LoginRight, PasswordCommit, Done, Set
    <3> QED BY <2>2, <3>1 DEF Entitles
  <2> QED BY <2>1, <2>2
<1>3. ASSUME NEW v \in Users, LockExpires(v) PROVE Entitles(u) \/ ~exact'[u]
  <2>1. CASE v # u
    BY <1>0, <1>3, <1>t, <2>1 DEF LockExpires, Tables
  <2>2. CASE v = u
    <3>1. identity'[u].failed = identity[u].failed /\ identity'[u].lock = "over"
      BY <1>3, <1>t, <1>n, <2>2 DEF LockExpires, Tables, Identity
    <3> QED BY <1>n, <3>1 DEF Eases
  <2> QED BY <2>1, <2>2
<1>4. ASSUME NEW q \in Reqs, SaveWrite(q) \/ Quiet(q) \/ AssignCommit(q) \/ DeleteRole(q)
      PROVE  identity' = identity
  BY <1>4 DEF SaveWrite, Quiet, AssignCommit, DeleteRole, accounts
<1>5. (\E r \in Roles : CreateRole(r)) \/ Apart \/ UNCHANGED vars => identity' = identity
  BY DEF CreateRole, Apart, accounts, vars
<1> QED BY <1>0, <1>1, <1>2, <1>3, <1>4, <1>5, StepCases DEF Write

(* Nothing eases a lockout but the right password, a new one, and the end   *)
(* of the lock, as long as no login writes from a row that had changed: one *)
(* more wrong password never does, however many there are at once           *)
(* (AuthService.login).                                                     *)
THEOREM LockoutIsKept == Spec => LockoutHolds
<1>1. AccountInv /\ [Next]_vars => [\A u \in Users : Eases(u) => Entitles(u) \/ ~exact'[u]]_vars
  BY LockoutStep
<1> QED BY <1>1, InitInv, NextInv, PTL DEF Spec, LockoutHolds

-----------------------------------------------------------------------------
(* Saves that hold the row of a role: one at a time, of a role that exists. *)
SavesTakeTurns ==
  \A e \in Edits, r \in Roles : Locks(e, r) =>
    r \in Live /\ \A f \in Edits : Locks(f, r) => f = e

(* The UPDATE a save begins with keeps other saves and the deletion of the  *)
(* role out until it commits (updateRole, deleteRole).                      *)
THEOREM RolesAreSavedInTurn == Spec => []SavesTakeTurns
<1>1. SettingInv => SavesTakeTurns
  BY DEF SettingInv, EditTables, SavesTakeTurns
<1> QED BY <1>1, SettingsInvariant, PTL
=============================================================================
