# Work platform: a TLA+ model of its concurrent core

The work platform is a NestJS/TypeScript monorepo: one gateway process hosts the
modules platform (organisation, employees, roles, login), presence, forms, files and
notification; they share one PostgreSQL server (a schema each) and an in-memory event
bus. A React shell talks to the gateway by HTTP and one SSE stream. Nothing in the code
is multi-threaded, yet almost every operation is a sequence `read; await; check; await;
write`, and requests interleave at every `await`. What keeps the data right is a mixture
of transactions, advisory locks, row locks, conditions repeated in the `WHERE` of an
`UPDATE`, unique indexes and in-memory locks, chosen differently in each service. The
modules here model these sequences with the granularity of the `await`s, check them with
TLC on small instances and prove the safety properties for instances of any size with
TLAPS.

## 1. Inventory

| component | state | operations | interacts with | hard part | correct when |
|---|---|---|---|---|---|
| **Files** (`modules/files/api`) | rows `file_objects`, `file_references`; bytes on a local disk; in-memory write lock | upload, attach in a unit of work, cleanup (timer and CLI), open | forms (unit of work), disk, PostgreSQL | no transaction spans row and disk; overlapping cleanups; crash between the three cleanup steps; quota under concurrency | bytes stay behind every staged or attached row; attach all or nothing; quota; nothing orphaned; expired files go |
| **Departments** (`platform-api/org`) | `departments.parent_id`, `deleted_at` | create, move, delete | employees | check-then-act over a tree; advisory lock used by some operations only | a forest of live departments |
| **Employees** (`platform-api/users`) | `employees.status`, `department_id`, profile, roles | create, profile, status, roles, reset password | departments, roles, accounts | whole-row save of an older copy | a save changes what it is about |
| **Login and passwords** (`platform-api/auth`) | `local_identities`, `sessions` | login, authenticate, change and reset password | employees, roles | counters written from an earlier read; a flag kept in two tables; the user is put together from many queries | both copies agree, attempts are counted; nobody gets rights no role gave |
| **Roles** (`platform-api/rbac`) | `roles`, `role_permissions`, `user_roles` | create, update, delete, assign | employees | delete-then-insert transactions against one another and against deletion | roles and settings are those last saved; a role in use stays |
| **Data scopes, lookups** (`platform-api/scope`) | none | resolve, match | departments | two queries for descendants that differ in what they call a department | scope = the tree |
| **Status dictionary** (`modules/presence/api/status-type`) | `status_types` with `is_default` | create, update, setDefault, archive, restore | presence records | two-UPDATE transaction over a partial unique index, deadlock between two of them | one default, in use |
| **Presence records** (`modules/presence/api/status`) | `status_records` | register, cancel, board | dictionary, forms, event bus | five awaited calls with checks and no constraint; the default changes under way | one state per employee and instant; a form behind each record that has one |
| **Forms** (`modules/forms/api`) | definitions with a revision, records, values | replace definition, create and upsert record | files (shared unit of work), event bus | validation before the transaction; singleton records created concurrently | one record per subject, its files bound to it; a record fits its revision or one published meanwhile |
| **Notification** (`modules/notification/api`) | `notifications`, trigger configuration, stream registry | triggers, create, mark read, stream | event bus, platform | best-effort signals | what is announced is shown |
| **Scheduler** | registered cron jobs | start, stop | | failure half-way | no job left running |
| **Event bus, HTTP client** (`packages`) | handlers; one stream | publish, subscribe; request, stream | all | failing handlers, ends of streams | |
| **Notification client** (`workbench-shell`) | count, list, status, timers | refresh, mark read, stream callbacks | notification, HTTP client | responses out of order, reconnect, polling, optimistic updates | never without a way to hear of news; the list catches up |
| **Status logs, audit, seeds, migrations, in-memory store** | append-only tables; test double | | | | |
| **Gateway, IM adapter, realtime gateway, web pages, contracts, deployment** | none of their own | | | stubs, rendering, types, configuration | |

`PROJECT.json` lists the components with their sources and, under `hazards`, what is hard
to test in each, at its line.

## 2. Modules

```
FileLifecycle                                        FileLifecycleProofs
      <== FileStore                   (refinement)   FileStoreProofs, MCFileStore
      ^-- INSTANCE -- Forms                          FormsProofs, MCForms
                   OrgDirectory                      OrgDirectoryProofs, MCOrgDirectory
                   Accounts                          AccountsProofs, MCAccounts
StatusDictionary <== StatusTypes      (refinement)   StatusTypesProofs, MCStatusTypes
      ^-- INSTANCE -- Presence                       PresenceProofs, MCPresence
                   Notifications                     NotificationsProofs, MCNotifications
```

Two modules, `FileLifecycle` and `StatusDictionary`, are abstract: the promise of a
component, which its detailed module is shown to implement and on which another component
is built. `Forms` uses the files as `FileLifecycle` promises them, `Presence` the
dictionary as `StatusDictionary` promises it. `OrgDirectory` and `Accounts` divide the
platform module: departments, membership and data scopes in one, identities, roles and
rights in the other; no invariant needs both. `Notifications` begins with the event the
other modules publish.

## 3. How the modules correspond to the code

**Conventions.** One action is the code between two `await`s. A read whose result is
used later is stored in the record of the request (`seen`, `tally`, `exempt`, `p`, `s`).
A statement of PostgreSQL at READ COMMITTED is one action that sees committed rows; the
effect of an open transaction is kept in the request until `COMMIT`; row and advisory
locks are variables or read off the positions of requests; a rollback, a lost connection and a failing statement leave nothing
but released locks. One enterprise is modelled, since every statement filters on
`enterprise_id`. Operators marked *variant* are plausible mistakes in the code; nothing
uses them in the specification.

**FileStore** (`files.service.ts`, `postgres-files.repository.ts`,
`local-file-storage.provider.ts`, `files-cleanup.service.ts`). A file is an upload, a
row, a reference and bytes. `up[f]` is the position of `uploadFile`: rate limits and
content checks (`UploadBegin`), the write lock (`writer`) with the free-space probe, the
temporary file and the rename (`StoreProbe`, `StoreTemp`, `StoreRename`), the quota
transaction under the advisory lock (`QuotaSum`, `QuotaInsert`, `QuotaRefuse`), and the
catch block (`UploadUndo`). A `COMMIT` whose reply is lost is the second branch of
`QuotaInsert`. `uow[t]` is a unit of work: `AttachRead`, `AttachReference`
(`FOR UPDATE`), `AttachClaim` (the conditional `UPDATE`, which waits for `rowLock`),
`UowCommit`; changes are invisible until then. `cleaner[c]` is a cycle of
`cleanupExpiredStaged`: `CleanClaim` (`SKIP LOCKED`, `LIMIT`), `CleanErase`, `CleanMark`,
`CleanFails` (with or without its audit, and with or without the `UPDATE` of the row having
taken effect: its reply may be lost, or the process stop before it counts), `CleanEnd`.
`Crash` ends the process at any moment; a cycle of the command line survives.

**FileLifecycle** is the promise: staged, then bound with the other files of its unit of
work, or claimed, erased and deleted. The refinement maps the content to the bytes of
uploads that were reported as successful.

**OrgDirectory** (`org.service.ts`, `employee.service.ts`,
`postgres-platform.repository.ts`). `req[r]` is a request. Creation and hiring look the
parent up, take the advisory lock, look again and insert (`CreateBegin`, `Lock`,
`CreateInsert`, `CreateCommit`, `HireCommit`); deletion counts, locks and repeats both
counts in its `UPDATE` (`DeleteBegin` ... `DeleteCommit`). A move looks the parent up,
asks for the descendants and updates (`MoveParent`, `MoveCycle`, `MoveUpdate`) without a
lock. A save of an employee reads the row, changes a copy and writes all of it (`SelfRead`,
`ProfileRead`, `StatusRead`, `Save`). `stale`, `raced`, `moved` and `saved` are history
variables: no guard reads them. Data scopes change nothing and are operators:
`SeenBelow` is `listDescendantDepartmentIds`, `Widest` and `Effective` with `ScopeDepts`
are `resolveScope`, `MatchesScope` is `matchesScope`. The two queries for descendants
differ: that of the scopes asks for `status = 'active'`, that of the cycle check for
`deleted_at IS NULL`, and a deletion leaves the status, so `SeenBelow` walks through
deleted departments (`Active`) and `Descendants` does not. Both are a `UNION ALL` without a
depth limit and do not end on a cycle: a move whose check meets one hangs (`MoveCycle`), and
`ScopeReturns` says where the query of a scope ends; only there is `SeenBelow` its result.
`ScopeFollowsTree` says that it ends unless a move was committed on an outdated check, and
that wherever it ends the departments seen are those that exist, in any tree the requests can
leave, as long as no move has put a department below a deleted one.

**Accounts** (`auth.service.ts`, `rbac.service.ts`, `employee.service.ts`,
`postgres-platform.repository.ts`). Three groups of operations. *Identities*: `LoginRead`
reads the row, `LoginWrong` and `LoginRight` write from what was read; `PasswordCommit` is
`updatePassword`, which writes the flag in both tables; `SaveBegin` and `SaveWrite` are the
save of an employee, which writes an older flag back. Time is the lock of the account: off,
on, over (`LockExpires`). *Assignments*: `AssignOpen` looks the roles up again, `AssignScan`
and `AssignDrop` are the `DELETE` (what its snapshot sees, then what it deletes once no
other transaction has it), `AssignInsert` one `INSERT ... ON CONFLICT DO NOTHING`,
`AssignCommit` makes it visible; `DeleteCount` and `DeleteRole` are the count of
`deleteRole` and the `DELETE` with its cascade. *Settings*: a role has a status and rows in
two tables (`Codes`, `Scopes`). `EditLock` is the `UPDATE` of the row of the role, which
holds it to the end; `EditReplace` is the `DELETE`, `EditCommit` the inserts and the
`COMMIT`; a part the request leaves out stays. `ViewBegin`, `ViewRole` and `ViewEnd` are
`toCurrentUser`: the ids of the roles, then each role by a query of its own. `latest`,
`saved`, `streak`, `exact` and `agreed` are history, as are the fields `ever` and `always`
of a view and `peers` and `late` of a request.

**StatusTypes** (`presence-status-type.service.ts`, `postgres-presence.repository.ts`,
`0001_m9_status_dictionary.sql`). `setDefault` is `DefaultBegin`, `ClearStart` (snapshot
of the first `UPDATE`), `ClearRow` (lock and look again, row after row), `SetRow`,
`SetIndex` (the unique index waits for open transactions, then accepts or refuses) and
`DefaultCommit`. The other operations are a read and one statement. `DeadlockVictim` is
PostgreSQL's deadlock detection.

**StatusDictionary** is the promise to readers of committed rows: a default that is in
use, and four atomic operations. **Presence** (`presence-status.service.ts`) is composed
with it instead of with `StatusTypes`, which `ImplementsDictionary` justifies:
`RegisterType`, `RegisterDefault`, `RegisterCheck`, `RegisterForm`, `RegisterInsert` are
the awaited calls of `createRecord`, `RegisterFails` a call that throws, `Cancel` the
`UPDATE` of `cancelRecord`. Of the forms module `Presence` needs that its call commits a
form record or throws, possibly after the commit.

**Forms** (`forms.service.ts`, `postgres-forms.repository.ts`). A definition is edited by
`EditBegin`, `EditRead`, then `EditDefine` (the first one: an `INSERT` that waits for
another and fails on the unique index) or `EditReplace` (`UPDATE ... WHERE revision`) and
`EditCommit`. A save reads the definition (`SaveDefinition`), its fields (`SaveFields`) and,
an upsert, the record of the subject (`SaveLook`), validates, and then runs its unit of
work: `SaveFind` (`FOR UPDATE`), `SaveInsert` (the partial unique index; a violation rolls
back to the savepoint and looks again), `SaveAttach` once per file, `SaveCommit`. `SaveTell`
is the audit and the event, which follow the `COMMIT`: its reply may be lost, the audit may
throw and the process may stop, and then nobody is told (`unheard`). `FileStep` is everything else that happens to a file: uploads
and the claims of cleanup cycles.

**Notifications** (`notification-event.subscriber.ts`, `notification.service.ts`,
`recipient-resolver.ts`, `notification-stream.registry.ts`; `use-notifications.ts`,
`create-http-client.ts`). The server: `HandleEvent`, `HandleConfig`, `HandleResolve`,
`HandleInsert` (the row), `HandleEmit` (the reply and the signal) are the awaited steps for
one event; `HandlerFails` is the subscriber's catch block, which a lost reply to the `INSERT`
reaches as well; `Crash` loses what is in memory. The stream: `Register`, `Open`, `Frame`, `Drop`, `Notice` (the client learns of the
end: `enterFallback`), `Reconnect`. The client: `Poll`, `Soon` (the debounce timer), `Read`
and `Deliver` of a refresh, `MarkBegin` to `MarkReply` of a mark as read with its optimistic
view, and the failures of each. Marks may overlap: each keeps its own copy (`prev`) of what
was shown when it began, the effect of the others included, and puts it back when it fails. What the user's rows contain is reduced to how new they are:
`version` counts writes, a view shows a version, and `mine` says that it shows a mark the
server has not confirmed.

## 4. What the runs show

| run | instance | shows |
|---|---|---|
| `file_attach` | 2 files, 2 references, 2 units of work, 1 cleaner, failing disk | `TypeOK`; `BytesBehindRows`: bytes behind every staged or attached row; `BoundIffAttached`: row and reference agree; `UowAllOrNothing`; `Lifecycle`: refinement of `FileLifecycle` |
| `file_quota` | 3 files (sizes 1, 2 and 2) of 2 people, 2 cleaners, 1 crash | `QuotaRespected`, `DiskWithinRoom`, `NoOrphanBytes`, `CleanedOnce`: a file is counted at most once, and only when it is deleted |
| `file_reclaim` | 2 files, 1 unit of work, 1 cleaner, failing disk, fair | `ExpiredReclaimed`, `UploadsEnd` |
| `org` | 3 departments, 1 employee, 2 requests | `TypeOK`; `LockedReferences`; `TreeWithoutRaces`: the check is right and no query hangs unless a move commits on an outdated check; `ScopeFollowsTree`: the query of a scope ends unless a move was outdated, and where it ends shows exactly what exists; `FreshSavesNarrow` |
| `org_cycle` | 2 departments, 1 employee, 2 requests | **violated**: `Acyclic` |
| `types` | 3 types, 2 presets, 2 requests, fair | `TypeOK`, `OneDefault`, `Dictionary` (refinement), `RequestsEnd` |
| `presence_records` | 3 types, 2 registrations, 3 instants | `TypeOK`, `OneStateUndisturbed`, `FormBehindRecord` |
| `presence_active_record` | 2 types, 2 registrations, 2 instants | **violated**: `OneActiveRecord` |
| `forms` | 2 slots, one of them singleton, 1 subject, 2 schemas, 2 records, 1 file, 2 requests | `TypeOK`; `OneRecord`; `FilesBehindValues`; `NoLostEdit`; `FitsPublished`; `CreationClaimed`: every record has a save that took itself for its creation, and told so or failed to after its `COMMIT` |
| `inbox` | 1 event and 1 mark, or 2 marks that may overlap; 2 refreshes, failing requests, a stop of the process, fair | `TypeOK`; `NeverStranded`: a timer or a connection is always under way; `PollingConsistent`; `AnnouncedIsShown` |
| `inbox_missed` | 2 events, no failure but broken streams, fair | **violated**: `PollingCatchesUp` |
| `accounts` | 1 user, 2 roles, 2 requests, 2 saves and 1 view of settings, 3 attempts | `TypeOK`; `LockoutExact`; `FlagsAgree`; `RolesAsAssigned`; `SettingsAsSaved`; `RightsAsSaved`; `InUseStays` |

**Disagreements with the documents.**

* `org_cycle`: `docs/tasks/m8-1-department-management.md:19` forbids a department to
  become a child of its own descendant. Two moves, *A below B* and *B below A*, are both
  checked before either is written; `updateDepartment` repeats nothing of the check.
  Afterwards `listDescendantDepartmentIdsForCycleCheck` (a `UNION ALL`) does not
  terminate for these departments.
* `presence_active_record`: `docs/tasks/m9-3a-board-realtime-backend.md:272` counts on one
  active record per employee and instant, because overlaps are refused. Records of the
  default type are exempt from the check, and `setDefault` does not look at records: a
  registration, a new default and a second registration, one after the other, leave two.
  (The race of two concurrent registrations is accepted by
  `docs/tasks/m9-2-self-registration-forms-generalization.md:58-60` and excluded from the
  property by `raced`.)
* `inbox_missed`: `docs/tasks/m7-4b-notification-frontend.md:143` says that polling
  guarantees consistency while the stream is down, whatever frames are lost. A notification
  written after the refresh with which the client fell back, and announced before the new
  stream is registered, is announced to nobody; `onOpen` then stops the polling without a
  refresh. It is not shown until the next signal, and while the stream lives there need be
  none.
* Read off the code, without a run of its own: `docs/rfc/m6-dynamic-forms-file-storage.md:290-298`
  lists the audit and the domain event of an upsert as step 6 of the one transaction.
  `upsertRecordBySubject` does both after the `COMMIT` (`forms.service.ts:289`, `:308`). A lost
  reply to `COMMIT`, an audit that throws or a process that stops there leaves a record that
  was never audited or published as created, and the next save of it reports an update.
  Step 1 of the same list, the definition, is read before the transaction, too, which is why
  `FitsPublished` allows a later revision. `CreationClaimed` is what the code does keep: among overlapping first saves there is always
  one that takes itself for the creation.

**Known limits of the code that are excluded, not refuted.**
`docs/tasks/m8-1-department-management.md:191-193` takes a deleted department to be empty.
It is when it is deleted and stays so under creation and hiring; a move whose parent was
deleted after the look-up, and the reactivation or save of an employee who still names the
department, put something into it. `LockedReferences` therefore speaks of what is still
where its creation put it, and `ScopeFollowsTree` of trees without such a move. In the same
way `LockoutExact` excludes logins that wrote from an outdated row, `FlagsAgree` saves that
wrote an old flag back, `FitsPublished` allows a revision published while the save was
reading, and `AnnouncedIsShown` excuses what was announced while nobody was registered, what
a failed refresh would have shown, and a row whose `INSERT` was answered with an error. The
row of a file can be marked `deleted` without being counted, when the reply to that `UPDATE`
is lost or the cycle dies before it counts: `CleanedOnce` does not promise the converse. Two
overlapping marks as read that both fail, the first to begin first, leave the list with the
mark of the first, which no request will confirm; a poll or the next signal repairs it
(`PollingConsistent`; `MarksHaveSource` says that it takes such an overlap). Where these limits
are hazards, the list in `PROJECT.json` names no property for them: a property that leaves a
race out would not catch it.

**Bounds.** Two units of work and two files are the least with which claims interleave,
fail half-way and wait crosswise. In `file_quota` one person uploads files of sizes 1 and 2
under a quota of 2, the other one of size 2, and the tenant's quota is 3: 1 + 2 of the first
is refused by the user's quota alone, 2 + 2 of both by the tenant's alone, and temporary and
stored bytes together reach the room of 4 on the disk. Two cleaners are needed for double counting, one crash for
rows left in `deleting`. A cycle check has a transitive case from three departments on.
Two set-default requests and a third type show clear, set and archive meeting on the same
rows, and the deadlock of a row lock with the index. Two records and three instants tell
the positions of half-open intervals apart. Two saves, a singleton slot and a file are what
a fallback from `INSERT`, an attach of the same file and an edit in between need; the profile
definition has two revisions (`Revisions`), so that an editor can be outdated. Two refreshes
are the least that can answer in the opposite order, two marks the least that can overlap;
`MaxCauses` keeps events and marks together at two, so an event meets one mark and two marks
meet each other, but not an event as well. Two roles let assignments overlap in
part; three attempts leave a counter between its first and its last.

Three instances are cut with a `CONSTRAINT` or a bound of the module: `Bounded` in
`MCOrgDirectory` (an id of a department is left to create, or there is no employee) and
`Apart` in `MCAccounts` (identities, assignments, and the settings of one role are explored
apart from one another, since they share only deletions) take away combinations of requests
that touch nothing in common; `MaxRefreshes`, `MaxMarks` and `MaxCauses` bound what the client has under
way and what happens to it. `MaxCrashes`, `ClaimLimit`, `Horizon`, `IdLeft` and `FreshIds` (ids are finite) are
bounds of the model or of the instance; the theorems hold for every value of the constants
and without the constraints. Deadlock is checked in every run but `file_reclaim`, whose
behaviours end when all files have been deleted.

**Symmetry** is used in runs without liveness only, over identities nothing orders.

**Fairness.** In `FileStore` uploads, units of work and the steps of a cycle are weakly
fair: the event loop runs every continuation and PostgreSQL answers. The timer fires again
and again (`WF` of `CleanClaim`). Removing a file and marking its row are strongly fair:
each may fail, and is tried again by the next cycle, but not for ever. Failures, crashes,
expiry and new requests have no fairness. In `StatusTypes` a step of a request is strongly
fair, since the queue of a PostgreSQL lock is served in turn. In `Notifications` handlers
come to their end, a request for the stream is answered or breaks, and what a connection
brings is read (weak fairness). Timers, the end of a connection and refreshes are strongly
fair: they may have to wait for a slot, which the code does not need, and a refresh that
keeps being sent is not lost for ever. Events, the user, failures and broken connections
have no fairness.

## 5. What is proved

All theorems are about `Spec` for every value of the constants that satisfies the named
assumptions: `Nil` is no identity, limits are naturals, and (in `FileStore`)
`BytesAssumption`, the facts of a sum of sizes over sets.

* **FileStoreProofs.** `Invariant` proves the inductive `IInv`, the conjunction of type
  correctness, `DiskInv` (where bytes are at each position of an upload, and that the write
  lock has one owner), `QuotaInv` (a tally read under the advisory lock is an upper bound
  of what counts until the transaction ends), `RowInv`, `UowInv` (a row under an
  uncommitted claim is still staged and belongs to the asked files of its unit of work),
  `CleanInv` (what a cycle still has to do is `deleting` or `deleted`) and `OrphanInv`. The
  properties of the runs are too weak to be inductive: that the bytes of an attached file
  stay needs to know that no cycle holds the file, which needs to know that a claimed row is
  never `staged` again. From it follow `BytesSafe`, `ReferenceSafe`, `AttachAtomic`,
  `QuotaSafe`, `DiskSafe`, `CountedOnce` (at most once, and only deleted files), `OrphanFree`
  and `ImplementsLifecycle`; so do
  `LocksNeverLeak` (whoever holds a lock is between taking and releasing it),
  `WaitsEndWithOthers` (a unit of work waits for others that are under way) and
  `NothingIsForgotten` (what cleanup owes is within reach of its next cycle).
* **FileLifecycleProofs.** What follows from the promise of the files module alone: an
  attached file stays attached to its reference with its bytes, a status goes only onward,
  bytes go only from claimed files (`BoundForGood`), and a deleted row has none left
  (`NoBytesWithoutRow`). `FileStore` has both through its refinement (`AttachedForGood`,
  `DeletedRowsAreEmpty`). `Forms` takes only steps of the promise (`FilesAsPromised`) and
  has the first by the same theorem (`RecordsKeepTheirFiles`). Neither proof looks at
  transactions or saves again.
* **OrgDirectoryProofs.** `ReferencesLocked`: between the second look-up and `COMMIT` the
  lock keeps the parent alive (`RefInv`). `TreeUnraced`: a move that is not outdated carries
  the fact that its new parent is not below it (`TreeInv`); then any set of departments
  closed under *parent* after the move was one before. `ScopesFollowTree`: where every moved
  department has a live parent, a live department below `d` is reached through live ones
  only (`Rooted`, `SeenIsBelow`), because those that were not moved have a live parent by
  `LockedReferences`; and the query ends where the tree has no cycle, which is `TreeUnraced`. `FreshSaves`: a copy that is not
  stale equals the row (`FreshInv`). `TypeCorrect`. `LocksNeverMeet`: by the shape of a
  request at each step a lock has one holder, and a holder waits neither for a lock nor for
  a row, so there is no circle. `DeletedForGood` combines `RefInv` with the steps that write
  departments: only a move looks at one without its lock, and it passes deleted ones by.
* **StatusTypesProofs.** `DefaultUnique` and `ImplementsDictionary` from one invariant per
  transaction: the rows it has cleared were the default and are locked by it; a transaction
  past the index has cleared the only entry. `WaitsForTheOpen` follows from the same: where
  the condition of the next step of a request does not hold (`Ready` names it for each
  step), the row or the index entry in its way is that of an open transaction.
* **PresenceProofs.** `OneState`: a registration whose check is current overlaps no live
  record that is not of the exempt type, and without a change of the default none is.
  `FormBehind`: a registration with a document comes to its insert only past the form.
  `OverlapsAreExempt` drops the condition that the default stays: a check that is current
  holds of all live records but those of the type it exempted, which every record remembers
  (`ExemptedInv`). `RecordsHaveTypes`: the promise of the dictionary holds beside the
  records, and with it their types.
* **FormsProofs.** `FormsInv` strengthens the five properties of the run by four parts.
  `Tables` is type correctness. `Locks`: a locked row has one request, at the position that
  locks it. `Recorded`: the newest revision of each definition is in the history with its
  fields. `Requests`: what a request has read is still true as far as it will rely on it (a
  validated value fits an edition not older than the revision read, an uncommitted singleton
  is the only one of its subject), and two requests hold different ids and files. The
  theorems about the properties of the run are its consequences. `RecordsAreKept` needs in
  addition that only a save to a singleton slot comes to write to a record that exists
  (`UpdatesSingletons`), `OneEditionPerRevision` that the revision a save has read was
  published (`ReadsPublished`); `ReqStep` says once for all steps where a request has its
  revision from. `OnlyFilesDeadlock` goes through the five places where a request
  waits: only a save that is attaching files waits and is waited for, and never for a file
  of its own (`ClaimsOnce`).
* **NotificationsProofs.** `TypeCorrect` needs `NewsInv`: `version` stays within `Versions`
  because it is at most the number of events handled plus the marks that were applied or have failed, a fact about
  cardinalities (`Counted`). `ClientIsNeverStranded` is inductive together with the types of
  the client (`ClientInv`). `NewsReachesTheView` is
  about steps: a new notification is carried from its `INSERT` on by an announcement, a frame,
  a timer, a lost connection or a refresh that will show it, and a step passes it on or shows
  it, unless it is a failure or an announcement to nobody that the property excuses. It needs
  that no answer is of a version there has not been (`NothingFromTheFuture`).
  `MarksHaveSource`: a mark of its own that the client shows belongs to a request under way,
  or was put back by the failure of a later mark begun over an earlier one.
* **AccountsProofs.** `AccountInv`: a row that is not locked has attempts left, in the table
  and in every copy a login counts from; with it `LockoutIsExact` and `FlagsStayTogether`
  are inductive. `RoleInv`: what an assignment found and has not deleted was assigned by
  one it overlaps (`Sound`, `Inserting`), two assignments to one user have locked different
  rows (`Aside`), and the roles of a user come from those last assigned (`Assigned`); from
  it `RolesStayAsAssigned` and `DeletionsSpareRolesInUse`. `LockoutIsKept` reads the lockout
  step by step: a wrong password that lowers the count or lifts a lock has been counted from
  a row that had changed, or the lock was over. `SettingInv`: a save past its
  `UPDATE` has the role to itself, so what its `DELETE` saw is what the role has; a view has
  got what lies between `always` and `ever` (`ViewSound`); from it `SettingsStayAsSaved`,
  `RightsStayAsSaved` and `RolesAreSavedInTurn`.

**Model-checked only.** `ExpiredReclaimed`, `UploadsEnd`, `RequestsEnd`,
`PollingConsistent` and `AnnouncedIsShown` (liveness under fairness is outside the prover),
and the three violations. What these liveness properties need of the states is proved:
`NothingIsForgotten` for `ExpiredReclaimed`, `LocksNeverLeak` for `UploadsEnd`,
`WaitsForTheOpen` for `RequestsEnd`, `NewsReachesTheView` for `AnnouncedIsShown`; what is
left to fairness is that somebody takes the step that is there. `BytesAssumption` is
assumed, not proved: that a sum over sets behaves like one is an induction over data. TLC
evaluates it on the sizes of each instance.

## 6. What is not modelled

* **Rate limiter of the files.** It refuses from time stamps it keeps for itself; `FileStore`
  may refuse an upload at any time. What it lets through concurrently is bounded by the
  quotas, which are modelled.
* **Sessions.** A login inserts one row with an expiry that nothing changes;
  authentication reads it.
* **Scheduler.** Registers the jobs while the process starts and takes them back in
  reverse order when one fails: sequential, and its jobs are placeholders.
* **Trigger configuration.** Single writes; their effect is a choice in `HandleConfig`.
* **Look-ups, lists, boards and downloads.** Reads that return rows; where a property
  needs one it is a state function (`ActiveAt`, `Occupied`, `MatchesScope`).
* **Status logs and audit.** Single inserts that nothing reads back, except that a failing
  audit ends a cleanup cycle and comes between a saved form and its event.
* **In-memory repositories, migrations and seeds.** The first stand in for PostgreSQL in
  tests; the others run alone.
* **Content.** Content sniffing, names, labels, sort orders, remarks, wording, and the
  checks of single form values, which are a refusal that may happen.
* **Session of the web client** (`App.tsx`, `FirstLoginWizard.tsx`). A token in local
  storage, a user in memory, a bootstrap request between them. A late answer to the
  bootstrap of an earlier session can show its user beside the token of the next (listed as
  a hazard); the server authorises each request from the token, so none of the invariants
  here depends on it.
* **Other web pages, component library, gateway, realtime gateway, IM adapter, contracts and
  deployment.** Rendering, wiring, stubs, types and configuration.
