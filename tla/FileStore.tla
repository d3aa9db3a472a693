----------------------------- MODULE FileStore -----------------------------
(***************************************************************************)
(* The files module of the work platform: uploads, units of work that      *)
(* attach uploaded files to a business record, and the cleanup of staged   *)
(* files whose time ran out (modules/files/api).                           *)
(*                                                                         *)
(* A file is at once a row of files.file_objects, a row of                 *)
(* files.file_references and bytes on a local disk.  No transaction spans  *)
(* the three: an upload writes the disk before the row exists, a cleanup   *)
(* cycle commits a claim, erases the bytes and commits the deletion in     *)
(* three separate steps, and a unit of work holds uncommitted row changes  *)
(* while both go on.  Every await of the code is a boundary between two    *)
(* actions here.                                                           *)
(*                                                                         *)
(* One enterprise is modelled: every statement filters on enterprise_id.   *)
(* A file identity stands for the uuid of the row and for the storage key, *)
(* both fresh for every upload.                                            *)
(***************************************************************************)
EXTENDS Naturals, FiniteSets

CONSTANTS
  Files,        \* uploads, hence file ids and storage keys
  Users,        \* people who upload and attach
  Refs,         \* referenceIds: form records a file may be bound to
  Uows,         \* units of work (one per save of a record)
  Cleaners,     \* cleanup cycles: timer ticks and the CLI command
  Owner,        \* Owner[f]: who uploads f (uploaded_by)
  Size,         \* Size[f]: sizeBytes
  Bytes(_),     \* Bytes(S): total sizeBytes of a set of files
  TenantQuota,  \* config.tenantQuotaBytes
  UserQuota,    \* config.userQuotaBytes
  DiskRoom,     \* bytes the volume takes before the free-space threshold
  ClaimLimit,   \* rows one cleanup cycle claims at most
  MaxCrashes,   \* bound on the crashes of the gateway process
  DiskFaults,   \* may a removal from the disk fail?
  Nil           \* "no file, reference, unit of work or user"

(***************************************************************************)
(* Bytes is the sum of the sizes; only what a sum satisfies is assumed.    *)
(***************************************************************************)
ASSUME BytesAssumption ==
  /\ Owner \in [Files -> Users]
  /\ Size \in [Files -> Nat]
  /\ \A S \in SUBSET Files : Bytes(S) \in Nat
  /\ Bytes({}) = 0
  /\ \A S \in SUBSET Files : \A f \in Files \ S : Bytes(S \cup {f}) = Bytes(S) + Size[f]
  /\ \A S, T \in SUBSET Files : S \subseteq T => Bytes(S) <= Bytes(T)

ASSUME LimitsAssumption ==
  /\ TenantQuota \in Nat /\ UserQuota \in Nat /\ DiskRoom \in Nat
  /\ ClaimLimit \in Nat \ {0} /\ MaxCrashes \in Nat
  /\ DiskFaults \in BOOLEAN

ASSUME NullAssumption ==
  /\ Nil \notin Files \cup Refs \cup Uows \cup Users

VARIABLES
  up,         \* up[f]: where the upload request of f stands
  writer,     \* the upload inside withWriteLock, or Nil
  temp,       \* files whose temporary file is on disk
  disk,       \* files whose bytes are at their final path
  quotaLock,  \* the upload holding the tenant's advisory lock, or Nil
  tally,      \* tally[f]: the two sums the upload of f has read
  status,     \* status[f]: committed status of the row, "none" without a row
  expired,    \* files past staged_expires_at
  ref,        \* ref[f]: committed reference, or Nil
  uow,        \* uow[t]: progress of a unit of work
  rowLock,    \* rowLock[f]: the unit of work with an uncommitted claim on f
  cleaner,    \* cleaner[c]: progress of a cleanup cycle
  cleaned,    \* cleaned[f]: how many cycles counted f as cleaned
  crashes     \* crashes of the gateway so far

uploadVars == <<up, writer, temp, quotaLock, tally>>
rowVars    == <<status, ref>>
uowVars    == <<uow, rowLock>>
cleanVars  == <<cleaner, cleaned>>
vars == <<up, writer, temp, disk, quotaLock, tally, status, expired, ref,
          uow, rowLock, cleaner, cleaned, crashes>>

UploadEnded == {"done", "refused", "lost"}
UploadState == {"idle", "queued", "probed", "temp", "stored", "summed", "undo"}
                 \cup UploadEnded
Status      == {"none", "staged", "attached", "deleting", "deleted"}
UowEnded    == {"committed", "aborted"}

NoTally == [tenant |-> 0, user |-> 0]
NewUow  == [pc |-> "idle", actor |-> Nil, ref |-> Nil, asked |-> {},
            left |-> {}, cur |-> Nil, seen |-> "none", held |-> {}]
Idle    == [pc |-> "idle", todo |-> {}, cur |-> Nil]

Init ==
  /\ up = [f \in Files |-> "idle"] /\ tally = [f \in Files |-> NoTally]
  /\ writer = Nil /\ quotaLock = Nil
  /\ temp = {} /\ disk = {} /\ expired = {}
  /\ status = [f \in Files |-> "none"] /\ ref = [f \in Files |-> Nil]
  /\ uow = [t \in Uows |-> NewUow] /\ rowLock = [f \in Files |-> Nil]
  /\ cleaner = [c \in Cleaners |-> Idle] /\ cleaned = [f \in Files |-> 0]
  /\ crashes = 0

-----------------------------------------------------------------------------
(***************************************************************************)
(* uploadFile                                                              *)
(***************************************************************************)

(* sumStoredBytes: the statuses whose disk space is not yet released. *)
Counted        == {f \in Files : status[f] \in {"staged", "attached", "deleting"}}
CountedOf(u)   == {f \in Counted : Owner[f] = u}

Goto(f, pc) == up' = [up EXCEPT ![f] = pc]

(* The rate limiter and the content checks let the upload through, or not. *)
UploadBegin(f) ==
  /\ up[f] = "idle"
  /\ \E pc \in {"queued", "refused"} : Goto(f, pc)
  /\ UNCHANGED <<writer, temp, disk, quotaLock, tally, status, expired, ref,
                 uowVars, cleanVars, crashes>>

(* withWriteLock: the queue of promises lets one writer in at a time. *)
WriterFreeUnlocked == TRUE          \* variant: no write lock
WriterFree == writer = Nil

(* assertDiskHasSpace: the probe under the lock. *)
StoreProbe(f) ==
  /\ up[f] = "queued" /\ WriterFree
  /\ \/ /\ Bytes(disk \cup temp) + Size[f] <= DiskRoom
        /\ Goto(f, "probed") /\ writer' = f
     \/ /\ Bytes(disk \cup temp) + Size[f] > DiskRoom
        /\ Goto(f, "refused") /\ UNCHANGED writer
  /\ UNCHANGED <<temp, disk, quotaLock, tally, status, expired, ref, uowVars,
                 cleanVars, crashes>>

(* release() runs in a finally block. *)
ReleaseWriterOnSuccess(f) == writer' = IF up'[f] = "refused" THEN f ELSE Nil  \* variant
ReleaseWriter(f) == writer' = Nil

StoreTemp(f) ==
  /\ up[f] = "probed"
  /\ Goto(f, "temp") /\ temp' = temp \cup {f}
  /\ UNCHANGED <<writer, disk, quotaLock, tally, status, expired, ref, uowVars,
                 cleanVars, crashes>>

StoreRename(f) ==
  /\ up[f] = "temp"
  /\ Goto(f, "stored")
  /\ temp' = temp \ {f} /\ disk' = disk \cup {f} /\ ReleaseWriter(f)
  /\ UNCHANGED <<quotaLock, tally, status, expired, ref, uowVars, cleanVars,
                 crashes>>

(* writeFile or rename throws; the temporary file is removed if rm succeeds. *)
StoreFails(f) ==
  /\ up[f] \in {"probed", "temp"}
  /\ Goto(f, "refused") /\ ReleaseWriter(f)
  /\ \/ temp' = temp \ {f}
     \/ DiskFaults /\ UNCHANGED temp
  /\ UNCHANGED <<disk, quotaLock, tally, status, expired, ref, uowVars,
                 cleanVars, crashes>>

(* pg_advisory_xact_lock on the tenant: one quota check at a time. *)
QuotaFreeUnlocked == TRUE           \* variant: no advisory lock
QuotaFree == quotaLock = Nil

(* createStagedFileObjectWithQuota: advisory locks, then the two sums. *)
QuotaSum(f) ==
  /\ up[f] = "stored" /\ QuotaFree
  /\ Goto(f, "summed") /\ quotaLock' = f
  /\ tally' = [tally EXCEPT ![f] = [tenant |-> Bytes(Counted),
                                    user   |-> Bytes(CountedOf(Owner[f]))]]
  /\ UNCHANGED <<writer, temp, disk, status, expired, ref, uowVars, cleanVars,
                 crashes>>

WithinQuota(f) ==
  /\ tally[f].tenant + Size[f] <= TenantQuota
  /\ tally[f].user + Size[f] <= UserQuota

EndQuotaRefund(f) ==                \* variant: takes the size back off the sums
  /\ quotaLock' = Nil
  /\ tally' = [tally EXCEPT ![f].tenant = @ - Size[f]]
EndQuota(f) == quotaLock' = Nil /\ tally' = [tally EXCEPT ![f] = NoTally]

QuotaInsert(f) ==
  /\ up[f] = "summed" /\ WithinQuota(f)
  /\ status' = [status EXCEPT ![f] = "staged"] /\ EndQuota(f)
  /\ \/ Goto(f, "done")
     \/ Goto(f, "undo")    \* committed, yet the reply to COMMIT was an error
  /\ UNCHANGED <<writer, temp, disk, expired, ref, uowVars, cleanVars, crashes>>

QuotaRefuse(f) ==
  /\ up[f] = "summed" /\ ~WithinQuota(f)
  /\ Goto(f, "undo") /\ EndQuota(f)
  /\ UNCHANGED <<writer, temp, disk, status, expired, ref, uowVars, cleanVars,
                 crashes>>

(* A statement of the transaction fails: ROLLBACK. *)
QuotaFails(f) ==
  /\ up[f] \in {"stored", "summed"}
  /\ Goto(f, "undo")
  /\ IF up[f] = "summed" THEN EndQuota(f) ELSE UNCHANGED <<quotaLock, tally>>
  /\ UNCHANGED <<writer, temp, disk, status, expired, ref, uowVars, cleanVars,
                 crashes>>

(* provider.delete: rm with force, idempotent. *)
EraseNothing(f) == UNCHANGED disk   \* variant: the bytes stay
Erase(f) == disk' = disk \ {f}

(* The catch block of uploadFile removes the stored bytes, ignoring errors. *)
UploadUndo(f) ==
  /\ up[f] = "undo"
  /\ Goto(f, "refused")
  /\ Erase(f) \/ (DiskFaults /\ UNCHANGED disk)
  /\ UNCHANGED <<writer, temp, quotaLock, tally, status, expired, ref, uowVars,
                 cleanVars, crashes>>

(* The clock passes staged_expires_at. *)
Expire(f) ==
  /\ status[f] = "staged" /\ f \notin expired
  /\ expired' = expired \cup {f}
  /\ UNCHANGED <<uploadVars, disk, rowVars, uowVars, cleanVars, crashes>>

-----------------------------------------------------------------------------
(***************************************************************************)
(* withUnitOfWork and attachFiles: one transaction per unit of work.  A    *)
(* claim changes the row and inserts the reference; both stay invisible,   *)
(* and the row locked, until the transaction ends.                         *)
(***************************************************************************)
Active(t) == uow[t].pc \notin {"idle"} \cup UowEnded

(* The row locks a unit of work waits for. *)
WaitsFor(t, s) ==
  \/ uow[t].pc = "claim" /\ rowLock[uow[t].cur] = s
  \/ uow[t].pc = "ref" /\ s # t /\ uow[t].cur \in uow[s].held

(* What one file after another does to the record of a unit of work. *)
Begun(u, actor, r, fs) == [u EXCEPT !.pc = "next", !.actor = actor, !.ref = r,
                                    !.asked = fs, !.left = fs]
Found(u, f)     == [u EXCEPT !.pc = "ref", !.cur = f, !.seen = status[f]]
Unbound(u)      == [u EXCEPT !.pc = "claim"]
Bound(u, locks) == [u EXCEPT !.pc = "next", !.cur = Nil, !.seen = "none",
                             !.left = u.left \ {u.cur}, !.held = u.held \cup locks]
Ended(u, pc)    == [u EXCEPT !.pc = pc, !.left = {}, !.cur = Nil, !.seen = "none",
                             !.held = {}]

UowBegin(t) ==
  /\ uow[t].pc = "idle"
  /\ \E u \in Users, r \in Refs, fs \in SUBSET Files \ {{}} :
       uow' = [uow EXCEPT ![t] = Begun(uow[t], u, r, fs)]
  /\ UNCHANGED <<uploadVars, disk, rowVars, expired, rowLock, cleanVars, crashes>>

(* End the transaction of t: its row locks go, uncommitted changes with them. *)
EndUow(t, pc) ==
  /\ uow' = [uow EXCEPT ![t] = Ended(uow[t], pc)]
  /\ rowLock' = [f \in Files |-> IF rowLock[f] = t THEN Nil ELSE rowLock[f]]

Rollback(t) ==
  /\ EndUow(t, "aborted")
  /\ UNCHANGED <<uploadVars, disk, rowVars, expired, cleanVars, crashes>>

(* attachStagedFile: read the object row (committed data, no lock). *)
AttachRead(t) ==
  /\ uow[t].pc = "next"
  /\ \E f \in uow[t].left :
       \/ /\ status[f] # "none" /\ Owner[f] = uow[t].actor
          /\ uow' = [uow EXCEPT ![t] = Found(uow[t], f)]
          /\ UNCHANGED <<uploadVars, disk, rowVars, expired, rowLock, cleanVars,
                         crashes>>
       \/ /\ status[f] = "none" \/ Owner[f] # uow[t].actor     \* not_found
          /\ Rollback(t)

(* Read the reference FOR UPDATE: absent, identical, or another one. *)
AttachReference(t) ==
  LET f == uow[t].cur IN
  /\ uow[t].pc = "ref"
  /\ \A s \in Uows : ~WaitsFor(t, s)
  /\ \/ /\ ref[f] = Nil
        /\ uow' = [uow EXCEPT ![t] = Unbound(uow[t])]
        /\ UNCHANGED <<uploadVars, disk, rowVars, expired, rowLock, cleanVars,
                       crashes>>
     \/ /\ ref[f] = uow[t].ref /\ uow[t].seen = "attached"     \* idempotent
        /\ uow' = [uow EXCEPT ![t] = Bound(uow[t], {f})]
        /\ UNCHANGED <<uploadVars, disk, rowVars, expired, rowLock, cleanVars,
                       crashes>>
     \/ /\ ref[f] # Nil
        /\ ref[f] # uow[t].ref \/ uow[t].seen # "attached"     \* already_referenced
        /\ Rollback(t)

(* The UPDATE matches only a row that is still 'staged'. *)
ClaimMatchesSeen(t) == uow[t].seen = "staged"    \* variant: trusts the first read
ClaimMatches(t) == status[uow[t].cur] = "staged"

(* The reference is inserted by the transaction's own client. *)
ReferenceAtOnce(t) == ref' = [ref EXCEPT ![uow[t].cur] = uow[t].ref]  \* variant: by the pool
ReferenceOnCommit(t) == UNCHANGED ref

(* The UPDATE waits for a claim that holds the row; then the INSERT. *)
AttachClaim(t) ==
  LET f == uow[t].cur IN
  /\ uow[t].pc = "claim" /\ rowLock[f] = Nil
  /\ \/ /\ ClaimMatches(t)
        /\ uow' = [uow EXCEPT ![t] = Bound(uow[t], {})]
        /\ rowLock' = [rowLock EXCEPT ![f] = t]
        /\ ReferenceOnCommit(t)
        /\ UNCHANGED <<uploadVars, disk, status, expired, cleanVars, crashes>>
     \/ /\ ~ClaimMatches(t)                                      \* not_found
        /\ Rollback(t)

UowCommit(t) ==
  /\ uow[t].pc = "next" /\ uow[t].left = {}
  /\ EndUow(t, "committed")
  /\ status' = [f \in Files |-> IF rowLock[f] = t THEN "attached" ELSE status[f]]
  /\ ref' = [f \in Files |-> IF rowLock[f] = t THEN uow[t].ref ELSE ref[f]]
  /\ UNCHANGED <<uploadVars, disk, expired, cleanVars, crashes>>

(* The caller's part of the transaction fails, or a statement does. *)
UowFails(t) == Active(t) /\ Rollback(t)

(* PostgreSQL aborts a transaction that waits in a cycle. *)
Deadlocked(t) ==
  \E S \in SUBSET Uows :
    /\ t \in S
    /\ \A s \in S : (\E r \in S : WaitsFor(s, r)) /\ (\E r \in S : WaitsFor(r, s))

DeadlockVictim(t) == Deadlocked(t) /\ Rollback(t)

-----------------------------------------------------------------------------
(***************************************************************************)
(* cleanupExpiredStaged: claim, erase, mark.  Cycles may overlap: the      *)
(* timer does not wait for the previous one, the CLI is another process.   *)
(***************************************************************************)

(* claimExpiredStagedFiles: FOR UPDATE SKIP LOCKED leaves out claimed rows. *)
ClaimableLocked ==                  \* variant: rows claimed by a unit of work too
  {f \in Files : \/ status[f] = "staged" /\ f \in expired /\ ref[f] = Nil
                 \/ status[f] = "deleting"}
ClaimableStaged ==                  \* variant: rows left in 'deleting' are not retried
  {f \in Files : rowLock[f] = Nil /\ status[f] = "staged" /\ f \in expired /\ ref[f] = Nil}
Claimable ==
  {f \in Files :
     /\ rowLock[f] = Nil
     /\ \/ status[f] = "staged" /\ f \in expired /\ ref[f] = Nil
        \/ status[f] = "deleting"}

CleanClaim(c) ==
  /\ cleaner[c].pc = "idle" /\ Claimable # {}
  /\ \E S \in SUBSET Claimable :
       /\ \/ S = Claimable /\ Cardinality(S) <= ClaimLimit
          \/ Cardinality(S) = ClaimLimit
       /\ status' = [f \in Files |-> IF f \in S THEN "deleting" ELSE status[f]]
       /\ cleaner' = [cleaner EXCEPT ![c] = [pc |-> "erase", todo |-> S, cur |-> Nil]]
  /\ UNCHANGED <<uploadVars, disk, expired, ref, uowVars, cleaned, crashes>>

Erased(cl, f)   == [cl EXCEPT !.pc = "mark", !.cur = f]
Finished(cl, f) == [cl EXCEPT !.pc = "erase", !.todo = cl.todo \ {f}, !.cur = Nil]

CleanErase(c, f) ==
  /\ cleaner[c].pc = "erase" /\ f \in cleaner[c].todo
  /\ Erase(f)
  /\ cleaner' = [cleaner EXCEPT ![c] = Erased(cleaner[c], f)]
  /\ UNCHANGED <<uploadVars, rowVars, expired, uowVars, cleaned, crashes>>

(* markFileDeleted: UPDATE ... WHERE status = 'deleting' RETURNING. *)
MarkMatchesAny(f) == TRUE           \* variant: no condition on the status
MarkMatches(f) == status[f] = "deleting"
MarkRow(f) == MarkMatches(f) /\ status' = [status EXCEPT ![f] = "deleted"]

(* A file is counted when the UPDATE returned its row. *)
CleanMark(c) ==
  LET f == cleaner[c].cur IN
  /\ cleaner[c].pc = "mark"
  /\ \/ MarkRow(f) /\ cleaned' = [cleaned EXCEPT ![f] = @ + 1]
     \/ ~MarkMatches(f) /\ UNCHANGED <<status, cleaned>>
  /\ cleaner' = [cleaner EXCEPT ![c] = Finished(cleaner[c], f)]
  /\ UNCHANGED <<uploadVars, disk, expired, ref, uowVars, crashes>>

(* rm or the UPDATE throws: audit and go on; a failing audit ends the cycle, *)
(* and so does a process that stops here.  The UPDATE may have committed all *)
(* the same: then the row is deleted, and no cycle will ever count it.       *)
CleanFails(c) ==
  /\ \/ cleaner[c].pc = "mark"
     \/ cleaner[c].pc = "erase" /\ cleaner[c].todo # {} /\ DiskFaults
  /\ \E f \in (IF cleaner[c].pc = "mark" THEN {cleaner[c].cur} ELSE cleaner[c].todo),
        audited \in BOOLEAN :
       cleaner' = [cleaner EXCEPT ![c] =
                               IF audited THEN Finished(cleaner[c], f) ELSE Idle]
  /\ UNCHANGED status \/ (cleaner[c].pc = "mark" /\ MarkRow(cleaner[c].cur))
  /\ UNCHANGED <<uploadVars, disk, ref, expired, uowVars, cleaned, crashes>>

CleanEnd(c) ==
  /\ cleaner[c].pc = "erase" /\ cleaner[c].todo = {}
  /\ cleaner' = [cleaner EXCEPT ![c] = Idle]
  /\ UNCHANGED <<uploadVars, disk, rowVars, expired, uowVars, cleaned, crashes>>

-----------------------------------------------------------------------------
(***************************************************************************)
(* The gateway process dies: requests, units of work and the in-memory     *)
(* write lock go with it, PostgreSQL rolls back open transactions.         *)
(* Cleanup cycles of another process (survivors) go on.                    *)
(***************************************************************************)
InFlight(f) == up[f] \notin {"idle"} \cup UploadEnded

Crash ==
  /\ crashes < MaxCrashes /\ crashes' = crashes + 1
  /\ up' = [f \in Files |-> IF InFlight(f) THEN "lost" ELSE up[f]]
  /\ writer' = Nil /\ quotaLock' = Nil
  /\ tally' = [f \in Files |-> NoTally]
  /\ uow' = [t \in Uows |-> IF Active(t) THEN Ended(uow[t], "aborted") ELSE uow[t]]
  /\ rowLock' = [f \in Files |-> Nil]
  /\ \E survivors \in SUBSET Cleaners :
       cleaner' = [c \in Cleaners |-> IF c \in survivors THEN cleaner[c] ELSE Idle]
  /\ UNCHANGED <<temp, disk, rowVars, expired, cleaned>>

(* Nothing is under way and nothing waits for the next cycle. *)
Settled ==
  /\ \A f \in Files : up[f] \in UploadEnded /\ (status[f] = "staged" => f \in expired)
  /\ \A t \in Uows : uow[t].pc \in UowEnded
  /\ \A c \in Cleaners : cleaner[c] = Idle
  /\ Claimable = {}
  /\ UNCHANGED vars

UploadStep(f) ==
  \/ UploadBegin(f) \/ StoreProbe(f) \/ StoreTemp(f) \/ StoreRename(f)
  \/ QuotaSum(f) \/ QuotaInsert(f) \/ QuotaRefuse(f) \/ UploadUndo(f)
UowStep(t) ==
  \/ AttachRead(t) \/ AttachReference(t) \/ AttachClaim(t) \/ UowCommit(t)
  \/ DeadlockVictim(t)
CleanStep(c) ==
  \/ CleanClaim(c) \/ CleanMark(c) \/ CleanEnd(c)
  \/ \E f \in Files : CleanErase(c, f)

Next ==
  \/ \E f \in Files : UploadStep(f) \/ StoreFails(f) \/ QuotaFails(f) \/ Expire(f)
  \/ \E t \in Uows : UowBegin(t) \/ UowStep(t) \/ UowFails(t)
  \/ \E c \in Cleaners : CleanStep(c) \/ CleanFails(c)
  \/ Crash
  \/ Settled

Spec == Init /\ [][Next]_vars

(***************************************************************************)
(* Requests and transactions are scheduled; the cleanup timer keeps        *)
(* firing, and neither the removal of one file nor the update of its row   *)
(* fails every time it is tried.                                           *)
(***************************************************************************)
Fairness ==
  /\ \A f \in Files : WF_vars(UploadStep(f))
  /\ \A t \in Uows : WF_vars(UowStep(t))
  /\ \A c \in Cleaners : WF_vars(CleanClaim(c)) /\ WF_vars(CleanEnd(c))
  /\ \A f \in Files :
       /\ SF_vars(\E c \in Cleaners : CleanErase(c, f))
       /\ SF_vars(\E c \in Cleaners : cleaner[c].cur = f /\ CleanMark(c))

FairSpec == Spec /\ Fairness

-----------------------------------------------------------------------------
UowRecord ==
  [pc : {"idle", "next", "ref", "claim"} \cup UowEnded, actor : Users \cup {Nil},
   ref : Refs \cup {Nil}, asked : SUBSET Files, left : SUBSET Files,
   cur : Files \cup {Nil}, seen : Status, held : SUBSET Files]
CleanerRecord ==
  [pc : {"idle", "erase", "mark"}, todo : SUBSET Files, cur : Files \cup {Nil}]

UploadTypeOK ==
  /\ up \in [Files -> UploadState]
  /\ writer \in Files \cup {Nil} /\ quotaLock \in Files \cup {Nil}
  /\ temp \subseteq Files /\ disk \subseteq Files
  /\ tally \in [Files -> [tenant : Nat, user : Nat]]
RowTypeOK ==
  /\ status \in [Files -> Status] /\ ref \in [Files -> Refs \cup {Nil}]
  /\ expired \subseteq Files
UowTypeOK ==
  /\ uow \in [Uows -> UowRecord] /\ rowLock \in [Files -> Uows \cup {Nil}]
  /\ \A t \in Uows : uow[t].pc \in {"ref", "claim"} => uow[t].cur \in Files
CleanTypeOK ==
  /\ cleaner \in [Cleaners -> CleanerRecord] /\ cleaned \in [Files -> Nat]
  /\ \A c \in Cleaners : cleaner[c].pc = "mark" => cleaner[c].cur \in Files
TypeOK == UploadTypeOK /\ RowTypeOK /\ UowTypeOK /\ CleanTypeOK /\ crashes \in Nat

(***************************************************************************)
(* Safety                                                                  *)
(***************************************************************************)

(* While the row of a file whose upload succeeded says staged or attached   *)
(* its bytes are on disk: no cleanup cycle, failed request or crash erases  *)
(* a file that a unit of work has attached or still may attach.             *)
BytesBehindRows ==
  \A f \in Files :
    up[f] = "done" /\ status[f] \in {"staged", "attached"} => f \in disk

(* The row and the reference table agree, though the claim of a unit of     *)
(* work and the claim of a cleanup cycle race for the same row.             *)
BoundIffAttached ==
  \A f \in Files : status[f] = "attached" <=> ref[f] # Nil

(* A unit of work that commits owns every file it asked for, now and later, *)
(* and a reference exists only through a unit of work that committed.       *)
UowAllOrNothing ==
  /\ \A t \in Uows : uow[t].pc = "committed" =>
       \A f \in uow[t].asked : status[f] = "attached" /\ ref[f] = uow[t].ref
  /\ \A f \in Files : ref[f] # Nil =>
       \E t \in Uows : /\ uow[t].pc = "committed" /\ uow[t].ref = ref[f]
                        /\ f \in uow[t].asked /\ uow[t].actor = Owner[f]

(* Concurrent uploads never take the tenant or a user over the quota, with  *)
(* every object counted whose disk space is not released.                   *)
QuotaRespected ==
  /\ Bytes(Counted) <= TenantQuota
  /\ \A u \in Users : Bytes(CountedOf(u)) <= UserQuota

(* Concurrent uploads never eat into the free space the provider keeps.     *)
DiskWithinRoom == Bytes(disk \cup temp) <= DiskRoom

(* Without a crash or a failing rm, every byte on disk belongs to an upload *)
(* in flight or to a row that a cleanup cycle can still reach.              *)
NoOrphanBytes ==
  (crashes = 0 /\ ~DiskFaults) =>
    /\ \A f \in disk : InFlight(f) \/ status[f] \notin {"none", "deleted"}
    /\ \A f \in temp : writer = f

(* Overlapping cleanup cycles never count a file twice, and count none that *)
(* is not deleted: the counts they report may fall short of the rows deleted *)
(* (a lost reply of the UPDATE), they never exceed them.                    *)
CleanedOnce ==
  \A f \in Files : cleaned[f] = 0 \/ (cleaned[f] = 1 /\ status[f] = "deleted")

(***************************************************************************)
(* Liveness                                                                *)
(***************************************************************************)

(* An expired staged file is attached or reclaimed, and a claimed one is    *)
(* deleted, whatever cycles die or fail in between.                         *)
ExpiredReclaimed ==
  \A f \in Files :
    (status[f] = "deleting" \/ (status[f] = "staged" /\ f \in expired))
      ~> status[f] \in {"attached", "deleted"}

(* Every upload ends: the write lock and the quota lock are handed on.      *)
UploadsEnd == \A f \in Files : InFlight(f) ~> up[f] \in UploadEnded

(***************************************************************************)
(* Refinement: the bytes that count are those of uploads that succeeded.   *)
(***************************************************************************)
Life == INSTANCE FileLifecycle WITH
          content <- {f \in disk : up[f] = "done"}

(* The transactions, the three-step cleanup, failures and crashes are       *)
(* invisible to whoever looks at committed rows and at the bytes.           *)
Lifecycle == Life!Spec
=============================================================================
