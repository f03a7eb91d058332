--------------------------- MODULE VisitDeletion ---------------------------
(***************************************************************************)
(* The erasure of one visit: deletion requests, legal holds, the fence of  *)
(* visit_deletion_fences, the worker that runs a request (remove) and the  *)
(* retention scan (retention), over the visit's stored objects.            *)
(*                                                                         *)
(* Every transaction that decides by the fence takes the advisory lock of  *)
(* the visit, so one transaction is one action and visits do not interact. *)
(* Two kinds of step are without the lock.  An API request reads           *)
(* visits.deleted_at before it waits for the lock, and may get the lock    *)
(* when the visit is gone (late).  A worker records what it erased, and    *)
(* ends, without the lock: it holds the fence until it commits, so those   *)
(* who decide by the fence come before or after.  The jobs are those of    *)
(* JobQueue, of which this module uses OneRunner: a job has at most one    *)
(* live worker, and its lease is live as long as it has one.               *)
(***************************************************************************)
EXTENDS Naturals, FiniteSets

CONSTANTS
    Requests,       \* deletion requests; also the name of the job of each
    Scans,          \* retention_scan jobs that reach the visit
    Objects,        \* stored objects: the visit's documents and recordings
    MaxAttempts,    \* jobs.max_attempts
    MaxCrashes,     \* bound of the model: worker crashes that are explored
    NoJob, NoObject

ASSUME VisitDeletionAssumption ==
    /\ Requests \cap Scans = {}
    /\ NoJob \notin Requests \cup Scans
    /\ NoObject \notin Objects
    /\ MaxAttempts \in Nat \ {0}
    /\ MaxCrashes \in Nat

JobIds == Requests \cup Scans

RequestStatus == {"none", "held", "approved", "running", "succeeded"}
\* "running" with a live lease, "lapsed" when the lease of a running job is over
JobStatus == {"none", "queued", "running", "lapsed", "retry_wait",
              "succeeded", "failed", "cancelled"}
Phase     == {"idle", "claimed", "scanning", "erasing", "recording", "closing"}
RowStatus == {"absent", "available", "deleting", "deleted"}
\* requestDeletion, createLegalHold, releaseLegalHold
Calls     == {"delete", "hold", "release"}

VARIABLES
    hold,       \* a legal hold is placed and not released
    request,    \* deletion_requests.status
    visit,      \* visits.status
    gone,       \* visits.deleted_at IS NOT NULL
    late,       \* calls that read the visit before it was gone and wait for its lock
    heldGone,   \* history: a hold was placed on the visit when it was gone
    fence,      \* visit_deletion_fences.job_id; a request's fence is a 'delete' one
    row,        \* storage_objects.status
    stored,     \* the bytes exist in the bucket
    expired,    \* storage_objects.retention_until has passed
    job,        \* jobs.status, with the lease
    tries,      \* jobs.attempt_count, up to max_attempts
    pc,         \* where the worker of each job is
    todo,       \* the objects it has prepared and not recorded
    cur,        \* the object it is erasing
    crashes     \* bound of the model

visitVars  == <<hold, request, visit, gone, late, heldGone, fence>>
objectVars == <<row, stored, expired>>
jobVars    == <<job, tries>>
workerVars == <<pc, todo, cur>>
vars == <<visitVars, objectVars, jobVars, workerVars, crashes>>

TypeOK ==
    /\ hold \in BOOLEAN
    /\ request \in [Requests -> RequestStatus]
    /\ visit \in {"active", "deleting", "deleted"}
    /\ gone \in BOOLEAN
    /\ late \subseteq Calls
    /\ heldGone \in BOOLEAN
    /\ fence \in JobIds \cup {NoJob}
    /\ row \in [Objects -> RowStatus]
    /\ stored \in [Objects -> BOOLEAN]
    /\ expired \in [Objects -> BOOLEAN]
    /\ job \in [JobIds -> JobStatus]
    /\ tries \in [JobIds -> 0..MaxAttempts]
    /\ pc \in [JobIds -> Phase]
    /\ todo \in [JobIds -> SUBSET Objects]
    /\ cur \in [JobIds -> Objects \cup {NoObject}]
    /\ crashes \in 0..MaxCrashes

Init ==
    /\ hold = FALSE
    /\ request = [r \in Requests |-> "none"]
    /\ visit = "active"
    /\ gone = FALSE
    /\ late = {}
    /\ heldGone = FALSE
    /\ fence = NoJob
    /\ row = [o \in Objects |-> "absent"]
    /\ stored = [o \in Objects |-> FALSE]
    /\ expired = [o \in Objects |-> FALSE]
    /\ job = [x \in JobIds |-> "none"]
    /\ tries = [x \in JobIds |-> 0]
    /\ pc = [x \in JobIds |-> "idle"]
    /\ todo = [x \in JobIds |-> {}]
    /\ cur = [x \in JobIds |-> NoObject]
    /\ crashes = 0

-----------------------------------------------------------------------------
(* The fence.                                                              *)

\* DELETE ... WHERE NOT EXISTS(a running job with a live lease)
LiveFence == IF fence # NoJob /\ job[fence] = "running" THEN fence ELSE NoJob

Deleting == fence \in Requests

\* The upsert of a fence succeeds on no row or on the job's own.
CanFence(x) == LiveFence \in {NoJob, x}

-----------------------------------------------------------------------------
(* The API.                                                                *)

\* assertVisitAccess, a plain SELECT before the lock: of the calls that come
\* after the visit is gone, those that read it before go on.
Passes(call) == ~gone \/ call \in late

\* The visit is read under the lock; the bytes were stored by verify.
CompleteUpload(o) ==
    /\ row[o] = "absent"
    /\ ~gone
    /\ visit = "active"
    /\ ~Deleting
    /\ row' = [row EXCEPT ![o] = "available"]
    /\ stored' = [stored EXCEPT ![o] = TRUE]
    /\ UNCHANGED <<visitVars, expired, jobVars, workerVars, crashes>>

Active == {r \in Requests : request[r] \in {"held", "approved", "running"}}

\* The job of a request is inserted with its idempotency key, deletion:<id>,
\* and the visit is fenced for it; both inserts must take place.
Approve(r) ==
    /\ job[r] = "none"
    /\ fence = NoJob
    /\ job' = [job EXCEPT ![r] = "queued"]
    /\ fence' = r
    /\ request' = [request EXCEPT ![r] = "approved"]

RequestDeletion(r) ==
    /\ Passes("delete")
    /\ request[r] = "none"
    /\ Active = {}
    /\ \/ /\ hold
          /\ request' = [request EXCEPT ![r] = "held"]
          /\ UNCHANGED <<job, fence>>
       \/ ~hold /\ Approve(r)
    /\ UNCHANGED <<hold, visit, gone, late, heldGone, tries, objectVars, workerVars, crashes>>

\* Mutant of CreateLegalHold: the 'delete' fence is not looked at.
HoldUnchecked ==
    /\ Passes("hold")
    /\ ~hold
    /\ hold' = TRUE
    /\ heldGone' = (heldGone \/ gone)
    /\ fence' = LiveFence
    /\ request' = [r \in Requests |-> IF request[r] = "approved" THEN "held" ELSE request[r]]
    /\ UNCHANGED <<visit, gone, late, objectVars, jobVars, workerVars, crashes>>

\* A 'delete' fence refuses the hold, a 'retention' fence does not.
CreateLegalHold ==
    /\ Passes("hold")
    /\ ~hold
    /\ ~Deleting
    /\ hold' = TRUE
    /\ heldGone' = (heldGone \/ gone)
    /\ fence' = LiveFence
    /\ request' = [r \in Requests |-> IF request[r] = "approved" THEN "held" ELSE request[r]]
    /\ UNCHANGED <<visit, gone, late, objectVars, jobVars, workerVars, crashes>>

\* The held request, of which there is at most one, gets its job.
ReleaseLegalHold ==
    /\ Passes("release")
    /\ hold
    /\ hold' = FALSE
    /\ \/ /\ \A r \in Requests : request[r] # "held"
          /\ UNCHANGED <<request, job, fence>>
       \/ \E r \in Requests : request[r] = "held" /\ Approve(r)
    /\ UNCHANGED <<visit, gone, late, heldGone, tries, objectVars, workerVars, crashes>>

RetryJob(x) ==
    /\ job[x] \in {"failed", "retry_wait"}
    /\ job' = [job EXCEPT ![x] = "queued"]
    /\ UNCHANGED <<visitVars, tries, objectVars, workerVars, crashes>>

\* A running deletion or scan cannot be cancelled.
CancelJob(x) ==
    /\ job[x] \in {"queued", "retry_wait"}
    /\ job' = [job EXCEPT ![x] = "cancelled"]
    /\ UNCHANGED <<visitVars, tries, objectVars, workerVars, crashes>>

ScheduleScan(k) ==
    /\ job[k] = "none"
    /\ job' = [job EXCEPT ![k] = "queued"]
    /\ UNCHANGED <<visitVars, tries, objectVars, workerVars, crashes>>

-----------------------------------------------------------------------------
(* Claims, failures and ends of a job, as in JobQueue.                     *)

Claim(x) ==
    /\ job[x] \in {"queued", "retry_wait", "lapsed"}
    /\ job' = [job EXCEPT ![x] = "running"]
    /\ tries' = [tries EXCEPT ![x] = IF @ < MaxAttempts THEN @ + 1 ELSE @]
    /\ pc' = [pc EXCEPT ![x] = "claimed"]
    /\ UNCHANGED <<visitVars, objectVars, todo, cur, crashes>>

Leave(x) ==
    /\ pc' = [pc EXCEPT ![x] = "idle"]
    /\ todo' = [todo EXCEPT ![x] = {}]
    /\ cur' = [cur EXCEPT ![x] = NoObject]

\* A provider call or a transaction throws, at any point of the handler; a
\* deletion that finds a foreign fence or a hold ends here as well.
Fail(x) ==
    /\ pc[x] # "idle"
    /\ job' = [job EXCEPT ![x] = IF tries[x] < MaxAttempts THEN "retry_wait" ELSE "failed"]
    /\ Leave(x)
    /\ UNCHANGED <<visitVars, tries, objectVars, crashes>>

\* The error is not one of those that are retried.
FailForGood(x) ==
    /\ pc[x] # "idle"
    /\ job' = [job EXCEPT ![x] = "failed"]
    /\ Leave(x)
    /\ UNCHANGED <<visitVars, tries, objectVars, crashes>>

Finish(x) ==
    /\ pc[x] = "closing"
    /\ job' = [job EXCEPT ![x] = "succeeded"]
    /\ Leave(x)
    /\ UNCHANGED <<visitVars, tries, objectVars, crashes>>

Crash(x) ==
    /\ pc[x] # "idle"
    /\ crashes < MaxCrashes
    /\ crashes' = crashes + 1
    /\ Leave(x)
    /\ UNCHANGED <<visitVars, objectVars, jobVars>>

LeaseLapses(x) ==
    /\ job[x] = "running"
    /\ pc[x] = "idle"
    /\ job' = [job EXCEPT ![x] = "lapsed"]
    /\ UNCHANGED <<visitVars, tries, objectVars, workerVars, crashes>>

-----------------------------------------------------------------------------
(* The worker of a deletion: WorkerProcessor.remove.                       *)

Erasable == {o \in Objects : row[o] \in {"available", "deleting"}}
Doomed(S) == [o \in Objects |-> IF o \in S THEN "deleting" ELSE row[o]]

\* Under a hold the request is set aside and the job succeeds.
PrepareHeld(r) ==
    /\ pc[r] = "claimed"
    /\ hold
    /\ fence' = LiveFence
    /\ request' = [request EXCEPT ![r] = "held"]
    /\ pc' = [pc EXCEPT ![r] = "closing"]
    /\ UNCHANGED <<hold, visit, gone, late, heldGone, objectVars, jobVars, todo, cur, crashes>>

Prepare(r) ==
    /\ pc[r] = "claimed"
    /\ ~hold
    /\ CanFence(r)
    /\ fence' = r
    /\ request' = [request EXCEPT ![r] = "running"]
    /\ visit' = "deleting"
    /\ row' = Doomed(Erasable)
    /\ todo' = [todo EXCEPT ![r] = Erasable]
    /\ pc' = [pc EXCEPT ![r] = "erasing"]
    /\ UNCHANGED <<hold, gone, late, heldGone, stored, expired, jobVars, cur, crashes>>

EraseForRequest(r, o) ==
    /\ pc[r] = "erasing"
    /\ o \in todo[r]
    /\ stored' = [stored EXCEPT ![o] = FALSE]
    /\ cur' = [cur EXCEPT ![r] = o]
    /\ pc' = [pc EXCEPT ![r] = "recording"]
    /\ UNCHANGED <<visitVars, row, expired, jobVars, todo, crashes>>

\* Mutant of RecordForRequest: every prepared object is recorded at once.
RecordAll(r) ==
    /\ pc[r] = "recording"
    /\ row' = [o \in Objects |-> IF o \in todo[r] THEN "deleted" ELSE row[o]]
    /\ todo' = [todo EXCEPT ![r] = {}]
    /\ cur' = [cur EXCEPT ![r] = NoObject]
    /\ pc' = [pc EXCEPT ![r] = "erasing"]
    /\ UNCHANGED <<visitVars, stored, expired, jobVars, crashes>>

RecordForRequest(r) ==
    /\ pc[r] = "recording"
    /\ row' = [row EXCEPT ![cur[r]] = "deleted"]
    /\ todo' = [todo EXCEPT ![r] = @ \ {cur[r]}]
    /\ cur' = [cur EXCEPT ![r] = NoObject]
    /\ pc' = [pc EXCEPT ![r] = "erasing"]
    /\ UNCHANGED <<visitVars, stored, expired, jobVars, crashes>>

\* Mutant of CompleteDeletion: the fence stays.
CompleteKeepsFence(r) ==
    /\ pc[r] = "erasing"
    /\ todo[r] = {}
    /\ ~hold
    /\ visit' = "deleted"
    /\ gone' = TRUE
    /\ request' = [request EXCEPT ![r] = "succeeded"]
    /\ pc' = [pc EXCEPT ![r] = "closing"]
    /\ UNCHANGED <<hold, late, heldGone, fence, objectVars, jobVars, todo, cur, crashes>>

\* The final transaction; under a hold it throws and is rolled back.  It is
\* without the lock: calls that read the visit before go on after it.
CompleteDeletion(r) ==
    /\ pc[r] = "erasing"
    /\ todo[r] = {}
    /\ ~hold
    /\ visit' = "deleted"
    /\ gone' = TRUE
    /\ \E S \in SUBSET Calls : late' = IF gone THEN late ELSE S
    /\ request' = [request EXCEPT ![r] = "succeeded"]
    /\ fence' = IF fence = r THEN NoJob ELSE fence
    /\ pc' = [pc EXCEPT ![r] = "closing"]
    /\ UNCHANGED <<hold, heldGone, objectVars, jobVars, todo, cur, crashes>>

-----------------------------------------------------------------------------
(* The retention scan: WorkerProcessor.retention, its share of the visit.  *)

Expired == IF hold THEN {} ELSE {o \in Erasable : expired[o]}

\* The expired objects are selected without the visit's lock.  SKIP LOCKED
\* passes over an object only while another worker is at the visit.
SelectExpired(k) ==
    /\ pc[k] = "claimed"
    /\ \E S \in SUBSET Expired :
          /\ (\A x \in JobIds \ {k} : pc[x] = "idle") => S = Expired
          /\ row' = Doomed(S)
          /\ todo' = [todo EXCEPT ![k] = S]
    /\ pc' = [pc EXCEPT ![k] = "scanning"]
    /\ UNCHANGED <<visitVars, stored, expired, jobVars, cur, crashes>>

\* A held object goes back to 'available', whatever happened to it since.
SpareHeld(k, o) ==
    /\ pc[k] = "scanning"
    /\ o \in todo[k]
    /\ hold
    /\ fence' = LiveFence
    /\ row' = [row EXCEPT ![o] = "available"]
    /\ todo' = [todo EXCEPT ![k] = @ \ {o}]
    /\ UNCHANGED <<hold, request, visit, gone, late, heldGone, stored, expired, jobVars,
                   pc, cur, crashes>>

FenceObject(k, o) ==
    /\ pc[k] = "scanning"
    /\ o \in todo[k]
    /\ ~hold
    /\ CanFence(k)
    /\ fence' = k
    /\ cur' = [cur EXCEPT ![k] = o]
    /\ pc' = [pc EXCEPT ![k] = "erasing"]
    /\ UNCHANGED <<hold, request, visit, gone, late, heldGone, objectVars, jobVars, todo, crashes>>

SkipFenced(k, o) ==
    /\ pc[k] = "scanning"
    /\ o \in todo[k]
    /\ ~hold
    /\ ~CanFence(k)
    /\ todo' = [todo EXCEPT ![k] = @ \ {o}]
    /\ UNCHANGED <<visitVars, objectVars, jobVars, pc, cur, crashes>>

\* storage.delete, whatever the API decided since the fence was taken.
EraseForScan(k) ==
    /\ pc[k] = "erasing"
    /\ stored' = [stored EXCEPT ![cur[k]] = FALSE]
    /\ pc' = [pc EXCEPT ![k] = "recording"]
    /\ UNCHANGED <<visitVars, row, expired, jobVars, todo, cur, crashes>>

RecordForScan(k) ==
    /\ pc[k] = "recording"
    /\ row' = [row EXCEPT ![cur[k]] = "deleted"]
    /\ fence' = IF fence = k THEN NoJob ELSE fence
    /\ todo' = [todo EXCEPT ![k] = @ \ {cur[k]}]
    /\ cur' = [cur EXCEPT ![k] = NoObject]
    /\ pc' = [pc EXCEPT ![k] = "scanning"]
    /\ UNCHANGED <<hold, request, visit, gone, late, heldGone, stored, expired, jobVars, crashes>>

EndScan(k) ==
    /\ pc[k] = "scanning"
    /\ todo[k] = {}
    /\ pc' = [pc EXCEPT ![k] = "closing"]
    /\ UNCHANGED <<visitVars, objectVars, jobVars, todo, cur, crashes>>

\* Time passes: the object's retention_until.
Expire(o) ==
    /\ row[o] # "absent"
    /\ ~expired[o]
    /\ expired' = [expired EXCEPT ![o] = TRUE]
    /\ UNCHANGED <<visitVars, row, stored, jobVars, workerVars, crashes>>

\* A new policy, when it takes effect, gives every object of its type a new
\* retention_until.  One it prolongs may lie ahead again, while a scan that
\* selected the object does not look again; one it shortens is Expire later.
CreateRetentionPolicy(S) ==
    /\ S # {}
    /\ \A o \in S : expired[o]
    /\ expired' = [o \in Objects |-> expired[o] /\ o \notin S]
    /\ UNCHANGED <<visitVars, row, stored, jobVars, workerVars, crashes>>

-----------------------------------------------------------------------------
RequestStep(r) == \/ RequestDeletion(r) \/ PrepareHeld(r) \/ Prepare(r)
                  \/ RecordForRequest(r) \/ CompleteDeletion(r)
                  \/ \E o \in Objects : EraseForRequest(r, o)

ScanStep(k) == \/ ScheduleScan(k) \/ SelectExpired(k) \/ EraseForScan(k)
               \/ RecordForScan(k) \/ EndScan(k)
               \/ \E o \in Objects : SpareHeld(k, o) \/ FenceObject(k, o) \/ SkipFenced(k, o)

JobStep(x) == \/ Claim(x) \/ Fail(x) \/ FailForGood(x) \/ Finish(x) \/ Crash(x)
              \/ LeaseLapses(x) \/ RetryJob(x) \/ CancelJob(x)

Next == \/ CreateLegalHold
        \/ ReleaseLegalHold
        \/ \E o \in Objects : CompleteUpload(o) \/ Expire(o)
        \/ \E S \in SUBSET Objects : CreateRetentionPolicy(S)
        \/ \E r \in Requests : RequestStep(r)
        \/ \E k \in Scans : ScanStep(k)
        \/ \E x \in JobIds : JobStep(x)

Spec == Init /\ [][Next]_vars

-----------------------------------------------------------------------------
(* Safety.                                                                 *)

Erasing(x) == pc[x] \in {"erasing", "recording"}

\* A worker erases bytes only while the visit is fenced for its own job, so
\* never two at a time: no transaction that clears stale fences takes the
\* fence of a live worker (remove, retention, createLegalHold).
EraserHoldsFence ==
    \A x \in JobIds : Erasing(x) => fence = x

\* A hold is never placed on a visit that a deletion is erasing, and no
\* deletion starts to erase a held visit, whatever retention scans do.  So
\* the hold check of the final transaction of remove never fires.
HoldExcludesDeletion ==
    hold => \A r \in Requests : ~Erasing(r)

\* A deleted visit left no bytes behind: no object was added behind the back
\* of its deletion, and every one that was there lost its bytes.  Its rows say
\* so too, until a hold is placed on the visit that is gone: a scan that had
\* selected an object then sets its erased row back to 'available'.
GoneIsErased ==
    gone => \A o \in Objects :
        ~stored[o] /\ (row[o] \in {"absent", "deleted"} \/ heldGone)

\* A deletion that succeeded, even by finding a hold, left no fence:
\* requestDeletion and releaseLegalHold clear none, so a fence left behind
\* would lock the visit.
SucceededLeavesNoFence ==
    fence \in Requests => job[fence] # "succeeded"

\* Bytes are never left in the bucket under a row that says 'deleted'.
DeletedIsErased ==
    \A o \in Objects : row[o] = "deleted" => ~stored[o]

\* A held request can be resumed: its job was not inserted before, so the
\* release of the hold can insert it.
HeldResumable ==
    \A r \in Requests : request[r] = "held" => job[r] = "none"

\* A held request does not meet the fence of a job that is over: nobody would
\* clear it while the hold is there, and the release would be refused for ever.
HeldMeetsNoDeadFence ==
    \A r \in Requests :
        request[r] = "held" /\ job[r] = "none" /\ fence # NoJob => job[fence] # "succeeded"

\* While the visit is held, and after it, its bytes stay.
HoldProtects ==
    [][\A o \in Objects : hold /\ stored[o] => stored'[o]]_vars
=============================================================================
