------------------------------ MODULE JobQueue ------------------------------
(***************************************************************************)
(* The durable job queue of hanamaru: the rows of jobs, job_attempts and   *)
(* outbox_events, the outbox dispatcher, the Cloud Tasks queue between     *)
(* dispatcher and worker, and the worker's claim / heartbeat / settle      *)
(* protocol (claim_job, heartbeat_job, WorkerProcessor.process, finish).   *)
(*                                                                         *)
(* What a handler computes is left out: a handler ends by succeeding, by   *)
(* failing (retryably or not) or by raising JOB_CANCELLED.  Every action   *)
(* is one database transaction, or one call to Cloud Tasks.                *)
(***************************************************************************)
EXTENDS Naturals, FiniteSets

CONSTANTS
    Jobs,           \* rows of table jobs
    Transcribe,     \* the jobs with job_type = 'transcribe'
    Erasure,        \* the jobs with job_type 'delete' or 'retention_scan'
    Workers,        \* concurrent task requests served by the worker service
    Dispatchers,    \* concurrent runs of /internal/dispatch
    MaxAttempts,    \* jobs.max_attempts
    ClaimBound,     \* bound of the model: claims of one job that are explored
    Stalls,         \* may a live worker miss its heartbeats for five minutes?
    Contention,     \* may a delivery meet a row lock of another transaction?
    NoJob, NoEvent

Api == "api"
Free == "free"

ASSUME JobQueueAssumption ==
    /\ Transcribe \subseteq Jobs
    /\ Erasure \subseteq Jobs
    /\ MaxAttempts \in Nat \ {0}
    /\ ClaimBound \in Nat \ {0}
    /\ Stalls \in BOOLEAN
    /\ Contention \in BOOLEAN
    /\ NoJob \notin Jobs
    /\ NoEvent \notin Jobs \X {"run", "retry"} \X Nat
    /\ {Api, Free} \cap Dispatchers = {}

(***************************************************************************)
(* An outbox event is named by its deduplication key: job:<id>, written    *)
(* with the job, is <<job, "run", 0>>; job:<id>:attempt:<n>, written when  *)
(* attempt n asks for a retry, is <<job, "run", n>>; retry:<id>:<n>,       *)
(* written by an operator's retry after attempt n, is <<job, "retry", n>>. *)
(***************************************************************************)
Numbers == 0..ClaimBound
Events  == Jobs \X {"run", "retry"} \X Numbers
\* Mutant of EventOf: the attempt is left out of the key.
EventOfJob(j, kind, n) == <<j, kind, 0>>
EventOf(j, kind, n) == <<j, kind, n>>
JobOf(e) == e[1]

JobStatus     == {"absent", "queued", "running", "retry_wait",
                  "succeeded", "failed", "cancelled"}
AttemptResult == {"none", "running", "succeeded", "retryable", "failed", "cancelled"}
EventState    == {"absent", "waiting", "pending", "leased", "published"}
TaskState     == {"none", "queued", "inflight", "done"}
WorkerState   == {"idle", "working", "cancelling", "settled", "refused"}

VARIABLES
    status,     \* jobs.status
    attempt,    \* jobs.attempt_count
    lease,      \* jobs.lease_expires_at: NULL, in the future, in the past
    cancelReq,  \* jobs.cancel_requested_at IS NOT NULL
    waits,      \* available_at: 0 when past, n when it is that of attempt n's retry
    ledger,     \* job_attempts.result_status of each attempt_no
    lock,       \* who holds the row lock of the job across a step
    outbox,     \* outbox_events
    task,       \* Cloud Tasks task named after the event
    pc,         \* where the request of each worker is
    wJob,       \* the job it claimed
    wAtt,       \* the attempt_count it was given
    wTask,      \* the task whose reply is still awaited
    batch,      \* events a dispatcher claimed and has not handled yet
    dCur,       \* the event whose task it created and has not marked yet
    overlooked, \* history: the jobs whose due retry a delivery did not see,
                \* because another transaction held the row
    stalled     \* history: the jobs whose lease lapsed while a request ran them

jobVars    == <<status, attempt, lease, cancelReq, waits, ledger, overlooked, stalled>>
workerVars == <<pc, wJob, wAtt, wTask>>
dispVars   == <<batch, dCur>>
vars == <<jobVars, lock, outbox, task, workerVars, dispVars>>

TypeOK ==
    /\ status \in [Jobs -> JobStatus]
    /\ attempt \in [Jobs -> Numbers]
    /\ lease \in [Jobs -> {"none", "live", "expired"}]
    /\ cancelReq \in [Jobs -> BOOLEAN]
    /\ waits \in [Jobs -> Numbers]
    /\ ledger \in [Jobs -> [Numbers -> AttemptResult]]
    /\ lock \in [Jobs -> {Free, Api} \cup Dispatchers]
    /\ outbox \in [Events -> EventState]
    /\ task \in [Events -> TaskState]
    /\ pc \in [Workers -> WorkerState]
    /\ wJob \in [Workers -> Jobs \cup {NoJob}]
    /\ wAtt \in [Workers -> Numbers]
    /\ wTask \in [Workers -> Events \cup {NoEvent}]
    /\ batch \in [Dispatchers -> SUBSET Events]
    /\ dCur \in [Dispatchers -> Events \cup {NoEvent}]
    /\ overlooked \subseteq Jobs
    /\ stalled \subseteq Jobs

Init ==
    /\ status = [j \in Jobs |-> "absent"]
    /\ attempt = [j \in Jobs |-> 0]
    /\ lease = [j \in Jobs |-> "none"]
    /\ cancelReq = [j \in Jobs |-> FALSE]
    /\ waits = [j \in Jobs |-> 0]
    /\ ledger = [j \in Jobs |-> [n \in Numbers |-> "none"]]
    /\ lock = [j \in Jobs |-> Free]
    /\ outbox = [e \in Events |-> "absent"]
    /\ task = [e \in Events |-> "none"]
    /\ pc = [w \in Workers |-> "idle"]
    /\ wJob = [w \in Workers |-> NoJob]
    /\ wAtt = [w \in Workers |-> 0]
    /\ wTask = [w \in Workers |-> NoEvent]
    /\ batch = [d \in Dispatchers |-> {}]
    /\ dCur = [d \in Dispatchers |-> NoEvent]
    /\ overlooked = {}
    /\ stalled = {}

-----------------------------------------------------------------------------
(* The API: creating, retrying and cancelling a job.                       *)

\* INSERT ... ON CONFLICT(deduplication_key) DO NOTHING
Enqueue(e, state) ==
    outbox' = [outbox EXCEPT ![e] = IF @ = "absent" THEN state ELSE @]

\* The job row and its first event are inserted in one transaction.
CreateJob(j) ==
    /\ status[j] = "absent"
    /\ status' = [status EXCEPT ![j] = "queued"]
    /\ Enqueue(EventOf(j, "run", 0), "pending")
    /\ UNCHANGED <<attempt, lease, cancelReq, waits, ledger, lock, task,
                   workerVars, dispVars, overlooked, stalled>>

\* Mutant of RetryJob: no event is written with the row.
RetryWithoutEvent(j) ==
    /\ lock[j] = Free
    /\ status[j] \in {"failed", "retry_wait"}
    /\ attempt[j] < ClaimBound
    /\ status' = [status EXCEPT ![j] = "queued"]
    /\ waits' = [waits EXCEPT ![j] = 0]
    /\ UNCHANGED <<attempt, lease, cancelReq, ledger, lock, outbox, task,
                   workerVars, dispVars, overlooked, stalled>>

\* cancel_requested_at is not among the columns a retry resets.
RetryJob(j) ==
    /\ lock[j] = Free
    /\ status[j] \in {"failed", "retry_wait"}
    /\ attempt[j] < ClaimBound
    /\ status' = [status EXCEPT ![j] = "queued"]
    /\ waits' = [waits EXCEPT ![j] = 0]
    /\ overlooked' = overlooked \ {j}
    /\ Enqueue(EventOf(j, "retry", attempt[j]), "pending")
    /\ UNCHANGED <<attempt, lease, cancelReq, ledger, lock, task, workerVars,
                   dispVars, stalled>>

Cancellable(j) ==
    /\ status[j] \in {"queued", "retry_wait", "running"}
    /\ ~(status[j] = "running" /\ j \in Erasure)

\* The UPDATE of cancelJob; requestDeletion and the revocation of a consent
\* do the same to every job of the visit that is not a deletion.
RequestCancel(j) ==
    /\ cancelReq' = [cancelReq EXCEPT ![j] = TRUE]
    /\ status' = [status EXCEPT ![j] = IF @ = "running" THEN @ ELSE "cancelled"]
    /\ lease' = [lease EXCEPT ![j] = IF status[j] = "running" THEN @ ELSE "none"]

\* A transcription may need the provider's cleanup while the row is locked;
\* without contention the whole request is one step.
CancelJob(j) ==
    /\ lock[j] = Free
    /\ Cancellable(j)
    /\ RequestCancel(j)
    /\ UNCHANGED <<attempt, waits, ledger, lock, outbox, task, workerVars,
                   dispVars, overlooked, stalled>>

CancelLock(j) ==
    /\ Contention
    /\ j \in Transcribe
    /\ lock[j] = Free
    /\ Cancellable(j)
    /\ lock' = [lock EXCEPT ![j] = Api]
    /\ UNCHANGED <<jobVars, outbox, task, workerVars, dispVars>>

CancelCommit(j) ==
    /\ lock[j] = Api
    /\ RequestCancel(j)
    /\ lock' = [lock EXCEPT ![j] = Free]
    /\ UNCHANGED <<attempt, waits, ledger, outbox, task, workerVars, dispVars,
                   overlooked, stalled>>

\* The provider's cleanup failed: 503, everything rolled back.
CancelRollback(j) ==
    /\ lock[j] = Api
    /\ lock' = [lock EXCEPT ![j] = Free]
    /\ UNCHANGED <<jobVars, outbox, task, workerVars, dispVars>>

\* The worker that erases a visit stops each transcription of the visit that
\* has provider state, whatever the transcription's own worker is doing.
EraseTranscription(j) ==
    /\ j \in Transcribe
    /\ lock[j] = Free
    /\ attempt[j] > 0
    /\ ledger' = [ledger EXCEPT ![j] =
                     [n \in Numbers |-> IF @[n] = "running" THEN "cancelled" ELSE @[n]]]
    /\ cancelReq' = [cancelReq EXCEPT ![j] = TRUE]
    /\ status' = [status EXCEPT ![j] =
                     IF @ \in {"queued", "retry_wait", "running"} THEN "cancelled" ELSE @]
    /\ lease' = [lease EXCEPT ![j] = "none"]
    /\ UNCHANGED <<attempt, waits, lock, outbox, task, workerVars, dispVars,
                   overlooked, stalled>>

-----------------------------------------------------------------------------
(* The dispatcher: dispatchOnce, claim_outbox, mark_outbox_published.      *)

\* claim_outbox(20, 60): the batch is larger than the model's outbox.
ClaimOutbox(d) ==
    LET due == {e \in Events : outbox[e] = "pending"}
    IN  /\ batch[d] = {}
        /\ due # {}
        /\ batch' = [batch EXCEPT ![d] = due]
        /\ outbox' = [e \in Events |-> IF e \in due THEN "leased" ELSE outbox[e]]
        /\ UNCHANGED <<jobVars, lock, task, workerVars, dCur>>

\* The task is named after the event: ALREADY_EXISTS counts as created.
CreateTask(d, e) ==
    /\ e \in batch[d]
    /\ dCur[d] = NoEvent
    /\ dCur' = [dCur EXCEPT ![d] = e]
    /\ task' = [task EXCEPT ![e] = IF @ = "none" THEN "queued" ELSE @]
    /\ UNCHANGED <<jobVars, lock, outbox, workerVars, batch>>

\* mark_outbox_published updates the event and then the job's row, whose
\* lock it holds until it commits.
MarkLock(d) ==
    /\ Contention
    /\ dCur[d] \in Events
    /\ lock[JobOf(dCur[d])] = Free
    /\ lock' = [lock EXCEPT ![JobOf(dCur[d])] = d]
    /\ UNCHANGED <<jobVars, outbox, task, workerVars, dispVars>>

MarkPublished(d) ==
    /\ dCur[d] \in Events
    /\ lock[JobOf(dCur[d])] = (IF Contention THEN d ELSE Free)
    /\ outbox' = [outbox EXCEPT ![dCur[d]] = "published"]
    /\ lock' = [lock EXCEPT ![JobOf(dCur[d])] = Free]
    /\ batch' = [batch EXCEPT ![d] = @ \ {dCur[d]}]
    /\ dCur' = [dCur EXCEPT ![d] = NoEvent]
    /\ UNCHANGED <<jobVars, task, workerVars>>

\* createTask or the database throws, or the process dies: the rest of the
\* batch is abandoned and stays leased.
DispatchAborts(d) ==
    /\ batch[d] # {}
    /\ batch' = [batch EXCEPT ![d] = {}]
    /\ dCur' = [dCur EXCEPT ![d] = NoEvent]
    /\ lock' = [j \in Jobs |-> IF lock[j] = d THEN Free ELSE lock[j]]
    /\ UNCHANGED <<jobVars, outbox, task, workerVars>>

-----------------------------------------------------------------------------
(* Cloud Tasks and the worker.                                             *)

DueRetry(j) ==
    status[j] = "retry_wait" /\ outbox[EventOf(j, "run", waits[j])] # "waiting"

Available(j) == status[j] = "queued" \/ DueRetry(j)

\* Mutant of Claimable: a running row is taken whatever its lease.
ClaimableWhileLeased(j) ==
    /\ Available(j) \/ status[j] = "running"
    /\ ~cancelReq[j]
    /\ lock[j] = Free

\* The WHERE clause of claim_job, SKIP LOCKED included.
Claimable(j) ==
    /\ Available(j) \/ (status[j] = "running" /\ lease[j] = "expired")
    /\ ~cancelReq[j]
    /\ lock[j] = Free

\* Mutant of NextAttempt: a reclaimed job goes on with the same number.
SameAttempt(j) == IF status[j] = "running" THEN attempt[j] ELSE attempt[j] + 1

\* attempt_count = attempt_count + 1
NextAttempt(j) == attempt[j] + 1

\* A reclaimed attempt that never finished is closed as 'retryable'.
ClaimJob(w, e) ==
    LET j == JobOf(e)
        n == NextAttempt(j)
    IN  /\ pc[w] = "idle"
        /\ task[e] = "queued"
        /\ Claimable(j)
        /\ n <= ClaimBound
        /\ status' = [status EXCEPT ![j] = "running"]
        /\ attempt' = [attempt EXCEPT ![j] = n]
        /\ lease' = [lease EXCEPT ![j] = "live"]
        /\ ledger' = [ledger EXCEPT ![j] =
              [m \in Numbers |->
                  IF m = n THEN "running"
                  ELSE IF m = attempt[j] /\ status[j] = "running" /\ @[m] = "running"
                       THEN "retryable" ELSE @[m]]]
        /\ task' = [task EXCEPT ![e] = "inflight"]
        /\ pc' = [pc EXCEPT ![w] = "working"]
        /\ wJob' = [wJob EXCEPT ![w] = j]
        /\ wAtt' = [wAtt EXCEPT ![w] = n]
        /\ wTask' = [wTask EXCEPT ![w] = e]
        /\ overlooked' = overlooked \ {j}
        /\ UNCHANGED <<cancelReq, waits, lock, outbox, stalled, dispVars>>

\* claim_job returned no row; SKIP LOCKED says nothing of why.
RefuseDelivery(w, e) ==
    /\ pc[w] = "idle"
    /\ task[e] = "queued"
    /\ ~Claimable(JobOf(e))
    /\ overlooked' = IF lock[JobOf(e)] # Free /\ DueRetry(JobOf(e))
                     THEN overlooked \cup {JobOf(e)} ELSE overlooked
    /\ task' = [task EXCEPT ![e] = "inflight"]
    /\ pc' = [pc EXCEPT ![w] = "refused"]
    /\ wJob' = [wJob EXCEPT ![w] = JobOf(e)]
    /\ wTask' = [wTask EXCEPT ![w] = e]
    /\ UNCHANGED <<status, attempt, lease, cancelReq, waits, ledger, lock, outbox,
                   wAtt, stalled, dispVars>>

\* The request of w ends; its task, if still awaited, ends in state t.
EndRequest(w, t) ==
    /\ pc' = [pc EXCEPT ![w] = "idle"]
    /\ wJob' = [wJob EXCEPT ![w] = NoJob]
    /\ wAtt' = [wAtt EXCEPT ![w] = 0]
    /\ wTask' = [wTask EXCEPT ![w] = NoEvent]
    /\ task' = IF wTask[w] = NoEvent THEN task ELSE [task EXCEPT ![wTask[w]] = t]
    /\ UNCHANGED <<jobVars, lock, outbox, dispVars>>

\* Mutant of ReplyRefused: a delivery that found a running job is acknowledged.
AcknowledgeRunning(w) ==
    /\ pc[w] = "refused"
    /\ EndRequest(w, IF status[wJob[w]] = "queued" THEN "queued" ELSE "done")

\* taskDeliveryHttpStatus of a status that is read after the claim failed.
ReplyRefused(w) ==
    /\ pc[w] = "refused"
    /\ EndRequest(w, IF status[wJob[w]] \in {"queued", "running"} THEN "queued" ELSE "done")

ReplySettled(w) ==
    /\ pc[w] = "settled"
    /\ EndRequest(w, "done")

InHandler(w) == pc[w] \in {"working", "cancelling"}
Current(w)   == attempt[wJob[w]] = wAtt[w]

\* The process dies, or a transaction or the provider's cleanup throws out
\* of process(): the delivery is repeated and nothing else changes.  The last
\* attempt that is explored (ClaimBound) does not end so.
WorkerStops(w) ==
    /\ (InHandler(w) /\ wAtt[w] < ClaimBound) \/ pc[w] = "settled"
    /\ EndRequest(w, "queued")

\* dispatchDeadline: Cloud Tasks gives up the request and repeats the
\* delivery while the handler goes on.
DeadlineExceeded(w) ==
    /\ InHandler(w) \/ pc[w] = "settled"
    /\ wTask[w] \in Events
    /\ task' = [task EXCEPT ![wTask[w]] = "queued"]
    /\ wTask' = [wTask EXCEPT ![w] = NoEvent]
    /\ UNCHANGED <<jobVars, lock, outbox, pc, wJob, wAtt, dispVars>>

\* heartbeat_job: a lease that ran out but was not taken is revived.
Heartbeat(w) ==
    /\ InHandler(w)
    /\ Current(w)
    /\ status[wJob[w]] = "running"
    /\ ~cancelReq[wJob[w]]
    /\ lock[wJob[w]] = Free
    /\ lease[wJob[w]] = "expired"
    /\ lease' = [lease EXCEPT ![wJob[w]] = "live"]
    /\ UNCHANGED <<status, attempt, cancelReq, waits, ledger, lock, outbox,
                   task, workerVars, dispVars, overlooked, stalled>>

\* Mutant of CloseAttempt: "finished_at IS NULL" is forgotten.
OverwriteAttempt(j, n, result) == ledger' = [ledger EXCEPT ![j][n] = result]

\* "finished_at IS NULL": the result of an attempt is written once.
CloseAttempt(j, n, result) ==
    ledger' = [ledger EXCEPT ![j][n] = IF @ = "running" THEN result ELSE @]

\* The UPDATE of finish: it names the job's status, not the attempt.
Settle(j, to) ==
    /\ status' = [status EXCEPT ![j] = IF @ = "running" THEN to ELSE @]
    /\ lease' = [lease EXCEPT ![j] = IF status[j] = "running" THEN "none" ELSE @]

\* The handler returned: the job succeeds unless it is no longer running or
\* its cancellation was requested.
FinishSucceeded(w) ==
    LET j == wJob[w]
    IN  /\ pc[w] = "working"
        /\ lock[j] = Free
        /\ status[j] = "running"
        /\ ~cancelReq[j]
        /\ CloseAttempt(j, wAtt[w], "succeeded")
        /\ Settle(j, "succeeded")
        /\ pc' = [pc EXCEPT ![w] = "settled"]
        /\ UNCHANGED <<attempt, cancelReq, waits, lock, outbox, task, wJob,
                       wAtt, wTask, dispVars, overlooked, stalled>>

\* The UPDATE of finish hit no row: everything is rolled back, JOB_CANCELLED.
FinishRefused(w) ==
    LET j == wJob[w]
    IN  /\ pc[w] = "working"
        /\ lock[j] = Free
        /\ status[j] # "running" \/ cancelReq[j]
        /\ pc' = [pc EXCEPT ![w] = "cancelling"]
        /\ UNCHANGED <<jobVars, lock, outbox, task, wJob, wAtt, wTask, dispVars>>

\* JOB_CANCELLED raised inside the handler: assertNotCancelled sees the
\* request on its own attempt, or what the job reads was withdrawn under it
\* (assertVisitWritable, assertCurrentConsent, an identification); the jobs
\* that erase have no such test.
HandlerCancels(w) ==
    /\ pc[w] = "working"
    /\ \/ cancelReq[wJob[w]] /\ Current(w)
       \/ wJob[w] \notin Erasure
    /\ pc' = [pc EXCEPT ![w] = "cancelling"]
    /\ UNCHANGED <<jobVars, lock, outbox, task, wJob, wAtt, wTask, dispVars>>

\* A retryable error before the last attempt, or a deferred eBay poll.
FinishRetryWait(w) ==
    LET j == wJob[w]
        n == wAtt[w]
    IN  /\ pc[w] = "working"
        /\ n < MaxAttempts
        /\ lock[j] = Free
        /\ CloseAttempt(j, n, "retryable")
        /\ Settle(j, "retry_wait")
        /\ IF status[j] = "running"
           THEN /\ waits' = [waits EXCEPT ![j] = n]
                /\ Enqueue(EventOf(j, "run", n), "waiting")
           ELSE UNCHANGED <<waits, outbox>>
        /\ pc' = [pc EXCEPT ![w] = "settled"]
        /\ UNCHANGED <<attempt, cancelReq, lock, task, wJob, wAtt, wTask,
                       dispVars, overlooked, stalled>>

FinishFailed(w) ==
    LET j == wJob[w]
    IN  /\ pc[w] = "working"
        /\ lock[j] = Free
        /\ CloseAttempt(j, wAtt[w], "failed")
        /\ Settle(j, "failed")
        /\ pc' = [pc EXCEPT ![w] = "settled"]
        /\ UNCHANGED <<attempt, cancelReq, waits, lock, outbox, task, wJob,
                       wAtt, wTask, dispVars, overlooked, stalled>>

\* The UPDATE of the JOB_CANCELLED branch has no condition on the status.
FinishCancelled(w) ==
    LET j == wJob[w]
    IN  /\ pc[w] = "cancelling"
        /\ lock[j] = Free
        /\ CloseAttempt(j, wAtt[w], "cancelled")
        /\ status' = [status EXCEPT ![j] = "cancelled"]
        /\ lease' = [lease EXCEPT ![j] = "none"]
        /\ pc' = [pc EXCEPT ![w] = "settled"]
        /\ UNCHANGED <<attempt, cancelReq, waits, lock, outbox, task, wJob,
                       wAtt, wTask, dispVars, overlooked, stalled>>

-----------------------------------------------------------------------------
(* The passing of time.                                                    *)

\* A retry's available_at, the same for the job and for its event.
EventDue(e) ==
    /\ outbox[e] = "waiting"
    /\ outbox' = [outbox EXCEPT ![e] = "pending"]
    /\ UNCHANGED <<jobVars, lock, task, workerVars, dispVars>>

\* leased_until passes before the event is marked published.
OutboxLeaseLapses(e) ==
    /\ outbox[e] = "leased"
    /\ outbox' = [outbox EXCEPT ![e] = "pending"]
    /\ UNCHANGED <<jobVars, lock, task, workerVars, dispVars>>

Holds(w, j) == InHandler(w) /\ wJob[w] = j /\ Current(w)

\* Five minutes without a heartbeat: nobody runs the attempt any more, or
\* its heartbeats no longer extend the lease, or its worker stalled.
LeaseLapses(j) ==
    /\ lease[j] = "live"
    /\ Stalls \/ cancelReq[j] \/ ~\E w \in Workers : Holds(w, j)
    /\ lease' = [lease EXCEPT ![j] = "expired"]
    /\ stalled' = IF ~cancelReq[j] /\ \E w \in Workers : Holds(w, j)
                  THEN stalled \cup {j} ELSE stalled
    /\ UNCHANGED <<status, attempt, cancelReq, waits, ledger, lock, outbox,
                   task, workerVars, dispVars, overlooked>>

-----------------------------------------------------------------------------
HandlerEnds(w) == \/ FinishSucceeded(w) \/ FinishRefused(w) \/ FinishRetryWait(w)
                  \/ FinishFailed(w) \/ FinishCancelled(w)

JobStep(j) == \/ CreateJob(j) \/ RetryJob(j) \/ CancelJob(j)
              \/ CancelLock(j) \/ CancelCommit(j) \/ CancelRollback(j)
              \/ EraseTranscription(j) \/ LeaseLapses(j)

DispatcherStep(d) == \/ ClaimOutbox(d) \/ MarkLock(d) \/ MarkPublished(d)
                     \/ DispatchAborts(d)
                     \/ \E e \in Events : CreateTask(d, e)

WorkerStep(w) == \/ HandlerEnds(w) \/ HandlerCancels(w) \/ Heartbeat(w)
                 \/ WorkerStops(w) \/ DeadlineExceeded(w)
                 \/ ReplyRefused(w) \/ ReplySettled(w)
                 \/ \E e \in Events : ClaimJob(w, e) \/ RefuseDelivery(w, e)

Next == \/ \E j \in Jobs : JobStep(j)
        \/ \E d \in Dispatchers : DispatcherStep(d)
        \/ \E w \in Workers : WorkerStep(w)
        \/ \E e \in Events : EventDue(e) \/ OutboxLeaseLapses(e)

Spec == Init /\ [][Next]_vars

(***************************************************************************)
(* Fairness.  Cloud Scheduler calls /internal/dispatch every minute, and   *)
(* the calls that fail are repeated (strong fairness: a batch may be       *)
(* abandoned any number of times, not for ever).  Cloud Tasks repeats a    *)
(* delivery until it is acknowledged, and does not meet a locked row every *)
(* time.  Providers are called with timeouts, so a handler ends; a         *)
(* transaction that waits for a row gets it in its turn.  Time passes.     *)
(***************************************************************************)
Fairness ==
    /\ \A d \in Dispatchers :
          /\ WF_vars(ClaimOutbox(d))
          /\ SF_vars(MarkLock(d))
          /\ SF_vars(\E e \in Events : CreateTask(d, e))
          /\ SF_vars(MarkPublished(d))
    /\ \A j \in Jobs :
          /\ SF_vars(\E w \in Workers, e \in Events : JobOf(e) = j /\ ClaimJob(w, e))
          /\ WF_vars(CancelCommit(j) \/ CancelRollback(j))
          /\ WF_vars(LeaseLapses(j))
    /\ \A w \in Workers :
          WF_vars(HandlerEnds(w) \/ ReplyRefused(w) \/ ReplySettled(w))
    /\ WF_vars(\E e \in Events : EventDue(e) \/ OutboxLeaseLapses(e))

FairSpec == Spec /\ Fairness

-----------------------------------------------------------------------------
(* Safety.                                                                 *)

\* An attempt number is given to one worker: two requests never run the same
\* attempt of a job, even when leases lapse under live workers (claim_job
\* increments attempt_count in the transaction that takes the row).
AttemptsDistinct ==
    \A v, w \in Workers :
        InHandler(v) /\ InHandler(w) /\ wJob[v] = wJob[w] /\ wAtt[v] = wAtt[w] => v = w

\* Two requests never run a job at once before its lease lapsed under a live
\* one: the lease, the cancellation mark and the row lock of claim_job together
\* keep a redelivered, duplicated or late task from starting the job again.
OneRunner ==
    \A v, w \in Workers :
        InHandler(v) /\ InHandler(w) /\ wJob[v] = wJob[w] /\ wJob[v] \notin stalled => v = w

\* The ledger of attempts agrees with the job: no attempt is left open when
\* the job is not running, and while it runs only the current one is open.
LedgerAgrees ==
    \A j \in Jobs, n \in Numbers :
        ledger[j][n] = "running" <=> status[j] = "running" /\ n = attempt[j]

\* A succeeded job succeeded by its last attempt.
SuccessIsOfLastAttempt ==
    \A j \in Jobs : status[j] = "succeeded" => ledger[j][attempt[j]] = "succeeded"

\* Something can still wake the job: its event is not published yet, or a
\* task of it is not acknowledged.
HasWakeup(j) ==
    \E e \in Events :
        /\ JobOf(e) = j
        /\ outbox[e] \in {"waiting", "pending", "leased"} \/ task[e] \in {"queued", "inflight"}

\* A queued or running job is never stranded: taskDeliveryHttpStatus answers
\* 503 to a delivery that could not claim it, so the task comes back.
NeverStranded ==
    \A j \in Jobs : status[j] \in {"queued", "running"} => HasWakeup(j)

\* Nor is a job that waits for its retry, unless its cancellation was
\* requested: a delivery that finds it in retry_wait is acknowledged because
\* another wake-up of the job is due.
RetryHasWakeup ==
    \A j \in Jobs : status[j] = "retry_wait" /\ ~cancelReq[j] => HasWakeup(j)

\* Nor is it otherwise: only a delivery that met the locked row takes the last
\* wake-up of a due retry with it, however two requests, redeliveries, stalled
\* workers, operators' retries and the dispatcher overlap.
RetryIsNotForgotten ==
    \A j \in Jobs :
        status[j] = "retry_wait" /\ ~cancelReq[j] /\ j \notin overlooked => HasWakeup(j)

(* Action properties.                                                      *)

\* Succeeded and cancelled jobs stay so: no late worker, retry or
\* cancellation moves them.
TerminalStays ==
    [][\A j \in Jobs : status[j] \in {"succeeded", "cancelled"} => status'[j] = status[j]]_vars

\* The result of an attempt is never rewritten, whoever reports late.
ResultsAreFinal ==
    [][\A j \in Jobs, n \in Numbers :
          ledger[j][n] \notin {"none", "running"} => ledger'[j][n] = ledger[j][n]]_vars

(* Liveness.                                                               *)

\* The last wake-up of a due retry was spent while the row was locked: the
\* delivery skipped it, read retry_wait and was acknowledged.
PassedOver(j) == j \in overlooked /\ status[j] = "retry_wait" /\ ~HasWakeup(j)

\* A job is not left in the middle: a queued one is claimed, a running one
\* settles even when its worker dies (the lease lapses and the repeated
\* delivery reclaims it), one that waits for its retry gets it, and so on to
\* the end.  It may stay behind in two ways only: its cancellation was
\* requested, or its last delivery passed over the locked row.
JobSettles ==
    \A j \in Jobs :
        status[j] \in {"queued", "running", "retry_wait"} ~>
            status[j] \in {"succeeded", "failed", "cancelled"} \/ cancelReq[j] \/ PassedOver(j)
=============================================================================
