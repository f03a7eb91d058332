--------------------------- MODULE JobQueueProofs ---------------------------
(***************************************************************************)
(* What JobQueue keeps for every set of jobs, workers and dispatchers and  *)
(* every limit on attempts.                                                *)
(***************************************************************************)
EXTENDS JobQueue, TLAPS

USE JobQueueAssumption

(***************************************************************************)
(* Type correctness.                                                       *)
(***************************************************************************)
LEMMA TypeInit == Init => TypeOK
  BY DEF Init, TypeOK, Numbers, JobStatus, AttemptResult, EventState, TaskState, WorkerState

LEMMA JobOfType == \A e \in Events : JobOf(e) \in Jobs
  BY DEF Events, JobOf

LEMMA EventType ==
    \A j \in Jobs, n \in Numbers :
        EventOf(j, "run", n) \in Events /\ EventOf(j, "retry", n) \in Events
  BY DEF Events, EventOf

LEMMA TypeJobStep ==
    ASSUME TypeOK, NEW j \in Jobs, JobStep(j) PROVE TypeOK'
<1>1. CASE CreateJob(j)
  BY <1>1, EventType DEF TypeOK, CreateJob, Enqueue, Numbers, JobStatus, EventState,
     workerVars, dispVars
<1>2. CASE RetryJob(j)
  BY <1>2, EventType DEF TypeOK, RetryJob, Enqueue, Numbers, JobStatus, EventState,
     workerVars, dispVars
<1>3. CASE CancelJob(j)
  BY <1>3 DEF TypeOK, CancelJob, RequestCancel, JobStatus, workerVars, dispVars
<1>4. CASE CancelLock(j)
  BY <1>4 DEF TypeOK, CancelLock, jobVars, workerVars, dispVars
<1>5. CASE CancelCommit(j)
  BY <1>5 DEF TypeOK, CancelCommit, RequestCancel, JobStatus, workerVars, dispVars
<1>6. CASE CancelRollback(j)
  BY <1>6 DEF TypeOK, CancelRollback, jobVars, workerVars, dispVars
<1>7. CASE EraseTranscription(j)
  BY <1>7 DEF TypeOK, EraseTranscription, JobStatus, AttemptResult, workerVars, dispVars
<1>8. CASE LeaseLapses(j)
  BY <1>8 DEF TypeOK, LeaseLapses, workerVars, dispVars
<1> QED
  BY <1>1, <1>2, <1>3, <1>4, <1>5, <1>6, <1>7, <1>8 DEF JobStep

LEMMA TypeDispatcherStep ==
    ASSUME TypeOK, NEW d \in Dispatchers, DispatcherStep(d) PROVE TypeOK'
<1>1. CASE ClaimOutbox(d)
  BY <1>1 DEF TypeOK, ClaimOutbox, EventState, jobVars, workerVars
<1>2. CASE MarkLock(d)
  BY <1>2, JobOfType DEF TypeOK, MarkLock, jobVars, workerVars, dispVars
<1>3. CASE MarkPublished(d)
  BY <1>3, JobOfType DEF TypeOK, MarkPublished, EventState, jobVars, workerVars
<1>4. CASE DispatchAborts(d)
  BY <1>4 DEF TypeOK, DispatchAborts, jobVars, workerVars
<1>5. CASE \E e \in Events : CreateTask(d, e)
  BY <1>5 DEF TypeOK, CreateTask, TaskState, jobVars, workerVars
<1> QED
  BY <1>1, <1>2, <1>3, <1>4, <1>5 DEF DispatcherStep

LEMMA TypeEndRequest ==
    ASSUME TypeOK, NEW w \in Workers, NEW t \in TaskState, EndRequest(w, t) PROVE TypeOK'
  BY DEF TypeOK, EndRequest, WorkerState, Numbers, jobVars, dispVars

LEMMA TypeClaim ==
    ASSUME TypeOK, NEW w \in Workers, NEW e \in Events, ClaimJob(w, e) PROVE TypeOK'
<1> DEFINE j == JobOf(e)
<1>1. j \in Jobs
  BY JobOfType
<1>2. attempt[j] + 1 \in Numbers
  BY <1>1 DEF TypeOK, ClaimJob, NextAttempt, Numbers
<1>3. ledger' \in [Jobs -> [Numbers -> AttemptResult]]
  <2>1. ledger[j] \in [Numbers -> AttemptResult]
    BY <1>1 DEF TypeOK
  <2> QED
    BY <1>1, <2>1 DEF TypeOK, ClaimJob, NextAttempt, AttemptResult
<1>4. /\ status' \in [Jobs -> JobStatus]
      /\ attempt' \in [Jobs -> Numbers]
      /\ lease' \in [Jobs -> {"none", "live", "expired"}]
      /\ cancelReq' \in [Jobs -> BOOLEAN]
      /\ waits' \in [Jobs -> Numbers]
  BY <1>1, <1>2 DEF TypeOK, ClaimJob, NextAttempt, JobStatus
<1> QED
  BY <1>1, <1>2, <1>3, <1>4 DEF TypeOK, ClaimJob, NextAttempt, TaskState, WorkerState, dispVars

LEMMA TypeHandlerEnds ==
    ASSUME TypeOK, NEW w \in Workers, wJob[w] \in Jobs, HandlerEnds(w) PROVE TypeOK'
<1>1. wAtt[w] \in Numbers
  BY DEF TypeOK
<1>2. CASE FinishSucceeded(w)
  BY <1>1, <1>2 DEF TypeOK, FinishSucceeded, CloseAttempt, Settle, JobStatus, AttemptResult,
     WorkerState, dispVars
<1>3. CASE FinishRefused(w)
  BY <1>3 DEF TypeOK, FinishRefused, WorkerState, jobVars, dispVars
<1>4. CASE FinishRetryWait(w)
  <2>1. /\ ledger' \in [Jobs -> [Numbers -> AttemptResult]]
        /\ status' \in [Jobs -> JobStatus]
        /\ lease' \in [Jobs -> {"none", "live", "expired"}]
        /\ pc' \in [Workers -> WorkerState]
    BY <1>1, <1>4 DEF TypeOK, FinishRetryWait, CloseAttempt, Settle, JobStatus, AttemptResult,
       WorkerState
  <2>2. /\ waits' \in [Jobs -> Numbers]
        /\ outbox' \in [Events -> EventState]
    <3>1. EventOf(wJob[w], "run", wAtt[w]) \in Events
      BY <1>1, EventType
    <3>2. CASE status[wJob[w]] = "running"
      <4>1. waits' = [waits EXCEPT ![wJob[w]] = wAtt[w]]
        BY <1>4, <3>2 DEF FinishRetryWait
      <4>2. Enqueue(EventOf(wJob[w], "run", wAtt[w]), "waiting")
        BY <1>4, <3>2 DEF FinishRetryWait
      <4>3. waits' \in [Jobs -> Numbers]
        BY <1>1, <4>1 DEF TypeOK
      <4>4. outbox' \in [Events -> EventState]
        BY <3>1, <4>2 DEF TypeOK, Enqueue, EventState
      <4> QED
        BY <4>3, <4>4
    <3>3. CASE status[wJob[w]] # "running"
      BY <1>4, <3>3 DEF TypeOK, FinishRetryWait
    <3> QED
      BY <3>2, <3>3
  <2> QED
    BY <1>4, <2>1, <2>2 DEF TypeOK, FinishRetryWait, dispVars
<1>5. CASE FinishFailed(w)
  BY <1>1, <1>5 DEF TypeOK, FinishFailed, CloseAttempt, Settle, JobStatus, AttemptResult,
     WorkerState, dispVars
<1>6. CASE FinishCancelled(w)
  BY <1>1, <1>6 DEF TypeOK, FinishCancelled, CloseAttempt, JobStatus, AttemptResult,
     WorkerState, dispVars
<1> QED
  BY <1>2, <1>3, <1>4, <1>5, <1>6 DEF HandlerEnds

\* A request that is past its claim names a job.
RequestsNameJobs == \A w \in Workers : pc[w] # "idle" => wJob[w] \in Jobs

TypeInv == TypeOK /\ RequestsNameJobs

LEMMA TypeInvStep == TypeInv /\ [Next]_vars => TypeInv'
<1> SUFFICES ASSUME TypeOK, RequestsNameJobs, [Next]_vars PROVE TypeInv'
  BY DEF TypeInv
<1>1. ASSUME NEW j \in Jobs, JobStep(j) PROVE TypeInv'
  <2>1. UNCHANGED <<pc, wJob>>
    BY <1>1 DEF JobStep, CreateJob, RetryJob, CancelJob, CancelLock, CancelCommit,
       CancelRollback, EraseTranscription, LeaseLapses, workerVars
  <2> QED
    BY <1>1, <2>1, TypeJobStep DEF TypeInv, RequestsNameJobs
<1>2. ASSUME NEW d \in Dispatchers, DispatcherStep(d) PROVE TypeInv'
  <2>1. UNCHANGED <<pc, wJob>>
    BY <1>2 DEF DispatcherStep, ClaimOutbox, MarkLock, MarkPublished, DispatchAborts,
       CreateTask, workerVars
  <2> QED
    BY <1>2, <2>1, TypeDispatcherStep DEF TypeInv, RequestsNameJobs
<1>3. ASSUME NEW w \in Workers, WorkerStep(w) PROVE TypeInv'
  <2>1. CASE HandlerEnds(w)
    <3>1. pc[w] # "idle" /\ wJob' = wJob /\ pc' = [pc EXCEPT ![w] = pc'[w]]
      BY <2>1 DEF TypeOK, HandlerEnds, FinishSucceeded, FinishRefused, FinishRetryWait,
         FinishFailed, FinishCancelled
    <3>2. TypeOK'
      BY <2>1, <3>1, TypeHandlerEnds DEF RequestsNameJobs
    <3> QED
      BY <3>1, <3>2 DEF TypeInv, RequestsNameJobs, TypeOK
  <2>2. CASE HandlerCancels(w)
    BY <2>2 DEF TypeInv, TypeOK, RequestsNameJobs, HandlerCancels, WorkerState, jobVars, dispVars
  <2>3. CASE Heartbeat(w)
    BY <2>3 DEF TypeInv, TypeOK, RequestsNameJobs, Heartbeat, InHandler, workerVars, dispVars
  <2>4. ASSUME NEW t \in TaskState, EndRequest(w, t) PROVE TypeInv'
    <3>1. RequestsNameJobs'
      BY <2>4 DEF EndRequest, RequestsNameJobs, TypeOK
    <3> QED
      BY <2>4, <3>1, TypeEndRequest DEF TypeInv
  <2>5. CASE WorkerStops(w) \/ ReplyRefused(w) \/ ReplySettled(w)
    BY <2>4, <2>5 DEF WorkerStops, ReplyRefused, ReplySettled, TaskState
  <2>6. CASE DeadlineExceeded(w)
    BY <2>6 DEF TypeInv, TypeOK, RequestsNameJobs, DeadlineExceeded, TaskState, jobVars, dispVars
  <2>7. ASSUME NEW e \in Events, ClaimJob(w, e) PROVE TypeInv'
    <3>1. RequestsNameJobs'
      BY <2>7, JobOfType DEF ClaimJob, NextAttempt, RequestsNameJobs, TypeOK
    <3> QED
      BY <2>7, <3>1, TypeClaim DEF TypeInv
  <2>8. ASSUME NEW e \in Events, RefuseDelivery(w, e) PROVE TypeInv'
    BY <2>8, JobOfType DEF TypeInv, TypeOK, RequestsNameJobs, RefuseDelivery, TaskState,
       WorkerState, jobVars, dispVars
  <2> QED
    BY <1>3, <2>1, <2>2, <2>3, <2>5, <2>6, <2>7, <2>8 DEF WorkerStep
<1>4. ASSUME NEW e \in Events, EventDue(e) \/ OutboxLeaseLapses(e) PROVE TypeInv'
  BY <1>4 DEF TypeInv, TypeOK, RequestsNameJobs, EventDue, OutboxLeaseLapses, EventState,
     jobVars, workerVars, dispVars
<1>5. CASE UNCHANGED vars
  BY <1>5 DEF TypeInv, TypeOK, RequestsNameJobs, vars, jobVars, workerVars, dispVars
<1> QED
  BY <1>1, <1>2, <1>3, <1>4, <1>5 DEF Next

\* Every variable stays in its type, and every request names its job.
THEOREM TypeCorrect == Spec => [](TypeOK /\ RequestsNameJobs)
<1>1. Init => TypeInv
  BY TypeInit DEF Init, TypeInv, RequestsNameJobs
<1> QED
  BY <1>1, TypeInvStep, PTL DEF Spec, TypeInv

(***************************************************************************)
(* Attempts.  A worker's attempt number is at most the job's, and a claim  *)
(* hands out a number above all earlier ones.                              *)
(***************************************************************************)
AttemptsBelow ==
    \A w \in Workers : InHandler(w) => wAtt[w] <= attempt[wJob[w]]

AttemptInv == TypeInv /\ AttemptsBelow /\ AttemptsDistinct

\* A request that ends or stays where it is disturbs nobody's attempt.
LEMMA AttemptQuietStep ==
    ASSUME AttemptInv, TypeInv',
           attempt' = attempt,
           \A w \in Workers :
              InHandler(w)' => InHandler(w) /\ wJob'[w] = wJob[w] /\ wAtt'[w] = wAtt[w]
    PROVE  AttemptInv'
  BY DEF AttemptInv, AttemptsBelow, AttemptsDistinct

LEMMA AttemptClaim ==
    ASSUME AttemptInv, TypeInv', NEW w \in Workers, NEW e \in Events, ClaimJob(w, e)
    PROVE  AttemptInv'
<1> DEFINE j == JobOf(e)
<1>1. j \in Jobs /\ attempt \in [Jobs -> Numbers] /\ wAtt \in [Workers -> Numbers]
  BY JobOfType DEF AttemptInv, TypeInv, TypeOK
<1>2. /\ attempt' = [attempt EXCEPT ![j] = attempt[j] + 1]
      /\ wAtt' = [wAtt EXCEPT ![w] = attempt[j] + 1]
      /\ wJob' = [wJob EXCEPT ![w] = j]
      /\ pc' = [pc EXCEPT ![w] = "working"]
  BY DEF ClaimJob, NextAttempt
<1>3. \A v \in Workers : v # w /\ InHandler(v)' =>
         /\ InHandler(v) /\ wJob[v] \in Jobs
         /\ wJob'[v] = wJob[v] /\ wAtt'[v] = wAtt[v] /\ wAtt[v] <= attempt[wJob[v]]
  BY <1>2 DEF AttemptInv, TypeInv, TypeOK, AttemptsBelow, InHandler, RequestsNameJobs
<1>4. wJob'[w] = j /\ wAtt'[w] = attempt[j] + 1 /\ attempt'[j] = attempt[j] + 1
  BY <1>1, <1>2 DEF AttemptInv, TypeInv, TypeOK
<1>5. AttemptsBelow'
  <2> SUFFICES ASSUME NEW v \in Workers, InHandler(v)' PROVE wAtt'[v] <= attempt'[wJob'[v]]
    BY DEF AttemptsBelow
  <2>1. CASE v = w
    BY <1>1, <1>4, <2>1 DEF Numbers
  <2>2. CASE v # w
    BY <1>1, <1>2, <1>3, <2>2 DEF Numbers
  <2> QED
    BY <2>1, <2>2
<1>6. AttemptsDistinct'
  <2> SUFFICES ASSUME NEW u \in Workers, NEW v \in Workers, InHandler(u)', InHandler(v)',
                      wJob'[u] = wJob'[v], wAtt'[u] = wAtt'[v]
               PROVE  u = v
    BY DEF AttemptsDistinct
  <2>1. CASE u # w /\ v # w
    BY <1>3, <2>1 DEF AttemptInv, AttemptsDistinct
  <2>2. CASE u = w /\ v # w
    BY <1>1, <1>3, <1>4, <2>2 DEF Numbers
  <2>3. CASE u # w /\ v = w
    BY <1>1, <1>3, <1>4, <2>3 DEF Numbers
  <2> QED
    BY <2>1, <2>2, <2>3
<1> QED
  BY <1>5, <1>6 DEF AttemptInv

LEMMA AttemptInvStep == AttemptInv /\ [Next]_vars => AttemptInv'
<1> SUFFICES ASSUME AttemptInv, [Next]_vars PROVE AttemptInv'
  OBVIOUS
<1>0. TypeInv'
  BY TypeInvStep DEF AttemptInv
<1>1. ASSUME NEW j \in Jobs, JobStep(j) PROVE AttemptInv'
  <2>1. UNCHANGED <<attempt, pc, wJob, wAtt>>
    BY <1>1 DEF JobStep, CreateJob, RetryJob, CancelJob, CancelLock, CancelCommit,
       CancelRollback, EraseTranscription, LeaseLapses, jobVars, workerVars
  <2> QED
    BY <1>0, <2>1, AttemptQuietStep DEF InHandler
<1>2. ASSUME NEW d \in Dispatchers, DispatcherStep(d) PROVE AttemptInv'
  <2>1. UNCHANGED <<attempt, pc, wJob, wAtt>>
    BY <1>2 DEF DispatcherStep, ClaimOutbox, MarkLock, MarkPublished, DispatchAborts,
       CreateTask, jobVars, workerVars
  <2> QED
    BY <1>0, <2>1, AttemptQuietStep DEF InHandler
<1>3. ASSUME NEW w \in Workers, WorkerStep(w) PROVE AttemptInv'
  <2>1. CASE HandlerEnds(w) \/ HandlerCancels(w)
    <3>1. /\ UNCHANGED <<attempt, wJob, wAtt>> /\ InHandler(w)
          /\ pc' = [pc EXCEPT ![w] = pc'[w]]
      BY <2>1 DEF AttemptInv, TypeInv, TypeOK, HandlerEnds, HandlerCancels, FinishSucceeded,
         FinishRefused, FinishRetryWait, FinishFailed, FinishCancelled, InHandler, jobVars
    <3>2. \A v \in Workers : InHandler(v)' => InHandler(v)
      BY <3>1 DEF AttemptInv, TypeInv, TypeOK, InHandler
    <3> QED
      BY <1>0, <3>1, <3>2, AttemptQuietStep
  <2>2. CASE Heartbeat(w) \/ DeadlineExceeded(w)
    <3>1. UNCHANGED <<attempt, pc, wJob, wAtt>>
      BY <2>2 DEF Heartbeat, DeadlineExceeded, jobVars, workerVars
    <3> QED
      BY <1>0, <3>1, AttemptQuietStep DEF InHandler
  <2>3. ASSUME NEW t, EndRequest(w, t) PROVE AttemptInv'
    <3>1. /\ UNCHANGED attempt
          /\ pc' = [pc EXCEPT ![w] = "idle"]
          /\ wJob' = [wJob EXCEPT ![w] = NoJob]
          /\ wAtt' = [wAtt EXCEPT ![w] = 0]
      BY <2>3 DEF EndRequest, jobVars
    <3>2. \A v \in Workers :
             InHandler(v)' => InHandler(v) /\ wJob'[v] = wJob[v] /\ wAtt'[v] = wAtt[v]
      BY <3>1 DEF AttemptInv, TypeInv, TypeOK, InHandler
    <3> QED
      BY <1>0, <3>1, <3>2, AttemptQuietStep
  <2>4. CASE WorkerStops(w) \/ ReplyRefused(w) \/ ReplySettled(w)
    BY <2>3, <2>4 DEF WorkerStops, ReplyRefused, ReplySettled
  <2>5. ASSUME NEW e \in Events, ClaimJob(w, e) PROVE AttemptInv'
    BY <1>0, <2>5, AttemptClaim
  <2>6. ASSUME NEW e \in Events, RefuseDelivery(w, e) PROVE AttemptInv'
    <3>1. /\ UNCHANGED <<attempt, wAtt>>
          /\ pc' = [pc EXCEPT ![w] = "refused"]
          /\ wJob' = [wJob EXCEPT ![w] = JobOf(e)]
      BY <2>6 DEF RefuseDelivery, jobVars
    <3>2. \A v \in Workers :
             InHandler(v)' => InHandler(v) /\ wJob'[v] = wJob[v] /\ wAtt'[v] = wAtt[v]
      BY <3>1 DEF AttemptInv, TypeInv, TypeOK, InHandler
    <3> QED
      BY <1>0, <3>1, <3>2, AttemptQuietStep
  <2> QED
    BY <1>3, <2>1, <2>2, <2>4, <2>5, <2>6 DEF WorkerStep
<1>4. ASSUME NEW e \in Events, EventDue(e) \/ OutboxLeaseLapses(e) PROVE AttemptInv'
  BY <1>0, <1>4, AttemptQuietStep
     DEF EventDue, OutboxLeaseLapses, InHandler, jobVars, workerVars
<1>5. CASE UNCHANGED vars
  BY <1>0, <1>5, AttemptQuietStep DEF vars, InHandler, jobVars, workerVars
<1> QED
  BY <1>1, <1>2, <1>3, <1>4, <1>5 DEF Next

LEMMA AttemptInit == Init => AttemptInv
  BY TypeInit DEF Init, AttemptInv, TypeInv, RequestsNameJobs, AttemptsBelow,
     AttemptsDistinct, InHandler

\* Whatever lapses, stalls and duplicates happen, no two requests run the
\* same attempt of a job.
THEOREM AttemptsAreDistinct == Spec => []AttemptsDistinct
<1>1. AttemptInv => AttemptsDistinct
  BY DEF AttemptInv
<1> QED
  BY <1>1, AttemptInit, AttemptInvStep, PTL DEF Spec

(***************************************************************************)
(* One runner.  As long as no lease lapsed under it, the job of a request  *)
(* that is in its handler is either erased or still runs the request's own *)
(* attempt, under a live lease unless its cancellation was requested;      *)
(* claim_job takes none of these.                                          *)
(***************************************************************************)
StillRuns(w, j) ==
    /\ wAtt[w] = attempt[j]
    /\ \/ status[j] = "cancelled"
       \/ status[j] = "running" /\ (cancelReq[j] \/ lease[j] = "live")

HolderCurrent ==
    \A w \in Workers : InHandler(w) /\ wJob[w] \notin stalled => StillRuns(w, wJob[w])

\* The row lock of a cancellation keeps the job cancellable.
LockedIsCancellable == \A j \in Jobs : lock[j] = Api => Cancellable(j)

\* LedgerAgrees and SuccessIsOfLastAttempt, of the jobs no worker stalled on.
LedgerTrue ==
    \A j \in Jobs \ stalled, n \in Numbers :
        ledger[j][n] = "running" <=> status[j] = "running" /\ n = attempt[j]

SuccessIsLast ==
    \A j \in Jobs \ stalled : status[j] = "succeeded" => ledger[j][attempt[j]] = "succeeded"

NoneStalls == ~Stalls => stalled = {}

HealthyInv ==
    /\ TypeInv /\ HolderCurrent /\ LockedIsCancellable /\ OneRunner
    /\ LedgerTrue /\ SuccessIsLast /\ NoneStalls

LEMMA HealthyJobStep ==
    ASSUME HealthyInv, TypeInv', NEW j \in Jobs, JobStep(j) PROVE HealthyInv'
<1>0. TypeOK /\ TypeOK'
  BY DEF HealthyInv, TypeInv
<1>1. UNCHANGED <<attempt, pc, wJob, wAtt>>
  BY DEF JobStep, CreateJob, RetryJob, CancelJob, CancelLock, CancelCommit,
     CancelRollback, EraseTranscription, LeaseLapses, jobVars, workerVars
<1>12. /\ stalled \subseteq stalled' /\ NoneStalls'
       /\ \A k \in Jobs : k \in stalled' \/ k \notin stalled
  BY <1>0 DEF HealthyInv, NoneStalls, JobStep, CreateJob, RetryJob, CancelJob, CancelLock,
     CancelCommit, CancelRollback, EraseTranscription, LeaseLapses, jobVars
<1>2. OneRunner'
  BY <1>1, <1>12 DEF HealthyInv, OneRunner, InHandler
<1>3. \A w \in Workers : InHandler(w)' /\ wJob[w] \notin stalled' =>
         InHandler(w) /\ wJob[w] \in Jobs /\ StillRuns(w, wJob[w])
  BY <1>1, <1>12 DEF HealthyInv, HolderCurrent, InHandler, TypeInv, RequestsNameJobs
<1>11. LockedIsCancellable'
  BY <1>0 DEF HealthyInv, LockedIsCancellable, Cancellable, JobStep, CreateJob, RetryJob, CancelJob,
     CancelLock, CancelCommit, CancelRollback, RequestCancel, EraseTranscription, LeaseLapses,
     TypeOK, Api, Free, jobVars
<1>4. ASSUME \A k \in Jobs : \/ status'[k] = status[k]
                             \/ status[k] = "absent" /\ status'[k] = "queued"
                             \/ status[k] \in {"failed", "retry_wait"} /\ status'[k] = "queued"
                             \/ status[k] \in {"queued", "retry_wait"} /\ status'[k] = "cancelled",
             ledger' = ledger,
             \A k \in Jobs : cancelReq[k] => cancelReq'[k],
             \A k \in Jobs : status[k] = "running" /\ lease[k] = "live"
                => \/ lease'[k] = "live" \/ cancelReq'[k] \/ k \in stalled'
                   \/ ~\E w \in Workers : Holds(w, k)
      PROVE  HealthyInv'
  <2>1. HolderCurrent'
    <3> SUFFICES ASSUME NEW w \in Workers, InHandler(w)', wJob[w] \notin stalled'
                 PROVE  StillRuns(w, wJob[w])'
      BY <1>1 DEF HolderCurrent
    <3>1. InHandler(w) /\ wJob[w] \in Jobs /\ StillRuns(w, wJob[w]) /\ Holds(w, wJob[w])
      BY <1>3 DEF StillRuns, Holds, Current
    <3> QED
      BY <1>1, <1>4, <3>1 DEF StillRuns
  <2>2. LedgerTrue'
    BY <1>1, <1>4, <1>12 DEF HealthyInv, LedgerTrue
  <2>3. SuccessIsLast'
    BY <1>1, <1>4, <1>12 DEF HealthyInv, SuccessIsLast
  <2> QED
    BY <1>2, <1>11, <1>12, <2>1, <2>2, <2>3 DEF HealthyInv
<1>5. CASE CreateJob(j) \/ RetryJob(j)
  BY <1>0, <1>4, <1>5 DEF CreateJob, RetryJob, TypeOK
<1>6. CASE CancelJob(j)
  BY <1>0, <1>4, <1>6 DEF CancelJob, Cancellable, RequestCancel, TypeOK
<1>7. CASE CancelLock(j) \/ CancelRollback(j)
  BY <1>4, <1>7 DEF CancelLock, CancelRollback, jobVars
<1>8. CASE CancelCommit(j)
  BY <1>0, <1>4, <1>8 DEF HealthyInv, LockedIsCancellable, Cancellable, CancelCommit,
     RequestCancel, TypeOK
<1>9. CASE LeaseLapses(j)
  BY <1>0, <1>4, <1>9 DEF LeaseLapses, TypeOK
<1>10. CASE EraseTranscription(j)
  <2>1. \A k \in Jobs : k # j => /\ status'[k] = status[k] /\ ledger'[k] = ledger[k]
                                 /\ cancelReq'[k] = cancelReq[k] /\ lease'[k] = lease[k]
    BY <1>0, <1>10 DEF EraseTranscription, TypeOK
  <2>2. /\ status'[j] = IF status[j] \in {"queued", "retry_wait", "running"}
                        THEN "cancelled" ELSE status[j]
        /\ \A n \in Numbers : ledger'[j][n] = IF ledger[j][n] = "running"
                                               THEN "cancelled" ELSE ledger[j][n]
    BY <1>0, <1>10 DEF EraseTranscription, TypeOK
  <2>3. HolderCurrent'
    BY <1>1, <1>3, <2>1, <2>2 DEF HolderCurrent, StillRuns
  <2>4. LedgerTrue'
    <3>1. status'[j] # "running" /\ \A n \in Numbers : ledger'[j][n] # "running"
      BY <2>2
    <3>2. \A k \in Jobs \ stalled', n \in Numbers : k # j =>
             (ledger'[k][n] = "running" <=> status'[k] = "running" /\ n = attempt'[k])
      BY <1>1, <1>12, <2>1 DEF HealthyInv, LedgerTrue
    <3> QED
      BY <3>1, <3>2 DEF LedgerTrue
  <2>5. SuccessIsLast'
    <3> SUFFICES ASSUME NEW k \in Jobs \ stalled', status'[k] = "succeeded"
                 PROVE  ledger'[k][attempt[k]] = "succeeded"
      BY <1>1 DEF SuccessIsLast
    <3>1. attempt[k] \in Numbers
      BY <1>0 DEF TypeOK
    <3>2. status[k] = "succeeded"
      BY <2>1, <2>2
    <3>3. ledger[k][attempt[k]] = "succeeded"
      BY <1>12, <3>2 DEF HealthyInv, SuccessIsLast
    <3>4. CASE k = j
      BY <2>2, <3>1, <3>3, <3>4
    <3>5. CASE k # j
      BY <2>1, <3>3, <3>5
    <3> QED
      BY <3>4, <3>5
  <2> QED
    BY <1>2, <1>11, <1>12, <2>3, <2>4, <2>5 DEF HealthyInv
<1> QED
  BY <1>5, <1>6, <1>7, <1>8, <1>9, <1>10 DEF JobStep

LEMMA HealthyClaim ==
    ASSUME HealthyInv, TypeInv', NEW w \in Workers, NEW e \in Events, ClaimJob(w, e)
    PROVE  HealthyInv'
<1> DEFINE j == JobOf(e)
<1>0. TypeOK /\ TypeOK' /\ j \in Jobs /\ attempt[j] \in Numbers
  BY JobOfType DEF HealthyInv, TypeInv, TypeOK
<1>1. /\ status' = [status EXCEPT ![j] = "running"]
      /\ attempt' = [attempt EXCEPT ![j] = attempt[j] + 1]
      /\ lease' = [lease EXCEPT ![j] = "live"]
      /\ wAtt' = [wAtt EXCEPT ![w] = attempt[j] + 1]
      /\ wJob' = [wJob EXCEPT ![w] = j]
      /\ pc' = [pc EXCEPT ![w] = "working"]
      /\ UNCHANGED <<cancelReq, lock, stalled>>
      /\ Claimable(j)
      /\ attempt[j] + 1 \in Numbers
  BY <1>0 DEF ClaimJob, NextAttempt, Numbers
<1>2. j \notin stalled => \A v \in Workers : InHandler(v) => wJob[v] # j
  BY <1>1 DEF HealthyInv, HolderCurrent, StillRuns, Claimable, Available, DueRetry
<1>3. \A v \in Workers : v # w /\ InHandler(v)' =>
         /\ InHandler(v) /\ wJob'[v] = wJob[v] /\ wAtt'[v] = wAtt[v]
         /\ wJob[v] \in Jobs
         /\ wJob[v] \notin stalled => wJob[v] # j /\ StillRuns(v, wJob[v])
  BY <1>0, <1>1, <1>2 DEF HealthyInv, HolderCurrent, TypeInv, RequestsNameJobs, TypeOK, InHandler
<1>4. \A k \in Jobs : k # j => /\ status'[k] = status[k] /\ attempt'[k] = attempt[k]
                               /\ lease'[k] = lease[k] /\ ledger'[k] = ledger[k]
  BY <1>0 DEF ClaimJob, NextAttempt, TypeOK
<1>5. /\ wJob'[w] = j /\ wAtt'[w] = attempt[j] + 1
      /\ status'[j] = "running" /\ lease'[j] = "live" /\ attempt'[j] = attempt[j] + 1
  BY <1>0, <1>1 DEF TypeOK
<1>6. HolderCurrent'
  <2> SUFFICES ASSUME NEW v \in Workers, InHandler(v)', wJob'[v] \notin stalled
               PROVE  StillRuns(v, wJob[v])'
    BY <1>1 DEF HolderCurrent
  <2>1. CASE v = w
    BY <1>5, <2>1 DEF StillRuns
  <2>2. CASE v # w
    BY <1>1, <1>3, <1>4, <2>2 DEF StillRuns
  <2> QED
    BY <2>1, <2>2
<1>7. OneRunner'
  BY <1>1, <1>3, <1>5 DEF HealthyInv, OneRunner
<1>8. LockedIsCancellable'
  BY <1>0, <1>1, <1>4 DEF HealthyInv, LockedIsCancellable, Claimable, Cancellable, Api, Free
<1>9. LedgerTrue'
  <2> SUFFICES ASSUME NEW k \in Jobs \ stalled, NEW n \in Numbers
               PROVE  ledger'[k][n] = "running" <=> status'[k] = "running" /\ n = attempt'[k]
    BY <1>1 DEF LedgerTrue
  <2>1. CASE k # j
    BY <1>4, <2>1 DEF HealthyInv, LedgerTrue
  <2>2. CASE k = j
    <3>1. ledger'[j][n] = IF n = attempt[j] + 1 THEN "running"
                          ELSE IF n = attempt[j] /\ status[j] = "running" /\ ledger[j][n] = "running"
                               THEN "retryable" ELSE ledger[j][n]
      BY <1>0 DEF ClaimJob, NextAttempt, TypeOK
    <3>2. ledger[j][n] = "running" <=> status[j] = "running" /\ n = attempt[j]
      BY <1>0, <2>2 DEF HealthyInv, LedgerTrue
    <3>3. attempt[j] # attempt[j] + 1
      BY <1>0 DEF Numbers
    <3> QED
      BY <1>5, <2>2, <3>1, <3>2, <3>3
  <2> QED
    BY <2>1, <2>2
<1>10. SuccessIsLast' /\ NoneStalls'
  BY <1>1, <1>4, <1>5 DEF HealthyInv, SuccessIsLast, NoneStalls
<1> QED
  BY <1>6, <1>7, <1>8, <1>9, <1>10 DEF HealthyInv

\* A request leaves its handler or moves to JOB_CANCELLED; the jobs stay.
LEMMA HealthyQuietStep ==
    ASSUME HealthyInv, TypeInv', UNCHANGED <<status, attempt, lease, cancelReq, ledger, stalled>>,
           \A k \in Jobs : lock'[k] = Api => lock[k] = Api,
           \A v \in Workers :
              InHandler(v)' => InHandler(v) /\ wJob'[v] = wJob[v] /\ wAtt'[v] = wAtt[v]
    PROVE  HealthyInv'
<1>1. HolderCurrent'
  BY DEF HealthyInv, HolderCurrent, StillRuns
<1>2. OneRunner'
  BY DEF HealthyInv, OneRunner
<1>3. LockedIsCancellable'
  BY DEF HealthyInv, LockedIsCancellable, Cancellable
<1>4. LedgerTrue' /\ SuccessIsLast' /\ NoneStalls'
  BY DEF HealthyInv, LedgerTrue, SuccessIsLast, NoneStalls
<1> QED
  BY <1>1, <1>2, <1>3, <1>4 DEF HealthyInv

\* The request of w settles its job: the attempt closes with result r, the
\* job takes status x.
LEMMA HealthySettle ==
    ASSUME HealthyInv, TypeInv', NEW w \in Workers, NEW r, NEW x,
           InHandler(w), lock[wJob[w]] = Free, r # "running", x # "running",
           x = "succeeded" /\ wJob[w] \notin stalled =>
              status[wJob[w]] = "running" /\ r = "succeeded",
           CloseAttempt(wJob[w], wAtt[w], r),
           status' = [status EXCEPT ![wJob[w]] = x],
           lease' = [lease EXCEPT ![wJob[w]] = lease'[wJob[w]]],
           pc' = [pc EXCEPT ![w] = "settled"],
           UNCHANGED <<attempt, cancelReq, lock, stalled, wJob, wAtt>>
    PROVE  HealthyInv'
<1> DEFINE j == wJob[w]
<1>0. /\ TypeOK /\ TypeOK' /\ j \in Jobs /\ wAtt[w] \in Numbers
      /\ j \notin stalled => attempt[j] = wAtt[w]
  BY DEF HealthyInv, TypeInv, TypeOK, RequestsNameJobs, InHandler, HolderCurrent, StillRuns
<1>1. \A v \in Workers : InHandler(v)' =>
         v # w /\ InHandler(v) /\ (wJob[v] \notin stalled => wJob[v] # j)
  BY <1>0 DEF TypeOK, InHandler, HealthyInv, OneRunner
<1>2. /\ status'[j] = x
      /\ ledger'[j] = [ledger[j] EXCEPT ![wAtt[w]] =
                         IF ledger[j][wAtt[w]] = "running" THEN r ELSE ledger[j][wAtt[w]]]
      /\ \A k \in Jobs : k # j => /\ status'[k] = status[k] /\ lease'[k] = lease[k]
                                  /\ ledger'[k] = ledger[k]
  BY <1>0 DEF TypeOK, CloseAttempt
<1>3. HolderCurrent'
  <2> SUFFICES ASSUME NEW v \in Workers, InHandler(v)', wJob[v] \notin stalled
               PROVE  StillRuns(v, wJob[v])'
    BY DEF HolderCurrent
  <2>1. InHandler(v) /\ wJob[v] # j /\ wJob[v] \in Jobs /\ StillRuns(v, wJob[v])
    BY <1>1 DEF HealthyInv, TypeInv, RequestsNameJobs, HolderCurrent, InHandler
  <2> QED
    BY <1>2, <2>1 DEF StillRuns
<1>4. OneRunner'
  BY <1>1 DEF HealthyInv, OneRunner
<1>5. LockedIsCancellable'
  BY <1>0, <1>2 DEF HealthyInv, LockedIsCancellable, Cancellable, Api, Free
<1>6. LedgerTrue'
  <2> SUFFICES ASSUME NEW k \in Jobs \ stalled, NEW n \in Numbers
               PROVE  ledger'[k][n] = "running" <=> status'[k] = "running" /\ n = attempt[k]
    BY DEF LedgerTrue
  <2>1. ledger[k][n] = "running" <=> status[k] = "running" /\ n = attempt[k]
    BY DEF HealthyInv, LedgerTrue
  <2>2. CASE k # j
    BY <1>2, <2>1, <2>2
  <2>3. CASE k = j
    <3>1. ledger'[j][n] # "running"
      BY <1>0, <1>2, <2>1, <2>3 DEF TypeOK
    <3> QED
      BY <1>2, <2>3, <3>1
  <2> QED
    BY <2>2, <2>3
<1>7. SuccessIsLast'
  <2> SUFFICES ASSUME NEW k \in Jobs \ stalled, status'[k] = "succeeded"
               PROVE  ledger'[k][attempt[k]] = "succeeded"
    BY DEF SuccessIsLast
  <2>1. CASE k # j
    BY <1>2, <2>1 DEF HealthyInv, SuccessIsLast
  <2>2. CASE k = j
    <3>1. ledger[j][wAtt[w]] = "running" /\ r = "succeeded"
      BY <1>0, <1>2, <2>2 DEF HealthyInv, LedgerTrue
    <3> QED
      BY <1>0, <1>2, <2>2, <3>1 DEF TypeOK
  <2> QED
    BY <2>1, <2>2
<1> QED
  BY <1>3, <1>4, <1>5, <1>6, <1>7 DEF HealthyInv, NoneStalls

LEMMA HealthyHandlerEnds ==
    ASSUME HealthyInv, TypeInv', NEW w \in Workers, HandlerEnds(w) PROVE HealthyInv'
<1>0. TypeOK /\ TypeOK' /\ (InHandler(w) => wJob[w] \in Jobs)
  BY DEF HealthyInv, TypeInv, InHandler, RequestsNameJobs
<1>1. CASE FinishSucceeded(w)
  <2>1. /\ InHandler(w) /\ lock[wJob[w]] = Free /\ status[wJob[w]] = "running"
        /\ CloseAttempt(wJob[w], wAtt[w], "succeeded")
        /\ Settle(wJob[w], "succeeded")
        /\ pc' = [pc EXCEPT ![w] = "settled"]
        /\ UNCHANGED <<attempt, cancelReq, lock, stalled, wJob, wAtt>>
    BY <1>1 DEF FinishSucceeded, InHandler
  <2>2. /\ status' = [status EXCEPT ![wJob[w]] = "succeeded"]
        /\ lease' = [lease EXCEPT ![wJob[w]] = lease'[wJob[w]]]
    BY <1>0, <2>1 DEF Settle, TypeOK
  <2> QED
    BY <2>1, <2>2, HealthySettle
<1>2. CASE FinishRefused(w)
  <2>1. \A v \in Workers : InHandler(v)' => InHandler(v)
    BY <1>0, <1>2 DEF FinishRefused, InHandler, TypeOK
  <2> QED
    BY <1>2, <2>1, HealthyQuietStep DEF FinishRefused, jobVars
<1>3. CASE FinishRetryWait(w) \/ FinishFailed(w)
  <2> DEFINE x == IF status[wJob[w]] = "running" THEN status'[wJob[w]] ELSE status[wJob[w]]
  <2>1. PICK r \in {"retryable", "failed"} :
          /\ InHandler(w) /\ lock[wJob[w]] = Free
          /\ CloseAttempt(wJob[w], wAtt[w], r)
          /\ Settle(wJob[w], IF r = "failed" THEN "failed" ELSE "retry_wait")
          /\ pc' = [pc EXCEPT ![w] = "settled"]
          /\ UNCHANGED <<attempt, cancelReq, lock, stalled, wJob, wAtt>>
    BY <1>3 DEF FinishRetryWait, FinishFailed, InHandler
  <2>2. wJob[w] \notin stalled => StillRuns(w, wJob[w])
    BY <2>1 DEF HealthyInv, HolderCurrent
  <2>3. /\ status' = [status EXCEPT ![wJob[w]] = x]
        /\ lease' = [lease EXCEPT ![wJob[w]] = lease'[wJob[w]]]
    BY <1>0, <2>1 DEF Settle, TypeOK
  <2>4. x # "running" /\ (wJob[w] \notin stalled => x # "succeeded")
    BY <1>0, <2>1, <2>2 DEF Settle, TypeOK, StillRuns
  <2> QED
    BY <2>1, <2>3, <2>4, HealthySettle
<1>4. CASE FinishCancelled(w)
  <2>1. /\ InHandler(w) /\ lock[wJob[w]] = Free
        /\ CloseAttempt(wJob[w], wAtt[w], "cancelled")
        /\ status' = [status EXCEPT ![wJob[w]] = "cancelled"]
        /\ lease' = [lease EXCEPT ![wJob[w]] = "none"]
        /\ pc' = [pc EXCEPT ![w] = "settled"]
        /\ UNCHANGED <<attempt, cancelReq, lock, stalled, wJob, wAtt>>
    BY <1>4 DEF FinishCancelled, InHandler
  <2>2. lease' = [lease EXCEPT ![wJob[w]] = lease'[wJob[w]]]
    BY <1>0, <2>1 DEF TypeOK
  <2> QED
    BY <2>1, <2>2, HealthySettle
<1> QED
  BY <1>1, <1>2, <1>3, <1>4 DEF HandlerEnds

LEMMA HealthyInvStep ==
    HealthyInv /\ [Next]_vars => HealthyInv'
<1> SUFFICES ASSUME HealthyInv, [Next]_vars PROVE HealthyInv'
  OBVIOUS
<1>0. TypeInv' /\ TypeOK
  BY TypeInvStep DEF HealthyInv, TypeInv
<1>1. ASSUME NEW j \in Jobs, JobStep(j) PROVE HealthyInv'
  BY <1>0, <1>1, HealthyJobStep
<1>2. ASSUME NEW d \in Dispatchers, DispatcherStep(d) PROVE HealthyInv'
  <2>1. UNCHANGED <<status, attempt, lease, cancelReq, ledger, stalled, pc, wJob, wAtt>>
    BY <1>2 DEF DispatcherStep, ClaimOutbox, MarkLock, MarkPublished, DispatchAborts,
       CreateTask, jobVars, workerVars
  <2>2. \A k \in Jobs : lock'[k] = Api => lock[k] = Api
    BY <1>0, <1>2, JobOfType DEF DispatcherStep, ClaimOutbox, MarkLock, MarkPublished, DispatchAborts,
       CreateTask, TypeOK, Api, Free
  <2> QED
    BY <1>0, <2>1, <2>2, HealthyQuietStep DEF InHandler
<1>3. ASSUME NEW w \in Workers, WorkerStep(w) PROVE HealthyInv'
  <2>1. CASE HandlerEnds(w)
    BY <1>0, <2>1, HealthyHandlerEnds
  <2>2. CASE HandlerCancels(w)
    <3>1. \A v \in Workers : InHandler(v)' => InHandler(v)
      BY <1>0, <2>2 DEF HandlerCancels, InHandler, TypeOK
    <3> QED
      BY <1>0, <2>2, <3>1, HealthyQuietStep DEF HandlerCancels, jobVars
  <2>3. CASE Heartbeat(w)
    <3>1. /\ UNCHANGED <<status, attempt, cancelReq, ledger, lock, stalled, pc, wJob, wAtt>>
          /\ lease' = [lease EXCEPT ![wJob[w]] = "live"]
      BY <2>3 DEF Heartbeat, workerVars
    <3>2. \A k \in Jobs : lease'[k] = lease[k] \/ lease'[k] = "live"
      BY <1>0, <3>1 DEF TypeOK
    <3>3. HolderCurrent'
      BY <3>1, <3>2 DEF HealthyInv, HolderCurrent, StillRuns, InHandler, TypeInv, RequestsNameJobs
    <3> QED
      BY <1>0, <3>1, <3>3 DEF HealthyInv, LockedIsCancellable, Cancellable, OneRunner, LedgerTrue,
         SuccessIsLast, NoneStalls, InHandler
  <2>4. CASE DeadlineExceeded(w)
    BY <1>0, <2>4, HealthyQuietStep DEF DeadlineExceeded, InHandler, jobVars
  <2>5. ASSUME NEW t, EndRequest(w, t) PROVE HealthyInv'
    <3>1. \A v \in Workers :
             InHandler(v)' => InHandler(v) /\ wJob'[v] = wJob[v] /\ wAtt'[v] = wAtt[v]
      BY <1>0, <2>5 DEF EndRequest, TypeOK, InHandler
    <3> QED
      BY <1>0, <2>5, <3>1, HealthyQuietStep DEF EndRequest, jobVars
  <2>6. CASE WorkerStops(w) \/ ReplyRefused(w) \/ ReplySettled(w)
    BY <2>5, <2>6 DEF WorkerStops, ReplyRefused, ReplySettled
  <2>7. ASSUME NEW e \in Events, ClaimJob(w, e) PROVE HealthyInv'
    BY <1>0, <2>7, HealthyClaim
  <2>8. ASSUME NEW e \in Events, RefuseDelivery(w, e) PROVE HealthyInv'
    <3>1. \A v \in Workers :
             InHandler(v)' => InHandler(v) /\ wJob'[v] = wJob[v] /\ wAtt'[v] = wAtt[v]
      BY <1>0, <2>8 DEF RefuseDelivery, TypeOK, InHandler
    <3> QED
      BY <1>0, <2>8, <3>1, HealthyQuietStep DEF RefuseDelivery, jobVars
  <2> QED
    BY <1>3, <2>1, <2>2, <2>3, <2>4, <2>6, <2>7, <2>8 DEF WorkerStep
<1>4. ASSUME NEW e \in Events, EventDue(e) \/ OutboxLeaseLapses(e) PROVE HealthyInv'
  BY <1>0, <1>4, HealthyQuietStep DEF EventDue, OutboxLeaseLapses, InHandler, jobVars, workerVars
<1>5. CASE UNCHANGED vars
  BY <1>0, <1>5, HealthyQuietStep DEF vars, InHandler, jobVars, workerVars
<1> QED
  BY <1>1, <1>2, <1>3, <1>4, <1>5 DEF Next

LEMMA HealthyInit == Init => HealthyInv
  BY TypeInit DEF Init, HealthyInv, TypeInv, RequestsNameJobs, HolderCurrent, OneRunner,
     LockedIsCancellable, LedgerTrue, SuccessIsLast, NoneStalls, InHandler, Free, Api

\* However tasks are delivered again after crashes, 503s, deadlines and row
\* locks, a job is run twice at a time only after a lease lapsed under a live
\* request of it.
THEOREM OnlyOneRunner == Spec => []OneRunner
<1>1. HealthyInv => OneRunner
  BY DEF HealthyInv
<1> QED
  BY <1>1, HealthyInit, HealthyInvStep, PTL DEF Spec

\* The ledger of attempts and the job never disagree, and a success is that
\* of the last attempt.
THEOREM LedgerIsTrue ==
    ASSUME ~Stalls PROVE Spec => [](LedgerAgrees /\ SuccessIsOfLastAttempt)
<1>1. HealthyInv => LedgerAgrees /\ SuccessIsOfLastAttempt
  BY DEF HealthyInv, NoneStalls, LedgerTrue, SuccessIsLast, LedgerAgrees, SuccessIsOfLastAttempt
<1> QED
  BY <1>1, HealthyInit, HealthyInvStep, PTL DEF Spec

Settled(j) == status[j] \in {"succeeded", "cancelled"}

LEMMA TerminalStep ==
    ASSUME ~Stalls
    PROVE  HealthyInv /\ [Next]_vars => \A j \in Jobs : Settled(j) => status'[j] = status[j]
<1> SUFFICES ASSUME HealthyInv, [Next]_vars, NEW j \in Jobs, Settled(j)
             PROVE  status'[j] = status[j]
  OBVIOUS
<1>0. TypeOK
  BY DEF HealthyInv, TypeInv
<1>1. ASSUME NEW k \in Jobs, JobStep(k) PROVE status'[j] = status[j]
  BY <1>0, <1>1 DEF HealthyInv, LockedIsCancellable, Cancellable, Settled, TypeOK, JobStep, CreateJob,
     RetryJob, CancelJob, CancelLock, CancelCommit, CancelRollback, RequestCancel,
     EraseTranscription, LeaseLapses, jobVars
<1>2. ASSUME NEW d \in Dispatchers, DispatcherStep(d) PROVE status'[j] = status[j]
  BY <1>2 DEF DispatcherStep, ClaimOutbox, MarkLock, MarkPublished, DispatchAborts,
     CreateTask, jobVars
<1>3. ASSUME NEW w \in Workers, WorkerStep(w) PROVE status'[j] = status[j]
  <2>1. CASE FinishSucceeded(w) \/ FinishRefused(w) \/ FinishRetryWait(w) \/ FinishFailed(w)
    BY <1>0, <2>1 DEF FinishSucceeded, FinishRefused, FinishRetryWait, FinishFailed, Settle,
       Settled, TypeOK, jobVars
  <2>2. CASE FinishCancelled(w)
    <3>1. StillRuns(w, wJob[w])
      BY <2>2 DEF FinishCancelled, HealthyInv, NoneStalls, HolderCurrent, InHandler
    <3> QED
      BY <1>0, <2>2, <3>1 DEF FinishCancelled, StillRuns, Settled, TypeOK
  <2>3. ASSUME NEW e \in Events, ClaimJob(w, e) PROVE status'[j] = status[j]
    BY <1>0, <2>3 DEF ClaimJob, NextAttempt, Claimable, Available, DueRetry, Settled, TypeOK
  <2>4. ASSUME NEW e \in Events, RefuseDelivery(w, e) PROVE status'[j] = status[j]
    BY <2>4 DEF RefuseDelivery, jobVars
  <2>5. CASE \/ HandlerCancels(w) \/ Heartbeat(w) \/ WorkerStops(w)
             \/ DeadlineExceeded(w) \/ ReplyRefused(w) \/ ReplySettled(w)
    BY <2>5 DEF HandlerCancels, Heartbeat, WorkerStops, DeadlineExceeded, ReplyRefused,
       ReplySettled, EndRequest, jobVars
  <2> QED
    BY <1>3, <2>1, <2>2, <2>3, <2>4, <2>5 DEF WorkerStep, HandlerEnds
<1>4. ASSUME NEW e \in Events, EventDue(e) \/ OutboxLeaseLapses(e) PROVE status'[j] = status[j]
  BY <1>4 DEF EventDue, OutboxLeaseLapses, jobVars
<1>5. CASE UNCHANGED vars
  BY <1>5 DEF vars, jobVars
<1> QED
  BY <1>1, <1>2, <1>3, <1>4, <1>5 DEF Next

\* As long as no worker stalls, a succeeded or cancelled job is never moved:
\* the unconditional UPDATE of the JOB_CANCELLED branch is then harmless.
THEOREM TerminalJobsStay == ASSUME ~Stalls PROVE Spec => TerminalStays
<1>1. HealthyInv /\ [Next]_vars =>
         [\A j \in Jobs : status[j] \in {"succeeded", "cancelled"} => status'[j] = status[j]]_vars
  BY TerminalStep DEF Settled
<1> QED
  BY <1>1, HealthyInit, HealthyInvStep, PTL DEF Spec, TerminalStays

(***************************************************************************)
(* Wake-ups.  While a job is queued, one of its events is still to become  *)
(* a task, or a task of it is to be delivered or was refused and will come *)
(* back; while it runs, a task of it is to be delivered or is held by a    *)
(* request that will bring it back or end the run.                         *)
(***************************************************************************)
\* The event will become a task.
Due(e) == outbox[e] \in {"waiting", "pending", "leased"} /\ task[e] = "none"

HeldBy(e, states) == \E w \in Workers : wTask[w] = e /\ pc[w] \in states

WakesQueued(e) == Due(e) \/ task[e] = "queued" \/ HeldBy(e, {"refused"})

WakesRunning(e) == task[e] = "queued" \/ HeldBy(e, {"refused", "working", "cancelling"})

\* A task was made of a written event, and an event is marked published when
\* its task exists.
EventsWritten ==
    /\ \A d \in Dispatchers : \A e \in batch[d] : outbox[e] # "absent"
    /\ \A d \in Dispatchers : dCur[d] \in Events => task[dCur[d]] # "none"
    /\ \A e \in Events : outbox[e] = "absent" => task[e] = "none"

\* A task in flight is answered by one request, that of its job.
TasksHeld ==
    /\ \A w \in Workers : wTask[w] \in Events =>
          task[wTask[w]] = "inflight" /\ JobOf(wTask[w]) = wJob[w]
    /\ \A v, w \in Workers : wTask[v] \in Events /\ wTask[v] = wTask[w] => v = w

\* Each retry of a job writes an event that is not there yet.
RetriesFresh ==
    \A j \in Jobs :
        /\ status[j] = "absent" => outbox[EventOf(j, "run", 0)] = "absent"
        /\ \A n \in Numbers : outbox[EventOf(j, "retry", n)] # "absent" =>
              /\ n <= attempt[j]
              /\ n = attempt[j] => status[j] \in {"queued", "succeeded", "cancelled"}

Woken ==
    \A j \in Jobs :
        /\ status[j] = "queued" => \E e \in Events : JobOf(e) = j /\ WakesQueued(e)
        /\ status[j] = "running" => \E e \in Events : JobOf(e) = j /\ WakesRunning(e)

WakeInv == TypeInv /\ EventsWritten /\ TasksHeld /\ RetriesFresh /\ Woken

\* What wakes a job wakes it after the step too.
LEMMA WokenStays ==
    ASSUME Woken,
           \A j \in Jobs :
              /\ status'[j] = "queued" =>
                    \/ \E e \in Events : JobOf(e) = j /\ WakesQueued(e)'
                    \/ /\ status[j] = "queued"
                       /\ \A e \in Events : JobOf(e) = j /\ WakesQueued(e) => WakesQueued(e)'
              /\ status'[j] = "running" =>
                    \/ \E e \in Events : JobOf(e) = j /\ WakesRunning(e)'
                    \/ /\ status[j] = "running"
                       /\ \A e \in Events : JobOf(e) = j /\ WakesRunning(e) => WakesRunning(e)'
    PROVE  Woken'
  BY DEF Woken

LEMMA EventsDistinct ==
    \A j, k \in Jobs, m, n \in Numbers :
        /\ EventOf(j, "run", m) # EventOf(k, "retry", n)
        /\ EventOf(j, "retry", m) = EventOf(k, "retry", n) => j = k /\ m = n
        /\ EventOf(j, "run", m) = EventOf(k, "run", n) => j = k /\ m = n
        /\ JobOf(EventOf(j, "run", m)) = j /\ JobOf(EventOf(j, "retry", m)) = j
  BY DEF EventOf, JobOf

LEMMA NoEventIsNone == NoEvent \notin Events
  BY DEF Events, Numbers

LEMMA WakeJobStep ==
    ASSUME WakeInv, TypeInv', NEW j \in Jobs, JobStep(j) PROVE WakeInv'
<1>0. TypeOK /\ TypeOK' /\ 0 \in Numbers
  BY DEF WakeInv, TypeInv, Numbers
<1>1. UNCHANGED <<task, pc, wJob, wTask, batch, dCur, attempt>>
  BY DEF JobStep, CreateJob, RetryJob, CancelJob, CancelLock, CancelCommit,
     CancelRollback, EraseTranscription, LeaseLapses, jobVars, workerVars, dispVars
<1>2. TasksHeld'
  BY <1>1 DEF WakeInv, TasksHeld
<1>3. CASE CreateJob(j) \/ RetryJob(j)
  <2>0. /\ attempt[j] \in Numbers
        /\ EventOf(j, "run", 0) \in Events /\ EventOf(j, "retry", attempt[j]) \in Events
    BY <1>0, EventType DEF TypeOK
  <2>1. PICK e \in Events :
          /\ e = EventOf(j, "run", 0) \/ e = EventOf(j, "retry", attempt[j])
          /\ JobOf(e) = j
          /\ outbox[e] = "absent" /\ status[j] \in {"absent", "failed", "retry_wait"}
          /\ outbox' = [outbox EXCEPT ![e] = "pending"]
          /\ status' = [status EXCEPT ![j] = "queued"]
    <3>1. CASE CreateJob(j)
      <4>1. outbox[EventOf(j, "run", 0)] = "absent"
        BY <3>1 DEF CreateJob, WakeInv, RetriesFresh
      <4> QED
        BY <1>0, <2>0, <3>1, <4>1, EventsDistinct DEF CreateJob, Enqueue
    <3>2. CASE RetryJob(j)
      <4>1. outbox[EventOf(j, "retry", attempt[j])] = "absent"
        BY <2>0, <3>2 DEF RetryJob, WakeInv, RetriesFresh
      <4>2. /\ status[j] \in {"failed", "retry_wait"}
            /\ status' = [status EXCEPT ![j] = "queued"]
            /\ outbox' = [outbox EXCEPT ![EventOf(j, "retry", attempt[j])] = "pending"]
        BY <3>2, <4>1 DEF RetryJob, Enqueue
      <4>3. JobOf(EventOf(j, "retry", attempt[j])) = j
        BY <1>0, <2>0, EventsDistinct
      <4> HIDE DEF EventOf
      <4> USE <2>0
      <4> WITNESS EventOf(j, "retry", attempt[j]) \in Events
      <4> QED
        BY <4>1, <4>2, <4>3
    <3> QED
      BY <1>3, <3>1, <3>2
  <2>2. outbox[e] = "absent"
    BY <2>1
  <2>3. outbox' = [outbox EXCEPT ![e] = "pending"] /\ status' = [status EXCEPT ![j] = "queued"]
    BY <2>1
  <2>4. task[e] = "none"
    BY <2>1, <2>2 DEF WakeInv, EventsWritten
  <2>5. EventsWritten'
    BY <1>0, <1>1, <2>1, <2>3 DEF WakeInv, EventsWritten, TypeOK
  <2>6. RetriesFresh'
    <3>1. ASSUME NEW k \in Jobs, status'[k] = "absent"
          PROVE  outbox'[EventOf(k, "run", 0)] = "absent"
      <4>1. k # j /\ status[k] = "absent"
        BY <1>0, <2>3, <3>1 DEF TypeOK
      <4>2. e # EventOf(k, "run", 0)
        BY <1>0, <2>0, <2>1, <4>1, EventsDistinct
      <4> QED
        BY <1>0, <2>3, <4>1, <4>2, EventType DEF WakeInv, RetriesFresh, TypeOK
    <3>2. ASSUME NEW k \in Jobs, NEW n \in Numbers, outbox'[EventOf(k, "retry", n)] # "absent"
          PROVE  /\ n <= attempt'[k]
                 /\ n = attempt'[k] => status'[k] \in {"queued", "succeeded", "cancelled"}
      <4>1. CASE outbox[EventOf(k, "retry", n)] # "absent"
        BY <1>0, <1>1, <2>3, <4>1 DEF WakeInv, RetriesFresh, TypeOK
      <4>2. CASE outbox[EventOf(k, "retry", n)] = "absent"
        <5>1. e = EventOf(k, "retry", n)
          BY <1>0, <2>1, <2>3, <3>2, <4>2, EventType DEF TypeOK
        <5>2. k = j /\ n = attempt[j]
          BY <1>0, <2>0, <2>1, <5>1, EventsDistinct
        <5> QED
          BY <1>0, <1>1, <2>0, <2>3, <5>2 DEF TypeOK, Numbers
      <4> QED
        BY <4>1, <4>2
    <3> QED
      BY <3>1, <3>2 DEF RetriesFresh
  <2>7. Woken'
    <3>1. WakesQueued(e)'
      BY <1>0, <1>1, <2>1, <2>3, <2>4 DEF WakesQueued, Due, TypeOK
    <3>2. \A f \in Events : WakesQueued(f) => WakesQueued(f)'
      BY <1>0, <1>1, <2>1, <2>3 DEF WakesQueued, Due, HeldBy, TypeOK
    <3>3. \A f \in Events : WakesRunning(f) => WakesRunning(f)'
      BY <1>1 DEF WakesRunning, HeldBy
    <3>4. \A k \in Jobs : k # j => status'[k] = status[k]
      BY <1>0, <2>3 DEF TypeOK
    <3>5. status'[j] = "queued"
      BY <1>0, <2>3 DEF TypeOK
    <3> QED
      BY <2>1, <3>1, <3>2, <3>3, <3>4, <3>5, WokenStays DEF WakeInv
  <2> QED
    BY <1>2, <2>5, <2>6, <2>7 DEF WakeInv
<1>4. CASE ~(CreateJob(j) \/ RetryJob(j))
  <2>1. outbox' = outbox
    BY <1>4 DEF JobStep, CancelJob, CancelLock, CancelCommit,
       CancelRollback, EraseTranscription, LeaseLapses, jobVars
  <2>2. \A k \in Jobs : status'[k] = status[k] \/ status'[k] = "cancelled"
    BY <1>0, <1>4 DEF JobStep, CancelJob, CancelLock, CancelCommit, RequestCancel,
       CancelRollback, EraseTranscription, LeaseLapses, jobVars, TypeOK
  <2>3. EventsWritten'
    BY <1>1, <2>1 DEF WakeInv, EventsWritten
  <2>4. RetriesFresh'
    BY <1>1, <2>1, <2>2 DEF WakeInv, RetriesFresh
  <2>5. Woken'
    BY <1>1, <2>1, <2>2 DEF WakeInv, Woken, WakesQueued, WakesRunning, Due, HeldBy
  <2> QED
    BY <1>2, <2>3, <2>4, <2>5 DEF WakeInv
<1> QED
  BY <1>3, <1>4

\* A dispatcher writes no event and takes no wake-up away.
Dispatched ==
    \A e \in Events :
        /\ outbox'[e] = "absent" <=> outbox[e] = "absent"
        /\ task'[e] = task[e] \/ (task[e] = "none" /\ task'[e] = "queued")
        /\ Due(e) => Due(e)' \/ task'[e] = "queued"

LEMMA WakeDispatcherStep ==
    ASSUME WakeInv, TypeInv', NEW d \in Dispatchers, DispatcherStep(d) PROVE WakeInv'
<1>0. TypeOK /\ TypeOK' /\ 0 \in Numbers
  BY DEF WakeInv, TypeInv, Numbers
<1>1. UNCHANGED <<status, attempt, pc, wJob, wTask>>
  BY DEF DispatcherStep, ClaimOutbox, MarkLock, MarkPublished, DispatchAborts,
     CreateTask, jobVars, workerVars
<1>2. ASSUME EventsWritten', Dispatched PROVE WakeInv'
  <2>1. TasksHeld'
    BY <1>1, <1>2 DEF WakeInv, TasksHeld, Dispatched
  <2>2. RetriesFresh'
    <3>1. \A j \in Jobs, n \in Numbers :
            EventOf(j, "run", 0) \in Events /\ EventOf(j, "retry", n) \in Events
      BY <1>0, EventType
    <3>2. \A j \in Jobs, n \in Numbers :
            /\ outbox'[EventOf(j, "run", 0)] = "absent" <=> outbox[EventOf(j, "run", 0)] = "absent"
            /\ outbox'[EventOf(j, "retry", n)] = "absent" <=> outbox[EventOf(j, "retry", n)] = "absent"
      BY <1>2, <3>1 DEF Dispatched
    <3> QED
      BY <1>0, <1>1, <3>2 DEF WakeInv, RetriesFresh
  <2>3. \A e \in Events : /\ WakesQueued(e) => WakesQueued(e)'
                          /\ WakesRunning(e) => WakesRunning(e)'
    BY <1>1, <1>2 DEF WakesQueued, WakesRunning, HeldBy, Dispatched
  <2>4. Woken'
    BY <1>1, <2>3, WokenStays DEF WakeInv
  <2> QED
    BY <1>2, <2>1, <2>2, <2>4 DEF WakeInv
<1>3. CASE ClaimOutbox(d)
  <2>1. /\ task' = task /\ dCur' = dCur
        /\ \A e \in Events : outbox'[e] = IF outbox[e] = "pending" THEN "leased" ELSE outbox[e]
        /\ batch' = [batch EXCEPT ![d] = {e \in Events : outbox[e] = "pending"}]
    BY <1>3 DEF ClaimOutbox
  <2>2. EventsWritten'
    BY <1>0, <2>1 DEF WakeInv, EventsWritten, TypeOK
  <2>3. Dispatched
    BY <2>1 DEF Dispatched, Due
  <2> QED
    BY <1>2, <2>2, <2>3
<1>4. ASSUME NEW f \in Events, CreateTask(d, f) PROVE WakeInv'
  <2>1. /\ UNCHANGED <<outbox, batch>> /\ outbox[f] # "absent"
        /\ dCur' = [dCur EXCEPT ![d] = f]
        /\ \A e \in Events : task'[e] = IF e = f /\ task[e] = "none" THEN "queued" ELSE task[e]
    BY <1>0, <1>4 DEF CreateTask, WakeInv, EventsWritten, TypeOK
  <2>2. EventsWritten'
    BY <1>0, <2>1 DEF WakeInv, EventsWritten, TypeOK
  <2>3. Dispatched
    BY <2>1 DEF Dispatched, Due
  <2> QED
    BY <1>2, <2>2, <2>3
<1>5. CASE MarkLock(d)
  <2>1. UNCHANGED <<outbox, task, batch, dCur>>
    BY <1>5 DEF MarkLock, dispVars
  <2>2. EventsWritten' /\ Dispatched
    BY <2>1 DEF WakeInv, EventsWritten, Due, Dispatched
  <2> QED
    BY <1>2, <2>2
<1>6. CASE MarkPublished(d)
  <2>1. task[dCur[d]] # "none" /\ dCur[d] \in Events
    BY <1>6 DEF MarkPublished, WakeInv, EventsWritten
  <2>2. outbox' = [outbox EXCEPT ![dCur[d]] = "published"] /\ task' = task
    BY <1>6 DEF MarkPublished
  <2>3. outbox[dCur[d]] # "absent"
    BY <2>1 DEF WakeInv, EventsWritten
  <2>4. /\ batch' = [batch EXCEPT ![d] = @ \ {dCur[d]}]
        /\ dCur' = [dCur EXCEPT ![d] = NoEvent]
    BY <1>6 DEF MarkPublished
  <2>5. EventsWritten'
    BY <1>0, <2>1, <2>2, <2>4, NoEventIsNone DEF WakeInv, EventsWritten, TypeOK
  <2>6. Dispatched
    BY <1>0, <2>1, <2>2, <2>3 DEF Dispatched, Due, TypeOK
  <2> QED
    BY <1>2, <2>5, <2>6
<1>7. CASE DispatchAborts(d)
  <2>1. EventsWritten'
    BY <1>0, <1>7, NoEventIsNone DEF DispatchAborts, WakeInv, EventsWritten, TypeOK
  <2>2. UNCHANGED <<outbox, task>>
    BY <1>7 DEF DispatchAborts
  <2>3. Dispatched
    BY <2>2 DEF Dispatched, Due
  <2> QED
    BY <1>2, <2>1, <2>3
<1> QED
  BY <1>3, <1>4, <1>5, <1>6, <1>7 DEF DispatcherStep
\* A request in its handler ends, or turns to JOB_CANCELLED.
LEMMA WakeHandlerStep ==
    ASSUME WakeInv, TypeInv', NEW w \in Workers, HandlerEnds(w) \/ HandlerCancels(w)
    PROVE  WakeInv'
<1> DEFINE j == wJob[w]
<1>0. TypeOK /\ TypeOK' /\ j \in Jobs /\ pc[w] \in {"working", "cancelling"} /\ 0 \in Numbers
  BY DEF WakeInv, TypeInv, RequestsNameJobs, HandlerEnds, HandlerCancels, FinishSucceeded,
     FinishRefused, FinishRetryWait, FinishFailed, FinishCancelled, Numbers
<1>1. UNCHANGED <<task, wJob, wTask, batch, dCur, attempt>>
  BY DEF HandlerEnds, HandlerCancels, FinishSucceeded, FinishRefused, FinishRetryWait,
     FinishFailed, FinishCancelled, jobVars, dispVars
<1>2. /\ \A v \in Workers : v # w => pc'[v] = pc[v]
      /\ \A k \in Jobs : k # j => status'[k] = status[k]
      /\ status'[j] = status[j] \/ status[j] = "running" \/ status'[j] = "cancelled"
      /\ pc'[w] = "cancelling" \/ status'[j] # "running"
      /\ status'[j] # "queued" \/ status[j] = "queued"
      /\ status'[j] # "absent" \/ status[j] = "absent"
  BY <1>0 DEF HandlerEnds, HandlerCancels, FinishSucceeded, FinishRefused, FinishRetryWait,
     FinishFailed, FinishCancelled, Settle, jobVars, TypeOK
<1>3. \/ outbox' = outbox
      \/ /\ status[j] = "running"
         /\ Enqueue(EventOf(j, "run", wAtt[w]), "waiting")
  BY DEF HandlerEnds, HandlerCancels, FinishSucceeded, FinishRefused, FinishRetryWait,
     FinishFailed, FinishCancelled
<1>4. EventOf(j, "run", wAtt[w]) \in Events /\ wAtt[w] \in Numbers
  BY <1>0, EventType DEF TypeOK
<1>5. /\ \A e \in Events : outbox'[e] = outbox[e] \/ outbox[e] = "absent"
      /\ \A e \in Events : outbox[e] # "absent" => outbox'[e] = outbox[e]
      /\ \A k \in Jobs, n \in Numbers :
            outbox'[EventOf(k, "retry", n)] = outbox[EventOf(k, "retry", n)]
      /\ \A k \in Jobs : status[k] = "absent" =>
            outbox'[EventOf(k, "run", 0)] = outbox[EventOf(k, "run", 0)]
  <2>1. CASE outbox' = outbox
    BY <2>1
  <2>2. CASE outbox' # outbox
    <3>1. status[j] = "running" /\ outbox' = [outbox EXCEPT ![EventOf(j, "run", wAtt[w])] =
              IF outbox[EventOf(j, "run", wAtt[w])] = "absent"
              THEN "waiting" ELSE outbox[EventOf(j, "run", wAtt[w])]]
      BY <1>3, <2>2 DEF Enqueue
    <3>2. \A k \in Jobs, n \in Numbers :
            /\ EventOf(k, "retry", n) \in Events /\ EventOf(k, "run", n) \in Events
            /\ EventOf(k, "retry", n) # EventOf(j, "run", wAtt[w])
            /\ status[k] = "absent" => EventOf(k, "run", n) # EventOf(j, "run", wAtt[w])
      BY <1>0, <1>4, <3>1, EventType, EventsDistinct
    <3> HIDE DEF EventOf
    <3> QED
      BY <1>0, <1>4, <3>1, <3>2 DEF TypeOK
  <2> QED
    BY <2>1, <2>2
<1>6. EventsWritten'
  BY <1>0, <1>1, <1>5 DEF WakeInv, EventsWritten, TypeOK
<1>7. TasksHeld'
  BY <1>1 DEF WakeInv, TasksHeld
<1>8. RetriesFresh'
  BY <1>0, <1>1, <1>2, <1>5 DEF WakeInv, RetriesFresh
<1>9. \A e \in Events : WakesQueued(e) => WakesQueued(e)'
  <2>1. \A e \in Events : Due(e) => Due(e)'
    BY <1>1, <1>5 DEF Due
  <2>2. \A e : HeldBy(e, {"refused"}) => HeldBy(e, {"refused"})'
    BY <1>0, <1>1, <1>2 DEF HeldBy
  <2> QED
    BY <1>1, <2>1, <2>2 DEF WakesQueued
<1>10. ASSUME NEW e \in Events, WakesRunning(e), JobOf(e) # j \/ pc'[w] = "cancelling"
       PROVE  WakesRunning(e)'
  <2>1. CASE task[e] = "queued"
    BY <1>1, <2>1 DEF WakesRunning
  <2>2. ASSUME NEW v \in Workers, wTask[v] = e, pc[v] \in {"refused", "working", "cancelling"}
        PROVE  WakesRunning(e)'
    <3>1. JobOf(e) = wJob[v]
      BY <2>2 DEF WakeInv, TasksHeld
    <3>2. pc'[v] \in {"refused", "working", "cancelling"}
      BY <1>2, <1>10, <2>2, <3>1
    <3> QED
      BY <1>1, <2>2, <3>2 DEF WakesRunning, HeldBy
  <2> QED
    BY <1>10, <2>1, <2>2 DEF WakesRunning, HeldBy
<1>11. Woken'
  BY <1>0, <1>2, <1>9, <1>10, WokenStays DEF WakeInv
<1> QED
  BY <1>6, <1>7, <1>8, <1>11 DEF WakeInv

\* A request ends: its task comes back unless the job needs no wake-up of it.
LEMMA WakeEndRequest ==
    ASSUME WakeInv, TypeInv', NEW w \in Workers, NEW t \in {"queued", "done"}, EndRequest(w, t),
           t = "done" => \/ pc[w] = "settled"
                         \/ pc[w] = "refused" /\ status[wJob[w]] \notin {"queued", "running"}
    PROVE  WakeInv'
<1>0. TypeOK /\ TypeOK'
  BY DEF WakeInv, TypeInv
<1>1. UNCHANGED <<status, attempt, outbox, batch, dCur>>
  BY DEF EndRequest, jobVars, dispVars
<1>2. /\ wTask'[w] = NoEvent /\ pc'[w] = "idle"
      /\ \A v \in Workers \ {w} : wTask'[v] = wTask[v] /\ wJob'[v] = wJob[v] /\ pc'[v] = pc[v]
  BY <1>0 DEF EndRequest, TypeOK
<1>3. \A e \in Events : /\ e # wTask[w] => task'[e] = task[e]
                        /\ e = wTask[w] => task[e] = "inflight" /\ task'[e] = t
  BY <1>0, NoEventIsNone DEF EndRequest, TypeOK, WakeInv, TasksHeld
<1>4. EventsWritten'
  BY <1>0, <1>1, <1>3 DEF WakeInv, EventsWritten, TypeOK
<1>5. TasksHeld'
  <2>1. \A v \in Workers : wTask'[v] \in Events => v # w /\ wTask[v] # wTask[w]
    BY <1>2, NoEventIsNone DEF WakeInv, TasksHeld
  <2> QED
    BY <1>2, <1>3, <2>1 DEF WakeInv, TasksHeld
<1>6. RetriesFresh'
  BY <1>1 DEF WakeInv, RetriesFresh
<1>7. ASSUME NEW e \in Events, e # wTask[w]
      PROVE  /\ WakesQueued(e) => WakesQueued(e)'
             /\ WakesRunning(e) => WakesRunning(e)'
  BY <1>1, <1>2, <1>3, <1>7 DEF WakesQueued, WakesRunning, HeldBy, Due
<1>8. ASSUME NEW e \in Events, e = wTask[w], status[JobOf(e)] \in {"queued", "running"}
      PROVE  /\ WakesQueued(e) => WakesQueued(e)'
             /\ WakesRunning(e) => WakesRunning(e)'
  <2>1. CASE t = "queued"
    BY <1>3, <1>8, <2>1 DEF WakesQueued, WakesRunning
  <2>2. CASE t = "done"
    <3>1. JobOf(e) = wJob[w] /\ pc[w] = "settled"
      BY <1>8, <2>2 DEF WakeInv, TasksHeld
    <3>2. \A v \in Workers : wTask[v] = e => v = w
      BY <1>8 DEF WakeInv, TasksHeld
    <3>3. task[e] = "inflight"
      BY <1>3, <1>8
    <3> QED
      BY <3>1, <3>2, <3>3 DEF WakesQueued, WakesRunning, HeldBy, Due
  <2> QED
    BY <2>1, <2>2
<1>9. Woken'
  BY <1>1, <1>7, <1>8, WokenStays DEF WakeInv
<1> QED
  BY <1>4, <1>5, <1>6, <1>9 DEF WakeInv

\* A delivery: the task is in flight, held by the request that answers it.
LEMMA WakeDelivery ==
    ASSUME WakeInv, TypeInv', NEW w \in Workers, NEW e \in Events,
           ClaimJob(w, e) \/ RefuseDelivery(w, e)
    PROVE  WakeInv'
<1> DEFINE j == JobOf(e)
<1>0. TypeOK /\ TypeOK' /\ j \in Jobs /\ attempt[j] \in Nat
  BY JobOfType DEF WakeInv, TypeInv, TypeOK, Numbers
<1>1. UNCHANGED <<outbox, batch, dCur>>
  BY DEF ClaimJob, RefuseDelivery, dispVars
<1>2. /\ task[e] = "queued" /\ task' = [task EXCEPT ![e] = "inflight"]
      /\ wTask' = [wTask EXCEPT ![w] = e] /\ wJob' = [wJob EXCEPT ![w] = j]
  BY DEF ClaimJob, RefuseDelivery
<1>3. /\ \A v \in Workers \ {w} : pc'[v] = pc[v]
      /\ pc[w] = "idle"
      /\ \/ pc'[w] = "refused" /\ UNCHANGED <<status, attempt>>
         \/ /\ pc'[w] = "working" /\ status'[j] = "running" /\ attempt'[j] = attempt[j] + 1
            /\ \A k \in Jobs \ {j} : status'[k] = status[k] /\ attempt'[k] = attempt[k]
            /\ status[j] \in {"queued", "retry_wait", "running"}
  BY <1>0 DEF ClaimJob, RefuseDelivery, NextAttempt, Claimable, Available, DueRetry, jobVars, TypeOK
<1>4. EventsWritten'
  BY <1>0, <1>1, <1>2 DEF WakeInv, EventsWritten, TypeOK
<1>5. TasksHeld'
  <2>1. \A v \in Workers : v # w => wTask'[v] = wTask[v] /\ wJob'[v] = wJob[v]
    BY <1>0, <1>2 DEF TypeOK
  <2>2. \A v \in Workers : wTask[v] # e
    BY <1>2 DEF WakeInv, TasksHeld
  <2>3. wTask'[w] = e /\ wJob'[w] = j /\ task'[e] = "inflight"
    BY <1>0, <1>2 DEF TypeOK
  <2>4. \A f \in Events : f # e => task'[f] = task[f]
    BY <1>0, <1>2 DEF TypeOK
  <2> QED
    BY <2>1, <2>2, <2>3, <2>4 DEF WakeInv, TasksHeld
<1>6. RetriesFresh'
  <2>1. CASE UNCHANGED <<status, attempt>>
    BY <1>1, <2>1 DEF WakeInv, RetriesFresh
  <2>2. CASE ~UNCHANGED <<status, attempt>>
    <3>1. /\ status'[j] = "running" /\ attempt'[j] = attempt[j] + 1
          /\ \A k \in Jobs \ {j} : status'[k] = status[k] /\ attempt'[k] = attempt[k]
      BY <1>3, <2>2
    <3>2. \A n \in Numbers : n <= attempt[j] => n <= attempt[j] + 1 /\ n # attempt[j] + 1
      BY <1>0 DEF Numbers
    <3> HIDE DEF j, EventOf
    <3> QED
      BY <1>1, <3>1, <3>2 DEF WakeInv, RetriesFresh
  <2> QED
    BY <2>1, <2>2
<1>7. \A v \in Workers : pc[v] \in {"refused", "working", "cancelling"} =>
          v # w /\ wTask'[v] = wTask[v] /\ pc'[v] = pc[v]
  BY <1>0, <1>2, <1>3 DEF TypeOK
<1>8. wTask'[w] = e /\ task'[e] = "inflight" /\ \A f \in Events : f # e => task'[f] = task[f]
  BY <1>0, <1>2 DEF TypeOK
<1>9. \A f \in Events : f # e => /\ WakesQueued(f) => WakesQueued(f)'
                                 /\ WakesRunning(f) => WakesRunning(f)'
  BY <1>1, <1>7, <1>8 DEF WakesQueued, WakesRunning, Due, HeldBy
<1>10. WakesRunning(e)'
  BY <1>3, <1>8 DEF WakesRunning, HeldBy
<1>11. pc'[w] = "refused" => WakesQueued(e)'
  BY <1>8 DEF WakesQueued, HeldBy
<1>12. \A k \in Jobs : status'[k] = "queued" => status[k] = "queued" /\ (k = j => pc'[w] = "refused")
  BY <1>3
<1>13. \A k \in Jobs : status'[k] = "running" => k = j \/ status[k] = "running"
  BY <1>3
<1>14. Woken'
  BY <1>9, <1>10, <1>11, <1>12, <1>13, WokenStays DEF WakeInv
<1> QED
  BY <1>4, <1>5, <1>6, <1>14 DEF WakeInv
LEMMA WakeInvStep == WakeInv /\ [Next]_vars => WakeInv'
<1> SUFFICES ASSUME WakeInv, [Next]_vars PROVE WakeInv'
  OBVIOUS
<1>0. TypeInv' /\ TypeOK
  BY TypeInvStep DEF WakeInv, TypeInv
<1>1. ASSUME NEW w \in Workers, WorkerStep(w) PROVE WakeInv'
  <2>1. CASE HandlerEnds(w) \/ HandlerCancels(w)
    BY <1>0, <2>1, WakeHandlerStep
  <2>2. CASE Heartbeat(w)
    BY <1>0, <2>2 DEF Heartbeat, WakeInv, EventsWritten, TasksHeld, RetriesFresh, Woken,
       WakesQueued, WakesRunning, Due, HeldBy, workerVars, dispVars
  <2>3. CASE WorkerStops(w) \/ ReplyRefused(w) \/ ReplySettled(w)
    BY <1>0, <2>3, WakeEndRequest DEF WorkerStops, ReplyRefused, ReplySettled
  <2>4. CASE DeadlineExceeded(w)
    <3>1. /\ UNCHANGED <<status, attempt, outbox, batch, dCur, pc, wJob>>
          /\ wTask[w] \in Events
          /\ task' = [task EXCEPT ![wTask[w]] = "queued"]
          /\ wTask' = [wTask EXCEPT ![w] = NoEvent]
      BY <2>4 DEF DeadlineExceeded, jobVars, dispVars
    <3>2. task[wTask[w]] = "inflight" /\ \A v \in Workers : wTask[v] = wTask[w] => v = w
      BY <3>1 DEF WakeInv, TasksHeld
    <3>3. /\ task'[wTask[w]] = "queued"
          /\ \A e \in Events : e # wTask[w] => task'[e] = task[e]
          /\ wTask'[w] = NoEvent
          /\ \A v \in Workers : v # w => wTask'[v] = wTask[v]
      BY <1>0, <3>1 DEF TypeOK
    <3>4. EventsWritten'
      BY <1>0, <3>1, <3>2, <3>3 DEF WakeInv, EventsWritten, TypeOK
    <3>5. TasksHeld'
      BY <3>1, <3>2, <3>3, NoEventIsNone DEF WakeInv, TasksHeld
    <3>6. RetriesFresh'
      BY <3>1 DEF WakeInv, RetriesFresh
    <3>7. \A e \in Events : WakesQueued(e) => WakesQueued(e)'
      BY <3>1, <3>2, <3>3 DEF WakesQueued, Due, HeldBy
    <3>8. \A e \in Events : WakesRunning(e) => WakesRunning(e)'
      BY <3>1, <3>2, <3>3 DEF WakesRunning, HeldBy
    <3>9. Woken'
      BY <3>1, <3>7, <3>8, WokenStays DEF WakeInv
    <3> QED
      BY <1>0, <3>4, <3>5, <3>6, <3>9 DEF WakeInv
  <2>5. ASSUME NEW e \in Events, ClaimJob(w, e) \/ RefuseDelivery(w, e) PROVE WakeInv'
    BY <1>0, <2>5, WakeDelivery
  <2> QED
    BY <1>1, <2>1, <2>2, <2>3, <2>4, <2>5 DEF WorkerStep
<1>2. ASSUME NEW f \in Events, EventDue(f) \/ OutboxLeaseLapses(f) PROVE WakeInv'
  <2>1. /\ UNCHANGED <<status, attempt, task, batch, dCur, pc, wJob, wTask>>
        /\ outbox[f] \in {"waiting", "leased"} /\ outbox' = [outbox EXCEPT ![f] = "pending"]
    BY <1>2 DEF EventDue, OutboxLeaseLapses, jobVars, workerVars, dispVars
  <2>2. \A e \in Events : outbox'[e] = IF e = f THEN "pending" ELSE outbox[e]
    BY <1>0, <2>1 DEF TypeOK
  <2>3. EventsWritten'
    BY <1>0, <2>1, <2>2 DEF WakeInv, EventsWritten, TypeOK
  <2>4. TasksHeld'
    BY <2>1 DEF WakeInv, TasksHeld
  <2>5. RetriesFresh'
    <3>1. \A j \in Jobs, n \in Numbers :
            EventOf(j, "run", 0) \in Events /\ EventOf(j, "retry", n) \in Events
      BY EventType, 0 \in Numbers DEF Numbers
    <3> QED
      BY <2>1, <2>2, <3>1, 0 \in Numbers DEF WakeInv, RetriesFresh, Numbers
  <2>6. \A e \in Events : /\ WakesQueued(e) => WakesQueued(e)'
                          /\ WakesRunning(e) => WakesRunning(e)'
    BY <2>1, <2>2 DEF WakesQueued, WakesRunning, Due, HeldBy
  <2>7. Woken'
    BY <2>1, <2>6, WokenStays DEF WakeInv
  <2> QED
    BY <1>0, <2>3, <2>4, <2>5, <2>7 DEF WakeInv
<1>3. CASE UNCHANGED vars
  BY <1>0, <1>3 DEF vars, WakeInv, EventsWritten, TasksHeld, RetriesFresh, Woken,
     WakesQueued, WakesRunning, Due, HeldBy, jobVars, workerVars, dispVars
<1> QED
  BY <1>0, <1>1, <1>2, <1>3, WakeJobStep, WakeDispatcherStep DEF Next

LEMMA WakeInit == Init => WakeInv
<1> SUFFICES ASSUME Init PROVE WakeInv
  OBVIOUS
<1>1. TypeInv
  BY TypeInit DEF Init, TypeInv, RequestsNameJobs
<1>2. EventsWritten /\ TasksHeld
  BY NoEventIsNone DEF Init, EventsWritten, TasksHeld
<1>3. RetriesFresh /\ Woken
  BY EventType, 0 \in Numbers DEF Init, RetriesFresh, Woken, Numbers
<1> QED
  BY <1>1, <1>2, <1>3 DEF WakeInv

\* A queued or running job always has something that will wake it, whatever
\* crashes, stalls, foreign locks, retries and duplicate deliveries there are.
THEOREM JobsAreNotStranded == Spec => []NeverStranded
<1>1. WakeInv => NeverStranded
  <2> SUFFICES ASSUME WakeInv, NEW j \in Jobs, status[j] \in {"queued", "running"}
               PROVE  HasWakeup(j)
    BY DEF NeverStranded
  <2>1. PICK e \in Events : JobOf(e) = j /\ (WakesQueued(e) \/ WakesRunning(e))
    BY DEF WakeInv, Woken
  <2>2. Due(e) \/ task[e] \in {"queued", "inflight"}
    BY <2>1 DEF WakeInv, TasksHeld, WakesQueued, WakesRunning, HeldBy
  <2> QED
    BY <2>1, <2>2 DEF HasWakeup, Due
<1> QED
  BY <1>1, WakeInit, WakeInvStep, PTL DEF Spec

(***************************************************************************)
(* Retries.  The event of a retry is written by the only request that runs *)
(* the attempt, so it is new; it becomes a task when it is due; and the    *)
(* delivery of that task claims the job, unless another transaction holds  *)
(* the row.                                                                *)
(***************************************************************************)
RunEvent(j, n) == EventOf(j, "run", n)

\* What is not due yet is in no batch and has no task.
NotYetDue ==
    /\ \A d \in Dispatchers : \A e \in batch[d] : outbox[e] # "waiting"
    /\ \A e \in Events : task[e] # "none" => outbox[e] # "waiting"

\* An attempt's retry is not written before the attempt has ended.
RunsFresh ==
    /\ \A j \in Jobs, n \in Numbers : outbox[RunEvent(j, n)] # "absent" => n <= attempt[j]
    /\ \A w \in Workers : InHandler(w) =>
          wAtt[w] > 0 /\ outbox[RunEvent(wJob[w], wAtt[w])] = "absent"

WakesRetry(e) == Due(e) \/ task[e] = "queued"

Waits(j) == status[j] = "retry_wait" /\ ~cancelReq[j] /\ j \notin overlooked

RetryWoken == \A j \in Jobs : Waits(j) => WakesRetry(RunEvent(j, waits[j]))

RetryInv == WakeInv /\ AttemptInv /\ NotYetDue /\ RunsFresh /\ RetryWoken

LEMMA RunEventType ==
    /\ \A j \in Jobs, n \in Numbers : RunEvent(j, n) \in Events /\ JobOf(RunEvent(j, n)) = j
    /\ \A j, k \in Jobs, m, n \in Numbers :
          /\ RunEvent(j, m) = RunEvent(k, n) => j = k /\ m = n
          /\ RunEvent(j, m) # EventOf(k, "retry", n)
  BY EventType, EventsDistinct DEF RunEvent

\* Whoever waited before goes on waiting for the same event.
LEMMA RetryWokenStays ==
    ASSUME RetryWoken,
           \A j \in Jobs : Waits(j)' => Waits(j) /\ waits'[j] = waits[j],
           \A e \in Events : WakesRetry(e) => WakesRetry(e)',
           TypeOK
    PROVE  RetryWoken'
  BY RunEventType DEF RetryWoken, TypeOK

LEMMA RetryJobStep ==
    ASSUME RetryInv, NEW j \in Jobs, JobStep(j) PROVE (NotYetDue /\ RunsFresh /\ RetryWoken)'
<1>0. TypeOK /\ EventsWritten /\ 0 \in Numbers
  BY DEF RetryInv, WakeInv, TypeInv, Numbers
<1>1. UNCHANGED <<task, batch, attempt, pc, wJob, wAtt>>
  BY DEF JobStep, CreateJob, RetryJob, CancelJob, CancelLock, CancelCommit,
     CancelRollback, EraseTranscription, LeaseLapses, jobVars, workerVars, dispVars
<1>2. \/ outbox' = outbox
      \/ Enqueue(RunEvent(j, 0), "pending") \/ Enqueue(EventOf(j, "retry", attempt[j]), "pending")
  BY DEF JobStep, CreateJob, RetryJob, CancelJob, CancelLock, CancelCommit,
     CancelRollback, EraseTranscription, LeaseLapses, jobVars, RunEvent
<1>3. \A k \in Jobs : Waits(k)' => Waits(k) /\ waits'[k] = waits[k]
  BY <1>0 DEF JobStep, CreateJob, RetryJob, CancelJob, CancelLock, CancelCommit, RequestCancel,
     CancelRollback, EraseTranscription, LeaseLapses, jobVars, Waits, TypeOK
<1>4. attempt[j] \in Numbers /\ RunEvent(j, 0) \in Events /\ EventOf(j, "retry", attempt[j]) \in Events
  BY <1>0, RunEventType, EventType DEF TypeOK
<1>5. \A e \in Events :
          \/ outbox'[e] = outbox[e]
          \/ /\ outbox[e] = "absent" /\ outbox'[e] = "pending"
             /\ e = RunEvent(j, 0) \/ e = EventOf(j, "retry", attempt[j])
  BY <1>0, <1>2, <1>4 DEF Enqueue, TypeOK
<1>6. NotYetDue'
  BY <1>0, <1>1, <1>5 DEF RetryInv, NotYetDue, TypeOK
<1>7. \A k \in Jobs, n \in Numbers : outbox'[RunEvent(k, n)] = outbox[RunEvent(k, n)] \/ n = 0
  BY <1>0, <1>4, <1>5, RunEventType
<1>8. RunsFresh'
  <2>1. ASSUME NEW k \in Jobs, NEW n \in Numbers, outbox'[RunEvent(k, n)] # "absent"
        PROVE  n <= attempt'[k]
    <3>1. CASE n = 0
      BY <1>0, <1>1, <3>1 DEF TypeOK, Numbers
    <3>2. CASE n # 0
      BY <1>1, <1>7, <2>1, <3>2 DEF RetryInv, RunsFresh
    <3> QED
      BY <3>1, <3>2
  <2>2. \A w \in Workers : InHandler(w) => wJob[w] \in Jobs /\ wAtt[w] \in Numbers
    BY <1>0 DEF RetryInv, WakeInv, TypeInv, RequestsNameJobs, TypeOK, InHandler
  <2>3. \A w \in Workers : InHandler(w) =>
            wAtt[w] > 0 /\ outbox'[RunEvent(wJob[w], wAtt[w])] = "absent"
    BY <1>7, <2>2 DEF RetryInv, RunsFresh, Numbers
  <2> QED
    BY <1>1, <2>1, <2>3 DEF RunsFresh, InHandler
<1>9. \A e \in Events : WakesRetry(e) => WakesRetry(e)'
  BY <1>1, <1>5 DEF WakesRetry, Due
<1> QED
  BY <1>0, <1>3, <1>6, <1>8, <1>9, RetryWokenStays DEF RetryInv

LEMMA RetryDispatcherStep ==
    ASSUME RetryInv, NEW d \in Dispatchers, DispatcherStep(d)
    PROVE  (NotYetDue /\ RunsFresh /\ RetryWoken)'
<1>0. TypeOK /\ EventsWritten
  BY DEF RetryInv, WakeInv, TypeInv
<1>1. UNCHANGED <<jobVars, pc, wJob, wAtt>>
  BY DEF DispatcherStep, ClaimOutbox, MarkLock, MarkPublished, DispatchAborts,
     CreateTask, jobVars, workerVars
<1>2. /\ \A e \in Events : outbox'[e] = "absent" <=> outbox[e] = "absent"
      /\ \A e \in Events : outbox'[e] = "waiting" => outbox[e] = "waiting"
      /\ \A e \in Events : task'[e] # task[e] =>
            task[e] = "none" /\ task'[e] = "queued" /\ e \in batch[d] /\ outbox' = outbox
      /\ \A e \in Events : WakesRetry(e) => WakesRetry(e)'
      /\ \A c \in Dispatchers : batch'[c] \subseteq batch[c] \/ batch'[c] = {e \in Events : outbox'[e] = "leased"}
                                \/ \A e \in batch'[c] : outbox'[e] # "waiting"
  <2>1. CASE ClaimOutbox(d)
    BY <1>0, <2>1 DEF ClaimOutbox, WakesRetry, Due, TypeOK
  <2>2. CASE MarkLock(d) \/ DispatchAborts(d)
    BY <1>0, <2>2 DEF MarkLock, DispatchAborts, WakesRetry, Due, dispVars, TypeOK
  <2>3. CASE MarkPublished(d)
    <3>1. dCur[d] \in Events /\ task[dCur[d]] # "none" /\ outbox[dCur[d]] # "absent"
      BY <2>3 DEF MarkPublished, RetryInv, WakeInv, EventsWritten
    <3> QED
      BY <1>0, <2>3, <3>1 DEF MarkPublished, WakesRetry, Due, TypeOK
  <2>4. CASE \E e \in Events : CreateTask(d, e)
    BY <1>0, <2>4 DEF CreateTask, WakesRetry, Due, TypeOK
  <2> QED
    BY <2>1, <2>2, <2>3, <2>4 DEF DispatcherStep
<1>3. NotYetDue'
  <2>1. \A c \in Dispatchers : batch[c] \subseteq Events
    BY <1>0 DEF TypeOK
  <2>2. \A c \in Dispatchers : \A e \in batch'[c] : outbox'[e] # "waiting"
    BY <1>2, <2>1 DEF RetryInv, NotYetDue
  <2>3. \A e \in Events : task'[e] # "none" => outbox'[e] # "waiting"
    BY <1>2 DEF RetryInv, NotYetDue
  <2> QED
    BY <2>2, <2>3 DEF NotYetDue
<1>4. RunsFresh'
  <2>1. \A w \in Workers : InHandler(w) => wJob[w] \in Jobs /\ wAtt[w] \in Numbers
    BY <1>0 DEF RetryInv, WakeInv, TypeInv, RequestsNameJobs, TypeOK, InHandler
  <2> QED
    BY <1>1, <1>2, <2>1, RunEventType DEF RetryInv, RunsFresh, InHandler, jobVars
<1>5. \A j \in Jobs : Waits(j)' => Waits(j) /\ waits'[j] = waits[j]
  BY <1>1 DEF Waits, jobVars
<1> QED
  BY <1>0, <1>2, <1>3, <1>4, <1>5, RetryWokenStays DEF RetryInv

LEMMA RetryHandlerStep ==
    ASSUME RetryInv, NEW w \in Workers, HandlerEnds(w) \/ HandlerCancels(w)
    PROVE  (NotYetDue /\ RunsFresh /\ RetryWoken)'
<1> DEFINE j == wJob[w]
           n == wAtt[w]
           f == RunEvent(j, n)
<1>0. /\ TypeOK /\ EventsWritten /\ j \in Jobs /\ n \in Numbers /\ f \in Events
      /\ InHandler(w) /\ outbox[f] = "absent" /\ task[f] = "none" /\ n <= attempt[j]
  <2>1. TypeOK /\ EventsWritten /\ InHandler(w)
    BY DEF RetryInv, WakeInv, TypeInv, HandlerEnds, HandlerCancels, FinishSucceeded,
       FinishRefused, FinishRetryWait, FinishFailed, FinishCancelled, InHandler
  <2>2. j \in Jobs /\ n \in Numbers
    BY <2>1 DEF RetryInv, WakeInv, TypeInv, RequestsNameJobs, TypeOK, InHandler
  <2>3. f \in Events
    BY <2>2, RunEventType
  <2>4. outbox[f] = "absent" /\ n <= attempt[j]
    BY <2>1 DEF RetryInv, RunsFresh, AttemptInv, AttemptsBelow
  <2> QED
    BY <2>1, <2>2, <2>3, <2>4 DEF EventsWritten
<1>1. UNCHANGED <<task, wJob, wAtt, batch, attempt, cancelReq, overlooked>>
  BY DEF HandlerEnds, HandlerCancels, FinishSucceeded, FinishRefused, FinishRetryWait,
     FinishFailed, FinishCancelled, jobVars, dispVars
<1>2. /\ \A v \in Workers : v # w => pc'[v] = pc[v]
      /\ \A k \in Jobs : k # j => status'[k] = status[k] /\ waits'[k] = waits[k]
  BY <1>0 DEF HandlerEnds, HandlerCancels, FinishSucceeded, FinishRefused, FinishRetryWait,
     FinishFailed, FinishCancelled, Settle, jobVars, TypeOK
<1>3. \/ outbox' = outbox
         /\ (status'[j] = "retry_wait" => status[j] = "retry_wait" /\ waits'[j] = waits[j])
      \/ /\ outbox' = [outbox EXCEPT ![f] = "waiting"]
         /\ pc'[w] = "settled" /\ waits'[j] = n
  <2>1. CASE FinishRetryWait(w)
    <3>1. CASE status[j] = "running"
      BY <1>0, <2>1, <3>1 DEF FinishRetryWait, Enqueue, RunEvent, TypeOK
    <3>2. CASE status[j] # "running"
      BY <1>0, <2>1, <3>2 DEF FinishRetryWait, Settle, TypeOK
    <3> QED
      BY <3>1, <3>2
  <2>2. CASE ~FinishRetryWait(w)
    BY <1>0, <2>2 DEF HandlerEnds, HandlerCancels, FinishSucceeded, FinishRefused,
       FinishFailed, FinishCancelled, Settle, jobVars, TypeOK
  <2> QED
    BY <2>1, <2>2
<1>4. \A e \in Events : outbox'[e] = outbox[e] \/ (e = f /\ outbox'[e] = "waiting" /\ pc'[w] = "settled")
  BY <1>0, <1>3 DEF TypeOK
<1>5. NotYetDue'
  <2>1. \A c \in Dispatchers : f \notin batch[c]
    BY <1>0 DEF EventsWritten
  <2>2. \A c \in Dispatchers : batch[c] \subseteq Events
    BY <1>0 DEF TypeOK
  <2> QED
    BY <1>0, <1>1, <1>4, <2>1, <2>2 DEF RetryInv, NotYetDue
<1>6. RunsFresh'
  <2>1. \A k \in Jobs, m \in Numbers : outbox'[RunEvent(k, m)] # "absent" => m <= attempt'[k]
    <3> SUFFICES ASSUME NEW k \in Jobs, NEW m \in Numbers, outbox'[RunEvent(k, m)] # "absent"
                 PROVE  m <= attempt[k]
      BY <1>1
    <3>1. CASE RunEvent(k, m) = f
      BY <1>0, <3>1, RunEventType
    <3>2. CASE RunEvent(k, m) # f
      BY <1>4, <3>2, RunEventType DEF RetryInv, RunsFresh
    <3> QED
      BY <3>1, <3>2
  <2>2. ASSUME NEW v \in Workers, InHandler(v)'
        PROVE  wAtt'[v] > 0 /\ outbox'[RunEvent(wJob'[v], wAtt'[v])] = "absent"
    <3>1. InHandler(v) /\ (v = w => pc'[w] # "settled")
      BY <1>0, <1>2, <2>2 DEF InHandler
    <3>2. wJob[v] \in Jobs /\ wAtt[v] \in Numbers /\ RunEvent(wJob[v], wAtt[v]) \in Events
      BY <1>0, <3>1, RunEventType DEF RetryInv, WakeInv, TypeInv, RequestsNameJobs, TypeOK, InHandler
    <3>3. wAtt[v] > 0 /\ outbox[RunEvent(wJob[v], wAtt[v])] = "absent"
      BY <3>1 DEF RetryInv, RunsFresh
    <3>4. v # w => RunEvent(wJob[v], wAtt[v]) # f
      <4>1. v # w => wJob[v] # j \/ wAtt[v] # n
        BY <1>0, <3>1 DEF RetryInv, AttemptInv, AttemptsDistinct
      <4> QED
        BY <1>0, <3>2, <4>1, RunEventType
    <3>5. outbox'[RunEvent(wJob[v], wAtt[v])] = outbox[RunEvent(wJob[v], wAtt[v])]
      BY <1>4, <3>1, <3>2, <3>4
    <3> QED
      BY <1>1, <3>3, <3>5
  <2> QED
    BY <2>1, <2>2 DEF RunsFresh
<1>7. RetryWoken'
  <2>1. \A e \in Events : WakesRetry(e) => WakesRetry(e)'
    BY <1>0, <1>1, <1>4 DEF WakesRetry, Due
  <2>2. CASE outbox' = outbox
                /\ (status'[j] = "retry_wait" => status[j] = "retry_wait" /\ waits'[j] = waits[j])
    <3>1. \A k \in Jobs : Waits(k)' => Waits(k) /\ waits'[k] = waits[k]
      BY <1>0, <1>1, <1>2, <2>2 DEF Waits
    <3> QED
      BY <1>0, <2>1, <3>1, RetryWokenStays DEF RetryInv
  <2>3. CASE outbox' = [outbox EXCEPT ![f] = "waiting"] /\ waits'[j] = n
    <3>1. WakesRetry(f)'
      BY <1>0, <1>1, <2>3 DEF WakesRetry, Due, TypeOK
    <3>2. ASSUME NEW k \in Jobs, Waits(k)', k # j PROVE WakesRetry(RunEvent(k, waits[k]))'
      <4>1. Waits(k) /\ waits'[k] = waits[k]
        BY <1>1, <1>2, <3>2 DEF Waits
      <4>2. RunEvent(k, waits[k]) \in Events
        BY <1>0, RunEventType DEF TypeOK
      <4>3. WakesRetry(RunEvent(k, waits[k]))
        BY <4>1 DEF RetryInv, RetryWoken
      <4> QED
        BY <2>1, <4>1, <4>2, <4>3
    <3> QED
      BY <1>1, <2>3, <3>1, <3>2 DEF RetryWoken
  <2> QED
    BY <1>3, <2>2, <2>3
<1> QED
  BY <1>5, <1>6, <1>7

\* A request ends, or Cloud Tasks gives it up: only a task in flight changes.
LEMMA RetryReplyStep ==
    ASSUME RetryInv, NEW w \in Workers,
           \/ WorkerStops(w) \/ ReplyRefused(w) \/ ReplySettled(w)
           \/ DeadlineExceeded(w) \/ Heartbeat(w)
    PROVE  (NotYetDue /\ RunsFresh /\ RetryWoken)'
<1>0. TypeOK /\ TasksHeld
  BY DEF RetryInv, WakeInv, TypeInv
<1>1. UNCHANGED <<outbox, batch, status, attempt, cancelReq, waits, overlooked>>
  BY DEF WorkerStops, ReplyRefused, ReplySettled, EndRequest, DeadlineExceeded, Heartbeat,
     jobVars, dispVars
<1>2. \A v \in Workers : InHandler(v)' => InHandler(v) /\ wJob'[v] = wJob[v] /\ wAtt'[v] = wAtt[v]
  BY <1>0 DEF WorkerStops, ReplyRefused, ReplySettled, EndRequest, DeadlineExceeded, Heartbeat,
     InHandler, workerVars, TypeOK
<1>3. \A e \in Events : task'[e] = task[e] \/ task[e] = "inflight"
  <2>1. \A e \in Events : e # wTask[w] => task'[e] = task[e]
    BY <1>0, NoEventIsNone DEF WorkerStops, ReplyRefused, ReplySettled, EndRequest,
       DeadlineExceeded, Heartbeat, TypeOK
  <2> QED
    BY <1>0, <2>1 DEF TasksHeld
<1>4. NotYetDue'
  BY <1>0, <1>1, <1>3 DEF RetryInv, NotYetDue, TypeOK
<1>5. RunsFresh'
  BY <1>1, <1>2 DEF RetryInv, RunsFresh
<1>6. \A e \in Events : WakesRetry(e) => WakesRetry(e)'
  BY <1>1, <1>3 DEF WakesRetry, Due
<1>7. \A j \in Jobs : Waits(j)' => Waits(j) /\ waits'[j] = waits[j]
  BY <1>1 DEF Waits
<1> QED
  BY <1>0, <1>4, <1>5, <1>6, <1>7, RetryWokenStays DEF RetryInv

\* A delivery of the retry's task claims the job, or finds the row locked.
LEMMA RetryDelivery ==
    ASSUME RetryInv, NEW w \in Workers, NEW e \in Events,
           ClaimJob(w, e) \/ RefuseDelivery(w, e)
    PROVE  (NotYetDue /\ RunsFresh /\ RetryWoken)'
<1> DEFINE j == JobOf(e)
<1>0. TypeOK /\ j \in Jobs /\ attempt[j] \in Nat /\ task[e] = "queued"
  BY JobOfType DEF RetryInv, WakeInv, TypeInv, TypeOK, Numbers, ClaimJob, RefuseDelivery
<1>1. UNCHANGED <<outbox, batch, cancelReq, waits>> /\ task' = [task EXCEPT ![e] = "inflight"]
  BY DEF ClaimJob, RefuseDelivery, dispVars
<1>2. /\ \A k \in Jobs : k # j => status'[k] = status[k] /\ attempt'[k] = attempt[k]
      /\ \A k \in Jobs : k # j /\ k \in overlooked => k \in overlooked'
      /\ \A v \in Workers : v # w => pc'[v] = pc[v] /\ wJob'[v] = wJob[v] /\ wAtt'[v] = wAtt[v]
  BY <1>0 DEF ClaimJob, RefuseDelivery, TypeOK
<1>3. \/ /\ status'[j] = "running" /\ attempt'[j] = attempt[j] + 1 /\ attempt'[j] \in Numbers
         /\ wJob'[w] = j /\ wAtt'[w] = attempt[j] + 1
      \/ /\ UNCHANGED <<status, attempt>> /\ pc'[w] = "refused" /\ ~Claimable(j)
         /\ overlooked' = IF lock[j] # Free /\ DueRetry(j) THEN overlooked \cup {j} ELSE overlooked
  BY <1>0 DEF ClaimJob, RefuseDelivery, NextAttempt, TypeOK, Numbers
<1>4. NotYetDue'
  BY <1>0, <1>1 DEF RetryInv, NotYetDue, TypeOK
<1>5. RunsFresh'
  <2>1. \A k \in Jobs : attempt[k] \in Nat /\ attempt'[k] >= attempt[k] /\ attempt'[k] \in Nat
    <3> SUFFICES ASSUME NEW k \in Jobs
                 PROVE  attempt[k] \in Nat /\ attempt'[k] >= attempt[k] /\ attempt'[k] \in Nat
      OBVIOUS
    <3>1. attempt[k] \in Nat
      BY <1>0 DEF TypeOK, Numbers
    <3>2. attempt'[k] = attempt[k] \/ attempt'[k] = attempt[k] + 1
      BY <1>2, <1>3
    <3> QED
      BY <3>1, <3>2
  <2>2. \A k \in Jobs, n \in Numbers : outbox'[RunEvent(k, n)] # "absent" => n <= attempt'[k]
    BY <1>1, <2>1 DEF RetryInv, RunsFresh, Numbers
  <2>3. ASSUME NEW v \in Workers, InHandler(v)'
        PROVE  wAtt'[v] > 0 /\ outbox'[RunEvent(wJob'[v], wAtt'[v])] = "absent"
    <3>1. CASE v # w
      BY <1>1, <1>2, <2>3, <3>1 DEF RetryInv, RunsFresh, InHandler
    <3>2. CASE v = w
      <4>1. /\ attempt[j] + 1 \in Numbers /\ wJob'[w] = j /\ wAtt'[w] = attempt[j] + 1
        BY <1>3, <2>3, <3>2 DEF InHandler
      <4>2. ~(attempt[j] + 1 <= attempt[j]) /\ attempt[j] + 1 > 0
        BY <1>0
      <4>3. outbox[RunEvent(j, attempt[j] + 1)] = "absent"
        BY <1>0, <4>1, <4>2 DEF RetryInv, RunsFresh
      <4> QED
        BY <1>1, <3>2, <4>1, <4>2, <4>3
    <3> QED
      BY <3>1, <3>2
  <2> QED
    BY <2>2, <2>3 DEF RunsFresh
<1>6. RetryWoken'
  <2> SUFFICES ASSUME NEW k \in Jobs, Waits(k)' PROVE WakesRetry(RunEvent(k, waits[k]))'
    BY DEF RetryWoken
  <2> DEFINE f == RunEvent(k, waits[k])
  <2>1. f \in Events /\ JobOf(f) = k
    BY <1>0, RunEventType DEF TypeOK
  <2>2. Waits(k)
    BY <1>1, <1>2, <1>3 DEF Waits
  <2>3. WakesRetry(f)
    BY <2>2 DEF RetryInv, RetryWoken
  <2>4. f # e
    <3> SUFFICES ASSUME f = e PROVE FALSE
      OBVIOUS
    <3>1. k = j
      BY <2>1
    <3>2. ~Claimable(j) /\ ~(lock[j] # Free /\ DueRetry(j))
      BY <1>3, <3>1 DEF Waits
    <3>3. outbox[e] # "waiting"
      BY <1>0 DEF RetryInv, NotYetDue
    <3>4. DueRetry(j)
      BY <2>2, <3>1, <3>3 DEF DueRetry, Waits, RunEvent
    <3> QED
      BY <2>2, <3>1, <3>2, <3>4 DEF Claimable, Available, Waits
  <2> QED
    BY <1>0, <1>1, <2>1, <2>3, <2>4 DEF WakesRetry, Due, TypeOK
<1> QED
  BY <1>4, <1>5, <1>6

LEMMA RetryInvStep == RetryInv /\ [Next]_vars => RetryInv'
<1> SUFFICES ASSUME RetryInv, [Next]_vars PROVE RetryInv'
  OBVIOUS
<1>0. WakeInv' /\ AttemptInv' /\ TypeOK
  BY WakeInvStep, AttemptInvStep DEF RetryInv, AttemptInv, TypeInv
<1>1. ASSUME NEW w \in Workers, WorkerStep(w) PROVE RetryInv'
  BY <1>0, <1>1, RetryHandlerStep, RetryReplyStep, RetryDelivery DEF WorkerStep, RetryInv
<1>2. ASSUME NEW f \in Events, EventDue(f) \/ OutboxLeaseLapses(f)
      PROVE  RetryInv'
  <2>1. UNCHANGED <<jobVars, task, batch, pc, wJob, wAtt>> /\ outbox[f] \in {"waiting", "leased"}
        /\ outbox' = [outbox EXCEPT ![f] = "pending"]
    BY <1>2 DEF EventDue, OutboxLeaseLapses, workerVars, dispVars
  <2>2. \A e \in Events : outbox'[e] = IF e = f THEN "pending" ELSE outbox[e]
    BY <1>0, <2>1 DEF TypeOK
  <2>3. NotYetDue'
    BY <1>0, <2>1, <2>2 DEF RetryInv, NotYetDue, TypeOK
  <2>4. RunsFresh'
    <3>1. \A w \in Workers : InHandler(w) => wJob[w] \in Jobs /\ wAtt[w] \in Numbers
      BY DEF RetryInv, WakeInv, TypeInv, RequestsNameJobs, TypeOK, InHandler
    <3>2. \A e \in Events : outbox'[e] = "absent" <=> outbox[e] = "absent"
      BY <2>1, <2>2
    <3> QED
      BY <2>1, <3>1, <3>2, RunEventType DEF RetryInv, RunsFresh, InHandler, jobVars
  <2>5. \A e \in Events : WakesRetry(e) => WakesRetry(e)'
    BY <2>1, <2>2 DEF WakesRetry, Due
  <2>6. \A j \in Jobs : Waits(j)' => Waits(j) /\ waits'[j] = waits[j]
    BY <2>1 DEF Waits, jobVars
  <2> QED
    BY <1>0, <2>3, <2>4, <2>5, <2>6, RetryWokenStays DEF RetryInv
<1>3. CASE UNCHANGED vars
  BY <1>0, <1>3 DEF vars, RetryInv, NotYetDue, RunsFresh, RetryWoken, Waits, WakesRetry, Due,
     InHandler, jobVars, workerVars, dispVars
<1>4. ASSUME NEW j \in Jobs, JobStep(j) PROVE RetryInv'
  BY <1>0, <1>4, RetryJobStep DEF RetryInv
<1>5. ASSUME NEW d \in Dispatchers, DispatcherStep(d) PROVE RetryInv'
  BY <1>0, <1>5, RetryDispatcherStep DEF RetryInv
<1> QED
  BY <1>1, <1>2, <1>3, <1>4, <1>5 DEF Next

\* A job that waits for its retry, and was not asked to stop, has something
\* that will wake it, unless a delivery met its row while it was locked.
THEOREM RetriesAreNotForgotten == Spec => []RetryIsNotForgotten
<1>1. Init => RetryInv
  <2> SUFFICES ASSUME Init PROVE RetryInv
    OBVIOUS
  <2>1. WakeInv /\ AttemptInv
    BY WakeInit, AttemptInit
  <2>2. NotYetDue /\ RunsFresh /\ RetryWoken
    BY RunEventType DEF Init, NotYetDue, RunsFresh, RetryWoken, Waits, InHandler
  <2> QED
    BY <2>1, <2>2 DEF RetryInv
<1>2. RetryInv => RetryIsNotForgotten
  <2> SUFFICES ASSUME RetryInv, NEW j \in Jobs, Waits(j) PROVE HasWakeup(j)
    BY DEF RetryIsNotForgotten, Waits
  <2>1. /\ RunEvent(j, waits[j]) \in Events /\ JobOf(RunEvent(j, waits[j])) = j
        /\ WakesRetry(RunEvent(j, waits[j]))
    BY RunEventType DEF RetryInv, WakeInv, TypeInv, TypeOK, RetryWoken
  <2> QED
    BY <2>1 DEF HasWakeup, WakesRetry, Due
<1> QED
  BY <1>1, <1>2, RetryInvStep, PTL DEF Spec

(***************************************************************************)
(* The ledger: a claim opens an attempt that was never used.               *)
(***************************************************************************)
LedgerInv ==
    /\ TypeInv
    /\ \A j \in Jobs, n \in Numbers : n > attempt[j] => ledger[j][n] = "none"

\* The result of an attempt that is over stays what it is.
ResultsStay ==
    \A j \in Jobs, n \in Numbers :
        /\ ledger[j][n] # "running" /\ ledger'[j][n] # ledger[j][n] =>
              ledger[j][n] = "none" /\ n = attempt'[j] /\ n = attempt[j] + 1
        /\ attempt'[j] >= attempt[j]

LEMMA LedgerStep ==
    ASSUME LedgerInv, [Next]_vars PROVE ResultsStay
<1>0. TypeOK /\ RequestsNameJobs /\ \A j \in Jobs : attempt[j] \in Nat
  BY DEF LedgerInv, TypeInv, TypeOK, Numbers
<1>1. ASSUME ledger' = ledger, attempt' = attempt PROVE ResultsStay
  BY <1>0, <1>1 DEF ResultsStay
<1>2. ASSUME NEW w \in Workers, NEW r, pc[w] # "idle", CloseAttempt(wJob[w], wAtt[w], r), attempt' = attempt
      PROVE  ResultsStay
  BY <1>0, <1>2 DEF CloseAttempt, ResultsStay, TypeOK, RequestsNameJobs
<1>3. ASSUME NEW j \in Jobs, EraseTranscription(j) PROVE ResultsStay
  BY <1>0, <1>3 DEF EraseTranscription, ResultsStay, TypeOK
<1>4. ASSUME NEW w \in Workers, NEW e \in Events, ClaimJob(w, e) PROVE ResultsStay
  <2> DEFINE j == JobOf(e)
  <2>1. j \in Jobs /\ attempt' = [attempt EXCEPT ![j] = attempt[j] + 1]
    BY <1>4, JobOfType DEF ClaimJob, NextAttempt
  <2>2. \A k \in Jobs, n \in Numbers :
          /\ k # j => ledger'[k][n] = ledger[k][n]
          /\ k = j => ledger'[k][n] =
                IF n = attempt[j] + 1 THEN "running"
                ELSE IF n = attempt[j] /\ status[j] = "running" /\ ledger[j][n] = "running"
                     THEN "retryable" ELSE ledger[j][n]
    BY <1>0, <1>4, <2>1 DEF ClaimJob, NextAttempt, TypeOK
  <2>3. attempt[j] + 1 > attempt[j] /\ attempt[j] + 1 >= attempt[j]
    BY <1>0, <2>1
  <2>4. \A n \in Numbers : n = attempt[j] + 1 => ledger[j][n] = "none"
    BY <2>1, <2>3 DEF LedgerInv
  <2>5. \A k \in Jobs : attempt'[k] = IF k = j THEN attempt[j] + 1 ELSE attempt[k]
    BY <1>0, <2>1 DEF TypeOK
  <2>6. \A k \in Jobs : attempt'[k] >= attempt[k]
    BY <1>0, <2>1, <2>5
  <2> HIDE DEF j
  <2> QED
    BY <2>1, <2>2, <2>4, <2>5, <2>6 DEF ResultsStay
<1>5. ASSUME NEW j \in Jobs, JobStep(j) PROVE ResultsStay
  BY <1>1, <1>3, <1>5 DEF JobStep, CreateJob, RetryJob, CancelJob, CancelLock, CancelCommit,
     CancelRollback, LeaseLapses, jobVars
<1>6. ASSUME NEW d \in Dispatchers, DispatcherStep(d) PROVE ResultsStay
  BY <1>1, <1>6 DEF DispatcherStep, ClaimOutbox, MarkLock, MarkPublished, DispatchAborts,
     CreateTask, jobVars
<1>7. ASSUME NEW w \in Workers, WorkerStep(w) PROVE ResultsStay
  <2>1. CASE FinishSucceeded(w) \/ FinishRetryWait(w) \/ FinishFailed(w) \/ FinishCancelled(w)
    BY <1>2, <2>1 DEF FinishSucceeded, FinishRetryWait, FinishFailed, FinishCancelled
  <2>2. CASE \/ FinishRefused(w) \/ HandlerCancels(w) \/ Heartbeat(w) \/ WorkerStops(w)
             \/ DeadlineExceeded(w) \/ ReplyRefused(w) \/ ReplySettled(w)
             \/ \E e \in Events : RefuseDelivery(w, e)
    BY <1>1, <2>2 DEF FinishRefused, HandlerCancels, Heartbeat, WorkerStops, DeadlineExceeded,
       ReplyRefused, ReplySettled, RefuseDelivery, EndRequest, jobVars
  <2> QED
    BY <1>4, <1>7, <2>1, <2>2 DEF WorkerStep, HandlerEnds
<1>8. ASSUME NEW e \in Events, EventDue(e) \/ OutboxLeaseLapses(e) PROVE ResultsStay
  BY <1>1, <1>8 DEF EventDue, OutboxLeaseLapses, jobVars
<1>9. CASE UNCHANGED vars
  BY <1>1, <1>9 DEF vars, jobVars
<1> QED
  BY <1>5, <1>6, <1>7, <1>8, <1>9 DEF Next

LEMMA LedgerInvStep == LedgerInv /\ [Next]_vars => LedgerInv'
<1> SUFFICES ASSUME LedgerInv, [Next]_vars PROVE LedgerInv'
  OBVIOUS
<1>1. TypeInv' /\ ResultsStay
  BY TypeInvStep, LedgerStep DEF LedgerInv
<1>2. ASSUME NEW j \in Jobs, NEW n \in Numbers, n > attempt'[j] PROVE ledger'[j][n] = "none"
  <2>1. attempt[j] \in Nat /\ attempt'[j] \in Nat /\ n \in Nat
    BY <1>1 DEF LedgerInv, TypeInv, TypeOK, Numbers
  <2>2. attempt'[j] >= attempt[j]
    BY <1>1 DEF ResultsStay
  <2>3. n > attempt[j] /\ n # attempt'[j]
    BY <1>2, <2>1, <2>2
  <2>4. ledger[j][n] = "none"
    BY <2>3 DEF LedgerInv
  <2> QED
    BY <1>1, <2>3, <2>4 DEF ResultsStay
<1> QED
  BY <1>1, <1>2 DEF LedgerInv

\* No report, however late, rewrites the result of an attempt.
THEOREM AttemptResultsAreFinal == Spec => ResultsAreFinal
<1>1. Init => LedgerInv
  BY TypeInit DEF Init, LedgerInv, TypeInv, RequestsNameJobs
<1>2. LedgerInv /\ [Next]_vars =>
        [\A j \in Jobs, n \in Numbers :
            ledger[j][n] \notin {"none", "running"} => ledger'[j][n] = ledger[j][n]]_vars
  BY LedgerStep DEF ResultsStay
<1> QED
  BY <1>1, <1>2, LedgerInvStep, PTL DEF Spec, ResultsAreFinal
=============================================================================
