--------------------------- MODULE Transcription ----------------------------
(***************************************************************************)
(* The transcription of one recording by the speech service.  The service  *)
(* runs an operation for hours; a job starts it, writes its name down and  *)
(* polls it, giving up its worker between two polls.  The service keeps    *)
(* copies of the audio for an operation until they are cleaned up.         *)
(*                                                                         *)
(* An action is one transaction or one call of the service.  Several jobs  *)
(* may be asked for one recording; each has one live worker (OneRunner of  *)
(* JobQueue).  The quality assessment at the end of a job is modelled in   *)
(* ConfirmedTexts; here it is a step that may fail.                        *)
(***************************************************************************)
EXTENDS Naturals, FiniteSets

CONSTANTS
    Jobs,           \* jobs of type transcribe for the recording
    MaxTries,       \* max_attempts; the code gives them 200
    MaxFaults       \* crashes, answers lost, cleanups that fail

ASSUME TranscriptionAssumption ==
    /\ MaxTries \in Nat \ {0}
    /\ MaxFaults \in Nat

\* An attempt makes one start at most and gives it its name here; a start of
\* several chunks is one operation, running while any of them does.
Operations == Jobs \X (1..MaxTries)
OfJob(j) == {o \in Operations: o[1] = j}
NoOperation == 0

RecordingStatus == {"ready", "transcribing", "transcribed", "failed"}
JobStatus == {"none", "queued", "running", "retry_wait", "succeeded", "failed", "cancelled"}
WorkerPc == {"off", "prepare", "start", "persist", "poll", "result", "clean", "assess", "done"}

VARIABLES
    covered,    \* the recording's consent is the visit's newest and granted
    rec,        \* recordings.status
    job,        \* job -> jobs.status
    asked,      \* jobs with cancel_requested_at
    tries,      \* job -> attempt_count
    pc,         \* job -> what its worker does next
    phase,      \* job -> phase of provider_operation_state
    row,        \* job -> provider_operation_id and cleanup token: an attempt
    made,       \* jobs whose transcript is written
    running,    \* operations the service is running
    copies,     \* operations with copies of the audio at the service
    faults,     \* faults so far
    lost,       \* history: operations whose copies were lost sight of
    disowned    \* running operations that an error made the job give up

jobVars == <<job, asked, tries, pc>>
rowVars == <<phase, row>>
serviceVars == <<running, copies>>
vars == <<covered, rec, jobVars, rowVars, made, serviceVars, faults, lost, disowned>>

TypeOK ==
    /\ covered \in BOOLEAN
    /\ rec \in RecordingStatus
    /\ job \in [Jobs -> JobStatus]
    /\ {asked, made} \subseteq SUBSET Jobs
    /\ tries \in [Jobs -> 0..MaxTries]
    /\ pc \in [Jobs -> WorkerPc]
    /\ phase \in [Jobs -> {"none", "starting", "polling"}]
    /\ row \in [Jobs -> 0..MaxTries]
    /\ {running, copies, lost, disowned} \subseteq SUBSET Operations
    /\ faults \in 0..MaxFaults

Init ==
    /\ covered = TRUE
    /\ rec = "ready"
    /\ job = [j \in Jobs |-> "none"]
    /\ asked = {} /\ made = {}
    /\ tries = [j \in Jobs |-> 0]
    /\ pc = [j \in Jobs |-> "off"]
    /\ phase = [j \in Jobs |-> "none"]
    /\ row = [j \in Jobs |-> NoOperation]
    /\ running = {} /\ copies = {} /\ lost = {} /\ disowned = {}
    /\ faults = 0

Fault == faults < MaxFaults /\ faults' = faults + 1

\* The operation an attempt starts, and the one the row names.
Mine(j) == <<j, tries[j]>>
Named(j) == {o \in OfJob(j): o[2] = row[j]}

-----------------------------------------------------------------------------
(* Requests.                                                               *)

CreateJob(j) ==
    /\ job[j] = "none"
    /\ covered
    /\ job' = [job EXCEPT ![j] = "queued"]
    /\ UNCHANGED <<covered, rec, asked, tries, pc, rowVars, made, serviceVars, faults, lost, disowned>>

\* createConsent of a newer consent; unless it grants, the jobs are cancelled,
\* the running ones by their workers.  What the service runs is left alone.
Overrule(granted) ==
    /\ covered
    /\ covered' = FALSE
    /\ LET open == {j \in Jobs: ~granted /\ job[j] \in {"queued", "retry_wait", "running"}} IN
       /\ asked' = asked \cup open
       /\ job' = [j \in Jobs |->
              IF j \in open /\ job[j] # "running" THEN "cancelled" ELSE job[j]]
    /\ UNCHANGED <<rec, tries, pc, rowVars, made, serviceVars, faults, lost, disowned>>

Uncertain(j) == row[j] = NoOperation /\ phase[j] = "starting"

\* Mutant of RestartAllowed: an uncertain start may be repeated at once.
RestartAllowedAtOnce(j) == job[j] = "failed"

\* After nine hours no operation of the service runs any more.
RestartAllowed(j) == job[j] = "failed" /\ running \cap OfJob(j) = {}

RetryJob(j) ==
    /\ job[j] \in {"failed", "retry_wait"}
    /\ Uncertain(j) => RestartAllowed(j)
    /\ job' = [job EXCEPT ![j] = "queued"]
    /\ phase' = [phase EXCEPT ![j] = IF Uncertain(j) THEN "none" ELSE @]
    /\ UNCHANGED <<covered, rec, asked, tries, pc, row, made, serviceVars, faults, lost, disowned>>

\* Mutant of CancelJob: the service is not told.
CancelJobOnly(j) ==
    /\ job[j] \in {"queued", "retry_wait", "running"}
    /\ asked' = asked \cup {j}
    /\ job' = [job EXCEPT ![j] = IF @ = "running" THEN @ ELSE "cancelled"]
    /\ phase' = [phase EXCEPT ![j] = "none"]
    /\ row' = [row EXCEPT ![j] = NoOperation]
    /\ UNCHANGED <<covered, rec, tries, pc, made, serviceVars, faults, lost, disowned>>

\* cancelJob cancels the operation of the row and cleans up, or is refused;
\* the row forgets the operation, and a start under way with it.
CancelJob(j) ==
    /\ job[j] \in {"queued", "retry_wait", "running"}
    /\ running' = running \ Named(j)
    /\ copies' = copies \ Named(j)
    /\ asked' = asked \cup {j}
    /\ job' = [job EXCEPT ![j] = IF @ = "running" THEN @ ELSE "cancelled"]
    /\ phase' = [phase EXCEPT ![j] = "none"]
    /\ row' = [row EXCEPT ![j] = NoOperation]
    /\ UNCHANGED <<covered, rec, tries, pc, made, faults, lost, disowned>>

-----------------------------------------------------------------------------
(* The service.                                                            *)

OperationEnds(o) ==
    /\ o \in running
    /\ running' = running \ {o}
    /\ disowned' = disowned \ {o}
    /\ UNCHANGED <<covered, rec, jobVars, rowVars, made, copies, faults, lost>>

-----------------------------------------------------------------------------
(* The worker.                                                             *)

\* claim_job; a dead worker's job too, unless it is to be cancelled.
Claim(j) ==
    /\ pc[j] = "off"
    /\ job[j] \in {"queued", "retry_wait", "running"}
    /\ j \notin asked
    /\ tries[j] < MaxTries
    /\ job' = [job EXCEPT ![j] = "running"]
    /\ tries' = [tries EXCEPT ![j] = @ + 1]
    /\ pc' = [pc EXCEPT ![j] = "prepare"]
    /\ UNCHANGED <<covered, rec, asked, rowVars, made, serviceVars, faults, lost, disowned>>

\* The transcript is there already: what is left is the cleanup.
PrepareAgain(j) ==
    /\ pc[j] = "prepare"
    /\ j \in made
    /\ pc' = [pc EXCEPT ![j] = "clean"]
    /\ UNCHANGED <<covered, rec, job, asked, tries, rowVars, made, serviceVars, faults, lost, disowned>>

\* The start is noted before it is made; a start noted by an earlier attempt
\* is not repeated (the job then fails, HandlerFails).
Prepare(j) ==
    /\ pc[j] = "prepare"
    /\ j \notin made
    /\ rec \in {"ready", "transcribing", "failed"}
    /\ covered
    /\ ~Uncertain(j)
    /\ rec' = "transcribing"
    /\ phase' = [phase EXCEPT ![j] = IF row[j] = NoOperation THEN "starting" ELSE @]
    /\ pc' = [pc EXCEPT ![j] = IF row[j] = NoOperation THEN "start" ELSE "poll"]
    /\ UNCHANGED <<covered, job, asked, tries, row, made, serviceVars, faults, lost, disowned>>

Start(j) ==
    /\ pc[j] = "start"
    /\ running' = running \cup {Mine(j)}
    /\ copies' = copies \cup {Mine(j)}
    /\ pc' = [pc EXCEPT ![j] = "persist"]
    /\ UNCHANGED <<covered, rec, job, asked, tries, rowVars, made, faults, lost, disowned>>

\* markEntityFailure, when the job is not to be tried again.
FailRecording == rec' = IF rec = "transcribing" THEN "failed" ELSE rec

Fail(j) ==
    /\ FailRecording
    /\ job' = [job EXCEPT ![j] = "failed"]
    /\ pc' = [pc EXCEPT ![j] = "off"]

\* What a failed start leaves at the service: nothing, for the provider cancels
\* the chunks it had started and removes their copies; or, when an answer was
\* lost or those calls fail in their turn, what nobody knows of.
LeftByStart(j) ==
    \/ UNCHANGED <<serviceVars, faults, lost>>
    \/ /\ Fault
       /\ running' \in {running, running \cup {Mine(j)}}
       /\ copies' \in {copies, copies \cup {Mine(j)}}
       /\ lost' = lost \cup ({Mine(j)} \cap copies')

\* An error taken for permanent, so that the note is taken back.  The provider
\* takes every code for permanent but five, lost answers of a chunk included.
StartRefused(j) ==
    /\ pc[j] = "start"
    /\ LeftByStart(j)
    /\ Fail(j)
    /\ phase' = [phase EXCEPT ![j] = IF @ = "starting" THEN "none" ELSE @]
    /\ disowned' = disowned \cup ({Mine(j)} \cap running')
    /\ UNCHANGED <<covered, asked, tries, row, made>>

\* An error that may be a lost answer: the note stays.
StartUnheard(j) ==
    /\ pc[j] = "start"
    /\ LeftByStart(j)
    /\ Fail(j)
    /\ UNCHANGED <<covered, asked, tries, rowVars, made, disowned>>

Persist(j) ==
    /\ pc[j] = "persist"
    /\ phase[j] = "starting"
    /\ phase' = [phase EXCEPT ![j] = "polling"]
    /\ row' = [row EXCEPT ![j] = tries[j]]
    /\ pc' = [pc EXCEPT ![j] = "poll"]
    /\ UNCHANGED <<covered, rec, job, asked, tries, made, serviceVars, faults, lost, disowned>>

\* cancelJob has taken the note back meanwhile.
PersistRefused(j) ==
    /\ pc[j] = "persist"
    /\ phase[j] # "starting"
    /\ lost' = lost \cup {Mine(j)}
    /\ Fail(j)
    /\ UNCHANGED <<covered, asked, tries, rowVars, made, serviceVars, faults, disowned>>

\* Polled, not finished: the worker lets go until the next poll.
Defer(j) ==
    /\ pc[j] = "poll"
    /\ running \cap Named(j) # {}
    /\ j \notin asked
    /\ tries[j] < MaxTries
    /\ job' = [job EXCEPT ![j] = "retry_wait"]
    /\ pc' = [pc EXCEPT ![j] = "off"]
    /\ UNCHANGED <<covered, rec, asked, tries, rowVars, made, serviceVars, faults, lost, disowned>>

\* Clearing the row; the cleanup before it is best effort.
Forget(j) ==
    /\ phase' = [phase EXCEPT ![j] = "none"]
    /\ row' = [row EXCEPT ![j] = NoOperation]
    /\ \/ copies' = copies \ Named(j) /\ UNCHANGED <<faults, lost>>
       \/ Fault /\ lost' = lost \cup Named(j) /\ UNCHANGED copies

\* The row is cleared; what it named may go on running, uncancelled.
Disown(j) ==
    /\ Forget(j)
    /\ Fail(j)
    /\ disowned' = disowned \cup (running \cap Named(j))
    /\ UNCHANGED <<covered, asked, tries, made, running>>

\* A poll reports an error taken for permanent, be it the operation's own or
\* one of the call.
PollRefused(j) == pc[j] = "poll" /\ Disown(j)

\* The last poll finds the operation unfinished.
GiveUp(j) ==
    /\ pc[j] = "poll"
    /\ running \cap Named(j) # {}
    /\ j \notin asked
    /\ tries[j] = MaxTries
    /\ Disown(j)

PollResult(j) ==
    /\ pc[j] = "poll"
    /\ running \cap Named(j) = {}
    /\ pc' = [pc EXCEPT ![j] = "result"]
    /\ UNCHANGED <<covered, rec, job, asked, tries, rowVars, made, serviceVars, faults, lost, disowned>>

\* Mutant of Transcribable: the recording is not looked at again.
TranscribableInAnyState == covered

\* The last transaction looks again, under the visit's lock.
Transcribable == covered /\ rec = "transcribing"

\* The check for a cancellation comes just before and is one step with it:
\* a cancellation in between could as well come after.
Commit(j) ==
    /\ pc[j] = "result"
    /\ j \notin asked
    /\ Transcribable
    /\ made' = made \cup {j}
    /\ rec' = "transcribed"
    /\ pc' = [pc EXCEPT ![j] = "clean"]
    /\ UNCHANGED <<covered, job, asked, tries, rowVars, serviceVars, faults, lost, disowned>>

Clean(j) ==
    /\ pc[j] = "clean"
    /\ Forget(j)
    /\ pc' = [pc EXCEPT ![j] = "assess"]
    /\ UNCHANGED <<covered, rec, job, asked, tries, made, running, disowned>>

Assess(j) ==
    /\ pc[j] = "assess"
    /\ pc' = [pc EXCEPT ![j] = "done"]
    /\ UNCHANGED <<covered, rec, job, asked, tries, rowVars, made, serviceVars, faults, lost, disowned>>

Finish(j) ==
    /\ pc[j] = "done"
    /\ j \notin asked
    /\ job' = [job EXCEPT ![j] = "succeeded"]
    /\ pc' = [pc EXCEPT ![j] = "off"]
    /\ UNCHANGED <<covered, rec, asked, tries, rowVars, made, serviceVars, faults, lost, disowned>>

\* JOB_CANCELLED: first the operation of the row is cancelled and cleaned up
\* (cleanupTranscriptionOperation), then the recording is ready again.
HandlerCancelled(j) ==
    /\ \/ pc[j] \in {"poll", "result", "done"} /\ j \in asked
       \/ pc[j] \in {"prepare", "result"} /\ ~covered /\ j \notin made
    /\ running' = running \ Named(j)
    /\ copies' = copies \ Named(j)
    /\ phase' = [phase EXCEPT ![j] = "none"]
    /\ row' = [row EXCEPT ![j] = NoOperation]
    /\ rec' = IF rec = "transcribing" THEN "ready" ELSE rec
    /\ job' = [job EXCEPT ![j] = "cancelled"]
    /\ pc' = [pc EXCEPT ![j] = "off"]
    /\ UNCHANGED <<covered, asked, tries, made, faults, lost, disowned>>

\* Any other error.  An error the handler takes for a start it cannot vouch
\* for, or for a recording no longer there, is for good.
HandlerFails(j, retryable) ==
    /\ pc[j] \in {"prepare", "persist", "poll", "result", "clean", "assess"}
    /\ retryable =>
          /\ tries[j] < MaxTries
          /\ ~(pc[j] = "prepare" /\ j \notin made /\ (Uncertain(j) \/ rec = "transcribed"))
          /\ ~(pc[j] = "result" /\ rec # "transcribing")
    /\ job' = [job EXCEPT ![j] = IF retryable THEN "retry_wait" ELSE "failed"]
    /\ IF retryable THEN UNCHANGED rec ELSE FailRecording
    /\ lost' = IF pc[j] = "persist" THEN lost \cup {Mine(j)} ELSE lost
    /\ pc' = [pc EXCEPT ![j] = "off"]
    /\ UNCHANGED <<covered, asked, tries, rowVars, made, serviceVars, faults, disowned>>

Crash(j) ==
    /\ pc[j] # "off"
    /\ Fault
    /\ lost' = IF pc[j] = "persist" THEN lost \cup {Mine(j)} ELSE lost
    /\ pc' = [pc EXCEPT ![j] = "off"]
    /\ UNCHANGED <<covered, rec, job, asked, tries, rowVars, made, serviceVars, disowned>>

-----------------------------------------------------------------------------
WorkerStep(j) ==
    \/ Claim(j) \/ PrepareAgain(j) \/ Prepare(j)
    \/ Start(j) \/ StartRefused(j) \/ StartUnheard(j)
    \/ Persist(j) \/ PersistRefused(j)
    \/ Defer(j) \/ PollRefused(j) \/ GiveUp(j) \/ PollResult(j)
    \/ Commit(j) \/ Clean(j) \/ Assess(j) \/ Finish(j)
    \/ HandlerCancelled(j) \/ Crash(j)
    \/ \E retryable \in BOOLEAN: HandlerFails(j, retryable)

Next ==
    \/ \E granted \in BOOLEAN: Overrule(granted)
    \/ \E j \in Jobs: CreateJob(j) \/ RetryJob(j) \/ CancelJob(j) \/ WorkerStep(j)
    \/ \E o \in Operations: OperationEnds(o)

Spec == Init /\ [][Next]_vars

-----------------------------------------------------------------------------
(* Properties.                                                             *)

\* The recording gets one transcript, however many jobs were asked for it and
\* however they overlap, fail or run again; and it is 'transcribed' exactly
\* when it has it (transcribe, markEntityFailure, markEntityCancelled).
OneTranscript ==
    /\ Cardinality(made) <= 1
    /\ (rec = "transcribed") <=> (made # {})

\* The operations that run for a job and that it has not given up.
Followed(j) == (running \ disowned) \cap OfJob(j)

\* A job runs one operation at a time, and while a worker is at the job it is
\* the one that worker has just started or is polling: the note 'starting',
\* written before the call, outlives crashes and lost answers until the nine
\* hours are over (transcribe, retryJob).  The exceptions: a request to cancel
\* takes the note back (cancelJob), and so does an error the provider takes
\* for permanent, at the start or at a poll, whatever still runs; the last
\* poll gives up an operation that still runs (disowned).
StartedOnce ==
    \A j \in Jobs \ asked: \A o \in Followed(j):
        /\ Followed(j) = {o}
        /\ \/ pc[j] \in {"off", "prepare"}
           \/ pc[j] = "persist" /\ o = Mine(j)
           \/ pc[j] = "poll" /\ o \in Named(j)

\* Copies of the audio at the service are within reach of somebody who will
\* remove them: their operation is in a row or in a worker's hands.  The
\* exceptions are starts whose name was lost and cleanups that failed
\* (transcribe, cancelJob, cleanupTranscriptionOperation).
CopiesAreKnown ==
    \A o \in copies \ lost: row[o[1]] = o[2] \/ (pc[o[1]] = "persist" /\ o = Mine(o[1]))

=============================================================================
