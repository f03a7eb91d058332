------------------------ MODULE TranscriptionProofs -------------------------
(***************************************************************************)
(* What Transcription keeps for any number of jobs, attempts and faults.   *)
(*                                                                         *)
(* Everything but the recording is somebody's: an action of one job leaves *)
(* the rows, the operations and the copies of the others alone.  So the    *)
(* invariant is one of a job, JobInv(j), and a step is proved once for the *)
(* job that takes it and once, in OthersKeep, for all others.              *)
(***************************************************************************)
EXTENDS Transcription, FiniteSetTheorems, TLAPS

USE TranscriptionAssumption DEF TranscriptionAssumption, NoOperation,
    jobVars, rowVars, serviceVars

(***************************************************************************)
(* Operations.                                                             *)
(***************************************************************************)
LEMMA OperationParts ==
    ASSUME NEW j \in Jobs, NEW o \in OfJob(j)
    PROVE /\ o \in Operations /\ o[1] = j /\ o[2] \in 1..MaxTries
          /\ o = <<j, o[2]>>
BY DEF OfJob, Operations

LEMMA MineIsMine ==
    ASSUME NEW j \in Jobs, tries \in [Jobs -> 0..MaxTries], tries[j] # 0
    PROVE Mine(j) \in OfJob(j) /\ Mine(j) \in Operations /\ Mine(j)[2] = tries[j]
BY DEF Mine, OfJob, Operations

LEMMA NamedIsOne ==
    ASSUME NEW j \in Jobs, NEW o \in OfJob(j)
    PROVE o \in Named(j) <=> o[2] = row[j]
BY DEF Named

LEMMA JobsApart ==
    ASSUME NEW i \in Jobs, NEW j \in Jobs, i # j
    PROVE OfJob(i) \cap OfJob(j) = {}
BY DEF OfJob

(***************************************************************************)
(* The invariant.                                                          *)
(***************************************************************************)
\* The recording is transcribed by the one job that made its transcript.
OneMade ==
    /\ \A i, k \in made: i = k
    /\ rec = "transcribed" <=> made # {}

\* A worker is at work on a running job, in an attempt.
Attended(j) == pc[j] # "off" => job[j] = "running" /\ tries[j] # 0

\* Once its transcript is made, nothing of a job runs.
MadeIsOver(j) ==
    /\ j \in made => pc[j] \in {"off", "prepare", "clean", "assess", "done"}
    /\ pc[j] \in {"clean", "assess", "done"} => j \in made
    /\ j \in made /\ j \notin asked => Followed(j) = {}

\* A start is made from an empty row, and noted unless a cancellation came.
StartNoted(j) ==
    pc[j] \in {"start", "persist"} =>
        /\ row[j] = NoOperation
        /\ j \notin asked => phase[j] = "starting"

\* What runs for a job is the one operation its row names, or the one in its
\* worker's hands, or one whose start is noted; or the job is cancelled.
RunningIsKnown(j) ==
    j \notin asked => \A o \in Followed(j):
        /\ Followed(j) = {o}
        /\ \/ row[j] = o[2] /\ pc[j] \in {"off", "prepare", "poll"}
           \/ pc[j] = "persist" /\ o = Mine(j)
           \/ Uncertain(j) /\ pc[j] \in {"off", "prepare"}
           \/ job[j] = "cancelled" /\ pc[j] = "off"

CopyIsKnown(j) ==
    \A o \in OfJob(j) \cap copies: o \in lost \/ row[j] = o[2] \/ (pc[j] = "persist" /\ o = Mine(j))

JobInv(j) ==
    /\ Attended(j) /\ MadeIsOver(j) /\ StartNoted(j)
    /\ RunningIsKnown(j) /\ CopyIsKnown(j)

IInv == TypeOK /\ OneMade /\ \A j \in Jobs: JobInv(j)

(***************************************************************************)
(* A job is left alone by the steps of the others.                         *)
(***************************************************************************)
OnlyOf(j) ==
    /\ \A i \in Jobs \ {j}:
          /\ job'[i] = job[i] /\ tries'[i] = tries[i] /\ pc'[i] = pc[i]
          /\ phase'[i] = phase[i] /\ row'[i] = row[i]
    /\ asked \ {j} = asked' \ {j} /\ made \ {j} = made' \ {j}
    /\ running \ OfJob(j) = running' \ OfJob(j)
    /\ copies \ OfJob(j) = copies' \ OfJob(j)
    /\ lost \ OfJob(j) = lost' \ OfJob(j)
    /\ disowned \ OfJob(j) = disowned' \ OfJob(j)

LEMMA OthersKeep ==
    ASSUME NEW j \in Jobs, OnlyOf(j), NEW i \in Jobs \ {j}, JobInv(i)
    PROVE JobInv(i)'
<1> DEFINE O == OfJob(i)
<1>1. O \cap OfJob(j) = {} /\ OfJob(i)' = O
  BY JobsApart DEF OfJob, Operations
<1>2. Followed(i)' = Followed(i) /\ copies' \cap O = copies \cap O
      /\ \A o \in O: o \in lost' <=> o \in lost
  BY <1>1 DEF OnlyOf, Followed
<1>3. (i \in asked' <=> i \in asked) /\ (i \in made' <=> i \in made)
  BY DEF OnlyOf
<1>4. /\ job'[i] = job[i] /\ tries'[i] = tries[i] /\ pc'[i] = pc[i]
      /\ phase'[i] = phase[i] /\ row'[i] = row[i] /\ Mine(i)' = Mine(i)
  BY DEF OnlyOf, Mine
<1> HIDE DEF O
<1>5. Attended(i)' /\ MadeIsOver(i)' /\ StartNoted(i)'
  BY <1>1, <1>2, <1>3, <1>4 DEF JobInv, Attended, MadeIsOver, StartNoted
<1>6. RunningIsKnown(i)'
  BY <1>1, <1>2, <1>3, <1>4 DEF JobInv, RunningIsKnown, Uncertain
<1>7. CopyIsKnown(i)'
  BY <1>1, <1>2, <1>3, <1>4 DEF JobInv, CopyIsKnown, O
<1> QED
  BY <1>5, <1>6, <1>7 DEF JobInv

(***************************************************************************)
(* Types.                                                                  *)
(***************************************************************************)
LEMMA WorkerTypes ==
    ASSUME TypeOK, NEW j \in Jobs, JobInv(j), WorkerStep(j)
    PROVE TypeOK'
<1> USE DEF TypeOK, RecordingStatus, JobStatus, WorkerPc
<1>1. pc[j] # "off" => Mine(j) \in Operations /\ tries[j] \in 1..MaxTries
  BY MineIsMine DEF JobInv, Attended
<1>2. CASE Claim(j) \/ PrepareAgain(j) \/ Prepare(j)
  BY <1>2 DEF Claim, PrepareAgain, Prepare
<1>3. CASE Start(j) \/ StartRefused(j) \/ StartUnheard(j)
  BY <1>1, <1>3 DEF Start, StartRefused, StartUnheard, LeftByStart, Fail, FailRecording, Fault
<1>4. CASE Persist(j) \/ PersistRefused(j)
  BY <1>1, <1>4 DEF Persist, PersistRefused, Fail, FailRecording
<1>5. CASE Defer(j) \/ PollResult(j) \/ Commit(j) \/ Assess(j) \/ Finish(j)
  BY <1>5 DEF Defer, PollResult, Commit, Assess, Finish
<1>6. CASE PollRefused(j) \/ GiveUp(j) \/ Clean(j)
  BY <1>6 DEF PollRefused, GiveUp, Disown, Clean, Forget, Fault, Fail, FailRecording, Named, OfJob
<1>7. CASE HandlerCancelled(j)
  BY <1>7 DEF HandlerCancelled
<1>8. CASE Crash(j)
  BY <1>1, <1>8 DEF Crash, Fault
<1>9. ASSUME NEW retryable \in BOOLEAN, HandlerFails(j, retryable) PROVE TypeOK'
  BY <1>1, <1>9 DEF HandlerFails, FailRecording
<1> QED
  BY <1>2, <1>3, <1>4, <1>5, <1>6, <1>7, <1>8, <1>9 DEF WorkerStep

LEMMA RequestTypes ==
    ASSUME TypeOK, NEW j \in Jobs, CreateJob(j) \/ RetryJob(j) \/ CancelJob(j)
    PROVE TypeOK'
BY DEF TypeOK, RecordingStatus, JobStatus, CreateJob, RetryJob, CancelJob

(***************************************************************************)
(* The recording: whoever makes the transcript sees that it has none.      *)
(***************************************************************************)
LEMMA OneMadeStep ==
    ASSUME OneMade, [Next]_vars
    PROVE OneMade'
<1> USE DEF OneMade
<1>1. ASSUME NEW j \in Jobs, WorkerStep(j) PROVE OneMade'
  <2>1. CASE Commit(j)
    BY <2>1 DEF Commit, Transcribable
  <2>2. CASE \E retryable \in BOOLEAN: HandlerFails(j, retryable)
    BY <2>2 DEF HandlerFails, FailRecording
  <2> QED
    BY <1>1, <2>1, <2>2 DEF WorkerStep, Claim, PrepareAgain, Prepare, Start, StartRefused,
       StartUnheard, Persist, PersistRefused, Defer, PollRefused, GiveUp, Disown, PollResult, Clean, Assess,
       Finish, HandlerCancelled, Crash, Fail, FailRecording
<1>2. CASE UNCHANGED vars
  BY <1>2 DEF vars
<1> QED
  BY <1>1, <1>2 DEF Next, Overrule, CreateJob, RetryJob, CancelJob, OperationEnds

(***************************************************************************)
(* What an action of a job leaves alone.                                   *)
(***************************************************************************)
LEMMA StepIsOfOneJob ==
    ASSUME TypeOK, NEW j \in Jobs, JobInv(j),
           CreateJob(j) \/ RetryJob(j) \/ CancelJob(j) \/ WorkerStep(j)
    PROVE OnlyOf(j)
<1> USE DEF TypeOK, OnlyOf
<1>1. pc[j] # "off" => Mine(j) \in OfJob(j)
  BY MineIsMine DEF JobInv, Attended
<1>2. Named(j) \subseteq OfJob(j)
  BY DEF Named
<1>3. CASE CreateJob(j) \/ RetryJob(j) \/ CancelJob(j)
  BY <1>2, <1>3 DEF CreateJob, RetryJob, CancelJob
<1>4. CASE Claim(j) \/ PrepareAgain(j) \/ Prepare(j)
  BY <1>4 DEF Claim, PrepareAgain, Prepare
<1>5. CASE Start(j) \/ StartRefused(j) \/ StartUnheard(j)
  BY <1>1, <1>5 DEF Start, StartRefused, StartUnheard, LeftByStart, Fail
<1>6. CASE Persist(j) \/ PersistRefused(j)
  BY <1>1, <1>6 DEF Persist, PersistRefused, Fail
<1>7. CASE Defer(j) \/ PollResult(j) \/ Commit(j) \/ Assess(j) \/ Finish(j)
  BY <1>7 DEF Defer, PollResult, Commit, Assess, Finish
<1>8. CASE PollRefused(j) \/ GiveUp(j) \/ Clean(j)
  BY <1>2, <1>8 DEF PollRefused, GiveUp, Disown, Clean, Forget, Fail
<1>9. CASE HandlerCancelled(j)
  BY <1>2, <1>9 DEF HandlerCancelled
<1>10. CASE Crash(j)
  BY <1>1, <1>10 DEF Crash
<1>11. ASSUME NEW retryable \in BOOLEAN, HandlerFails(j, retryable) PROVE OnlyOf(j)
  BY <1>1, <1>11 DEF HandlerFails
<1> QED
  BY <1>3, <1>4, <1>5, <1>6, <1>7, <1>8, <1>9, <1>10, <1>11 DEF WorkerStep

(***************************************************************************)
(* The job that takes a step.                                              *)
(***************************************************************************)
LEMMA CreateKeeps ==
    ASSUME TypeOK, NEW j \in Jobs, JobInv(j), CreateJob(j)
    PROVE JobInv(j)'
BY DEF TypeOK, JobInv, Attended, MadeIsOver, StartNoted, RunningIsKnown, CopyIsKnown,
   CreateJob, Uncertain, Followed, Mine, OfJob, Operations

LEMMA RetryKeeps ==
    ASSUME TypeOK, NEW j \in Jobs, JobInv(j), RetryJob(j)
    PROVE JobInv(j)'
<1>0. OfJob(j)' = OfJob(j) /\ Mine(j)' = Mine(j) /\ Followed(j)' = Followed(j)
  BY DEF OfJob, Operations, Mine, Followed, RetryJob
<1>1. pc[j] = "off"
  BY DEF RetryJob, JobInv, Attended
<1>2. Attended(j)' /\ MadeIsOver(j)' /\ StartNoted(j)' /\ CopyIsKnown(j)'
  BY <1>0, <1>1 DEF RetryJob, TypeOK, JobInv, Attended, MadeIsOver, StartNoted, CopyIsKnown
<1>3. RunningIsKnown(j)'
  <2>1. CASE Uncertain(j)
    BY <1>0, <2>1 DEF RetryJob, RestartAllowed, RunningIsKnown, Followed
  <2>2. CASE ~Uncertain(j)
    BY <1>0, <1>1, <2>2 DEF RetryJob, TypeOK, JobInv, RunningIsKnown, Uncertain
  <2> QED
    BY <2>1, <2>2
<1> QED
  BY <1>2, <1>3 DEF JobInv

LEMMA CancelKeeps ==
    ASSUME TypeOK, NEW j \in Jobs, JobInv(j), CancelJob(j)
    PROVE JobInv(j)'
<1>0. OfJob(j)' = OfJob(j) /\ Mine(j)' = Mine(j)
  BY DEF OfJob, Operations, Mine, CancelJob
<1>1. Attended(j)' /\ MadeIsOver(j)' /\ StartNoted(j)'
  BY <1>0 DEF CancelJob, TypeOK, JobInv, Attended, MadeIsOver, StartNoted
<1>2. RunningIsKnown(j)'
  BY DEF CancelJob, RunningIsKnown
<1>3. CopyIsKnown(j)'
  BY <1>0, NamedIsOne DEF CancelJob, TypeOK, JobInv, CopyIsKnown
<1> QED
  BY <1>1, <1>2, <1>3 DEF JobInv

LEMMA PreparesKeep ==
    ASSUME TypeOK, NEW j \in Jobs, JobInv(j), Claim(j) \/ PrepareAgain(j) \/ Prepare(j)
    PROVE JobInv(j)'
<1>0. OfJob(j)' = OfJob(j) /\ Followed(j)' = Followed(j)
  BY DEF OfJob, Operations, Followed, Claim, PrepareAgain, Prepare
<1>1. Attended(j)' /\ MadeIsOver(j)' /\ StartNoted(j)' /\ CopyIsKnown(j)'
  BY <1>0 DEF Claim, PrepareAgain, Prepare, Uncertain, TypeOK, JobInv, Attended, MadeIsOver,
     StartNoted, CopyIsKnown
<1>2. RunningIsKnown(j)'
  <2>1. CASE Claim(j)
    BY <1>0, <2>1 DEF Claim, TypeOK, JobInv, RunningIsKnown, Uncertain
  <2>2. CASE PrepareAgain(j)
    BY <1>0, <2>2 DEF PrepareAgain, JobInv, RunningIsKnown, MadeIsOver
  <2>3. CASE Prepare(j)
    <3>1. \A o \in Followed(j): o[2] # NoOperation
      BY OperationParts DEF Followed
    <3>2. \A o \in Followed(j): j \notin asked => Followed(j) = {o} /\ row[j] = o[2]
      BY <2>3 DEF Prepare, TypeOK, JobInv, Attended, RunningIsKnown
    <3>3. row' = row /\ (row[j] # NoOperation => pc'[j] = "poll") /\ asked' = asked
      BY <2>3 DEF Prepare, TypeOK
    <3> QED
      BY <1>0, <3>1, <3>2, <3>3 DEF RunningIsKnown
  <2> QED
    BY <2>1, <2>2, <2>3
<1> QED
  BY <1>1, <1>2 DEF JobInv

LEMMA StartsKeep ==
    ASSUME TypeOK, NEW j \in Jobs, JobInv(j), Start(j) \/ StartRefused(j) \/ StartUnheard(j)
    PROVE JobInv(j)'
<1> USE DEF LeftByStart
<1>0. OfJob(j)' = OfJob(j) /\ Mine(j)' = Mine(j)
  BY DEF OfJob, Operations, Mine, Start, StartRefused, StartUnheard
<1>1. pc[j] = "start" /\ Mine(j) \in OfJob(j)
  BY MineIsMine DEF Start, StartRefused, StartUnheard, TypeOK, JobInv, Attended
<1>2. Attended(j)' /\ StartNoted(j)'
  BY <1>0, <1>1 DEF Start, StartRefused, StartUnheard, Fail, TypeOK, JobInv, Attended, StartNoted
<1>3. j \notin asked => Followed(j) = {}
  BY <1>1 DEF JobInv, RunningIsKnown
<1>4. Followed(j)' \subseteq Followed(j) \cup {Mine(j)}
  BY <1>0 DEF Start, StartRefused, StartUnheard, Followed
<1>5. MadeIsOver(j)'
  BY <1>1 DEF Start, StartRefused, StartUnheard, Fail, TypeOK, JobInv, MadeIsOver
<1>6. RunningIsKnown(j)'
  <2>1. CASE Start(j)
    BY <1>0, <1>3, <1>4, <2>1 DEF Start, TypeOK, RunningIsKnown
  <2>2. CASE StartRefused(j)
    <3>1. Followed(j)' \subseteq Followed(j)
      BY <1>0, <2>2 DEF StartRefused, Followed
    <3> QED
      BY <1>3, <2>2, <3>1 DEF StartRefused, RunningIsKnown
  <2>3. CASE StartUnheard(j)
    <3>1. j \notin asked => Uncertain(j)'
      BY <1>1, <2>3 DEF StartUnheard, Fail, Uncertain, JobInv, StartNoted
    <3> QED
      BY <1>3, <1>4, <2>3, <3>1 DEF StartUnheard, Fail, TypeOK, RunningIsKnown
  <2> QED
    BY <2>1, <2>2, <2>3
<1>7. CopyIsKnown(j)'
  BY <1>0, <1>1, OperationParts DEF Start, StartRefused, StartUnheard, Fail, TypeOK, JobInv,
     StartNoted, CopyIsKnown
<1> QED
  BY <1>2, <1>5, <1>6, <1>7 DEF JobInv

LEMMA PersistsKeep ==
    ASSUME TypeOK, NEW j \in Jobs, JobInv(j), Persist(j) \/ PersistRefused(j)
    PROVE JobInv(j)'
<1>0. OfJob(j)' = OfJob(j) /\ Mine(j)' = Mine(j) /\ Followed(j)' = Followed(j)
  BY DEF OfJob, Operations, Mine, Followed, Persist, PersistRefused
<1>1. pc[j] = "persist" /\ Mine(j) \in OfJob(j) /\ Mine(j)[2] = tries[j] /\ tries[j] # 0
      /\ row[j] = 0
  BY MineIsMine DEF Persist, PersistRefused, TypeOK, JobInv, Attended, StartNoted
<1>2. Attended(j)' /\ MadeIsOver(j)' /\ StartNoted(j)'
  BY <1>0, <1>1 DEF Persist, PersistRefused, Fail, TypeOK, JobInv, Attended, MadeIsOver, StartNoted
<1>3. \A o \in Followed(j): j \notin asked => Followed(j) = {o} /\ o = Mine(j)
  BY <1>1 DEF JobInv, RunningIsKnown
<1>4. RunningIsKnown(j)'
  BY <1>0, <1>1, <1>3 DEF Persist, PersistRefused, Fail, TypeOK, JobInv, StartNoted, RunningIsKnown
<1>5. CopyIsKnown(j)'
  BY <1>0, <1>1, OperationParts DEF Persist, PersistRefused, Fail, TypeOK, JobInv, CopyIsKnown
<1> QED
  BY <1>2, <1>4, <1>5 DEF JobInv

LEMMA PollsKeep ==
    ASSUME TypeOK, NEW j \in Jobs, JobInv(j),
           Defer(j) \/ PollResult(j) \/ Commit(j) \/ Assess(j) \/ Finish(j)
    PROVE JobInv(j)'
<1>0. OfJob(j)' = OfJob(j) /\ Mine(j)' = Mine(j) /\ Followed(j)' = Followed(j)
  BY DEF OfJob, Operations, Mine, Followed, Defer, PollResult, Commit, Assess, Finish
<1>1. j \notin asked /\ pc[j] \in {"result", "assess", "done"} => Followed(j) = {}
  BY DEF JobInv, RunningIsKnown
<1>2. Attended(j)' /\ MadeIsOver(j)' /\ StartNoted(j)' /\ CopyIsKnown(j)'
  BY <1>0, <1>1 DEF Defer, PollResult, Commit, Assess, Finish, TypeOK, JobInv, Attended,
     MadeIsOver, StartNoted, CopyIsKnown
<1>3. RunningIsKnown(j)'
  <2>1. CASE Defer(j)
    BY <1>0, <2>1 DEF Defer, TypeOK, JobInv, RunningIsKnown
  <2>2. CASE PollResult(j)
    <3>1. j \notin asked => Followed(j) = {}
      BY <2>2, NamedIsOne DEF PollResult, JobInv, RunningIsKnown, Followed
    <3> QED
      BY <1>0, <2>2, <3>1 DEF PollResult, RunningIsKnown
  <2>3. CASE Commit(j) \/ Assess(j) \/ Finish(j)
    BY <1>0, <1>1, <2>3 DEF Commit, Assess, Finish, RunningIsKnown
  <2> QED
    BY <2>1, <2>2, <2>3
<1> QED
  BY <1>2, <1>3 DEF JobInv

LEMMA ForgetsKeep ==
    ASSUME TypeOK, NEW j \in Jobs, JobInv(j), PollRefused(j) \/ GiveUp(j) \/ Clean(j)
    PROVE JobInv(j)'
<1> USE DEF PollRefused, GiveUp, Disown
<1>0. OfJob(j)' = OfJob(j) /\ running' = running /\ asked' = asked
  BY DEF OfJob, Operations, Clean
<1>1. /\ Forget(j)
      /\ \A o \in OfJob(j): o \in lost' => o \in lost \/ o \in Named(j)
      /\ lost \subseteq lost'
  BY DEF Clean, Forget
<1>2. j \notin asked => Followed(j)' = {}
  <2>1. CASE PollRefused(j) \/ GiveUp(j)
    BY <1>0, <2>1, NamedIsOne DEF JobInv, RunningIsKnown, Followed
  <2>2. CASE Clean(j)
    BY <1>0, <2>2 DEF Clean, JobInv, RunningIsKnown, Followed
  <2> QED
    BY <2>1, <2>2
<1>3. Attended(j)' /\ MadeIsOver(j)' /\ StartNoted(j)'
  BY <1>0, <1>2 DEF Clean, Forget, Fail, TypeOK, JobInv, Attended, MadeIsOver, StartNoted
<1>4. RunningIsKnown(j)'
  BY <1>0, <1>2 DEF RunningIsKnown
<1>5. CopyIsKnown(j)'
  <2>1. \A o \in OfJob(j) \cap copies': o \in lost \/ o \notin Named(j) \/ o \in lost'
    BY <1>1 DEF Forget
  <2>2. \A o \in OfJob(j) \cap copies': o \in copies
    BY <1>1 DEF Forget
  <2>3. pc[j] # "persist"
    BY DEF Clean
  <2> QED
    BY <1>0, <1>1, <2>1, <2>2, <2>3, NamedIsOne DEF JobInv, CopyIsKnown
<1> QED
  BY <1>3, <1>4, <1>5 DEF JobInv

LEMMA HandlersKeep ==
    ASSUME TypeOK, NEW j \in Jobs, JobInv(j), HandlerCancelled(j)
    PROVE JobInv(j)'
<1>0. OfJob(j)' = OfJob(j) /\ Followed(j)' = Followed(j) \ Named(j)
  BY DEF OfJob, Operations, Followed, HandlerCancelled
<1>1. pc[j] # "persist" /\ pc[j] # "off"
  BY DEF HandlerCancelled
<1>2. Attended(j)' /\ StartNoted(j)'
  BY <1>1 DEF HandlerCancelled, TypeOK, JobInv, Attended, StartNoted
<1>3. MadeIsOver(j)'
  BY <1>0, <1>1 DEF HandlerCancelled, TypeOK, JobInv, MadeIsOver
<1>4. RunningIsKnown(j)'
  <2>1. job'[j] = "cancelled" /\ pc'[j] = "off" /\ asked' = asked
    BY DEF HandlerCancelled, TypeOK
  <2> QED
    BY <1>0, <2>1 DEF JobInv, RunningIsKnown
<1>5. CopyIsKnown(j)'
  BY <1>0, <1>1, NamedIsOne DEF HandlerCancelled, TypeOK, JobInv, CopyIsKnown
<1> QED
  BY <1>2, <1>3, <1>4, <1>5 DEF JobInv

\* What an error and a crash have in common: the worker is gone, and with it
\* the name of a start it had not written down.
LEMMA LettingGoKeeps ==
    ASSUME TypeOK, NEW j \in Jobs, JobInv(j), pc[j] # "off",
           pc' = [pc EXCEPT ![j] = "off"],
           UNCHANGED <<asked, tries, rowVars, made, serviceVars, disowned>>,
           job' = job \/ job'[j] # "cancelled",
           lost' = IF pc[j] = "persist" THEN lost \cup {Mine(j)} ELSE lost
    PROVE JobInv(j)'
<1>0. OfJob(j)' = OfJob(j) /\ Mine(j)' = Mine(j) /\ Followed(j)' = Followed(j)
  BY DEF OfJob, Operations, Mine, Followed
<1>1. Mine(j) \in OfJob(j) /\ Mine(j)[2] = tries[j]
  BY MineIsMine DEF TypeOK, JobInv, Attended
<1>2. Attended(j)' /\ MadeIsOver(j)' /\ StartNoted(j)'
  BY <1>0 DEF TypeOK, JobInv, Attended, MadeIsOver, StartNoted
<1>3. pc[j] = "persist" /\ j \notin asked => Uncertain(j)'
  BY DEF JobInv, StartNoted, Uncertain
<1>4. RunningIsKnown(j)'
  BY <1>0, <1>3 DEF TypeOK, JobInv, RunningIsKnown, Uncertain
<1>5. CopyIsKnown(j)'
  BY <1>0, <1>1 DEF TypeOK, JobInv, CopyIsKnown
<1> QED
  BY <1>2, <1>4, <1>5 DEF JobInv

LEMMA WorkerKeeps ==
    ASSUME TypeOK, NEW j \in Jobs, JobInv(j), WorkerStep(j)
    PROVE JobInv(j)'
<1>1. CASE Crash(j)
  BY <1>1, LettingGoKeeps DEF Crash
<1>2. ASSUME NEW retryable \in BOOLEAN, HandlerFails(j, retryable) PROVE JobInv(j)'
  BY <1>2, LettingGoKeeps DEF HandlerFails, TypeOK
<1> QED
  BY <1>1, <1>2, PreparesKeep, StartsKeep, PersistsKeep, PollsKeep, ForgetsKeep, HandlersKeep
  DEF WorkerStep

(***************************************************************************)
(* Steps of nobody's job.                                                  *)
(***************************************************************************)
LEMMA OverruleKeeps ==
    ASSUME TypeOK, NEW granted \in BOOLEAN, Overrule(granted), NEW j \in Jobs, JobInv(j)
    PROVE JobInv(j)'
<1>0. OfJob(j)' = OfJob(j) /\ Mine(j)' = Mine(j) /\ Followed(j)' = Followed(j)
  BY DEF OfJob, Operations, Mine, Followed, Overrule
<1>1. /\ asked \subseteq asked'
      /\ job'[j] # job[j] => j \in asked' /\ job[j] \in {"queued", "retry_wait"}
  BY DEF Overrule, TypeOK
<1>2. UNCHANGED <<tries, pc, rowVars, made, serviceVars, lost>>
  BY DEF Overrule
<1>3. Attended(j)' /\ MadeIsOver(j)' /\ StartNoted(j)' /\ CopyIsKnown(j)'
  BY <1>0, <1>1, <1>2 DEF JobInv, Attended, MadeIsOver, StartNoted, CopyIsKnown
<1>4. RunningIsKnown(j)'
  BY <1>0, <1>1, <1>2 DEF JobInv, RunningIsKnown, Uncertain
<1> QED
  BY <1>3, <1>4 DEF JobInv

LEMMA EndKeeps ==
    ASSUME TypeOK, NEW o \in Operations, OperationEnds(o), NEW j \in Jobs, JobInv(j)
    PROVE JobInv(j)'
<1>0. OfJob(j)' = OfJob(j) /\ Mine(j)' = Mine(j) /\ Followed(j)' \subseteq Followed(j)
  BY DEF OfJob, Operations, Mine, Followed, OperationEnds
<1>1. UNCHANGED <<job, asked, tries, pc, rowVars, made, copies, lost>>
  BY DEF OperationEnds
<1>2. Attended(j)' /\ MadeIsOver(j)' /\ StartNoted(j)' /\ CopyIsKnown(j)'
  BY <1>0, <1>1 DEF JobInv, Attended, MadeIsOver, StartNoted, CopyIsKnown
<1>3. RunningIsKnown(j)'
  BY <1>0, <1>1 DEF JobInv, RunningIsKnown, Uncertain
<1> QED
  BY <1>2, <1>3 DEF JobInv

-----------------------------------------------------------------------------
LEMMA JobStepKeeps ==
    ASSUME IInv, NEW j \in Jobs,
           CreateJob(j) \/ RetryJob(j) \/ CancelJob(j) \/ WorkerStep(j)
    PROVE TypeOK' /\ \A i \in Jobs: JobInv(i)'
<1>1. TypeOK'
  BY WorkerTypes, RequestTypes DEF IInv
<1>2. JobInv(j)'
  BY CreateKeeps, RetryKeeps, CancelKeeps, WorkerKeeps DEF IInv
<1>3. \A i \in Jobs \ {j}: JobInv(i)'
  BY StepIsOfOneJob, OthersKeep DEF IInv
<1> QED
  BY <1>1, <1>2, <1>3

LEMMA InvariantStep == IInv /\ [Next]_vars => IInv'
<1> SUFFICES ASSUME IInv, [Next]_vars PROVE IInv'
  OBVIOUS
<1>1. OneMade'
  BY OneMadeStep DEF IInv
<1>2. ASSUME NEW granted \in BOOLEAN, Overrule(granted)
      PROVE TypeOK' /\ \A j \in Jobs: JobInv(j)'
  <2>1. TypeOK'
    BY <1>2 DEF IInv, TypeOK, Overrule, JobStatus
  <2> QED
    BY <1>2, <2>1, OverruleKeeps DEF IInv
<1>3. ASSUME NEW o \in Operations, OperationEnds(o)
      PROVE TypeOK' /\ \A j \in Jobs: JobInv(j)'
  <2>1. TypeOK'
    BY <1>3 DEF IInv, TypeOK, OperationEnds
  <2> QED
    BY <1>3, <2>1, EndKeeps DEF IInv
<1>4. ASSUME UNCHANGED vars PROVE TypeOK' /\ \A j \in Jobs: JobInv(j)'
  <2>1. TypeOK'
    BY <1>4 DEF IInv, TypeOK, vars
  <2>2. ASSUME NEW j \in Jobs PROVE JobInv(j)'
    <3>1. OfJob(j)' = OfJob(j) /\ Mine(j)' = Mine(j) /\ Followed(j)' = Followed(j)
      BY <1>4 DEF OfJob, Operations, Mine, Followed, vars
    <3> QED
      BY <1>4, <3>1 DEF IInv, vars, JobInv, Attended, MadeIsOver, StartNoted,
         RunningIsKnown, CopyIsKnown, Uncertain
  <2> QED
    BY <2>1, <2>2
<1>5. TypeOK' /\ \A j \in Jobs: JobInv(j)'
  BY <1>2, <1>3, <1>4, JobStepKeeps DEF Next
<1> QED
  BY <1>1, <1>5 DEF IInv

LEMMA Invariance == Spec => []IInv
<1>1. Init => IInv
  BY DEF Init, IInv, TypeOK, RecordingStatus, JobStatus, WorkerPc, OneMade, JobInv, Attended,
     MadeIsOver, StartNoted, RunningIsKnown, CopyIsKnown, Followed
<1> QED
  BY <1>1, InvariantStep, PTL DEF Spec

(***************************************************************************)
(* What it is for.                                                         *)
(***************************************************************************)
\* However many jobs are asked for a recording, however they overlap, fail,
\* crash or run again, one of them writes its transcript, and the recording is
\* 'transcribed' exactly then.
THEOREM OneTranscriptIsMade == Spec => []OneTranscript
<1>1. IInv => OneTranscript
  <2> SUFFICES ASSUME OneMade PROVE OneTranscript
    BY DEF IInv
  <2>1. made = {} \/ \E j \in made: made = {j}
    BY DEF OneMade
  <2>2. ASSUME NEW j \in made, made = {j} PROVE Cardinality(made) = 1
    BY <2>2, FS_Singleton
  <2>3. made = {} => Cardinality(made) = 0
    BY FS_EmptySet
  <2> QED
    BY <2>1, <2>2, <2>3 DEF OneMade, OneTranscript
<1> QED
  BY <1>1, Invariance, PTL

\* A job runs one operation at a time, and a worker at the job follows it,
\* whatever crashed or got lost, unless a cancellation was asked for; what an
\* error or the last poll made the job give up does not count.
THEOREM StartsAreNotDoubled == Spec => []StartedOnce
<1>1. IInv => StartedOnce
  <2> SUFFICES ASSUME IInv, NEW j \in Jobs \ asked, NEW o \in Followed(j)
               PROVE /\ Followed(j) = {o}
                     /\ \/ pc[j] \in {"off", "prepare"}
                        \/ pc[j] = "persist" /\ o = Mine(j)
                        \/ pc[j] = "poll" /\ o \in Named(j)
    BY DEF StartedOnce
  <2>1. o \in OfJob(j)
    BY DEF Followed
  <2> QED
    BY <2>1, NamedIsOne DEF IInv, JobInv, RunningIsKnown
<1> QED
  BY <1>1, Invariance, PTL

\* Copies of the audio at the service stay within reach of a row or a worker,
\* but for those whose name or cleanup was lost.
THEOREM CopiesStayKnown == Spec => []CopiesAreKnown
<1>1. IInv => CopiesAreKnown
  <2> SUFFICES ASSUME IInv, NEW o \in copies \ lost
               PROVE row[o[1]] = o[2] \/ (pc[o[1]] = "persist" /\ o = Mine(o[1]))
    BY DEF CopiesAreKnown
  <2>1. o[1] \in Jobs /\ o \in OfJob(o[1])
    BY DEF IInv, TypeOK, Operations, OfJob
  <2> QED
    BY <2>1 DEF IInv, JobInv, CopyIsKnown
<1> QED
  BY <1>1, Invariance, PTL
=============================================================================
