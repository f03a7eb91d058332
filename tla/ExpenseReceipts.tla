-------------------------- MODULE ExpenseReceipts ---------------------------
(***************************************************************************)
(* Receipts of one member's day: images are announced, uploaded through a  *)
(* signed URL and completed; a job normalizes them and has them read by    *)
(* the AI; a person registers the result as an expense or sets the receipt *)
(* aside; when its retention is over the purge erases its content, unless  *)
(* a legal hold came first.                                                *)
(*                                                                         *)
(* An action is one transaction, one call of the bucket or of the AI.  A   *)
(* job has one live worker (OnlyOneRunner of JobQueue); jobs of one        *)
(* receipt overlap.  A request whose answer changes nothing is left out.   *)
(***************************************************************************)
EXTENDS Naturals, FiniteSets

CONSTANTS
    Receipts,       \* expense_receipts of one day and one owner
    Jobs,           \* jobs of type expense_receipt_reading
    MaxImages,      \* images of a receipt; the code allows 5
    MaxAttempts,    \* max_attempts of the jobs; the code gives them 2
    NoJob,          \* an absent job_id
    NoReceipt       \* the receipt of a job not created

ASSUME ReceiptsAssumption ==
    /\ MaxImages \in Nat \ {0}
    /\ MaxAttempts \in Nat \ {0}
    /\ NoJob \notin Jobs
    /\ NoReceipt \notin Receipts

Images == Receipts \X (1..MaxImages)
Original(i) == <<i, "original">>
Normalized(i) == <<i, "normalized">>
Objects == Images \X {"original", "normalized"}
ImagesOf(r) == {i \in Images: i[1] = r}
ObjectsOf(r) == {o \in Objects: o[1][1] = r}

Pending == {"uploading", "uploaded", "reading", "review_required", "failed"}
ReceiptStatus == {"none", "registered", "excluded", "deleting", "deleted"} \cup Pending
ImageStatus == {"none", "waiting", "complete"}
JobStatus == {"none", "queued", "running", "retry_wait", "succeeded", "failed", "cancelled"}

VARIABLES
    status,     \* receipt -> expense_receipts.status; none before the row
    jobId,      \* receipt -> job_id
    read,       \* receipts with a reading_json
    expired,    \* receipts past expires_at
    held,       \* receipts with legal_hold
    item,       \* receipts with a registered_item_id
    open,       \* the branch's day is not closed
    image,      \* image -> no row, completed_at NULL, completed
    url,        \* images whose upload_expires_at, and signed URL, is ahead
    stored,     \* objects whose bytes are in the bucket
    listed,     \* objects with a storage_objects row 'available'
    late,       \* history: objects uploaded after their receipt's purge began
    unnamed,    \* <<j, i>>: the worker of j has put bytes for i, without a row
    stray,      \* images with such bytes that their worker left behind
    job,        \* job -> jobs.status
    about,      \* job -> its receipt
    tries,      \* job -> attempt_count, up to MaxAttempts
    asked,      \* jobs with cancel_requested_at
    pc,         \* job -> what its worker does next; off without a worker
    todo,       \* job -> images its worker has not in hand
    committed,  \* history: jobs whose reading has been committed
    sweep,      \* receipts the running purge has still to go through
    goal,       \* objects it has listed and not recorded as deleted
    erased      \* objects it has deleted from the bucket and not recorded

rowVars == <<status, jobId, read, held, item>>
imageVars == <<image, url>>
bytesVars == <<stored, late, unnamed, stray>>
jobVars == <<job, about, tries, asked, pc, todo, committed>>
sweepVars == <<sweep, goal, erased>>
vars == <<rowVars, expired, open, imageVars, bytesVars, listed, jobVars, sweepVars>>

WorkerPc == {"off", "start", "images", "put", "asking", "done"}

TypeOK ==
    /\ status \in [Receipts -> ReceiptStatus]
    /\ jobId \in [Receipts -> Jobs \cup {NoJob}]
    /\ {read, expired, held, item, sweep} \subseteq SUBSET Receipts
    /\ open \in BOOLEAN
    /\ image \in [Images -> ImageStatus]
    /\ url \subseteq Images
    /\ {stored, listed, late, goal, erased} \subseteq SUBSET Objects
    /\ unnamed \subseteq Jobs \X Images
    /\ stray \subseteq Images
    /\ job \in [Jobs -> JobStatus]
    /\ about \in [Jobs -> Receipts \cup {NoReceipt}]
    /\ tries \in [Jobs -> 0..MaxAttempts]
    /\ {asked, committed} \subseteq SUBSET Jobs
    /\ pc \in [Jobs -> WorkerPc]
    /\ todo \in [Jobs -> SUBSET Images]

Init ==
    /\ status = [r \in Receipts |-> "none"]
    /\ jobId = [r \in Receipts |-> NoJob]
    /\ read = {} /\ expired = {} /\ held = {} /\ item = {}
    /\ open = TRUE
    /\ image = [i \in Images |-> "none"]
    /\ url = {} /\ stored = {} /\ listed = {} /\ late = {}
    /\ unnamed = {} /\ stray = {}
    /\ job = [j \in Jobs |-> "none"]
    /\ about = [j \in Jobs |-> NoReceipt]
    /\ tries = [j \in Jobs |-> 0]
    /\ asked = {} /\ committed = {}
    /\ pc = [j \in Jobs |-> "off"]
    /\ todo = [j \in Jobs |-> {}]
    /\ sweep = {} /\ goal = {} /\ erased = {}

-----------------------------------------------------------------------------
(* The API.  Every writing handler takes the lock of the branch's day and  *)
(* is refused once the day is closed.                                      *)

Collecting(r) == status[r] \in {"uploading", "uploaded"} /\ r \notin expired

\* addImage: the first image inserts the receipt; any image makes it wait.
AddImage(i) ==
    LET r == i[1] IN
    /\ open
    /\ image[i] = "none"
    /\ status[r] = "none" \/ Collecting(r)
    /\ image' = [image EXCEPT ![i] = "waiting"]
    /\ url' = url \cup {i}
    /\ status' = [status EXCEPT ![r] = "uploading"]
    /\ UNCHANGED <<jobId, read, held, item, expired, open, bytesVars, listed, jobVars, sweepVars>>

RenewImage(i) ==
    /\ open
    /\ image[i] = "waiting"
    /\ Collecting(i[1])
    /\ url' = url \cup {i}
    /\ UNCHANGED <<rowVars, expired, open, image, bytesVars, listed, jobVars, sweepVars>>

\* The browser's PUT through the signed URL: it writes once (ifGenerationMatch 0).
Upload(i) ==
    /\ i \in url
    /\ Original(i) \notin stored
    /\ stored' = stored \cup {Original(i)}
    /\ late' = IF status[i[1]] \in {"deleting", "deleted"} THEN late \cup {Original(i)} ELSE late
    /\ UNCHANGED <<unnamed, stray, rowVars, expired, open, imageVars, listed, jobVars, sweepVars>>

\* completeImage: the bytes are verified before the transaction; while its
\* guards hold nothing removes them in between.
CompleteImage(i) ==
    LET r == i[1] IN
    /\ open
    /\ image[i] = "waiting"
    /\ i \in url
    /\ Original(i) \in stored
    /\ Collecting(r)
    /\ image' = [image EXCEPT ![i] = "complete"]
    /\ listed' = listed \cup {Original(i)}
    /\ status' = [status EXCEPT ![r] =
           IF \E k \in ImagesOf(r): image'[k] = "waiting" THEN "uploading" ELSE "uploaded"]
    /\ UNCHANGED <<jobId, read, held, item, expired, open, url, bytesVars, jobVars, sweepVars>>

Analyze(r, j) ==
    /\ open
    /\ status[r] \in {"uploaded", "failed"}
    /\ r \notin expired
    /\ \E i \in ImagesOf(r): image[i] = "complete"
    /\ job[j] = "none"
    /\ job' = [job EXCEPT ![j] = "queued"]
    /\ about' = [about EXCEPT ![j] = r]
    /\ status' = [status EXCEPT ![r] = "reading"]
    /\ jobId' = [jobId EXCEPT ![r] = j]
    /\ UNCHANGED <<read, held, item, expired, open, imageVars, bytesVars, listed, tries, asked, pc,
                   todo, committed, sweepVars>>

Exclude(r) ==
    /\ open
    /\ status[r] \in Pending \ {"reading"}
    /\ status' = [status EXCEPT ![r] = "excluded"]
    /\ UNCHANGED <<jobId, read, held, item, expired, open, imageVars, bytesVars, listed, jobVars, sweepVars>>

\* Mutant of Register: the branch's day is not looked at.
RegisterAfterClosing(r) ==
    /\ status[r] \in {"review_required", "failed"}
    /\ r \notin expired
    /\ status' = [status EXCEPT ![r] = "registered"]
    /\ item' = item \cup {r}
    /\ UNCHANGED <<jobId, read, held, expired, open, imageVars, bytesVars, listed, jobVars, sweepVars>>

Register(r) ==
    /\ open
    /\ status[r] \in {"review_required", "failed"}
    /\ r \notin expired
    /\ status' = [status EXCEPT ![r] = "registered"]
    /\ item' = item \cup {r}
    /\ UNCHANGED <<jobId, read, held, expired, open, imageVars, bytesVars, listed, jobVars, sweepVars>>

\* The branch's day is closed; its owner need not be a participant.
CloseDay ==
    /\ open
    /\ open' = FALSE
    /\ UNCHANGED <<rowVars, expired, imageVars, bytesVars, listed, jobVars, sweepVars>>

\* An operator changes legal_hold; the trigger refuses it after the fence.
ChangeHold(r) ==
    /\ status[r] \notin {"none", "deleting", "deleted"}
    /\ held' = IF r \in held THEN held \ {r} ELSE held \cup {r}
    /\ UNCHANGED <<status, jobId, read, item, expired, open, imageVars, bytesVars, listed, jobVars, sweepVars>>

\* cancelJob: a job without a worker ends; what it was about is not touched.
CancelJob(j) ==
    /\ job[j] \in {"queued", "retry_wait", "running"}
    /\ asked' = asked \cup {j}
    /\ job' = [job EXCEPT ![j] = IF @ = "running" THEN @ ELSE "cancelled"]
    /\ UNCHANGED <<rowVars, expired, open, imageVars, bytesVars, listed, about, tries, pc, todo,
                   committed, sweepVars>>

RetryJob(j) ==
    /\ job[j] \in {"failed", "retry_wait"}
    /\ job' = [job EXCEPT ![j] = "queued"]
    /\ UNCHANGED <<rowVars, expired, open, imageVars, bytesVars, listed, about, tries, asked, pc, todo,
                   committed, sweepVars>>

-----------------------------------------------------------------------------
(* The worker: processExpenseReceipt inside the frame of a job.            *)

\* activeReceipt: what every transaction of the handler requires.
Active(j) ==
    LET r == about[j] IN
    /\ status[r] = "reading"
    /\ jobId[r] = j
    /\ r \notin expired

\* The result was committed and only the job's own end was lost.
AlreadyRead(j) ==
    LET r == about[j] IN
    /\ jobId[r] = j
    /\ status[r] \in {"review_required", "registered", "excluded"}
    /\ r \in read

\* Claimed for the first time or again, its former worker being dead.
Claim(j) ==
    /\ job[j] \in {"queued", "retry_wait", "running"}
    /\ pc[j] = "off"
    /\ j \notin asked
    /\ job' = [job EXCEPT ![j] = "running"]
    /\ tries' = [tries EXCEPT ![j] = IF @ = MaxAttempts THEN @ ELSE @ + 1]
    /\ pc' = [pc EXCEPT ![j] = "start"]
    /\ UNCHANGED <<rowVars, expired, open, imageVars, bytesVars, listed, about, asked, todo, committed, sweepVars>>

Begin(j) ==
    /\ pc[j] = "start"
    /\ \/ /\ AlreadyRead(j)
          /\ pc' = [pc EXCEPT ![j] = "done"]
          /\ UNCHANGED todo
       \/ /\ ~AlreadyRead(j)
          /\ Active(j)
          /\ pc' = [pc EXCEPT ![j] = "images"]
          /\ todo' = [todo EXCEPT ![j] = {i \in ImagesOf(about[j]): image[i] = "complete"}]
    /\ UNCHANGED <<rowVars, expired, open, imageVars, bytesVars, listed, job, about, tries, asked, committed, sweepVars>>

NextImage(j) == CHOOSE i \in todo[j]: TRUE

\* An image normalized by an earlier attempt is read from the bucket.
ReuseNormalized(j) ==
    /\ pc[j] = "images"
    /\ todo[j] # {}
    /\ Active(j)
    /\ Normalized(NextImage(j)) \in listed
    /\ todo' = [todo EXCEPT ![j] = @ \ {NextImage(j)}]
    /\ UNCHANGED <<rowVars, expired, open, imageVars, bytesVars, listed, job, about, tries, asked, pc,
                   committed, sweepVars>>

\* The copy the worker of j puts for the image it has come to.
Copy(j) == <<j, NextImage(j)>>

\* The normalized bytes are put under a random name, which no row mentions yet.
PutNormalized(j) ==
    /\ pc[j] = "images"
    /\ todo[j] # {}
    /\ Active(j)
    /\ Normalized(NextImage(j)) \notin listed
    /\ Original(NextImage(j)) \in stored
    /\ unnamed' = unnamed \cup {Copy(j)}
    /\ pc' = [pc EXCEPT ![j] = "put"]
    /\ UNCHANGED <<rowVars, expired, open, imageVars, stored, late, stray, listed, job, about, tries,
                   asked, todo, committed, sweepVars>>

\* The row is written if the receipt is still this job's; otherwise HandlerFails.
RecordNormalized(j) ==
    /\ pc[j] = "put"
    /\ Active(j)
    /\ Normalized(NextImage(j)) \notin listed
    /\ stored' = stored \cup {Normalized(NextImage(j))}
    /\ unnamed' = unnamed \ {Copy(j)}
    /\ listed' = listed \cup {Normalized(NextImage(j))}
    /\ todo' = [todo EXCEPT ![j] = @ \ {NextImage(j)}]
    /\ pc' = [pc EXCEPT ![j] = "images"]
    /\ UNCHANGED <<late, stray, rowVars, expired, open, imageVars, job, about, tries, asked,
                   committed, sweepVars>>

\* The catch removes the copy after seeing that no row names it.
RemoveCopy(j) ==
    /\ unnamed' = unnamed \ {Copy(j)}
    /\ UNCHANGED stray

LeaveCopy(j) ==
    /\ unnamed' = unnamed \ {Copy(j)}
    /\ stray' = stray \cup {NextImage(j)}

AskAI(j) ==
    /\ pc[j] = "images"
    /\ todo[j] = {}
    /\ pc' = [pc EXCEPT ![j] = "asking"]
    /\ UNCHANGED <<rowVars, expired, open, imageVars, bytesVars, listed, job, about, tries, asked, todo,
                   committed, sweepVars>>

\* Mutant of CommitReading: the status is left for the end of the job.
CommitLeavesReading(j) ==
    LET r == about[j] IN
    /\ pc[j] = "asking"
    /\ Active(j)
    /\ read' = read \cup {r}
    /\ committed' = committed \cup {j}
    /\ pc' = [pc EXCEPT ![j] = "done"]
    /\ UNCHANGED <<status, jobId, held, item, expired, open, imageVars, bytesVars, listed, job, about, tries,
                   asked, todo, sweepVars>>

CommitReading(j) ==
    LET r == about[j] IN
    /\ pc[j] = "asking"
    /\ Active(j)
    /\ status' = [status EXCEPT ![r] = "review_required"]
    /\ read' = read \cup {r}
    /\ committed' = committed \cup {j}
    /\ pc' = [pc EXCEPT ![j] = "done"]
    /\ UNCHANGED <<jobId, held, item, expired, open, imageVars, bytesVars, listed, job, about, tries, asked,
                   todo, sweepVars>>

\* markEntityFailure and markEntityCancelled: only the current job ends a reading.
EndReading(j) ==
    LET r == about[j] IN
    status' = IF jobId[r] = j /\ status[r] = "reading"
              THEN [status EXCEPT ![r] = "failed"] ELSE status

Finish(j) ==
    /\ pc[j] = "done"
    /\ j \notin asked
    /\ job' = [job EXCEPT ![j] = "succeeded"]
    /\ pc' = [pc EXCEPT ![j] = "off"]
    /\ UNCHANGED <<rowVars, expired, open, imageVars, bytesVars, listed, about, tries, asked, todo,
                   committed, sweepVars>>

FinishCancelled(j) ==
    /\ pc[j] = "done"
    /\ j \in asked
    /\ job' = [job EXCEPT ![j] = "cancelled"]
    /\ pc' = [pc EXCEPT ![j] = "off"]
    /\ EndReading(j)
    /\ UNCHANGED <<jobId, read, held, item, expired, open, imageVars, bytesVars, listed, about, tries, asked,
                   todo, committed, sweepVars>>

\* Any step of the handler may fail, for a time while attempts are left; a copy
\* in hand is removed, unless the catch fails as well.
HandlerFails(j, retryable) ==
    /\ pc[j] # "off"
    /\ retryable => tries[j] < MaxAttempts
    /\ job' = [job EXCEPT ![j] = IF retryable THEN "retry_wait" ELSE "failed"]
    /\ IF retryable THEN UNCHANGED status ELSE EndReading(j)
    /\ pc' = [pc EXCEPT ![j] = "off"]
    /\ todo' = [todo EXCEPT ![j] = {}]
    /\ IF pc[j] = "put" THEN RemoveCopy(j) \/ LeaveCopy(j) ELSE UNCHANGED <<unnamed, stray>>
    /\ UNCHANGED <<jobId, read, held, item, expired, open, imageVars, stored, late, listed, about, tries,
                   asked, committed, sweepVars>>

\* The worker dies; its lease lapses and the job is claimed again.
Crash(j) ==
    /\ pc[j] # "off"
    /\ pc' = [pc EXCEPT ![j] = "off"]
    /\ todo' = [todo EXCEPT ![j] = {}]
    /\ IF pc[j] = "put" THEN LeaveCopy(j) ELSE UNCHANGED <<unnamed, stray>>
    /\ UNCHANGED <<rowVars, expired, open, imageVars, stored, late, listed, job, about, tries, asked,
                   committed, sweepVars>>

-----------------------------------------------------------------------------
(* The purge of a retention scan, one at a time.                           *)

\* Mutant of Purgeable: holds are not looked at.
PurgeableHeldOrNot == {r \in expired: status[r] # "deleted"}

\* What a purge takes: it skips held receipts and resumes interrupted ones.
Purgeable == {r \in expired: r \notin held /\ status[r] # "deleted"}

SelectExpired ==
    /\ sweep = {}
    /\ Purgeable # {}
    /\ sweep' = Purgeable
    /\ status' = [r \in Receipts |-> IF r \in Purgeable THEN "deleting" ELSE status[r]]
    /\ UNCHANGED <<jobId, read, held, item, expired, open, imageVars, bytesVars, listed, jobVars, goal, erased>>

\* The objects of one receipt are listed from its rows.
ListObjects(r) ==
    /\ r \in sweep
    /\ goal = {} /\ erased = {}
    /\ listed \cap ObjectsOf(r) # {}
    /\ goal' = listed \cap ObjectsOf(r)
    /\ UNCHANGED <<rowVars, expired, open, imageVars, bytesVars, listed, jobVars, sweep, erased>>

EraseObject(o) ==
    /\ o \in goal
    /\ erased = {}
    /\ stored' = stored \ {o}
    /\ UNCHANGED <<late, unnamed, stray>>
    /\ erased' = {o}
    /\ UNCHANGED <<rowVars, expired, open, imageVars, listed, jobVars, sweep, goal>>

RecordErased(o) ==
    /\ o \in erased
    /\ listed' = listed \ {o}
    /\ goal' = goal \ {o}
    /\ erased' = {}
    /\ UNCHANGED <<rowVars, expired, open, imageVars, bytesVars, jobVars, sweep>>

\* Mutant of FinishPurge: uploads that were never completed are left.
FinishPurgeOfRows(r) ==
    /\ r \in sweep
    /\ goal = {}
    /\ listed \cap ObjectsOf(r) = {}
    /\ status' = [status EXCEPT ![r] = IF @ = "deleting" /\ r \notin held THEN "deleted" ELSE @]
    /\ read' = IF status'[r] = "deleted" THEN read \ {r} ELSE read
    /\ sweep' = sweep \ {r}
    /\ UNCHANGED <<jobId, held, item, expired, open, imageVars, bytesVars, listed, jobVars, goal, erased>>

\* deleteIncompleteUpload for images never completed, then the content of the row.
FinishPurge(r) ==
    /\ r \in sweep
    /\ goal = {}
    /\ listed \cap ObjectsOf(r) = {}
    /\ stored' = stored \ {Original(i): i \in {k \in ImagesOf(r): image[k] = "waiting"}}
    /\ UNCHANGED <<late, unnamed, stray>>
    /\ status' = [status EXCEPT ![r] = IF @ = "deleting" /\ r \notin held THEN "deleted" ELSE @]
    /\ read' = IF status'[r] = "deleted" THEN read \ {r} ELSE read
    /\ sweep' = sweep \ {r}
    /\ UNCHANGED <<jobId, held, item, expired, open, imageVars, listed, jobVars, goal, erased>>

PurgeStops ==
    /\ sweep # {}
    /\ sweep' = {} /\ goal' = {} /\ erased' = {}
    /\ UNCHANGED <<rowVars, expired, open, imageVars, bytesVars, listed, jobVars>>

-----------------------------------------------------------------------------
(* Time.                                                                   *)

Expire(r) ==
    /\ status[r] # "none"
    /\ r \notin expired
    /\ expired' = expired \cup {r}
    /\ UNCHANGED <<rowVars, open, imageVars, bytesVars, listed, jobVars, sweepVars>>

UrlLapses(i) ==
    /\ i \in url
    /\ url' = url \ {i}
    /\ UNCHANGED <<rowVars, expired, open, image, bytesVars, listed, jobVars, sweepVars>>

-----------------------------------------------------------------------------
ImageStep(i) == AddImage(i) \/ RenewImage(i) \/ Upload(i) \/ CompleteImage(i) \/ UrlLapses(i)

ReceiptStep(r) ==
    \/ Exclude(r) \/ Register(r) \/ ChangeHold(r) \/ Expire(r)
    \/ ListObjects(r) \/ FinishPurge(r)
    \/ \E j \in Jobs: Analyze(r, j)

JobStep(j) ==
    \/ CancelJob(j) \/ RetryJob(j) \/ Claim(j) \/ Begin(j)
    \/ ReuseNormalized(j) \/ PutNormalized(j) \/ RecordNormalized(j)
    \/ AskAI(j) \/ CommitReading(j) \/ Finish(j) \/ FinishCancelled(j)
    \/ \E retryable \in BOOLEAN: HandlerFails(j, retryable)
    \/ Crash(j)

PurgeStep ==
    \/ SelectExpired \/ PurgeStops
    \/ \E o \in Objects: EraseObject(o) \/ RecordErased(o)

Next ==
    \/ \E i \in Images: ImageStep(i)
    \/ \E r \in Receipts: ReceiptStep(r)
    \/ \E j \in Jobs: JobStep(j)
    \/ PurgeStep \/ CloseDay

Spec == Init /\ [][Next]_vars

-----------------------------------------------------------------------------
(* Properties                                                              *)

\* A legal hold protects: whatever the purge is doing, a held receipt keeps
\* the bytes of every object its rows mention, and its reading.
HeldReceiptKeepsContent ==
    \A r \in held:
        /\ listed \cap ObjectsOf(r) \subseteq stored
        /\ \A i \in ImagesOf(r): image[i] = "complete" => Original(i) \in listed
        /\ status[r] = "review_required" => r \in read

\* A purged receipt is erased, although workers and purges go on around the
\* erasure: no object keeps its row.  The only bytes left are those a browser
\* uploaded, through a URL that was still alive, after the purge had begun, and
\* normalized copies that no row ever named: one a worker still has in hand, or
\* one it left behind, dying or failing to remove it, which no purge finds.
PurgedIsErased ==
    \A r \in Receipts: status[r] = "deleted" =>
        /\ listed \cap ObjectsOf(r) = {}
        /\ stored \cap ObjectsOf(r) \subseteq late
        /\ \A c \in unnamed: c[2] \in ImagesOf(r) => pc[c[1]] = "put" /\ c = Copy(c[1])

\* The AI is never asked again by a job whose reading has been committed,
\* however often the job is repeated.
ReadOnce ==
    [][\A j \in Jobs: pc[j] # "asking" /\ pc'[j] = "asking" => j \notin committed]_vars

\* A receipt being read stays so until its own job ends it or its content
\* is purged; a job of an earlier request never does.
OnlyItsJobEndsReading ==
    [][\A r \in Receipts: status[r] = "reading" /\ status'[r] # "reading" =>
          status'[r] = "deleting" \/ (pc[jobId[r]] # "off" /\ pc'[jobId[r]] # pc[jobId[r]])]_vars

\* What the closing of the branch's day relies on.
PhaseOf(r) ==
    CASE status[r] = "none" -> "none"
      [] r \in item -> "booked"
      [] status[r] \in Pending -> "pending"
      [] OTHER -> "dropped"

Life == INSTANCE ReceiptLifecycle WITH phase <- [r \in Receipts |-> PhaseOf(r)]
ImplementsLifecycle == Life!Spec
=============================================================================
