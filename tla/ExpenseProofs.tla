--------------------------- MODULE ExpenseProofs ----------------------------
(***************************************************************************)
(* What the two halves of the expenses keep for any number of members,     *)
(* receipts, images and jobs.  ExpenseReceipts implements ReceiptLifecycle *)
(* with hands that may die and files that may be lost, a hold keeps        *)
(* content and a purge leaves none; ExpenseClosing is built on the same    *)
(* ReceiptLifecycle, and what it closes is what was reconciled.            *)
(***************************************************************************)
EXTENDS ExpenseReceipts, ExpenseClosing, WellFoundedInduction, TLAPS

USE ReceiptsAssumption DEF ReceiptsAssumption,
    rowVars, imageVars, bytesVars, jobVars, sweepVars
USE ClosingAssumption DEF ClosingAssumption,
    branchVars, peopleVars, recordVars, cashVars

(***************************************************************************)
(* Rows.  A receipt in hand of the settlement is registered, or was when   *)
(* its purge began; only rows that exist expire, are held or are purged.   *)
(***************************************************************************)
Leaving == {"deleting", "deleted"}

Rows ==
    /\ status \in [Receipts -> ReceiptStatus]
    /\ {expired, held, item, sweep} \subseteq SUBSET Receipts
    /\ \A r \in item: status[r] \in {"registered"} \cup Leaving
    /\ \A r \in expired \cup held: status[r] # "none"
    /\ \A r \in held: status[r] \notin Leaving
    /\ \A r \in sweep: status[r] \in Leaving

LEMMA RowsImage ==
    ASSUME Rows, NEW i \in Images, ImageStep(i) PROVE Rows'
<1> USE DEF Rows, Leaving, ReceiptStatus, Pending, Images, Collecting
<1>1. CASE AddImage(i)
  BY <1>1 DEF AddImage
<1>2. CASE RenewImage(i)
  BY <1>2 DEF RenewImage
<1>3. CASE Upload(i)
  BY <1>3 DEF Upload
<1>4. CASE CompleteImage(i)
  BY <1>4 DEF CompleteImage
<1>5. CASE UrlLapses(i)
  BY <1>5 DEF UrlLapses
<1> QED
  BY <1>1, <1>2, <1>3, <1>4, <1>5 DEF ImageStep

LEMMA RowsReceipt ==
    ASSUME Rows, NEW r \in Receipts, ReceiptStep(r) PROVE Rows'
<1> USE DEF Rows, Leaving, ReceiptStatus, Pending
<1>1. CASE Exclude(r)
  BY <1>1 DEF Exclude
<1>2. CASE Register(r)
  BY <1>2 DEF Register
<1>3. CASE ChangeHold(r)
  BY <1>3 DEF ChangeHold
<1>4. CASE Expire(r)
  BY <1>4 DEF Expire
<1>5. CASE ListObjects(r)
  BY <1>5 DEF ListObjects
<1>6. CASE FinishPurge(r)
  BY <1>6 DEF FinishPurge
<1>7. CASE \E j \in Jobs: Analyze(r, j)
  BY <1>7 DEF Analyze
<1> QED
  BY <1>1, <1>2, <1>3, <1>4, <1>5, <1>6, <1>7 DEF ReceiptStep

LEMMA RowsJob ==
    ASSUME Rows, NEW j \in Jobs, JobStep(j) PROVE Rows'
<1> USE DEF Rows, Leaving, ReceiptStatus, Pending, Active, EndReading
<1>1. CASE CommitReading(j)
  BY <1>1 DEF CommitReading
<1>2. CASE FinishCancelled(j)
  BY <1>2 DEF FinishCancelled
<1>3. CASE \E retryable \in BOOLEAN: HandlerFails(j, retryable)
  BY <1>3 DEF HandlerFails
<1>4. CASE UNCHANGED <<rowVars, expired, sweepVars>>
  BY <1>4
<1> QED
  BY <1>1, <1>2, <1>3, <1>4 DEF JobStep, CancelJob, RetryJob, Claim, Begin, ReuseNormalized,
     PutNormalized, RecordNormalized, AskAI, Finish, Crash

LEMMA RowsStep == ASSUME Rows, [Next]_vars PROVE Rows'
<1> USE DEF Rows, Leaving, ReceiptStatus, Pending
<1>1. CASE SelectExpired
  BY <1>1 DEF SelectExpired, Purgeable
<1>2. CASE PurgeStops \/ CloseDay \/ \E o \in Objects: EraseObject(o) \/ RecordErased(o)
  BY <1>2 DEF PurgeStops, CloseDay, EraseObject, RecordErased
<1>3. CASE UNCHANGED vars
  BY <1>3 DEF vars
<1> QED
  BY <1>1, <1>2, <1>3, RowsImage, RowsReceipt, RowsJob DEF Next, PurgeStep

LEMMA RowsInvariant == Spec => []Rows
<1>1. Init => Rows
  BY DEF Init, Rows, Leaving, ReceiptStatus, Pending
<1>2. Rows /\ [Next]_vars => Rows'
  BY RowsStep
<1> QED
  BY <1>1, <1>2, PTL DEF Spec

(***************************************************************************)
(* The lifecycle.                                                          *)
(***************************************************************************)
Phases == [r \in Receipts |-> PhaseOf(r)]

LEMMA LifeImage ==
    ASSUME Rows, NEW i \in Images, ImageStep(i) PROVE [Life!Next]_(Life!lifeVars)
<1> USE DEF Rows, Leaving, Images, ReceiptStatus, Pending
<1>1. CASE AddImage(i)
  <2>1. CASE status[i[1]] = "none"
    <3>1. Phases' = [Phases EXCEPT ![i[1]] = "pending"]
      BY <1>1, <2>1 DEF AddImage, Phases, PhaseOf
    <3>2. Phases[i[1]] = "none" /\ i[1] \in Receipts
      BY <2>1 DEF Phases, PhaseOf
    <3> QED
      BY <1>1, <3>1, <3>2 DEF AddImage, Phases, Life!Take, Life!Next
  <2>2. CASE Collecting(i[1])
    BY <1>1, <2>2 DEF AddImage, Collecting, PhaseOf, Life!lifeVars
  <2> QED
    BY <1>1, <2>1, <2>2 DEF AddImage
<1>2. CASE CompleteImage(i)
  BY <1>2 DEF CompleteImage, Collecting, PhaseOf, Life!lifeVars
<1>3. CASE RenewImage(i) \/ Upload(i) \/ UrlLapses(i)
  BY <1>3 DEF RenewImage, Upload, UrlLapses, PhaseOf, Life!lifeVars
<1> QED
  BY <1>1, <1>2, <1>3 DEF ImageStep

LEMMA LifeReceipt ==
    ASSUME Rows, NEW r \in Receipts, ReceiptStep(r) PROVE [Life!Next]_(Life!lifeVars)
<1> USE DEF Rows, Leaving, ReceiptStatus, Pending
<1>1. CASE Exclude(r)
  <2>1. Phases' = [q \in Receipts |-> IF q \in {r} THEN "dropped" ELSE Phases[q]]
    BY <1>1 DEF Exclude, Phases, PhaseOf
  <2>2. Phases[r] = "pending"
    BY <1>1 DEF Exclude, Phases, PhaseOf
  <2>3. Life!DropAll({r})
    BY <1>1, <2>1, <2>2 DEF Exclude, Phases, Life!DropAll
  <2> QED
    BY <2>3 DEF Life!Next
<1>2. CASE Register(r)
  <2>1. Phases' = [Phases EXCEPT ![r] = "booked"]
    BY <1>2 DEF Register, Phases, PhaseOf
  <2>2. Phases[r] = "pending"
    BY <1>2 DEF Register, Phases, PhaseOf
  <2> QED
    BY <1>2, <2>1, <2>2 DEF Register, Phases, Life!Book, Life!Next
<1>3. CASE FinishPurge(r)
  BY <1>3 DEF FinishPurge, PhaseOf, Life!lifeVars
<1>4. CASE \E j \in Jobs: Analyze(r, j)
  BY <1>4 DEF Analyze, PhaseOf, Life!lifeVars
<1>5. CASE ChangeHold(r) \/ Expire(r) \/ ListObjects(r)
  BY <1>5 DEF ChangeHold, Expire, ListObjects, PhaseOf, Life!lifeVars
<1> QED
  BY <1>1, <1>2, <1>3, <1>4, <1>5 DEF ReceiptStep

LEMMA LifeJob ==
    ASSUME Rows, NEW j \in Jobs, JobStep(j) PROVE UNCHANGED Life!lifeVars
<1> USE DEF Rows, Leaving, ReceiptStatus, Pending, PhaseOf, Life!lifeVars
<1>1. CASE CommitReading(j)
  BY <1>1 DEF CommitReading, Active
<1>2. CASE FinishCancelled(j)
  BY <1>2 DEF FinishCancelled, EndReading
<1>3. CASE \E retryable \in BOOLEAN: HandlerFails(j, retryable)
  BY <1>3 DEF HandlerFails, EndReading
<1>4. CASE UNCHANGED <<rowVars, expired, open, sweepVars>>
  BY <1>4
<1> QED
  BY <1>1, <1>2, <1>3, <1>4 DEF JobStep, CancelJob, RetryJob, Claim, Begin, ReuseNormalized,
     PutNormalized, RecordNormalized, AskAI, Finish, Crash

LEMMA LifePurge ==
    ASSUME Rows, SelectExpired PROVE [Life!Next]_(Life!lifeVars)
<1> USE DEF Rows, Leaving, ReceiptStatus, Pending
<1> DEFINE gone == {r \in Purgeable: Phases[r] = "pending"}
<1>1. Phases' = [r \in Receipts |-> IF r \in gone THEN "dropped" ELSE Phases[r]]
  BY DEF SelectExpired, Purgeable, Phases, PhaseOf
<1>2. gone \subseteq Receipts
  BY DEF Purgeable
<1>3. Life!DropAll(gone)
  BY <1>1, <1>2 DEF SelectExpired, Phases, Life!DropAll
<1> HIDE DEF gone
<1> QED
  BY <1>2, <1>3 DEF Life!Next

\* Receipts, with their images, jobs, holds and purges, are to the settlement
\* of their day what ReceiptLifecycle says: a receipt is pending from its first
\* image until it is booked or dropped, once, and never after the day closed.
THEOREM LifecycleImplemented == Spec => ImplementsLifecycle
<1>1. Init => Life!Init
  BY DEF Init, PhaseOf, Pending, Life!Init
<1>2. Rows /\ [Next]_vars => [Life!Next]_(Life!lifeVars)
  <2> SUFFICES ASSUME Rows, [Next]_vars PROVE [Life!Next]_(Life!lifeVars)
    OBVIOUS
  <2>1. CASE CloseDay
    BY <2>1 DEF CloseDay, PhaseOf, Life!Close, Life!Next
  <2>2. CASE PurgeStops \/ \E o \in Objects: EraseObject(o) \/ RecordErased(o)
    BY <2>2 DEF PurgeStops, EraseObject, RecordErased, PhaseOf, Life!lifeVars
  <2>3. CASE UNCHANGED vars
    BY <2>3 DEF vars, PhaseOf, Life!lifeVars
  <2> QED
    BY <2>1, <2>2, <2>3, LifeImage, LifeReceipt, LifeJob, LifePurge DEF Next, PurgeStep
<1> QED
  BY <1>1, <1>2, RowsInvariant, PTL DEF Spec, ImplementsLifecycle, Life!Spec

(***************************************************************************)
(* Work in hand: a worker handles images of its own receipt.               *)
(***************************************************************************)
Work ==
    /\ job \in [Jobs -> JobStatus]
    /\ pc \in [Jobs -> WorkerPc]
    /\ todo \in [Jobs -> SUBSET Images]
    /\ \A j \in Jobs:
          /\ \A i \in todo[j]: i[1] = about[j]
          /\ job[j] = "none" => pc[j] = "off" /\ todo[j] = {}
          /\ pc[j] = "put" => todo[j] # {}

LEMMA WorkJob ==
    ASSUME Work, NEW j \in Jobs, JobStep(j) PROVE Work'
<1> USE DEF Work, JobStatus, WorkerPc
<1>1. CASE CancelJob(j) \/ RetryJob(j) \/ Claim(j)
  BY <1>1 DEF CancelJob, RetryJob, Claim
<1>2. CASE Begin(j)
  BY <1>2 DEF Begin, ImagesOf
<1>3. CASE ReuseNormalized(j)
  BY <1>3 DEF ReuseNormalized
<1>4. CASE PutNormalized(j) \/ AskAI(j)
  BY <1>4 DEF PutNormalized, AskAI
<1>5. CASE RecordNormalized(j)
  BY <1>5 DEF RecordNormalized
<1>6. CASE CommitReading(j) \/ Finish(j) \/ FinishCancelled(j)
  BY <1>6 DEF CommitReading, Finish, FinishCancelled
<1>7. CASE Crash(j) \/ \E retryable \in BOOLEAN: HandlerFails(j, retryable)
  BY <1>7 DEF Crash, HandlerFails
<1> QED
  BY <1>1, <1>2, <1>3, <1>4, <1>5, <1>6, <1>7 DEF JobStep

LEMMA WorkStep == ASSUME Work, [Next]_vars PROVE Work'
<1> USE DEF Work
<1>1. CASE UNCHANGED jobVars
  BY <1>1
<1>2. ASSUME NEW r \in Receipts, NEW j \in Jobs, Analyze(r, j) PROVE Work'
  BY <1>2 DEF Analyze, JobStatus
<1> QED
  BY <1>1, <1>2, WorkJob DEF Next, ImageStep, ReceiptStep, PurgeStep, vars, AddImage, RenewImage,
     Upload, CompleteImage, UrlLapses, Exclude, Register, ChangeHold, Expire, ListObjects,
     FinishPurge, SelectExpired, PurgeStops, EraseObject, RecordErased, CloseDay

(***************************************************************************)
(* Bytes.  The content of a receipt nobody purges is complete; what is in  *)
(* the bucket is known by a row, or it came after its purge had begun.     *)
(***************************************************************************)
Stores ==
    /\ image \in [Images -> ImageStatus]
    /\ url \subseteq {i \in Images: image[i] # "none"}
    /\ {stored, listed, late} \subseteq SUBSET Objects
    /\ erased \subseteq goal /\ goal \subseteq listed
    /\ erased \cap stored \subseteq late
    /\ \A o \in goal: status[o[1][1]] \in Leaving

Kept ==
    \A r \in Receipts: status[r] \notin Leaving =>
        /\ listed \cap ObjectsOf(r) \subseteq stored
        /\ \A i \in ImagesOf(r): image[i] = "complete" => Original(i) \in listed
        /\ status[r] = "review_required" => r \in read

Known ==
    \A o \in stored \ (listed \cup late): o[2] = "original" /\ image[o[1]] = "waiting"

Purged ==
    \A r \in Receipts: status[r] = "deleted" =>
        /\ listed \cap ObjectsOf(r) = {}
        /\ stored \cap ObjectsOf(r) \subseteq late

Content == Stores /\ Kept /\ Known /\ Purged

LEMMA ContentImage ==
    ASSUME Rows, Content, NEW i \in Images, ImageStep(i) PROVE Content'
<1> USE DEF Rows, Leaving, Images, Objects, ObjectsOf, ImagesOf, Original, ImageStatus, Collecting,
        Content, Stores, Kept, Known, Purged
<1>1. CASE AddImage(i)
  BY <1>1 DEF AddImage
<1>2. CASE RenewImage(i)
  BY <1>2 DEF RenewImage
<1>3. CASE Upload(i)
  BY <1>3 DEF Upload
<1>4. CASE CompleteImage(i)
  BY <1>4 DEF CompleteImage
<1>5. CASE UrlLapses(i)
  BY <1>5 DEF UrlLapses
<1> QED
  BY <1>1, <1>2, <1>3, <1>4, <1>5 DEF ImageStep

LEMMA ContentReceipt ==
    ASSUME Rows, Content, NEW r \in Receipts, ReceiptStep(r) PROVE Content'
<1> USE DEF Rows, Leaving, Images, Objects, ObjectsOf, ImagesOf, Original, ImageStatus, Pending,
        Content, Stores, Kept, Known, Purged
<1>1. CASE Exclude(r)
  BY <1>1 DEF Exclude
<1>2. CASE Register(r)
  BY <1>2 DEF Register
<1>3. CASE ChangeHold(r) \/ Expire(r)
  BY <1>3 DEF ChangeHold, Expire
<1>4. CASE ListObjects(r)
  BY <1>4 DEF ListObjects
<1>5. CASE FinishPurge(r)
  BY <1>5 DEF FinishPurge
<1>6. CASE \E j \in Jobs: Analyze(r, j)
  BY <1>6 DEF Analyze
<1> QED
  BY <1>1, <1>2, <1>3, <1>4, <1>5, <1>6 DEF ReceiptStep

LEMMA ContentJob ==
    ASSUME Rows, Work, Content, NEW j \in Jobs, JobStep(j) PROVE Content'
<1> USE DEF Rows, Leaving, Objects, ObjectsOf, ImagesOf, Content, Stores, Kept, Known,
        Purged, Active, EndReading
<1>1. CASE RecordNormalized(j)
  <2> DEFINE new == Normalized(NextImage(j))
  <2>1. NextImage(j) \in todo[j] /\ todo[j] \subseteq Images
    BY <1>1 DEF RecordNormalized, NextImage, Work
  <2>2. new \in Objects /\ new[1][1] = about[j] /\ status[about[j]] = "reading"
    BY <1>1, <2>1 DEF RecordNormalized, Normalized, Images, Work
  <2> HIDE DEF new
  <2>3. /\ stored' = stored \cup {new} /\ listed' = listed \cup {new}
        /\ UNCHANGED <<rowVars, image, url, late, goal, erased>>
    BY <1>1 DEF RecordNormalized, new
  <2>4. Purged'
    BY <2>2, <2>3
  <2> QED
    BY <2>2, <2>3, <2>4
<1>2. CASE CommitReading(j)
  BY <1>2 DEF CommitReading
<1>3. CASE FinishCancelled(j)
  BY <1>3 DEF FinishCancelled
<1>4. CASE \E retryable \in BOOLEAN: HandlerFails(j, retryable)
  <2>1. \A r \in Receipts: status'[r] = status[r] \/ (status[r] = "reading" /\ status'[r] = "failed")
    BY <1>4 DEF HandlerFails
  <2>2. UNCHANGED <<read, held, imageVars, stored, late, listed, sweepVars>>
    BY <1>4 DEF HandlerFails
  <2>3. \A o \in Objects: o[1][1] \in Receipts
    BY DEF Images
  <2> QED
    BY <2>1, <2>2, <2>3
<1>5. CASE UNCHANGED <<rowVars, imageVars, stored, late, listed, sweepVars>>
  BY <1>5 DEF Original
<1> QED
  BY <1>1, <1>2, <1>3, <1>4, <1>5 DEF JobStep, CancelJob, RetryJob, Claim, Begin,
     ReuseNormalized, PutNormalized, AskAI, Finish, Crash

LEMMA ContentPurge ==
    ASSUME Rows, Content, PurgeStep PROVE Content'
<1> USE DEF Rows, Leaving, Images, Objects, ObjectsOf, ImagesOf, Original,
        Content, Stores, Kept, Known, Purged
<1>1. CASE SelectExpired
  BY <1>1 DEF SelectExpired, Purgeable
<1>2. CASE PurgeStops
  BY <1>2 DEF PurgeStops
<1>3. ASSUME NEW o \in Objects, EraseObject(o) PROVE Content'
  BY <1>3 DEF EraseObject
<1>4. ASSUME NEW o \in Objects, RecordErased(o) PROVE Content'
  BY <1>4 DEF RecordErased
<1> QED
  BY <1>1, <1>2, <1>3, <1>4 DEF PurgeStep

LEMMA ContentStep ==
    ASSUME Rows, Work, Content, [Next]_vars PROVE Content'
<1>1. CASE CloseDay \/ UNCHANGED vars
  BY <1>1 DEF CloseDay, vars, Content, Stores, Kept, Known, Purged
<1> QED
  BY <1>1, ContentImage, ContentReceipt, ContentJob, ContentPurge DEF Next

(***************************************************************************)
(* Copies.  One no row names is in its worker's hands, unless that worker  *)
(* left it behind.                                                         *)
(***************************************************************************)
InHand ==
    /\ unnamed \subseteq Jobs \X Images
    /\ \A c \in unnamed: pc[c[1]] = "put" /\ c = Copy(c[1])

LEMMA CopyStays ==
    ASSUME NEW k \in Jobs, todo'[k] = todo[k] PROVE Copy(k)' = Copy(k)
BY DEF Copy, NextImage

LEMMA InHandIdle ==
    ASSUME InHand, unnamed' = unnamed,
           \A k \in Jobs: pc[k] = "put" => pc'[k] = "put" /\ todo'[k] = todo[k]
    PROVE InHand'
<1>1. \A c \in unnamed: c[1] \in Jobs
  BY DEF InHand
<1>2. \A k \in Jobs: pc[k] = "put" => Copy(k)' = Copy(k)
  BY CopyStays
<1> QED
  BY <1>1, <1>2 DEF InHand

\* A worker that lets go of its copy has it removed, named or left behind.
LEMMA InHandLetsGo ==
    ASSUME InHand, NEW j \in Jobs,
           \A k \in Jobs \ {j}: pc'[k] = pc[k] /\ todo'[k] = todo[k],
           unnamed' = unnamed \ {Copy(j)}
    PROVE InHand'
<1>1. ASSUME NEW c \in unnamed' PROVE pc'[c[1]] = "put" /\ c = Copy(c[1])'
  <2>1. c \in unnamed \ {Copy(j)} /\ c[1] \in Jobs /\ pc[c[1]] = "put" /\ c = Copy(c[1])
    BY DEF InHand
  <2>2. c[1] # j
    BY <2>1
  <2> QED
    BY <2>1, <2>2, CopyStays
<1> QED
  BY <1>1 DEF InHand

LEMMA InHandJob ==
    ASSUME Work, InHand, NEW j \in Jobs, JobStep(j) PROVE InHand'
<1> USE DEF Work
<1>1. CASE CancelJob(j) \/ RetryJob(j) \/ Claim(j) \/ Begin(j) \/ ReuseNormalized(j) \/ AskAI(j)
           \/ CommitReading(j) \/ Finish(j) \/ FinishCancelled(j)
  BY <1>1, InHandIdle DEF CancelJob, RetryJob, Claim, Begin, ReuseNormalized, AskAI, CommitReading,
     Finish, FinishCancelled
<1>2. CASE PutNormalized(j)
  <2>1. \A k \in Jobs: Copy(k)' = Copy(k)
    BY <1>2, CopyStays DEF PutNormalized
  <2>2. NextImage(j) \in Images
    BY <1>2 DEF PutNormalized, NextImage
  <2>3. /\ unnamed' = unnamed \cup {Copy(j)}
        /\ pc' = [pc EXCEPT ![j] = "put"]
    BY <1>2 DEF PutNormalized
  <2>4. Copy(j) \in Jobs \X Images /\ Copy(j)[1] = j
    BY <2>2 DEF Copy
  <2> QED
    BY <2>1, <2>3, <2>4 DEF InHand
<1>3. CASE RecordNormalized(j)
  BY <1>3, InHandLetsGo DEF RecordNormalized
<1>4. CASE Crash(j) \/ \E retryable \in BOOLEAN: HandlerFails(j, retryable)
  <2>1. CASE pc[j] = "put"
    BY <1>4, <2>1, InHandLetsGo DEF Crash, HandlerFails, RemoveCopy, LeaveCopy
  <2>2. CASE pc[j] # "put"
    BY <1>4, <2>2, InHandIdle DEF Crash, HandlerFails
  <2> QED
    BY <2>1, <2>2
<1> QED
  BY <1>1, <1>2, <1>3, <1>4 DEF JobStep

LEMMA InHandStep == ASSUME Work, InHand, [Next]_vars PROVE InHand'
<1>1. CASE UNCHANGED <<unnamed, pc, todo>>
  BY <1>1, InHandIdle
<1> QED
  BY <1>1, InHandJob DEF Next, ImageStep, ReceiptStep, PurgeStep, vars, AddImage, RenewImage,
     Upload, CompleteImage, UrlLapses, Analyze, Exclude, Register, ChangeHold, Expire, ListObjects,
     FinishPurge, SelectExpired, PurgeStops, EraseObject, RecordErased, CloseDay

LEMMA ContentInvariant == Spec => [](Rows /\ Work /\ Content /\ InHand)
<1>1. Init => Rows /\ Work /\ Content /\ InHand
  <2>1. Init => Rows
    BY DEF Init, Rows, Leaving, ReceiptStatus, Pending
  <2>2. Init => Work
    BY DEF Init, Work, JobStatus, WorkerPc
  <2>3. Init => Content
    BY DEF Init, ImageStatus, Content, Stores, Kept, Known, Purged, ObjectsOf, ImagesOf, Images
  <2>4. Init => InHand
    BY DEF Init, InHand
  <2> QED
    BY <2>1, <2>2, <2>3, <2>4
<1>2. Rows /\ Work /\ Content /\ InHand /\ [Next]_vars => Rows' /\ Work' /\ Content' /\ InHand'
  BY RowsStep, WorkStep, ContentStep, InHandStep
<1> QED
  BY <1>1, <1>2, PTL DEF Spec

\* A legal hold protects, at any step of a purge: what the purge erases is of
\* receipts it has fenced, and a fence and a hold exclude each other.
THEOREM HoldKeepsContent == Spec => []HeldReceiptKeepsContent
<1>1. Rows /\ Content => HeldReceiptKeepsContent
  BY DEF Rows, Content, Kept, HeldReceiptKeepsContent
<1> QED
  BY <1>1, ContentInvariant, PTL

\* A purged receipt is erased, whatever workers, uploads and later purges do
\* around the erasure.  What stays is an upload that came after the purge had
\* begun, or a normalized copy no row ever named, which its worker still has in
\* hand or left behind.
THEOREM PurgeLeavesNothing == Spec => []PurgedIsErased
<1>1. Content /\ InHand => PurgedIsErased
  BY DEF Content, Purged, InHand, PurgedIsErased
<1> QED
  BY <1>1, ContentInvariant, PTL

(***************************************************************************)
(* Jobs.  A job that committed its reading is not the current one of a     *)
(* receipt being read: another request makes another job.                  *)
(***************************************************************************)
Readings ==
    /\ jobId \in [Receipts -> Jobs \cup {NoJob}]
    /\ about \in [Jobs -> Receipts \cup {NoReceipt}]
    /\ \A j \in Jobs: job[j] # "none" => about[j] \in Receipts
    /\ \A j \in Jobs \cap committed:
          /\ job[j] # "none"
          /\ pc[j] \notin {"images", "put", "asking"}
          /\ ~(status[about[j]] = "reading" /\ jobId[about[j]] = j)

LEMMA ReadingsReceipt ==
    ASSUME Rows, Work, Readings, NEW r \in Receipts, ReceiptStep(r) PROVE Readings'
<1> USE DEF Rows, Work, Readings, JobStatus
<1>1. CASE Exclude(r) \/ Register(r) \/ ChangeHold(r) \/ Expire(r) \/ ListObjects(r)
  BY <1>1 DEF Exclude, Register, ChangeHold, Expire, ListObjects
<1>2. CASE FinishPurge(r)
  BY <1>2 DEF FinishPurge
<1>3. ASSUME NEW j \in Jobs, Analyze(r, j) PROVE Readings'
  <2>1. /\ jobId' \in [Receipts -> Jobs \cup {NoJob}]
        /\ about' \in [Jobs -> Receipts \cup {NoReceipt}]
        /\ \A k \in Jobs: job'[k] # "none" => about'[k] \in Receipts
    BY <1>3 DEF Analyze
  <2>2. ASSUME NEW k \in Jobs \cap committed
        PROVE /\ job'[k] # "none"
              /\ pc'[k] \notin {"images", "put", "asking"}
              /\ ~(status'[about'[k]] = "reading" /\ jobId'[about'[k]] = k)
    BY <1>3, <2>2 DEF Analyze
  <2> QED
    BY <1>3, <2>1, <2>2 DEF Analyze
<1> QED
  BY <1>1, <1>2, <1>3 DEF ReceiptStep

LEMMA ReadingsJob ==
    ASSUME Rows, Work, Readings, NEW j \in Jobs, JobStep(j) PROVE Readings'
<1> USE DEF Rows, Work, Readings, JobStatus, WorkerPc, Active, EndReading
<1>1. CASE CancelJob(j) \/ RetryJob(j) \/ Claim(j)
  BY <1>1 DEF CancelJob, RetryJob, Claim
<1>2. CASE Begin(j)
  BY <1>2 DEF Begin
<1>3. CASE ReuseNormalized(j) \/ PutNormalized(j) \/ RecordNormalized(j) \/ AskAI(j)
  BY <1>3 DEF ReuseNormalized, PutNormalized, RecordNormalized, AskAI
<1>4. CASE CommitReading(j)
  BY <1>4 DEF CommitReading
<1>5. CASE Finish(j) \/ Crash(j)
  BY <1>5 DEF Finish, Crash
<1>6. CASE FinishCancelled(j)
  BY <1>6 DEF FinishCancelled
<1>7. CASE \E retryable \in BOOLEAN: HandlerFails(j, retryable)
  BY <1>7 DEF HandlerFails
<1> QED
  BY <1>1, <1>2, <1>3, <1>4, <1>5, <1>6, <1>7 DEF JobStep

LEMMA ReadingsStep == ASSUME Rows, Work, Readings, [Next]_vars PROVE Readings'
<1> USE DEF Rows, Work, Readings
<1>1. ASSUME NEW i \in Images, ImageStep(i) PROVE Readings'
  BY <1>1 DEF ImageStep, AddImage, RenewImage, Upload, CompleteImage, UrlLapses, Images
<1>2. CASE PurgeStep
  BY <1>2 DEF PurgeStep, SelectExpired, PurgeStops, EraseObject, RecordErased
<1>3. CASE CloseDay \/ UNCHANGED vars
  BY <1>3 DEF CloseDay, vars
<1> QED
  BY <1>1, <1>2, <1>3, ReadingsReceipt, ReadingsJob DEF Next

\* The AI is never asked again by a job whose reading has been committed,
\* however often that job is taken up again.
THEOREM ReadOnlyOnce == Spec => ReadOnce
<1>1. Init => Rows /\ Work /\ Readings
  BY DEF Init, Rows, Leaving, ReceiptStatus, Pending, Work, JobStatus, WorkerPc, Readings
<1>2. Rows /\ Work /\ Readings /\ [Next]_vars => Rows' /\ Work' /\ Readings'
  BY RowsStep, WorkStep, ReadingsStep
<1>3. Rows' /\ Work' /\ Readings' =>
        \A j \in Jobs: pc[j] # "asking" /\ pc'[j] = "asking" => j \notin committed'
  BY DEF Readings
<1>4. [Next]_vars => committed \subseteq committed'
  BY DEF Next, vars, ImageStep, AddImage, RenewImage, Upload, CompleteImage, UrlLapses,
     ReceiptStep, Exclude, Register, ChangeHold, Expire, ListObjects, FinishPurge, Analyze,
     JobStep, CancelJob, RetryJob, Claim, Begin, ReuseNormalized, PutNormalized, RecordNormalized,
     AskAI, CommitReading, Finish, FinishCancelled, HandlerFails, Crash,
     PurgeStep, SelectExpired, PurgeStops, EraseObject, RecordErased, CloseDay
<1>5. Rows' /\ Work' /\ Readings' /\ [Next]_vars =>
        [\A j \in Jobs: pc[j] # "asking" /\ pc'[j] = "asking" => j \notin committed]_vars
  BY <1>3, <1>4
<1> QED
  BY <1>1, <1>2, <1>5, PTL DEF Spec, ReadOnce

\* A receipt being read stays so until its own job ends it or its content is
\* purged.
THEOREM OnlyOwnJobEndsReading == Spec => OnlyItsJobEndsReading
<1> DEFINE Ends(r) == status'[r] = "deleting" \/ (pc[jobId[r]] # "off" /\ pc'[jobId[r]] # pc[jobId[r]])
<1>1. ASSUME Rows, Work, Next, NEW r \in Receipts, status[r] = "reading", status'[r] # "reading"
      PROVE Ends(r)
  <2> USE <1>1 DEF Rows, Work, Pending
  <2>1. ASSUME NEW i \in Images, ImageStep(i) PROVE Ends(r)
    BY <2>1 DEF ImageStep, AddImage, RenewImage, Upload, CompleteImage, UrlLapses, Collecting
  <2>2. ASSUME NEW q \in Receipts, ReceiptStep(q) PROVE Ends(r)
    BY <2>2 DEF ReceiptStep, Exclude, Register, ChangeHold, Expire, ListObjects, FinishPurge, Analyze
  <2>3. ASSUME NEW j \in Jobs, JobStep(j) PROVE Ends(r)
    <3>1. CASE CommitReading(j)
      BY <3>1 DEF CommitReading, Active
    <3>2. CASE FinishCancelled(j)
      BY <3>2 DEF FinishCancelled, EndReading
    <3>3. CASE \E retryable \in BOOLEAN: HandlerFails(j, retryable)
      BY <3>3 DEF HandlerFails, EndReading
    <3> QED
      BY <2>3, <3>1, <3>2, <3>3 DEF JobStep, CancelJob, RetryJob, Claim, Begin, ReuseNormalized,
         PutNormalized, RecordNormalized, AskAI, Finish, Crash
  <2>4. CASE PurgeStep \/ CloseDay
    BY <2>4 DEF PurgeStep, SelectExpired, PurgeStops, EraseObject, RecordErased, CloseDay
  <2> QED
    BY <2>1, <2>2, <2>3, <2>4 DEF Next
<1>2. Rows /\ Work /\ [Next]_vars =>
        [\A r \in Receipts: status[r] = "reading" /\ status'[r] # "reading" => Ends(r)]_vars
  BY <1>1
<1> QED
  BY <1>2, ContentInvariant, PTL DEF Spec, OnlyItsJobEndsReading

(***************************************************************************)
(* Readiness.  Whoever changes a member's records takes the mark back.     *)
(***************************************************************************)
ReadyTypes ==
    /\ ready \subseteq Members
    /\ day \in [Members -> {"none", "blank", "complete"}]
    /\ receipt \in [DayReceipts -> DayLife!Phase]

LEMMA ReadyMember ==
    ASSUME ReadyTypes, ReadyIsComplete, NEW m \in Members, MemberStep(m)
    PROVE ReadyTypes' /\ ReadyIsComplete'
<1> USE DEF ReadyTypes, ReadyIsComplete, PendingOf, PersonalMutation
<1>1. CASE CreateDay(m)
  BY <1>1 DEF CreateDay
<1>2. CASE UpdateDay(m)
  BY <1>2 DEF UpdateDay
<1>3. CASE AddItem(m)
  BY <1>3 DEF AddItem
<1>4. CASE ConfirmItem(m)
  BY <1>4 DEF ConfirmItem
<1>5. CASE UpdateCandidate(m)
  BY <1>5 DEF UpdateCandidate
<1>6. CASE ExcludeCandidate(m)
  BY <1>6 DEF ExcludeCandidate
<1>7. CASE \E a \in 0..MaxCash: AddShortage(m, a)
  BY <1>7 DEF AddShortage
<1> QED
  BY <1>1, <1>2, <1>3, <1>4, <1>5, <1>6, <1>7 DEF MemberStep

LEMMA ReadyReceipt ==
    ASSUME ReadyTypes, ReadyIsComplete, NEW r \in DayReceipts, DayReceiptStep(r)
    PROVE ReadyTypes' /\ ReadyIsComplete'
<1> USE DEF ReadyTypes, ReadyIsComplete, PendingOf, PersonalMutation, DayReceipts, DayLife!Phase
<1>1. CASE AddDayImage(r)
  BY <1>1 DEF AddDayImage, DayLife!Take
<1>2. CASE RegisterReceipt(r)
  BY <1>2 DEF RegisterReceipt, DayLife!Book
<1>3. CASE DropReceipt(r)
  BY <1>3 DEF DropReceipt, DayLife!Drop
<1> QED
  BY <1>1, <1>2, <1>3 DEF DayReceiptStep

LEMMA ReadyCommand ==
    ASSUME ReadyTypes, ReadyIsComplete, Command
    PROVE ReadyTypes' /\ ReadyIsComplete'
<1> USE DEF ReadyTypes, ReadyIsComplete, PendingOf, Reopened
<1>1. ASSUME NEW ms \in SUBSET Members, CreateBranchDay(ms) \/ ChangeRoster(ms)
      PROVE ReadyTypes' /\ ReadyIsComplete'
  BY <1>1 DEF CreateBranchDay, ChangeRoster, SetRoster
<1>2. ASSUME NEW m \in Members, MarkReady(m) PROVE ReadyTypes' /\ ReadyIsComplete'
  BY <1>2 DEF MarkReady
<1>3. ASSUME NEW m \in Members, EnterDaily(m) \/ EnterItem(m) \/ Correct(m)
      PROVE ReadyTypes' /\ ReadyIsComplete'
  BY <1>3 DEF EnterDaily, EnterItem, Correct
<1>4. ASSUME NEW m \in Members, NEW a \in Amounts, Transfer(m, a) \/ ReverseTransfer(m, a)
      PROVE ReadyTypes' /\ ReadyIsComplete'
  BY <1>4 DEF Transfer, ReverseTransfer
<1>5. ASSUME NEW differs \in BOOLEAN, Reconcile(differs) PROVE ReadyTypes' /\ ReadyIsComplete'
  BY <1>5 DEF Reconcile
<1>6. CASE Close \/ ResolveDifference
  BY <1>6 DEF Close, ResolveDifference
<1> QED
  BY <1>1, <1>2, <1>3, <1>4, <1>5, <1>6 DEF Command

LEMMA ReadyInvariant == ClosingSpec => [](ReadyTypes /\ ReadyIsComplete)
<1>1. ClosingInit => ReadyTypes /\ ReadyIsComplete
  BY DEF ClosingInit, ReadyTypes, ReadyIsComplete, DayLife!Phase
<1>2. ReadyTypes /\ ReadyIsComplete /\ [ClosingNext]_closingVars => ReadyTypes' /\ ReadyIsComplete'
  <2> SUFFICES ASSUME ReadyTypes, ReadyIsComplete, [ClosingNext]_closingVars
               PROVE ReadyTypes' /\ ReadyIsComplete'
    OBVIOUS
  <2>1. CASE UNCHANGED closingVars
    BY <2>1 DEF closingVars, ReadyTypes, ReadyIsComplete, PendingOf
  <2> QED
    BY <2>1, ReadyMember, ReadyReceipt, ReadyCommand DEF ClosingNext
<1> QED
  BY <1>1, <1>2, PTL DEF ClosingSpec

\* Who is marked ready has nothing left to do, in every reachable state: every
\* handler that changes a member's records takes the mark back.
THEOREM ReadyStaysComplete == ClosingSpec => []ReadyIsComplete
<1> QED
  BY ReadyInvariant, PTL

(***************************************************************************)
(* The closed day.  A reconciliation that is current is of the records as  *)
(* they are.                                                               *)
(***************************************************************************)
FreshIsTrue == fresh => ~drift

LEMMA ClosedStep ==
    ASSUME FreshIsTrue, ClosedAsReconciled, [ClosingNext]_closingVars
    PROVE FreshIsTrue' /\ ClosedAsReconciled'
<1> USE DEF FreshIsTrue, ClosedAsReconciled, PersonalMutation, Reopened
<1>1. ASSUME NEW m \in Members, MemberStep(m) PROVE FreshIsTrue' /\ ClosedAsReconciled'
  BY <1>1 DEF MemberStep, CreateDay, UpdateDay, AddItem, ConfirmItem, UpdateCandidate,
     ExcludeCandidate, AddShortage
<1>2. ASSUME NEW r \in DayReceipts, DayReceiptStep(r) PROVE FreshIsTrue' /\ ClosedAsReconciled'
  BY <1>2 DEF DayReceiptStep, AddDayImage, RegisterReceipt, DropReceipt
<1>3. CASE Command
  <2>1. ASSUME NEW ms \in SUBSET Members, CreateBranchDay(ms) \/ ChangeRoster(ms)
        PROVE FreshIsTrue' /\ ClosedAsReconciled'
    BY <2>1 DEF CreateBranchDay, ChangeRoster, SetRoster
  <2>2. ASSUME NEW m \in Members, MarkReady(m) \/ EnterDaily(m) \/ EnterItem(m) \/ Correct(m)
        PROVE FreshIsTrue' /\ ClosedAsReconciled'
    BY <2>2 DEF MarkReady, EnterDaily, EnterItem, Correct
  <2>3. ASSUME NEW m \in Members, NEW a \in Amounts, Transfer(m, a) \/ ReverseTransfer(m, a)
        PROVE FreshIsTrue' /\ ClosedAsReconciled'
    BY <2>3 DEF Transfer, ReverseTransfer
  <2>4. ASSUME NEW differs \in BOOLEAN, Reconcile(differs) PROVE FreshIsTrue' /\ ClosedAsReconciled'
    BY <2>4 DEF Reconcile
  <2>5. CASE Close \/ ResolveDifference
    BY <2>5 DEF Close, ResolveDifference
  <2> QED
    BY <1>3, <2>1, <2>2, <2>3, <2>4, <2>5 DEF Command
<1>4. CASE UNCHANGED closingVars
  BY <1>4 DEF closingVars
<1> QED
  BY <1>1, <1>2, <1>3, <1>4 DEF ClosingNext

\* A closed day is the one that was reconciled, with everyone ready, until a
\* correction leaves its issue.
THEOREM ClosedStaysReconciled == ClosingSpec => []ClosedAsReconciled
<1>1. ClosingInit => FreshIsTrue /\ ClosedAsReconciled
  BY DEF ClosingInit, FreshIsTrue, ClosedAsReconciled
<1>2. FreshIsTrue /\ ClosedAsReconciled /\ [ClosingNext]_closingVars => FreshIsTrue' /\ ClosedAsReconciled'
  BY ClosedStep
<1> QED
  BY <1>1, <1>2, PTL DEF ClosingSpec

(***************************************************************************)
(* Receipts.  Every step is one of ReceiptLifecycle, or no step of it.     *)
(***************************************************************************)
LEMMA LifecycleReceipt ==
    ASSUME ReadyTypes, NEW r \in DayReceipts, DayReceiptStep(r) PROVE [DayLife!Next]_(DayLife!lifeVars)
<1> USE DEF ReadyTypes, PersonalMutation
<1>1. CASE AddDayImage(r)
  BY <1>1 DEF AddDayImage, DayLife!Take, DayLife!Next, DayLife!lifeVars
<1>2. CASE RegisterReceipt(r)
  BY <1>2 DEF RegisterReceipt, DayLife!Book, DayLife!Next, DayLife!lifeVars
<1>3. CASE DropReceipt(r)
  <2>1. receipt' = [q \in DayReceipts |-> IF q \in {r} THEN "dropped" ELSE receipt[q]]
    BY <1>3 DEF DropReceipt, DayLife!Drop
  <2>2. DayLife!DropAll({r})
    BY <1>3, <2>1 DEF DropReceipt, DayLife!Drop, DayLife!DropAll
  <2> QED
    BY <2>2 DEF DayLife!Next
<1> QED
  BY <1>1, <1>2, <1>3 DEF DayReceiptStep

LEMMA LifecycleStep ==
    ASSUME ReadyTypes, [ClosingNext]_closingVars PROVE [DayLife!Next]_(DayLife!lifeVars)
<1>1. ASSUME NEW m \in Members, MemberStep(m) PROVE UNCHANGED DayLife!lifeVars
  BY <1>1 DEF MemberStep, CreateDay, UpdateDay, AddItem, ConfirmItem, UpdateCandidate,
     ExcludeCandidate, AddShortage, PersonalMutation, DayLife!lifeVars
<1>2. CASE Command
  <2>1. CASE Close
    BY <2>1 DEF Close, DayLife!Close, DayLife!Next
  <2>2. ASSUME NEW ms \in SUBSET Members, CreateBranchDay(ms) \/ ChangeRoster(ms)
        PROVE UNCHANGED DayLife!lifeVars
    BY <2>2 DEF CreateBranchDay, ChangeRoster, SetRoster, DayLife!lifeVars
  <2>3. ASSUME NEW m \in Members, MarkReady(m) \/ EnterDaily(m) \/ EnterItem(m) \/ Correct(m)
        PROVE UNCHANGED DayLife!lifeVars
    BY <2>3 DEF MarkReady, EnterDaily, EnterItem, Correct, DayLife!lifeVars
  <2>4. ASSUME NEW m \in Members, NEW a \in Amounts, Transfer(m, a) \/ ReverseTransfer(m, a)
        PROVE UNCHANGED DayLife!lifeVars
    BY <2>4 DEF Transfer, ReverseTransfer, DayLife!lifeVars
  <2>5. ASSUME NEW differs \in BOOLEAN, Reconcile(differs) PROVE UNCHANGED DayLife!lifeVars
    BY <2>5 DEF Reconcile, DayLife!lifeVars
  <2>6. CASE ResolveDifference
    BY <2>6 DEF ResolveDifference, DayLife!lifeVars
  <2> QED
    BY <1>2, <2>1, <2>2, <2>3, <2>4, <2>5, <2>6 DEF Command
<1>3. CASE UNCHANGED closingVars
  BY <1>3 DEF closingVars, DayLife!lifeVars
<1> QED
  BY <1>1, <1>2, <1>3, LifecycleReceipt DEF ClosingNext

\* The settlement moves receipts as ReceiptLifecycle says, which is what
\* ExpenseReceipts implements: both speak of the same receipts.
THEOREM FollowsLifecycle == ClosingSpec => DayLife!Spec
<1>1. ClosingInit => DayLife!Init
  BY DEF ClosingInit, DayLife!Init
<1>2. ClosingInit => ReadyTypes /\ ReadyIsComplete
  BY DEF ClosingInit, ReadyTypes, ReadyIsComplete, DayLife!Phase
<1>3. ReadyTypes /\ [ClosingNext]_closingVars => [DayLife!Next]_(DayLife!lifeVars)
  BY LifecycleStep
<1> QED
  BY <1>1, <1>2, <1>3, ReadyInvariant, PTL DEF ClosingSpec, DayLife!Spec

(***************************************************************************)
(* Sums.  What transfers come to is defined by recursion over the amounts; *)
(* the facts about it are proved by the least counterexample.              *)
(***************************************************************************)
LEMMA LeastElement ==
    ASSUME NEW T \in SUBSET Nat, T # {}
    PROVE \E n \in T: \A m \in T: n <= m
<1> DEFINE R == OpToRel(<, Nat)
<1>1. IsWellFoundedOn(R, Nat)
  BY NatLessThanWellFounded
<1>2. \A x, y \in Nat: x < y => <<x, y>> \in R
  BY Zenon DEF OpToRel
<1> HIDE DEF R
<1>3. PICK n \in T: \A m \in T: ~(<<m, n>> \in R)
  BY <1>1, WFMin
<1>4. \A m \in T: ~(m < n)
  BY <1>2, <1>3, Zenon
<1> QED
  BY <1>4

Counts == [Amounts -> Nat]

\* f is the sum of the counts c up to each amount of 0..n.
IsSum(f, c, n) ==
    /\ f \in [0..n -> Nat]
    /\ \A a \in 0..n: f[a] = IF a = 0 THEN 0 ELSE a * c[a] + f[a - 1]

LEMMA SumExists ==
    ASSUME NEW c \in Counts, NEW n \in 0..MaxCash
    PROVE \E f: IsSum(f, c, n)
<1> DEFINE T == {k \in 0..MaxCash: ~\E f: IsSum(f, c, k)}
<1>1. SUFFICES ASSUME T # {} PROVE FALSE
  OBVIOUS
<1>2. T \in SUBSET Nat
  OBVIOUS
<1>3. PICK k \in T: \A i \in T: k <= i
  <2> HIDE DEF T
  <2> QED
    BY <1>1, <1>2, LeastElement
<1>4. CASE k = 0
  <2>1. IsSum([a \in 0..0 |-> 0], c, 0)
    BY DEF IsSum
  <2> QED
    BY <1>4, <2>1
<1>5. CASE k # 0
  <2>1. k - 1 \in 0..MaxCash /\ k - 1 \notin T /\ k \in Amounts
    BY <1>3, <1>5 DEF Amounts
  <2>2. PICK f: IsSum(f, c, k - 1)
    BY <2>1
  <2> DEFINE g == [a \in 0..k |-> IF a = k THEN k * c[k] + f[k - 1] ELSE f[a]]
  <2>3. c[k] \in Nat /\ f[k - 1] \in Nat
    BY <2>1, <2>2 DEF IsSum, Counts
  <2>4. k * c[k] + f[k - 1] \in Nat
    BY <2>1, <2>3 DEF Amounts
  <2>5. g \in [0..k -> Nat]
    BY <2>2, <2>4 DEF IsSum
  <2>6. ASSUME NEW a \in 0..k
        PROVE g[a] = IF a = 0 THEN 0 ELSE a * c[a] + g[a - 1]
    <3>1. CASE a = k
      BY <1>5, <2>1, <3>1
    <3>2. CASE a # k /\ a # 0
      <4>1. a \in 0..(k - 1) /\ a - 1 \in 0..k /\ a - 1 # k
        BY <2>1, <3>2 DEF Amounts
      <4> QED
        BY <2>2, <3>2, <4>1 DEF IsSum
    <3>3. CASE a = 0
      BY <1>5, <2>1, <2>2, <3>3 DEF IsSum, Amounts
    <3> QED
      BY <3>1, <3>2, <3>3
  <2> QED
    BY <1>3, <2>5, <2>6 DEF IsSum
<1> QED
  BY <1>4, <1>5

\* A sum is what the recursion computes.
LEMMA TotalIsSum ==
    ASSUME NEW c \in Counts
    PROVE \E f: IsSum(f, c, MaxCash) /\ Total(c) = f[MaxCash]
<1> DEFINE upTo == CHOOSE f: f = [a \in 0..MaxCash |-> IF a = 0 THEN 0 ELSE a * c[a] + f[a - 1]]
<1>1. PICK f: IsSum(f, c, MaxCash)
  BY SumExists
<1>2. f = [a \in 0..MaxCash |-> IF a = 0 THEN 0 ELSE a * c[a] + f[a - 1]]
  BY <1>1 DEF IsSum
<1>3. upTo = [a \in 0..MaxCash |-> IF a = 0 THEN 0 ELSE a * c[a] + upTo[a - 1]]
  BY <1>2
<1>4. Total(c) = upTo[MaxCash]
  BY DEF Total
<1> HIDE DEF upTo
<1> DEFINE T == {a \in 0..MaxCash: upTo[a] # f[a]}
<1>5. ASSUME T # {} PROVE FALSE
  <2>1. T \in SUBSET Nat
    OBVIOUS
  <2>2. PICK a \in T: \A i \in T: a <= i
    <3> HIDE DEF T
    <3> QED
      BY <1>5, <2>1, LeastElement
  <2>3. a # 0 => a - 1 \in 0..MaxCash /\ upTo[a - 1] = f[a - 1]
    BY <2>2
  <2> QED
    BY <1>2, <1>3, <2>2, <2>3
<1> QED
  BY <1>1, <1>4, <1>5

\* One transfer of a more or less makes a difference of a.
LEMMA SumsDiffer ==
    ASSUME NEW c \in Counts, NEW d \in Counts, NEW a \in Amounts, NEW f, NEW g,
           IsSum(f, c, MaxCash), IsSum(g, d, MaxCash),
           d[a] = c[a] + 1, \A i \in Amounts \ {a}: d[i] = c[i]
    PROVE g[MaxCash] = f[MaxCash] + a
<1> DEFINE T == {i \in 0..MaxCash: g[i] # f[i] + (IF i < a THEN 0 ELSE a)}
<1>1. ASSUME T # {} PROVE FALSE
  <2>1. T \in SUBSET Nat
    OBVIOUS
  <2>2. PICK i \in T: \A k \in T: i <= k
    <3> HIDE DEF T
    <3> QED
      BY <1>1, <2>1, LeastElement
  <2>3. i # 0
    BY <2>2 DEF IsSum, Amounts
  <2>4. i - 1 \in 0..MaxCash /\ i \in Amounts /\ f[i - 1] \in Nat /\ c[i] \in Nat
    <3>1. i - 1 \in 0..MaxCash /\ i \in Amounts
      BY <2>2, <2>3 DEF Amounts
    <3> QED
      BY <3>1 DEF IsSum, Counts
  <2>5. g[i - 1] = f[i - 1] + (IF i - 1 < a THEN 0 ELSE a)
    BY <2>2, <2>4 DEF Amounts
  <2>6. f[i] = i * c[i] + f[i - 1] /\ g[i] = i * d[i] + g[i - 1]
    BY <2>2, <2>3 DEF IsSum
  <2>7. CASE i = a
    <3>1. i * d[i] = i * c[i] + i
      BY <2>4, <2>7 DEF Amounts
    <3>2. i * c[i] \in Nat
      BY <2>4 DEF Amounts
    <3> QED
      BY <2>2, <2>4, <2>5, <2>6, <2>7, <3>1, <3>2 DEF Amounts
  <2>8. CASE i # a
    <3>1. i * d[i] = i * c[i] /\ i * c[i] \in Nat
      BY <2>4, <2>8 DEF Amounts
    <3> QED
      BY <2>2, <2>4, <2>5, <2>6, <2>8, <3>1 DEF Amounts
  <2> QED
    BY <2>7, <2>8
<1> QED
  BY <1>1 DEF Amounts

LEMMA TotalGrows ==
    ASSUME NEW c \in Counts, NEW d \in Counts, NEW a \in Amounts,
           d[a] = c[a] + 1, \A i \in Amounts \ {a}: d[i] = c[i]
    PROVE Total(c) \in Nat /\ Total(d) = Total(c) + a
<1>1. PICK f: IsSum(f, c, MaxCash) /\ Total(c) = f[MaxCash]
  BY TotalIsSum
<1>2. PICK g: IsSum(g, d, MaxCash) /\ Total(d) = g[MaxCash]
  BY TotalIsSum
<1>3. Total(c) \in Nat
  BY <1>1 DEF IsSum
<1> QED
  BY <1>1, <1>2, <1>3, SumsDiffer

LEMMA TotalOfNone ==
    ASSUME NEW c \in Counts, \A a \in Amounts: c[a] = 0
    PROVE Total(c) = 0
<1>1. PICK f: IsSum(f, c, MaxCash) /\ Total(c) = f[MaxCash]
  BY TotalIsSum
<1> DEFINE T == {i \in 0..MaxCash: f[i] # 0}
<1>2. ASSUME T # {} PROVE FALSE
  <2>1. T \in SUBSET Nat
    OBVIOUS
  <2>2. PICK i \in T: \A k \in T: i <= k
    <3> HIDE DEF T
    <3> QED
      BY <1>2, <2>1, LeastElement
  <2>3. i # 0
    BY <1>1, <2>2 DEF IsSum
  <2>4. i - 1 \in 0..MaxCash /\ i \in Amounts
    BY <2>2, <2>3 DEF Amounts
  <2>5. f[i - 1] = 0 /\ c[i] = 0
    BY <2>2, <2>4
  <2>6. f[i] = i * c[i] + f[i - 1]
    BY <1>1, <2>2, <2>3 DEF IsSum
  <2> QED
    BY <2>2, <2>5, <2>6
<1> QED
  BY <1>1, <1>2

(***************************************************************************)
(* Missing cash.                                                           *)
(***************************************************************************)
CashTypes ==
    /\ shortage \in [Members -> 0..MaxCash]
    /\ linked \in [Members -> [Amounts -> 0..MaxTransfers]]

CashInv ==
    /\ CashTypes /\ settled \subseteq missing /\ missing \subseteq Members
    /\ ShortageAgrees
    /\ \A m \in Members \ missing: Replenished(m) = 0

LEMMA TotalInNat == ASSUME CashTypes, NEW m \in Members PROVE linked[m] \in Counts /\ Replenished(m) \in Nat
<1>1. linked[m] \in Counts
  BY DEF CashTypes, Counts
<1>2. PICK f: IsSum(f, linked[m], MaxCash) /\ Total(linked[m]) = f[MaxCash]
  BY <1>1, TotalIsSum
<1> QED
  BY <1>1, <1>2 DEF IsSum, Replenished

LEMMA CashIdle ==
    ASSUME CashInv, UNCHANGED cashVars PROVE CashInv'
BY DEF CashInv, CashTypes, ShortageAgrees, Replenished

LEMMA CashRecorded ==
    ASSUME CashInv, NEW m \in Members, NEW a \in 0..MaxCash, AddShortage(m, a) PROVE CashInv'
<1>1. CashTypes' /\ settled' \subseteq missing' /\ missing' \subseteq Members
  BY DEF CashInv, CashTypes, AddShortage
<1>2. \A n \in Members: Replenished(n)' = Replenished(n)
  BY DEF Replenished, AddShortage
<1>3. Replenished(m) = 0 /\ m \notin settled
  BY DEF CashInv, AddShortage
<1>4. /\ shortage' = [shortage EXCEPT ![m] = a] /\ settled' = settled /\ a \in Nat
      /\ missing' = missing \cup {m}
  BY DEF AddShortage
<1>5. ShortageAgrees'
  BY <1>2, <1>3, <1>4 DEF CashInv, CashTypes, ShortageAgrees
<1> QED
  BY <1>1, <1>2, <1>4, <1>5 DEF CashInv

\* Settle brings the record in line with a sum the transfers then come to.
LEMMA CashSettled ==
    ASSUME CashInv, CashTypes', NEW m \in missing, Replenished(m)' # 0 \/ shortage[m] # 0,
           UNCHANGED <<missing, shortage>>,
           Settle(m, Replenished(m)'),
           \A n \in Members \ {m}: Replenished(n)' = Replenished(n)
    PROVE CashInv'
<1>1. /\ settled' = IF Replenished(m)' = shortage[m] THEN settled \cup {m} ELSE settled \ {m}
      /\ Replenished(m)' <= shortage[m]
  BY DEF Settle
<1> QED
  BY <1>1 DEF CashInv, ShortageAgrees

LEMMA CashTransferred ==
    ASSUME CashInv, NEW m \in Members, NEW a \in Amounts, Transfer(m, a) PROVE CashInv'
<1>1. CASE UNCHANGED <<settled, linked>>
  <2>1. UNCHANGED <<settled, linked, missing, shortage>>
    BY <1>1 DEF Transfer
  <2> QED
    BY <2>1 DEF CashInv, CashTypes, ShortageAgrees, Replenished
<1>2. CASE /\ m \in missing
           /\ linked[m][a] < MaxTransfers
           /\ Settle(m, Replenished(m) + a)
           /\ linked' = [linked EXCEPT ![m][a] = @ + 1]
  <2>1. UNCHANGED <<missing, shortage>>
    BY DEF Transfer
  <2>2. CashTypes'
    BY <1>2, <2>1 DEF CashInv, CashTypes, Amounts
  <2>3. linked[m] \in Counts /\ linked'[m] \in Counts
    BY <2>2 DEF CashInv, CashTypes, Counts
  <2>4. linked'[m][a] = linked[m][a] + 1 /\ \A i \in Amounts \ {a}: linked'[m][i] = linked[m][i]
    BY <1>2 DEF CashInv, CashTypes
  <2>5. Replenished(m)' = Replenished(m) + a
    BY <2>3, <2>4, TotalGrows DEF Replenished
  <2>6. \A n \in Members \ {m}: Replenished(n)' = Replenished(n)
    BY <1>2 DEF Replenished, CashInv, CashTypes
  <2>7. Replenished(m) \in Nat /\ a \in Nat \ {0}
    BY TotalInNat DEF CashInv, Amounts
  <2> QED
    BY <1>2, <2>1, <2>2, <2>5, <2>6, <2>7, CashSettled
<1> QED
  BY <1>1, <1>2 DEF Transfer

LEMMA CashReversed ==
    ASSUME CashInv, NEW m \in Members, NEW a \in Amounts, ReverseTransfer(m, a) PROVE CashInv'
<1>1. linked' = [linked EXCEPT ![m][a] = @ - 1] /\ UNCHANGED <<missing, shortage>> /\ linked[m][a] > 0
  BY DEF ReverseTransfer
<1>2. CashTypes'
  BY <1>1 DEF CashInv, CashTypes, Amounts
<1>3. linked[m] \in Counts /\ linked'[m] \in Counts
  BY <1>2 DEF CashInv, CashTypes, Counts
<1>4. linked[m][a] = linked'[m][a] + 1 /\ \A i \in Amounts \ {a}: linked[m][i] = linked'[m][i]
  BY <1>1 DEF CashInv, CashTypes
<1>5. Replenished(m) = Replenished(m)' + a /\ Replenished(m)' \in Nat
  BY <1>3, <1>4, TotalGrows DEF Replenished
<1>6. \A n \in Members \ {m}: Replenished(n)' = Replenished(n)
  BY <1>1 DEF Replenished, CashInv, CashTypes
<1>7. a \in Nat \ {0} /\ Replenished(m) - a = Replenished(m)' /\ m \in missing
  BY <1>5 DEF Amounts, CashInv
<1>8. shortage[m] # 0
  BY <1>5, <1>7 DEF CashInv, CashTypes, ShortageAgrees
<1> QED
  BY <1>1, <1>2, <1>6, <1>7, <1>8, CashSettled DEF ReverseTransfer

LEMMA CashStep == CashInv /\ [ClosingNext]_closingVars => CashInv'
<1> SUFFICES ASSUME CashInv, [ClosingNext]_closingVars PROVE CashInv'
  OBVIOUS
<1>1. ASSUME NEW m \in Members, MemberStep(m) PROVE CashInv'
  BY <1>1, CashIdle, CashRecorded DEF MemberStep, CreateDay, UpdateDay, AddItem, ConfirmItem,
     UpdateCandidate, ExcludeCandidate, PersonalMutation
<1>2. ASSUME NEW r \in DayReceipts, DayReceiptStep(r) PROVE CashInv'
  BY <1>2, CashIdle DEF DayReceiptStep, AddDayImage, RegisterReceipt, DropReceipt, PersonalMutation
<1>3. CASE Command
  <2>1. ASSUME NEW ms \in SUBSET Members, CreateBranchDay(ms) \/ ChangeRoster(ms) PROVE CashInv'
    BY <2>1, CashIdle DEF CreateBranchDay, ChangeRoster, SetRoster
  <2>2. ASSUME NEW m \in Members, MarkReady(m) \/ EnterDaily(m) \/ EnterItem(m) \/ Correct(m)
        PROVE CashInv'
    BY <2>2, CashIdle DEF MarkReady, EnterDaily, EnterItem, Correct
  <2>3. ASSUME NEW differs \in BOOLEAN, Reconcile(differs) PROVE CashInv'
    BY <2>3, CashIdle DEF Reconcile
  <2>4. CASE Close \/ ResolveDifference
    BY <2>4, CashIdle DEF Close, ResolveDifference
  <2> QED
    BY <1>3, <2>1, <2>2, <2>3, <2>4, CashTransferred, CashReversed DEF Command
<1>4. CASE UNCHANGED closingVars
  BY <1>4, CashIdle DEF closingVars
<1> QED
  BY <1>1, <1>2, <1>3, <1>4 DEF ClosingNext

\* A record of missing cash, unless it is of 0, is resolved exactly while the
\* transfers made for it make up its amount, for any amounts and any number of
\* transfers and reversals, and they never exceed it; a record of 0 stays open.
THEOREM ShortageStaysAgreed == ClosingSpec => []ShortageAgrees
<1>1. ClosingInit => CashInv
  <2> SUFFICES ASSUME ClosingInit PROVE CashInv
    OBVIOUS
  <2>1. CashTypes /\ settled = {} /\ missing = {}
    BY DEF ClosingInit, CashTypes, Amounts
  <2>2. \A m \in Members: Replenished(m) = 0
    BY TotalOfNone DEF ClosingInit, Replenished, Counts
  <2> QED
    BY <2>1, <2>2 DEF ClosingInit, CashInv, ShortageAgrees
<1>2. CashInv => ShortageAgrees
  BY DEF CashInv
<1> QED
  BY <1>1, <1>2, CashStep, PTL DEF ClosingSpec
=============================================================================
