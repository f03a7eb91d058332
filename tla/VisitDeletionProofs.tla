------------------------- MODULE VisitDeletionProofs -------------------------
(***************************************************************************)
(* What VisitDeletion keeps for any number of deletion requests, retention *)
(* scans and objects, and any limit on attempts and crashes.               *)
(***************************************************************************)
EXTENDS VisitDeletion, TLAPS

USE VisitDeletionAssumption DEF VisitDeletionAssumption, JobIds,
    visitVars, objectVars, jobVars, workerVars

(***************************************************************************)
(* Type correctness.                                                       *)
(***************************************************************************)
LEMMA TypeInit == Init => TypeOK
<1> SUFFICES ASSUME Init PROVE TypeOK
  OBVIOUS
<1>1. tries \in [JobIds -> 0..MaxAttempts] /\ crashes \in 0..MaxCrashes
  BY DEF Init
<1>2. todo \in [JobIds -> SUBSET Objects] /\ cur \in [JobIds -> Objects \cup {NoObject}]
  BY DEF Init
<1>3. job \in [JobIds -> JobStatus] /\ pc \in [JobIds -> Phase]
  BY DEF Init, JobStatus, Phase
<1>4. /\ request \in [Requests -> RequestStatus]
      /\ row \in [Objects -> RowStatus]
      /\ stored \in [Objects -> BOOLEAN]
      /\ expired \in [Objects -> BOOLEAN]
  BY DEF Init, RequestStatus, RowStatus
<1> QED
  BY <1>1, <1>2, <1>3, <1>4 DEF Init, TypeOK

LEMMA TypeRequest ==
    ASSUME TypeOK, NEW r \in Requests, RequestStep(r) PROVE TypeOK'
<1> USE DEF TypeOK, Calls, RequestStatus, JobStatus, Phase, RowStatus
<1>1. CASE RequestDeletion(r)
  BY <1>1 DEF RequestDeletion, Passes, Approve, Active
<1>2. CASE PrepareHeld(r)
  BY <1>2 DEF PrepareHeld, LiveFence
<1>3. CASE Prepare(r)
  BY <1>3 DEF Prepare, CanFence, LiveFence, Erasable, Doomed
<1>4. CASE RecordForRequest(r)
  BY <1>4 DEF RecordForRequest
<1>5. CASE CompleteDeletion(r)
  BY <1>5 DEF CompleteDeletion
<1>6. CASE \E o \in Objects : EraseForRequest(r, o)
  BY <1>6 DEF EraseForRequest
<1> QED
  BY <1>1, <1>2, <1>3, <1>4, <1>5, <1>6 DEF RequestStep

LEMMA TypeScan ==
    ASSUME TypeOK, NEW k \in Scans, ScanStep(k) PROVE TypeOK'
<1> USE DEF TypeOK, Calls, RequestStatus, JobStatus, Phase, RowStatus
<1>1. CASE ScheduleScan(k)
  BY <1>1 DEF ScheduleScan
<1>2. CASE SelectExpired(k)
  BY <1>2 DEF SelectExpired, Expired, Erasable, Doomed
<1>3. CASE EraseForScan(k)
  BY <1>3 DEF EraseForScan
<1>4. CASE RecordForScan(k)
  BY <1>4 DEF RecordForScan
<1>5. CASE EndScan(k)
  BY <1>5 DEF EndScan
<1>6. CASE \E o \in Objects : SpareHeld(k, o)
  BY <1>6 DEF SpareHeld, LiveFence
<1>7. CASE \E o \in Objects : FenceObject(k, o)
  BY <1>7 DEF FenceObject, CanFence, LiveFence
<1>8. CASE \E o \in Objects : SkipFenced(k, o)
  BY <1>8 DEF SkipFenced, CanFence, LiveFence
<1> QED
  BY <1>1, <1>2, <1>3, <1>4, <1>5, <1>6, <1>7, <1>8 DEF ScanStep

LEMMA TypeJob ==
    ASSUME TypeOK, NEW x \in JobIds, JobStep(x) PROVE TypeOK'
<1> USE DEF TypeOK, Calls, RequestStatus, JobStatus, Phase, RowStatus
<1>1. CASE Claim(x)
  BY <1>1 DEF Claim
<1>2. CASE Fail(x)
  BY <1>2 DEF Fail, Leave
<1>3. CASE FailForGood(x)
  BY <1>3 DEF FailForGood, Leave
<1>4. CASE Finish(x)
  BY <1>4 DEF Finish, Leave
<1>5. CASE Crash(x)
  BY <1>5 DEF Crash, Leave
<1>6. CASE LeaseLapses(x)
  BY <1>6 DEF LeaseLapses
<1>7. CASE RetryJob(x)
  BY <1>7 DEF RetryJob
<1>8. CASE CancelJob(x)
  BY <1>8 DEF CancelJob
<1> QED
  BY <1>1, <1>2, <1>3, <1>4, <1>5, <1>6, <1>7, <1>8 DEF JobStep

LEMMA TypeStep ==
    ASSUME TypeOK, [Next]_vars PROVE TypeOK'
<1> USE DEF TypeOK, Calls, RequestStatus, JobStatus, Phase, RowStatus
<1>1. CASE CreateLegalHold
  BY <1>1 DEF CreateLegalHold, Passes, LiveFence, Deleting
<1>2. CASE ReleaseLegalHold
  <2>1. /\ request' \in [Requests -> RequestStatus] /\ job' \in [JobIds -> JobStatus]
        /\ fence' \in JobIds \cup {NoJob} /\ hold' \in BOOLEAN
    BY <1>2 DEF ReleaseLegalHold, Approve
  <2>2. UNCHANGED <<visit, gone, late, heldGone, tries, objectVars, workerVars, crashes>>
    BY <1>2 DEF ReleaseLegalHold
  <2> QED
    BY <2>1, <2>2
<1>3. CASE \E o \in Objects : CompleteUpload(o)
  BY <1>3 DEF CompleteUpload, Deleting
<1>4. CASE \E o \in Objects : Expire(o)
  BY <1>4 DEF Expire
<1>5. CASE \E S \in SUBSET Objects : CreateRetentionPolicy(S)
  BY <1>5 DEF CreateRetentionPolicy
<1>6. CASE UNCHANGED vars
  BY <1>6 DEF vars
<1> QED
  BY <1>1, <1>2, <1>3, <1>4, <1>5, <1>6, TypeRequest, TypeScan, TypeJob DEF Next

\* Everything the module keeps in its variables is of its type, in every
\* reachable state.
THEOREM TypeCorrect == Spec => []TypeOK
<1>1. TypeOK /\ [Next]_vars => TypeOK'
  BY TypeStep
<1> QED
  BY TypeInit, <1>1, PTL DEF Spec

(***************************************************************************)
(* The fence.  A worker that is at work has a running job, whose fence no  *)
(* transaction clears; a hold and a deletion's fence exclude each other.   *)
(***************************************************************************)
WorkersRun    == \A x \in JobIds : pc[x] # "idle" => job[x] = "running"
HoldNotFenced == hold => fence \notin Requests

FenceInv == TypeOK /\ WorkersRun /\ EraserHoldsFence /\ HoldNotFenced

LEMMA FenceInit == Init => FenceInv
  BY TypeInit DEF Init, FenceInv, WorkersRun, EraserHoldsFence, HoldNotFenced, Erasing

LEMMA FenceRequest ==
    ASSUME FenceInv, TypeOK', NEW r \in Requests, RequestStep(r) PROVE FenceInv'
<1> USE DEF FenceInv, TypeOK, Phase, WorkersRun, EraserHoldsFence,
    HoldNotFenced, Erasing
<1>1. CASE RequestDeletion(r)
  BY <1>1 DEF RequestDeletion, Passes, Approve, Active
<1>2. CASE PrepareHeld(r)
  BY <1>2 DEF PrepareHeld, LiveFence
<1>3. CASE Prepare(r)
  BY <1>3 DEF Prepare, CanFence, LiveFence, Erasable, Doomed
<1>4. CASE RecordForRequest(r)
  BY <1>4 DEF RecordForRequest
<1>5. CASE CompleteDeletion(r)
  BY <1>5 DEF CompleteDeletion
<1>6. CASE \E o \in Objects : EraseForRequest(r, o)
  BY <1>6 DEF EraseForRequest
<1> QED
  BY <1>1, <1>2, <1>3, <1>4, <1>5, <1>6 DEF RequestStep

LEMMA FenceScan ==
    ASSUME FenceInv, TypeOK', NEW k \in Scans, ScanStep(k) PROVE FenceInv'
<1> USE DEF FenceInv, TypeOK, Phase, WorkersRun, EraserHoldsFence,
    HoldNotFenced, Erasing
<1>1. CASE ScheduleScan(k)
  BY <1>1 DEF ScheduleScan
<1>2. CASE SelectExpired(k)
  BY <1>2 DEF SelectExpired, Expired, Erasable, Doomed
<1>3. CASE EraseForScan(k)
  BY <1>3 DEF EraseForScan
<1>4. CASE RecordForScan(k)
  BY <1>4 DEF RecordForScan
<1>5. CASE EndScan(k)
  BY <1>5 DEF EndScan
<1>6. CASE \E o \in Objects : SpareHeld(k, o)
  BY <1>6 DEF SpareHeld, LiveFence
<1>7. CASE \E o \in Objects : FenceObject(k, o)
  BY <1>7 DEF FenceObject, CanFence, LiveFence
<1>8. CASE \E o \in Objects : SkipFenced(k, o)
  BY <1>8 DEF SkipFenced, CanFence, LiveFence
<1> QED
  BY <1>1, <1>2, <1>3, <1>4, <1>5, <1>6, <1>7, <1>8 DEF ScanStep

LEMMA FenceJob ==
    ASSUME FenceInv, TypeOK', NEW x \in JobIds, JobStep(x) PROVE FenceInv'
<1> USE DEF FenceInv, TypeOK, Phase, WorkersRun, EraserHoldsFence,
    HoldNotFenced, Erasing
<1>1. CASE Claim(x)
  BY <1>1 DEF Claim
<1>2. CASE Fail(x)
  BY <1>2 DEF Fail, Leave
<1>3. CASE FailForGood(x)
  BY <1>3 DEF FailForGood, Leave
<1>4. CASE Finish(x)
  BY <1>4 DEF Finish, Leave
<1>5. CASE Crash(x)
  BY <1>5 DEF Crash, Leave
<1>6. CASE LeaseLapses(x)
  BY <1>6 DEF LeaseLapses
<1>7. CASE RetryJob(x)
  BY <1>7 DEF RetryJob
<1>8. CASE CancelJob(x)
  BY <1>8 DEF CancelJob
<1> QED
  BY <1>1, <1>2, <1>3, <1>4, <1>5, <1>6, <1>7, <1>8 DEF JobStep

LEMMA FenceStep ==
    ASSUME FenceInv, TypeOK', [Next]_vars PROVE FenceInv'
<1> USE DEF FenceInv, TypeOK, Phase, WorkersRun, EraserHoldsFence,
    HoldNotFenced, Erasing
<1>1. CASE CreateLegalHold
  BY <1>1 DEF CreateLegalHold, Passes, LiveFence, Deleting
<1>2. CASE ReleaseLegalHold
  BY <1>2 DEF ReleaseLegalHold, Passes, Approve
<1>3. CASE \E o \in Objects : CompleteUpload(o)
  BY <1>3 DEF CompleteUpload, Deleting
<1>4. CASE \E o \in Objects : Expire(o)
  BY <1>4 DEF Expire
<1>5. CASE \E S \in SUBSET Objects : CreateRetentionPolicy(S)
  BY <1>5 DEF CreateRetentionPolicy
<1>6. CASE UNCHANGED vars
  BY <1>6 DEF vars
<1> QED
  BY <1>1, <1>2, <1>3, <1>4, <1>5, <1>6, FenceRequest, FenceScan, FenceJob DEF Next

LEMMA FenceInductive == FenceInv /\ [Next]_vars => FenceInv'
  BY TypeStep, FenceStep DEF FenceInv

\* A worker erases bytes only while the visit is fenced for its own job: two
\* erasures of a visit never overlap, however many jobs there are.
THEOREM ErasersHoldTheFence == Spec => []EraserHoldsFence
<1>1. FenceInv => EraserHoldsFence
  BY DEF FenceInv
<1> QED
  BY FenceInit, FenceInductive, <1>1, PTL DEF Spec

\* No deletion erases a held visit, whatever the retention scans do.
THEOREM HoldsExcludeDeletions == Spec => []HoldExcludesDeletion
<1>1. FenceInv => HoldExcludesDeletion
  BY DEF FenceInv, EraserHoldsFence, HoldNotFenced, HoldExcludesDeletion
<1> QED
  BY FenceInit, FenceInductive, <1>1, PTL DEF Spec

\* A deletion that is closing, or closed, has let its fence go.
Released ==
    \A r \in Requests : pc[r] = "closing" \/ job[r] = "succeeded" => fence # r

LEMMA ReleasedInit == Init => Released
  BY DEF Init, Released

LEMMA ReleasedRequest ==
    ASSUME FenceInv, Released, NEW r \in Requests, RequestStep(r) PROVE Released'
<1> USE DEF FenceInv, TypeOK, Phase, WorkersRun, HoldNotFenced, Released
<1>1. CASE RequestDeletion(r)
  BY <1>1 DEF RequestDeletion, Passes, Approve, Active
<1>2. CASE PrepareHeld(r)
  BY <1>2 DEF PrepareHeld, LiveFence
<1>3. CASE Prepare(r)
  BY <1>3 DEF Prepare, CanFence, LiveFence, Erasable, Doomed
<1>4. CASE RecordForRequest(r)
  BY <1>4 DEF RecordForRequest
<1>5. CASE CompleteDeletion(r)
  BY <1>5 DEF CompleteDeletion
<1>6. CASE \E o \in Objects : EraseForRequest(r, o)
  BY <1>6 DEF EraseForRequest
<1> QED
  BY <1>1, <1>2, <1>3, <1>4, <1>5, <1>6 DEF RequestStep

LEMMA ReleasedScan ==
    ASSUME FenceInv, Released, NEW k \in Scans, ScanStep(k) PROVE Released'
<1> USE DEF FenceInv, TypeOK, Phase, WorkersRun, HoldNotFenced, Released
<1>1. CASE ScheduleScan(k)
  BY <1>1 DEF ScheduleScan
<1>2. CASE SelectExpired(k)
  BY <1>2 DEF SelectExpired, Expired, Erasable, Doomed
<1>3. CASE EraseForScan(k)
  BY <1>3 DEF EraseForScan
<1>4. CASE RecordForScan(k)
  BY <1>4 DEF RecordForScan
<1>5. CASE EndScan(k)
  BY <1>5 DEF EndScan
<1>6. CASE \E o \in Objects : SpareHeld(k, o)
  BY <1>6 DEF SpareHeld, LiveFence
<1>7. CASE \E o \in Objects : FenceObject(k, o)
  BY <1>7 DEF FenceObject, CanFence, LiveFence
<1>8. CASE \E o \in Objects : SkipFenced(k, o)
  BY <1>8 DEF SkipFenced, CanFence, LiveFence
<1> QED
  BY <1>1, <1>2, <1>3, <1>4, <1>5, <1>6, <1>7, <1>8 DEF ScanStep

LEMMA ReleasedJob ==
    ASSUME FenceInv, Released, NEW x \in JobIds, JobStep(x) PROVE Released'
<1> USE DEF FenceInv, TypeOK, Phase, WorkersRun, HoldNotFenced, Released
<1>1. CASE Claim(x)
  BY <1>1 DEF Claim
<1>2. CASE Fail(x)
  BY <1>2 DEF Fail, Leave
<1>3. CASE FailForGood(x)
  BY <1>3 DEF FailForGood, Leave
<1>4. CASE Finish(x)
  BY <1>4 DEF Finish, Leave
<1>5. CASE Crash(x)
  BY <1>5 DEF Crash, Leave
<1>6. CASE LeaseLapses(x)
  BY <1>6 DEF LeaseLapses
<1>7. CASE RetryJob(x)
  BY <1>7 DEF RetryJob
<1>8. CASE CancelJob(x)
  BY <1>8 DEF CancelJob
<1> QED
  BY <1>1, <1>2, <1>3, <1>4, <1>5, <1>6, <1>7, <1>8 DEF JobStep

LEMMA ReleasedStep ==
    ASSUME FenceInv, Released, [Next]_vars PROVE Released'
<1> USE DEF FenceInv, TypeOK, Phase, WorkersRun, HoldNotFenced, Released
<1>1. CASE CreateLegalHold
  BY <1>1 DEF CreateLegalHold, Passes, LiveFence, Deleting
<1>2. CASE ReleaseLegalHold
  BY <1>2 DEF ReleaseLegalHold, Passes, Approve
<1>3. CASE \E o \in Objects : CompleteUpload(o)
  BY <1>3 DEF CompleteUpload, Deleting
<1>4. CASE \E o \in Objects : Expire(o)
  BY <1>4 DEF Expire
<1>5. CASE \E S \in SUBSET Objects : CreateRetentionPolicy(S)
  BY <1>5 DEF CreateRetentionPolicy
<1>6. CASE UNCHANGED vars
  BY <1>6 DEF vars
<1> QED
  BY <1>1, <1>2, <1>3, <1>4, <1>5, <1>6, ReleasedRequest, ReleasedScan, ReleasedJob DEF Next

\* A deletion that succeeded left no fence behind.
THEOREM SucceededDeletionsUnlock == Spec => []SucceededLeavesNoFence
<1>1. FenceInv /\ Released /\ [Next]_vars => (FenceInv /\ Released)'
  BY FenceInductive, ReleasedStep
<1>2. FenceInv /\ Released => SucceededLeavesNoFence
  BY DEF Released, SucceededLeavesNoFence
<1> QED
  BY FenceInit, ReleasedInit, <1>1, <1>2, PTL DEF Spec

(***************************************************************************)
(* The objects.  A deletion at work has listed every object that still has *)
(* bytes, and nothing is added to the visit behind its back.               *)
(***************************************************************************)
HeldSinceGone == gone /\ hold => heldGone

\* Uploads are refused from the preparation on.
DeletionSeesAll ==
    \A r \in Requests : Erasing(r) =>
        visit # "active" /\ \A o \in Erasable : o \in todo[r]

\* An object that a worker prepared exists, and one it is about to record
\* has lost its bytes.
Prepared ==
    \A x \in JobIds :
        /\ \A o \in todo[x] : row[o] # "absent"
        /\ x \in Scans /\ Erasing(x) => cur[x] \in todo[x]
        /\ pc[x] = "recording" => cur[x] \in todo[x] /\ ~stored[cur[x]]

AbsentIsNotStored == \A o \in Objects : row[o] = "absent" => ~stored[o]

ObjectInv ==
    /\ FenceInv /\ HeldSinceGone /\ DeletionSeesAll /\ Prepared
    /\ AbsentIsNotStored /\ DeletedIsErased /\ GoneIsErased

LEMMA ObjectInit == Init => ObjectInv
  BY FenceInit DEF Init, ObjectInv, HeldSinceGone, DeletionSeesAll, Prepared, Erasing,
     AbsentIsNotStored, DeletedIsErased, GoneIsErased

LEMMA ObjectRequest ==
    ASSUME ObjectInv, FenceInv', NEW r \in Requests, RequestStep(r) PROVE ObjectInv'
<1> USE DEF FenceInv, TypeOK, Phase, WorkersRun, EraserHoldsFence,
    HoldNotFenced, Erasing, ObjectInv, HeldSinceGone, DeletionSeesAll, Prepared,
    AbsentIsNotStored, DeletedIsErased, GoneIsErased, Erasable
<1>1. CASE RequestDeletion(r)
  BY <1>1 DEF RequestDeletion, Passes, Approve, Active
<1>2. CASE PrepareHeld(r)
  BY <1>2 DEF PrepareHeld, LiveFence
<1>3. CASE Prepare(r)
  BY <1>3 DEF Prepare, CanFence, LiveFence, Erasable, Doomed
<1>4. CASE RecordForRequest(r)
  BY <1>4 DEF RecordForRequest
<1>5. CASE CompleteDeletion(r)
  <2>1. \A o \in Objects : row[o] \in {"absent", "deleted"}
    BY <1>5 DEF CompleteDeletion, ObjectInv, FenceInv, TypeOK, DeletionSeesAll, Erasing,
       Erasable, RowStatus
  <2>2. \A o \in Objects : ~stored[o]
    BY <2>1 DEF ObjectInv, AbsentIsNotStored, DeletedIsErased
  <2>3. UNCHANGED objectVars /\ gone' /\ ~hold'
    BY <1>5 DEF CompleteDeletion
  <2>4. HeldSinceGone' /\ AbsentIsNotStored' /\ DeletedIsErased' /\ GoneIsErased'
    BY <2>1, <2>2, <2>3 DEF objectVars, HeldSinceGone, AbsentIsNotStored, DeletedIsErased,
       GoneIsErased
  <2>5. DeletionSeesAll' /\ Prepared'
    BY <1>5, <2>3 DEF CompleteDeletion, ObjectInv, FenceInv, TypeOK, Phase, DeletionSeesAll,
       Prepared, Erasing, Erasable, objectVars
  <2> QED
    BY <2>4, <2>5 DEF ObjectInv
<1>6. CASE \E o \in Objects : EraseForRequest(r, o)
  BY <1>6 DEF EraseForRequest
<1> QED
  BY <1>1, <1>2, <1>3, <1>4, <1>5, <1>6 DEF RequestStep

LEMMA ObjectScan ==
    ASSUME ObjectInv, FenceInv', NEW k \in Scans, ScanStep(k) PROVE ObjectInv'
<1> USE DEF FenceInv, TypeOK, Phase, WorkersRun, EraserHoldsFence,
    HoldNotFenced, Erasing, ObjectInv, HeldSinceGone, DeletionSeesAll, Prepared,
    AbsentIsNotStored, DeletedIsErased, GoneIsErased, Erasable
<1>1. CASE ScheduleScan(k)
  BY <1>1 DEF ScheduleScan
<1>2. CASE SelectExpired(k)
  BY <1>2 DEF SelectExpired, Expired, Erasable, Doomed
<1>3. CASE EraseForScan(k)
  BY <1>3 DEF EraseForScan
<1>4. CASE RecordForScan(k)
  BY <1>4 DEF RecordForScan
<1>5. CASE EndScan(k)
  BY <1>5 DEF EndScan
<1>6. CASE \E o \in Objects : SpareHeld(k, o)
  BY <1>6 DEF SpareHeld, LiveFence
<1>7. CASE \E o \in Objects : FenceObject(k, o)
  BY <1>7 DEF FenceObject, CanFence, LiveFence
<1>8. CASE \E o \in Objects : SkipFenced(k, o)
  BY <1>8 DEF SkipFenced, CanFence, LiveFence
<1> QED
  BY <1>1, <1>2, <1>3, <1>4, <1>5, <1>6, <1>7, <1>8 DEF ScanStep

LEMMA ObjectJob ==
    ASSUME ObjectInv, FenceInv', NEW x \in JobIds, JobStep(x) PROVE ObjectInv'
<1> USE DEF FenceInv, TypeOK, Phase, WorkersRun, EraserHoldsFence,
    HoldNotFenced, Erasing, ObjectInv, HeldSinceGone, DeletionSeesAll, Prepared,
    AbsentIsNotStored, DeletedIsErased, GoneIsErased, Erasable
<1>1. CASE Claim(x)
  BY <1>1 DEF Claim
<1>2. CASE Fail(x)
  BY <1>2 DEF Fail, Leave
<1>3. CASE FailForGood(x)
  BY <1>3 DEF FailForGood, Leave
<1>4. CASE Finish(x)
  BY <1>4 DEF Finish, Leave
<1>5. CASE Crash(x)
  BY <1>5 DEF Crash, Leave
<1>6. CASE LeaseLapses(x)
  BY <1>6 DEF LeaseLapses
<1>7. CASE RetryJob(x)
  BY <1>7 DEF RetryJob
<1>8. CASE CancelJob(x)
  BY <1>8 DEF CancelJob
<1> QED
  BY <1>1, <1>2, <1>3, <1>4, <1>5, <1>6, <1>7, <1>8 DEF JobStep

LEMMA ObjectStep ==
    ASSUME ObjectInv, FenceInv', [Next]_vars PROVE ObjectInv'
<1> USE DEF FenceInv, TypeOK, Phase, WorkersRun, EraserHoldsFence,
    HoldNotFenced, Erasing, ObjectInv, HeldSinceGone, DeletionSeesAll, Prepared,
    AbsentIsNotStored, DeletedIsErased, GoneIsErased, Erasable
<1>1. CASE CreateLegalHold
  BY <1>1 DEF CreateLegalHold, Passes, LiveFence, Deleting
<1>2. CASE ReleaseLegalHold
  BY <1>2 DEF ReleaseLegalHold, Passes, Approve
<1>3. CASE \E o \in Objects : CompleteUpload(o)
  BY <1>3 DEF CompleteUpload, Deleting
<1>4. CASE \E o \in Objects : Expire(o)
  BY <1>4 DEF Expire
<1>5. CASE \E S \in SUBSET Objects : CreateRetentionPolicy(S)
  BY <1>5 DEF CreateRetentionPolicy
<1>6. CASE UNCHANGED vars
  BY <1>6 DEF vars
<1> QED
  BY <1>1, <1>2, <1>3, <1>4, <1>5, <1>6, ObjectRequest, ObjectScan, ObjectJob DEF Next

LEMMA ObjectInductive == ObjectInv /\ [Next]_vars => ObjectInv'
  BY FenceInductive, ObjectStep DEF ObjectInv

\* Bytes are never left in the bucket under a row that says 'deleted'.
THEOREM DeletedObjectsAreErased == Spec => []DeletedIsErased
<1>1. ObjectInv => DeletedIsErased
  BY DEF ObjectInv
<1> QED
  BY ObjectInit, ObjectInductive, <1>1, PTL DEF Spec

\* A deleted visit left nothing in the bucket, although requests that read it
\* before still get through; its rows say so until one of them places a hold.
THEOREM GoneVisitsAreErased == Spec => []GoneIsErased
<1>1. ObjectInv => GoneIsErased
  BY DEF ObjectInv
<1> QED
  BY ObjectInit, ObjectInductive, <1>1, PTL DEF Spec
=============================================================================
