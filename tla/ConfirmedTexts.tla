--------------------------- MODULE ConfirmedTexts ---------------------------
(***************************************************************************)
(* The two texts of a visit that staff correct and confirm, and what the   *)
(* model makes of them: the extraction of a PDF and the preparation of the *)
(* visit; the transcript, its quality assessment and the reviews.          *)
(*                                                                         *)
(* A job reads a text in one transaction, asks the model for minutes and   *)
(* commits in another; meanwhile the text may be edited, confirmed again   *)
(* or erased by retention.  A text carries lock_version: every edit and    *)
(* every confirmation raises it, an erasure does not.  A job may run again *)
(* after a crash or a temporary failure, and on an operator's request.     *)
(* Who may do what, and the visit's fence (VisitDeletion), are left out.   *)
(***************************************************************************)
EXTENDS Naturals, FiniteSets

CONSTANTS
    Documents,      \* PDFs of the visit
    Preparers,      \* jobs of type preparation
    Reviewers,      \* jobs of type review of the transcript
    Chunks,         \* pieces of the transcript reviewed one by one
    MaxRequests,    \* bound on what people ask for
    MaxFaults       \* bound on crashes and temporary failures

\* A job has one type.
ASSUME ConfirmedTextsAssumption ==
    /\ {Chunks, MaxRequests, MaxFaults} \subseteq Nat
    /\ Chunks > 0
    /\ Preparers \cap Reviewers = {}

Jobs == Preparers \cup Reviewers
Locks == 1..(MaxRequests + 1)
NoLock == 0

DocumentStatus == {"ready", "extracting", "extracted", "failed", "deleted"}
TextStatus == {"none", "generated", "editing", "confirmed", "superseded", "deleted"}
PreparationStatus == {"none", "generated", "confirmed", "superseded"}
TextReviewStatus == {"none", "generated", "acknowledged", "deleted"}
JobPc == {"none", "queued", "ask", "done", "over", "failed"}
Assessments ==
    [status: {"none", "assessment_unavailable", "evaluated"},
     flagged: BOOLEAN, decision: {"none", "continue", "replace"}]

VARIABLES
    doc,        \* document -> visit_documents.status
    ext, extLock,   \* document -> its extraction's status and lock_version
    prep,       \* preparation job -> status of what it made
    text, textLock, \* the transcript's status and lock_version
    quality,    \* its row of transcript_quality_assessments
    assessor,   \* the transcription job's last step: "off", "ask"
    checkpoint, \* review job -> chunk -> version of the text it was made of
    review,     \* review job -> status of what it made
    pc,         \* job -> where it is
    read,       \* job -> the text it read: a document (or the transcript), a version
    parts,      \* review job -> chunk -> version of the text of the result in hand
    madeOf,     \* job -> the text its result was made of
    requests, faults

docVars == <<doc, ext, extLock>>
textVars == <<text, textLock>>
assessVars == <<quality, assessor>>
jobVars == <<pc, read, parts>>
textsVars == <<docVars, prep, textVars, assessVars, checkpoint, review, jobVars,
          madeOf, requests, faults>>

Transcript == "transcript"
NoText == <<Transcript, NoLock>>
NoParts == [c \in 1..Chunks |-> NoLock]
Texts == (Documents \cup {Transcript}) \X (Locks \cup {NoLock})

TextsTypeOK ==
    /\ doc \in [Documents -> DocumentStatus]
    /\ ext \in [Documents -> TextStatus]
    /\ extLock \in [Documents -> Locks]
    /\ prep \in [Preparers -> PreparationStatus]
    /\ text \in TextStatus
    /\ textLock \in Locks
    /\ quality \in Assessments
    /\ assessor \in {"off", "ask"}
    /\ {checkpoint, parts} \subseteq [Reviewers -> [1..Chunks -> Locks \cup {NoLock}]]
    /\ review \in [Reviewers -> TextReviewStatus]
    /\ pc \in [Jobs -> JobPc]
    /\ {read, madeOf} \subseteq [Jobs -> Texts]
    /\ requests \in 0..MaxRequests
    /\ faults \in 0..MaxFaults

NotAssessed == [status |-> "none", flagged |-> FALSE, decision |-> "none"]

TextsInit ==
    /\ doc = [d \in Documents |-> "ready"]
    /\ ext = [d \in Documents |-> "none"]
    /\ extLock = [d \in Documents |-> 1]
    /\ prep = [j \in Preparers |-> "none"]
    /\ text = "none" /\ textLock = 1
    /\ quality = NotAssessed
    /\ assessor = "off"
    /\ checkpoint = [j \in Reviewers |-> NoParts]
    /\ review = [j \in Reviewers |-> "none"]
    /\ pc = [j \in Jobs |-> "none"]
    /\ read = [j \in Jobs |-> NoText]
    /\ parts = [j \in Reviewers |-> NoParts]
    /\ madeOf = [j \in Jobs |-> NoText]
    /\ requests = 0 /\ faults = 0

Request == requests < MaxRequests /\ requests' = requests + 1
Fault == faults < MaxFaults /\ faults' = faults + 1

-----------------------------------------------------------------------------
(* The extraction of a document: the PDF handler, corrections, retention.  *)

BeginExtraction(d) ==
    /\ doc[d] \in {"ready", "failed"}
    /\ doc' = [doc EXCEPT ![d] = "extracting"]
    /\ UNCHANGED <<ext, extLock, prep, textVars, assessVars, checkpoint, review, jobVars, madeOf, requests, faults>>

\* The document must still be extracting when the answer is there.
CommitExtraction(d) ==
    /\ doc[d] = "extracting"
    /\ doc' = [doc EXCEPT ![d] = "extracted"]
    /\ ext' = [ext EXCEPT ![d] = "generated"]
    /\ UNCHANGED <<extLock, prep, textVars, assessVars, checkpoint, review, jobVars, madeOf, requests, faults>>

FailExtraction(d) ==
    /\ doc[d] = "extracting"
    /\ Fault
    /\ doc' = [doc EXCEPT ![d] = "failed"]
    /\ UNCHANGED <<ext, extLock, prep, textVars, assessVars, checkpoint, review, jobVars, madeOf, requests>>

\* updateExtraction compares the version and nothing else.
UpdateExtraction(d) ==
    /\ ext[d] # "none"
    /\ Request
    /\ ext' = [ext EXCEPT ![d] = "editing"]
    /\ extLock' = [extLock EXCEPT ![d] = @ + 1]
    /\ UNCHANGED <<doc, prep, textVars, assessVars, checkpoint, review, jobVars, madeOf, faults>>

ConfirmExtraction(d) ==
    /\ ext[d] \in {"generated", "editing"}
    /\ Request
    /\ ext' = [ext EXCEPT ![d] = "confirmed"]
    /\ extLock' = [extLock EXCEPT ![d] = @ + 1]
    /\ UNCHANGED <<doc, prep, textVars, assessVars, checkpoint, review, jobVars, madeOf, faults>>

\* The end of a document's retention, for the texts: its extraction and
\* every preparation of the visit go with it; the version stays.
RetireDocument(d) ==
    /\ doc[d] # "deleted"
    /\ doc' = [doc EXCEPT ![d] = "deleted"]
    /\ ext' = [ext EXCEPT ![d] = IF @ = "none" THEN @ ELSE "superseded"]
    /\ prep' = [j \in Preparers |-> IF prep[j] = "none" THEN "none" ELSE "superseded"]
    /\ UNCHANGED <<extLock, textVars, assessVars, checkpoint, review, jobVars, madeOf, requests, faults>>

-----------------------------------------------------------------------------
(* The preparation of the visit.                                           *)

CreatePreparation(j) ==
    /\ pc[j] = "none"
    /\ \E d \in Documents: ext[d] = "confirmed"
    /\ Request
    /\ pc' = [pc EXCEPT ![j] = "queued"]
    /\ UNCHANGED <<docVars, prep, textVars, assessVars, checkpoint, review, read, parts, madeOf, faults>>

\* An extraction's version counts within its document, so that the newest of
\* the visit is any confirmed one.
ReadExtraction(j, d) ==
    /\ pc[j] = "queued"
    /\ ext[d] = "confirmed"
    /\ pc' = [pc EXCEPT ![j] = "ask"]
    /\ read' = [read EXCEPT ![j] = <<d, extLock[d]>>]
    /\ UNCHANGED <<docVars, prep, textVars, assessVars, checkpoint, review, parts, madeOf, requests, faults>>

SameExtraction(j) ==
    /\ ext[read[j][1]] = "confirmed"
    /\ extLock[read[j][1]] = read[j][2]

\* Mutant of Supersede: a confirmed preparation is kept.
SupersedeUnconfirmed(j) ==
    [p \in Preparers |->
        IF p = j THEN "generated" ELSE IF prep[p] = "generated" THEN "superseded" ELSE prep[p]]

Supersede(j) ==
    [p \in Preparers |->
        IF p = j THEN "generated"
        ELSE IF prep[p] \in {"generated", "confirmed"} THEN "superseded" ELSE prep[p]]

\* A job that has made its preparation already makes no other.
CommitPreparation(j) ==
    /\ pc[j] = "ask"
    /\ SameExtraction(j)
    /\ pc' = [pc EXCEPT ![j] = "done"]
    /\ IF prep[j] = "none"
       THEN prep' = Supersede(j) /\ madeOf' = [madeOf EXCEPT ![j] = read[j]]
       ELSE UNCHANGED <<prep, madeOf>>
    /\ UNCHANGED <<docVars, textVars, assessVars, checkpoint, review, read, parts, requests, faults>>

ConfirmPreparation(j) ==
    /\ prep[j] = "generated"
    /\ Request
    /\ prep' = [prep EXCEPT ![j] = "confirmed"]
    /\ UNCHANGED <<docVars, textVars, assessVars, checkpoint, review, jobVars, madeOf, faults>>

-----------------------------------------------------------------------------
(* The transcript.                                                         *)

\* The transcription job writes it (Transcription); the assessment follows.
Transcribe ==
    /\ text = "none"
    /\ text' = "generated"
    /\ UNCHANGED <<docVars, prep, textLock, assessVars, checkpoint, review, jobVars, madeOf, requests, faults>>

\* Typed in by hand: confirmed and assessed at once.
CreateManualTranscript ==
    /\ text = "none"
    /\ Request
    /\ text' = "confirmed"
    /\ quality' = [NotAssessed EXCEPT !.status = "evaluated"]
    /\ UNCHANGED <<docVars, prep, textLock, assessor, checkpoint, review, jobVars, madeOf, faults>>

\* updateTranscript compares the version and nothing else.
UpdateTranscript ==
    /\ text # "none"
    /\ Request
    /\ text' = "editing"
    /\ textLock' = textLock + 1
    /\ UNCHANGED <<docVars, prep, assessVars, checkpoint, review, jobVars, madeOf, faults>>

ConfirmTranscript ==
    /\ text \in {"generated", "editing"}
    /\ Request
    /\ text' = "confirmed"
    /\ textLock' = textLock + 1
    /\ UNCHANGED <<docVars, prep, assessVars, checkpoint, review, jobVars, madeOf, faults>>

\* Retention: the words are overwritten, the version stays.
DeleteTranscript ==
    /\ text \notin {"none", "deleted"}
    /\ text' = "deleted"
    /\ UNCHANGED <<docVars, prep, textLock, assessVars, checkpoint, review, jobVars, madeOf, requests, faults>>

-----------------------------------------------------------------------------
(* The quality of the transcript.  The assessment is asked for at the end  *)
(* of every attempt of the transcription job.                              *)

\* Neither the model's word nor a person's is replaced.
Assessable == quality.status # "evaluated" /\ quality.decision = "none"

ReadQuality ==
    /\ assessor = "off"
    /\ text # "none"
    /\ quality.status # "evaluated" /\ quality.decision = "none"
    /\ assessor' = "ask"
    /\ UNCHANGED <<docVars, prep, textVars, quality, checkpoint, review, jobVars, madeOf, requests, faults>>

\* The answer may be that there is none: the attempt fails or the job ends,
\* and a later attempt asks again.  Flags found without the model stay.
SaveQuality(status, flagged) ==
    /\ assessor = "ask"
    /\ status = "assessment_unavailable" => Fault
    /\ status = "evaluated" => UNCHANGED faults
    /\ assessor' = "off"
    /\ quality' = IF Assessable
                  THEN [status |-> status, flagged |-> flagged, decision |-> "none"]
                  ELSE quality
    /\ UNCHANGED <<docVars, prep, textVars, checkpoint, review, jobVars, madeOf, requests>>

Questionable == quality.status = "assessment_unavailable" \/ quality.flagged

AcknowledgeTranscriptQuality(decision) ==
    /\ Questionable
    /\ Request
    /\ quality' = [quality EXCEPT !.decision = decision]
    /\ UNCHANGED <<docVars, prep, textVars, assessor, checkpoint, review, jobVars, madeOf, faults>>

-----------------------------------------------------------------------------
(* The reviews.                                                            *)

\* createJob looks at the quality; the text is looked at by the worker.
CreateReview(j) ==
    /\ pc[j] = "none"
    /\ quality.status # "none"
    /\ Questionable => quality.decision = "continue"
    /\ Request
    /\ pc' = [pc EXCEPT ![j] = "queued"]
    /\ UNCHANGED <<docVars, prep, textVars, assessVars, checkpoint, review, read, parts, madeOf, faults>>

ReadTranscript(j) ==
    /\ pc[j] = "queued"
    /\ text = "confirmed"
    /\ pc' = [pc EXCEPT ![j] = "ask"]
    /\ read' = [read EXCEPT ![j] = <<Transcript, textLock>>]
    /\ parts' = [parts EXCEPT ![j] = NoParts]
    /\ UNCHANGED <<docVars, prep, textVars, assessVars, checkpoint, review, madeOf, requests, faults>>

\* Mutant of Reusable: the input is not compared with the checkpoint's.
ReusableAnyway(j, c) == checkpoint[j][c] # NoLock

\* A chunk's result of an earlier attempt, when it was made of the same text.
Reusable(j, c) == checkpoint[j][c] = read[j][2]

NextChunk(j, c) ==
    /\ pc[j] = "ask"
    /\ parts[j][c] = NoLock
    /\ \A b \in 1..(c - 1): parts[j][b] # NoLock

ReuseChunk(j, c) ==
    /\ NextChunk(j, c)
    /\ Reusable(j, c)
    /\ parts' = [parts EXCEPT ![j][c] = checkpoint[j][c]]
    /\ UNCHANGED <<docVars, prep, textVars, assessVars, checkpoint, review, pc, read, madeOf, requests, faults>>

\* The model's answer is written down before the next chunk is asked for.
AskChunk(j, c) ==
    /\ NextChunk(j, c)
    /\ checkpoint[j][c] = NoLock
    /\ checkpoint' = [checkpoint EXCEPT ![j][c] = read[j][2]]
    /\ parts' = [parts EXCEPT ![j][c] = read[j][2]]
    /\ UNCHANGED <<docVars, prep, textVars, assessVars, review, pc, read, madeOf, requests, faults>>

SameTranscript(j) == text = "confirmed" /\ textLock = read[j][2]

CommitReview(j) ==
    /\ pc[j] = "ask"
    /\ \A c \in 1..Chunks: parts[j][c] # NoLock
    /\ SameTranscript(j)
    /\ pc' = [pc EXCEPT ![j] = "done"]
    /\ IF review[j] = "none"
       THEN /\ review' = [review EXCEPT ![j] = "generated"]
            /\ madeOf' = [madeOf EXCEPT ![j] = read[j]]
       ELSE UNCHANGED <<review, madeOf>>
    /\ UNCHANGED <<docVars, prep, textVars, assessVars, checkpoint, read, parts, requests, faults>>

AcknowledgeReview(j) ==
    /\ review[j] = "generated"
    /\ Request
    /\ review' = [review EXCEPT ![j] = "acknowledged"]
    /\ UNCHANGED <<docVars, prep, textVars, assessVars, checkpoint, jobVars, madeOf, faults>>

\* Retention.
DeleteReview(j) ==
    /\ review[j] \in {"generated", "acknowledged"}
    /\ review' = [review EXCEPT ![j] = "deleted"]
    /\ checkpoint' = [checkpoint EXCEPT ![j] = NoParts]
    /\ UNCHANGED <<docVars, prep, textVars, assessVars, jobVars, madeOf, requests, faults>>

-----------------------------------------------------------------------------
(* The jobs (JobQueue has their whole life).                               *)

Finish(j) ==
    /\ pc[j] = "done"
    /\ pc' = [pc EXCEPT ![j] = "over"]
    /\ UNCHANGED <<docVars, prep, textVars, assessVars, checkpoint, review, read, parts, madeOf, requests, faults>>

\* A crash, or a failure that is tried again.
RunAgain(j) ==
    /\ pc[j] \in {"ask", "done"}
    /\ Fault
    /\ pc' = [pc EXCEPT ![j] = "queued"]
    /\ UNCHANGED <<docVars, prep, textVars, assessVars, checkpoint, review, read, parts, madeOf, requests>>

\* The text is not there to be read, or no longer the one read, or a
\* checkpoint is of another: errors for good.
Unusable(j) ==
    \/ pc[j] = "queued" /\ j \in Preparers /\ \A d \in Documents: ext[d] # "confirmed"
    \/ pc[j] = "queued" /\ j \in Reviewers /\ text # "confirmed"
    \/ pc[j] = "ask" /\ j \in Preparers /\ ~SameExtraction(j)
    \/ pc[j] = "ask" /\ j \in Reviewers /\ ~SameTranscript(j)
    \/ pc[j] = "ask" /\ j \in Reviewers
       /\ \E c \in 1..Chunks: checkpoint[j][c] \notin {NoLock, read[j][2]}

Fail(j) ==
    /\ Unusable(j)
    /\ pc' = [pc EXCEPT ![j] = "failed"]
    /\ UNCHANGED <<docVars, prep, textVars, assessVars, checkpoint, review, read, parts, madeOf, requests, faults>>

RetryJob(j) ==
    /\ pc[j] = "failed"
    /\ Request
    /\ pc' = [pc EXCEPT ![j] = "queued"]
    /\ UNCHANGED <<docVars, prep, textVars, assessVars, checkpoint, review, read, parts, madeOf, faults>>

-----------------------------------------------------------------------------
DocumentStep(d) ==
    \/ BeginExtraction(d) \/ CommitExtraction(d) \/ FailExtraction(d)
    \/ UpdateExtraction(d) \/ ConfirmExtraction(d) \/ RetireDocument(d)

PreparationStep(j) ==
    \/ CreatePreparation(j) \/ CommitPreparation(j) \/ ConfirmPreparation(j)
    \/ \E d \in Documents: ReadExtraction(j, d)

TranscriptStep ==
    \/ Transcribe \/ CreateManualTranscript
    \/ UpdateTranscript \/ ConfirmTranscript \/ DeleteTranscript
    \/ ReadQuality
    \/ \E status \in {"assessment_unavailable", "evaluated"}, flagged \in BOOLEAN:
          SaveQuality(status, flagged)
    \/ \E decision \in {"continue", "replace"}: AcknowledgeTranscriptQuality(decision)

ReviewStep(j) ==
    \/ CreateReview(j) \/ ReadTranscript(j) \/ CommitReview(j)
    \/ AcknowledgeReview(j) \/ DeleteReview(j)
    \/ \E c \in 1..Chunks: ReuseChunk(j, c) \/ AskChunk(j, c)

JobStep(j) == Finish(j) \/ RunAgain(j) \/ Fail(j) \/ RetryJob(j)

TextsNext ==
    \/ \E d \in Documents: DocumentStep(d)
    \/ \E j \in Preparers: PreparationStep(j)
    \/ TranscriptStep
    \/ \E j \in Reviewers: ReviewStep(j)
    \/ \E j \in Jobs: JobStep(j)

TextsSpec == TextsInit /\ [][TextsNext]_textsVars

-----------------------------------------------------------------------------
(* Properties.                                                             *)

\* A visit has one preparation in force, whatever jobs were asked for and in
\* whatever order they end; and none that was made of an extraction erased
\* meanwhile, although erasing does not raise the version a job compares
\* (preparation, confirmPreparation, retentionScan).
OnePreparation ==
    LET inForce == {j \in Preparers: prep[j] \in {"generated", "confirmed"}} IN
    /\ Cardinality(inForce) <= 1
    /\ \A j \in inForce: ext[madeOf[j][1]] # "superseded"

\* A review is made of one text: every chunk, those taken over from earlier
\* attempts too, is of the version the review names (review).
ReviewIsOfOneText ==
    \A j \in Reviewers: review[j] \in {"generated", "acknowledged"} =>
        \A c \in 1..Chunks: checkpoint[j][c] = madeOf[j][2]

\* The decision a person took over a warning is never undone by an answer of
\* the model that was asked for before (assessTranscriptQuality against
\* acknowledgeTranscriptQuality).
DecisionStands ==
    [][quality.decision # "none" =>
        quality'.decision # "none" /\ quality'.status = quality.status
                                   /\ quality'.flagged = quality.flagged]_textsVars

\* A transcript deleted by retention stays deleted (getTranscript answers
\* 410 for it, and a test expects that after the scan).
DeletedStaysDeleted == [][text = "deleted" => text' = "deleted"]_textsVars
=============================================================================
