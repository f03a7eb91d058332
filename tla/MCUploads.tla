----------------------------- MODULE MCUploads ------------------------------
(* Instances of the modules of uploaded recordings and pictures for TLC,   *)
(* checked side by side: a behaviour is one of Recordings or one of        *)
(* MarketIdentification.                                                   *)
EXTENDS Recordings, MarketIdentification, TLC

\* Requests that complete an upload are alike, and so are members and what
\* they enter.
Symmetric == Permutations(Completions) \cup Permutations(Persons) \cup Permutations(Fields)

VARIABLE part   \* which of the two the behaviour is of

OfVisit == part = "visit"
OfProduct == part = "product"
NoProduct == UNCHANGED <<identificationVars, part>>
NoVisit == UNCHANGED <<recordingsVars, part>>

MCInit == RecordingsInit /\ MarketIdentificationInit /\ part \in {"visit", "product"}

MCConsent(c) ==
    \/ \E granted \in BOOLEAN: OfVisit /\ BeginConsent(c, granted) /\ NoProduct
    \/ OfVisit /\ Grant(c) /\ NoProduct
    \/ OfVisit /\ Withdraw(c) /\ NoProduct

MCUpload(u) ==
    \/ \E c \in Consents: OfVisit /\ StartUpload(u, c) /\ NoProduct
    \/ OfVisit /\ SignUrl(u) /\ NoProduct
    \/ OfVisit /\ Put(u) /\ NoProduct
    \/ OfVisit /\ Lapse(u) /\ NoProduct
    \/ OfVisit /\ Age(u) /\ NoProduct
    \/ OfVisit /\ ClaimStale(u) /\ NoProduct
    \/ OfVisit /\ EraseStale(u) /\ NoProduct
    \/ OfVisit /\ EraseFails(u) /\ NoProduct
    \/ OfVisit /\ RemoveSession(u) /\ NoProduct

MCCompletion(u, c) ==
    \/ OfVisit /\ BeginCompletion(u, c) /\ NoProduct
    \/ OfVisit /\ Verify(u, c) /\ NoProduct
    \/ OfVisit /\ VerifyFails(u, c) /\ NoProduct
    \/ OfVisit /\ Probe(u, c) /\ NoProduct
    \/ OfVisit /\ ProbeFails(u, c) /\ NoProduct
    \/ OfVisit /\ Commit(u, c) /\ NoProduct
    \/ OfVisit /\ CommitUnheard(u, c) /\ NoProduct
    \/ OfVisit /\ CommitRefused(u, c) /\ NoProduct
    \/ OfVisit /\ CommitFails(u, c) /\ NoProduct
    \/ OfVisit /\ Lookup(u, c) /\ NoProduct
    \/ OfVisit /\ DeleteUnreferenced(u, c) /\ NoProduct

MCImport(i) ==
    \/ \E c \in Consents: OfVisit /\ CreateImport(i, c) /\ NoProduct
    \/ OfVisit /\ ClaimImport(i) /\ NoProduct
    \/ OfVisit /\ BeginImport(i) /\ NoProduct
    \/ OfVisit /\ Copy(i) /\ NoProduct
    \/ OfVisit /\ ProbeCopy(i) /\ NoProduct
    \/ OfVisit /\ NotCancelled(i) /\ NoProduct
    \/ OfVisit /\ CommitImport(i) /\ NoProduct
    \/ OfVisit /\ HandlerCancelled(i) /\ NoProduct
    \/ OfVisit /\ Finish(i) /\ NoProduct
    \/ OfVisit /\ Crash(i) /\ NoProduct
    \/ OfVisit /\ RetryJob(i) /\ NoProduct
    \/ OfVisit /\ CancelJob(i) /\ NoProduct
    \/ \E retryable \in BOOLEAN: OfVisit /\ HandlerFails(i, retryable) /\ NoProduct
    \/ \E retryable \in BOOLEAN: OfVisit /\ CommitImportUnheard(i, retryable) /\ NoProduct

MCPerson(m) ==
    \/ OfProduct /\ ShowIdentification(m) /\ NoVisit
    \/ \E fields \in Fields: OfProduct /\ UpdateIdentification(m, fields) /\ NoVisit
    \/ OfProduct /\ ConfirmIdentification(m) /\ NoVisit

MCProduct ==
    \/ \E images \in BOOLEAN, fields \in Fields:
          OfProduct /\ CreateIdentification(images, fields) /\ NoVisit
    \/ OfProduct /\ TimePasses /\ NoVisit
    \/ OfProduct /\ DeleteExpired /\ NoVisit
    \/ OfProduct /\ RecordExpired /\ NoVisit
    \/ OfProduct /\ ScanFails /\ NoVisit

MCPicture(i) ==
    \/ OfProduct /\ StartPictureUpload(i) /\ NoVisit
    \/ OfProduct /\ PutPicture(i) /\ NoVisit
    \/ OfProduct /\ CompletePictureUpload(i) /\ NoVisit
    \/ OfProduct /\ CompleteRefused(i) /\ NoVisit
    \/ OfProduct /\ PurgeUpload(i) /\ NoVisit
    \/ OfProduct /\ MarkExpired(i) /\ NoVisit

MCAnalysis(j) ==
    \/ OfProduct /\ AnalyzeIdentification(j) /\ NoVisit
    \/ OfProduct /\ CancelAnalysis(j) /\ NoVisit
    \/ OfProduct /\ PrepareAnalysis(j) /\ NoVisit
    \/ OfProduct /\ PrepareRefused(j) /\ NoVisit
    \/ \E i \in Pictures: OfProduct /\ NormalizePicture(j, i) /\ NoVisit
    \/ \E i \in Pictures: OfProduct /\ NormalizeRefused(j, i) /\ NoVisit
    \/ OfProduct /\ RecordPicture(j) /\ NoVisit
    \/ OfProduct /\ RecordFails(j) /\ NoVisit
    \/ OfProduct /\ UndoPass(j) /\ NoVisit
    \/ OfProduct /\ DropSource(j) /\ NoVisit
    \/ OfProduct /\ CommitSuggestion(j) /\ NoVisit
    \/ OfProduct /\ AnalysisThrows(j) /\ NoVisit
    \/ OfProduct /\ AnalysisDies(j) /\ NoVisit
    \/ OfProduct /\ AnalysisSucceeds(j) /\ NoVisit
    \/ OfProduct /\ AnalysisIsCancelled(j) /\ NoVisit
    \/ OfProduct /\ AnalysisIsRetried(j) /\ NoVisit
    \/ OfProduct /\ AnalysisFails(j) /\ NoVisit

MCNext ==
    \/ \E c \in Consents: MCConsent(c)
    \/ \E u \in Uploads: MCUpload(u)
    \/ \E u \in Uploads, c \in Completions: MCCompletion(u, c)
    \/ \E i \in Imports: MCImport(i)
    \/ \E m \in Persons: MCPerson(m)
    \/ MCProduct
    \/ \E i \in Pictures: MCPicture(i)
    \/ \E j \in Analyses: MCAnalysis(j)

MCSpec == MCInit /\ [][MCNext]_<<recordingsVars, identificationVars, part>>
=============================================================================
