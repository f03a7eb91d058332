------------------------ MODULE MarketIdentification ------------------------
(***************************************************************************)
(* What a market price search is about: one product, described by members  *)
(* and by pictures, for which the model proposes names and search words.   *)
(* Members edit the fields under a version and confirm them; a search is   *)
(* made only of confirmed fields.  The analysis runs as a job, makes every *)
(* picture smaller, stores it under a new name and drops the original, and *)
(* a picture is erased a day after it was uploaded.                        *)
(*                                                                         *)
(* An action is one transaction, or one call of the storage together with  *)
(* the reads before it.  A job has one live worker (OneRunner of           *)
(* JobQueue).  An upload is completed by one request at a time (two at     *)
(* once are in Recordings).                                                *)
(***************************************************************************)
EXTENDS Integers, FiniteSets

CONSTANTS
    Persons,        \* members at their pages
    Fields,         \* what the fields can say
    Usable,         \* those with a name, one search word and a condition
    Pictures,       \* images of the product
    MaxPictures,    \* images of one product
    MaxAnalyses,    \* jobs asked for
    MaxVersion,     \* the highest lock_version
    MaxTrouble,     \* crashes, failed calls and transactions
    NoFields,       \* no fields
    NoPicture       \* no picture

ASSUME MarketIdentificationAssumption ==
    /\ Usable \subseteq Fields
    /\ {MaxPictures, MaxAnalyses, MaxVersion, MaxTrouble} \subseteq Nat
    /\ MaxVersion > 0
    /\ NoFields \notin Fields
    /\ NoPicture \notin Pictures

Analyses == 1..MaxAnalyses
IdentificationStatus == {"none", "draft", "analyzing", "suggestion_ready",
                         "confirmation_required", "failed", "confirmed"}
AnalysisStatus == {"none", "queued", "running", "retry_wait", "succeeded", "failed", "cancelled"}
AnalystPc == {"idle", "next", "record", "undo", "drop", "finish", "failing"}
PictureStatus == {"none", "started", "uploaded", "normalizing", "ready"}
ObjectName == {"source", "normalized"}

VARIABLES
    product,        \* market_price_identifications
    analyses,       \* job -> jobs.status
    halted,         \* jobs with a cancel_requested_at
    analyst,        \* job -> what its worker is doing
    picture,        \* image -> its upload session, its row and its storage object
    bucket,         \* objects in the bucket: image, name
    scan,           \* the image that the retention scan is erasing
    client,         \* member -> the page's copy
    approved,       \* history: the fields last submitted by whoever confirmed
    elapsed,        \* 1 when the product has expired, 2 when its images have
    unanswered,     \* history: images whose transaction committed without an answer
    crossed,        \* history: two jobs had a worker at once
    trouble         \* faults so far

identificationVars == <<product, analyses, halted, analyst, picture, bucket, scan, client,
                        approved, elapsed, unanswered, crossed, trouble>>

Resting == [pc |-> "idle", todo |-> {}, image |-> NoPicture, retry |-> FALSE]
NoScan == [pc |-> "idle", image |-> NoPicture, name |-> "source"]
NotOpened == [step |-> "none", version |-> 0, fields |-> NoFields]

MarketIdentificationTypeOK ==
    /\ product \in [status: IdentificationStatus, images: BOOLEAN, version: 1..MaxVersion,
                    input: Fields \cup {NoFields}, confirmed: Fields \cup {NoFields}]
    /\ analyses \in [Analyses -> AnalysisStatus]
    /\ halted \subseteq Analyses
    /\ analyst \in [Analyses -> [pc: AnalystPc, todo: SUBSET Pictures,
                                 image: Pictures \cup {NoPicture}, retry: BOOLEAN]]
    /\ picture \in [Pictures -> [row: PictureStatus, name: ObjectName,
                                 object: {"available", "deleting", "deleted"}, deleted: BOOLEAN]]
    /\ bucket \subseteq Pictures \X ObjectName
    /\ scan \in [pc: {"idle", "delete", "record"}, image: Pictures \cup {NoPicture}, name: ObjectName]
    /\ client \in [Persons -> [step: {"none", "shown", "updated"}, version: 0..MaxVersion,
                               fields: Fields \cup {NoFields}]]
    /\ approved \in Fields \cup {NoFields}
    /\ elapsed \in 0..2
    /\ unanswered \subseteq Pictures
    /\ crossed \in BOOLEAN
    /\ trouble \in 0..MaxTrouble

MarketIdentificationInit ==
    /\ product = [status |-> "none", images |-> FALSE, version |-> 1,
                  input |-> NoFields, confirmed |-> NoFields]
    /\ analyses = [j \in Analyses |-> "none"]
    /\ halted = {}
    /\ analyst = [j \in Analyses |-> Resting]
    /\ picture = [i \in Pictures |-> [row |-> "none", name |-> "source",
                                      object |-> "available", deleted |-> FALSE]]
    /\ bucket = {}
    /\ scan = NoScan
    /\ client = [m \in Persons |-> NotOpened]
    /\ approved = NoFields
    /\ elapsed = 0
    /\ unanswered = {} /\ crossed = FALSE
    /\ trouble = 0

Trouble == trouble < MaxTrouble /\ trouble' = trouble + 1

analysisVars == <<analyses, halted, analyst, crossed>>
pictureVars == <<picture, bucket, scan, unanswered>>
clientVars == <<client, approved>>

-----------------------------------------------------------------------------
(* Members.                                                                *)

CreateIdentification(images, fields) ==
    /\ product.status = "none"
    /\ images \/ fields \in Usable
    /\ product' = [product EXCEPT !.status = "draft", !.images = images, !.input = fields]
    /\ UNCHANGED <<analysisVars, pictureVars, clientVars, elapsed, trouble>>

\* The page of the product is opened.
ShowIdentification(m) ==
    /\ product.status # "none"
    /\ client' = [client EXCEPT ![m] =
           [step |-> "shown", version |-> product.version, fields |-> NoFields]]
    /\ UNCHANGED <<product, analysisVars, pictureVars, approved, elapsed, trouble>>

\* Mutant of UpToDate: the version the page sends is not compared.
UpToDateOrNot(m) == client[m].step # "none"

\* The page's version is the product's.
UpToDate(m) == client[m].version = product.version

\* The member's fields replace the input, in any status, if the version is
\* the one of the page.
UpdateIdentification(m, fields) ==
    /\ client[m].step # "none" /\ UpToDate(m)
    /\ elapsed = 0
    /\ product.version < MaxVersion
    /\ product' = [product EXCEPT !.input = fields, !.version = @ + 1,
                                  !.status = IF @ = "confirmed" THEN "confirmation_required" ELSE @]
    /\ client' = [client EXCEPT ![m] =
           [step |-> "updated", version |-> product.version + 1, fields |-> fields]]
    /\ UNCHANGED <<analysisVars, pictureVars, approved, elapsed, trouble>>

\* The page confirms right after its own update.
ConfirmIdentification(m) ==
    /\ client[m].step = "updated" /\ UpToDate(m)
    /\ product.status \in {"draft", "suggestion_ready", "confirmation_required", "failed"}
    /\ elapsed = 0
    /\ product.input \in Usable
    /\ product.version < MaxVersion
    /\ product' = [product EXCEPT !.status = "confirmed", !.confirmed = product.input, !.version = @ + 1]
    /\ approved' = client[m].fields
    /\ client' = [client EXCEPT ![m] = NotOpened]
    /\ UNCHANGED <<analysisVars, pictureVars, elapsed, trouble>>

Editable == product.status \in {"draft", "failed", "suggestion_ready", "confirmation_required"}

\* Rows that are not deleted.
Shown == {i \in Pictures: picture[i].row \notin {"none", "started"} /\ ~picture[i].deleted}

AnalyzeIdentification(j) ==
    /\ Editable /\ elapsed = 0
    /\ product.images => Shown # {}
    /\ analyses[j] = "none"
    /\ \A k \in Analyses: k < j => analyses[k] # "none"
    /\ analyses' = [analyses EXCEPT ![j] = "queued"]
    /\ product' = [product EXCEPT !.status = "analyzing"]
    /\ UNCHANGED <<halted, analyst, crossed, pictureVars, clientVars, elapsed, trouble>>

\* cancelJob: of a job without a worker nothing else changes.
CancelAnalysis(j) ==
    /\ analyses[j] \in {"queued", "retry_wait", "running"}
    /\ halted' = halted \cup {j}
    /\ analyses' = [analyses EXCEPT ![j] = IF @ = "running" THEN @ ELSE "cancelled"]
    /\ UNCHANGED <<product, analyst, crossed, pictureVars, clientVars, elapsed, trouble>>

TimePasses ==
    /\ product.status # "none" /\ elapsed < 2
    /\ elapsed' = elapsed + 1
    /\ UNCHANGED <<product, analysisVars, pictureVars, clientVars, trouble>>

-----------------------------------------------------------------------------
(* Uploads.                                                                *)

StartPictureUpload(i) ==
    /\ Editable /\ elapsed = 0
    /\ picture[i].row = "none"
    /\ Cardinality({k \in Pictures: picture[k].row # "none"}) < MaxPictures
    /\ picture' = [picture EXCEPT ![i].row = "started"]
    /\ UNCHANGED <<product, analysisVars, bucket, scan, unanswered, clientVars, elapsed, trouble>>

\* The browser's PUT and verify's copy to the final name.
PutPicture(i) ==
    /\ picture[i].row = "started" /\ elapsed < 2
    /\ <<i, "source">> \notin bucket
    /\ bucket' = bucket \cup {<<i, "source">>}
    /\ UNCHANGED <<product, analysisVars, picture, scan, unanswered, clientVars, elapsed, trouble>>

CompletePictureUpload(i) ==
    /\ picture[i].row = "started" /\ elapsed < 2
    /\ <<i, "source">> \in bucket
    /\ picture' = [picture EXCEPT ![i].row = "uploaded"]
    /\ UNCHANGED <<product, analysisVars, bucket, scan, unanswered, clientVars, elapsed, trouble>>

\* The same image again, or a failed transaction: the object goes, if no row
\* names it.
CompleteRefused(i) ==
    /\ picture[i].row = "started" /\ elapsed < 2
    /\ <<i, "source">> \in bucket
    /\ Trouble
    /\ bucket' = bucket \ {<<i, "source">>}
    /\ UNCHANGED <<product, analysisVars, picture, scan, unanswered, clientVars, elapsed>>

-----------------------------------------------------------------------------
(* The worker.                                                             *)

AnalysisClaimable(j) ==
    /\ analyses[j] \in {"queued", "running", "retry_wait"}
    /\ analyst[j].pc = "idle"
    /\ j \notin halted

\* Pictures that the worker reads, and those it must make smaller.
Readable == {i \in Shown: picture[i].object = "available"}
Unprepared == {i \in Readable: picture[i].row \in {"uploaded", "normalizing"}}

PrepareAnalysis(j) ==
    /\ AnalysisClaimable(j)
    /\ product.status = "analyzing"
    /\ product.images => Readable # {}
    /\ analyses' = [analyses EXCEPT ![j] = "running"]
    /\ analyst' = [analyst EXCEPT ![j] = [Resting EXCEPT !.pc = "next", !.todo = Unprepared]]
    /\ picture' = [i \in Pictures |->
           IF picture[i].row = "uploaded" THEN [picture[i] EXCEPT !.row = "normalizing"] ELSE picture[i]]
    /\ crossed' = (crossed \/ \E k \in Analyses \ {j}: analyst[k].pc # "idle")
    /\ UNCHANGED <<product, halted, bucket, scan, unanswered, clientVars, elapsed, trouble>>

\* Somebody else ended the analysis, or there is no picture: a permanent error.
PrepareRefused(j) ==
    /\ AnalysisClaimable(j)
    /\ product.status # "analyzing" \/ (product.images /\ Readable = {})
    /\ analyses' = [analyses EXCEPT ![j] = "running"]
    /\ analyst' = [analyst EXCEPT ![j] = [Resting EXCEPT !.pc = "failing"]]
    /\ UNCHANGED <<product, halted, crossed, pictureVars, clientVars, elapsed, trouble>>

\* Mutant of NormalizePicture: the smaller picture replaces the original before
\* the row names it.
ReplacePicture(j, i) ==
    /\ analyst[j].pc = "next" /\ i \in analyst[j].todo
    /\ j \notin halted
    /\ <<i, "source">> \in bucket /\ <<i, "normalized">> \notin bucket
    /\ bucket' = (bucket \cup {<<i, "normalized">>}) \ {<<i, "source">>}
    /\ analyst' = [analyst EXCEPT ![j].pc = "record", ![j].image = i]
    /\ UNCHANGED <<product, analyses, halted, crossed, picture, scan, unanswered, clientVars, elapsed, trouble>>

\* The picture is read and stored smaller, under a name that must be free.
\* Once its source is dropped the name is taken.
NormalizePicture(j, i) ==
    /\ analyst[j].pc = "next" /\ i \in analyst[j].todo
    /\ j \notin halted
    /\ <<i, "source">> \in bucket /\ <<i, "normalized">> \notin bucket
    /\ bucket' = bucket \cup {<<i, "normalized">>}
    /\ analyst' = [analyst EXCEPT ![j].pc = "record", ![j].image = i]
    /\ UNCHANGED <<product, analyses, halted, crossed, picture, scan, unanswered, clientVars, elapsed, trouble>>

\* The handler throws; what it was storing stays.
Throw(j, retry) ==
    /\ analyst' = [analyst EXCEPT ![j] = [Resting EXCEPT !.pc = "failing", !.retry = retry]]

\* The source is gone or the name is taken.
NormalizeRefused(j, i) ==
    /\ analyst[j].pc = "next" /\ i \in analyst[j].todo
    /\ j \notin halted
    /\ <<i, "source">> \notin bucket \/ <<i, "normalized">> \in bucket
    /\ \E retry \in BOOLEAN: Throw(j, retry)
    /\ UNCHANGED <<product, analyses, halted, crossed, pictureVars, clientVars, elapsed, trouble>>

\* The storage object's row takes the new name, whatever its status.
RecordPicture(j) ==
    /\ analyst[j].pc = "record"
    /\ picture' = [picture EXCEPT ![analyst[j].image].row = "ready", ![analyst[j].image].name = "normalized"]
    /\ analyst' = [analyst EXCEPT ![j].pc = "drop"]
    /\ UNCHANGED <<product, analyses, halted, crossed, bucket, scan, unanswered, clientVars, elapsed, trouble>>

\* The transaction fails, or commits without an answer: the object is deleted
\* again, every generation of its name, in passes until none is left.
RecordFails(j) ==
    /\ analyst[j].pc = "record"
    /\ Trouble
    /\ \E committed \in BOOLEAN:
          /\ picture' = IF committed
                        THEN [picture EXCEPT ![analyst[j].image].row = "ready",
                                             ![analyst[j].image].name = "normalized"]
                        ELSE picture
          /\ unanswered' = IF committed THEN unanswered \cup {analyst[j].image} ELSE unanswered
    /\ analyst' = [analyst EXCEPT ![j].pc = "undo"]
    /\ UNCHANGED <<product, analyses, halted, crossed, bucket, scan, clientVars, elapsed>>

UndoPass(j) ==
    LET normalized == <<analyst[j].image, "normalized">> IN
    /\ analyst[j].pc = "undo"
    /\ \/ /\ normalized \in bucket
          /\ bucket' = bucket \ {normalized}
          /\ UNCHANGED <<analyst, trouble>>
       \/ /\ \/ normalized \notin bucket /\ UNCHANGED trouble
             \/ Trouble                  \* a failure to delete is ignored
          /\ \E retry \in BOOLEAN: Throw(j, retry)
          /\ UNCHANGED bucket
    /\ UNCHANGED <<product, analyses, halted, crossed, picture, scan, unanswered, clientVars, elapsed>>

DropSource(j) ==
    /\ analyst[j].pc = "drop"
    /\ bucket' = bucket \ {<<analyst[j].image, "source">>}
    /\ analyst' = [analyst EXCEPT ![j].pc = "next", ![j].todo = @ \ {analyst[j].image},
                                  ![j].image = NoPicture]
    /\ UNCHANGED <<product, analyses, halted, crossed, picture, scan, unanswered, clientVars, elapsed, trouble>>

\* The model answers.  Its proposal is stored beside the input.
CommitSuggestion(j) ==
    /\ analyst[j].pc = "next" /\ analyst[j].todo = {}
    /\ product.status = "analyzing"
    /\ product.version < MaxVersion
    /\ product' = [product EXCEPT !.status = "suggestion_ready", !.version = @ + 1]
    /\ analyst' = [analyst EXCEPT ![j].pc = "finish"]
    /\ UNCHANGED <<analyses, halted, crossed, pictureVars, clientVars, elapsed, trouble>>

\* Reading, storing, dropping, or the model's answer fails.
AnalysisThrows(j) ==
    /\ analyst[j].pc \in {"next", "drop"}
    /\ Trouble
    /\ \E retry \in BOOLEAN: Throw(j, retry)
    /\ \/ UNCHANGED bucket
       \/ \E i \in analyst[j].todo:     \* stored, but the answer is lost
             /\ analyst[j].pc = "next"
             /\ j \notin halted
             /\ <<i, "source">> \in bucket
             /\ bucket' = bucket \cup {<<i, "normalized">>}
       \/ /\ analyst[j].pc = "drop"     \* dropped, but the answer is lost
          /\ bucket' = bucket \ {<<analyst[j].image, "source">>}
    /\ UNCHANGED <<product, analyses, halted, crossed, picture, scan, unanswered, clientVars, elapsed>>

AnalysisDies(j) ==
    /\ analyst[j].pc # "idle"
    /\ Trouble
    /\ analyst' = [analyst EXCEPT ![j] = Resting]
    /\ UNCHANGED <<product, analyses, halted, crossed, pictureVars, clientVars, elapsed>>

EndAnalysis(j, status) ==
    /\ analyses' = [analyses EXCEPT ![j] = status]
    /\ analyst' = [analyst EXCEPT ![j] = Resting]
    /\ UNCHANGED <<halted, crossed>>

AnalysisSucceeds(j) ==
    /\ analyst[j].pc = "finish"
    /\ j \notin halted
    /\ EndAnalysis(j, "succeeded")
    /\ UNCHANGED <<product, pictureVars, clientVars, elapsed, trouble>>

\* Before a picture, at the end, or because the product is not being analyzed.
AnalysisIsCancelled(j) ==
    LET f == analyst[j] IN
    /\ \/ f.pc = "next" /\ f.todo # {} /\ j \in halted
       \/ f.pc = "next" /\ f.todo = {} /\ product.status # "analyzing"
       \/ f.pc = "finish" /\ j \in halted
    /\ product' = [product EXCEPT !.status = IF @ = "analyzing" THEN "draft" ELSE @]
    /\ EndAnalysis(j, "cancelled")
    /\ UNCHANGED <<picture, bucket, scan, unanswered, clientVars, elapsed, trouble>>

\* Retried, unless the attempts are used up.
AnalysisIsRetried(j) ==
    /\ analyst[j].pc = "failing" /\ analyst[j].retry
    /\ EndAnalysis(j, "retry_wait")
    /\ UNCHANGED <<product, pictureVars, clientVars, elapsed, trouble>>

AnalysisFails(j) ==
    /\ analyst[j].pc = "failing"
    /\ product' = [product EXCEPT !.status = IF @ = "analyzing" THEN "failed" ELSE @]
    /\ EndAnalysis(j, "failed")
    /\ UNCHANGED <<pictureVars, clientVars, elapsed, trouble>>

-----------------------------------------------------------------------------
(* The retention scan.                                                     *)

\* An upload that was never completed, a day after its session.
PurgeUpload(i) ==
    /\ elapsed = 2 /\ picture[i].row = "started"
    /\ bucket' = bucket \ {<<i, "source">>}
    /\ picture' = [picture EXCEPT ![i].row = "none"]
    /\ UNCHANGED <<product, analysisVars, scan, unanswered, clientVars, elapsed, trouble>>

MarkExpired(i) ==
    /\ elapsed = 2 /\ scan.pc = "idle"
    /\ i \in Shown /\ picture[i].object \in {"available", "deleting"}
    /\ picture' = [picture EXCEPT ![i].object = "deleting"]
    /\ scan' = [pc |-> "delete", image |-> i, name |-> picture[i].name]
    /\ UNCHANGED <<product, analysisVars, bucket, unanswered, clientVars, elapsed, trouble>>

DeleteExpired ==
    /\ scan.pc = "delete"
    /\ bucket' = bucket \ {<<scan.image, scan.name>>}
    /\ scan' = [scan EXCEPT !.pc = "record"]
    /\ UNCHANGED <<product, analysisVars, picture, unanswered, clientVars, elapsed, trouble>>

RecordExpired ==
    /\ scan.pc = "record"
    /\ picture' = [picture EXCEPT ![scan.image].object = "deleted", ![scan.image].deleted = TRUE]
    /\ scan' = NoScan
    /\ UNCHANGED <<product, analysisVars, bucket, unanswered, clientVars, elapsed, trouble>>

ScanFails ==
    /\ scan.pc # "idle"
    /\ Trouble
    /\ scan' = NoScan
    /\ UNCHANGED <<product, analysisVars, picture, bucket, unanswered, clientVars, elapsed>>

-----------------------------------------------------------------------------
PersonStep ==
    \/ \E images \in BOOLEAN, fields \in Fields: CreateIdentification(images, fields)
    \/ \E m \in Persons:
          \/ ShowIdentification(m)
          \/ \E fields \in Fields: UpdateIdentification(m, fields)
          \/ ConfirmIdentification(m)
    \/ \E j \in Analyses: AnalyzeIdentification(j) \/ CancelAnalysis(j)
    \/ TimePasses

PictureStep ==
    \E i \in Pictures:
        \/ StartPictureUpload(i) \/ PutPicture(i)
        \/ CompletePictureUpload(i) \/ CompleteRefused(i)
        \/ PurgeUpload(i) \/ MarkExpired(i)

AnalystStep ==
    \E j \in Analyses:
        \/ PrepareAnalysis(j) \/ PrepareRefused(j)
        \/ \E i \in Pictures: NormalizePicture(j, i) \/ NormalizeRefused(j, i)
        \/ RecordPicture(j) \/ RecordFails(j) \/ UndoPass(j) \/ DropSource(j)
        \/ CommitSuggestion(j) \/ AnalysisThrows(j) \/ AnalysisDies(j)
        \/ AnalysisSucceeds(j) \/ AnalysisIsCancelled(j)
        \/ AnalysisIsRetried(j) \/ AnalysisFails(j)

MarketIdentificationNext ==
    \/ PersonStep \/ PictureStep \/ AnalystStep
    \/ DeleteExpired \/ RecordExpired \/ ScanFails

MarketIdentificationSpec ==
    MarketIdentificationInit /\ [][MarketIdentificationNext]_identificationVars

-----------------------------------------------------------------------------
(* Properties.                                                             *)

\* What is confirmed is what the member who confirmed had submitted, and it is
\* still the input: edits of another member and proposals of the model come
\* between the update and the confirmation only by way of the version.
ConfirmedAsSubmitted ==
    product.status = "confirmed" =>
        product.confirmed = approved /\ product.confirmed = product.input

\* The object that a picture's row names is in the bucket until the scan gets
\* to it, whatever step the worker stops at, unless the row's transaction
\* committed without an answer or two jobs worked at once.
PictureIsReadable ==
    \A i \in Readable \ unanswered: ~crossed => <<i, picture[i].name>> \in bucket
=============================================================================
