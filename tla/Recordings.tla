----------------------------- MODULE Recordings -----------------------------
(***************************************************************************)
(* How recordings of a visit come to be: a customer's consent is recorded, *)
(* given or withdrawn; a browser announces an upload, puts the bytes in    *)
(* quarantine and completes it, perhaps twice at once; a job copies a file *)
(* from a Drive; the retention scan removes what was never completed.      *)
(*                                                                         *)
(* An action is one transaction or one call of the bucket.  Transactions   *)
(* that decide about recordings hold the visit's advisory lock.  The       *)
(* visit itself stays writable here (its deletion is VisitDeletion), and a *)
(* job has one live worker (OneRunner of JobQueue).                        *)
(***************************************************************************)
EXTENDS Naturals, FiniteSets

CONSTANTS
    Uploads,        \* upload_sessions of type recording
    Completions,    \* requests that complete an upload at the same time
    Imports,        \* drive_imports, each with its job
    MaxConsents,    \* recording_consents of the visit
    MaxTries,       \* max_attempts of an import's job
    MaxFaults       \* crashes, failed transactions and deletions, answers lost

ASSUME RecordingsAssumption ==
    /\ MaxConsents \in Nat
    /\ MaxTries \in Nat \ {0}
    /\ MaxFaults \in Nat

\* Consents are numbered by created_at, the start of their transaction.
Consents == 1..MaxConsents
ConsentState == {"none", "granting", "withdrawing", "granted", "withdrawn"}
SessionState == {"none", "open", "completed", "gone"}
ImportStatus == {"none", "queued", "copying", "succeeded", "failed", "cancelled"}
JobStatus == {"none", "queued", "running", "retry_wait", "succeeded", "failed", "cancelled"}
TryPc == {"off", "verify", "probe", "commit", "lookup", "delete"}
SweepPc == {"off", "claimed", "erased"}
WorkerPc == {"off", "start", "copy", "probe", "check", "commit", "done"}

VARIABLES
    consent,    \* consent -> not there, in its transaction, committed
    upload,     \* upload -> upload_sessions row, completed_at
    cover,      \* upload or import -> the consent it names; 0 before
    age,        \* upload -> expires_at: ahead, past, past by 24 hours
    url,        \* uploads whose signed URL still works
    pending,    \* uploads with bytes in quarantine
    final,      \* uploads with bytes under their own name
    recorded,   \* uploads with a storage_objects row and a recording
    try,        \* upload and completion -> the request's next step
    sweep,      \* upload -> the scan's next step
    import,     \* import -> drive_imports.status
    job,        \* import -> jobs.status
    asked,      \* imports whose job has a cancel_requested_at
    tries,      \* import -> attempt_count of its job
    pc,         \* import -> what its worker does next
    copies,     \* import -> attempts whose copy is in the bucket
    kept,       \* import -> the attempt whose copy its recording names; 0 before
    faults,     \* faults so far
    raced,      \* history: uploads whose bytes a failed completion deleted
                \* without seeing that another was about to record them
    astray,     \* history: import -> attempts that died with their copy, or
                \* failed to delete it
    doubted     \* history: imports whose last commit was never answered

consentVars == <<consent>>
uploadVars == <<upload, age, url>>
bytesVars == <<pending, final, raced>>
importVars == <<import, job, asked, tries, pc>>
copyVars == <<copies, kept, astray, doubted>>
recordingsVars == <<consentVars, uploadVars, cover, bytesVars, recorded, try, sweep, importVars, copyVars, faults>>

RecordingsTypeOK ==
    /\ consent \in [Consents -> ConsentState]
    /\ upload \in [Uploads -> SessionState]
    /\ cover \in [Uploads \cup Imports -> 0..MaxConsents]
    /\ age \in [Uploads -> {"ahead", "past", "stale"}]
    /\ {url, pending, final, recorded, raced} \subseteq SUBSET Uploads
    /\ try \in [Uploads -> [Completions -> TryPc]]
    /\ sweep \in [Uploads -> SweepPc]
    /\ import \in [Imports -> ImportStatus]
    /\ job \in [Imports -> JobStatus]
    /\ {asked, doubted} \subseteq SUBSET Imports
    /\ tries \in [Imports -> 0..MaxTries]
    /\ pc \in [Imports -> WorkerPc]
    /\ {copies, astray} \subseteq [Imports -> SUBSET (1..MaxTries)]
    /\ kept \in [Imports -> 0..MaxTries]
    /\ faults \in 0..MaxFaults

RecordingsInit ==
    /\ consent = [c \in Consents |-> "none"]
    /\ upload = [u \in Uploads |-> "none"]
    /\ cover = [e \in Uploads \cup Imports |-> 0]
    /\ age = [u \in Uploads |-> "ahead"]
    /\ url = {} /\ pending = {} /\ final = {} /\ recorded = {} /\ raced = {}
    /\ try = [u \in Uploads |-> [c \in Completions |-> "off"]]
    /\ sweep = [u \in Uploads |-> "off"]
    /\ import = [i \in Imports |-> "none"]
    /\ job = [i \in Imports |-> "none"]
    /\ asked = {} /\ doubted = {}
    /\ tries = [i \in Imports |-> 0]
    /\ pc = [i \in Imports |-> "off"]
    /\ copies = [i \in Imports |-> {}] /\ astray = [i \in Imports |-> {}]
    /\ kept = [i \in Imports |-> 0]
    /\ faults = 0

Fault == faults < MaxFaults /\ faults' = faults + 1

-----------------------------------------------------------------------------
(* Consents.                                                               *)

Committed(c) == consent[c] \in {"granted", "withdrawn"}
Newest(c) == Committed(c) /\ \A d \in Consents: Committed(d) => d <= c

\* Mutant of Current: a newer decision is not looked for.
GrantedOnce(c) == c \in Consents /\ consent[c] = "granted"

\* assertCurrentConsent: the named consent is granted and none is newer.
Current(c) == c \in Consents /\ consent[c] = "granted" /\ Newest(c)

\* The transaction begins, which fixes created_at, and waits for the lock.
BeginConsent(c, granted) ==
    /\ consent[c] = "none"
    /\ \A d \in Consents: d < c => consent[d] # "none"
    /\ consent' = [consent EXCEPT ![c] = IF granted THEN "granting" ELSE "withdrawing"]
    /\ UNCHANGED <<uploadVars, cover, bytesVars, recorded, try, sweep, importVars, copyVars, faults>>

Grant(c) ==
    /\ consent[c] = "granting"
    /\ consent' = [consent EXCEPT ![c] = "granted"]
    /\ UNCHANGED <<uploadVars, cover, bytesVars, recorded, try, sweep, importVars, copyVars, faults>>

\* createConsent of anything but a grant: uploads lapse, jobs are cancelled.
Withdraw(c) ==
    /\ consent[c] = "withdrawing"
    /\ consent' = [consent EXCEPT ![c] = "withdrawn"]
    /\ age' = [u \in Uploads |->
           IF upload[u] = "open" /\ age[u] = "ahead" THEN "past" ELSE age[u]]
    /\ LET open == {i \in Imports: job[i] \in {"queued", "retry_wait", "running"}} IN
       /\ asked' = asked \cup open
       /\ job' = [i \in Imports |->
              IF i \in open /\ job[i] # "running" THEN "cancelled" ELSE job[i]]
    /\ import' = [i \in Imports |-> IF import[i] = "queued" THEN "cancelled" ELSE import[i]]
    /\ UNCHANGED <<upload, url, cover, bytesVars, recorded, try, sweep, tries, pc, copyVars, faults>>

-----------------------------------------------------------------------------
(* Uploads.                                                                *)

StartUpload(u, c) ==
    /\ upload[u] = "none"
    /\ Current(c)
    /\ upload' = [upload EXCEPT ![u] = "open"]
    /\ cover' = [cover EXCEPT ![u] = c]
    /\ UNCHANGED <<consent, age, url, bytesVars, recorded, try, sweep, importVars, copyVars, faults>>

\* rehydrateReplay, after the commit or when the announcement is repeated: the
\* URL is signed outside the transaction and expires with the session.
SignUrl(u) ==
    /\ upload[u] = "open" /\ age[u] = "ahead"
    /\ u \notin url
    /\ url' = url \cup {u}
    /\ UNCHANGED <<consent, upload, age, cover, bytesVars, recorded, try, sweep, importVars, copyVars, faults>>

\* The browser's PUT writes once, in quarantine.
Put(u) ==
    /\ u \in url
    /\ u \notin pending
    /\ pending' = pending \cup {u}
    /\ UNCHANGED <<consent, uploadVars, cover, final, raced, recorded, try, sweep, importVars, copyVars, faults>>

\* The fifteen minutes of the URL and of the session are over.
Lapse(u) ==
    /\ u \in url \/ (upload[u] = "open" /\ age[u] = "ahead")
    /\ url' = url \ {u}
    /\ age' = [age EXCEPT ![u] = IF @ = "ahead" THEN "past" ELSE @]
    /\ UNCHANGED <<consent, upload, cover, bytesVars, recorded, try, sweep, importVars, copyVars, faults>>

\* A day later; the longest request of the API is over by then.
Age(u) ==
    /\ upload[u] = "open" /\ age[u] = "past"
    /\ u \notin url
    /\ \A c \in Completions: try[u][c] = "off"
    /\ age' = [age EXCEPT ![u] = "stale"]
    /\ UNCHANGED <<consent, upload, url, cover, bytesVars, recorded, try, sweep, importVars, copyVars, faults>>

\* completeUpload reads the session.
BeginCompletion(u, c) ==
    /\ try[u][c] = "off"
    /\ upload[u] = "open" /\ age[u] = "ahead"
    /\ try' = [try EXCEPT ![u][c] = "verify"]
    /\ UNCHANGED <<consent, uploadVars, cover, bytesVars, recorded, sweep, importVars, copyVars, faults>>

\* storage.verify moves matching bytes out of quarantine, once.
Verify(u, c) ==
    /\ try[u][c] = "verify"
    /\ u \in pending \cup final
    /\ final' = final \cup {u}
    /\ pending' = pending \ {u}
    /\ try' = [try EXCEPT ![u][c] = "probe"]
    /\ UNCHANGED <<consent, uploadVars, cover, raced, recorded, sweep, importVars, copyVars, faults>>

\* Nothing there, or other bytes than announced, which are removed.
VerifyFails(u, c) ==
    /\ try[u][c] = "verify"
    /\ u \notin final
    /\ pending' = pending \ {u}
    /\ try' = [try EXCEPT ![u][c] = "off"]
    /\ UNCHANGED <<consent, uploadVars, cover, final, raced, recorded, sweep, importVars, copyVars, faults>>

Probe(u, c) ==
    /\ try[u][c] = "probe"
    /\ try' = [try EXCEPT ![u][c] = "commit"]
    /\ UNCHANGED <<consent, uploadVars, cover, bytesVars, recorded, sweep, importVars, copyVars, faults>>

\* Another completion is at one of these steps.
RivalAt(u, c, steps) == \E d \in Completions \ {c}: try[u][d] \in steps

\* delete removes every generation of the name.
DeleteFinal(u, c) ==
    /\ final' = final \ {u}
    /\ try' = [try EXCEPT ![u][c] = "off"]

\* A failed inspection deletes the object at once.
ProbeFails(u, c) ==
    /\ try[u][c] = "probe"
    /\ DeleteFinal(u, c)
    /\ raced' = IF u \in recorded \/ RivalAt(u, c, {"probe", "commit"})
                THEN raced \cup {u} ELSE raced
    /\ UNCHANGED <<consent, uploadVars, cover, pending, recorded, sweep, importVars, copyVars, faults>>

\* What the last transaction requires; expires_at is not looked at again.
Completable(u) == upload[u] = "open" /\ Current(cover[u])

RecordUpload(u, c) ==
    /\ upload' = [upload EXCEPT ![u] = "completed"]
    /\ recorded' = recorded \cup {u}
    /\ raced' = IF RivalAt(u, c, {"delete"}) THEN raced \cup {u} ELSE raced

Commit(u, c) ==
    /\ try[u][c] = "commit"
    /\ Completable(u)
    /\ RecordUpload(u, c)
    /\ try' = [try EXCEPT ![u][c] = "off"]
    /\ UNCHANGED <<consent, age, url, cover, pending, final, sweep, importVars, copyVars, faults>>

\* The transaction commits and its answer is lost.
CommitUnheard(u, c) ==
    /\ try[u][c] = "commit"
    /\ Completable(u)
    /\ Fault
    /\ RecordUpload(u, c)
    /\ try' = [try EXCEPT ![u][c] = "lookup"]
    /\ UNCHANGED <<consent, age, url, cover, pending, final, sweep, importVars, copyVars>>

CommitRefused(u, c) ==
    /\ try[u][c] = "commit"
    /\ ~Completable(u)
    /\ try' = [try EXCEPT ![u][c] = "lookup"]
    /\ UNCHANGED <<consent, uploadVars, cover, bytesVars, recorded, sweep, importVars, copyVars, faults>>

CommitFails(u, c) ==
    /\ try[u][c] = "commit"
    /\ Fault
    /\ try' = [try EXCEPT ![u][c] = "lookup"]
    /\ UNCHANGED <<consent, uploadVars, cover, bytesVars, recorded, sweep, importVars, copyVars>>

\* Mutant of Lookup: the object is deleted whatever a row says.
LookupIgnored(u, c) ==
    /\ try[u][c] = "lookup"
    /\ try' = [try EXCEPT ![u][c] = "delete"]
    /\ UNCHANGED <<consent, uploadVars, cover, bytesVars, recorded, sweep, importVars, copyVars, faults>>

\* deleteUploadObjectIfProvenUnreferenced: a row, or a lookup that fails, keeps
\* the object.
Lookup(u, c) ==
    /\ try[u][c] = "lookup"
    /\ \/ u \notin recorded /\ try' = [try EXCEPT ![u][c] = "delete"] /\ UNCHANGED faults
       \/ u \in recorded /\ try' = [try EXCEPT ![u][c] = "off"] /\ UNCHANGED faults
       \/ Fault /\ try' = [try EXCEPT ![u][c] = "off"]
    /\ UNCHANGED <<consent, uploadVars, cover, bytesVars, recorded, sweep, importVars, copyVars>>

DeleteUnreferenced(u, c) ==
    /\ try[u][c] = "delete"
    /\ DeleteFinal(u, c)
    /\ raced' = IF RivalAt(u, c, {"probe", "commit"}) THEN raced \cup {u} ELSE raced
    /\ UNCHANGED <<consent, uploadVars, cover, pending, recorded, sweep, importVars, copyVars, faults>>

-----------------------------------------------------------------------------
(* The retention scan's cleanup of uploads never completed; a legal hold   *)
(* or a fence refuses the claim, which may then never happen.              *)

ClaimStale(u) ==
    /\ sweep[u] = "off"
    /\ upload[u] = "open" /\ age[u] = "stale"
    /\ sweep' = [sweep EXCEPT ![u] = "claimed"]
    /\ UNCHANGED <<consent, uploadVars, cover, bytesVars, recorded, try, importVars, copyVars, faults>>

\* Mutant of EraseStale: only the quarantine is emptied.
EraseQuarantine(u) ==
    /\ sweep[u] = "claimed"
    /\ pending' = pending \ {u}
    /\ sweep' = [sweep EXCEPT ![u] = "erased"]
    /\ UNCHANGED <<consent, uploadVars, cover, final, raced, recorded, try, importVars, copyVars, faults>>

\* deleteIncompleteUpload: quarantine and final name.
EraseStale(u) ==
    /\ sweep[u] = "claimed"
    /\ pending' = pending \ {u}
    /\ final' = final \ {u}
    /\ sweep' = [sweep EXCEPT ![u] = "erased"]
    /\ UNCHANGED <<consent, uploadVars, cover, raced, recorded, try, importVars, copyVars, faults>>

\* The bucket fails or the scan dies; the session stays for the next scan.
EraseFails(u) ==
    /\ sweep[u] # "off"
    /\ Fault
    /\ sweep' = [sweep EXCEPT ![u] = "off"]
    /\ UNCHANGED <<consent, uploadVars, cover, bytesVars, recorded, try, importVars, copyVars>>

RemoveSession(u) ==
    /\ sweep[u] = "erased"
    /\ upload' = [upload EXCEPT ![u] = IF @ = "open" THEN "gone" ELSE @]
    /\ sweep' = [sweep EXCEPT ![u] = "off"]
    /\ UNCHANGED <<consent, age, url, cover, bytesVars, recorded, try, importVars, copyVars, faults>>

-----------------------------------------------------------------------------
(* Imports from a Drive.                                                   *)

CreateImport(i, c) ==
    /\ import[i] = "none"
    /\ Current(c)
    /\ import' = [import EXCEPT ![i] = "queued"]
    /\ job' = [job EXCEPT ![i] = "queued"]
    /\ cover' = [cover EXCEPT ![i] = c]
    /\ UNCHANGED <<consent, uploadVars, bytesVars, recorded, try, sweep, asked, tries, pc, copyVars, faults>>

\* claim_job; a job left running by a dead worker unless it is to be cancelled.
ClaimImport(i) ==
    /\ pc[i] = "off"
    /\ job[i] \in {"queued", "retry_wait", "running"}
    /\ i \notin asked
    /\ tries[i] < MaxTries
    /\ job' = [job EXCEPT ![i] = "running"]
    /\ tries' = [tries EXCEPT ![i] = @ + 1]
    /\ pc' = [pc EXCEPT ![i] = "start"]
    /\ UNCHANGED <<consent, uploadVars, cover, bytesVars, recorded, try, sweep, import, asked, copyVars, faults>>

\* Mutant of Importable: an import already made is made again.
ImportableAgain(i) == import[i] \in {"queued", "copying", "failed", "succeeded"}

Importable(i) == import[i] \in {"queued", "copying", "failed"}

BeginImport(i) ==
    /\ pc[i] = "start"
    /\ Importable(i)
    /\ Current(cover[i])
    /\ import' = [import EXCEPT ![i] = "copying"]
    /\ pc' = [pc EXCEPT ![i] = "copy"]
    /\ UNCHANGED <<consent, uploadVars, cover, bytesVars, recorded, try, sweep, job, asked, tries, copyVars, faults>>

\* putStream, under a name of this attempt only.
Copy(i) ==
    /\ pc[i] = "copy"
    /\ copies' = [copies EXCEPT ![i] = @ \cup {tries[i]}]
    /\ pc' = [pc EXCEPT ![i] = "probe"]
    /\ UNCHANGED <<consent, uploadVars, cover, bytesVars, recorded, try, sweep, import, job, asked, tries, kept,
                   astray, doubted, faults>>

ProbeCopy(i) ==
    /\ pc[i] = "probe"
    /\ pc' = [pc EXCEPT ![i] = "check"]
    /\ UNCHANGED <<consent, uploadVars, cover, bytesVars, recorded, try, sweep, import, job, asked, tries, copyVars, faults>>

NotCancelled(i) ==
    /\ pc[i] = "check"
    /\ i \notin asked
    /\ pc' = [pc EXCEPT ![i] = "commit"]
    /\ UNCHANGED <<consent, uploadVars, cover, bytesVars, recorded, try, sweep, import, job, asked, tries, copyVars, faults>>

\* The transaction that records the copy; an import that names one keeps it.
RecordCopy(i) ==
    /\ pc[i] = "commit"
    /\ Current(cover[i])
    /\ import[i] = "copying"
    /\ kept' = [kept EXCEPT ![i] = IF @ = 0 THEN tries[i] ELSE @]
    /\ import' = [import EXCEPT ![i] = IF kept[i] = 0 THEN "succeeded" ELSE @]

CommitImport(i) ==
    /\ RecordCopy(i)
    /\ pc' = [pc EXCEPT ![i] = "done"]
    /\ UNCHANGED <<consent, uploadVars, cover, bytesVars, recorded, try, sweep, job, asked, tries, copies, astray, doubted, faults>>

-----------------------------------------------------------------------------
(* How an import's job ends.                                               *)

\* The worker has put a copy that is not recorded yet.
CopyInHand(i) == pc[i] \in {"probe", "check", "commit"}

\* On every error after it was put the copy is deleted.
Discard(i) ==
    /\ copies' = [copies EXCEPT ![i] = IF CopyInHand(i) THEN @ \ {tries[i]} ELSE @]
    /\ UNCHANGED <<astray, faults>>

Leave(i) ==
    /\ astray' = [astray EXCEPT ![i] = IF CopyInHand(i) THEN @ \cup {tries[i]} ELSE @]
    /\ UNCHANGED copies

\* The deletion fails as well: its error is thrown in place of the first one,
\* or swallowed after the last transaction.
DiscardFails(i) ==
    /\ CopyInHand(i)
    /\ Fault
    /\ Leave(i)

\* The commit is in the database but its answer is lost: the copy is deleted,
\* if that succeeds.
CommitImportUnheard(i, retryable) ==
    /\ RecordCopy(i)
    /\ retryable => tries[i] < MaxTries
    /\ Fault
    /\ \/ copies' = [copies EXCEPT ![i] = @ \ {tries[i]}]
       \/ UNCHANGED copies
    /\ doubted' = doubted \cup {i}
    /\ job' = [job EXCEPT ![i] = IF retryable THEN "retry_wait" ELSE "failed"]
    /\ pc' = [pc EXCEPT ![i] = "off"]
    /\ UNCHANGED <<consent, uploadVars, cover, bytesVars, recorded, try, sweep, asked, tries, astray>>

\* Any error: no consent, a revoked connection, the Drive, the bucket.
HandlerFails(i, retryable) ==
    /\ pc[i] \notin {"off", "done"}
    /\ retryable => tries[i] < MaxTries
    /\ Discard(i) \/ DiscardFails(i)
    /\ job' = [job EXCEPT ![i] = IF retryable THEN "retry_wait" ELSE "failed"]
    /\ import' = [import EXCEPT ![i] =
           IF @ = "copying" /\ ~retryable THEN "failed" ELSE @]
    /\ pc' = [pc EXCEPT ![i] = "off"]
    /\ UNCHANGED <<consent, uploadVars, cover, bytesVars, recorded, try, sweep, asked, tries, kept, doubted>>

\* JOB_CANCELLED, from assertNotCancelled, assertCurrentConsent or the end.
HandlerCancelled(i) ==
    /\ \/ pc[i] = "check" /\ i \in asked /\ Discard(i)
       \/ pc[i] = "start" /\ ~Current(cover[i]) /\ Discard(i)
       \/ pc[i] = "commit" /\ ~Current(cover[i]) /\ (Discard(i) \/ DiscardFails(i))
       \/ pc[i] = "done" /\ i \in asked /\ Discard(i)
    /\ job' = [job EXCEPT ![i] = "cancelled"]
    /\ import' = [import EXCEPT ![i] = IF @ = "copying" THEN "cancelled" ELSE @]
    /\ pc' = [pc EXCEPT ![i] = "off"]
    /\ UNCHANGED <<consent, uploadVars, cover, bytesVars, recorded, try, sweep, asked, tries, kept, doubted>>

Finish(i) ==
    /\ pc[i] = "done"
    /\ i \notin asked
    /\ job' = [job EXCEPT ![i] = "succeeded"]
    /\ pc' = [pc EXCEPT ![i] = "off"]
    /\ UNCHANGED <<consent, uploadVars, cover, bytesVars, recorded, try, sweep, import, asked, tries, copyVars, faults>>

Crash(i) ==
    /\ pc[i] # "off"
    /\ Fault
    /\ Leave(i)
    /\ pc' = [pc EXCEPT ![i] = "off"]
    /\ UNCHANGED <<consent, uploadVars, cover, bytesVars, recorded, try, sweep, import, job, asked, tries, kept, doubted>>

RetryJob(i) ==
    /\ job[i] \in {"failed", "retry_wait"}
    /\ job' = [job EXCEPT ![i] = "queued"]
    /\ UNCHANGED <<consent, uploadVars, cover, bytesVars, recorded, try, sweep, import, asked, tries, pc, copyVars, faults>>

CancelJob(i) ==
    /\ job[i] \in {"queued", "retry_wait", "running"}
    /\ asked' = asked \cup {i}
    /\ job' = [job EXCEPT ![i] = IF @ = "running" THEN @ ELSE "cancelled"]
    /\ UNCHANGED <<consent, uploadVars, cover, bytesVars, recorded, try, sweep, import, tries, pc, copyVars, faults>>

-----------------------------------------------------------------------------
UploadSteps ==
    \/ \E u \in Uploads, c \in Consents: StartUpload(u, c)
    \/ \E u \in Uploads: SignUrl(u) \/ Put(u) \/ Lapse(u) \/ Age(u)
    \/ \E u \in Uploads, c \in Completions:
          \/ BeginCompletion(u, c) \/ Verify(u, c) \/ VerifyFails(u, c)
          \/ Probe(u, c) \/ ProbeFails(u, c)
          \/ Commit(u, c) \/ CommitUnheard(u, c) \/ CommitRefused(u, c) \/ CommitFails(u, c)
          \/ Lookup(u, c) \/ DeleteUnreferenced(u, c)
    \/ \E u \in Uploads: ClaimStale(u) \/ EraseStale(u) \/ EraseFails(u) \/ RemoveSession(u)

ImportSteps ==
    \/ \E i \in Imports, c \in Consents: CreateImport(i, c)
    \/ \E i \in Imports:
          \/ ClaimImport(i) \/ BeginImport(i) \/ Copy(i) \/ ProbeCopy(i) \/ NotCancelled(i)
          \/ CommitImport(i)
          \/ HandlerCancelled(i) \/ Finish(i) \/ Crash(i) \/ RetryJob(i) \/ CancelJob(i)
    \/ \E i \in Imports, retryable \in BOOLEAN:
          HandlerFails(i, retryable) \/ CommitImportUnheard(i, retryable)

RecordingsNext ==
    \/ \E c \in Consents, granted \in BOOLEAN: BeginConsent(c, granted)
    \/ \E c \in Consents: Grant(c) \/ Withdraw(c)
    \/ UploadSteps
    \/ ImportSteps

RecordingsSpec == RecordingsInit /\ [][RecordingsNext]_recordingsVars

-----------------------------------------------------------------------------
(* Properties.                                                             *)

\* Every recording has its bytes, whatever completions, cancellations and
\* cleanups run at the same time.  The exceptions are the code's own: a failed
\* completion that deleted what another was about to record, and an import
\* whose commit was in doubt (completeUpload, drive, cleanupExpiredUploadObjects).
RecordedIsStored ==
    /\ \A u \in recorded: u \in final \/ u \in raced
    /\ \A i \in Imports: kept[i] # 0 => kept[i] \in copies[i] \/ i \in doubted

\* A withdrawal reaches everything.  While the newest decision is not a grant,
\* no announced upload can begin its completion, no import waits and none is at
\* work that has not been asked to stop, although decisions, ordered by the
\* start of their transactions, commit in any order among new uploads, imports
\* and retries (createConsent, startUpload, createDriveImport).
WithdrawnIsQuiet ==
    \A w \in Consents: consent[w] = "withdrawn" /\ Newest(w) =>
        /\ \A u \in Uploads: upload[u] = "open" => age[u] # "ahead"
        /\ \A i \in Imports:
              /\ import[i] # "queued"
              /\ import[i] = "copying" /\ job[i] \in {"queued", "retry_wait", "running"} => i \in asked

\* An import that succeeded stays so and keeps the one copy it names, also
\* when its job, interrupted after the commit, runs again (drive).
ImportedOnce ==
    [][\A i \in Imports: import[i] = "succeeded" => import'[i] = "succeeded" /\ kept'[i] = kept[i]]_recordingsVars

\* Nothing is left in the bucket that no row leads to: a session removed has
\* no bytes, and a copy no recording names is in the hands of the worker that
\* put it.  The exception is the code's own: a copy whose worker died, or whose
\* deletion failed, is never looked for again (cleanupExpiredUploadObjects, the
\* error paths of drive).
NothingLeftBehind ==
    /\ \A u \in Uploads: upload[u] = "gone" => u \notin pending \cup final
    /\ \A i \in Imports: \A n \in copies[i]:
          n = kept[i] \/ n \in astray[i] \/ (n = tries[i] /\ CopyInHand(i))
=============================================================================
