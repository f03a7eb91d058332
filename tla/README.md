# A verified model of hanamaru-shientool-prod

TLA+ modules, TLC runs and TLAPS proofs about the support tool for visit
recordings in `src/`. The modules are written from the source; documents and
comments are used only to state what the code is meant to do.

| module | what it is |
| --- | --- |
| `JobQueue` | the durable job queue: rows, outbox, dispatcher, Cloud Tasks, worker |
| `VisitDeletion` | the erasure of a visit: requests, holds, fence, deletion worker, retention scan |
| `WebSessions` | the web front end's sessions: store, login, renewal, revalidation |
| `Recordings` | consents, uploads and Drive imports of a visit's recordings |
| `Transcription` | the speech operations of a recording and the jobs that poll them |
| `ConfirmedTexts` | texts that people confirm, and what jobs make of them |
| `ReceiptLifecycle` | abstract: what a receipt is to the settlement of its day |
| `ExpenseReceipts` | receipts in detail: images, reading jobs, holds, purge; implements `ReceiptLifecycle` |
| `ExpenseClosing` | the settlement of a branch's day, built on `ReceiptLifecycle` |
| `Soldgraph` | eBay price searches bought page by page from an external service |
| `MarketSearch` | price searches of closed auctions, read page by page from a list that grows |
| `MarketIdentification` | the product a search is about: its fields, its pictures, their analysis |
| `Memberships` | members, roles, and the context a request carries |
| `ContentApproval` | versions, approvals and batches of contents; extends `Memberships` |
| `ProviderWrites` | idempotency keys and claims, with roleplay and the Drive connection |
| `JobQueueProofs`, `VisitDeletionProofs`, `WebSessionsProofs`, `TranscriptionProofs` | their theorems |
| `ExpenseProofs` | theorems of `ExpenseReceipts` and `ExpenseClosing` |
| `MarketProofs` | theorems of `Soldgraph`, `MarketSearch` and `MarketIdentification` |
| `ProviderProofs` | theorems of `ProviderWrites` and `Recordings` |
| `ApprovalProofs` | theorems of `ContentApproval` and `ConfirmedTexts` |
| `MC*` | instances for TLC, with their symmetry |

## 1. The system

A pnpm workspace. `apps/web` is a Next.js front end, `apps/api` the
application's service (`service.ts`, one class, one database transaction per
request), `apps/worker` the background service, `packages/*` their libraries,
`infra/terraform` the deployment. All durable state is in one PostgreSQL
database (READ COMMITTED, row level security, `withContext` and `system` of
`packages/database/src/repository.ts` run one callback as one transaction) and
in one Cloud Storage bucket.

```
 browser -> apps/web (session gateway) -> apps/api --+--> jobs, outbox_events
                                                     |          |
                Cloud Scheduler -> /internal/dispatch (worker) --+
                                                     |  creates tasks
                                               Cloud Tasks
                                                     |  POST /internal/tasks
                                                apps/worker -> providers, bucket
```

### Inventory

Modelled:

- **Job queue** (`apps/worker/src/{processor,server,dispatcher}.ts`, migrations
  0005, 0009, 0014, 0017; job operations of `service.ts`). State: a row of
  `jobs` (status, attempt count, lease, cancellation mark, time of the next
  attempt), one `job_attempts` row per attempt, `outbox_events`, tasks in Cloud
  Tasks. Operations: create, retry, cancel, claim a batch of events, create a
  task, mark the event published, deliver, claim the job, heartbeat, finish
  (succeeded, to be retried, failed, cancelled). Hard: at-least-once delivery,
  two services with crashes, leases, `SKIP LOCKED`. Correct when: a job is run
  by one worker at a time; its ledger of attempts is true; a final state is
  final; a job that is not finished always has something that wakes it.
- **Visit deletion, holds, retention** (`service.ts` 4373-4641, `processor.ts`
  1931-2386, migration 0022). State: `deletion_requests`, `legal_holds`,
  `visits`, `visit_deletion_fences`, `storage_objects`, bytes in the bucket.
  Hard: bytes cannot be restored and are erased between two transactions;
  holds, uploads and scans go on meanwhile; a worker may die anywhere. Correct
  when: a held visit keeps its bytes; a deleted visit keeps none; a row and its
  bytes agree; an end of the deletion unlocks the visit.
- **Web sessions** (`packages/alignment/src/session-store.ts`,
  `apps/web/src/server/{session-gateway,server-sso}.ts`). State: rows of
  `alignment_sessions` (sessions and login flows) with a version, the refresh
  tokens at the identity provider. Operations: bootstrap, login by single
  sign-on, renewal under a lease in the row, revalidation by the API,
  invalidation, logout. Hard: several instances, lost answers of the provider,
  state read before an await and written after it. Correct when: a rotating
  token is exchanged once; an ended session stays ended; a late answer about an
  old token harms no new one.

- **Recordings** (`service.ts` `createConsent`, `startUpload`, `completeUpload`,
  `createDriveImport`; `processor.ts` `drive`, `cleanupExpiredUploadObjects`).
  State: consents, upload sessions, imports, objects in quarantine and under
  their own names. Hard: bytes are written outside the transactions that record
  them, and every failure path deletes what it wrote. Correct when: a recording
  has its bytes and a current consent, and nothing is left that no row leads to.
- **Transcription** (`processor.ts` `transcribe`, `google-speech.ts`). State:
  the name of a running operation and a note that one is being started. Hard: a
  start whose answer is lost. Correct when: one transcript, no second start of an
  operation in doubt, no copy of the audio forgotten.
- **Confirmed texts** (`processor.ts` `pdf`, `preparation`, `review`,
  `assessTranscriptQuality`; their handlers in `service.ts`). State: versions of
  an extraction and of a transcript, and the results made of them. Hard: minutes
  pass between a job's read and its commit. Correct when: every result in force
  was made of one confirmed version, and a person's decision stands.
- **Expense receipts and settlement** (`expense*.ts` of both services). State:
  receipts, their objects and jobs; a branch's day with its roster, readiness,
  transfers and reconciliation. Hard: a purge over many transactions; edits that
  make a mark or a reconciliation stale. Correct when: a hold keeps content and a
  purge leaves none; a closed day is the one that was reconciled.
- **eBay market prices** (`soldgraph-workflow.ts`, migration 0067). State: pages
  with a credit each, leases, an allowance read from the service. Hard: a lost
  answer may have cost money. Correct when: what was taken is held by the ledger,
  and a page is bought once.
- **Market price search** (`service.ts` 2373-2599, `processor.ts` 1512-1741,
  `packages/market-price/src/index.ts`). State: a product with pictures, a search
  with its stored pages and candidates, overrides, snapshots. Hard: the list is
  somebody else's and grows while it is read, over attempts that stop anywhere;
  members override and confirm meanwhile. Correct when: a search called complete
  missed nothing, a price is confirmed of what was counted and read, and a
  picture's row names an object that is there.
- **Contents and members** (`service.ts` 3246-3533, 4664-4824; `auth.ts`). State:
  versions, batches, roles, flags. Hard: decisions over days while all of it
  changes. Correct when: nothing imported or gated is published on its author's
  word, and a published version is final.
- **Idempotent writes** (`service.ts` 608-869). State: a record per key, with a
  lease for writes that call a provider. Correct when: a key takes effect once,
  and what a failure leaves at the provider is taken back.

Not modelled, with what would make each correct:

- **Audit chain** (`repository.ts` `audit`; the purge's anchors): each event
  names the hash of its predecessor.
- **Purchase results**: imports and sums in single transactions; algorithms over
  decimal data.
- **Manual images, training videos, learning progress, help**: single
  transactions, and uploads that repeat the shape of `Recordings`.
- **Operations scan, providers, web screens, migrations, deployment**: no state
  machine of their own, or not this repository's.

`PROJECT.json` has the full list with files, and the list of hazards.

## 2. JobQueue

One action is one database transaction or one call to Cloud Tasks. A handler's
own work is left out: it ends by succeeding, by an error that is retried or
not, or by `JOB_CANCELLED`.

| in the model | in the code |
| --- | --- |
| `status`, `attempt`, `cancelReq` | `jobs.status`, `attempt_count`, `cancel_requested_at` |
| `lease` | `lease_expires_at`: NULL, in the future, in the past |
| `waits` | `available_at`: 0 past, n the time of the retry asked by attempt n |
| `ledger[j][n]` | `job_attempts.result_status` of attempt n |
| `outbox[e]` | `outbox_events`; the event is named by its deduplication key |
| `task[e]` | the Cloud Tasks task, whose name is derived from the event |
| `pc`, `wJob`, `wAtt`, `wTask` | one request of `/internal/tasks` in the worker |
| `batch`, `dCur` | one run of `dispatchOnce` |
| `lock` | the row lock of a job, kept across a step |
| `overlooked` | history: the jobs whose due retry a delivery passed over because another transaction held the row |
| `stalled` | history: the jobs whose lease lapsed while a live request ran them |

`CreateJob`, `RetryJob`, `CancelJob` are the API. `ClaimOutbox`, `CreateTask`,
`MarkPublished`, `DispatchAborts` are the dispatcher. `ClaimJob`,
`RefuseDelivery`, `ReplyRefused`, `ReplySettled`, `WorkerStops`,
`DeadlineExceeded` are deliveries. `Heartbeat` and the `Finish*` actions are
the handler's frame. `EventDue`, `OutboxLeaseLapses`, `LeaseLapses` are time.
`EraseTranscription` is what `remove` does to the visit's transcriptions.

Two switches keep apart what depends on an environment. `Stalls`: a live worker
may miss its heartbeats for five minutes. `Contention`: a delivery may meet a
row lock of `mark_outbox_published` or of a cancellation that waits for the
provider; without it these transactions are one step, with it two.

Left out: the provider state of a transcription, the deferred eBay poll's own
delay (it is `FinishRetryWait`), the content of results, and the queue giving a
task up: `infra/terraform/main.tf` 274-280 gives it up only when five attempts
*and* one hour are both exhausted, and the model is of the time before.

### Runs

| run | question | bounds |
| --- | --- | --- |
| `jobs` | workers that may stall, deliveries that may meet row locks: one runner until a lease lapsed under a live one, a wake-up for every unfinished job but one that a delivery passed over, results that are not overwritten | 1 transcription, 2 workers, 1 dispatcher, 2 claims, 2.3 million states |
| `jobs_settle` | no stall, deliveries that may meet the dispatcher's row lock, fairness: every job settles but for two named exceptions | 1 job that is no transcription, 1 worker request at a time, 1 dispatcher, 2 claims, 230,000 states |

Why the bounds are enough. Jobs meet only in a dispatcher's batch, whose only
effect on another job is to be abandoned, which `DispatchAborts` does to one
job as well. Two workers let a late worker meet the one that replaced it; two
claims (`ClaimBound`) with `MaxAttempts = 2` let a job be retried, exhausted
and reclaimed; the second claim's worker does not die (`WorkerStops`), so that a
job does not end at the bound. `jobs_settle` has one request at a time: that no
interleaving of two loses a wake-up is what `NeverStranded` and
`RetryIsNotForgotten` say in `jobs`, and what is left to liveness is that a wake-up
is used. It leaves transcriptions out: cancellations of one that meet a failing
provider hold the row for a call each and may be repeated, and nothing but luck
keeps every delivery from meeting one of them. The theorems hold for any number
of each.

### Fairness

Stated in `Fairness`, and used by `jobs_settle` only. Cloud Scheduler calls
the dispatcher every minute, and failing calls are repeated; a dispatcher may
abandon any number of batches but not for ever (strong fairness of creating a
task, and of the two halves of marking). Cloud Tasks repeats a delivery until it
is acknowledged, so the job of a task that is delivered again and again is
claimed when it can be (strong fairness of `ClaimJob`, per job). Every provider
call has a timeout, so a handler ends; time passes. No fairness is assumed of
the API, of crashes or of cancellations. `JobSettles`: a job that was created
ends succeeded, failed or cancelled, with two exceptions that the code makes.
A job whose cancellation was requested: `claim_job` never takes it, and if its
worker dies it stays running (listed as a hazard). And a job in `retry_wait`
whose last wake-up was spent on a locked row: the delivery skips the row, reads
`retry_wait` and is answered 200 (`PassedOver`; `jobs_contended` of section 14
shows it). The second exception is exact: it holds only while nothing else will
wake the job, and only if a delivery did meet the lock (`overlooked`), so a
wake-up lost in any other way refutes the property; `RetryIsNotForgotten` says
the same as an invariant, of every interleaving of two requests.

## 3. VisitDeletion

One visit. Every transaction that decides by the fence takes the visit's advisory
lock (`pg_advisory_xact_lock`), so a transaction is an action, and visits do
not interact. Two kinds of step are without the lock. `assertVisitAccess` reads
`visits.deleted_at` before the lock is waited for, so a request, a hold or a
release may get the lock when the visit is gone; `late` is the set of the calls
that did, chosen by `CompleteDeletion`. And the transactions in which a worker
records what it erased and ends: the worker holds its fence until they commit,
so a transaction that decides by the fence comes wholly before or after. Jobs are those of `JobQueue`; the module uses what `OnlyOneRunner`
proves there of jobs no worker stalled on: a job has one live worker, and a live lease as
long as it has one. A repeated claim (`Claim`), `Fail`, `FailForGood`, `Finish`
and `Crash` are the frame of `JobQueue` seen from the job.

| in the model | in the code |
| --- | --- |
| `hold` | a row of `legal_holds` with `released_at IS NULL` |
| `request[r]` | `deletion_requests.status`; r also names its job |
| `visit`, `gone` | `visits.status`, `visits.deleted_at` |
| `late`, `heldGone` | calls past `assertVisitAccess` when the visit went; history: a hold was placed on the visit after that |
| `fence` | `visit_deletion_fences.job_id`; a request's fence is a `delete` one, a scan's a `retention` one |
| `row`, `stored`, `expired` | `storage_objects.status`, the bytes, `retention_until` |
| `pc`, `todo`, `cur` | the local state of `remove` and `retention` |

`RequestDeletion`, `CreateLegalHold`, `ReleaseLegalHold`, `CompleteUpload`,
`RetryJob`, `CancelJob`, `CreateRetentionPolicy` are the API. `PrepareHeld`, `Prepare`,
`EraseForRequest`, `RecordForRequest`, `CompleteDeletion` are `remove`.
`SelectExpired`, `SpareHeld`, `FenceObject`, `SkipFenced`, `EraseForScan`,
`RecordForScan`, `EndScan` are the share of `retention` that one visit's
documents and recordings have. `LiveFence` is the `DELETE` of stale fences that
several of these transactions begin with.

Left out: the scan's other work (uploads never completed are in `Recordings`,
texts in `ConfirmedTexts`, receipts in `ExpenseReceipts`; images of manuals,
videos and the audit purge nowhere); verification of an upload
(its bytes are taken as stored when it completes); the cancellation of the
visit's other jobs by a request, which is `RequestCancel` of `JobQueue`. The
`SKIP LOCKED` of the scan's selection passes over an object only while another
worker is at the visit. `tries` saturates at `MaxAttempts`: past it a failure
is final, whatever the count.

### Runs

| run | question | bounds |
| --- | --- | --- |
| `erasure` | requests, scans, holds, uploads together | 1 request, 2 scans, 2 objects, 1 attempt, 1 crash, 2.9 million states |

Two scans meet each other over a fence and each meets the request; two objects
let a worker be between them; a crash, with any number of failures, lets every
handler be repeated from every point. With one attempt every repetition is an
operator's `RetryJob` or the claim of a lapsed lease; an automatic retry would
start from the same states. A hold that comes late finds no fence and is placed
on a visit that is gone; a scan that had selected an object of it then sets the
erased object's row back to `available` (`processor.ts` 2209-2213 has no guard
on the status). `GoneIsErased` says that the bytes are gone in every case, and
the rows up to the first such hold. `CHECK_DEADLOCK FALSE` in every
configuration: a system whose jobs are over, or at the bounds, stops.

## 4. WebSessions

An action is one operation of the store (a transaction or one SQL statement) or
one call of the identity provider or of the API; between them requests of any
instances interleave. A *grant* is one successful answer of the token endpoint:
it names the access token and the refresh token that came with it.

| in the model | in the code |
| --- | --- |
| `row[k]` | the row of session k: `version`, `credential`, `sso.refreshToken`, `renewal`, `expires_at` in the past |
| `row[k].renew` | `renewal.owner`, named by the version its claim wrote; 0 without renewal |
| `lapsed` | claims whose `renewal.expiresAt` is over |
| `flow[f]`, `owner[f]` | the row of a login flow, and its `flow.owner` |
| `token[g]`, `code[f]` | what the identity provider has been sent: `fresh`, `sent`, `retired`; `resent` is what must not happen |
| `stale`, `refused` | access tokens within 30 seconds of their end; access tokens the API answered 401 or 403 |
| `issued`, `heir`, `missed` | history: cookies given out; what a login replaced; logouts that removed nothing |
| `pc`, `key`, `at`, `seen` | one request: its next await, its session, its flow, the copy it read |

`Bootstrap`, `Logout` and `Establish` are `session` and `restart`; `StartFlow`,
`Callback`, `Consume`, `SendCode`, `CodeAnswered`, `Enter` are the login;
`Arrive`, `Look`, `Claim`, `SendToken`, `TokenAnswered`, `RenewalFails`,
`CompleteRenewal`, `Discard` are `usable` and `renew`; `Recheck`,
`ForwardRefused`, `ReadRejected`, `Invalidate` are `validated`, `forward` and
`invalidateCredential`. `Stop` ends a request anywhere, by an answer, an error
or the death of its instance. `SessionEnds`, `ClaimLapses`, `AccessAges`,
`FlowExpires` are time. `CompleteRenewal` takes the second read and the
replacement in one step: while the claim is in the row, only its owner replaces
it, and a removal in between makes the replacement fail, which is the step's
other outcome.

`remove` is a DELETE without the advisory lock of `replace`. If it meets the
uncommitted transaction of a replacement under the same key it waits, then
finds its row deleted and does not see the inserted one. `Overlaps` says
whether this may happen to a logout; `Overtake` records it.

Left out: the capacity of the store (429), the limit of login attempts, logins
by a bearer token (which have no refresh token and are never renewed), the
three rounds of `validated`, encryption and key ring, CSRF and origin checks,
and the in-memory store of local runs.

### Runs

| run | question | bounds |
| --- | --- | --- |
| `sessions` | renewals, logins, refusals and ends of the sessions of one browser | 2 requests at a time, 3 keys, 2 flows, 2 grants, 1.1 million states |

Two requests at a time meet in every pair of phases, and a request that is over
makes room for another, so more than two take part. Three keys let two logins
compete for one session, or one follow another; two grants let a session be
renewed once, or two logins compete. Without fairness: no liveness is claimed.
`CHECK_DEADLOCK FALSE`: when keys and grants are used up and all sessions are
gone, nothing is left to do.

## 5. Recordings

How recordings of a visit come to be. An action is one transaction or one call
of the bucket; what lies between two of them is where another request, the scan
or a crash gets in.

| in the model | in the code |
| --- | --- |
| `consent`, `cover` | `recording_consents` by `created_at`; the consent an upload or import names |
| `upload`, `age`, `url` | an `upload_sessions` row, its `expires_at`, whether its signed URL works |
| `pending`, `final` | bytes in quarantine and under the object's own name |
| `recorded`, `kept` | a `storage_objects` row with its recording, of an upload and of an import |
| `try`, `sweep`, `pc` | the next await of a completion, of the scan, of an import's worker |
| `import`, `job`, `asked`, `tries` | `drive_imports.status` and the import's job |
| `astray`, `raced`, `doubted` | history: what the code's own gaps account for: copies whose worker died or failed to delete them, and the two below |

`BeginConsent`, `Grant`, `Withdraw` are `createConsent` (a consent is numbered
when its transaction begins and visible when it commits, so two may commit in
the other order). `StartUpload`, `SignUrl` (after the commit, or when the
announcement is repeated), `BeginCompletion`, `Verify`, `Probe`, `Commit`
with their failing forms, `Lookup` and `DeleteUnreferenced` are `startUpload`
and `completeUpload`; `CommitUnheard` is a commit whose answer is lost.
`ClaimStale`, `EraseQuarantine`, `EraseStale`, `EraseFails`, `RemoveSession` are
`cleanupExpiredUploadObjects`. `CreateImport`, `BeginImport`, `Copy`,
`ProbeCopy`, `RecordCopy`, `CommitImport` are `createDriveImport` and `drive`,
`Discard` and `DiscardFails` its error paths; `ClaimImport`, `HandlerFails`, `HandlerCancelled`, `Finish`, `Crash`,
`RetryJob`, `CancelJob` are the frame of `JobQueue` seen from one job. `Put`,
`Lapse` and `Age` are the browser and time.

Left out: uploads of documents (the same handler without a consent), the
inspection of media as such (a step that fails or not), the Drive connection
(section 12), the visit's deletion (section 3).

Run `uploads` (`MCUploads`, which checks this module and the pictures of section
10 side by side: a behaviour is of one of them): one upload with two completions
at once, one import with two attempts, two consents, one fault; 1.8 million states
with those of the pictures. Two completions are what it
takes to delete under each other; two consents let one be withdrawn or
superseded between the two looks at it; one fault interrupts every step, and
uploads do not meet each other.

`RecordedIsStored` and `NothingLeftBehind` except what the code itself leaves:
a failed completion deletes the verified object without looking for another
completion (`raced`); an import interrupted around its commit may leave a
copy or, after another attempt's error path, none (`doubted`); and a copy stays
when its worker dies, or when the deletion on an error path fails, which
`processor.ts` 1925 swallows and 1813 and 1819 throw in place of the first error
(`astray`). They are listed as hazards. Everything outside of these exceptions is
what the runs show.

`WithdrawnIsQuiet` relates the order of decisions to what they stop: while the
newest one is not a grant, no upload can begin its completion, no import waits,
and none works on unasked to stop. A withdrawal that began before a grant and
commits after it is not the newest: the code then goes on under the grant, which
no document speaks of, and the property does not either.

## 6. Transcription

One recording, the jobs asked for it, and the speech service.

| in the model | in the code |
| --- | --- |
| `covered` | the consent looked at by `transcribe`: newest and granted |
| `rec`, `made` | `recordings.status`; the transcript written by a job |
| `phase`, `row` | `provider_operation_state`; `provider_operation_id` and the cleanup token, named by the attempt |
| `running`, `copies` | at the service: operations, and the copies of the audio they keep |
| `pc`, `job`, `asked`, `tries` | the worker's next await and the job |
| `lost` | history: operations whose copies nobody will remove: starts that failed or were not heard, cleanups that failed |
| `disowned` | history: operations that still ran when their job gave them up |

`Prepare`, `Start`, `StartRefused`, `StartUnheard`, `Persist`, `PersistRefused`,
`Defer`, `PollRefused`, `GiveUp`, `PollResult`, `Commit`, `Clean`, `Assess`,
`Finish` are `transcribe` in its order. `StartUnheard` is a start that ends in an
error that may pass, after which the note `starting` keeps later attempts from
starting another one until nine hours are over; `StartRefused` one whose error
counts as permanent, which takes the note back. Either may leave operations and
copies at the service (`LeftByStart`): a long recording is started in chunks,
the catch clause cancels the earlier ones and swallows its errors, and an answer
lost with an unlisted code counts as permanent (`google-speech.ts` 257-262,
354-382). `PollRefused` is a poll whose error counts as permanent and `GiveUp` the
last poll of an operation that still runs: both clear the row and leave the
operation (`Disown`). `CreateJob`, `RetryJob`, `CancelJob` are
the API, `Overrule` a consent that is withdrawn or superseded, `OperationEnds`
the service.

The operations of the chunks of one start are one operation here. Left out: what
an operation still writes to the bucket after its cleanup; how the service's
results become segments and speakers; the quality assessment, which is a step
that may fail here and is modelled in section 7.

Run `transcription`: two jobs of one recording, two attempts each, three faults;
1.3 million states. Two attempts are a start and a repetition that meets the
note, or an operator's retry of what was given up; three faults let a start fail
half way, its cleanup fail and a worker die in one behaviour. The three
invariants hold with three attempts and one fault as well (7.2 million states). `StartedOnce` speaks
of the operations a job has not given up (`Followed`), and excepts jobs whose
cancellation was requested: `cancelJob` of a running job clears the note. Outside
of these exceptions, which the code has, a job runs one operation at a time, and
its worker is at that one.

## 7. ConfirmedTexts

The extraction of a PDF with the preparation made of it, and the transcript
with its quality assessment and reviews: texts that a person edits and confirms
while jobs read them.

| in the model | in the code |
| --- | --- |
| `doc`, `ext`, `extLock` | `visit_documents.status`, `document_extractions` with `lock_version` |
| `prep`, `review`, `madeOf` | what a job made, and the version it names |
| `text`, `textLock` | the transcript and its `lock_version` |
| `quality`, `assessor` | `transcript_quality_assessments`; the call that is under way |
| `checkpoint`, `parts` | `review_chunk_checkpoints`; the parts in the worker's hands |
| `pc`, `read` | a job's next await and the version it read |

`BeginExtraction`, `CommitExtraction`, `FailExtraction` are `pdf`;
`ReadExtraction`, `CommitPreparation` are `preparation`; `ReadTranscript`,
`ReuseChunk`, `AskChunk`, `CommitReview` are `review`; `ReadQuality`,
`SaveQuality` are `assessTranscriptQuality`. `Update*`, `Confirm*`,
`Acknowledge*`, `Create*` are the API's handlers of the same names;
`RetireDocument`, `DeleteTranscript`, `DeleteReview` are the retention scan;
`RunAgain`, `Finish`, `Fail`, `RetryJob` the frame of the jobs.

Left out: contents, evidence references, glossaries, suggestions, permissions,
and the fence of the visit.

Run `texts`: two documents, two preparations, two reviews of two chunks, five
requests of people, one fault; 1.9 million states. Two jobs of a kind compete
for what is in force; two chunks can be of different versions; five requests
confirm, edit and confirm again around a job, and one more. The versions are
bounded by the requests.

## 8. Receipts and settlement

Three modules. `ReceiptLifecycle` says what the settlement of a day relies on:
a receipt is taken in while the day is open, is pending, and is booked while
the day is open, or dropped; never pending again. `ExpenseReceipts` implements
it under `PhaseOf` (property `ImplementsLifecycle`): a receipt with an item is
booked, one that waits for an upload, for its reading or for a person is
pending, an excluded or purged one is dropped. `ExpenseClosing` uses the
abstract steps `Take`, `Book`, `Drop` for the receipts of its members
(`DayLife`, an instance with `phase <- receipt` and `open <- (branch # "closed")`),
so what is proved of the closing holds of the receipts that implement them.

`ExpenseReceipts` (`expense-receipts.ts`, the worker's `expense-receipts.ts`):

| in the model | in the code |
| --- | --- |
| `status`, `jobId`, `read`, `expired`, `held`, `item` | columns of `expense_receipts` |
| `image`, `url` | `expense_receipt_images`, its upload and signed URL |
| `stored`, `listed` | bytes in the bucket under a name some row will have; `storage_objects` rows |
| `unnamed`, `stray` | normalized bytes a worker has put and no row names yet; images of which such bytes were left behind |
| `job`, `about`, `tries`, `asked`, `pc`, `todo` | the reading jobs and their workers |
| `sweep`, `goal`, `erased` | the purge: receipts selected, objects listed, objects deleted and not recorded |
| `late`, `committed` | history: bytes put during a purge; jobs whose reading was committed |

Members' actions: `AddImage`, `RenewImage`, `Upload`, `CompleteImage`,
`Analyze`, `Exclude`, `Register`. Worker: `Claim`, `Begin`, `ReuseNormalized`,
`PutNormalized`, `RecordNormalized` (which drops the copy or leaves it, `RemoveCopy`
and `LeaveCopy`, when its transaction fails), `AskAI`, `CommitReading`, `Finish`,
`FinishCancelled`, `HandlerFails`, `Crash`. Purge: `SelectExpired`,
`ListObjects`, `EraseObject`, `RecordErased`, `FinishPurge`, `PurgeStops`.
Others: `ChangeHold`, `CloseDay`, `CancelJob`, `RetryJob`, `Expire`,
`UrlLapses`. Left out: the values read, candidates, batches as such.

Run `expense` (`MCExpense`, which checks the two modules side by side: a behaviour
is of one of them, since what they share is `ReceiptLifecycle`) has here one
receipt, two reading jobs of two attempts, one image. Receipts meet only in the
selection of a purge, which takes each by itself; a second job is what an analysis
asked again means; a second image only repeats the steps of the first (the proofs
are for any number).

`ExpenseClosing` (`expense.ts`, `expense-cash.ts`):

| in the model | in the code |
| --- | --- |
| `branch`, `fresh`, `difference` | `expense_branch_days`: status, whether `reconciliation_version` is the `lock_version`, the two amounts |
| `issue`, `corrected` | `expense_branch_issues` of the two kinds |
| `roster`, `ready` | `expense_branch_participants`, `ready_at` |
| `day`, `candidate`, `confirmed`, `receipt` | a member's day, unconfirmed and confirmed items, receipts |
| `missing`, `shortage`, `settled`, `linked`, `moved` | `expense_followups` of missing cash, their amounts, the resolved ones, unreversed transfers made for them |
| `drift` | history: the records differ from those last reconciled |

`CreateDay`, `UpdateDay`, `AddItem`, `ConfirmItem`, `UpdateCandidate`,
`ExcludeCandidate`, `AddDayImage`, `RegisterReceipt`, `DropReceipt`, `AddShortage`
are a member's; `CreateBranchDay`, `ChangeRoster`, `MarkReady`, `EnterDaily`,
`EnterItem`, `Transfer`, `ReverseTransfer`, `Reconcile`, `Close`, `Correct`,
`ResolveDifference` the officers'. A command compares the version its caller
saw, so an action is a caller who saw the current one. Left out: permissions and
delegations, the carry-over of cash between days, reports.

A record of missing cash may have the amount 0 (`expense.ts` 169, migration
`0058`:56): no transfer can be made for it, so it is never resolved, and
`ShortageAgrees` says so. Run `expense` has here two members with a receipt each,
cash up to 2, two transfers of an amount; 1.6 million states for both modules. A second member is what
makes somebody not ready; two units of cash are replenished in parts or at once.

## 9. Soldgraph

Price searches bought page by page from an external service that takes a credit
for a page (`soldgraph-workflow.ts`, `soldgraph-checkpoints.ts`, migration
0067).

| in the model | in the code |
| --- | --- |
| `mode`, `usage` | the account's `execution_mode` with the flags that withdraw it; its usage lease and snapshot |
| `status`, `cancelled`, `purged`, `run`, `active` | a search, its run, its job |
| `state`, `credit`, `requested`, `result`, `published`, `observed` | a page's checkpoint: one attempt of one page |
| `owner`, `live` | `lease_owner`, `lease_until` |
| `order` | at the service: what became of the operation key of a page |
| `pc`, `on`, `at`, `seen`, `answer` | an execution of the handler: its next step, search, page, mode, the answer in hand |
| `told`, `counted` | history of what the usage answers included |

`Create`, `NextPage`, `Retry`, `Resume`, `Cancel`, `Confirm`, `SetMode` are the
API. `Start`, `Take`, `Dispatch`, `Call`, `Save`, `Parse`, `Publish`, `End` are
the worker's handler; `Abort` is its death or error anywhere. `ServiceSettles`
is the service's own work: it takes the credit of a key once, whether or not its
answer is heard. `LeaseLapses`, `UsageLapses` are time, `BeginUsage`,
`UsageAnswered`, `FinishUsage`, `FailUsage` the usage refresh, `Purge` the
retention. The service is external and modelled from how it is called: the same
operation key is never charged twice.

Left out: the rate per minute, candidates and their evaluation, statistics;
the optimistic version of a checkpoint, because while a lease lives only its
owner changes the page.

Run `ebay`: one search, two pages of two attempts, two rows, two executions, a
budget of two credits and one page pending at a time, two faults; 3.3 million
states. Two executions meet over a lapsed lease; two rows are two pages or a
page and its retry; the budget is reached. Searches share only the budget and
the limit, which pages of one search compete for as well.

## 10. MarketSearch and MarketIdentification

Price searches of closed auctions that cost nothing but requests: the product is
described and confirmed, then searched for.

`MarketIdentification` (`service.ts` 2373-2473, `processor.ts` 1512-1541 and the
scan's share, 2130 and 2270):

| in the model | in the code |
| --- | --- |
| `product` | `market_price_identifications`: status, `lock_version`, `input_json`, `confirmed_json` |
| `client[m]` | a member's page: the version it knows, the fields it has just submitted |
| `picture[i]` | `market_price_images` and its `storage_objects` row: status, object name, what the scan did |
| `bucket` | objects in the bucket, under the name of the upload and of the smaller picture |
| `analyses`, `halted`, `analyst` | the analysis jobs, their cancellation marks, their workers |
| `scan` | the image whose object the retention scan is erasing |
| `unanswered`, `crossed` | history: commits without an answer; two analyses with a worker at once |

`CreateIdentification`, `UpdateIdentification`, `ConfirmIdentification`,
`AnalyzeIdentification`, `StartPictureUpload`, `CompletePictureUpload` are the API.
`PrepareAnalysis`, `NormalizePicture`, `RecordPicture`, `DropSource`,
`CommitSuggestion` are the handler in its order, `RecordFails` and `UndoPass` its
compensation, `PurgeUpload`, `MarkExpired`, `DeleteExpired`, `RecordExpired` the
scan. The page confirms right after its own update, so what is confirmed should be
what it sent (`ConfirmedAsSubmitted`); the version is what keeps another member's
edit out. `PictureIsReadable` excepts a commit whose answer is lost, after which
the compensation deletes what the row names, and two analyses at once.

`MarketSearch` (`service.ts` 2475-2599, `processor.ts` 1543-1741, and the policy and
parsers of `packages/market-price/src/index.ts`):

| in the model | in the code |
| --- | --- |
| `listed` | the source's list of ended items; item n is the n-th to end |
| `found` | `market_price_searches`: status, coverage, failure class, `lock_version`, rule for outliers, what its statistics count |
| `pages[<<w, n>>]` | `market_price_pages`: the length of the list when the page was fetched, which says what was on it |
| `pageOf`, `reasons`, `override`, `included` | `market_price_candidates` |
| `asked`, `stop`, `fetcher` | the search's jobs, their cancellation marks, their workers with the locals of the handler |
| `edit`, `shown`, `snapshot` | an override before it commits; what a page read before it confirms; the newest `market_price_results` |
| `doubled`, `met` | history: two unfinished jobs, two overrides at once |

`CreateSearch`, `RetrySearch`, `CancelSearch`, `RestartJob` make and end jobs.
`Prepare`, `Plan`, `Checkpoint`, `NoCheckpoint`, `Fetch`, `StorePage`, `ReadStored`,
`WriteEvaluation` are the handler, which goes page by page; `FetchRefused`,
`StoreFails`, `Block` its way out. `ListGrows` is the source: items that end while
pages are read push the others to later pages. `Shifted` is the code's check that
two pages belong together. `BeginOverride` and `CommitOverride` are the two halves
of a transaction that counts before it commits; `UpdatePolicy`, `ReadSearch`,
`ConfirmSearch` the rest. Prices are abstracted to whether one is `Odd`, since no
property depends on their amounts.

Left out: an earlier search's answer in place of a new one, registries of categories
and brands, prices as numbers, an administrator's cancellation of a search's job
and retry of an analysis.

### Runs

Run `uploads` has one picture, two members with two sets of fields, two analyses, one
fault, versions up to 4. Two members are what a stale page takes; two analyses meet
over a picture whose first one died; one picture is enough as each is worked on by
itself.

Run `market`: a list of three to five items in pages of two, of which at most two are
read, two jobs, one override open at a time, one fault, versions up to 3; 4.8 million
states. The list can grow by a whole page between two pages, and by one item, which
shifts by half a page; two of its items end on the same day; one cannot be read; a
second job meets the first or follows it. Two overrides open at once are left to
the proof: `SnapshotAgrees` excepts them.

## 11. Memberships and ContentApproval

`Memberships` (`auth.ts`, `service.ts`): `account`, `roles`, and the requests in
flight (`busy`) with the capabilities their context was given when it was
authenticated (`caps`). `InviteUser`, `BindInvitation`, `UpdateUser`,
`ReplaceRoles` are managers' and logins; `Authenticate`, `Answered` frame a
request. A role taken away while a request is in flight still counts for it.

`ContentApproval` EXTENDS it (`service.ts` 3246-3533, 4664-4824):

| in the model | in the code |
| --- | --- |
| `version[<<i, v>>]` | a row of `content_versions`: review status, author, approver, published |
| `current`, `shown` | `current_version_id`, `published_version_id` |
| `batch` | `content_approval_batches` with its items and decisions |
| `gated`, `pilot` | the feature flags `content_approval` and `pilot_content_ai` |
| `answer` | the assistant's answer being written: the versions it read |
| `waived` | history: versions published when no approval was required |

`CreateContent`, `UpdateContent`, `SubmitVersion`, `PublishVersion`,
`DecideApproval`, `CreateBatch`, `ApproveBatch`, `PublishBatch`, `RejectBatch`,
`DecideStaleBatch` are the handlers (an approval publishes when it is the last
one required), `AskAssistant`, `GiveAnswer` the two ends of `assist`, `SetFlag`
the flags, `Refused` a request that changes nothing.

Left out: manual images, videos and learning, help, search; one content type
and one category, since a batch touches only its own.

Run `content`: three members (an educator, an approver, one who is invited),
one request at a time, one change of an account, role or flag, two imported
items and one of an educator, two versions, three rows, one batch that requires
two approvals; 2.3 million states. Two imported items make a batch of more than
one; a third member is what a batch with a submitter and two approvers takes.
One request in flight is enough, as changes of accounts and roles do not need a
request of their own here; requests in flight meet in the database only, where
each is one transaction. The theorems are for any number.

## 12. ProviderWrites

Keys of idempotent requests (`service.ts` 608-869) with the users of the claim
that have state of their own: roleplay turns, and the Drive connection.

| in the model | in the code |
| --- | --- |
| `record[k]` | `idempotency_records`: status, a lease ahead, expired |
| `req[s]` | a request: its next await, its key, what it read, the tokens it holds |
| `session`, `turns` | the roleplay session; for each turn how much of the conversation it was made from |
| `grants`, `minted` | at Google: refresh tokens that are good, and all ever given |
| `row`, `rows` | the token of the active `external_connections` row, and of all rows |
| `effects` | history: effects of a key since its record was made |
| `refused`, `unseen`, `lost` | history of tokens nobody will revoke: those the code refused after the exchange; those of a connection that another one made at the same time replaced; those a dead instance, a lost answer or a failing revocation left |

`Begin`, `Claim`, `ClaimAnswered` are `claimProviderWrite`, `Fail` is
`releaseProviderClaim`, `Vanish` a death. `Perform`, `CommitWrite`, `WriteEnds`
are the plain write of one transaction. `PrepareTurn`, `AskModel`,
`CommitTurn`, `CompleteSession` are `roleplayTurn` and
`completeRoleplaySession`. `Exchange`, `ExchangeRefused`, `ExchangeUnheard`, `ReadRow`, `Sweep`,
`SweepFails`, `CommitConnect`, `CommitConnectInDoubt`, `ConnectFails`, `Undo`,
`UndoFails`, `CommitRevoke` are the Drive connection and its compensation.
`LeaseLapses`, `Expire`, `Purge` are time and the scan.

Left out: the digest of the request, answers made again for uploads, the
assist's use of claims (the same claim without a compensation), texts of turns.

Run `provider`: two requests at a time, four in all, six keys (two turns, two
connections, one disconnection, one write), one expiry; 1.1 million states. Two at a
time is a taker of a lapsed lease and the one it took it from; four requests let
a key be repeated after each.

## 13. What is proved

`tlapm` checks these for every value of the constants that satisfies the named
assumption of the component's module; in particular for any sets of jobs,
workers, requests, objects, sessions, receipts, pages, members and keys.

- `JobQueueProofs!TypeCorrect`: `TypeOK`. It is inductive only with
  `RequestsNameJobs`: a request between claim and reply names a job.
- `AttemptsAreDistinct`: two requests never run the same attempt, stalls and
  contention included. The invariant `AttemptInv` adds that no running request
  has a number above its job's `attempt`, from which a new claim's number is
  new.
- `OnlyOneRunner`, and under `~Stalls` `LedgerIsTrue` and `TerminalJobsStay`:
  the invariant `HealthyInv` carries the three together, each of the jobs that are
  not `stalled`. A request in the handler of one has the job's current attempt
  number, and the job is either cancelled, or running with a live lease or a cancellation request
  (`HolderCurrent`). `claim_job` takes none of these, so no second request
  enters; hence the one open attempt of the ledger is the request's own, and the
  unguarded `UPDATE` of the cancelled branch only meets its own job. A row lock
  held for a cancellation keeps the job cancellable (`LockedIsCancellable`).
- `JobsAreNotStranded`, with stalls and foreign locks: `WakeInv`. A queued job
  has an event that is still to become a task, or a task that is to be delivered
  or was refused; a running one has a task that is to be delivered or is held by
  a request that will bring it back or end the run (`Woken`). A claim passes from
  the one to the other, since a task in flight is of one request (`TasksHeld`).
  `RetriesFresh` is what makes a retry wake its job: the event it inserts is named
  by an attempt that no event names yet, so the ON CONFLICT never drops it.
- `RetriesAreNotForgotten`, with stalls and foreign locks: `RetryInv`. The event of
  a retry is written by the one request that runs the attempt, so it is new
  (`RunsFresh`, from `AttemptsDistinct`); it has no task before it is due
  (`NotYetDue`); and the delivery of its task claims the job, or the row was locked
  and the job is `overlooked` (`RetryWoken`).
- `AttemptResultsAreFinal`, with stalls as well: `LedgerInv` says that attempts
  are opened in order, and that a claim opens one that was never used.
- `VisitDeletionProofs!ErasersHoldTheFence`, `HoldsExcludeDeletions`: the
  invariant `FenceInv` says that a job with a live worker is running, that an
  erasing worker owns the fence, and that a hold and an erasing deletion
  exclude each other. Each transaction that clears stale fences clears none of
  a running job, and `CreateLegalHold` refuses a deletion's fence.
- `SucceededDeletionsUnlock`: a deletion about to succeed does not hold the
  fence any more, or found a hold and cleared it.
- `DeletedObjectsAreErased`, `GoneVisitsAreErased`: `ObjectInv` follows each
  object from `Prepare` or `SelectExpired` to its record: an object that is
  recorded was erased, and what a deletion has not prepared cannot appear while
  the visit is `deleting`. Of a gone visit it says that no bytes are left, and of
  its rows that they are `deleted` unless a hold came afterwards (`heldGone`):
  only a scan that had selected the object, and meets that hold, sets one back.
- `WebSessionsProofs!TypeCorrect`: `TypeInv` adds that a request at work is about
  a key that was given out and has a whole session in hand.
- `EndedSessionsStayEnded`, `RefusalsSpareRenewed`, `OneLoginReplaces`: all rest on
  `RowStep`, which says what any step does to the row of a session: nothing, its
  deletion, its end, or a replacement by a later version of a session that is
  visible. `SnapInv` adds that a request about to replace a row has read the
  row if the version still fits, and that what it is about to invalidate was
  refused.
- `TokensAreSentOnce`, `StoredTokensAreFresh`: `TokenInv` says that a live refresh
  token is in one place, a session that is not under renewal or the hand of one
  request, and in the state its holder needs. `Claim` moves it from the row to
  the hand, `CompleteRenewal` and `Establish` back; no other step moves one
  (`QuietStep`), in particular not a lapsed claim.
- `CodesAreSentOnce`: `CodeInv` says that a request about to exchange a code is the
  only one that consumed its flow.
- `ExpenseProofs!LifecycleImplemented`: the refinement. `Rows` relates
  the columns of a receipt: one with an item is registered or past it, a held
  one is not leaving. From it every action is a step of the abstract receipt or
  none.
- `HoldKeepsContent`, `PurgeLeavesNothing`: `Work` (a worker handles images of
  its own receipt) and `Content`, which says where the bytes of a row are at
  every step of a worker and of a purge. A purge that has listed a receipt's
  objects cannot finish before it recorded them, and what a worker puts after
  the listing is recorded only if the receipt is still being read. Copies no row
  names are followed from the put to the transaction that names them or the
  deletion; what is left of a purged receipt's are those (`unnamed`, `stray`).
- `ReadOnlyOnce`, `OnlyOwnJobEndsReading`: `Readings` says that a job that
  committed is not the current one of a receipt that is being read.
- `ReadyStaysComplete` (of the closing, as the next three): `ReadyIsComplete` is inductive with
  the types of what it reads: every edit of a member goes through
  `PersonalMutation`, which takes the mark back.
- `ClosedStaysReconciled`: a fresh reconciliation has no drift, and the closing
  asks for it and for a ready roster. `FollowsLifecycle`: the receipts of the
  closing behave as `ReceiptLifecycle`, so the two modules compose.
- `ShortageStaysAgreed`: the sum of a record's transfers is a recursive function
  over the amounts, so the proof first shows that a transfer raises it by its
  amount and a reversal lowers it (`TotalIsSum` and what follows). Those are
  inductions over the amounts, made without an induction theorem: a set of
  counterexamples has a least element (`LeastElement`), and the step refutes it.
  Of a record of 0 the invariant says that it has no transfer and stays open.
- `MarketProofs!MoneyIsAccountedFor`: `PageOK` relates the row of a page and
  the service: an order placed means that the row left `reserved` under a kept
  credit, a page requested or unfinished keeps it. `HandOK` does the same for
  what an execution has in hand: an owner about to send keeps the credit, and an
  answer agrees with the order. `Funds` counts the held credits.
- `PagesAreBoughtOnce`: `Chains` says that an attempt of a page is followed by
  another only after its credit came back.
- `UsageIsConsistent`: `Snapshot`. A refresh of the usage begins when every row is
  settled (`Quiet`), and from then on, while its lease holds, the service works on
  no order and nobody can give it one: a worker that is about to send has lost the
  lease of its page (`Stopped`). So what the answer counted (`told`) is what the
  ledger counts when the refresh ends.
- `CompleteSearchesAreWhole` (of `MarketSearch`, as the next two): pages are stored in
  order, each from a list at least as long as the one before (`RowOK`), so no item of
  the list at the start falls between two of them: what is newer than the end of page
  n is stored, or was on a page and could not be read (`RowCovers`, `Missed`). A reader
  without an unreadable entry has missed nothing so far (`ReaderOK`), and reads the
  last page or one that reaches the period's start before it says complete
  (`Covered`). All of it is arithmetic over page size and length, for any of both.
- `ConfirmedStatisticsAgree`, `ConfirmationIsOfTheRead`: without an overlap there is one
  unfinished job, so a search that can be viewed has no worker left to change it
  (`ShownOK`), and the statistics are over what is included (`StatisticsOK`).
- `ConfirmationIsOfTheSubmitted` (of `MarketIdentification`, as the next one): a page
  that has updated the product and whose version still fits has the product's input
  (`PageOfProduct`).
- `PicturesStayReadable`: `AnalystOK` says at every step of a worker where the picture in
  its hand is, and that the row names the source until the smaller one is there; no
  other worker is at it (`OneBusy`), and what the scan erases is not `available` any
  more (`ScanOK`).
- `ProviderProofs!TypeCorrect`, `EffectStaysRecorded`: `Rows` of keys; a
  completion needs the record in progress and is the effect. `EndedStands`.
- `GrantsAreKnown`: `Hands` says which tokens the requests hold, and no two the
  same, `Grants` that a replaced token that was swept is dead before the row
  names another. A token refused after the exchange (`refused`) is an exception of
  the property: the code releases the claim and never revokes it.
- `RecordingsAreStored`, `NothingIsLeftBehind`: `UploadInv` and `ImportInv`. A
  completion past its verification has the bytes unless a rival deleted them, and
  one about to delete them has no recording to harm, unless two raced
  (`BytesAreKept`); a session the scan has taken is past its day, so no completion
  is at work on it (`StaleIsQuiet`). An import's attempt has the one copy it is at
  work on, and none but the kept one and those gone astray when it is over
  (`CopyIsOne`).
- `WithdrawalsReachAll`: `QuietInv`. A worker's job is running, and an import under
  way has a job that goes on or was asked to stop (`ImportIsAttended`), so a retry
  brings none back; and every step but `Withdraw` announces or begins something
  only under a current grant, which a newest withdrawal excludes (`Stays`).
- `ImportsAreMadeOnce`: an action property, which
  needs `CopyIsOne`, by which a worker copies only for an import that has not
  succeeded.
- `TranscriptionProofs!OneTranscriptIsMade`, `StartsAreNotDoubled`,
  `CopiesStayKnown`: `IInv` is about each job (`JobInv`) and the one transcript
  (`OneMade`). `OthersKeep` shows once that a job is left alone by the steps of the
  others, so that each action is proved for the job that takes it. `RunningIsKnown`
  is the point: an operation that runs and was not given up is the one in the row,
  the one in the worker's hands, or the one the note `starting` stands for, which
  are one operation at a time, unless its job is cancelled. It holds only together with what a worker about
  to start has noted (`StartNoted`) and with what a finished job has left
  (`MadeIsOver`); `CopyIsKnown` says the same of the copies.
- `ApprovalProofs!ApprovedByAnother`, `BatchesTakeEffectWhole`,
  `PublishedStays`, `AnswersCiteApproved`: `Rows` (what a version, an imported
  version and an item look like in every status), `Frozen` (a row of a batch
  under decision was taken as it is, and who decided is not who submitted),
  `Cited`, and `Final`, which says what every step keeps of published versions.
- `OnePreparationInForce`: `Prepared` of the texts, an invariant about the one
  preparation in force, and about what a job that is about to commit has read:
  erasing an extraction supersedes what was made of it, and a commit looks at the
  status as well as at the version.
- `ReviewsAreOfOneText`: `OfOneText` says of a review that is not made yet that
  every part in its worker's hands is of the version the worker read, and is
  written down as such. `DecisionsStand` is an action property: an answer of the
  model finds the person's decision in the row, and no transcript is entered by
  hand where one with a decision is (`Assessed`).

Some properties are stated in the modules and proved, but no run of the list has
them any more: the types, `LedgerAgrees`, `SuccessIsOfLastAttempt` and
`TerminalStays` of the queue, `EraserHoldsFence`, `DeletedIsErased` and
`SucceededLeavesNoFence` of the deletion, `CodeSentOnce` and `OneHeir` of
sessions, `OnlyItsJobEndsReading`, `EndedConversationStands`, `PublishedIsFinal`,
`DecisionStands`. TLC agreed with each before it was proved.

Every property of every run is a theorem, but one. `JobSettles` is liveness: it
rests on the fairness of `ClaimJob` and of the dispatcher, hence on when they are
ENABLED, which the provers do not reach; TLC checks it in `jobs_settle`. The theorems
hold under the assumptions named in the components' modules: sets that do not
share elements, finite where something is counted, and limits that are natural
numbers. None says anything of the configurations of section 14, which are
refuted.

`CHECK_DEADLOCK FALSE` stands where the system may stop: its jobs are over, its
requests answered, or a bound is reached. Only `jobs_settle` states fairness; the other
runs are about safety.

## 14. Disagreements

Each of these configurations is refuted by TLC when run by hand
(`tlc -config X.cfg M`); they are kept beside the runs because the traces are
worth reading. Paths are under `src/`.

| configuration | module | what the text says, and what the code does |
| --- | --- | --- |
| `jobs_stalled` | `MCJobQueue` | "guarded by the prepared status" (`apps/worker/src/processor.ts:343`); the JOB_CANCELLED branch (line 542) has no guard, so a worker whose lease lapsed overwrites the result of the attempt that replaced it |
| `jobs_contended` | `MCJobQueue` | the next dispatch resumes a retry (`docs/migration/2026-08-21-fixed-stage-release-and-audio-regression-runbook.md:61`); a delivery that meets a row lock and then reads `retry_wait` is acknowledged, although it was the job's last wake-up |
| `hold_during_scan` | `MCVisitDeletion` | "closes the gap between a database hold check and the external deletion" (migration `0022:1`); a hold does not look at a live `retention` fence, and the scan erases an object of the held visit |
| `hold_release` | `MCVisitDeletion` | "holds deletion, resumes after release" (`apps/api/src/app.integration.test.ts:181`); a scan clears the fence of a queued deletion, a hold sets the request aside, and its release cannot insert the job a second time |
| `hold_stale_fence` | `MCVisitDeletion` | the same text; a scan's fence is left behind and the release of a hold with a held request is refused |
| `logout_overtaken` | `MCWebSessions` | "logout clears cookie and blocks replay" (`apps/web/src/server/session-gateway.test.ts:127`); a logout whose DELETE meets the transaction of a renewal removes nothing and is answered all the same |
| `transcript_revived` | `MCConfirmedTexts` | a transcript deleted by retention is answered 410 (the same integration test, line 180); an edit of it brings it back |
| `content_current` | `MCContentApproval` | "Latest working version, including drafts." (migration `0021:58`); publishing an older version moves `current_version_id` back |
| `content_stale_batch` | `MCContentApproval` | the approver of a batch whose versions changed is told to make it again (`apps/api/src/service.ts:4744`), but the error rolls `invalidated` back and the index refuses another batch |
| `drive_overlap` | `MCProviderWrites` | "revokes the previous provider credential before activating its replacement" (`apps/api/src/drive-reconnect.integration.test.ts:66`); of two connections made at once neither sees the other |
| `drive_disconnect` | `MCProviderWrites` | a disconnection completes its key with a body of null (`service.ts:2189`), which the CHECK `idempotency_completion_shape` (migration `0019:7`) refuses: the token is revoked at Google and the row stays active |
| `roleplay_overlap` | `MCProviderWrites` | a turn is made from the conversation; it is read before the key is claimed and the session locked, so two turns at once are made from the same |

## 15. Not modelled, and what is left

- The **audit chain**: two events may name the same predecessor under
  concurrency (a hazard); no text says what the chain must satisfy then, so
  there is no property to state.
- **Purchase results**: single transactions, and algorithms over decimals whose data
  is the point; abstracted, nothing is left.
- **Manual images, training videos, learning, help**: uploads in the shape of
  `Recordings`, and single transactions.
- **Operations scan, providers, web screens, migrations, bootstrap,
  deployment**: no state machine of their own, or not this repository's code.
- In modelled components: the queue giving a task up after an hour; the lock
  order of a request and a deletion over one visit; the share of the retention
  scan that manual images, videos and the audit purge have; the lists under
  "Left out" above.

Next would be an abstract job that `JobQueue` implements and that the modules with
jobs of their own use.
