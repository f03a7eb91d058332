---------------------------- MODULE MarketSearch ----------------------------
(***************************************************************************)
(* One search of closed auctions: a job reads the source's list of ended   *)
(* items page by page, newest first, and keeps every page it stored, so    *)
(* that a later attempt goes on where an earlier one stopped.  It then     *)
(* evaluates what is stored; members exclude and include candidates by     *)
(* hand, change the rule for outliers, and confirm the price, which takes  *)
(* a snapshot.  A search that was stopped gets a new job, perhaps while    *)
(* the old one waits for its own retry.                                    *)
(*                                                                         *)
(* The list is the source's: it is in order of ending and grows at its     *)
(* head while pages are read, which shifts the pages.  Items are numbered  *)
(* by their ending, so a page is an interval of numbers that depends on    *)
(* how long the list was when it was fetched.  An action is one            *)
(* transaction, one request to the source, or a read whose result is used  *)
(* later.  A job has one live worker (OneRunner of JobQueue).              *)
(***************************************************************************)
EXTENDS Integers, FiniteSets

CONSTANTS
    FirstListed,    \* items in the list before the search
    LastItem,       \* the most the list grows to
    EndedAt,        \* item -> when it ended
    PeriodStart,    \* the search's period_start; it ends when it is created
    PageSize,       \* MARKET_PRICE_POLICY.pageSize
    MaxPages,       \* MARKET_PRICE_POLICY.maxPages
    Unreadable,     \* items whose entry the parser cannot read
    Mismatched,     \* items excluded for their title, condition or type
    Odd,            \* items whose price is far from the others'
    MinGroup,       \* eligible items that it takes to call one an outlier
    Sources,        \* sources asked: yahoo_scrape, aucfan_api
    MaxJobs,        \* jobs of the search, the first one and retries
    MaxMishaps,     \* refused or failed requests, crashes, failed transactions
    Judged,         \* items whose candidate members override
    Editors,        \* overrides open at the same time
    MaxLock         \* the highest lock_version

Items == 1..LastItem

ASSUME MarketSearchAssumption ==
    /\ {FirstListed, LastItem, PageSize, MaxPages, PeriodStart, MinGroup, MaxJobs,
        MaxMishaps, MaxLock} \subseteq Nat
    /\ FirstListed <= LastItem
    /\ PageSize > 0 /\ MaxPages > 0 /\ MaxLock > 0
    /\ EndedAt \in [Items -> Nat]
    /\ \A i, k \in Items: i <= k => EndedAt[i] <= EndedAt[k]
    /\ Unreadable \subseteq Items /\ Mismatched \subseteq Items /\ Odd \subseteq Items
    /\ Judged \subseteq Items
    /\ Sources \subseteq {"yahoo_scrape", "aucfan_api"}

SearchJobs == 1..MaxJobs
MarketSearchStatus == {"none", "queued", "planning", "fetching", "ready", "partial",
                       "blocked", "failed", "cancelled", "confirmed"}
Coverage == {"pending", "complete", "partial", "blocked"}
\* failure_class: blocked may be retried by hand, held (a CAPTCHA, another
\* order, another format, the kill switch) may not.
FailureClass == {"none", "blocked", "held", "worker"}
SearchJobStatus == {"none", "queued", "running", "retry_wait", "succeeded", "failed", "cancelled"}
Decision == {"automatic", "include", "exclude"}
FetcherPc == {"idle", "plan", "look", "fetch", "store", "refused", "failing", "read",
              "write", "finish"}

VARIABLES
    listed,     \* items in the source's list
    found,      \* market_price_searches: status, coverage_status, failure_class,
                \* lock_version, source_provider, outlier_policy_json.enabled,
                \* items its stored statistics are over, the list's length when created
    pages,      \* window, page number -> the list's length when that page was fetched
    pageOf,     \* item -> source_page_number of its candidate; 0 without
    reasons,    \* candidates with an exclusion reason
    override,   \* item -> inclusion_override of its candidate
    included,   \* candidates that are included
    asked,      \* job -> jobs.status
    stop,       \* jobs with a cancel_requested_at
    fetcher,    \* job -> what its worker is doing
    edit,       \* editor -> an override that has not committed
    shown,      \* what a member read just before confirming
    snapshot,   \* the latest of market_price_results
    mishaps,    \* faults so far
    doubled,    \* history: two jobs of the search were unfinished at once
    met         \* history: two overrides were open at once

candidateVars == <<pageOf, reasons, override, included>>
memberVars == <<edit, shown, snapshot, met>>
jobVars == <<asked, stop, doubled>>
marketVars == <<listed, found, pages, candidateVars, jobVars, fetcher, memberVars, mishaps>>

Idle == [pc |-> "idle", window |-> 1, page |-> 1, before |-> 0, length |-> 0,
         incomplete |-> FALSE, whole |-> FALSE, view |-> {}, policy |-> FALSE,
         class |-> "none", retry |-> FALSE]
NoEdit == [item |-> 0, decision |-> "automatic", over |-> {}]
NotShown == [lock |-> 0, included |-> {}]
NoSnapshot == [taken |-> FALSE, over |-> {}, included |-> {}, read |-> {}]

MarketSearchTypeOK ==
    /\ listed \in FirstListed..LastItem
    /\ found \in [status: MarketSearchStatus, coverage: Coverage, class: FailureClass,
                  lock: 1..MaxLock, source: {"yahoo_scrape", "aucfan_api"},
                  policy: BOOLEAN, over: SUBSET Items, born: 0..LastItem]
    /\ DOMAIN pages \subseteq {1, 2} \X (1..MaxPages)
    /\ \A p \in DOMAIN pages: pages[p] \in 0..LastItem
    /\ pageOf \in [Items -> 0..MaxPages]
    /\ reasons \subseteq Items /\ included \subseteq Items
    /\ override \in [Items -> Decision]
    /\ asked \in [SearchJobs -> SearchJobStatus]
    /\ stop \subseteq SearchJobs
    /\ fetcher \in [SearchJobs ->
           [pc: FetcherPc, window: {1, 2}, page: 1..MaxPages, before: 0..MaxPages,
            length: 0..LastItem, incomplete: BOOLEAN, whole: BOOLEAN, view: SUBSET Items,
            policy: BOOLEAN, class: FailureClass, retry: BOOLEAN]]
    /\ edit \in [Editors -> [item: 0..LastItem, decision: Decision, over: SUBSET Items]]
    /\ shown \in [lock: 0..MaxLock, included: SUBSET Items]
    /\ snapshot \in [taken: BOOLEAN, over: SUBSET Items, included: SUBSET Items, read: SUBSET Items]
    /\ mishaps \in 0..MaxMishaps
    /\ doubled \in BOOLEAN /\ met \in BOOLEAN

MarketSearchInit ==
    /\ listed = FirstListed
    /\ found = [status |-> "none", coverage |-> "pending", class |-> "none", lock |-> 1,
                source |-> "yahoo_scrape", policy |-> TRUE, over |-> {}, born |-> 0]
    /\ pages = [p \in {} |-> 0]
    /\ pageOf = [i \in Items |-> 0]
    /\ reasons = {} /\ included = {}
    /\ override = [i \in Items |-> "automatic"]
    /\ asked = [j \in SearchJobs |-> "none"]
    /\ stop = {}
    /\ fetcher = [j \in SearchJobs |-> Idle]
    /\ edit = [e \in Editors |-> NoEdit]
    /\ shown = NotShown /\ snapshot = NoSnapshot
    /\ mishaps = 0
    /\ doubled = FALSE /\ met = FALSE

Mishap == mishaps < MaxMishaps /\ mishaps' = mishaps + 1

-----------------------------------------------------------------------------
(* Pages and candidates.                                                   *)

\* The n-th page of a list of that length.
PageItems(length, n) ==
    {i \in Items: length - n * PageSize < i /\ i <= length - (n - 1) * PageSize}

Parsed(length, n) == PageItems(length, n) \ Unreadable

\* sourceItemCount < 100, and the last page by totalResultsAvailable.
Short(length, n) == length < n * PageSize
LastPage(length, n) == length <= n * PageSize

\* oldestSeen <= period_start.
ReachesStart(length, n) == \E i \in Parsed(length, n): EndedAt[i] <= PeriodStart

\* The parser tolerates few unreadable entries, never only such.
Tolerable(length, n) == PageItems(length, n) # {} => Parsed(length, n) # {}

Stored == {i \in Items: pageOf[i] # 0}

\* evaluateMarketPriceCandidates: those it includes.
Eligible(view, born) ==
    {i \in view \ Mismatched: i <= born /\ EndedAt[i] >= PeriodStart}
Automatic(view, policy, born) ==
    LET eligible == Eligible(view, born) IN
    IF policy /\ Cardinality(eligible) >= MinGroup THEN eligible \ Odd ELSE eligible

Viewable == {"ready", "partial", "review_required"}

-----------------------------------------------------------------------------
(* The jobs of the search.                                                 *)

ListGrows ==
    /\ listed < LastItem
    /\ listed' = listed + 1
    /\ UNCHANGED <<found, pages, candidateVars, jobVars, fetcher, memberVars, mishaps>>

UnfinishedJob(j) == asked[j] \in {"queued", "running", "retry_wait"}

NewJob(j) ==
    /\ asked[j] = "none"
    /\ \A k \in SearchJobs: k < j => asked[k] # "none"
    /\ asked' = [asked EXCEPT ![j] = "queued"]
    /\ doubled' = (doubled \/ \E k \in SearchJobs: UnfinishedJob(k))
    /\ UNCHANGED stop

CreateSearch(source, j) ==
    /\ found.status = "none"
    /\ NewJob(j)
    /\ found' = [found EXCEPT !.status = "queued", !.source = source, !.born = listed]
    /\ UNCHANGED <<listed, pages, candidateVars, fetcher, memberVars, mishaps>>

RetrySearch(j) ==
    /\ found.status \in {"blocked", "failed"}
    /\ found.class # "held"
    /\ NewJob(j)
    /\ found' = [found EXCEPT !.status = "queued", !.coverage = "pending", !.class = "none"]
    /\ UNCHANGED <<listed, pages, candidateVars, fetcher, memberVars, mishaps>>

\* The job of the search is its latest.
Latest(j) == asked[j] # "none" /\ \A k \in SearchJobs: k > j => asked[k] = "none"

CancelSearch(j) ==
    /\ Latest(j)
    /\ found.status \notin {"ready", "partial", "confirmed", "cancelled"}
    /\ found' = [found EXCEPT !.status = IF @ = "queued" THEN "cancelled" ELSE @]
    /\ stop' = stop \cup {j}
    /\ asked' = [asked EXCEPT ![j] = IF @ = "queued" THEN "cancelled" ELSE @]
    /\ UNCHANGED <<listed, pages, candidateVars, doubled, fetcher, memberVars, mishaps>>

\* retryJob, by an administrator: the search is left as it is.
RestartJob(j) ==
    /\ asked[j] = "failed"
    /\ asked' = [asked EXCEPT ![j] = "queued"]
    /\ doubled' = (doubled \/ \E k \in SearchJobs: UnfinishedJob(k))
    /\ UNCHANGED <<listed, found, pages, candidateVars, stop, fetcher, memberVars, mishaps>>

-----------------------------------------------------------------------------
(* The worker.                                                             *)

\* claim_job, also of a job whose lease ran out.
Claimable(j) == UnfinishedJob(j) /\ fetcher[j].pc = "idle" /\ j \notin stop

\* The job is claimed and the search prepared; a finished search is left alone.
Prepare(j) ==
    /\ Claimable(j)
    /\ asked' = [asked EXCEPT ![j] = "running"]
    /\ IF found.status \in {"ready", "partial"}
       THEN /\ fetcher' = [fetcher EXCEPT ![j] = [Idle EXCEPT !.pc = "finish"]]
            /\ UNCHANGED found
       ELSE /\ fetcher' = [fetcher EXCEPT ![j] = [Idle EXCEPT !.pc = "plan", !.policy = found.policy]]
            /\ found' = [found EXCEPT !.status = "planning", !.class = "none"]
    /\ UNCHANGED <<listed, pages, candidateVars, stop, doubled, memberVars, mishaps>>

\* The plan is stored, whatever became of the search meanwhile.
Plan(j) ==
    /\ fetcher[j].pc = "plan"
    /\ fetcher' = [fetcher EXCEPT ![j].pc = "look"]
    /\ found' = [found EXCEPT !.status = "fetching"]
    /\ UNCHANGED <<listed, pages, candidateVars, jobVars, memberVars, mishaps>>

\* Yahoo has one window, the other source two.
Windows == IF found.source = "yahoo_scrape" THEN 1 ELSE 2

\* The next page of the window, the next window, or all that will be read.
NextWindow(f) ==
    IF f.window < Windows /\ f.before + f.page < MaxPages
    THEN [f EXCEPT !.pc = "look", !.window = @ + 1, !.before = f.before + f.page, !.page = 1]
    ELSE [f EXCEPT !.pc = "read"]
Onward(f) ==
    IF f.page < MaxPages /\ f.before + f.page < MaxPages
    THEN [f EXCEPT !.pc = "look", !.page = @ + 1]
    ELSE NextWindow(f)

\* The window was read to its end or to the period's start.
EndOfWindow(f) ==
    IF found.source = "yahoo_scrape"
    THEN [f EXCEPT !.pc = "read", !.whole = ~f.incomplete]
    ELSE NextWindow(f)

\* Mutant of WithFailures: each page overwrites what the ones before had noted.
WithLastFailures(f, length) ==
    [f EXCEPT !.incomplete = PageItems(length, f.page) \cap Unreadable # {}]

\* Entries of the page could not be read: the result will be partial.
WithFailures(f, length) ==
    [f EXCEPT !.incomplete = @ \/ PageItems(length, f.page) \cap Unreadable # {}]

\* A page that an earlier attempt stored is not fetched again.
Checkpoint(j) ==
    LET f == fetcher[j]
        p == <<f.window, f.page>> IN
    /\ f.pc = "look"
    /\ j \notin stop
    /\ p \in DOMAIN pages
    /\ fetcher' = [fetcher EXCEPT ![j] =
           IF \/ Short(pages[p], f.page)
              \/ (found.source = "yahoo_scrape" /\ ReachesStart(pages[p], f.page))
           THEN EndOfWindow(WithFailures(f, pages[p]))
           ELSE Onward(WithFailures(f, pages[p]))]
    /\ UNCHANGED <<listed, found, pages, candidateVars, jobVars, memberVars, mishaps>>

\* There is none: the page is to be fetched.
NoCheckpoint(j) ==
    /\ fetcher[j].pc = "look"
    /\ j \notin stop
    /\ <<fetcher[j].window, fetcher[j].page>> \notin DOMAIN pages
    /\ fetcher' = [fetcher EXCEPT ![j].pc = "fetch"]
    /\ UNCHANGED <<listed, found, pages, candidateVars, jobVars, memberVars, mishaps>>

\* The page arrives and can be read.
Fetch(j) ==
    LET f == fetcher[j] IN
    /\ f.pc = "fetch"
    /\ Tolerable(listed, f.page)
    /\ fetcher' = [fetcher EXCEPT ![j] = [WithFailures(f, listed) EXCEPT !.pc = "store", !.length = listed]]
    /\ UNCHANGED <<listed, found, pages, candidateVars, jobVars, memberVars, mishaps>>

\* It does not: the flag is off or the page has another form (held), the
\* source refuses it for now (retry) or for good.
Refused(f, class, retry) ==
    [f EXCEPT !.pc = "refused", !.class = class, !.retry = retry]

FetchRefused(j) ==
    LET f == fetcher[j] IN
    /\ f.pc = "fetch"
    /\ \/ Mishap
       \/ (~Tolerable(listed, f.page) /\ UNCHANGED mishaps)
    /\ \E class \in {"held", "blocked"}, retry \in BOOLEAN:
          /\ class = "held" => ~retry
          /\ ~Tolerable(listed, f.page) => ~retry
          /\ fetcher' = [fetcher EXCEPT ![j] = Refused(f, class, retry)]
    /\ UNCHANGED <<listed, found, pages, candidateVars, jobVars, memberVars>>

\* The page before has the same candidates, or ends with an older item than
\* this one begins with: the list has shifted too far.
Shifted(f) ==
    /\ found.source = "yahoo_scrape" /\ f.page > 1
    /\ LET prior == {i \in Items: pageOf[i] = f.page - 1}
           current == Parsed(f.length, f.page)
           p == <<1, f.page - 1>> IN
       \/ (prior # {} /\ prior = current)
       \/ /\ p \in DOMAIN pages
          /\ \E i \in Parsed(pages[p], f.page - 1), k \in current: EndedAt[i] < EndedAt[k]

\* The page's row and its candidates, in one transaction; what is there stays.
StorePage(j) ==
    LET f == fetcher[j]
        p == <<f.window, f.page>> IN
    /\ f.pc = "store"
    /\ ~Shifted(f)
    /\ pages' = [q \in DOMAIN pages \cup {p} |-> IF q \in DOMAIN pages THEN pages[q] ELSE f.length]
    /\ pageOf' = [i \in Items |->
           IF pageOf[i] = 0 /\ i \in Parsed(f.length, f.page) THEN f.page ELSE pageOf[i]]
    /\ fetcher' = [fetcher EXCEPT ![j] =
           IF \/ LastPage(f.length, f.page)
              \/ (found.source = "yahoo_scrape" /\ ReachesStart(f.length, f.page))
           THEN EndOfWindow(f) ELSE Onward(f)]
    /\ UNCHANGED <<listed, found, reasons, override, included, jobVars, memberVars, mishaps>>

StoreFails(j) ==
    LET f == fetcher[j] IN
    /\ f.pc = "store"
    /\ \/ Shifted(f) /\ fetcher' = [fetcher EXCEPT ![j] = Refused(f, "blocked", FALSE)] /\ UNCHANGED mishaps
       \/ /\ Mishap
          /\ \E retry \in BOOLEAN: fetcher' = [fetcher EXCEPT ![j] = Refused(f, "blocked", retry)]
    /\ UNCHANGED <<listed, found, pages, candidateVars, jobVars, memberVars>>

\* The search is blocked, before the job's own end is recorded.
Block(j) ==
    /\ fetcher[j].pc = "refused"
    /\ found' = [found EXCEPT !.status = "blocked", !.coverage = "blocked", !.class = fetcher[j].class]
    /\ fetcher' = [fetcher EXCEPT ![j].pc = "failing"]
    /\ UNCHANGED <<listed, pages, candidateVars, jobVars, memberVars, mishaps>>

\* What is stored is read, to be evaluated.
ReadStored(j) ==
    /\ fetcher[j].pc = "read"
    /\ fetcher' = [fetcher EXCEPT ![j].pc = "write", ![j].view = Stored]
    /\ UNCHANGED <<listed, found, pages, candidateVars, jobVars, memberVars, mishaps>>

\* No override has the candidates: with one, this transaction would wait for
\* it and it for this one, and one of the two is aborted.
NoneOpen == \A e \in Editors: edit[e] = NoEdit

\* The evaluation is written over every candidate that was read.
WriteEvaluation(j) ==
    LET f == fetcher[j]
        chosen == Automatic(f.view, f.policy, found.born) IN
    /\ f.pc = "write"
    /\ NoneOpen
    /\ included' = (included \ f.view) \cup chosen
    /\ reasons' = (reasons \ f.view) \cup (f.view \ chosen)
    /\ found' = [found EXCEPT !.status = IF f.whole THEN "ready" ELSE "partial",
                              !.coverage = IF f.whole THEN "complete" ELSE "partial",
                              !.over = chosen]
    /\ fetcher' = [fetcher EXCEPT ![j] = [Idle EXCEPT !.pc = "finish"]]
    /\ UNCHANGED <<listed, pages, pageOf, override, jobVars, memberVars, mishaps>>

\* Anything else that goes wrong on the way: the handler throws.
HandlerThrows(j) ==
    /\ fetcher[j].pc \in {"plan", "look", "refused", "read", "write"}
    /\ Mishap
    /\ \E retry \in BOOLEAN:
          fetcher' = [fetcher EXCEPT ![j] = [Idle EXCEPT !.pc = "failing", !.retry = retry]]
    /\ UNCHANGED <<listed, found, pages, candidateVars, jobVars, memberVars>>

EndJob(j, status) ==
    /\ asked' = [asked EXCEPT ![j] = status]
    /\ fetcher' = [fetcher EXCEPT ![j] = Idle]
    /\ UNCHANGED <<stop, doubled>>

JobSucceeds(j) ==
    /\ fetcher[j].pc = "finish"
    /\ j \notin stop
    /\ EndJob(j, "succeeded")
    /\ UNCHANGED <<listed, found, pages, candidateVars, memberVars, mishaps>>

\* assertNotCancelled before a page, or finish at the end.
JobIsCancelled(j) ==
    /\ fetcher[j].pc \in {"look", "finish"}
    /\ j \in stop
    /\ found' = [found EXCEPT !.status = IF @ \in {"ready", "partial", "confirmed"} THEN @ ELSE "cancelled"]
    /\ EndJob(j, "cancelled")
    /\ UNCHANGED <<listed, pages, candidateVars, memberVars, mishaps>>

\* Retried, unless the attempts are used up.
JobIsRetried(j) ==
    /\ fetcher[j].pc = "failing" /\ fetcher[j].retry
    /\ EndJob(j, "retry_wait")
    /\ UNCHANGED <<listed, found, pages, candidateVars, memberVars, mishaps>>

JobFails(j) ==
    /\ fetcher[j].pc = "failing"
    /\ EndJob(j, "failed")
    /\ found' = IF found.status \in {"ready", "partial", "blocked"} THEN found
                ELSE [found EXCEPT !.status = "failed",
                                   !.coverage = IF @ = "blocked" THEN @ ELSE "partial",
                                   !.class = IF @ = "none" THEN "worker" ELSE @]
    /\ UNCHANGED <<listed, pages, candidateVars, memberVars, mishaps>>

\* The process dies; the lease runs out and the job can be claimed again.
WorkerDies(j) ==
    /\ fetcher[j].pc # "idle"
    /\ Mishap
    /\ fetcher' = [fetcher EXCEPT ![j] = Idle]
    /\ UNCHANGED <<listed, found, pages, candidateVars, jobVars, memberVars>>

-----------------------------------------------------------------------------
(* Members.                                                                *)

With(item, decision) ==
    IF decision = "include" \/ (decision = "automatic" /\ item \notin reasons)
    THEN included \cup {item} ELSE included \ {item}

\* The candidate is updated, which locks it, and the statistics are read: of
\* its own change and of what others have committed.
BeginOverride(e, item, decision) ==
    /\ edit[e] = NoEdit
    /\ item \in Stored
    /\ \A d \in Editors: edit[d].item # item
    /\ edit' = [edit EXCEPT ![e] = [item |-> item, decision |-> decision, over |-> With(item, decision)]]
    /\ met' = (met \/ ~NoneOpen)
    /\ UNCHANGED <<listed, found, pages, candidateVars, jobVars, fetcher, shown, snapshot, mishaps>>

\* The statistics are stored and the transaction commits.
CommitOverride(e) ==
    /\ edit[e] # NoEdit
    /\ found.lock < MaxLock
    /\ override' = [override EXCEPT ![edit[e].item] = edit[e].decision]
    /\ included' = With(edit[e].item, edit[e].decision)
    /\ found' = [found EXCEPT !.over = edit[e].over, !.lock = @ + 1]
    /\ edit' = [edit EXCEPT ![e] = NoEdit]
    /\ UNCHANGED <<listed, pages, pageOf, reasons, jobVars, fetcher, shown, snapshot, met, mishaps>>

AbortOverride(e) ==
    /\ edit[e] # NoEdit
    /\ edit' = [edit EXCEPT ![e] = NoEdit]
    /\ UNCHANGED <<listed, found, pages, candidateVars, jobVars, fetcher, shown, snapshot, met, mishaps>>

\* Mutant of UpdatePolicy: the statistics are left as they were.
UpdatePolicyOnly(policy) ==
    LET chosen == Automatic(Stored, policy, found.born) IN
    /\ found.status \in Viewable
    /\ found.lock < MaxLock
    /\ NoneOpen
    /\ reasons' = Stored \ chosen
    /\ included' = {i \in Stored: \/ override[i] = "include"
                                  \/ override[i] = "automatic" /\ i \in chosen}
    /\ found' = [found EXCEPT !.policy = policy, !.lock = @ + 1]
    /\ UNCHANGED <<listed, pages, pageOf, override, jobVars, fetcher, memberVars, mishaps>>

\* The candidates are evaluated again, overrides kept, and counted.
UpdatePolicy(policy) ==
    LET chosen == Automatic(Stored, policy, found.born) IN
    /\ found.status \in Viewable
    /\ found.lock < MaxLock
    /\ NoneOpen
    /\ reasons' = Stored \ chosen
    /\ included' = {i \in Stored: \/ override[i] = "include"
                                  \/ override[i] = "automatic" /\ i \in chosen}
    /\ found' = [found EXCEPT !.policy = policy, !.over = included', !.lock = @ + 1]
    /\ UNCHANGED <<listed, pages, pageOf, override, jobVars, fetcher, memberVars, mishaps>>

\* The page asks for the search again right before it confirms.
ReadSearch ==
    /\ found.status \in Viewable
    /\ shown' = [lock |-> found.lock, included |-> included]
    /\ UNCHANGED <<listed, found, pages, candidateVars, jobVars, fetcher, edit, snapshot, met, mishaps>>

\* Mutant of Confirmable: the version is not compared.
ConfirmableAnyway == shown.lock # 0 /\ found.status \in Viewable

Confirmable == shown.lock = found.lock /\ found.status \in Viewable

\* The snapshot is of the stored statistics and the included candidates.
ConfirmSearch ==
    /\ Confirmable
    /\ found.lock < MaxLock
    /\ included # {}
    /\ snapshot' = [taken |-> TRUE, over |-> found.over, included |-> included, read |-> shown.included]
    /\ found' = [found EXCEPT !.status = "confirmed", !.lock = @ + 1]
    /\ shown' = NotShown
    /\ UNCHANGED <<listed, pages, candidateVars, jobVars, fetcher, edit, met, mishaps>>

-----------------------------------------------------------------------------
FetcherStep(j) ==
    \/ Prepare(j) \/ Plan(j)
    \/ Checkpoint(j) \/ NoCheckpoint(j) \/ Fetch(j) \/ FetchRefused(j)
    \/ StorePage(j) \/ StoreFails(j) \/ Block(j)
    \/ ReadStored(j) \/ WriteEvaluation(j) \/ HandlerThrows(j)
    \/ JobSucceeds(j) \/ JobIsCancelled(j) \/ JobIsRetried(j) \/ JobFails(j)
    \/ WorkerDies(j)

MemberStep ==
    \/ \E e \in Editors:
          \/ \E item \in Judged, decision \in Decision: BeginOverride(e, item, decision)
          \/ CommitOverride(e) \/ AbortOverride(e)
    \/ \E policy \in BOOLEAN: UpdatePolicy(policy)
    \/ ReadSearch \/ ConfirmSearch

MarketSearchNext ==
    \/ ListGrows
    \/ \E j \in SearchJobs:
          \/ \E source \in Sources: CreateSearch(source, j)
          \/ RetrySearch(j) \/ CancelSearch(j) \/ RestartJob(j)
          \/ FetcherStep(j)
    \/ MemberStep

MarketSearchSpec == MarketSearchInit /\ [][MarketSearchNext]_marketVars

-----------------------------------------------------------------------------
(* Properties.                                                             *)

\* A search whose coverage is said to be complete has every item that was in
\* the list when it was created and ended within its period, although pages
\* shift while they are read, attempts stop anywhere and later ones go on from
\* the pages that are there.  Only when two of its jobs overlap may an entry be
\* missing, one that could not be read.
CompleteIsWhole ==
    found.coverage = "complete" =>
        \A i \in Items: i <= found.born /\ EndedAt[i] > PeriodStart =>
            i \in Stored \/ (doubled /\ i \in Unreadable)

\* The statistics of a confirmed price are those of the candidates it names,
\* unless two overrides were open at once or two jobs of the search were.
SnapshotAgrees ==
    snapshot.taken /\ ~met /\ ~doubled => snapshot.over = snapshot.included

\* A price is confirmed of the candidates that the member's page last read,
\* unless two jobs of the search overlap: their evaluation leaves the version.
ConfirmedAsRead ==
    snapshot.taken /\ ~doubled => snapshot.read = snapshot.included
=============================================================================
