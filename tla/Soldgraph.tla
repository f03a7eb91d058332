------------------------------ MODULE Soldgraph -----------------------------
(***************************************************************************)
(* Price searches bought from Soldgraph, an external service that takes a  *)
(* credit for a page of results.  A page is reserved against the account's *)
(* budget, asked for by a worker that leases it, asked again until the     *)
(* service has settled it, and published; the account's usage is read from *)
(* the service now and then, and old content is purged.                    *)
(*                                                                         *)
(* An action is one transaction or one call of the service.  A search has  *)
(* one market and all searches share their plan.  The version of a         *)
(* checkpoint is left out: while its lease is alive nobody but the owner   *)
(* changes a page.  Search lock versions are left out too: a request is    *)
(* one that has read the latest version.                                   *)
(***************************************************************************)
EXTENDS Naturals, FiniteSets

CONSTANTS
    Searches,       \* rows of ebay_market_price_searches that may be created
    MaxPage,        \* page numbers; the code allows 10
    MaxTries,       \* attempts of a page, for finite models
    MaxRows,        \* pages created in all, for finite models
    MaxFaults,      \* ends of executions before their time, lapses of leases or
                    \* of the usage, and changes of mode, for finite models
    Workers,        \* executions of the worker's handler at a time
    Budget,         \* credit_budget of the account
    PendingLimit,   \* pending_limit of the account
    Nobody,         \* the owner of a page without lease
    Gone            \* the owner of leases left by an execution that ended

ASSUME SoldgraphAssumption ==
    /\ {MaxPage, MaxTries, PendingLimit} \subseteq Nat \ {0}
    /\ {MaxRows, MaxFaults, Budget} \subseteq Nat
    /\ Nobody \notin Workers /\ Gone \notin Workers /\ Nobody # Gone

Pages == Searches \X (1..MaxPage) \X (1..MaxTries)
PagesOf(s) == {p \in Pages: p[1] = s}
NoPage == <<>>

SearchStatus == {"none", "queued", "fetching", "ready", "blocked", "cancelled", "confirmed"}
RunStatus == {"queued", "pending", "complete", "failed", "blocked", "cancelled"}
PageState == {"none", "reserved", "dispatching", "pending", "complete", "failed", "unknown",
              "parse_failed", "cancelled", "blocked", "purged"}
Modes == {"enabled", "reconcile_only", "emergency_stop"}

VARIABLES
    mode,       \* execution_mode, but reconcile_only while flags or retention policy are withdrawn
    usage,      \* [lease, known, charged]: usage_lease_until, usage_checked_at, usage_accounted_charged
    told,       \* the charges included in the answer a refresh has in hand, if any
    counted,    \* history: the charges included in the answer recorded last
    status,     \* search -> status
    cancelled,  \* searches with cancel_requested_at
    purged,     \* searches with content_purged_at
    active,     \* searches with a job queued, running or waiting
    run,        \* search -> status of its run
    state,      \* page -> state; none without a row
    credit,     \* page -> credit_state; credits follow from it
    requested,  \* pages with a request_id
    result,     \* pages with a normalized_result_json
    published,  \* pages with a parser_version
    observed,   \* pages with observation rows
    owner,      \* page -> lease_owner
    live,       \* pages with lease_until ahead
    order,      \* page -> what the service has made of its operation key
    pc,         \* worker -> what its handler does next
    on,         \* worker -> its search
    at,         \* worker -> the page it advances
    seen,       \* worker -> the mode it was admitted with
    answer,     \* worker -> the answer in hand
    faults      \* faults so far, up to MaxFaults

accountVars == <<mode, usage, told, counted>>
searchVars == <<status, cancelled, purged, active, run>>
contentVars == <<result, published, observed>>
leaseVars == <<owner, live>>
workerVars == <<pc, on, at, seen, answer>>
pageVars == <<state, credit, requested, contentVars, leaseVars>>
vars == <<accountVars, searchVars, pageVars, order, workerVars, faults>>

WorkerPc == {"off", "next", "dispatch", "call", "save", "parse", "publish"}
Answers == {"none", "pending", "failed", "free", "charged", "error", "refused", "outage"}

TypeOK ==
    /\ mode \in Modes
    /\ usage \in [lease: BOOLEAN, known: BOOLEAN, charged: 0..Cardinality(Pages)]
    /\ told \subseteq 0..Cardinality(Pages)
    /\ counted \in 0..Cardinality(Pages)
    /\ status \in [Searches -> SearchStatus]
    /\ {cancelled, purged, active} \subseteq SUBSET Searches
    /\ run \in [Searches -> RunStatus]
    /\ state \in [Pages -> PageState]
    /\ credit \in [Pages -> {"reserved", "pending", "charged", "released", "unknown"}]
    /\ {requested, result, published, observed, live} \subseteq SUBSET Pages
    /\ owner \in [Pages -> Workers \cup {Nobody, Gone}]
    /\ order \in [Pages -> {"none", "working", "charged", "free", "failed"}]
    /\ pc \in [Workers -> WorkerPc]
    /\ on \in [Workers -> Searches \cup {Nobody}]
    /\ at \in [Workers -> Pages \cup {NoPage}]
    /\ seen \in [Workers -> Modes]
    /\ answer \in [Workers -> Answers]
    /\ faults \in 0..MaxFaults

Init ==
    /\ mode = "enabled"
    /\ usage = [lease |-> FALSE, known |-> TRUE, charged |-> 0]
    /\ told = {} /\ counted = 0
    /\ status = [s \in Searches |-> "none"]
    /\ cancelled = {} /\ purged = {} /\ active = {}
    /\ run = [s \in Searches |-> "queued"]
    /\ state = [p \in Pages |-> "none"]
    /\ credit = [p \in Pages |-> "reserved"]
    /\ requested = {} /\ result = {} /\ published = {} /\ observed = {}
    /\ owner = [p \in Pages |-> Nobody]
    /\ live = {}
    /\ order = [p \in Pages |-> "none"]
    /\ pc = [w \in Workers |-> "off"]
    /\ on = [w \in Workers |-> Nobody]
    /\ at = [w \in Workers |-> NoPage]
    /\ seen = [w \in Workers |-> "enabled"]
    /\ answer = [w \in Workers |-> "none"]
    /\ faults = 0

Rows == {p \in Pages: state[p] # "none"}
Settled(p) == credit[p] \in {"charged", "released"}
Charged == {p \in Rows: credit[p] = "charged"}
Held == {p \in Rows: credit[p] # "released"}
Paid == {p \in Pages: order[p] = "charged"}
Newest(p) == \A q \in Rows: q[1] = p[1] /\ q[2] = p[2] => q[3] <= p[3]

-----------------------------------------------------------------------------
(* The API.                                                                *)

\* assert_soldgraph_reservation, with the page to be added not yet counted.
Affordable ==
    /\ mode = "enabled"
    /\ ~usage.lease
    /\ usage.known
    /\ Cardinality(Held) < Budget

\* A row for page p of search s: paid by the budget, or copied (reusePage) from
\* a page that a search outside the model has published.
AddPage(p, s) ==
    /\ Cardinality(Rows) < MaxRows
    /\ \/ /\ Affordable
          /\ state' = [state EXCEPT ![p] = "reserved"]
          /\ run' = [run EXCEPT ![s] = "queued"]
          /\ status' = [status EXCEPT ![s] = "queued"]
          /\ active' = active \cup {s}
          /\ UNCHANGED <<credit, contentVars>>
       \/ /\ p[3] = 1
          /\ state' = [state EXCEPT ![p] = "complete"]
          /\ credit' = [credit EXCEPT ![p] = "released"]
          /\ result' = result \cup {p}
          /\ published' = published \cup {p}
          /\ observed' = observed \cup {p}
          /\ run' = [run EXCEPT ![s] = "complete"]
          /\ status' = [status EXCEPT ![s] = "ready"]
          /\ UNCHANGED active

\* create, or the new search of a repeat.
Create(s) ==
    /\ status[s] = "none"
    /\ AddPage(<<s, 1, 1>>, s)
    /\ UNCHANGED <<accountVars, cancelled, purged, requested, leaseVars, order, workerVars, faults>>

\* nextPage: a confirmed search may be continued.
NextPage(s, n) ==
    /\ status[s] \notin {"none", "cancelled", "blocked"}
    /\ s \notin purged
    /\ run[s] = "complete"
    /\ <<s, n - 1, 1>> \in Rows /\ <<s, n, 1>> \notin Rows
    /\ AddPage(<<s, n, 1>>, s)
    /\ UNCHANGED <<accountVars, cancelled, purged, requested, leaseVars, order, workerVars, faults>>

\* Mutant of Retryable: an answer that never came is taken for a free failure.
RetryableUnknown(p) ==
    /\ state[p] \in {"failed", "unknown"}
    /\ owner[p] = Nobody

\* retry: a second purchase only of what is known to have failed for free.
Retryable(p) ==
    /\ state[p] = "failed"
    /\ credit[p] = "released"
    /\ p \in requested
    /\ owner[p] = Nobody

Retry(p) ==
    LET s == p[1] IN
    /\ status[s] # "cancelled" /\ s \notin purged
    /\ p \in Rows /\ Newest(p) /\ p[3] < MaxTries
    /\ Retryable(p)
    /\ Cardinality(Rows) < MaxRows
    /\ Affordable
    /\ state' = [state EXCEPT ![<<s, p[2], p[3] + 1>>] = "reserved"]
    /\ run' = [run EXCEPT ![s] = "queued"]
    /\ status' = [status EXCEPT ![s] = "queued"]
    /\ active' = active \cup {s}
    /\ UNCHANGED <<accountVars, cancelled, purged, credit, requested, contentVars, leaseVars, order, workerVars, faults>>

\* resume: the same request is asked about again; lease_until is NULL only
\* after its owner has given the lease back.
Resume(p) ==
    LET s == p[1] IN
    /\ status[s] # "cancelled" /\ s \notin purged
    /\ p \in Rows /\ Newest(p)
    /\ p \in requested
    /\ state[p] \in {"blocked", "parse_failed", "unknown"}
    /\ owner[p] = Nobody
    /\ mode = "enabled"
    /\ state' = [state EXCEPT ![p] = IF p \in result /\ Settled(p) THEN "complete" ELSE "unknown"]
    /\ run' = [run EXCEPT ![s] = "queued"]
    /\ status' = [status EXCEPT ![s] = "fetching"]
    /\ active' = active \cup {s}
    /\ UNCHANGED <<accountVars, cancelled, purged, credit, requested, contentVars, leaseVars, order, workerVars, faults>>

\* Pages a cancellation releases: certainly not on their way to the service.
Unsent(p) ==
    /\ state[p] = "reserved"
    /\ credit[p] = "reserved"
    /\ p \notin requested
    /\ owner[p] = Nobody

Cancel(s) ==
    LET free == {p \in Rows \cap PagesOf(s): Unsent(p)} IN
    /\ status[s] \notin {"none", "confirmed", "cancelled"}
    /\ s \notin purged
    /\ state' = [p \in Pages |-> IF p \in free THEN "cancelled" ELSE state[p]]
    /\ credit' = [p \in Pages |-> IF p \in free THEN "released" ELSE credit[p]]
    /\ run' = [run EXCEPT ![s] = IF @ = "complete" THEN @ ELSE "cancelled"]
    /\ status' = [status EXCEPT ![s] = "cancelled"]
    /\ cancelled' = cancelled \cup {s}
    /\ UNCHANGED <<accountVars, purged, active, requested, contentVars, leaseVars, order, workerVars, faults>>

\* confirm: some candidate, and so some observation, is adopted.
Confirm(s) ==
    /\ status[s] \notin {"none", "cancelled", "confirmed"}
    /\ s \notin purged
    /\ observed \cap PagesOf(s) # {}
    /\ status' = [status EXCEPT ![s] = "confirmed"]
    /\ UNCHANGED <<accountVars, cancelled, purged, active, run, pageVars, order, workerVars, faults>>

-----------------------------------------------------------------------------
(* The worker: processEbayMarketPriceSearch.                               *)

Goto(w, next) == pc' = [pc EXCEPT ![w] = next]

Selectable(p) ==
    /\ p \in Rows
    /\ state[p] \notin {"failed", "cancelled", "blocked"}
    /\ state[p] # "complete" \/ p \notin published
    /\ p \notin live

\* The pages of the search that nobody works on are leased.
Start(w, s) ==
    LET mine == {p \in PagesOf(s): Selectable(p)} IN
    /\ pc[w] = "off"
    /\ s \in active
    /\ s \notin purged
    /\ owner' = [p \in Pages |-> IF p \in mine THEN w ELSE owner[p]]
    /\ live' = live \cup mine
    /\ on' = [on EXCEPT ![w] = s]
    /\ Goto(w, "next")
    /\ UNCHANGED <<accountVars, searchVars, state, credit, requested, contentVars, order, at, seen, answer, faults>>

\* The condition of load and save: the lease is the worker's and alive.
Leased(w) == owner[at[w]] = w /\ at[w] \in live

\* admit_soldgraph_call: the mode in which the page may be asked for.
AdmittedMode(p) ==
    IF mode = "enabled" /\ p[1] \in cancelled \cup purged
    THEN "reconcile_only" ELSE mode

InFlight == {q \in Rows: state[q] \in {"dispatching", "pending", "unknown"} /\ ~Settled(q)}

\* SOLDGRAPH_DISABLED: the mode does not allow the page to be asked for.
Disabled(p) ==
    \/ AdmittedMode(p) = "emergency_stop"
    \/ AdmittedMode(p) = "reconcile_only" /\ p \notin requested

Admissible(p) ==
    /\ ~usage.lease
    /\ ~Disabled(p)
    /\ state[p] = "reserved" => Cardinality(InFlight \ {p}) < PendingLimit

GiveBack(w, p) ==
    /\ owner' = [owner EXCEPT ![p] = IF @ = w THEN Nobody ELSE @]
    /\ live' = IF owner[p] = w THEN live \ {p} ELSE live
    /\ at' = [at EXCEPT ![w] = NoPage]

Final == {"complete", "failed", "cancelled", "blocked"}

\* What happens to the next page before anything is sent for it: of a cancelled
\* search it is released if never sent and left alone if settled; if settled
\* anyhow it is published; else it is admitted, or put off because permission
\* or room is lacking (a call may always meet the limit of a minute).
Take(w, p) ==
    LET dropped == p[1] \in cancelled /\ (state[p] = "reserved" \/ Settled(p)) IN
    /\ pc[w] = "next"
    /\ owner[p] = w /\ p \in live
    /\ \/ /\ dropped
          /\ state' = [state EXCEPT ![p] = IF @ = "reserved" THEN "cancelled" ELSE @]
          /\ credit' = [credit EXCEPT ![p] = IF Settled(p) THEN @ ELSE "released"]
          /\ GiveBack(w, p)
          /\ UNCHANGED <<run, pc, seen>>
       \/ /\ ~dropped /\ state[p] \in Final
          /\ Goto(w, "publish")
          /\ at' = [at EXCEPT ![w] = p]
          /\ UNCHANGED <<run, state, credit, leaseVars, seen>>
       \/ /\ ~dropped /\ state[p] \notin Final
          /\ Admissible(p)
          /\ seen' = [seen EXCEPT ![w] = AdmittedMode(p)]
          /\ Goto(w, IF p \in requested THEN "call" ELSE "dispatch")
          /\ at' = [at EXCEPT ![w] = p]
          /\ UNCHANGED <<run, state, credit, leaseVars>>
       \/ /\ ~dropped /\ state[p] \notin Final
          /\ run' = [run EXCEPT ![p[1]] =
                IF Disabled(p) /\ ~usage.lease THEN "blocked" ELSE "pending"]
          /\ GiveBack(w, p)
          /\ UNCHANGED <<state, credit, pc, seen>>
    /\ UNCHANGED <<accountVars, status, cancelled, purged, active, requested, contentVars, order, on, answer, faults>>

\* The key is saved as dispatching before the service may charge for it.
Dispatch(w) ==
    /\ pc[w] = "dispatch"
    /\ Leased(w)
    /\ state' = [state EXCEPT ![at[w]] = "dispatching"]
    /\ Goto(w, "call")
    /\ UNCHANGED <<accountVars, searchVars, credit, requested, contentVars, leaseVars, order, on, at, seen, answer, faults>>

\* The service knows the operation key: a second submission is not a second
\* order.  It may refuse a first one, and an answer may be lost.
Call(w, reply) ==
    LET p == at[w] IN
    /\ pc[w] = "call"
    /\ \/ order[p] = "none" /\ p \notin requested /\ reply \in {"refused", "outage", "error"} /\ UNCHANGED order
       \/ /\ order[p] = "none" /\ p \notin requested
          /\ reply \in {"pending", "error"}
          /\ order' = [order EXCEPT ![p] = "working"]
       \/ /\ order[p] # "none"
          /\ reply \in {"error", "refused", "outage", IF order[p] = "working" THEN "pending" ELSE order[p]}
          /\ UNCHANGED order
    /\ answer' = [answer EXCEPT ![w] = reply]
    /\ Goto(w, "save")
    /\ UNCHANGED <<accountVars, searchVars, pageVars, on, at, seen, faults>>

\* The service decides on an order it has accepted.
ServiceSettles(p) ==
    /\ order[p] = "working"
    /\ \E o \in {"charged", "free", "failed"}: order' = [order EXCEPT ![p] = o]
    /\ UNCHANGED <<accountVars, searchVars, pageVars, workerVars, faults>>

\* Mutant of SaveAnswer: an answer that never came gives the credit back.
SaveErrorAsFree(w) ==
    LET p == at[w] IN
    /\ credit' = [credit EXCEPT ![p] = IF answer[w] \in {"charged", "pending"} THEN answer[w] ELSE "released"]
    /\ state' = [state EXCEPT ![p] =
           CASE answer[w] \in {"pending", "failed"} -> answer[w]
             [] answer[w] \in {"free", "charged"} -> @
             [] answer[w] = "error" -> "unknown"
             [] OTHER -> "blocked"]
    /\ requested' = IF answer[w] \in {"error", "refused", "outage"} THEN requested ELSE requested \cup {p}

\* Credits before content; an error, even a refusal, settles nothing.
SaveAnswer(w) ==
    LET p == at[w] IN
    /\ credit' = [credit EXCEPT ![p] =
           CASE answer[w] = "charged" -> "charged"
             [] answer[w] \in {"free", "failed"} -> "released"
             [] answer[w] = "pending" -> "pending"
             [] OTHER -> IF Settled(p) THEN @ ELSE "unknown"]
    /\ state' = [state EXCEPT ![p] =
           CASE answer[w] \in {"pending", "failed"} -> answer[w]
             [] answer[w] \in {"free", "charged"} -> @
             [] answer[w] = "error" -> "unknown"
             [] OTHER -> "blocked"]
    /\ requested' = IF answer[w] \in {"error", "refused", "outage"} THEN requested ELSE requested \cup {p}

Save(w) ==
    /\ pc[w] = "save"
    /\ Leased(w)
    /\ Settled(at[w]) => answer[w] \notin {"pending", "failed"}
    /\ SaveAnswer(w)
    /\ Goto(w, IF answer[w] \in {"free", "charged"} /\ seen[w] = "enabled" THEN "parse" ELSE "publish")
    /\ UNCHANGED <<accountVars, searchVars, contentVars, leaseVars, order, on, at, seen, answer, faults>>

\* A result that cannot be read stays paid for.
Parse(w) ==
    LET p == at[w] IN
    /\ pc[w] = "parse"
    /\ Leased(w)
    /\ \/ state' = [state EXCEPT ![p] = "complete"] /\ result' = result \cup {p}
       \/ state' = [state EXCEPT ![p] = "parse_failed"] /\ UNCHANGED result
    /\ Goto(w, "publish")
    /\ UNCHANGED <<accountVars, searchVars, credit, requested, published, observed, leaseVars, order,
                   on, at, seen, answer, faults>>

\* An outage of the shared account stops new orders; then the page's outcome
\* is recorded in one transaction, unless the search has been cancelled.
Publish(w) ==
    LET p == at[w]
        s == p[1] IN
    /\ pc[w] = "publish"
    /\ Leased(w)
    /\ mode' = IF state[p] = "blocked" /\ answer[w] = "outage" /\ mode = "enabled"
               THEN "reconcile_only" ELSE mode
    /\ \/ /\ s \in cancelled
          /\ UNCHANGED <<state, run, published, observed>>
       \/ /\ s \notin cancelled /\ state[p] = "complete" /\ p \in result
          /\ IF mode = "enabled" /\ s \notin purged
             THEN /\ published' = published \cup {p}
                  /\ observed' = observed \cup {p}
                  /\ run' = [run EXCEPT ![s] = "complete"]
                  /\ UNCHANGED state
             ELSE /\ state' = [state EXCEPT ![p] = "blocked"]
                  /\ run' = [run EXCEPT ![s] = "blocked"]
                  /\ UNCHANGED <<published, observed>>
       \/ /\ s \notin cancelled /\ state[p] # "complete"
          /\ run' = [run EXCEPT ![s] = IF state[p] \in {"blocked", "failed"} THEN state[p] ELSE "pending"]
          /\ UNCHANGED <<state, published, observed>>
    /\ GiveBack(w, p)
    /\ seen' = [seen EXCEPT ![w] = "enabled"]
    /\ answer' = [answer EXCEPT ![w] = "none"]
    /\ Goto(w, "next")
    /\ UNCHANGED <<usage, told, counted, status, cancelled, purged, active, credit, requested, result,
                   order, on, faults>>

\* What is left when an execution ends, in whatever way.
Leave(w) ==
    /\ Goto(w, "off")
    /\ on' = [on EXCEPT ![w] = Nobody]
    /\ at' = [at EXCEPT ![w] = NoPage]
    /\ answer' = [answer EXCEPT ![w] = "none"]
    /\ seen' = [seen EXCEPT ![w] = "enabled"]

\* The search's status, and whether the job goes on; another job of the same
\* search, or an attempt too many, may decide otherwise.
End(w) ==
    LET s == on[w] IN
    /\ pc[w] = "next"
    /\ \A p \in Pages: owner[p] # w
    /\ status' = IF s \in cancelled \/ status[s] = "confirmed" THEN status
                 ELSE [status EXCEPT ![s] =
                    CASE run[s] = "complete" -> "ready"
                      [] run[s] \in {"queued", "pending"} -> "fetching"
                      [] OTHER -> "blocked"]
    /\ \E goesOn \in BOOLEAN: active' = IF goesOn THEN active ELSE active \ {s}
    /\ Leave(w)
    /\ UNCHANGED <<accountVars, cancelled, purged, run, pageVars, order, faults>>

\* A save refused, a lease lost, a crash: the page in hand may be given back,
\* the other pages wait for their leases to lapse.
Abort(w) ==
    /\ pc[w] # "off"
    /\ \E p \in {at[w], NoPage}:
         /\ owner' = [q \in Pages |-> IF owner[q] # w THEN owner[q] ELSE IF q = p THEN Nobody ELSE Gone]
         /\ live' = IF p # NoPage /\ owner[p] = w THEN live \ {p} ELSE live
    /\ active' \in {active, active \ {on[w]}}
    /\ Leave(w)
    /\ faults < MaxFaults /\ faults' = faults + 1
    /\ UNCHANGED <<accountVars, status, cancelled, purged, run, state, credit, requested, contentVars, order>>

LeaseLapses(p) ==
    /\ p \in live
    /\ live' = live \ {p}
    /\ faults < MaxFaults /\ faults' = faults + 1
    /\ UNCHANGED <<accountVars, searchVars, state, credit, requested, contentVars, owner, order, workerVars>>

-----------------------------------------------------------------------------
(* The account: usage, operators, retention.                               *)

\* Without usage_checked_at the other columns are not read.
NoUsage == [lease |-> FALSE, known |-> FALSE, charged |-> 0]

\* Mutant of Quiet: requests without an answer are not waited for.
QuietButUnknown == live = {}

\* begin and finish of a usage refresh: nothing sent is unsettled, nothing leased.
Quiet ==
    /\ live = {}
    /\ \A p \in Rows: Settled(p) \/ (state[p] = "reserved" /\ p \notin requested)

BeginUsage ==
    /\ mode # "emergency_stop"
    /\ ~usage.lease
    /\ Quiet
    /\ usage' = [usage EXCEPT !.lease = TRUE]
    /\ told' = {}
    /\ UNCHANGED <<mode, counted, searchVars, pageVars, order, workerVars, faults>>

\* The service answers with what is left, and so with what it has charged.
UsageAnswered ==
    /\ usage.lease
    /\ told = {}
    /\ told' = {Cardinality(Paid)}
    /\ UNCHANGED <<mode, usage, counted, searchVars, pageVars, order, workerVars, faults>>

FinishUsage ==
    /\ usage.lease
    /\ mode # "emergency_stop"
    /\ Quiet
    /\ counted' \in told
    /\ usage' = [lease |-> FALSE, known |-> TRUE, charged |-> Cardinality(Charged)]
    /\ told' = {}
    /\ UNCHANGED <<mode, searchVars, pageVars, order, workerVars, faults>>

FailUsage ==
    /\ usage.lease
    /\ usage' = NoUsage
    /\ told' = {} /\ counted' = 0
    /\ mode' = IF mode = "enabled" THEN "reconcile_only" ELSE mode
    /\ UNCHANGED <<searchVars, pageVars, order, workerVars, faults>>

\* The lease of a refresh that died lapses, and the snapshot before it counts
\* again; or a snapshot grows old.
UsageLapses ==
    /\ \/ /\ usage.lease
          /\ usage' = [usage EXCEPT !.lease = FALSE]
          /\ told' = {}
          /\ UNCHANGED counted
       \/ /\ usage.known
          /\ usage' = [usage EXCEPT !.known = FALSE, !.charged = 0]
          /\ counted' = 0
          /\ UNCHANGED told
    /\ faults < MaxFaults /\ faults' = faults + 1
    /\ UNCHANGED <<mode, searchVars, pageVars, order, workerVars>>

SetMode(m) ==
    /\ m # mode
    /\ mode' = m
    /\ faults < MaxFaults /\ faults' = faults + 1
    /\ UNCHANGED <<usage, told, counted, searchVars, pageVars, order, workerVars>>

Purgeable(s) ==
    /\ status[s] \in {"ready", "blocked", "cancelled", "confirmed"}
    /\ s \notin active
    /\ live \cap PagesOf(s) = {}

\* Content goes, the ledger stays.
Purge(s) ==
    /\ s \notin purged
    /\ Purgeable(s)
    /\ result' = result \ PagesOf(s)
    /\ observed' = observed \ PagesOf(s)
    /\ state' = [p \in Pages |-> IF p \in Rows \cap PagesOf(s) /\ Settled(p) THEN "purged" ELSE state[p]]
    /\ purged' = purged \cup {s}
    /\ UNCHANGED <<accountVars, status, cancelled, active, run, credit, requested, published, leaseVars,
                   order, workerVars, faults>>

-----------------------------------------------------------------------------
SearchStep(s) ==
    \/ Create(s) \/ Cancel(s) \/ Confirm(s) \/ Purge(s)
    \/ \E n \in 2..MaxPage: NextPage(s, n)

PageStep(p) == Retry(p) \/ Resume(p) \/ ServiceSettles(p) \/ LeaseLapses(p)

WorkerStep(w) ==
    \/ \E s \in Searches: Start(w, s)
    \/ \E p \in Pages: Take(w, p)
    \/ Dispatch(w) \/ Save(w) \/ Parse(w) \/ Publish(w) \/ End(w) \/ Abort(w)
    \/ \E reply \in Answers \ {"none"}: Call(w, reply)

AccountStep ==
    \/ BeginUsage \/ UsageAnswered \/ FinishUsage \/ FailUsage \/ UsageLapses
    \/ \E m \in Modes: SetMode(m)

Next ==
    \/ \E s \in Searches: SearchStep(s)
    \/ \E p \in Pages: PageStep(p)
    \/ \E w \in Workers: WorkerStep(w)
    \/ AccountStep

Spec == Init /\ [][Next]_vars

-----------------------------------------------------------------------------
(* Properties                                                              *)

\* Money: a credit the service has taken is held by the ledger, whoever died,
\* lost an answer or cancelled meanwhile, so the service never takes more
\* than the budget.
PaidIsHeld == Paid \subseteq Held /\ Cardinality(Held) <= Budget

\* The allowance read from the service and the charges set off against it
\* speak of the same requests.
SnapshotCounts == usage.known => usage.charged = counted

\* A page of results is bought once: however often it is asked for again or
\* retried, no two of its attempts are charged.
BoughtOnce ==
    \A p, q \in Paid: p[1] = q[1] /\ p[2] = q[2] => p = q

=============================================================================
