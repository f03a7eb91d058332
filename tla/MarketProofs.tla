---------------------------- MODULE MarketProofs ----------------------------
(***************************************************************************)
(* What the three parts of market prices keep for every value of their     *)
(* constants: searches of eBay by the Soldgraph service, searches of       *)
(* closed auctions, and the identification of the product to search for.   *)
(***************************************************************************)
EXTENDS Soldgraph, MarketSearch, MarketIdentification, FiniteSetTheorems, TLAPS

-----------------------------------------------------------------------------
(* Soldgraph, for any searches, pages, attempts, workers, budget and faults.*)

USE SoldgraphAssumption DEF SoldgraphAssumption

(***************************************************************************)
(* A page.  An order is placed for a row that has left reserved, under a   *)
(* credit that was not given back; what is neither finished nor requested  *)
(* keeps its credit; a purged search has no lease.                         *)
(***************************************************************************)
Unfinished == {"reserved", "dispatching", "pending", "unknown", "parse_failed"}

PageOK(p) ==
    /\ state[p] = "none" => credit[p] = "reserved" /\ order[p] = "none" /\ owner[p] = Nobody
    /\ order[p] # "none" => state[p] # "reserved"
    /\ order[p] \in {"working", "charged"} => credit[p] # "released"
    /\ p \in requested => order[p] # "none"
    /\ state[p] \in Unfinished /\ p \notin requested => credit[p] # "released"
    /\ state[p] = "purged" => p[1] \in purged
    /\ p[1] \in purged => p \notin live

(***************************************************************************)
(* A worker.  While it owns a page it is about to send, or once it has     *)
(* sent it, the credit is not given back without an answer; the answer in  *)
(* hand is what the service has made of the order.                         *)
(***************************************************************************)
HandOK(w) ==
    /\ pc[w] \notin {"off", "next"} => at[w] \in Pages /\ state[at[w]] # "none"
    /\ pc[w] = "dispatch" /\ owner[at[w]] = w => credit[at[w]] # "released"
    /\ pc[w] \in {"call", "save"} =>
           /\ state[at[w]] # "reserved"
           /\ at[w] \notin requested => credit[at[w]] # "released"
    /\ pc[w] = "save" =>
           \/ answer[w] \in {"error", "refused", "outage"}
           \/ answer[w] = "pending" /\ order[at[w]] # "none"
           \/ answer[w] \in {"charged", "free", "failed"} /\ order[at[w]] = answer[w]
    /\ pc[w] = "parse" => at[w] \in requested

(***************************************************************************)
(* The attempts of a page.  One was followed by another only when its      *)
(* credit had come back.                                                   *)
(***************************************************************************)
SamePage(p, q) == p[1] = q[1] /\ p[2] = q[2]
Empty(s) == \A p \in Pages: p[1] = s => state[p] = "none"

Chains ==
    /\ \A s \in Searches: status[s] = "none" => Empty(s)
    /\ \A p \in Pages: state[p] # "none" => state[<<p[1], p[2], 1>>] # "none"
    /\ \A p, q \in Pages:
          /\ state[p] # "none" /\ state[q] # "none"
          /\ SamePage(p, q) /\ p[3] < q[3]
          => credit[p] = "released" /\ p \in requested

Funds == IsFiniteSet(Held) /\ Cardinality(Held) <= Budget

Types ==
    /\ status \in [Searches -> SearchStatus]
    /\ state \in [Pages -> PageState]
    /\ credit \in [Pages -> {"reserved", "pending", "charged", "released", "unknown"}]
    /\ requested \subseteq Pages
    /\ owner \in [Pages -> Workers \cup {Nobody, Gone}]
    /\ order \in [Pages -> {"none", "working", "charged", "free", "failed"}]
    /\ pc \in [Workers -> WorkerPc]
    /\ at \in [Workers -> Pages \cup {NoPage}]
    /\ answer \in [Workers -> Answers]

AllPages == \A p \in Pages: PageOK(p)
AllHands == \A w \in Workers: HandOK(w)

IInv == Types /\ AllPages /\ AllHands /\ Chains /\ Funds

LEMMA StartsWell == Init => IInv
<1> SUFFICES ASSUME Init PROVE IInv
  OBVIOUS
<1>1. Types
  BY DEF Init, Types, SearchStatus, PageState, WorkerPc, Answers
<1>2. AllPages /\ AllHands
  BY DEF Init, AllPages, PageOK, AllHands, HandOK, Unfinished
<1>3. Chains
  BY DEF Init, Chains, Empty
<1>4. Held = {}
  BY DEF Init, Held, Rows
<1>5. Funds
  BY <1>4, FS_EmptySet DEF Funds
<1> QED
  BY <1>1, <1>2, <1>3, <1>5 DEF IInv

-----------------------------------------------------------------------------
\* Credits that come back, or stay.
LEMMA FundsKept ==
    ASSUME Funds, \A p \in Pages: p \in Held' => p \in Held PROVE Funds'
<1>1. Held' \subseteq Held
  BY DEF Held, Rows
<1>2. IsFiniteSet(Held') /\ Cardinality(Held') <= Cardinality(Held)
  BY <1>1, FS_Subset DEF Funds
<1>3. Cardinality(Held') \in Nat /\ Cardinality(Held) \in Nat
  BY <1>2, FS_CardinalityType DEF Funds
<1> QED
  BY <1>2, <1>3 DEF Funds

\* A row that the budget has room for.
LEMMA FundsTaken ==
    ASSUME Funds, Affordable, NEW p \in Pages, \A q \in Pages: q \in Held' => q \in Held \/ q = p
    PROVE Funds'
<1>1. Held' \subseteq Held \cup {p}
  BY DEF Held, Rows
<1>2. IsFiniteSet(Held \cup {p}) /\ Cardinality(Held \cup {p}) <= Cardinality(Held) + 1
  <2>1. Cardinality(Held) \in Nat
    BY FS_CardinalityType DEF Funds
  <2>2. IsFiniteSet(Held)
    BY DEF Funds
  <2>3. /\ IsFiniteSet(Held \cup {p})
        /\ Cardinality(Held \cup {p}) = IF p \in Held THEN Cardinality(Held) ELSE Cardinality(Held) + 1
    BY <2>2, FS_AddElement
  <2> QED
    BY <2>1, <2>3
<1>3. IsFiniteSet(Held') /\ Cardinality(Held') <= Cardinality(Held \cup {p})
  BY <1>1, <1>2, FS_Subset
<1>4. Cardinality(Held') \in Nat /\ Cardinality(Held) \in Nat /\ Cardinality(Held \cup {p}) \in Nat
  BY <1>2, <1>3, FS_CardinalityType DEF Funds
<1>5. Cardinality(Held) < Budget
  BY DEF Affordable
<1> QED
  BY <1>2, <1>3, <1>4, <1>5 DEF Funds

\* No row appears, and what was released after a request stays so.
Stable ==
    /\ \A p \in Pages: state'[p] = "none" <=> state[p] = "none"
    /\ \A p \in Pages: credit[p] = "released" => credit'[p] = "released"
    /\ requested \subseteq requested'
    /\ \A s \in Searches: status'[s] = "none" => status[s] = "none"

LEMMA PageIsTriple ==
    ASSUME NEW p \in Pages PROVE <<p[1], p[2], 1>> \in Pages /\ p[1] \in Searches /\ p = <<p[1], p[2], p[3]>>
  BY DEF Pages

LEMMA StableKeeps == ASSUME Chains, Funds, Stable PROVE Chains' /\ Funds'
<1>1. Chains'
  BY PageIsTriple DEF Chains, Stable, Empty, SamePage
<1>2. Funds'
  BY FundsKept DEF Stable, Held, Rows
<1> QED
  BY <1>1, <1>2

\* A row is added for a page that has none.
LEMMA ChainsExtended ==
    ASSUME Types, Chains, NEW p \in Pages, state[p] = "none",
           NEW st \in PageState \ {"none"}, state' = [state EXCEPT ![p] = st],
           \A q \in Pages: q # p => credit'[q] = credit[q],
           requested' = requested,
           \A s \in Searches: status'[s] = "none" => status[s] = "none" /\ s # p[1],
           p[3] = 1 \/ state[<<p[1], p[2], 1>>] # "none",
           \A q \in Pages: state[q] # "none" /\ SamePage(p, q) =>
               q[3] < p[3] /\ credit[q] = "released" /\ q \in requested
    PROVE Chains'
<1>1. \A q \in Pages: state'[q] = IF q = p THEN st ELSE state[q]
  BY DEF Types
<1>2. \A s \in Searches: status'[s] = "none" => Empty(s)'
  BY <1>1, PageIsTriple DEF Chains, Empty
<1>3. \A q \in Pages: state'[q] # "none" => state'[<<q[1], q[2], 1>>] # "none"
  <2>1. state'[<<p[1], p[2], 1>>] # "none"
    BY <1>1, PageIsTriple DEF Pages
  <2> QED
    BY <1>1, <2>1, PageIsTriple DEF Chains
<1>4. ASSUME NEW q \in Pages, NEW r \in Pages, state'[q] # "none", state'[r] # "none",
             SamePage(q, r), q[3] < r[3]
      PROVE credit'[q] = "released" /\ q \in requested'
  <2>1. q[3] \in Nat /\ r[3] \in Nat /\ p[3] \in Nat
    BY DEF Pages
  <2>2. q # r
    BY <1>4, <2>1
  <2>3. CASE q = p
    BY <1>1, <1>4, <2>1, <2>2, <2>3 DEF SamePage
  <2>4. CASE r = p
    BY <1>1, <1>4, <2>2, <2>4 DEF SamePage
  <2>5. CASE q # p /\ r # p
    BY <1>1, <1>4, <2>5 DEF Chains
  <2> QED
    BY <2>3, <2>4, <2>5
<1> QED
  BY <1>2, <1>3, <1>4 DEF Chains

-----------------------------------------------------------------------------
(***************************************************************************)
(* The API.                                                                *)
(***************************************************************************)
LEMMA AddPageKeeps ==
    ASSUME IInv, NEW s \in Searches, NEW p \in Pages, p[1] = s, p[3] = 1, state[p] = "none",
           AddPage(p, s),
           UNCHANGED <<accountVars, cancelled, purged, requested, leaseVars, order, workerVars, faults>>
    PROVE IInv'
<1> USE DEF IInv
<1>1. UNCHANGED <<purged, requested, owner, live, order, pc, at, answer>>
  BY DEF accountVars, leaseVars, workerVars
<1>2. PICK st \in {"reserved", "complete"}:
        /\ state' = [state EXCEPT ![p] = st]
        /\ \/ st = "reserved" /\ Affordable /\ UNCHANGED credit /\ status' = [status EXCEPT ![s] = "queued"]
           \/ /\ st = "complete" /\ credit' = [credit EXCEPT ![p] = "released"]
              /\ status' = [status EXCEPT ![s] = "ready"]
  BY DEF AddPage
<1>3. Types'
  BY <1>1, <1>2 DEF Types, SearchStatus, PageState
<1>4. \A q \in Pages: /\ state'[q] = IF q = p THEN st ELSE state[q]
                      /\ q # p => credit'[q] = credit[q]
  BY <1>2 DEF Types
<1>5. credit'[p] = IF st = "reserved" THEN credit[p] ELSE "released"
  BY <1>2 DEF Types
<1>6. PageOK(p)
  BY DEF AllPages
<1>7. AllPages'
  <2>1. PageOK(p)'
    BY <1>1, <1>4, <1>5, <1>6 DEF PageOK, Unfinished
  <2>2. ASSUME NEW q \in Pages, q # p PROVE PageOK(q)'
    BY <1>1, <1>4, <2>2 DEF AllPages, PageOK
  <2> QED
    BY <2>1, <2>2 DEF AllPages
<1>8. AllHands'
  BY <1>1, <1>4 DEF AllHands, HandOK
<1>9. Chains'
  <2>1. \A q \in Pages: ~(state[q] # "none" /\ SamePage(p, q))
    <3>1. ASSUME NEW q \in Pages, state[q] # "none", SamePage(p, q) PROVE FALSE
      <4>1. p = <<q[1], q[2], 1>>
        BY <3>1 DEF SamePage, Pages
      <4> QED
        BY <3>1, <4>1 DEF Chains
    <3> QED
      BY <3>1
  <2>2. \A r \in Searches: status'[r] = "none" => status[r] = "none" /\ r # p[1]
    BY <1>2 DEF Types
  <2>3. st \in PageState \ {"none"}
    BY DEF PageState
  <2> QED
    BY <1>1, <1>2, <1>4, <2>1, <2>2, <2>3, ChainsExtended
<1>10. Funds'
  <2>1. CASE st = "reserved"
    <3>1. \A q \in Pages: q \in Held' => q \in Held \/ q = p
      BY <1>4 DEF Held, Rows
    <3> QED
      BY <1>2, <2>1, <3>1, FundsTaken
  <2>2. CASE st = "complete"
    <3>1. \A q \in Pages: q \in Held' => q \in Held
      BY <1>4, <1>5, <2>2 DEF Held, Rows
    <3> QED
      BY <3>1, FundsKept
  <2> QED
    BY <2>1, <2>2
<1> QED
  BY <1>3, <1>7, <1>8, <1>9, <1>10

LEMMA CreateKeeps == ASSUME IInv, NEW s \in Searches, Create(s) PROVE IInv'
<1> DEFINE p == <<s, 1, 1>>
<1>1. p \in Pages
  BY DEF Pages
<1>2. state[p] = "none"
  BY <1>1 DEF Create, IInv, Chains, Empty
<1> QED
  BY <1>1, <1>2, AddPageKeeps DEF Create

LEMMA NextPageKeeps == ASSUME IInv, NEW s \in Searches, NEW n \in 2..MaxPage, NextPage(s, n) PROVE IInv'
<1> DEFINE p == <<s, n, 1>>
<1>1. p \in Pages
  BY DEF Pages
<1>2. state[p] = "none"
  BY <1>1 DEF NextPage, Rows
<1> QED
  BY <1>1, <1>2, AddPageKeeps DEF NextPage

LEMMA RetryKeeps == ASSUME IInv, NEW old \in Pages, Retry(old) PROVE IInv'
<1> USE DEF IInv
<1> DEFINE p == <<old[1], old[2], old[3] + 1>>
<1>1. /\ old[1] \notin purged /\ state[old] # "none" /\ Newest(old) /\ old[3] < MaxTries
      /\ credit[old] = "released" /\ old \in requested /\ Affordable
      /\ state' = [state EXCEPT ![p] = "reserved"]
      /\ status' = [status EXCEPT ![old[1]] = "queued"]
      /\ UNCHANGED <<purged, credit, requested, owner, live, order, pc, at, answer>>
  BY DEF Retry, Retryable, Rows, leaseVars, workerVars
<1>2. p \in Pages /\ p[1] = old[1] /\ p[2] = old[2] /\ p[3] = old[3] + 1 /\ old[3] \in Nat /\ old[1] \in Searches
  BY <1>1 DEF Pages
<1>3. \A q \in Pages: state[q] # "none" /\ SamePage(p, q) => q[3] <= old[3]
  BY <1>1, <1>2 DEF Newest, Rows, SamePage
<1> HIDE DEF p
<1>4. state[p] = "none"
  BY <1>2, <1>3 DEF SamePage
<1>5. \A q \in Pages: state'[q] = IF q = p THEN "reserved" ELSE state[q]
  BY <1>1 DEF Types
<1>6. Types'
  BY <1>1, <1>2 DEF Types, SearchStatus, PageState
<1>7. AllPages'
  <2>1. PageOK(p)'
    <3>1. PageOK(p)
      BY <1>2 DEF AllPages
    <3> QED
      BY <1>1, <1>2, <1>4, <1>5, <3>1 DEF PageOK, Unfinished
  <2>2. ASSUME NEW q \in Pages, q # p PROVE PageOK(q)'
    BY <1>1, <1>5, <2>2 DEF AllPages, PageOK
  <2> QED
    BY <2>1, <2>2 DEF AllPages
<1>8. AllHands'
  BY <1>1, <1>4, <1>5 DEF AllHands, HandOK
<1>9. Chains'
  <2>1. state[<<p[1], p[2], 1>>] # "none"
    BY <1>1, <1>2 DEF Chains
  <2>2. \A r \in Searches: status'[r] = "none" => status[r] = "none" /\ r # p[1]
    BY <1>1, <1>2 DEF Types
  <2>3. ASSUME NEW q \in Pages, state[q] # "none", SamePage(p, q)
        PROVE q[3] < p[3] /\ credit[q] = "released" /\ q \in requested
    <3>1. q[3] \in Nat /\ q[3] <= old[3]
      BY <1>3, <2>3 DEF Pages
    <3>2. CASE q[3] = old[3]
      <4>1. q = old
        BY <1>2, <2>3, <3>2, PageIsTriple DEF SamePage
      <4> QED
        BY <1>1, <1>2, <4>1
    <3>3. CASE q[3] < old[3]
      <4>1. SamePage(q, old)
        BY <1>2, <2>3 DEF SamePage
      <4> QED
        BY <1>1, <1>2, <2>3, <3>1, <3>3, <4>1 DEF Chains
    <3> QED
      BY <1>2, <3>1, <3>2, <3>3
  <2>4. "reserved" \in PageState \ {"none"}
    BY DEF PageState
  <2> QED
    BY <1>1, <1>2, <1>4, <2>1, <2>2, <2>3, <2>4, ChainsExtended
<1>10. Funds'
  <2>1. \A q \in Pages: q \in Held' => q \in Held \/ q = p
    BY <1>1, <1>5 DEF Held, Rows
  <2> QED
    BY <1>1, <1>2, <2>1, FundsTaken
<1> QED
  BY <1>6, <1>7, <1>8, <1>9, <1>10

\* Steps that add no row: what is left to show of each.
LEMMA StableStep == ASSUME IInv, Types', AllPages', AllHands', Stable PROVE IInv'
  BY StableKeeps DEF IInv

LEMMA ResumeKeeps == ASSUME IInv, NEW p \in Pages, Resume(p) PROVE IInv'
<1> USE DEF IInv
<1>1. PICK st \in {"complete", "unknown"}:
        /\ state' = [state EXCEPT ![p] = st]
        /\ p \in requested /\ p \in Rows /\ state[p] \in {"blocked", "parse_failed", "unknown"}
        /\ status' = [status EXCEPT ![p[1]] = "fetching"]
        /\ UNCHANGED <<purged, credit, requested, owner, live, order, pc, at, answer>>
  BY DEF Resume, leaseVars, workerVars
<1>2. \A q \in Pages: state'[q] = IF q = p THEN st ELSE state[q]
  BY <1>1 DEF Types
<1>3. Types'
  BY <1>1, PageIsTriple DEF Types, SearchStatus, PageState
<1>4. AllPages'
  BY <1>1, <1>2 DEF AllPages, PageOK
<1>5. AllHands'
  BY <1>1, <1>2 DEF AllHands, HandOK
<1>6. Stable
  BY <1>1, <1>2, PageIsTriple DEF Stable, Types, Rows
<1> QED
  BY <1>3, <1>4, <1>5, <1>6, StableStep

LEMMA CancelKeeps == ASSUME IInv, NEW s \in Searches, Cancel(s) PROVE IInv'
<1> USE DEF IInv
<1> DEFINE free == {p \in Rows \cap PagesOf(s): Unsent(p)}
<1>1. /\ state' = [p \in Pages |-> IF p \in free THEN "cancelled" ELSE state[p]]
      /\ credit' = [p \in Pages |-> IF p \in free THEN "released" ELSE credit[p]]
      /\ status' = [status EXCEPT ![s] = "cancelled"]
      /\ UNCHANGED <<purged, requested, owner, live, order, pc, at, answer>>
  BY DEF Cancel, leaseVars, workerVars
<1>2. \A p \in free: /\ p \in Pages /\ state[p] = "reserved" /\ p \notin requested
                     /\ owner[p] = Nobody /\ order[p] = "none"
  BY DEF Unsent, Rows, AllPages, PageOK
<1> HIDE DEF free
<1>3. \A p \in Pages: /\ state'[p] = IF p \in free THEN "cancelled" ELSE state[p]
                      /\ credit'[p] = IF p \in free THEN "released" ELSE credit[p]
  BY <1>1
<1>4. Types'
  BY <1>1 DEF Types, SearchStatus, PageState
<1>5. AllPages'
  BY <1>1, <1>2, <1>3 DEF AllPages, PageOK, Unfinished
<1>6. AllHands'
  <2>1. ASSUME NEW w \in Workers PROVE HandOK(w)'
    <3>1. HandOK(w)
      BY DEF AllHands
    <3> QED
      BY <1>1, <1>2, <1>3, <3>1 DEF HandOK
  <2> QED
    BY <2>1 DEF AllHands
<1>7. Stable
  BY <1>1, <1>2, <1>3 DEF Stable, Types
<1> QED
  BY <1>4, <1>5, <1>6, <1>7, StableStep

LEMMA ConfirmKeeps == ASSUME IInv, NEW s \in Searches, Confirm(s) PROVE IInv'
<1> USE DEF IInv
<1>1. /\ status' = [status EXCEPT ![s] = "confirmed"]
      /\ UNCHANGED <<purged, state, credit, requested, owner, live, order, pc, at, answer>>
  BY DEF Confirm, pageVars, leaseVars, workerVars
<1>2. Types' /\ Stable
  BY <1>1 DEF Types, Stable, SearchStatus
<1>3. AllPages' /\ AllHands'
  BY <1>1 DEF AllPages, PageOK, AllHands, HandOK
<1> QED
  BY <1>2, <1>3, StableStep

LEMMA PurgeKeeps == ASSUME IInv, NEW s \in Searches, Purge(s) PROVE IInv'
<1> USE DEF IInv
<1>1. /\ live \cap PagesOf(s) = {}
      /\ state' = [p \in Pages |-> IF p \in Rows \cap PagesOf(s) /\ Settled(p) THEN "purged" ELSE state[p]]
      /\ purged' = purged \cup {s}
      /\ UNCHANGED <<status, credit, requested, owner, live, order, pc, at, answer>>
  BY DEF Purge, Purgeable, leaseVars, workerVars
<1>2. \A p \in Pages: \/ state'[p] = state[p]
                      \/ state'[p] = "purged" /\ state[p] # "none" /\ p[1] = s
  BY <1>1 DEF Rows, PagesOf
<1>3. Types'
  BY <1>1 DEF Types, PageState
<1>4. AllPages'
  <2>1. ASSUME NEW p \in Pages PROVE PageOK(p)'
    <3>1. PageOK(p)
      BY DEF AllPages
    <3>2. p[1] = s => p \notin live
      BY <1>1 DEF PagesOf
    <3> QED
      BY <1>1, <1>2, <3>1, <3>2 DEF PageOK, Unfinished
  <2> QED
    BY <2>1 DEF AllPages
<1>5. AllHands'
  BY <1>1, <1>2 DEF AllHands, HandOK
<1>6. Stable
  BY <1>1, <1>2 DEF Stable
<1> QED
  BY <1>3, <1>4, <1>5, <1>6, StableStep

\* The service: an order that was accepted ends as it ends.
LEMMA ServiceSettlesKeeps == ASSUME IInv, NEW p \in Pages, ServiceSettles(p) PROVE IInv'
<1> USE DEF IInv
<1>1. PICK o \in {"charged", "free", "failed"}:
        /\ order[p] = "working" /\ order' = [order EXCEPT ![p] = o]
        /\ UNCHANGED <<status, purged, state, credit, requested, owner, live, pc, at, answer>>
  BY DEF ServiceSettles, searchVars, pageVars, leaseVars, workerVars
<1>2. \A q \in Pages: order'[q] = IF q = p THEN o ELSE order[q]
  BY <1>1 DEF Types
<1>3. Types' /\ Stable
  BY <1>1 DEF Types, Stable
<1>4. AllPages'
  BY <1>1, <1>2 DEF AllPages, PageOK
<1>5. AllHands'
  BY <1>1, <1>2 DEF AllHands, HandOK
<1> QED
  BY <1>3, <1>4, <1>5, StableStep

LEMMA LeaseLapsesKeeps == ASSUME IInv, NEW p \in Pages, LeaseLapses(p) PROVE IInv'
<1> USE DEF IInv
<1>1. /\ live' = live \ {p}
      /\ UNCHANGED <<status, purged, state, credit, requested, owner, order, pc, at, answer>>
  BY DEF LeaseLapses, searchVars, workerVars
<1>2. Types' /\ Stable
  BY <1>1 DEF Types, Stable
<1>3. AllPages' /\ AllHands'
  BY <1>1 DEF AllPages, PageOK, AllHands, HandOK
<1> QED
  BY <1>2, <1>3, StableStep

\* Steps about the account, and steps that change nothing of a page.
LEMMA AsideKeeps ==
    ASSUME IInv, UNCHANGED <<status, purged, state, credit, requested, owner, live, order, pc, at, answer>>
    PROVE IInv'
<1>1. Types' /\ Stable
  BY DEF Types, Stable, IInv
<1>2. AllPages' /\ AllHands'
  BY DEF AllPages, PageOK, AllHands, HandOK, IInv
<1> QED
  BY <1>1, <1>2, StableStep

LEMMA AccountStepKeeps == ASSUME IInv, AccountStep PROVE IInv'
<1>1. UNCHANGED <<status, purged, state, credit, requested, owner, live, order, pc, at, answer>>
  BY DEF AccountStep, BeginUsage, UsageAnswered, FinishUsage, FailUsage, UsageLapses, SetMode,
         searchVars, pageVars, leaseVars, workerVars
<1> QED
  BY <1>1, AsideKeeps

-----------------------------------------------------------------------------
(***************************************************************************)
(* The worker.                                                             *)
(***************************************************************************)
LEMMA StartKeeps == ASSUME IInv, NEW w \in Workers, NEW s \in Searches, Start(w, s) PROVE IInv'
<1> USE DEF IInv
<1> DEFINE mine == {p \in PagesOf(s): Selectable(p)}
<1>1. /\ pc[w] = "off" /\ s \notin purged
      /\ owner' = [p \in Pages |-> IF p \in mine THEN w ELSE owner[p]]
      /\ live' = live \cup mine
      /\ pc' = [pc EXCEPT ![w] = "next"]
      /\ UNCHANGED <<status, purged, state, credit, requested, order, at, answer>>
  BY DEF Start, Goto, searchVars
<1>2. \A p \in mine: p \in Pages /\ state[p] # "none" /\ p[1] = s
  BY DEF Selectable, Rows, PagesOf
<1> HIDE DEF mine
<1>3. \A p \in Pages: owner'[p] = IF p \in mine THEN w ELSE owner[p]
  BY <1>1
<1>4. \A v \in Workers: pc'[v] = IF v = w THEN "next" ELSE pc[v]
  BY <1>1 DEF Types
<1>5. Types' /\ Stable
  BY <1>1 DEF Types, Stable, WorkerPc
<1>6. AllPages'
  <2>1. ASSUME NEW p \in Pages PROVE PageOK(p)'
    <3>1. PageOK(p)
      BY DEF AllPages
    <3> QED
      BY <1>1, <1>2, <1>3, <3>1 DEF PageOK
  <2> QED
    BY <2>1 DEF AllPages
<1>7. AllHands'
  <2>1. ASSUME NEW v \in Workers PROVE HandOK(v)'
    <3>1. HandOK(v)
      BY DEF AllHands
    <3>2. CASE v = w
      BY <1>4, <3>2 DEF HandOK
    <3>3. CASE v # w
      <4>1. pc'[v] = pc[v] /\ at'[v] = at[v] /\ answer'[v] = answer[v]
        BY <1>1, <1>4, <3>3
      <4>2. pc[v] = "dispatch" /\ owner'[at[v]] = v => owner[at[v]] = v
        BY <1>3, <3>1, <3>3 DEF HandOK
      <4> QED
        BY <1>1, <3>1, <4>1, <4>2 DEF HandOK
    <3> QED
      BY <3>2, <3>3
  <2> QED
    BY <2>1 DEF AllHands
<1> QED
  BY <1>5, <1>6, <1>7, StableStep

\* What another worker's step may do under a worker's hand.
Undisturbed(v) ==
    LET p == at[v] IN
    /\ pc'[v] = pc[v] /\ at'[v] = p /\ answer'[v] = answer[v]
    /\ p \in Pages =>
          /\ state[p] # "none" => state'[p] # "none" /\ (state'[p] = "reserved" => state[p] = "reserved")
          /\ owner'[p] = v => owner[p] = v /\ (credit'[p] = "released" => credit[p] = "released")
          /\ p \in requested => p \in requested'
          /\ credit'[p] = "released" => \/ credit[p] = "released" \/ p \in requested'
                                       \/ state[p] = "reserved"
          /\ order[p] \notin {"none", "working"} => order'[p] = order[p]
          /\ order[p] # "none" => order'[p] # "none"

LEMMA UndisturbedKeeps == ASSUME NEW v \in Workers, HandOK(v), Undisturbed(v) PROVE HandOK(v)'
  BY DEF HandOK, Undisturbed

LEMMA TakeKeeps == ASSUME IInv, NEW w \in Workers, NEW p \in Pages, Take(w, p) PROVE IInv'
<1> USE DEF IInv
<1> DEFINE dropped == p[1] \in cancelled /\ (state[p] = "reserved" \/ Settled(p))
<1>1. /\ pc[w] = "next" /\ owner[p] = w /\ p \in live /\ state[p] # "none" /\ PageOK(p)
      /\ state[p] # "purged"
  BY DEF Take, AllPages, PageOK
<1>2. UNCHANGED <<status, purged, requested, order, answer>>
  BY DEF Take
<1>3. CASE /\ dropped
           /\ state' = [state EXCEPT ![p] = IF @ = "reserved" THEN "cancelled" ELSE @]
           /\ credit' = [credit EXCEPT ![p] = IF Settled(p) THEN @ ELSE "released"]
           /\ GiveBack(w, p) /\ UNCHANGED pc
  <2>1. /\ owner' = [owner EXCEPT ![p] = Nobody] /\ live' = live \ {p} /\ at' = [at EXCEPT ![w] = NoPage]
    BY <1>1, <1>3 DEF GiveBack
  <2>2. /\ \A q \in Pages: state'[q] = IF q = p /\ state[p] = "reserved" THEN "cancelled" ELSE state[q]
        /\ \A q \in Pages: owner'[q] = IF q = p THEN Nobody ELSE owner[q]
        /\ \A q \in Pages: q # p => credit'[q] = credit[q]
        /\ credit'[p] \in {credit[p], "released"}
        /\ state[p] # "reserved" => credit'[p] = credit[p]
        /\ credit[p] = "released" => credit'[p] = "released"
    BY <1>3, <2>1 DEF Types, Settled
  <2>3. Types' /\ Stable
    BY <1>2, <1>3, <2>1, <2>2 DEF Types, Stable, PageState
  <2>4. AllPages'
    <3>1. PageOK(p)'
      BY <1>1, <1>2, <2>1, <2>2 DEF PageOK, Unfinished
    <3>2. ASSUME NEW q \in Pages, q # p PROVE PageOK(q)'
      BY <1>2, <2>1, <2>2, <3>2 DEF PageOK, AllPages
    <3> QED
      BY <3>1, <3>2 DEF AllPages
  <2>5. AllHands'
    <3>1. HandOK(w)'
      BY <1>1, <1>3 DEF HandOK
    <3>2. ASSUME NEW v \in Workers, v # w PROVE HandOK(v)'
      <4>1. at'[v] = at[v]
        BY <2>1, <3>2 DEF Types
      <4>2. Undisturbed(v)
        BY <1>1, <1>2, <1>3, <2>2, <3>2, <4>1 DEF Undisturbed
      <4> QED
        BY <4>2, UndisturbedKeeps DEF AllHands
    <3> QED
      BY <3>1, <3>2 DEF AllHands
  <2> QED
    BY <2>3, <2>4, <2>5, StableStep
<1>4. ASSUME NEW next \in {"publish", "call", "dispatch"}, pc' = [pc EXCEPT ![w] = next], at' = [at EXCEPT ![w] = p],
             UNCHANGED <<state, credit, owner, live>>,
             next = "call" => p \in requested,
             next = "dispatch" => state[p] \notin Final /\ p \notin requested
      PROVE IInv'
  <2>1. Types' /\ Stable
    BY <1>2, <1>4 DEF Types, Stable, WorkerPc
  <2>2. AllPages'
    BY <1>2, <1>4 DEF AllPages, PageOK
  <2>3. AllHands'
    <3>1. pc'[w] = next /\ at'[w] = p
      BY <1>4 DEF Types
    <3>2. next = "dispatch" => credit[p] # "released"
      <4>1. state[p] \in PageState
        BY DEF Types
      <4> QED
        BY <1>1, <1>4, <4>1 DEF PageOK, Unfinished, Final, PageState
    <3>3. HandOK(w)'
      BY <1>1, <1>2, <1>4, <3>1, <3>2 DEF HandOK, PageOK
    <3>4. ASSUME NEW v \in Workers, v # w PROVE HandOK(v)'
      <4>1. pc'[v] = pc[v] /\ at'[v] = at[v]
        BY <1>4, <3>4 DEF Types
      <4> QED
        BY <1>2, <1>4, <4>1 DEF HandOK, AllHands
    <3> QED
      BY <3>3, <3>4 DEF AllHands
  <2> QED
    BY <2>1, <2>2, <2>3, StableStep
<1>5. CASE GiveBack(w, p) /\ UNCHANGED <<state, credit, pc>>
  <2>1. /\ owner' = [owner EXCEPT ![p] = Nobody] /\ live' = live \ {p} /\ at' = [at EXCEPT ![w] = NoPage]
    BY <1>1, <1>5 DEF GiveBack
  <2>2. \A q \in Pages: owner'[q] = IF q = p THEN Nobody ELSE owner[q]
    BY <2>1 DEF Types
  <2>3. Types' /\ Stable
    BY <1>2, <1>5, <2>1 DEF Types, Stable
  <2>4. AllPages'
    BY <1>2, <1>5, <2>1, <2>2 DEF AllPages, PageOK
  <2>5. AllHands'
    <3>1. HandOK(w)'
      BY <1>1, <1>5 DEF HandOK
    <3>2. ASSUME NEW v \in Workers, v # w PROVE HandOK(v)'
      <4>1. at'[v] = at[v]
        BY <2>1, <3>2 DEF Types
      <4>2. Undisturbed(v)
        BY <1>1, <1>2, <1>5, <2>2, <3>2, <4>1 DEF Undisturbed
      <4> QED
        BY <4>2, UndisturbedKeeps DEF AllHands
    <3> QED
      BY <3>1, <3>2 DEF AllHands
  <2> QED
    BY <2>3, <2>4, <2>5, StableStep
<1>6. CASE /\ ~dropped /\ state[p] \in Final /\ Goto(w, "publish") /\ at' = [at EXCEPT ![w] = p]
           /\ UNCHANGED <<state, credit, leaseVars>>
  BY <1>4, <1>6 DEF Goto, leaseVars
<1>7. CASE /\ ~dropped /\ state[p] \notin Final
           /\ Goto(w, IF p \in requested THEN "call" ELSE "dispatch") /\ at' = [at EXCEPT ![w] = p]
           /\ UNCHANGED <<state, credit, leaseVars>>
  BY <1>4, <1>7 DEF Goto, leaseVars
<1> QED
  BY <1>3, <1>5, <1>6, <1>7 DEF Take

LEMMA DispatchKeeps == ASSUME IInv, NEW w \in Workers, Dispatch(w) PROVE IInv'
<1> USE DEF IInv
<1> DEFINE p == at[w]
<1>1. HandOK(w) /\ pc[w] = "dispatch" /\ owner[p] = w /\ p \in live /\ p \in Pages /\ state[p] # "none"
      /\ credit[p] # "released" /\ p[1] \notin purged
  <2>1. HandOK(w) /\ pc[w] = "dispatch" /\ owner[p] = w /\ p \in live
    BY DEF Dispatch, Leased, AllHands
  <2>2. p \in Pages /\ state[p] # "none" /\ credit[p] # "released"
    BY <2>1 DEF HandOK
  <2> QED
    BY <2>1, <2>2 DEF AllPages, PageOK
<1>2. /\ state' = [state EXCEPT ![p] = "dispatching"]
      /\ pc' = [pc EXCEPT ![w] = "call"]
      /\ UNCHANGED <<status, purged, credit, requested, owner, live, order, at, answer>>
  BY DEF Dispatch, Goto, searchVars, leaseVars
<1> HIDE DEF p
<1>3. /\ \A q \in Pages: state'[q] = IF q = p THEN "dispatching" ELSE state[q]
      /\ \A v \in Workers: pc'[v] = IF v = w THEN "call" ELSE pc[v]
  BY <1>2 DEF Types
<1>4. Types' /\ Stable
  BY <1>1, <1>2, <1>3 DEF Types, Stable, PageState, WorkerPc
<1>5. AllPages'
  BY <1>1, <1>2, <1>3 DEF AllPages, PageOK
<1>6. AllHands'
  <2>1. HandOK(w)'
    BY <1>1, <1>2, <1>3 DEF HandOK, p
  <2>2. ASSUME NEW v \in Workers, v # w PROVE HandOK(v)'
    <3>1. Undisturbed(v)
      BY <1>2, <1>3, <2>2 DEF Undisturbed
    <3> QED
      BY <3>1, UndisturbedKeeps DEF AllHands
  <2> QED
    BY <2>1, <2>2 DEF AllHands
<1> QED
  BY <1>4, <1>5, <1>6, StableStep

\* The answer is about this order; a first order is placed under a credit that
\* was not given back.
LEMMA CallKeeps ==
    ASSUME IInv, NEW w \in Workers, NEW reply \in Answers \ {"none"}, Call(w, reply) PROVE IInv'
<1> USE DEF IInv
<1> DEFINE p == at[w]
<1>1. /\ pc[w] = "call" /\ HandOK(w) /\ p \in Pages /\ state[p] \notin {"none", "reserved"}
      /\ p \notin requested => credit[p] # "released"
      /\ answer' = [answer EXCEPT ![w] = reply]
      /\ pc' = [pc EXCEPT ![w] = "save"]
      /\ UNCHANGED <<status, purged, state, credit, requested, owner, live, at>>
  BY DEF Call, Goto, AllHands, HandOK, searchVars, pageVars, leaseVars
<1>2. \/ reply \in {"refused", "outage", "error"} /\ UNCHANGED order
      \/ /\ order[p] = "none" /\ p \notin requested /\ reply \in {"pending", "error"}
         /\ order' = [order EXCEPT ![p] = "working"]
      \/ order[p] # "none" /\ UNCHANGED order
         /\ reply \in {"error", "refused", "outage", IF order[p] = "working" THEN "pending" ELSE order[p]}
  BY DEF Call
<1> HIDE DEF p
<1>3. /\ \A v \in Workers: pc'[v] = IF v = w THEN "save" ELSE pc[v]
      /\ \A v \in Workers: answer'[v] = IF v = w THEN reply ELSE answer[v]
      /\ order[p] \in {"none", "working", "charged", "free", "failed"}
  BY <1>1 DEF Types
<1>4. /\ \A q \in Pages: q # p => order'[q] = order[q]
      /\ order'[p] # order[p] => order[p] = "none" /\ order'[p] = "working" /\ p \notin requested
      /\ \/ reply \in {"error", "refused", "outage"}
         \/ reply = "pending" /\ order'[p] # "none"
         \/ reply \in {"charged", "free", "failed"} /\ order'[p] = reply
  BY <1>1, <1>2, <1>3 DEF Types
<1>5. Types' /\ Stable
  BY <1>1, <1>2 DEF Types, Stable, WorkerPc
<1>6. AllPages'
  <2>1. ASSUME NEW q \in Pages PROVE PageOK(q)'
    <3>1. PageOK(q)
      BY DEF AllPages
    <3> QED
      BY <1>1, <1>4, <3>1 DEF PageOK
  <2> QED
    BY <2>1 DEF AllPages
<1>7. AllHands'
  <2>1. HandOK(w)'
    BY <1>1, <1>3, <1>4 DEF HandOK, p
  <2>2. ASSUME NEW v \in Workers, v # w PROVE HandOK(v)'
    <3>1. Undisturbed(v)
      BY <1>1, <1>3, <1>4, <2>2 DEF Undisturbed
    <3> QED
      BY <3>1, UndisturbedKeeps DEF AllHands
  <2> QED
    BY <2>1, <2>2 DEF AllHands
<1> QED
  BY <1>5, <1>6, <1>7, StableStep

LEMMA SaveKeeps == ASSUME IInv, NEW w \in Workers, Save(w) PROVE IInv'
<1> USE DEF IInv
<1> DEFINE p == at[w]
           a == answer[w]
           next == IF a \in {"free", "charged"} /\ seen[w] = "enabled" THEN "parse" ELSE "publish"
<1>1. /\ pc[w] = "save" /\ HandOK(w) /\ owner[p] = w /\ p \in live
      /\ Settled(p) => a \notin {"pending", "failed"}
      /\ pc' = [pc EXCEPT ![w] = next]
      /\ UNCHANGED <<status, purged, owner, live, order, at, answer>>
  BY DEF Save, Goto, Leased, AllHands, searchVars, leaseVars
<1>2. /\ p \in Pages /\ PageOK(p) /\ state[p] \notin {"none", "reserved"}
      /\ p \notin requested => credit[p] # "released"
      /\ \/ a \in {"error", "refused", "outage"}
         \/ a = "pending" /\ order[p] # "none"
         \/ a \in {"charged", "free", "failed"} /\ order[p] = a
  BY <1>1 DEF HandOK, AllPages
<1>3. /\ credit' = [credit EXCEPT ![p] =
           CASE a = "charged" -> "charged"
             [] a \in {"free", "failed"} -> "released"
             [] a = "pending" -> "pending"
             [] OTHER -> IF Settled(p) THEN credit[p] ELSE "unknown"]
      /\ state' = [state EXCEPT ![p] =
           CASE a \in {"pending", "failed"} -> a
             [] a \in {"free", "charged"} -> state[p]
             [] a = "error" -> "unknown"
             [] OTHER -> "blocked"]
      /\ requested' = IF a \in {"error", "refused", "outage"} THEN requested ELSE requested \cup {p}
  BY DEF Save, SaveAnswer
<1> HIDE DEF p, a, next
<1>4. /\ \A q \in Pages: q # p => credit'[q] = credit[q] /\ state'[q] = state[q]
      /\ credit'[p] = CASE a = "charged" -> "charged"
             [] a \in {"free", "failed"} -> "released"
             [] a = "pending" -> "pending"
             [] OTHER -> IF Settled(p) THEN credit[p] ELSE "unknown"
      /\ state'[p] = CASE a \in {"pending", "failed"} -> a
             [] a \in {"free", "charged"} -> state[p]
             [] a = "error" -> "unknown"
             [] OTHER -> "blocked"
  BY <1>2, <1>3 DEF Types
<1>5. /\ credit[p] = "released" => credit'[p] = "released"
      /\ credit'[p] = "released" => credit[p] = "released" \/ (p \in requested' /\ order[p] \in {"free", "failed"})
      /\ p \notin requested' => p \notin requested /\ credit'[p] # "released"
  BY <1>1, <1>2, <1>3, <1>4 DEF PageOK, Settled
<1>6. /\ state'[p] \notin {"none", "reserved"}
      /\ state'[p] = "purged" => state[p] = "purged"
  BY <1>2, <1>4
<1>7. /\ requested \subseteq requested' /\ requested' \subseteq requested \cup {p}
      /\ p \in requested' => order[p] # "none"
  BY <1>2, <1>3 DEF PageOK
<1>8. next \in {"parse", "publish"} /\ (next = "parse" => p \in requested')
  BY <1>3 DEF next
<1>9. \A v \in Workers: pc'[v] = IF v = w THEN next ELSE pc[v]
  BY <1>1 DEF Types
<1>10. Types'
  <2>1. /\ state[p] \in PageState
        /\ credit[p] \in {"reserved", "pending", "charged", "released", "unknown"}
    BY <1>2 DEF Types
  <2>2. /\ state'[p] \in PageState
        /\ credit'[p] \in {"reserved", "pending", "charged", "released", "unknown"}
    BY <1>2, <1>4, <2>1 DEF PageState
  <2>3. /\ state' = [state EXCEPT ![p] = state'[p]]
        /\ credit' = [credit EXCEPT ![p] = credit'[p]]
    BY <1>2, <1>3, <1>4 DEF Types
  <2>4. state' \in [Pages -> PageState]
        /\ credit' \in [Pages -> {"reserved", "pending", "charged", "released", "unknown"}]
    BY <2>2, <2>3 DEF Types
  <2> QED
    BY <1>1, <1>2, <1>7, <1>8, <2>4 DEF Types, WorkerPc
<1>11. Stable
  BY <1>1, <1>2, <1>4, <1>5, <1>6, <1>7 DEF Stable
<1>12. AllPages'
  <2>1. ASSUME NEW q \in Pages, q = p PROVE PageOK(q)'
    <3>1. PageOK(q) /\ order'[q] = order[q] /\ live' = live /\ purged' = purged
      BY <1>1, <1>2, <2>1
    <3> QED
      BY <1>2, <1>5, <1>6, <1>7, <2>1, <3>1 DEF PageOK
  <2>2. ASSUME NEW q \in Pages, q # p PROVE PageOK(q)'
    BY <1>1, <1>4, <1>7, <2>2 DEF PageOK, AllPages
  <2> QED
    BY <2>1, <2>2 DEF AllPages
<1>13. AllHands'
  <2>1. HandOK(w)'
    BY <1>1, <1>2, <1>6, <1>8, <1>9 DEF HandOK, p
  <2>2. ASSUME NEW v \in Workers, v # w PROVE HandOK(v)'
    <3>1. Undisturbed(v)
      BY <1>1, <1>4, <1>5, <1>6, <1>7, <1>9, <2>2 DEF Undisturbed
    <3> QED
      BY <3>1, UndisturbedKeeps DEF AllHands
  <2> QED
    BY <2>1, <2>2 DEF AllHands
<1> QED
  BY <1>10, <1>11, <1>12, <1>13, StableStep

LEMMA ParseKeeps == ASSUME IInv, NEW w \in Workers, Parse(w) PROVE IInv'
<1> USE DEF IInv
<1> DEFINE p == at[w]
<1>1. PICK st \in {"complete", "parse_failed"}:
        /\ pc[w] = "parse" /\ HandOK(w)
        /\ state' = [state EXCEPT ![p] = st]
        /\ pc' = [pc EXCEPT ![w] = "publish"]
        /\ UNCHANGED <<status, purged, credit, requested, owner, live, order, at, answer>>
  BY DEF Parse, Goto, AllHands, searchVars, leaseVars
<1>2. p \in Pages /\ state[p] # "none" /\ p \in requested
  BY <1>1 DEF HandOK
<1> HIDE DEF p
<1>3. /\ \A q \in Pages: state'[q] = IF q = p THEN st ELSE state[q]
      /\ \A v \in Workers: pc'[v] = IF v = w THEN "publish" ELSE pc[v]
  BY <1>1 DEF Types
<1>4. Types' /\ Stable
  BY <1>1, <1>2, <1>3 DEF Types, Stable, PageState, WorkerPc
<1>5. AllPages'
  BY <1>1, <1>2, <1>3 DEF AllPages, PageOK
<1>6. AllHands'
  <2>1. HandOK(w)'
    BY <1>1, <1>2, <1>3 DEF HandOK, p
  <2>2. ASSUME NEW v \in Workers, v # w PROVE HandOK(v)'
    <3>1. Undisturbed(v)
      BY <1>1, <1>3, <2>2 DEF Undisturbed
    <3> QED
      BY <3>1, UndisturbedKeeps DEF AllHands
  <2> QED
    BY <2>1, <2>2 DEF AllHands
<1> QED
  BY <1>4, <1>5, <1>6, StableStep

LEMMA PublishKeeps == ASSUME IInv, NEW w \in Workers, Publish(w) PROVE IInv'
<1> USE DEF IInv
<1> DEFINE p == at[w]
<1>1. /\ pc[w] = "publish" /\ HandOK(w) /\ owner[p] = w
      /\ state' = [state EXCEPT ![p] = "blocked"] \/ state' = state
      /\ owner' = [owner EXCEPT ![p] = Nobody] /\ live' = live \ {p} /\ at' = [at EXCEPT ![w] = NoPage]
      /\ pc' = [pc EXCEPT ![w] = "next"] /\ answer' = [answer EXCEPT ![w] = "none"]
      /\ UNCHANGED <<status, purged, credit, requested, order>>
  BY DEF Publish, Goto, Leased, GiveBack, AllHands
<1>2. p \in Pages /\ state[p] # "none"
  BY <1>1 DEF HandOK
<1> HIDE DEF p
<1>3. /\ \A q \in Pages: state'[q] = state[q] \/ (q = p /\ state'[q] = "blocked")
      /\ \A q \in Pages: owner'[q] = IF q = p THEN Nobody ELSE owner[q]
      /\ \A v \in Workers: pc'[v] = IF v = w THEN "next" ELSE pc[v]
      /\ \A v \in Workers: v # w => at'[v] = at[v] /\ answer'[v] = answer[v]
  BY <1>1 DEF Types
<1>4. Types' /\ Stable
  BY <1>1, <1>2, <1>3 DEF Types, Stable, PageState, WorkerPc, Answers
<1>5. AllPages'
  <2>1. ASSUME NEW q \in Pages PROVE PageOK(q)'
    <3>1. PageOK(q)
      BY DEF AllPages
    <3> QED
      BY <1>1, <1>2, <1>3, <3>1 DEF PageOK, Unfinished
  <2> QED
    BY <2>1 DEF AllPages
<1>6. AllHands'
  <2>1. HandOK(w)'
    BY <1>3 DEF HandOK
  <2>2. ASSUME NEW v \in Workers, v # w PROVE HandOK(v)'
    <3>1. Undisturbed(v)
      BY <1>1, <1>2, <1>3, <2>2 DEF Undisturbed
    <3> QED
      BY <3>1, UndisturbedKeeps DEF AllHands
  <2> QED
    BY <2>1, <2>2 DEF AllHands
<1> QED
  BY <1>4, <1>5, <1>6, StableStep

LEMMA EndKeeps == ASSUME IInv, NEW w \in Workers, End(w) PROVE IInv'
<1> USE DEF IInv
<1>1. /\ \/ status' = status
         \/ \E st \in {"ready", "fetching", "blocked"}: status' = [status EXCEPT ![on[w]] = st]
      /\ pc' = [pc EXCEPT ![w] = "off"] /\ at' = [at EXCEPT ![w] = NoPage]
      /\ answer' = [answer EXCEPT ![w] = "none"]
      /\ UNCHANGED <<purged, state, credit, requested, owner, live, order>>
  BY DEF End, Goto, Leave, pageVars, leaseVars
<1>2. /\ \A v \in Workers: pc'[v] = IF v = w THEN "off" ELSE pc[v]
      /\ \A v \in Workers: v # w => at'[v] = at[v] /\ answer'[v] = answer[v]
  BY <1>1 DEF Types
<1>3. Types' /\ Stable
  BY <1>1 DEF Types, Stable, SearchStatus, WorkerPc, Answers
<1>4. AllPages'
  BY <1>1 DEF AllPages, PageOK
<1>5. AllHands'
  BY <1>1, <1>2 DEF AllHands, HandOK
<1> QED
  BY <1>3, <1>4, <1>5, StableStep

LEMMA AbortKeeps == ASSUME IInv, NEW w \in Workers, Abort(w) PROVE IInv'
<1> USE DEF IInv
<1>1. PICK p \in {at[w], NoPage}:
        /\ owner' = [q \in Pages |-> IF owner[q] # w THEN owner[q] ELSE IF q = p THEN Nobody ELSE Gone]
        /\ live' = IF p # NoPage /\ owner[p] = w THEN live \ {p} ELSE live
  BY DEF Abort
<1>2. /\ pc' = [pc EXCEPT ![w] = "off"] /\ at' = [at EXCEPT ![w] = NoPage]
      /\ answer' = [answer EXCEPT ![w] = "none"]
      /\ UNCHANGED <<status, purged, state, credit, requested, order>>
  BY DEF Abort, Leave, Goto
<1>3. /\ \A v \in Workers: pc'[v] = IF v = w THEN "off" ELSE pc[v]
      /\ \A v \in Workers: v # w => at'[v] = at[v] /\ answer'[v] = answer[v]
      /\ \A q \in Pages: owner'[q] = owner[q] \/ (owner[q] = w /\ owner'[q] \in {Nobody, Gone})
  BY <1>1, <1>2 DEF Types
<1>4. Types' /\ Stable
  BY <1>1, <1>2 DEF Types, Stable, WorkerPc, Answers
<1>5. AllPages'
  <2>1. ASSUME NEW q \in Pages PROVE PageOK(q)'
    <3>1. PageOK(q)
      BY DEF AllPages
    <3> QED
      BY <1>1, <1>2, <1>3, <3>1 DEF PageOK
  <2> QED
    BY <2>1 DEF AllPages
<1>6. AllHands'
  <2>1. HandOK(w)'
    BY <1>3 DEF HandOK
  <2>2. ASSUME NEW v \in Workers, v # w PROVE HandOK(v)'
    <3>1. Undisturbed(v)
      BY <1>2, <1>3, <2>2 DEF Undisturbed
    <3> QED
      BY <3>1, UndisturbedKeeps DEF AllHands
  <2> QED
    BY <2>1, <2>2 DEF AllHands
<1> QED
  BY <1>4, <1>5, <1>6, StableStep

-----------------------------------------------------------------------------
LEMMA StepsKeep == ASSUME IInv, [Next]_vars PROVE IInv'
<1>1. ASSUME NEW s \in Searches, SearchStep(s) PROVE IInv'
  BY <1>1, CreateKeeps, CancelKeeps, ConfirmKeeps, PurgeKeeps, NextPageKeeps DEF SearchStep
<1>2. ASSUME NEW p \in Pages, PageStep(p) PROVE IInv'
  BY <1>2, RetryKeeps, ResumeKeeps, ServiceSettlesKeeps, LeaseLapsesKeeps DEF PageStep
<1>3. ASSUME NEW w \in Workers, WorkerStep(w) PROVE IInv'
  BY <1>3, StartKeeps, TakeKeeps, DispatchKeeps, CallKeeps, SaveKeeps, ParseKeeps, PublishKeeps,
     EndKeeps, AbortKeeps DEF WorkerStep
<1>4. CASE UNCHANGED vars
  BY <1>4, AsideKeeps DEF vars, searchVars, pageVars, leaseVars, workerVars
<1> QED
  BY <1>1, <1>2, <1>3, <1>4, AccountStepKeeps DEF Next

LEMMA AlwaysKept == Spec => []IInv
  BY StartsWell, StepsKeep, PTL DEF Spec

\* A credit the service has taken is on the ledger, and the ledger is within
\* the budget, whoever died, lost an answer or cancelled in between
\* (assert_soldgraph_reservation, processEbayMarketPriceSearch).
THEOREM MoneyIsAccountedFor == Spec => []PaidIsHeld
<1>1. IInv => PaidIsHeld
  <2> SUFFICES ASSUME IInv PROVE PaidIsHeld
    OBVIOUS
  <2>1. Paid \subseteq Held
    BY DEF IInv, AllPages, PageOK, Paid, Held, Rows
  <2> QED
    BY <2>1 DEF IInv, Funds, PaidIsHeld
<1> QED
  BY <1>1, AlwaysKept, PTL

\* However often a page is asked for or retried, one of its attempts is charged
\* at most (retry, Idempotency-Key of a page).
THEOREM PagesAreBoughtOnce == Spec => []BoughtOnce
<1>1. IInv => BoughtOnce
  <2> SUFFICES ASSUME IInv, NEW p \in Paid, NEW q \in Paid, p[1] = q[1], p[2] = q[2] PROVE p = q
    BY DEF BoughtOnce
  <2>1. /\ p \in Pages /\ q \in Pages /\ state[p] # "none" /\ state[q] # "none"
        /\ credit[p] # "released" /\ credit[q] # "released"
    BY DEF IInv, AllPages, PageOK, Paid
  <2>2. p[3] \in Nat /\ q[3] \in Nat
    BY <2>1 DEF Pages
  <2>3. ~(p[3] < q[3]) /\ ~(q[3] < p[3])
    BY <2>1 DEF IInv, Chains, SamePage
  <2>4. p = <<p[1], p[2], p[3]>> /\ q = <<q[1], q[2], q[3]>>
    BY <2>1, PageIsTriple
  <2>5. p[3] = q[3]
    BY <2>2, <2>3
  <2> QED
    BY <2>4, <2>5
<1> QED
  BY <1>1, AlwaysKept, PTL

(***************************************************************************)
(* The usage of the account.  A charge on the ledger is one the service    *)
(* has made.  While a refresh of the usage holds its lease nothing is in   *)
(* the service's hands and no worker can give it anything: what was about  *)
(* to be sent has lost its lease.  So the answer counts what the ledger    *)
(* counts when the refresh ends.                                           *)
(***************************************************************************)
ChargesAreTrue == \A p \in Pages: credit[p] = "charged" => order[p] = "charged"

Stopped ==
    /\ \A p \in Pages: order[p] # "working"
    /\ \A w \in Workers:
          /\ pc[w] = "call" /\ at[w] \notin requested => order[at[w]] # "none"
          /\ pc[w] = "dispatch" => ~Leased(w)

Still == Stopped /\ told \subseteq {Cardinality(Paid)}

Usage == [lease: BOOLEAN, known: BOOLEAN, charged: Nat]

Snapshot ==
    /\ usage \in Usage
    /\ ChargesAreTrue
    /\ usage.lease => Still
    /\ SnapshotCounts

\* Between the quiet that a refresh begins with and the one it ends with, the
\* ledger and the service agree on what is charged.
LEMMA QuietIsPaid == ASSUME IInv, ChargesAreTrue, Quiet PROVE Charged = Paid
<1> USE DEF IInv
<1>1. ASSUME NEW p \in Pages, order[p] = "charged" PROVE state[p] # "none" /\ credit[p] = "charged"
  <2>1. state[p] \notin {"none", "reserved"} /\ credit[p] # "released"
    BY <1>1 DEF AllPages, PageOK
  <2> QED
    BY <2>1 DEF Quiet, Settled, Rows
<1> QED
  BY <1>1 DEF ChargesAreTrue, Charged, Paid, Rows

LEMMA QuietIsStopped == ASSUME IInv, ChargesAreTrue, Quiet PROVE Stopped
<1> USE DEF IInv
<1>1. \A p \in Pages: order[p] # "working"
  BY DEF Quiet, AllPages, PageOK, Settled, Rows, ChargesAreTrue
<1>2. ASSUME NEW w \in Workers, pc[w] = "call", at[w] \notin requested PROVE order[at[w]] # "none"
  <2>1. at[w] \in Pages /\ state[at[w]] \notin {"none", "reserved"} /\ credit[at[w]] # "released"
    BY <1>2 DEF AllHands, HandOK
  <2>2. credit[at[w]] = "charged"
    BY <2>1 DEF Quiet, Settled, Rows
  <2> QED
    BY <2>1, <2>2 DEF ChargesAreTrue
<1>3. \A w \in Workers: ~Leased(w)
  BY DEF Quiet, Leased
<1> QED
  BY <1>1, <1>2, <1>3 DEF Stopped

LEMMA ChargedIsFinite == ASSUME IInv PROVE Cardinality(Charged) \in Nat
<1>1. Charged \subseteq Held /\ IsFiniteSet(Held)
  BY DEF Charged, Held, IInv, Funds
<1>2. IsFiniteSet(Charged)
  BY <1>1, FS_Subset
<1> QED
  BY <1>2, FS_CardinalityType

\* A step that orders nothing and gives no worker a way to order.
Undisturbing ==
    /\ UNCHANGED <<order, told>>
    /\ requested \subseteq requested'
    /\ \A w \in Workers:
          /\ pc'[w] \in {"call", "dispatch"} => pc'[w] = pc[w] /\ at'[w] = at[w]
          /\ pc[w] = "dispatch" /\ at'[w] = at[w] /\ Leased(w)' => Leased(w)

LEMMA StaysStill == ASSUME Still, Undisturbing PROVE Still'
<1>1. Paid' = Paid
  BY DEF Undisturbing, Paid
<1>2. \A w \in Workers: pc'[w] = "dispatch" => ~Leased(w)'
  BY DEF Still, Stopped, Undisturbing
<1>3. \A w \in Workers: pc'[w] = "call" /\ at'[w] \notin requested' => order'[at'[w]] # "none"
  BY DEF Still, Stopped, Undisturbing
<1> QED
  BY <1>1, <1>2, <1>3 DEF Still, Stopped, Undisturbing

\* Credits change to charged with an answer only.
LEMMA ChargesStayTrue ==
    ASSUME IInv, ChargesAreTrue, [Next]_vars PROVE ChargesAreTrue'
<1> USE DEF IInv
<1>1. ASSUME UNCHANGED order, \A p \in Pages: credit'[p] = "charged" => credit[p] = "charged"
      PROVE  ChargesAreTrue'
  BY <1>1 DEF ChargesAreTrue
<1>2. ASSUME NEW s \in Searches, SearchStep(s) PROVE ChargesAreTrue'
  <2>1. UNCHANGED order
    BY <1>2 DEF SearchStep, Create, Cancel, Confirm, Purge, NextPage, pageVars
  <2>2. ASSUME NEW q \in Pages, AddPage(q, s) PROVE \A p \in Pages: credit'[p] = "charged" => credit[p] = "charged"
    BY <2>2 DEF AddPage, Types
  <2>3. <<s, 1, 1>> \in Pages /\ \A n \in 2..MaxPage: <<s, n, 1>> \in Pages
    BY DEF Pages
  <2>4. \A p \in Pages: credit'[p] = "charged" => credit[p] = "charged"
    BY <1>2, <2>2, <2>3 DEF SearchStep, Create, Cancel, Confirm, Purge, NextPage, pageVars, Types
  <2> QED
    BY <1>1, <2>1, <2>4
<1>3. ASSUME NEW q \in Pages, PageStep(q) PROVE ChargesAreTrue'
  <2>1. CASE ServiceSettles(q)
    <3>1. \A p \in Pages: order[p] = "charged" => order'[p] = "charged"
      BY <2>1 DEF ServiceSettles, Types
    <3> QED
      BY <2>1, <3>1 DEF ServiceSettles, pageVars, ChargesAreTrue
  <2>2. CASE Retry(q) \/ Resume(q) \/ LeaseLapses(q)
    BY <1>1, <2>2 DEF Retry, Resume, LeaseLapses
  <2> QED
    BY <1>3, <2>1, <2>2 DEF PageStep
<1>4. ASSUME NEW w \in Workers, WorkerStep(w) PROVE ChargesAreTrue'
  <2>1. CASE Save(w)
    <3>1. HandOK(w) /\ pc[w] = "save" /\ at[w] \in Pages
      BY <2>1 DEF Save, AllHands, HandOK
    <3>2. \A p \in Pages: p # at[w] => credit'[p] = credit[p]
      BY <2>1 DEF Save, SaveAnswer, Types
    <3>3. credit'[at[w]] = "charged" => answer[w] = "charged" \/ credit[at[w]] = "charged"
      BY <2>1, <3>1 DEF Save, SaveAnswer, Types
    <3>4. answer[w] = "charged" => order[at[w]] = "charged"
      BY <3>1 DEF HandOK
    <3>5. UNCHANGED order
      BY <2>1 DEF Save
    <3> QED
      BY <3>2, <3>3, <3>4, <3>5 DEF ChargesAreTrue
  <2>2. ASSUME NEW reply \in Answers \ {"none"}, Call(w, reply) PROVE ChargesAreTrue'
    <3>1. \A p \in Pages: order[p] = "charged" => order'[p] = "charged"
      BY <2>2 DEF Call, Types
    <3> QED
      BY <2>2, <3>1 DEF Call, pageVars, ChargesAreTrue
  <2>3. ASSUME NEW p \in Pages, Take(w, p) PROVE ChargesAreTrue'
    <3>1. UNCHANGED order /\ \A q \in Pages: credit'[q] = credit[q] \/ q = p
      BY <2>3 DEF Take, Types
    <3>2. credit'[p] = "charged" => credit[p] = "charged"
      BY <2>3 DEF Take, Types
    <3> QED
      BY <1>1, <3>1, <3>2
  <2>4. CASE \/ Dispatch(w) \/ Parse(w) \/ Publish(w) \/ End(w) \/ Abort(w)
             \/ \E s \in Searches: Start(w, s)
    BY <1>1, <2>4 DEF Dispatch, Parse, Publish, End, Abort, Start, pageVars
  <2> QED
    BY <1>4, <2>1, <2>2, <2>3, <2>4 DEF WorkerStep
<1>5. CASE AccountStep \/ UNCHANGED vars
  BY <1>1, <1>5 DEF AccountStep, BeginUsage, UsageAnswered, FinishUsage, FailUsage, UsageLapses,
     SetMode, pageVars, vars
<1> QED
  BY <1>2, <1>3, <1>4, <1>5 DEF Next

\* Who is not taking a page, sending or ending a refresh disturbs nothing.
LEMMA RefreshIsUndisturbed ==
    ASSUME IInv, usage.lease, Still, [Next]_vars, UNCHANGED <<usage, told>> PROVE Undisturbing
<1> USE DEF IInv
<1>1. ASSUME NEW s \in Searches, SearchStep(s) PROVE Undisturbing
  BY <1>1 DEF SearchStep, Create, Cancel, Confirm, Purge, NextPage, pageVars, leaseVars, contentVars,
     workerVars, Undisturbing, Leased
<1>2. ASSUME NEW q \in Pages, PageStep(q) PROVE Undisturbing
  BY <1>2 DEF PageStep, Retry, Resume, ServiceSettles, LeaseLapses, pageVars, leaseVars, contentVars,
     workerVars, Undisturbing, Leased, Still, Stopped
<1>3. ASSUME NEW w \in Workers, WorkerStep(w) PROVE Undisturbing
  <2>1. ASSUME NEW s \in Searches, Start(w, s) PROVE Undisturbing
    <3> DEFINE mine == {p \in PagesOf(s): Selectable(p)}
    <3>1. /\ UNCHANGED <<order, told, requested, at>>
          /\ pc[w] = "off" /\ \A v \in Workers: pc'[v] = IF v = w THEN "next" ELSE pc[v]
          /\ owner' = [p \in Pages |-> IF p \in mine THEN w ELSE owner[p]]
          /\ live' = live \cup mine
      BY <2>1 DEF Start, Goto, Types
    <3>2. ASSUME NEW v \in Workers, pc[v] = "dispatch", Leased(v)' PROVE Leased(v)
      <4>1. v # w /\ at[v] \in Pages
        BY <3>1, <3>2 DEF AllHands, HandOK
      <4>2. at[v] \notin mine
        BY <3>1, <3>2, <4>1 DEF Leased
      <4> HIDE DEF mine
      <4> QED
        BY <3>1, <3>2, <4>1, <4>2 DEF Leased
    <3> QED
      BY <3>1, <3>2 DEF Undisturbing
  <2>2. ASSUME NEW p \in Pages, Take(w, p) PROVE Undisturbing
    <3>1. UNCHANGED <<order, requested>> /\ ~Admissible(p)
      BY <2>2 DEF Take, Admissible
    <3>2. /\ pc'[w] \in {"next", "publish"}
          /\ \A v \in Workers: v # w => pc'[v] = pc[v] /\ at'[v] = at[v]
          /\ pc[w] = "next"
      BY <2>2, <3>1 DEF Take, Goto, GiveBack, Types
    <3>3. \A q \in Pages, v \in Workers: owner'[q] = v /\ q \in live' => owner[q] = v /\ q \in live
      BY <2>2 DEF Take, GiveBack, Types, leaseVars
    <3>4. \A v \in Workers: pc[v] = "dispatch" => at[v] \in Pages
      BY DEF AllHands, HandOK
    <3> QED
      BY <3>1, <3>2, <3>3, <3>4 DEF Undisturbing, Leased
  <2>3. CASE Dispatch(w)
    BY <2>3 DEF Dispatch, Still, Stopped
  <2>4. ASSUME NEW reply \in Answers \ {"none"}, Call(w, reply) PROVE Undisturbing
    <3>1. pc[w] = "call" /\ pc' = [pc EXCEPT ![w] = "save"]
      BY <2>4 DEF Call, Goto
    <3>2. UNCHANGED order
      BY <2>4, <3>1 DEF Call, Still, Stopped
    <3> QED
      BY <2>4, <3>1, <3>2 DEF Call, Undisturbing, Types, pageVars, leaseVars, Leased
  <2>5. CASE Save(w)
    <3>1. requested \subseteq requested'
      BY <2>5 DEF Save, SaveAnswer
    <3>2. /\ UNCHANGED <<order, owner, live, at>>
          /\ \A v \in Workers: v # w => pc'[v] = pc[v]
          /\ pc'[w] \in {"parse", "publish"} /\ pc[w] = "save"
      BY <2>5 DEF Save, Goto, Types, leaseVars
    <3> QED
      BY <3>1, <3>2 DEF Undisturbing, Leased
  <2>6. CASE Parse(w)
    <3>1. /\ UNCHANGED <<order, owner, live, at, requested>>
          /\ \A v \in Workers: v # w => pc'[v] = pc[v]
          /\ pc'[w] = "publish" /\ pc[w] = "parse"
      BY <2>6 DEF Parse, Goto, Types, leaseVars
    <3> QED
      BY <3>1 DEF Undisturbing, Leased
  <2>7. CASE Publish(w)
    <3>1. /\ UNCHANGED <<order, requested>>
          /\ \A v \in Workers: v # w => pc'[v] = pc[v] /\ at'[v] = at[v]
          /\ pc'[w] = "next" /\ pc[w] = "publish" /\ at[w] \in Pages
      BY <2>7 DEF Publish, GiveBack, Goto, Types, AllHands, HandOK
    <3>2. \A q \in Pages, v \in Workers: owner'[q] = v /\ q \in live' => owner[q] = v /\ q \in live
      BY <2>7, <3>1 DEF Publish, GiveBack, Types
    <3>3. \A v \in Workers: pc[v] = "dispatch" => at[v] \in Pages
      BY DEF AllHands, HandOK
    <3> QED
      BY <3>1, <3>2, <3>3 DEF Undisturbing, Leased
  <2>8. CASE End(w)
    <3>1. /\ UNCHANGED <<order, requested, owner, live>>
          /\ \A v \in Workers: v # w => pc'[v] = pc[v] /\ at'[v] = at[v]
          /\ pc'[w] = "off" /\ pc[w] = "next"
      BY <2>8 DEF End, Leave, Goto, Types, pageVars, leaseVars
    <3> QED
      BY <3>1 DEF Undisturbing, Leased
  <2>9. CASE Abort(w)
    <3>1. /\ UNCHANGED <<order, requested>>
          /\ \A v \in Workers: v # w => pc'[v] = pc[v] /\ at'[v] = at[v]
          /\ pc'[w] = "off" /\ at'[w] = NoPage
      BY <2>9 DEF Abort, Leave, Goto, Types
    <3>2. \A q \in Pages, v \in Workers: owner'[q] = v /\ q \in live' => owner[q] = v /\ q \in live
      BY <2>9 DEF Abort, Types
    <3>3. \A v \in Workers: pc[v] = "dispatch" => at[v] \in Pages
      BY DEF AllHands, HandOK
    <3>4. at[w] \in Pages => at[w] # NoPage
      BY PageIsTriple DEF NoPage, Pages
    <3> QED
      BY <3>1, <3>2, <3>3, <3>4 DEF Undisturbing, Leased
  <2> QED
    BY <1>3, <2>1, <2>2, <2>3, <2>4, <2>5, <2>6, <2>7, <2>8, <2>9 DEF WorkerStep
<1>4. CASE AccountStep \/ UNCHANGED vars
  BY <1>4 DEF AccountStep, BeginUsage, UsageAnswered, FinishUsage, FailUsage, UsageLapses,
     SetMode, pageVars, leaseVars, workerVars, vars, Undisturbing, Leased
<1> QED
  BY <1>1, <1>2, <1>3, <1>4 DEF Next

LEMMA SnapshotStep == ASSUME IInv, IInv', Snapshot, [Next]_vars PROVE Snapshot'
<1>1. ChargesAreTrue'
  BY ChargesStayTrue DEF Snapshot
<1>2. CASE UNCHANGED <<usage, told, counted>>
  BY <1>1, <1>2, RefreshIsUndisturbed, StaysStill DEF Snapshot, SnapshotCounts
<1>3. CASE BeginUsage
  <2>1. Stopped
    BY <1>3, QuietIsStopped DEF BeginUsage, Snapshot
  <2>2. Still'
    BY <1>3, <2>1 DEF BeginUsage, Still, Stopped, workerVars, pageVars, leaseVars, Leased
  <2>3. usage' \in Usage /\ usage'.known = usage.known /\ usage'.charged = usage.charged
    BY <1>3 DEF BeginUsage, Snapshot, Usage
  <2> QED
    BY <1>1, <1>3, <2>2, <2>3 DEF BeginUsage, Snapshot, SnapshotCounts
<1>4. CASE UsageAnswered
  <2>1. Paid' = Paid
    BY <1>4 DEF UsageAnswered, Paid
  <2>2. Still'
    BY <1>4, <2>1 DEF UsageAnswered, Snapshot, Still, Stopped, workerVars, pageVars, leaseVars, Leased
  <2> QED
    BY <1>1, <1>4, <2>2 DEF UsageAnswered, Snapshot, SnapshotCounts
<1>5. CASE FinishUsage
  <2>1. Charged = Paid /\ Cardinality(Charged) \in Nat
    BY <1>5, QuietIsPaid, ChargedIsFinite DEF FinishUsage, Snapshot
  <2>2. counted' = Cardinality(Paid)
    BY <1>5 DEF FinishUsage, Snapshot, Still
  <2>3. usage' = [lease |-> FALSE, known |-> TRUE, charged |-> Cardinality(Charged)]
    BY <1>5 DEF FinishUsage
  <2> QED
    BY <1>1, <2>1, <2>2, <2>3 DEF Snapshot, SnapshotCounts, Usage
<1>6. CASE FailUsage
  <2>1. usage' = NoUsage
    BY <1>6 DEF FailUsage
  <2>2. usage' \in Usage /\ ~usage'.lease /\ ~usage'.known
    BY <2>1 DEF NoUsage, Usage
  <2> QED
    BY <1>1, <2>2 DEF Snapshot, SnapshotCounts
<1>7. CASE UsageLapses
  <2>1. CASE usage.lease /\ usage' = [usage EXCEPT !.lease = FALSE] /\ UNCHANGED counted
    <3>1. usage' \in Usage /\ ~usage'.lease /\ usage'.known = usage.known
          /\ usage'.charged = usage.charged
      BY <2>1 DEF Snapshot, Usage
    <3> QED
      BY <1>1, <2>1, <3>1 DEF Snapshot, SnapshotCounts
  <2>2. CASE usage' = [usage EXCEPT !.known = FALSE, !.charged = 0] /\ UNCHANGED told
    <3>1. usage' \in Usage /\ ~usage'.known /\ usage'.lease = usage.lease
      BY <2>2 DEF Snapshot, Usage
    <3>2. Still => Still'
      BY <1>7, <2>2 DEF UsageLapses, Still, Stopped, Paid, workerVars, pageVars, leaseVars, Leased
    <3> QED
      BY <1>1, <3>1, <3>2 DEF Snapshot, SnapshotCounts
  <2> QED
    BY <1>7, <2>1, <2>2 DEF UsageLapses
<1>8. CASE ~(BeginUsage \/ UsageAnswered \/ FinishUsage \/ FailUsage \/ UsageLapses)
  <2>1. ASSUME NEW s \in Searches, SearchStep(s) PROVE UNCHANGED <<usage, told, counted>>
    BY <2>1 DEF SearchStep, Create, Cancel, Confirm, Purge, NextPage, accountVars
  <2>2. ASSUME NEW p \in Pages, PageStep(p) PROVE UNCHANGED <<usage, told, counted>>
    BY <2>2 DEF PageStep, Retry, Resume, ServiceSettles, LeaseLapses, accountVars
  <2>3. ASSUME NEW w \in Workers, WorkerStep(w) PROVE UNCHANGED <<usage, told, counted>>
    BY <2>3 DEF WorkerStep, Start, Take, Dispatch, Call, Save, Parse, Publish, End, Abort, accountVars
  <2>4. AccountStep => UNCHANGED <<usage, told, counted>>
    BY <1>8 DEF AccountStep, SetMode
  <2>5. UNCHANGED vars => UNCHANGED <<usage, told, counted>>
    BY DEF vars, accountVars
  <2> QED
    BY <1>2, <2>1, <2>2, <2>3, <2>4, <2>5 DEF Next
<1> QED
  BY <1>2, <1>3, <1>4, <1>5, <1>6, <1>7, <1>8

\* The allowance read from the service and the charges set off against it are
\* of the same requests: what was sent before a refresh is settled, and what
\* was about to be sent cannot be sent any more.
THEOREM UsageIsConsistent == Spec => []SnapshotCounts
<1>1. Init => Snapshot
  BY DEF Init, Snapshot, Usage, ChargesAreTrue, SnapshotCounts
<1>2. IInv /\ Snapshot /\ [Next]_vars => Snapshot'
  BY SnapshotStep, StepsKeep
<1>3. Snapshot => SnapshotCounts
  BY DEF Snapshot
<1> QED
  BY <1>1, <1>2, <1>3, AlwaysKept, PTL DEF Spec

HIDE SoldgraphAssumption DEF SoldgraphAssumption
-----------------------------------------------------------------------------
(* Searches of closed auctions.                                            *)

(***************************************************************************)
(* A search.  A worker runs a running job; without an overlap there is one *)
(* unfinished job, so a search that can be viewed has no worker left that  *)
(* would change it: its candidates change under the version only.          *)
(***************************************************************************)
Works(j) == fetcher[j].pc \in {"plan", "look", "fetch", "store", "refused", "read", "write"}

JobsOK ==
    /\ \A j \in SearchJobs: fetcher[j].pc = "idle" => fetcher[j] = Idle
    /\ \A j \in SearchJobs: fetcher[j].pc # "idle" => asked[j] = "running"
    /\ ~doubled => \A j, k \in SearchJobs: UnfinishedJob(j) /\ UnfinishedJob(k) => j = k

ShownOK ==
    /\ shown.lock <= found.lock
    /\ ~doubled =>
        /\ found.status \in Viewable => \A j \in SearchJobs: ~Works(j)
        /\ found.status \notin Viewable => shown.lock # found.lock
        /\ found.status \in Viewable /\ shown.lock = found.lock => shown.included = included

(***************************************************************************)
(* Statistics.  They are over what is included, once there is an evaluation *)
(* and as long as one override is open at a time.                          *)
(***************************************************************************)
EditOK(e) ==
    edit[e] # NoEdit =>
        /\ edit[e].item \in Stored
        /\ ~met => edit[e].over = With(edit[e].item, edit[e].decision)

StatisticsOK ==
    /\ ~met => \A d, e \in Editors: edit[d] # NoEdit /\ edit[e] # NoEdit => d = e
    /\ \A e \in Editors: EditOK(e)
    /\ included \subseteq Stored
    /\ \A j \in SearchJobs: fetcher[j].pc = "write" =>
           fetcher[j].view \subseteq Stored /\ (~doubled => fetcher[j].view = Stored)
    /\ ~met /\ ~doubled /\ found.status \in Viewable => found.over = included

(***************************************************************************)
(* Pages of Yahoo.  They are stored in order, each from a list at least as *)
(* long as the page before was, so that no item of the list at the start   *)
(* falls between two of them.                                              *)
(***************************************************************************)
Yahoo == found.source = "yahoo_scrape"
Stores(n) == <<1, n>> \in DOMAIN pages
Length(n) == pages[<<1, n>>]

RowOK(n) ==
    Stores(n) =>
        /\ found.born <= Length(n) /\ Length(n) <= listed
        /\ n > 1 => Stores(n - 1) /\ Length(n - 1) <= Length(n)

\* Items that a page up to the n-th had and the parser could not read.
Missed(n) == {i \in Unreadable: \E r \in 1..n: Stores(r) /\ i \in PageItems(Length(r), r)}

\* Of the list at the start, what is newer than that.
ReadTo(oldest, missed) == \A i \in Items: i <= found.born /\ oldest < i => i \in Stored \/ i \in missed

RowCovers(n) == Stores(n) => ReadTo(Length(n) - n * PageSize, Missed(n))

Covered ==
    \A i \in Items: i <= found.born /\ EndedAt[i] > PeriodStart =>
        i \in Stored \/ (doubled /\ i \in Unreadable)

ReaderOK(j) ==
    LET f == fetcher[j] IN
    /\ f.window = 1 /\ f.before = 0
    /\ f.pc = "plan" => f.page = 1
    /\ f.pc \in {"look", "fetch", "store"} =>
        /\ \A m \in 1..(f.page - 1): Stores(m)
        /\ ~doubled /\ ~f.incomplete => Missed(f.page - 1) = {}
    /\ f.pc \in {"fetch", "store"} /\ ~doubled => ~Stores(f.page)
    /\ f.pc = "store" =>
        /\ found.born <= f.length /\ f.length <= listed
        /\ f.page > 1 => Length(f.page - 1) <= f.length
        /\ ~doubled /\ ~f.incomplete => PageItems(f.length, f.page) \cap Unreadable = {}
    /\ f.whole => f.pc \in {"read", "write"} /\ Covered

PagesOK ==
    /\ found.status = "none" =>
           (\A j \in SearchJobs: asked[j] = "none") /\ DOMAIN pages = {} /\ found.coverage = "pending"
    /\ found.born <= listed
    /\ ~Yahoo => \A j \in SearchJobs: ~fetcher[j].whole
    /\ Yahoo => /\ \A n \in 1..MaxPages: RowOK(n) /\ RowCovers(n)
                /\ \A j \in SearchJobs: ReaderOK(j)
    /\ found.coverage = "complete" => Covered

SearchInv ==
    /\ MarketSearchTypeOK /\ JobsOK /\ ShownOK /\ StatisticsOK /\ PagesOK
    /\ SnapshotAgrees /\ ConfirmedAsRead

-----------------------------------------------------------------------------
USE MarketSearchAssumption DEF MarketSearchAssumption

LEMMA SearchBounds ==
    /\ FirstListed \in Nat /\ LastItem \in Nat /\ PageSize \in Nat /\ MaxPages \in Nat
    /\ MaxMishaps \in Nat /\ MaxLock \in Nat /\ PeriodStart \in Nat
  OBVIOUS

(* Types, one group of variables after the other.                          *)

Founds == [status: MarketSearchStatus, coverage: Coverage, class: FailureClass,
           lock: 1..MaxLock, source: {"yahoo_scrape", "aucfan_api"},
           policy: BOOLEAN, over: SUBSET Items, born: 0..LastItem]
Fetchers == [pc: FetcherPc, window: {1, 2}, page: 1..MaxPages, before: 0..MaxPages,
             length: 0..LastItem, incomplete: BOOLEAN, whole: BOOLEAN, view: SUBSET Items,
             policy: BOOLEAN, class: FailureClass, retry: BOOLEAN]

TypesOfList ==
    /\ listed \in FirstListed..LastItem
    /\ DOMAIN pages \subseteq {1, 2} \X (1..MaxPages)
    /\ \A p \in DOMAIN pages: pages[p] \in 0..LastItem
    /\ pageOf \in [Items -> 0..MaxPages]

TypesOfCandidates == reasons \subseteq Items /\ included \subseteq Items /\ override \in [Items -> Decision]

TypesOfJobs ==
    asked \in [SearchJobs -> SearchJobStatus] /\ stop \subseteq SearchJobs /\ doubled \in BOOLEAN

TypesOfEdits ==
    /\ edit \in [Editors -> [item: 0..LastItem, decision: Decision, over: SUBSET Items]]
    /\ met \in BOOLEAN

TypesOfShown ==
    /\ shown \in [lock: 0..MaxLock, included: SUBSET Items]
    /\ snapshot \in [taken: BOOLEAN, over: SUBSET Items, included: SUBSET Items, read: SUBSET Items]

TypesInGroups ==
    /\ TypesOfList /\ found \in Founds /\ TypesOfCandidates /\ TypesOfJobs
    /\ fetcher \in [SearchJobs -> Fetchers] /\ TypesOfEdits /\ TypesOfShown /\ mishaps \in 0..MaxMishaps

LEMMA GroupsAreAll == MarketSearchTypeOK <=> TypesInGroups
  BY DEF MarketSearchTypeOK, TypesInGroups, TypesOfList, TypesOfCandidates, TypesOfJobs, TypesOfEdits,
     TypesOfShown, Founds, Fetchers

LEMMA GroupsAreAllNext == TypesInGroups' => MarketSearchTypeOK'
  BY DEF MarketSearchTypeOK, TypesInGroups, TypesOfList, TypesOfCandidates, TypesOfJobs, TypesOfEdits,
     TypesOfShown, Founds, Fetchers

LEMMA MishapTyped == ASSUME mishaps \in 0..MaxMishaps, Mishap PROVE mishaps' \in 0..MaxMishaps
  BY SearchBounds DEF Mishap

LEMMA ChosenAreItems ==
    ASSUME NEW view \in SUBSET Items, NEW policy, NEW born
    PROVE Automatic(view, policy, born) \subseteq view
  BY DEF Automatic, Eligible

LEMMA SearchStartsTyped == MarketSearchInit => MarketSearchTypeOK
<1> SUFFICES ASSUME MarketSearchInit PROVE TypesInGroups
  BY GroupsAreAll
<1>1. TypesOfList
  BY SearchBounds DEF MarketSearchInit, TypesOfList
<1>2. found \in Founds
  BY SearchBounds DEF MarketSearchInit, Founds, MarketSearchStatus, Coverage, FailureClass
<1>3. TypesOfCandidates /\ TypesOfJobs
  BY DEF MarketSearchInit, TypesOfCandidates, TypesOfJobs, SearchJobStatus, Decision
<1>4. Idle \in Fetchers
  BY SearchBounds DEF Idle, Fetchers, FetcherPc, FailureClass
<1>5. TypesOfEdits /\ TypesOfShown
  <2>1. NoEdit \in [item: 0..LastItem, decision: Decision, over: SUBSET Items]
    BY SearchBounds DEF NoEdit, Decision
  <2>2. NotShown \in [lock: 0..MaxLock, included: SUBSET Items]
    BY SearchBounds DEF NotShown
  <2>3. NoSnapshot \in [taken: BOOLEAN, over: SUBSET Items, included: SUBSET Items, read: SUBSET Items]
    BY DEF NoSnapshot
  <2> QED
    BY <2>1, <2>2, <2>3 DEF MarketSearchInit, TypesOfEdits, TypesOfShown
<1> QED
  BY <1>1, <1>2, <1>3, <1>4, <1>5, SearchBounds DEF TypesInGroups, MarketSearchInit

\* Steps of a worker.
LEMMA FetchersTyped ==
    ASSUME TypesInGroups, NEW j \in SearchJobs, FetcherStep(j)
    PROVE fetcher' \in [SearchJobs -> Fetchers]
<1> USE DEF TypesInGroups
<1>0. Idle \in Fetchers
  BY SearchBounds DEF Idle, Fetchers, FetcherPc, FailureClass
<1> DEFINE f == fetcher[j]
<1>1. f \in Fetchers
  OBVIOUS
<1>2. ASSUME NEW h \in Fetchers PROVE Onward(h) \in Fetchers /\ EndOfWindow(h) \in Fetchers
  <2>1. NextWindow(h) \in Fetchers
    <3>1. h.window < Windows => h.window + 1 \in {1, 2}
      BY DEF Windows, Fetchers
    <3>2. h.before + h.page < MaxPages => h.before + h.page \in 0..MaxPages
      BY SearchBounds DEF Fetchers
    <3>3. 1 \in 1..MaxPages
      BY SearchBounds
    <3> QED
      BY <3>1, <3>2, <3>3 DEF NextWindow, Fetchers, FetcherPc
  <2>2. h.page < MaxPages => h.page + 1 \in 1..MaxPages
    BY SearchBounds DEF Fetchers
  <2>3. Onward(h) \in Fetchers
    BY <2>1, <2>2 DEF Onward, Fetchers, FetcherPc
  <2>4. EndOfWindow(h) \in Fetchers
    BY <2>1 DEF EndOfWindow, Fetchers, FetcherPc
  <2> QED
    BY <2>3, <2>4
<1>3. \A length: WithFailures(f, length) \in Fetchers
  BY <1>1 DEF WithFailures, Fetchers
<1>4. PICK h \in Fetchers: fetcher' = [fetcher EXCEPT ![j] = h]
  <2>1. CASE Prepare(j)
    <3>1. [Idle EXCEPT !.pc = "finish"] \in Fetchers
      BY <1>0 DEF Fetchers, FetcherPc
    <3>2. [Idle EXCEPT !.pc = "plan", !.policy = found.policy] \in Fetchers
      BY <1>0 DEF Fetchers, FetcherPc, Founds
    <3> QED
      BY <2>1, <3>1, <3>2 DEF Prepare
  <2>2. CASE Plan(j) \/ NoCheckpoint(j) \/ Block(j)
    <3>1. PICK stage \in {"look", "fetch", "failing"}: fetcher' = [fetcher EXCEPT ![j] = [f EXCEPT !.pc = stage]]
      BY <2>2 DEF Plan, NoCheckpoint, Block
    <3>2. [f EXCEPT !.pc = stage] \in Fetchers
      BY <1>1 DEF Fetchers, FetcherPc
    <3> QED
      BY <3>1, <3>2
  <2>3. CASE Checkpoint(j)
    BY <1>2, <1>3, <2>3 DEF Checkpoint
  <2>4. CASE Fetch(j)
    <3>1. listed \in 0..LastItem
      BY SearchBounds DEF TypesOfList
    <3>2. [WithFailures(f, listed) EXCEPT !.pc = "store", !.length = listed] \in Fetchers
      BY <1>3, <3>1 DEF Fetchers, FetcherPc
    <3> QED
      BY <2>4, <3>2 DEF Fetch
  <2>5. CASE FetchRefused(j) \/ StoreFails(j)
    <3>1. PICK class \in {"held", "blocked"}, retry \in BOOLEAN:
            fetcher' = [fetcher EXCEPT ![j] = Refused(f, class, retry)]
      BY <2>5 DEF FetchRefused, StoreFails
    <3>2. Refused(f, class, retry) \in Fetchers
      BY <1>1 DEF Refused, Fetchers, FetcherPc, FailureClass
    <3> QED
      BY <3>1, <3>2
  <2>6. CASE StorePage(j)
    BY <1>1, <1>2, <2>6 DEF StorePage
  <2>7. CASE ReadStored(j)
    <3>1. fetcher' = [fetcher EXCEPT ![j] = [f EXCEPT !.pc = "write", !.view = Stored]]
      BY <1>1, <2>7 DEF ReadStored, Fetchers
    <3>2. [f EXCEPT !.pc = "write", !.view = Stored] \in Fetchers
      BY <1>1 DEF Fetchers, FetcherPc, Stored
    <3> QED
      BY <3>1, <3>2
  <2>8. CASE WriteEvaluation(j)
    <3>1. [Idle EXCEPT !.pc = "finish"] \in Fetchers
      BY <1>0 DEF Fetchers, FetcherPc
    <3> QED
      BY <2>8, <3>1 DEF WriteEvaluation
  <2>9. CASE HandlerThrows(j)
    <3>1. \A retry \in BOOLEAN: [Idle EXCEPT !.pc = "failing", !.retry = retry] \in Fetchers
      BY <1>0 DEF Fetchers, FetcherPc
    <3> QED
      BY <2>9, <3>1 DEF HandlerThrows
  <2>10. CASE JobSucceeds(j) \/ JobIsCancelled(j) \/ JobIsRetried(j) \/ JobFails(j) \/ WorkerDies(j)
    BY <1>0, <2>10 DEF JobSucceeds, JobIsCancelled, JobIsRetried, JobFails, WorkerDies, EndJob
  <2> QED
    BY <2>1, <2>2, <2>3, <2>4, <2>5, <2>6, <2>7, <2>8, <2>9, <2>10 DEF FetcherStep
<1> QED
  BY <1>4

LEMMA FetcherStepTyped ==
    ASSUME TypesInGroups, NEW j \in SearchJobs, FetcherStep(j) PROVE TypesInGroups'
<1> USE DEF memberVars, candidateVars, jobVars
<1>0. /\ TypesOfList /\ found \in Founds /\ TypesOfCandidates /\ TypesOfJobs
      /\ fetcher \in [SearchJobs -> Fetchers] /\ TypesOfEdits /\ TypesOfShown /\ mishaps \in 0..MaxMishaps
  BY DEF TypesInGroups
<1>1. fetcher' \in [SearchJobs -> Fetchers]
  BY FetchersTyped
<1>2. TypesOfEdits' /\ TypesOfShown'
  <2>1. UNCHANGED <<edit, met, shown, snapshot>>
    BY DEF FetcherStep, Prepare, Plan, Checkpoint, NoCheckpoint, Fetch, FetchRefused, StorePage, StoreFails,
       Block, ReadStored, WriteEvaluation, HandlerThrows, JobSucceeds, JobIsCancelled, JobIsRetried, JobFails,
       WorkerDies
  <2> QED
    BY <1>0, <2>1 DEF TypesOfEdits, TypesOfShown
<1>3. mishaps' \in 0..MaxMishaps
  BY <1>0, MishapTyped DEF FetcherStep, Prepare, Plan, Checkpoint, NoCheckpoint, Fetch, FetchRefused, StorePage,
     StoreFails, Block, ReadStored, WriteEvaluation, HandlerThrows, JobSucceeds, JobIsCancelled, JobIsRetried,
     JobFails, WorkerDies
<1>4. TypesOfJobs'
  <2>1. UNCHANGED <<stop, doubled>>
    BY DEF FetcherStep, Prepare, Plan, Checkpoint, NoCheckpoint, Fetch, FetchRefused, StorePage, StoreFails,
       Block, ReadStored, WriteEvaluation, HandlerThrows, JobSucceeds, JobIsCancelled, JobIsRetried, JobFails,
       WorkerDies, EndJob
  <2>2. asked' = asked \/ \E s \in SearchJobStatus: asked' = [asked EXCEPT ![j] = s]
    BY DEF FetcherStep, Prepare, Plan, Checkpoint, NoCheckpoint, Fetch, FetchRefused, StorePage, StoreFails,
       Block, ReadStored, WriteEvaluation, HandlerThrows, JobSucceeds, JobIsCancelled, JobIsRetried, JobFails,
       WorkerDies, EndJob, SearchJobStatus
  <2>3. asked' \in [SearchJobs -> SearchJobStatus]
    BY <1>0, <2>2 DEF TypesOfJobs
  <2> QED
    BY <1>0, <2>1, <2>3 DEF TypesOfJobs, SearchJobStatus
<1>5. TypesOfList'
  <2>1. CASE StorePage(j)
    <3>1. fetcher[j].length \in 0..LastItem /\ fetcher[j].page \in 1..MaxPages /\ fetcher[j].window \in {1, 2}
      BY <1>0 DEF Fetchers
    <3>2. DOMAIN pages' \subseteq {1, 2} \X (1..MaxPages) /\ \A p \in DOMAIN pages': pages'[p] \in 0..LastItem
      BY <1>0, <2>1, <3>1 DEF StorePage, TypesOfList
    <3>3. pageOf' \in [Items -> 0..MaxPages]
      BY <1>0, <2>1, <3>1 DEF StorePage, TypesOfList
    <3> QED
      BY <1>0, <2>1, <3>2, <3>3 DEF StorePage, TypesOfList
  <2>2. CASE UNCHANGED <<listed, pages, pageOf>>
    BY <1>0, <2>2 DEF TypesOfList
  <2> QED
    BY <2>1, <2>2 DEF FetcherStep, Prepare, Plan, Checkpoint, NoCheckpoint, Fetch, FetchRefused, StoreFails,
       Block, ReadStored, WriteEvaluation, HandlerThrows, JobSucceeds, JobIsCancelled, JobIsRetried, JobFails,
       WorkerDies
<1>6. CASE WriteEvaluation(j)
  <2>1. fetcher[j].view \in SUBSET Items
    BY <1>0 DEF Fetchers
  <2> DEFINE chosen == Automatic(fetcher[j].view, fetcher[j].policy, found.born)
  <2>2. chosen \subseteq Items
    BY <2>1, ChosenAreItems
  <2>3. TypesOfCandidates'
    BY <1>0, <1>6, <2>1, <2>2 DEF WriteEvaluation, TypesOfCandidates
  <2>4. found' \in Founds
    BY <1>0, <1>6, <2>2 DEF WriteEvaluation, Founds, MarketSearchStatus, Coverage
  <2> QED
    BY <1>1, <1>2, <1>3, <1>4, <1>5, <2>3, <2>4 DEF TypesInGroups
<1>7. CASE ~WriteEvaluation(j)
  <2>1. UNCHANGED <<reasons, override, included>>
    BY <1>7 DEF FetcherStep, Prepare, Plan, Checkpoint, NoCheckpoint, Fetch, FetchRefused, StorePage, StoreFails,
       Block, ReadStored, HandlerThrows, JobSucceeds, JobIsCancelled, JobIsRetried, JobFails, WorkerDies
  <2>2. TypesOfCandidates'
    BY <1>0, <2>1 DEF TypesOfCandidates
  <2>3. fetcher[j].class \in FailureClass
    BY <1>0 DEF Fetchers
  <2>4. ASSUME Prepare(j) \/ Plan(j) \/ Block(j) PROVE found' \in Founds
    <3>1. \/ found' = found
          \/ found' = [found EXCEPT !.status = "planning", !.class = "none"]
          \/ found' = [found EXCEPT !.status = "fetching"]
          \/ found' = [found EXCEPT !.status = "blocked", !.coverage = "blocked", !.class = fetcher[j].class]
      BY <2>4 DEF Prepare, Plan, Block
    <3> QED
      BY <1>0, <2>3, <3>1 DEF Founds, MarketSearchStatus, Coverage, FailureClass
  <2>5. ASSUME JobIsCancelled(j) \/ JobFails(j) PROVE found' \in Founds
    BY <1>0, <2>5 DEF JobIsCancelled, JobFails, Founds, MarketSearchStatus, Coverage, FailureClass
  <2>6. ASSUME UNCHANGED found PROVE found' \in Founds
    BY <1>0, <2>6 DEF Founds
  <2>7. found' \in Founds
    BY <1>7, <2>4, <2>5, <2>6 DEF FetcherStep, Checkpoint, NoCheckpoint, Fetch, FetchRefused, StorePage,
       StoreFails, ReadStored, HandlerThrows, JobSucceeds, JobIsRetried, WorkerDies
  <2> QED
    BY <1>1, <1>2, <1>3, <1>4, <1>5, <2>2, <2>7 DEF TypesInGroups
<1> QED
  BY <1>6, <1>7

\* Steps of the API and of members.
\* An open override is of a candidate.
OpenIsStored == \A e \in Editors: edit[e] # NoEdit => edit[e].item \in Stored

LEMMA MemberStepTyped ==
    ASSUME TypesInGroups, OpenIsStored, MemberStep PROVE TypesInGroups'
<1> USE DEF candidateVars, jobVars
<1>0. /\ TypesOfList /\ found \in Founds /\ TypesOfCandidates /\ TypesOfJobs
      /\ fetcher \in [SearchJobs -> Fetchers] /\ TypesOfEdits /\ TypesOfShown /\ mishaps \in 0..MaxMishaps
  BY DEF TypesInGroups
<1>1. TypesOfList' /\ TypesOfJobs' /\ mishaps' \in 0..MaxMishaps
  <2>1. UNCHANGED <<listed, pages, pageOf, asked, stop, doubled, mishaps>>
    BY DEF MemberStep, BeginOverride, CommitOverride, AbortOverride, UpdatePolicy, ReadSearch, ConfirmSearch
  <2> QED
    BY <1>0, <2>1 DEF TypesOfList, TypesOfJobs, SearchJobStatus
<1>2. fetcher' \in [SearchJobs -> Fetchers]
  BY <1>0 DEF MemberStep, BeginOverride, CommitOverride, AbortOverride, UpdatePolicy, ReadSearch, ConfirmSearch
<1>3. found.lock < MaxLock => found.lock + 1 \in 1..MaxLock
  BY <1>0, SearchBounds DEF Founds
<1>4. Stored \in SUBSET Items
  BY DEF Stored
<1>5. ASSUME NEW e \in Editors, NEW item \in Judged, NEW decision \in Decision,
             BeginOverride(e, item, decision)
      PROVE TypesInGroups'
  <2>1. With(item, decision) \subseteq Items /\ item \in 0..LastItem
    BY <1>0, SearchBounds DEF With, TypesOfCandidates, Items
  <2>2. edit' \in [Editors -> [item: 0..LastItem, decision: Decision, over: SUBSET Items]]
    BY <1>0, <1>5, <2>1 DEF BeginOverride, TypesOfEdits
  <2>3. met' \in BOOLEAN
    BY <1>0, <1>5 DEF BeginOverride, TypesOfEdits
  <2>4. UNCHANGED <<found, reasons, included, override, shown, snapshot>>
    BY <1>5 DEF BeginOverride
  <2> QED
    BY <1>0, <1>1, <1>2, <2>2, <2>3, <2>4
       DEF TypesInGroups, TypesOfEdits, TypesOfCandidates, TypesOfShown, Founds, Decision
<1>6. ASSUME NEW e \in Editors, CommitOverride(e) PROVE TypesInGroups'
  <2>1. edit[e] \in [item: 0..LastItem, decision: Decision, over: SUBSET Items]
    BY <1>0 DEF TypesOfEdits
  <2>2. override' \in [Items -> Decision]
    BY <1>0, <1>6, <2>1 DEF CommitOverride, TypesOfCandidates
  <2>3. included' \subseteq Items
    BY <1>0, <1>4, <1>6 DEF CommitOverride, With, TypesOfCandidates, OpenIsStored
  <2>4. found' \in Founds
    BY <1>0, <1>3, <1>6, <2>1 DEF CommitOverride, Founds
  <2>5. edit' \in [Editors -> [item: 0..LastItem, decision: Decision, over: SUBSET Items]]
    <3>1. NoEdit \in [item: 0..LastItem, decision: Decision, over: SUBSET Items]
      BY SearchBounds DEF NoEdit, Decision
    <3> QED
      BY <1>0, <1>6, <3>1 DEF CommitOverride, TypesOfEdits
  <2>6. UNCHANGED <<reasons, shown, snapshot, met>>
    BY <1>6 DEF CommitOverride
  <2> QED
    BY <1>0, <1>1, <1>2, <2>2, <2>3, <2>4, <2>5, <2>6
       DEF TypesInGroups, TypesOfEdits, TypesOfCandidates, TypesOfShown, Decision
<1>7. ASSUME NEW e \in Editors, AbortOverride(e) PROVE TypesInGroups'
  <2>1. NoEdit \in [item: 0..LastItem, decision: Decision, over: SUBSET Items]
    BY SearchBounds DEF NoEdit, Decision
  <2>2. edit' \in [Editors -> [item: 0..LastItem, decision: Decision, over: SUBSET Items]]
    BY <1>0, <1>7, <2>1 DEF AbortOverride, TypesOfEdits
  <2>3. UNCHANGED <<found, reasons, included, override, shown, snapshot, met>>
    BY <1>7 DEF AbortOverride
  <2> QED
    BY <1>0, <1>1, <1>2, <2>2, <2>3
       DEF TypesInGroups, TypesOfEdits, TypesOfCandidates, TypesOfShown, Founds, Decision
<1>8. ASSUME NEW policy \in BOOLEAN, UpdatePolicy(policy) PROVE TypesInGroups'
  <2>1. reasons' \subseteq Items /\ included' \subseteq Items
    BY <1>4, <1>8 DEF UpdatePolicy
  <2>2. found' \in Founds
    BY <1>0, <1>3, <1>8, <2>1 DEF UpdatePolicy, Founds
  <2>3. UNCHANGED <<override, edit, shown, snapshot, met>>
    BY <1>8 DEF UpdatePolicy, memberVars
  <2> QED
    BY <1>0, <1>1, <1>2, <2>1, <2>2, <2>3
       DEF TypesInGroups, TypesOfEdits, TypesOfCandidates, TypesOfShown, Decision
<1>9. CASE ReadSearch
  <2>1. shown' \in [lock: 0..MaxLock, included: SUBSET Items]
    BY <1>0, <1>9, SearchBounds DEF ReadSearch, Founds, TypesOfCandidates
  <2>2. UNCHANGED <<found, reasons, included, override, edit, snapshot, met>>
    BY <1>9 DEF ReadSearch
  <2> QED
    BY <1>0, <1>1, <1>2, <2>1, <2>2
       DEF TypesInGroups, TypesOfEdits, TypesOfCandidates, TypesOfShown, Founds, Decision
<1>10. CASE ConfirmSearch
  <2>1. snapshot' \in [taken: BOOLEAN, over: SUBSET Items, included: SUBSET Items, read: SUBSET Items]
    BY <1>0, <1>10 DEF ConfirmSearch, Founds, TypesOfCandidates, TypesOfShown
  <2>2. shown' \in [lock: 0..MaxLock, included: SUBSET Items]
    BY <1>10, SearchBounds DEF ConfirmSearch, NotShown
  <2>3. found' \in Founds
    BY <1>0, <1>3, <1>10 DEF ConfirmSearch, Founds, MarketSearchStatus
  <2>4. UNCHANGED <<reasons, included, override, edit, met>>
    BY <1>10 DEF ConfirmSearch, candidateVars
  <2> QED
    BY <1>0, <1>1, <1>2, <2>1, <2>2, <2>3, <2>4
       DEF TypesInGroups, TypesOfEdits, TypesOfCandidates, TypesOfShown, Decision
<1> QED
  BY <1>5, <1>6, <1>7, <1>8, <1>9, <1>10 DEF MemberStep

\* The source's list and the jobs of the search.
JobStep ==
    \/ ListGrows
    \/ \E j \in SearchJobs:
          \/ \E source \in Sources: CreateSearch(source, j)
          \/ RetrySearch(j) \/ CancelSearch(j) \/ RestartJob(j)

LEMMA JobStepTyped ==
    ASSUME TypesInGroups, JobStep PROVE TypesInGroups'
<1> USE DEF candidateVars, memberVars
<1>0. /\ TypesOfList /\ found \in Founds /\ TypesOfCandidates /\ TypesOfJobs
      /\ fetcher \in [SearchJobs -> Fetchers] /\ TypesOfEdits /\ TypesOfShown /\ mishaps \in 0..MaxMishaps
  BY DEF TypesInGroups
<1>1. fetcher' \in [SearchJobs -> Fetchers] /\ mishaps' \in 0..MaxMishaps
  BY <1>0 DEF JobStep, ListGrows, CreateSearch, RetrySearch, CancelSearch, RestartJob
<1>2. UNCHANGED <<pages, pageOf, reasons, included, override, edit, shown, snapshot, met>>
  BY DEF JobStep, ListGrows, CreateSearch, RetrySearch, CancelSearch, RestartJob
<1>3. TypesOfList'
  <2>1. ListGrows \/ listed' = listed
    BY DEF JobStep, CreateSearch, RetrySearch, CancelSearch, RestartJob
  <2>2. listed' \in FirstListed..LastItem
    BY <1>0, <2>1, SearchBounds DEF TypesOfList, ListGrows
  <2> QED
    BY <1>0, <1>2, <2>2 DEF TypesOfList
<1>4. TypesOfCandidates' /\ TypesOfEdits' /\ TypesOfShown'
  BY <1>0, <1>2 DEF TypesOfCandidates, TypesOfEdits, TypesOfShown, Decision
<1>5. found' \in Founds
  <2>1. listed \in 0..LastItem
    BY <1>0, SearchBounds DEF TypesOfList
  <2>2. ASSUME NEW j \in SearchJobs, NEW source \in Sources, CreateSearch(source, j) PROVE found' \in Founds
    BY <1>0, <2>1, <2>2 DEF CreateSearch, Founds, MarketSearchStatus
  <2>3. ASSUME NEW j \in SearchJobs, RetrySearch(j) \/ CancelSearch(j) PROVE found' \in Founds
    BY <1>0, <2>3 DEF RetrySearch, CancelSearch, Founds, MarketSearchStatus, Coverage, FailureClass
  <2>4. ASSUME UNCHANGED found PROVE found' \in Founds
    BY <1>0, <2>4 DEF Founds
  <2> QED
    BY <2>2, <2>3, <2>4 DEF JobStep, ListGrows, RestartJob
<1>6. TypesOfJobs'
  <2>1. ASSUME NEW j \in SearchJobs, NewJob(j) PROVE TypesOfJobs'
    BY <1>0, <2>1 DEF NewJob, TypesOfJobs, SearchJobStatus
  <2>2. ASSUME NEW j \in SearchJobs, RestartJob(j) PROVE TypesOfJobs'
    BY <1>0, <2>2 DEF RestartJob, TypesOfJobs, SearchJobStatus
  <2>3. ASSUME NEW j \in SearchJobs, CancelSearch(j) PROVE TypesOfJobs'
    BY <1>0, <2>3 DEF CancelSearch, TypesOfJobs, SearchJobStatus
  <2>4. ASSUME ListGrows PROVE TypesOfJobs'
    BY <1>0, <2>4 DEF ListGrows, jobVars, TypesOfJobs, SearchJobStatus
  <2> QED
    BY <2>1, <2>2, <2>3, <2>4 DEF JobStep, CreateSearch, RetrySearch
<1> QED
  BY <1>1, <1>3, <1>4, <1>5, <1>6 DEF TypesInGroups

LEMMA SearchStepsAre ==
    ASSUME [MarketSearchNext]_marketVars
    PROVE JobStep \/ (\E j \in SearchJobs: FetcherStep(j)) \/ MemberStep \/ UNCHANGED marketVars
  BY DEF MarketSearchNext, JobStep

LEMMA SearchTyped ==
    ASSUME MarketSearchTypeOK, OpenIsStored, [MarketSearchNext]_marketVars PROVE MarketSearchTypeOK'
<1>1. TypesInGroups
  BY GroupsAreAll
<1>2. CASE UNCHANGED marketVars
  BY <1>2 DEF marketVars, candidateVars, memberVars, jobVars, MarketSearchTypeOK
<1>3. CASE TypesInGroups'
  BY <1>3, GroupsAreAllNext
<1> QED
  BY <1>1, <1>2, <1>3, SearchStepsAre, JobStepTyped, FetcherStepTyped, MemberStepTyped

-----------------------------------------------------------------------------
(* The jobs of a search.                                                   *)

\* Another job of the search, perhaps while one is unfinished.
LEMMA JobIsAdded ==
    ASSUME TypesInGroups, JobsOK, NEW j \in SearchJobs, ~UnfinishedJob(j), asked[j] # "running",
           asked' = [asked EXCEPT ![j] = "queued"],
           doubled' = (doubled \/ \E k \in SearchJobs: UnfinishedJob(k)), UNCHANGED fetcher
    PROVE JobsOK'
<1>1. \A k \in SearchJobs: asked'[k] = IF k = j THEN "queued" ELSE asked[k]
  BY DEF TypesInGroups, TypesOfJobs
<1>2. fetcher[j].pc = "idle"
  BY DEF JobsOK
<1>3. \A k \in SearchJobs: UnfinishedJob(k)' <=> k = j \/ UnfinishedJob(k)
  BY <1>1 DEF UnfinishedJob
<1>4. ~doubled' => \A i, k \in SearchJobs: UnfinishedJob(i)' /\ UnfinishedJob(k)' => i = k
  BY <1>3
<1> QED
  BY <1>1, <1>2, <1>4 DEF JobsOK

\* A worker's step: its job stays running or is finished with.
LEMMA JobGoesOn ==
    ASSUME TypesInGroups, JobsOK, NEW j \in SearchJobs, UnfinishedJob(j), UNCHANGED doubled,
           NEW h, fetcher' = [fetcher EXCEPT ![j] = h],
           NEW a, asked' = [asked EXCEPT ![j] = a],
           h = Idle \/ (h.pc # "idle" /\ a = "running")
    PROVE JobsOK'
<1>1. \A k \in SearchJobs: /\ asked'[k] = IF k = j THEN a ELSE asked[k]
                           /\ fetcher'[k] = IF k = j THEN h ELSE fetcher[k]
  BY DEF TypesInGroups, TypesOfJobs
<1>2. Idle.pc = "idle"
  BY DEF Idle
<1> QED
  BY <1>1, <1>2 DEF JobsOK, UnfinishedJob

\* What a step of a worker does to it and to its job.
HandMoves(j, h, a) ==
    /\ fetcher' = [fetcher EXCEPT ![j] = h]
    /\ asked' = [asked EXCEPT ![j] = a]
    /\ h = Idle \/ (h.pc # "idle" /\ a = "running")

LEMMA FetcherStepMoves ==
    ASSUME TypesInGroups, JobsOK, NEW j \in SearchJobs, FetcherStep(j)
    PROVE /\ UnfinishedJob(j) /\ UNCHANGED <<doubled, stop>>
          /\ \E h, a: HandMoves(j, h, a)
          /\ ~Prepare(j) => asked[j] = "running"
<1> USE DEF jobVars
<1>1. UNCHANGED <<doubled, stop>>
  BY DEF FetcherStep, Prepare, Plan, Checkpoint, NoCheckpoint, Fetch, FetchRefused, StorePage, StoreFails,
     Block, ReadStored, WriteEvaluation, HandlerThrows, JobSucceeds, JobIsCancelled, JobIsRetried, JobFails,
     WorkerDies, EndJob
<1>2. ~Prepare(j) => fetcher[j].pc # "idle"
  BY DEF FetcherStep, Plan, Checkpoint, NoCheckpoint, Fetch, FetchRefused, StorePage, StoreFails,
     Block, ReadStored, WriteEvaluation, HandlerThrows, JobSucceeds, JobIsCancelled, JobIsRetried, JobFails,
     WorkerDies
<1>3. ~Prepare(j) => asked[j] = "running"
  BY <1>2 DEF JobsOK
<1>4. UnfinishedJob(j)
  BY <1>3 DEF Prepare, Claimable, UnfinishedJob
<1>5. asked[j] = "running" /\ UNCHANGED asked => asked' = [asked EXCEPT ![j] = "running"]
  BY DEF TypesInGroups, TypesOfJobs
<1> DEFINE f == fetcher[j]
<1>6. f \in Fetchers
  BY DEF TypesInGroups
<1>7. ASSUME NEW h \in Fetchers, h.pc # "idle" PROVE Onward(h).pc # "idle" /\ EndOfWindow(h).pc # "idle"
  BY <1>7 DEF Onward, EndOfWindow, NextWindow, Fetchers
<1>8. ASSUME NEW length, f.pc # "idle"
      PROVE WithFailures(f, length) \in Fetchers /\ WithFailures(f, length).pc # "idle"
  BY <1>6, <1>8 DEF WithFailures, Fetchers
<1>9. ASSUME NEW h, fetcher' = [fetcher EXCEPT ![j] = h], h.pc # "idle", UNCHANGED asked, ~Prepare(j)
      PROVE \E a: HandMoves(j, h, a)
  BY <1>3, <1>5, <1>9 DEF HandMoves
<1>10. \E h, a: HandMoves(j, h, a)
  <2>1. CASE Prepare(j)
    <3>1. [Idle EXCEPT !.pc = "finish"].pc = "finish"
          /\ [Idle EXCEPT !.pc = "plan", !.policy = found.policy].pc = "plan"
      BY DEF Idle
    <3> QED
      BY <2>1, <3>1 DEF Prepare, HandMoves
  <2>2. CASE ~Prepare(j) /\ (Plan(j) \/ NoCheckpoint(j) \/ Block(j))
    <3>1. PICK stage \in {"look", "fetch", "failing"}: fetcher' = [fetcher EXCEPT ![j] = [f EXCEPT !.pc = stage]]
      BY <2>2 DEF Plan, NoCheckpoint, Block
    <3>2. [f EXCEPT !.pc = stage].pc = stage /\ UNCHANGED asked
      BY <1>6, <2>2 DEF Fetchers, Plan, NoCheckpoint, Block
    <3> QED
      BY <1>9, <2>2, <3>1, <3>2
  <2>3. CASE ~Prepare(j) /\ Checkpoint(j)
    <3>1. PICK length: fetcher' = [fetcher EXCEPT ![j] = EndOfWindow(WithFailures(f, length))]
                       \/ fetcher' = [fetcher EXCEPT ![j] = Onward(WithFailures(f, length))]
      BY <2>3 DEF Checkpoint
    <3>2. UNCHANGED asked /\ f.pc # "idle"
      BY <2>3 DEF Checkpoint
    <3> QED
      BY <1>7, <1>8, <1>9, <2>3, <3>1, <3>2
  <2>4. CASE ~Prepare(j) /\ Fetch(j)
    <3>1. [WithFailures(f, listed) EXCEPT !.pc = "store", !.length = listed].pc = "store"
      BY <1>8, <2>4 DEF Fetch, Fetchers
    <3> QED
      BY <1>9, <2>4, <3>1 DEF Fetch
  <2>5. CASE ~Prepare(j) /\ (FetchRefused(j) \/ StoreFails(j))
    <3>1. PICK class, retry: fetcher' = [fetcher EXCEPT ![j] = Refused(f, class, retry)]
      BY <2>5 DEF FetchRefused, StoreFails
    <3>2. Refused(f, class, retry).pc = "refused" /\ UNCHANGED asked
      BY <1>6, <2>5 DEF Refused, Fetchers, FetchRefused, StoreFails
    <3> QED
      BY <1>9, <2>5, <3>1, <3>2
  <2>6. CASE ~Prepare(j) /\ StorePage(j)
    <3>1. f.pc # "idle" /\ UNCHANGED asked
      BY <2>6 DEF StorePage
    <3>2. fetcher' = [fetcher EXCEPT ![j] = EndOfWindow(f)] \/ fetcher' = [fetcher EXCEPT ![j] = Onward(f)]
      BY <2>6 DEF StorePage
    <3> QED
      BY <1>6, <1>7, <1>9, <2>6, <3>1, <3>2
  <2>7. CASE ~Prepare(j) /\ ReadStored(j)
    <3>1. fetcher' = [fetcher EXCEPT ![j] = [f EXCEPT !.pc = "write", !.view = Stored]]
      BY <2>7 DEF ReadStored, TypesInGroups, Fetchers
    <3>2. [f EXCEPT !.pc = "write", !.view = Stored].pc = "write" /\ UNCHANGED asked
      BY <1>6, <2>7 DEF Fetchers, ReadStored
    <3> QED
      BY <1>9, <2>7, <3>1, <3>2
  <2>8. CASE ~Prepare(j) /\ WriteEvaluation(j)
    <3>1. [Idle EXCEPT !.pc = "finish"].pc = "finish" /\ UNCHANGED asked
      BY <2>8 DEF Idle, WriteEvaluation
    <3> QED
      BY <1>9, <2>8, <3>1 DEF WriteEvaluation
  <2>9. CASE ~Prepare(j) /\ HandlerThrows(j)
    <3>1. PICK retry: fetcher' = [fetcher EXCEPT ![j] = [Idle EXCEPT !.pc = "failing", !.retry = retry]]
      BY <2>9 DEF HandlerThrows
    <3>2. [Idle EXCEPT !.pc = "failing", !.retry = retry].pc = "failing" /\ UNCHANGED asked
      BY <2>9 DEF Idle, HandlerThrows
    <3> QED
      BY <1>9, <2>9, <3>1, <3>2
  <2>10. CASE ~Prepare(j) /\ WorkerDies(j)
    BY <1>3, <1>5, <2>10 DEF WorkerDies, HandMoves
  <2>11. CASE JobSucceeds(j) \/ JobIsCancelled(j) \/ JobIsRetried(j) \/ JobFails(j)
    BY <2>11 DEF JobSucceeds, JobIsCancelled, JobIsRetried, JobFails, EndJob, HandMoves
  <2> QED
    BY <2>1, <2>2, <2>3, <2>4, <2>5, <2>6, <2>7, <2>8, <2>9, <2>10, <2>11 DEF FetcherStep
<1> QED
  BY <1>1, <1>3, <1>4, <1>10

LEMMA JobsKept == ASSUME TypesInGroups, JobsOK, [MarketSearchNext]_marketVars PROVE JobsOK'
<1> USE DEF jobVars
<1>1. ASSUME NEW j \in SearchJobs, FetcherStep(j) PROVE JobsOK'
  BY <1>1, FetcherStepMoves, JobGoesOn DEF HandMoves
<1>2. CASE MemberStep \/ ListGrows \/ UNCHANGED marketVars
  <2>1. UNCHANGED <<asked, doubled, fetcher>>
    BY <1>2 DEF MemberStep, BeginOverride, CommitOverride, AbortOverride, UpdatePolicy, ReadSearch,
       ConfirmSearch, ListGrows, marketVars
  <2> QED
    BY <2>1 DEF JobsOK, UnfinishedJob
<1>3. ASSUME NEW j \in SearchJobs, NEW source \in Sources, CreateSearch(source, j) PROVE JobsOK'
  BY <1>3, JobIsAdded DEF CreateSearch, NewJob, UnfinishedJob
<1>4. ASSUME NEW j \in SearchJobs, RetrySearch(j) PROVE JobsOK'
  BY <1>4, JobIsAdded DEF RetrySearch, NewJob, UnfinishedJob
<1>5. ASSUME NEW j \in SearchJobs, RestartJob(j) PROVE JobsOK'
  BY <1>5, JobIsAdded DEF RestartJob, UnfinishedJob
<1>6. ASSUME NEW j \in SearchJobs, CancelSearch(j) PROVE JobsOK'
  <2>1. /\ \A k \in SearchJobs: asked'[k] = asked[k] \/ (asked[k] = "queued" /\ asked'[k] = "cancelled")
        /\ UNCHANGED <<doubled, fetcher>>
    BY <1>6 DEF CancelSearch, TypesInGroups, TypesOfJobs
  <2> QED
    BY <2>1 DEF JobsOK, UnfinishedJob
<1> QED
  BY <1>1, <1>2, <1>3, <1>4, <1>5, <1>6, SearchStepsAre DEF JobStep

\* Without an overlap, only one worker is at work.
LEMMA OneWorks ==
    ASSUME JobsOK, ~doubled, NEW j \in SearchJobs, UnfinishedJob(j), NEW k \in SearchJobs, fetcher[k].pc # "idle"
    PROVE k = j
  BY DEF JobsOK, UnfinishedJob

-----------------------------------------------------------------------------
(* What a member reads and confirms.                                       *)

PriceInv == ShownOK /\ StatisticsOK /\ SnapshotAgrees /\ ConfirmedAsRead

\* A worker's step that is not its evaluation.
LEMMA FetcherStepFound ==
    ASSUME TypesInGroups, NEW j \in SearchJobs, FetcherStep(j), ~WriteEvaluation(j)
    PROVE /\ UNCHANGED <<included, reasons, override, found.over, found.lock, found.born, found.source>>
          /\ found'.status \in Viewable => found.status \in Viewable
          /\ found.status \in Viewable /\ ~Works(j) => found'.status = found.status /\ ~Works(j)'
<1> USE DEF candidateVars
<1>0. found \in Founds /\ fetcher \in [SearchJobs -> Fetchers]
  BY DEF TypesInGroups
<1>1. UNCHANGED <<included, reasons, override>>
  BY DEF FetcherStep, Prepare, Plan, Checkpoint, NoCheckpoint, Fetch, FetchRefused, StorePage, StoreFails,
     Block, ReadStored, HandlerThrows, JobSucceeds, JobIsCancelled, JobIsRetried, JobFails, WorkerDies
<1>2. \/ /\ UNCHANGED found
         /\ \/ Prepare(j) \/ Checkpoint(j) \/ NoCheckpoint(j) \/ Fetch(j) \/ FetchRefused(j) \/ StorePage(j)
            \/ StoreFails(j) \/ ReadStored(j) \/ HandlerThrows(j) \/ JobSucceeds(j) \/ JobIsRetried(j)
            \/ WorkerDies(j)
      \/ Prepare(j) /\ found' = [found EXCEPT !.status = "planning", !.class = "none"]
      \/ Plan(j) \/ Block(j) \/ JobIsCancelled(j) \/ JobFails(j)
  BY DEF FetcherStep, Prepare, Plan, Checkpoint, NoCheckpoint, Fetch, FetchRefused, StorePage, StoreFails,
     Block, ReadStored, HandlerThrows, JobSucceeds, JobIsCancelled, JobIsRetried, JobFails, WorkerDies
<1>3. UNCHANGED <<found.over, found.lock, found.born, found.source>>
  BY <1>0, <1>2 DEF Plan, Block, JobIsCancelled, JobFails, Founds
<1>4. found'.status \in Viewable => found.status \in Viewable
  BY <1>0, <1>2 DEF Plan, Block, JobIsCancelled, JobFails, Founds, Viewable
<1>5. ASSUME found.status \in Viewable, ~Works(j) PROVE found'.status = found.status /\ ~Works(j)'
  <2>1. found.status \in {"ready", "partial"}
    BY <1>0, <1>5 DEF Viewable, Founds, MarketSearchStatus
  <2>2. Prepare(j) \/ JobSucceeds(j) \/ JobIsCancelled(j) \/ JobIsRetried(j) \/ JobFails(j) \/ WorkerDies(j)
    BY <1>5 DEF FetcherStep, Plan, Checkpoint, NoCheckpoint, Fetch, FetchRefused, StorePage, StoreFails,
       Block, ReadStored, HandlerThrows, Works
  <2>3. found'.status = found.status
    BY <1>0, <2>1, <2>2 DEF Prepare, JobSucceeds, JobIsCancelled, JobIsRetried, JobFails, WorkerDies, Founds
  <2>4. fetcher' = [fetcher EXCEPT ![j] = Idle] \/ fetcher' = [fetcher EXCEPT ![j] = [Idle EXCEPT !.pc = "finish"]]
    BY <2>1, <2>2 DEF Prepare, JobSucceeds, JobIsCancelled, JobIsRetried, JobFails, WorkerDies, EndJob
  <2>5. fetcher'[j].pc \in {"idle", "finish"}
    BY <1>0, <2>4 DEF Idle
  <2> QED
    BY <2>3, <2>5 DEF Works
<1> QED
  BY <1>1, <1>3, <1>4, <1>5

\* A worker neither confirms nor overrides.
LEMMA FetcherStepAside ==
    ASSUME NEW j \in SearchJobs, FetcherStep(j) PROVE UNCHANGED <<edit, shown, snapshot, met, doubled>>
  BY DEF FetcherStep, Prepare, Plan, Checkpoint, NoCheckpoint, Fetch, FetchRefused, StorePage, StoreFails,
     Block, ReadStored, WriteEvaluation, HandlerThrows, JobSucceeds, JobIsCancelled, JobIsRetried, JobFails,
     WorkerDies, EndJob, memberVars, jobVars

LEMMA StoredStays ==
    ASSUME TypesInGroups, NEW j \in SearchJobs, FetcherStep(j)
    PROVE Stored \subseteq Stored' /\ (Stored' = Stored \/ StorePage(j))
<1>1. ASSUME StorePage(j) PROVE Stored \subseteq Stored'
  BY <1>1 DEF StorePage, Stored
<1>2. ASSUME ~StorePage(j) PROVE Stored' = Stored
  <2>1. UNCHANGED pageOf
    BY <1>2 DEF FetcherStep, Prepare, Plan, Checkpoint, NoCheckpoint, Fetch, FetchRefused, StoreFails,
       Block, ReadStored, WriteEvaluation, HandlerThrows, JobSucceeds, JobIsCancelled, JobIsRetried, JobFails,
       WorkerDies, candidateVars
  <2> QED
    BY <2>1 DEF Stored
<1> QED
  BY <1>1, <1>2

\* What a worker is to write is what it has read.
LEMMA ViewIsStored ==
    ASSUME TypesInGroups, JobsOK, StatisticsOK, NEW j \in SearchJobs, FetcherStep(j),
           NEW k \in SearchJobs, fetcher'[k].pc = "write"
    PROVE fetcher'[k].view \subseteq Stored' /\ (~doubled => fetcher'[k].view = Stored')
<1>0. fetcher \in [SearchJobs -> Fetchers]
  BY DEF TypesInGroups
<1>1. CASE k = j
  <2>1. ReadStored(j)
    <3>1. Idle.pc = "idle" /\ [Idle EXCEPT !.pc = "finish"].pc = "finish"
          /\ [Idle EXCEPT !.pc = "plan", !.policy = found.policy].pc = "plan"
          /\ \A retry: [Idle EXCEPT !.pc = "failing", !.retry = retry].pc = "failing"
      BY DEF Idle
    <3>2. \A h \in Fetchers: Onward(h).pc # "write" /\ (EndOfWindow(h).pc # "write")
      BY DEF Onward, EndOfWindow, NextWindow, Fetchers
    <3>3. \A length: WithFailures(fetcher[j], length) \in Fetchers
      <4>1. fetcher[j] \in Fetchers
        BY <1>0
      <4> QED
        BY <4>1 DEF WithFailures, Fetchers
    <3>4. \A class, retry: Refused(fetcher[j], class, retry).pc = "refused"
      BY <1>0 DEF Refused, Fetchers
    <3>5. \A length: [WithFailures(fetcher[j], length) EXCEPT !.pc = "store", !.length = length].pc = "store"
      BY <3>3 DEF Fetchers
    <3>6. ~Prepare(j) /\ ~WriteEvaluation(j) /\ ~HandlerThrows(j) /\ ~WorkerDies(j)
          /\ ~JobSucceeds(j) /\ ~JobIsCancelled(j) /\ ~JobIsRetried(j) /\ ~JobFails(j)
      BY <1>0, <1>1, <3>1 DEF Prepare, WriteEvaluation, HandlerThrows, WorkerDies, JobSucceeds, JobIsCancelled,
         JobIsRetried, JobFails, EndJob
    <3>7. ~Plan(j) /\ ~NoCheckpoint(j) /\ ~Block(j)
      BY <1>0, <1>1 DEF Plan, NoCheckpoint, Block, Fetchers
    <3>8. ~Checkpoint(j) /\ ~StorePage(j)
      BY <1>0, <1>1, <3>2, <3>3 DEF Checkpoint, StorePage
    <3>9. ~Fetch(j)
      BY <1>0, <1>1, <3>5 DEF Fetch
    <3>10. ~FetchRefused(j) /\ ~StoreFails(j)
      <4>1. ASSUME FetchRefused(j) \/ StoreFails(j)
            PROVE \E class, retry: fetcher' = [fetcher EXCEPT ![j] = Refused(fetcher[j], class, retry)]
        BY <4>1 DEF FetchRefused, StoreFails
      <4> QED
        BY <1>0, <1>1, <3>4, <4>1
    <3> QED
      BY <3>6, <3>7, <3>8, <3>9, <3>10 DEF FetcherStep
  <2>2. fetcher'[j].view = Stored /\ Stored' = Stored
    BY <1>0, <2>1 DEF ReadStored, candidateVars, Stored, Fetchers
  <2> QED
    BY <1>1, <2>2
<1>2. CASE k # j
  <2>1. fetcher'[k] = fetcher[k]
    BY <1>0, <1>2, FetcherStepMoves DEF HandMoves
  <2>2. fetcher[k].view \subseteq Stored /\ (~doubled => fetcher[k].view = Stored)
    BY <2>1 DEF StatisticsOK
  <2>3. doubled
    BY <1>2, <2>1, OneWorks, FetcherStepMoves
  <2> QED
    BY <2>1, <2>2, <2>3, StoredStays
<1> QED
  BY <1>1, <1>2

LEMMA PriceOfWorkers ==
    ASSUME TypesInGroups, JobsOK, PriceInv, NEW j \in SearchJobs, FetcherStep(j) PROVE PriceInv'
<1> USE DEF PriceInv
<1>0. found \in Founds /\ fetcher \in [SearchJobs -> Fetchers]
  BY DEF TypesInGroups
<1>1. UNCHANGED <<edit, shown, snapshot, met, doubled>>
  BY FetcherStepAside
<1>2. SnapshotAgrees' /\ ConfirmedAsRead'
  BY <1>1 DEF SnapshotAgrees, ConfirmedAsRead
<1>3. \A k \in SearchJobs: k # j => fetcher'[k] = fetcher[k]
  BY <1>0, FetcherStepMoves DEF HandMoves
<1>4. Stored \subseteq Stored'
  BY StoredStays
<1>5. CASE ~WriteEvaluation(j)
  <2>1. /\ UNCHANGED <<included, reasons, override, found.over, found.lock>>
        /\ found'.status \in Viewable => found.status \in Viewable
        /\ found.status \in Viewable /\ ~Works(j) => found'.status = found.status /\ ~Works(j)'
    BY <1>5, FetcherStepFound
  <2>2. ShownOK'
    BY <1>1, <1>3, <2>1 DEF ShownOK, Works
  <2>3. \A e \in Editors: EditOK(e)'
    BY <1>1, <1>4, <2>1 DEF StatisticsOK, EditOK, With
  <2>4. StatisticsOK'
    BY <1>1, <1>4, <2>1, <2>3, ViewIsStored DEF StatisticsOK
  <2> QED
    BY <1>2, <2>2, <2>4
<1>6. CASE WriteEvaluation(j)
  <2> DEFINE chosen == Automatic(fetcher[j].view, fetcher[j].policy, found.born)
  <2>1. chosen \subseteq fetcher[j].view
    <3>1. fetcher[j].view \in SUBSET Items
      BY <1>0 DEF Fetchers
    <3> QED
      BY <3>1, ChosenAreItems
  <2>2. /\ fetcher[j].pc = "write" /\ included' = (included \ fetcher[j].view) \cup chosen
        /\ found'.over = chosen /\ found'.lock = found.lock /\ found'.status \in Viewable
        /\ fetcher'[j].pc = "finish" /\ \A e \in Editors: edit[e] = NoEdit
    BY <1>0, <1>6 DEF WriteEvaluation, Founds, Viewable, NoneOpen, Idle
  <2>3. UnfinishedJob(j)
    BY FetcherStepMoves
  <2>4. ~doubled => \A k \in SearchJobs: ~Works(k)'
    <3>1. ASSUME ~doubled, NEW k \in SearchJobs, k # j PROVE fetcher[k].pc = "idle"
      BY <2>3, <3>1, OneWorks
    <3> QED
      BY <1>3, <2>2, <3>1 DEF Works
  <2>5. ~doubled => found.status \notin Viewable
    BY <2>2 DEF ShownOK, Works
  <2>6. ShownOK'
    BY <1>1, <2>2, <2>4, <2>5 DEF ShownOK
  <2>7. fetcher[j].view \subseteq Stored /\ (~doubled => fetcher[j].view = Stored)
    BY <2>2 DEF StatisticsOK
  <2>8. included' \subseteq Stored' /\ (~doubled => found'.over = included')
    BY <1>4, <2>1, <2>2, <2>7 DEF StatisticsOK
  <2>9. \A e \in Editors: EditOK(e)'
    BY <1>1, <2>2 DEF EditOK
  <2>10. StatisticsOK'
    BY <1>1, <2>8, <2>9, ViewIsStored DEF StatisticsOK
  <2> QED
    BY <1>2, <2>6, <2>10
<1> QED
  BY <1>5, <1>6

\* The list and the jobs: what can be viewed stays so.
LEMMA PriceOfJobs == ASSUME TypesInGroups, PriceInv, JobStep PROVE PriceInv'
<1> USE DEF PriceInv
<1>1. UNCHANGED <<pageOf, reasons, included, override, fetcher, edit, shown, snapshot, met>> /\ (doubled => doubled')
  <2>1. UNCHANGED <<pageOf, reasons, included, override, fetcher, edit, shown, snapshot, met>>
    BY DEF JobStep, ListGrows, CreateSearch, RetrySearch, CancelSearch, RestartJob, candidateVars, memberVars
  <2>2. doubled => doubled'
    BY DEF JobStep, ListGrows, CreateSearch, RetrySearch, CancelSearch, RestartJob, NewJob, jobVars
  <2> QED
    BY <2>1, <2>2
<1>2. UNCHANGED <<found.lock, found.over>> /\ (found'.status \in Viewable <=> found.status \in Viewable)
  <2>1. ASSUME NEW j \in SearchJobs, NEW source \in Sources, CreateSearch(source, j)
        PROVE UNCHANGED <<found.lock, found.over>> /\ (found'.status \in Viewable <=> found.status \in Viewable)
    BY <2>1 DEF CreateSearch, Viewable, TypesInGroups, Founds
  <2>2. ASSUME NEW j \in SearchJobs, RetrySearch(j) \/ CancelSearch(j)
        PROVE UNCHANGED <<found.lock, found.over>> /\ (found'.status \in Viewable <=> found.status \in Viewable)
    BY <2>2 DEF RetrySearch, CancelSearch, Viewable, TypesInGroups, Founds
  <2> QED
    BY <2>1, <2>2 DEF JobStep, ListGrows, RestartJob
<1>3. Stored' = Stored
  BY <1>1 DEF Stored
<1>4. ShownOK'
  BY <1>1, <1>2 DEF ShownOK, Works
<1>5. StatisticsOK'
  BY <1>1, <1>2, <1>3 DEF StatisticsOK, EditOK, With
<1>6. SnapshotAgrees' /\ ConfirmedAsRead'
  BY <1>1 DEF SnapshotAgrees, ConfirmedAsRead
<1> QED
  BY <1>4, <1>5, <1>6

LEMMA PriceOfMembers == ASSUME TypesInGroups, PriceInv, MemberStep PROVE PriceInv'
<1> USE DEF PriceInv
<1>0. found \in Founds /\ found.lock \in Nat
  BY SearchBounds DEF TypesInGroups, Founds
<1>1. UNCHANGED <<pageOf, fetcher, doubled>> /\ Stored' = Stored
  BY DEF MemberStep, BeginOverride, CommitOverride, AbortOverride, UpdatePolicy, ReadSearch, ConfirmSearch,
     candidateVars, jobVars, Stored
<1>2. edit \in [Editors -> [item: 0..LastItem, decision: Decision, over: SUBSET Items]]
  BY DEF TypesInGroups, TypesOfEdits
<1>3. shown.lock \in Nat
  BY SearchBounds DEF TypesInGroups, TypesOfShown
<1>4. \A k \in SearchJobs: Works(k)' <=> Works(k)
  BY <1>1 DEF Works
<1>5. ASSUME NEW e \in Editors, NEW item \in Judged, NEW decision \in Decision, BeginOverride(e, item, decision)
      PROVE PriceInv'
  <2>1. UNCHANGED <<found, included, reasons, shown, snapshot>> /\ (met => met')
    BY <1>5 DEF BeginOverride, candidateVars
  <2>2. \A d \in Editors: edit'[d] = IF d = e THEN [item |-> item, decision |-> decision, over |-> With(item, decision)]
                                     ELSE edit[d]
    BY <1>2, <1>5 DEF BeginOverride
  <2>3. ASSUME NEW d \in Editors PROVE EditOK(d)'
    <3>1. CASE d = e
      <4>1. edit'[d].item = item /\ edit'[d].decision = decision /\ edit'[d].over = With(item, decision)
        BY <2>2, <3>1
      <4>2. With(item, decision)' = With(item, decision)
        BY <2>1 DEF With
      <4>3. item \in Stored'
        BY <1>1, <1>5 DEF BeginOverride
      <4> QED
        BY <4>1, <4>2, <4>3 DEF EditOK, With
    <3>2. CASE d # e
      <4>1. EditOK(d) /\ edit'[d] = edit[d]
        BY <2>2, <3>2 DEF StatisticsOK
      <4> QED
        BY <1>1, <2>1, <4>1 DEF EditOK, With
    <3> QED
      BY <3>1, <3>2
  <2>4. ~met' => \A d \in Editors: edit[d] = NoEdit
    BY <1>5 DEF BeginOverride, NoneOpen
  <2>5. ~met' => \A c, d \in Editors: edit'[c] # NoEdit /\ edit'[d] # NoEdit => c = d
    BY <2>2, <2>4
  <2>6. StatisticsOK'
    BY <1>1, <2>1, <2>3, <2>5 DEF StatisticsOK
  <2> QED
    BY <1>1, <1>4, <2>1, <2>6 DEF ShownOK, SnapshotAgrees, ConfirmedAsRead
<1>6. ASSUME NEW e \in Editors, CommitOverride(e) PROVE PriceInv'
  <2>1. /\ UNCHANGED <<reasons, shown, snapshot, met, found.status>> /\ edit[e] # NoEdit
        /\ included' = With(edit[e].item, edit[e].decision)
        /\ found'.over = edit[e].over /\ found'.lock = found.lock + 1
    BY <1>0, <1>6 DEF CommitOverride, Founds
  <2>2. \A d \in Editors: edit'[d] = IF d = e THEN NoEdit ELSE edit[d]
    BY <1>2, <1>6 DEF CommitOverride
  <2>3. EditOK(e)
    BY DEF StatisticsOK
  <2>4. included' \subseteq Stored
    BY <2>1, <2>3 DEF EditOK, With, StatisticsOK
  <2>5. ~met => \A d \in Editors: edit'[d] = NoEdit
    BY <2>1, <2>2 DEF StatisticsOK
  <2>6. \A d \in Editors: EditOK(d)'
    BY <1>1, <2>1, <2>2, <2>5 DEF StatisticsOK, EditOK
  <2>7. StatisticsOK'
    BY <1>1, <2>1, <2>3, <2>4, <2>5, <2>6 DEF StatisticsOK, EditOK
  <2>8. ShownOK'
    BY <1>0, <1>1, <1>3, <1>4, <2>1 DEF ShownOK
  <2> QED
    BY <1>1, <2>1, <2>7, <2>8 DEF SnapshotAgrees, ConfirmedAsRead
<1>7. ASSUME NEW e \in Editors, AbortOverride(e) PROVE PriceInv'
  <2>1. UNCHANGED <<found, included, reasons, shown, snapshot, met>>
    BY <1>7 DEF AbortOverride, candidateVars
  <2>2. \A d \in Editors: edit'[d] = IF d = e THEN NoEdit ELSE edit[d]
    BY <1>2, <1>7 DEF AbortOverride
  <2>3. \A d \in Editors: EditOK(d)'
    BY <1>1, <2>1, <2>2 DEF StatisticsOK, EditOK, With
  <2>4. StatisticsOK'
    BY <1>1, <2>1, <2>2, <2>3 DEF StatisticsOK
  <2> QED
    BY <1>1, <1>4, <2>1, <2>4 DEF ShownOK, SnapshotAgrees, ConfirmedAsRead
<1>8. ASSUME NEW policy \in BOOLEAN, UpdatePolicy(policy) PROVE PriceInv'
  <2>1. /\ UNCHANGED <<edit, shown, snapshot, met, found.status>> /\ included' \subseteq Stored
        /\ found'.over = included' /\ found'.lock = found.lock + 1 /\ \A e \in Editors: edit[e] = NoEdit
    BY <1>0, <1>8 DEF UpdatePolicy, Founds, memberVars, NoneOpen
  <2>2. StatisticsOK'
    BY <1>1, <2>1 DEF StatisticsOK, EditOK
  <2>3. ShownOK'
    BY <1>0, <1>1, <1>3, <1>4, <2>1 DEF ShownOK
  <2> QED
    BY <1>1, <2>1, <2>2, <2>3 DEF SnapshotAgrees, ConfirmedAsRead
<1>9. CASE ReadSearch
  <2>1. /\ UNCHANGED <<found, included, reasons, edit, snapshot, met>>
        /\ found.status \in Viewable /\ shown'.lock = found.lock /\ shown'.included = included
    BY <1>9 DEF ReadSearch, candidateVars
  <2>2. StatisticsOK'
    BY <1>1, <2>1 DEF StatisticsOK, EditOK, With
  <2> QED
    BY <1>0, <1>1, <1>4, <2>1, <2>2 DEF ShownOK, SnapshotAgrees, ConfirmedAsRead
<1>10. CASE ConfirmSearch
  <2>1. /\ UNCHANGED <<included, reasons, edit, met>> /\ found'.status = "confirmed"
        /\ found.status \in Viewable /\ shown.lock = found.lock /\ shown' = NotShown
        /\ found'.lock = found.lock + 1
        /\ snapshot'.over = found.over /\ snapshot'.included = included /\ snapshot'.read = shown.included
    BY <1>0, <1>10 DEF ConfirmSearch, Confirmable, Founds, candidateVars
  <2>2. SnapshotAgrees' /\ ConfirmedAsRead'
    BY <1>1, <2>1 DEF SnapshotAgrees, ConfirmedAsRead, StatisticsOK, ShownOK
  <2>3. StatisticsOK'
    BY <1>1, <2>1 DEF StatisticsOK, EditOK, With, Viewable
  <2>4. ShownOK'
    BY <1>0, <2>1 DEF ShownOK, NotShown, Viewable
  <2> QED
    BY <2>2, <2>3, <2>4
<1> QED
  BY <1>5, <1>6, <1>7, <1>8, <1>9, <1>10 DEF MemberStep

LEMMA PriceKept == ASSUME TypesInGroups, JobsOK, PriceInv, [MarketSearchNext]_marketVars PROVE PriceInv'
<1>1. CASE UNCHANGED marketVars
  BY <1>1 DEF marketVars, candidateVars, memberVars, jobVars, PriceInv, ShownOK, StatisticsOK, EditOK, With,
     Works, Stored, SnapshotAgrees, ConfirmedAsRead
<1> QED
  BY <1>1, SearchStepsAre, PriceOfWorkers, PriceOfJobs, PriceOfMembers

-----------------------------------------------------------------------------
(* Pages.                                                                  *)

\* The oldest item that a page reaches is the period's, or the list's.
LEMMA OldestReached ==
    ASSUME NEW n \in Nat, NEW length \in Nat, NEW i \in Items, EndedAt[i] > PeriodStart,
           Short(length, n) \/ LastPage(length, n) \/ ReachesStart(length, n)
    PROVE length - n * PageSize < i
<1>0. n * PageSize \in Int
  BY SearchBounds
<1>1. CASE Short(length, n) \/ LastPage(length, n)
  BY <1>0, <1>1 DEF Short, LastPage, Items
<1>2. CASE ReachesStart(length, n)
  <2>1. PICK k \in PageItems(length, n): EndedAt[k] <= PeriodStart
    BY <1>2 DEF ReachesStart, Parsed
  <2>2. k \in Items /\ length - n * PageSize < k
    BY <2>1 DEF PageItems
  <2>3. EndedAt[i] \in Nat /\ EndedAt[k] \in Nat
    BY <2>2
  <2>4. ~(i <= k)
    BY <2>1, <2>2, <2>3, SearchBounds
  <2> QED
    BY <1>0, <2>2, <2>4 DEF Items
<1> QED
  BY <1>1, <1>2

LEMMA CoveredBy ==
    ASSUME NEW n \in Nat, NEW length \in Nat, NEW missed \in SUBSET Unreadable,
           ReadTo(length - n * PageSize, missed), ~doubled => missed = {},
           Short(length, n) \/ LastPage(length, n) \/ ReachesStart(length, n)
    PROVE Covered
  BY OldestReached DEF Covered, ReadTo

\* The same of the state after a step.
LEMMA CoveredByNext ==
    ASSUME NEW n \in Nat, NEW length \in Nat, NEW missed \in SUBSET Unreadable,
           \A i \in Items: i <= found'.born /\ length - n * PageSize < i => i \in Stored' \/ i \in missed,
           ~doubled' => missed = {},
           Short(length, n) \/ LastPage(length, n) \/ ReachesStart(length, n)
    PROVE Covered'
  BY OldestReached DEF Covered

LEMMA MissedNone == Missed(0) = {}
  BY DEF Missed

LEMMA MissedNext ==
    ASSUME NEW n \in Nat \ {0}, Stores(n)
    PROVE Missed(n) = Missed(n - 1) \cup (PageItems(Length(n), n) \cap Unreadable)
<1>1. \A r: r \in 1..n <=> r \in 1..(n - 1) \/ r = n
  OBVIOUS
<1> QED
  BY <1>1 DEF Missed

\* A page at or behind the one before it leaves no gap.
LEMMA PageJoins ==
    ASSUME NEW n \in Nat \ {0}, NEW length \in Nat, found.born \in Nat, found.born <= length,
           n > 1 => /\ Length(n - 1) \in Nat /\ Length(n - 1) <= length
                    /\ ReadTo(Length(n - 1) - (n - 1) * PageSize, Missed(n - 1)),
           NEW i \in Items, i <= found.born, length - n * PageSize < i, i \notin Stored, i \notin Missed(n - 1)
    PROVE i \in PageItems(length, n)
<1>1. PICK a \in Int: a = (n - 1) * PageSize
  BY SearchBounds
<1>2. i \in Int
  BY SearchBounds DEF Items
<1>3. i <= length - a
  <2>1. CASE n = 1
    <3>1. a = 0
      BY <1>1, <2>1, SearchBounds
    <3> QED
      BY <1>2, <3>1
  <2>2. CASE n > 1
    <3>1. ~(Length(n - 1) - a < i)
      BY <1>1, <2>2 DEF ReadTo
    <3>2. Length(n - 1) \in Nat /\ Length(n - 1) <= length
      BY <2>2
    <3> QED
      BY <1>1, <1>2, <3>1, <3>2
  <2>3. n = 1 \/ n > 1
    OBVIOUS
  <2> QED
    BY <2>1, <2>2, <2>3
<1>4. i <= length - (n - 1) * PageSize
  BY <1>1, <1>3
<1> QED
  BY <1>4 DEF PageItems

\* Nothing is stored or removed, the list may have grown.
LEMMA RowsStay ==
    ASSUME PagesOK, Yahoo, UNCHANGED <<pages, pageOf, found.born>>, listed <= listed', listed \in Nat, listed' \in Nat,
           found.born \in Nat, MarketSearchTypeOK
    PROVE \A n \in 1..MaxPages: RowOK(n)' /\ RowCovers(n)'
<1> SUFFICES ASSUME NEW n \in 1..MaxPages PROVE RowOK(n)' /\ RowCovers(n)'
  OBVIOUS
<1>1. RowOK(n) /\ RowCovers(n)
  BY DEF PagesOK
<1>2. Stores(n) => Length(n) \in Nat
  BY SearchBounds DEF Stores, Length, MarketSearchTypeOK
<1>3. RowOK(n)'
  BY <1>1, <1>2 DEF RowOK, Stores, Length
<1>4. RowCovers(n)'
  BY <1>1 DEF RowCovers, ReadTo, Missed, Stores, Length, Stored
<1> QED
  BY <1>3, <1>4

LEMMA CoveredStays ==
    ASSUME Covered, Stored \subseteq Stored', UNCHANGED found.born, doubled => doubled' PROVE Covered'
  BY DEF Covered

\* A worker is not concerned by what others do, as long as rows stay.
LEMMA ReaderStays ==
    ASSUME NEW j \in SearchJobs, ReaderOK(j), fetcher'[j] = fetcher[j],
           UNCHANGED <<pages, pageOf, found.born>>, doubled => doubled',
           listed <= listed', listed \in Nat, listed' \in Nat, fetcher[j].length \in Nat
    PROVE ReaderOK(j)'
<1>1. Stored' = Stored
  BY DEF Stored
<1>2. Covered => Covered'
  BY <1>1, CoveredStays
<1> QED
  BY <1>2 DEF ReaderOK, Stores, Length, Missed

\* A page of Yahoo is stored: what is there stays, and with what it could not
\* read the new page leaves no gap.
PageAdded(n, length) ==
    /\ n \in Nat \ {0} /\ n \in 1..MaxPages /\ length \in Nat
    /\ \A m \in 1..MaxPages: Stores(m) => Stores(m)' /\ Length(m)' = Length(m)
    /\ Stores(n)' /\ (~Stores(n) => Length(n)' = length)
    /\ \A m \in 1..MaxPages: Stores(m)' => Stores(m) \/ m = n
    /\ Stored \subseteq Stored'
    /\ \A m \in 1..MaxPages: Missed(m) \subseteq Missed(m)'
    /\ Missed(n - 1)' = Missed(n - 1)
    /\ ReadTo(length - n * PageSize, Missed(n - 1) \cup (PageItems(length, n) \cap Unreadable))'

LEMMA PageIsStored ==
    ASSUME TypesInGroups, PagesOK, Yahoo, NEW j \in SearchJobs, StorePage(j),
           NEW n, n = fetcher[j].page, NEW length, length = fetcher[j].length
    PROVE PageAdded(n, length)
<1>1. fetcher[j] \in Fetchers /\ ReaderOK(j) /\ fetcher[j].pc = "store"
  BY DEF TypesInGroups, PagesOK, StorePage
<1>2. n \in Nat \ {0} /\ n \in 1..MaxPages /\ length \in Nat /\ n - 1 \in Nat
  BY <1>1, SearchBounds DEF Fetchers
<1>3. /\ pages' = [q \in DOMAIN pages \cup {<<1, n>>} |-> IF q \in DOMAIN pages THEN pages[q] ELSE length]
      /\ pageOf' = [i \in Items |-> IF pageOf[i] = 0 /\ i \in Parsed(length, n) THEN n ELSE pageOf[i]]
      /\ UNCHANGED found
  BY <1>1 DEF StorePage, ReaderOK
<1>4. \A m \in 1..MaxPages: Stores(m) => Stores(m)' /\ Length(m)' = Length(m)
  BY <1>3 DEF Stores, Length
<1>5. Stores(n)' /\ (~Stores(n) => Length(n)' = length)
  BY <1>3 DEF Stores, Length
<1>6. \A m \in 1..MaxPages: Stores(m)' => Stores(m) \/ m = n
  BY <1>3 DEF Stores
<1>7. Stored \subseteq Stored' /\ Parsed(length, n) \subseteq Stored'
  BY <1>2, <1>3 DEF Stored, Parsed, PageItems
<1>8. \A m \in 1..MaxPages: Missed(m) \subseteq Missed(m)'
  <2> SUFFICES ASSUME NEW m \in 1..MaxPages, NEW i \in Missed(m) PROVE i \in Missed(m)'
    OBVIOUS
  <2>1. PICK r \in 1..m: Stores(r) /\ i \in PageItems(Length(r), r)
    BY DEF Missed
  <2>2. r \in 1..MaxPages
    BY SearchBounds
  <2> QED
    BY <1>4, <2>1, <2>2 DEF Missed
<1>9. \A m \in 1..(n - 1): m \in 1..MaxPages /\ m # n /\ Stores(m)
  BY <1>1, <1>2, SearchBounds DEF ReaderOK
<1>10. Missed(n - 1)' = Missed(n - 1)
  <2>1. \A m \in 1..(n - 1): Stores(m) /\ Stores(m)' /\ Length(m)' = Length(m)
    BY <1>4, <1>9
  <2> QED
    BY <2>1 DEF Missed
<1>11. ReadTo(length - n * PageSize, Missed(n - 1) \cup (PageItems(length, n) \cap Unreadable))'
  <2> SUFFICES ASSUME NEW i \in Items, i <= found.born, length - n * PageSize < i,
                      i \notin Stored', i \notin Missed(n - 1)
               PROVE i \in PageItems(length, n) \cap Unreadable
    BY <1>3, <1>10 DEF ReadTo
  <2>1. found.born \in Nat /\ found.born <= length
    BY <1>1, SearchBounds DEF TypesInGroups, Founds, ReaderOK
  <2>2. i \notin Stored
    BY <1>7
  <2>3. n > 1 => /\ Length(n - 1) \in Nat /\ Length(n - 1) <= length
                 /\ ReadTo(Length(n - 1) - (n - 1) * PageSize, Missed(n - 1))
    <3> SUFFICES ASSUME n > 1 PROVE /\ Length(n - 1) \in Nat /\ Length(n - 1) <= length
                                    /\ ReadTo(Length(n - 1) - (n - 1) * PageSize, Missed(n - 1))
      OBVIOUS
    <3>1. n - 1 \in 1..(n - 1)
      BY <1>2
    <3>2. Stores(n - 1) /\ n - 1 \in 1..MaxPages
      BY <1>9, <3>1
    <3>3. Length(n - 1) \in Nat
      BY <3>2, SearchBounds DEF Stores, Length, TypesInGroups, TypesOfList
    <3>4. RowCovers(n - 1)
      BY <3>2 DEF PagesOK
    <3> QED
      BY <1>1, <3>2, <3>3, <3>4 DEF ReaderOK, RowCovers
  <2>4. i \in PageItems(length, n)
    BY <1>2, <2>1, <2>2, <2>3, PageJoins
  <2> QED
    BY <1>7, <2>4 DEF Parsed
<1> QED
  BY <1>2, <1>4, <1>5, <1>6, <1>7, <1>8, <1>10, <1>11 DEF PageAdded

LEMMA RowsOfStore ==
    ASSUME TypesInGroups, PagesOK, Yahoo, NEW j \in SearchJobs, StorePage(j), NEW m \in 1..MaxPages
    PROVE RowOK(m)' /\ RowCovers(m)'
<1> PICK n, length: n = fetcher[j].page /\ length = fetcher[j].length
  OBVIOUS
<1>0. PageAdded(n, length)
  BY PageIsStored
<1> USE <1>0 DEF PageAdded
<1>1. UNCHANGED <<found, listed>>
  BY DEF StorePage
<1>2. RowOK(m) /\ RowCovers(m)
  BY DEF PagesOK
<1>3. m \in Nat /\ (m > 1 => m - 1 \in 1..MaxPages)
  BY SearchBounds
<1>4. CASE Stores(m)
  <2>1. RowOK(m)'
    BY <1>0, <1>1, <1>2, <1>3, <1>4 DEF RowOK
  <2>2. RowCovers(m)'
    BY <1>0, <1>1, <1>2, <1>4 DEF RowCovers, ReadTo
  <2> QED
    BY <2>1, <2>2
<1>5. CASE ~Stores(m) /\ m = n
  <2>1. fetcher[j].pc = "store" /\ ReaderOK(j)
    BY DEF StorePage, PagesOK
  <2>2. n > 1 => Stores(n - 1) /\ Length(n - 1) <= length
    <3>1. n > 1 => n - 1 \in 1..(n - 1)
      BY <1>0
    <3> QED
      BY <2>1, <3>1 DEF ReaderOK
  <2>3. RowOK(m)'
    BY <1>0, <1>1, <1>3, <1>5, <2>1, <2>2 DEF RowOK, ReaderOK
  <2>4. Missed(n)' = Missed(n - 1)' \cup (PageItems(length, n) \cap Unreadable)
    <3>1. \A r: r \in 1..n <=> r \in 1..(n - 1) \/ r = n
      BY <1>0
    <3> QED
      BY <1>0, <1>5, <3>1 DEF Missed
  <2>5. RowCovers(m)'
    BY <1>0, <1>5, <2>4 DEF RowCovers, ReadTo
  <2> QED
    BY <2>3, <2>5
<1>6. CASE ~Stores(m) /\ m # n
  BY <1>0, <1>6 DEF RowOK, RowCovers
<1> QED
  BY <1>4, <1>5, <1>6

\* Where a worker of Yahoo goes from a page: it has no other window.
LEMMA YahooGoesOn ==
    ASSUME TypesInGroups, Yahoo, NEW h \in Fetchers, h.window = 1, h.before = 0
    PROVE /\ Onward(h).window = 1 /\ Onward(h).before = 0 /\ Onward(h).whole = h.whole
          /\ \/ /\ Onward(h).pc = "look"
                /\ Onward(h).page = h.page + 1 /\ Onward(h).incomplete = h.incomplete
             \/ Onward(h).pc = "read"
          /\ EndOfWindow(h).window = 1 /\ EndOfWindow(h).before = 0 /\ EndOfWindow(h).pc = "read"
          /\ EndOfWindow(h).whole = ~h.incomplete
<1>1. Windows = 1
  BY DEF Yahoo, Windows
<1>2. NextWindow(h) = [h EXCEPT !.pc = "read"]
  BY <1>1 DEF NextWindow, Fetchers
<1>3. h.page < MaxPages \/ ~(h.page < MaxPages)
  OBVIOUS
<1>4. Onward(h) = [h EXCEPT !.pc = "look", !.page = @ + 1] \/ Onward(h) = [h EXCEPT !.pc = "read"]
  BY <1>2 DEF Onward
<1>5. EndOfWindow(h) = [h EXCEPT !.pc = "read", !.whole = ~h.incomplete]
  BY DEF Yahoo, EndOfWindow
<1> QED
  BY <1>4, <1>5 DEF Fetchers

LEMMA NotesOf ==
    ASSUME NEW h \in Fetchers, NEW length
    PROVE /\ WithFailures(h, length) \in Fetchers
          /\ WithFailures(h, length).incomplete =
                 (h.incomplete \/ PageItems(length, h.page) \cap Unreadable # {})
          /\ WithFailures(h, length).window = h.window /\ WithFailures(h, length).before = h.before
          /\ WithFailures(h, length).page = h.page /\ WithFailures(h, length).whole = h.whole
  BY DEF WithFailures, Fetchers

\* The other workers, and the one that stored a page.
LEMMA ReadersOfStore ==
    ASSUME TypesInGroups, JobsOK, PagesOK, Yahoo, NEW j \in SearchJobs, StorePage(j), NEW k \in SearchJobs
    PROVE ReaderOK(k)'
<1> PICK n, length: n = fetcher[j].page /\ length = fetcher[j].length
  OBVIOUS
<1>0. PageAdded(n, length)
  BY PageIsStored
<1> USE <1>0 DEF PageAdded
<1>1. UNCHANGED <<found, listed, doubled>>
  BY DEF StorePage, jobVars
<1>2. /\ fetcher \in [SearchJobs -> Fetchers] /\ fetcher[j] \in Fetchers
      /\ fetcher[j].pc = "store" /\ ReaderOK(j) /\ ReaderOK(k)
  BY DEF TypesInGroups, StorePage, PagesOK
<1>3. Covered => Covered'
  BY <1>1, CoveredStays
<1>4. CASE k # j
  <2>1. fetcher'[k] = fetcher[k] /\ fetcher[k] \in Fetchers
    BY <1>2, <1>4 DEF StorePage
  <2>2. ~doubled => fetcher[k].pc = "idle"
    BY <1>4, OneWorks, FetcherStepMoves DEF FetcherStep
  <2>3. fetcher[k].page \in 1..MaxPages
    BY <2>1 DEF Fetchers
  <2>4. \A m \in 1..(fetcher[k].page - 1): m \in 1..MaxPages
    BY <2>3, SearchBounds
  <2>5. fetcher[k].page > 1 => fetcher[k].page - 1 \in 1..(fetcher[k].page - 1)
    BY <2>3
  <2> QED
    BY <1>1, <1>2, <1>3, <2>1, <2>2, <2>4, <2>5 DEF ReaderOK
<1>5. CASE k = j
  <2>1. fetcher[j].window = 1 /\ fetcher[j].before = 0 /\ ~fetcher[j].whole
    BY <1>2 DEF ReaderOK
  <2>2. (fetcher'[j] = EndOfWindow(fetcher[j]) /\ (LastPage(length, n) \/ ReachesStart(length, n)))
        \/ fetcher'[j] = Onward(fetcher[j])
    BY <1>2 DEF StorePage
  <2> DEFINE missed == Missed(n - 1) \cup (PageItems(length, n) \cap Unreadable)
  <2>3. ~doubled /\ ~fetcher[j].incomplete => missed = {}
    BY <1>2 DEF ReaderOK
  <2>4. CASE fetcher'[j] = Onward(fetcher[j])
    <3>1. CASE fetcher'[j].pc = "read"
      BY <1>2, <1>5, <2>1, <2>4, <3>1, YahooGoesOn DEF ReaderOK
    <3>2. CASE fetcher'[j].pc = "look"
      <4>1. /\ fetcher'[j].window = 1 /\ fetcher'[j].before = 0 /\ ~fetcher'[j].whole
            /\ fetcher'[j].page = n + 1 /\ fetcher'[j].incomplete = fetcher[j].incomplete
        BY <1>2, <2>1, <2>4, <3>2, YahooGoesOn
      <4>2. n + 1 - 1 = n /\ \A m \in 1..n: m \in 1..MaxPages /\ (m = n \/ m \in 1..(n - 1))
        BY SearchBounds
      <4>3. \A m \in 1..n: Stores(m)'
        BY <1>2, <4>2 DEF ReaderOK
      <4>4. ~doubled => Missed(n)' = missed
        <5> SUFFICES ASSUME ~doubled PROVE Missed(n)' = missed
          OBVIOUS
        <5>1. ~Stores(n)
          BY <1>2 DEF ReaderOK
        <5>2. \A r: r \in 1..n <=> r \in 1..(n - 1) \/ r = n
          OBVIOUS
        <5> QED
          BY <5>1, <5>2 DEF Missed
      <4> QED
        BY <1>1, <1>5, <2>3, <3>2, <4>1, <4>2, <4>3, <4>4 DEF ReaderOK
    <3> QED
      BY <1>2, <2>1, <2>4, <3>1, <3>2, YahooGoesOn
  <2>5. CASE /\ fetcher'[j] = EndOfWindow(fetcher[j]) /\ (LastPage(length, n) \/ ReachesStart(length, n))
    <3>1. /\ fetcher'[j].window = 1 /\ fetcher'[j].before = 0 /\ fetcher'[j].pc = "read"
          /\ fetcher'[j].whole = ~fetcher[j].incomplete
      BY <1>2, <2>1, <2>5, YahooGoesOn
    <3>2. ASSUME ~fetcher[j].incomplete PROVE Covered'
      <4>1. ReadTo(length - n * PageSize, missed)' /\ missed \subseteq Unreadable
        BY DEF Missed
      <4>2. PICK lost: lost = missed
        OBVIOUS
      <4>3. lost \in SUBSET Unreadable /\ (~doubled' => lost = {})
            /\ \A i \in Items: i <= found'.born /\ length - n * PageSize < i => i \in Stored' \/ i \in lost
        BY <1>1, <2>3, <3>2, <4>1, <4>2 DEF ReadTo
      <4> QED
        BY <1>1, <2>5, <4>3, CoveredByNext
    <3> QED
      BY <1>5, <3>1, <3>2 DEF ReaderOK
  <2> QED
    BY <2>2, <2>4, <2>5
<1> QED
  BY <1>4, <1>5

\* A worker's step that stores no page.
LEMMA ReaderOfWork ==
    ASSUME TypesInGroups, JobsOK, PagesOK, Yahoo, NEW j \in SearchJobs, FetcherStep(j), ~StorePage(j)
    PROVE ReaderOK(j)'
<1> DEFINE f == fetcher[j]
<1>0. f \in Fetchers /\ ReaderOK(j) /\ fetcher \in [SearchJobs -> Fetchers]
  BY DEF TypesInGroups, PagesOK
<1>1. UNCHANGED <<pages, pageOf, listed, doubled, found.born>>
  <2>1. UNCHANGED <<pages, pageOf, listed>>
    BY DEF FetcherStep, Prepare, Plan, Checkpoint, NoCheckpoint, Fetch, FetchRefused, StoreFails,
       Block, ReadStored, WriteEvaluation, HandlerThrows, JobSucceeds, JobIsCancelled, JobIsRetried, JobFails,
       WorkerDies, candidateVars
  <2>2. UNCHANGED found.born
    BY FetcherStepFound DEF WriteEvaluation, TypesInGroups, Founds
  <2> QED
    BY <2>1, <2>2, FetcherStepAside
<1>2. Stored' = Stored /\ (Covered => Covered')
  BY <1>1, CoveredStays DEF Stored
<1>3. \A m: (Stores(m)' <=> Stores(m)) /\ Length(m)' = Length(m) /\ Missed(m)' = Missed(m)
  BY <1>1 DEF Stores, Length, Missed
<1>4. f.whole => f.pc \in {"read", "write"}
  BY <1>0 DEF ReaderOK
<1>5. f.window = 1 /\ f.before = 0
  BY <1>0 DEF ReaderOK
\* Nothing in hand.
<1>6. ASSUME fetcher'[j].window = 1, fetcher'[j].before = 0, ~fetcher'[j].whole,
             fetcher'[j].pc \notin {"plan", "look", "fetch", "store"}
      PROVE ReaderOK(j)'
  BY <1>6 DEF ReaderOK
<1>7. Idle.window = 1 /\ Idle.before = 0 /\ ~Idle.whole /\ Idle.pc = "idle" /\ Idle.page = 1
  BY DEF Idle
<1>8. CASE Prepare(j)
  <2>1. fetcher'[j] = [Idle EXCEPT !.pc = "finish"] \/ fetcher'[j] = [Idle EXCEPT !.pc = "plan", !.policy = found.policy]
    BY <1>0, <1>8 DEF Prepare
  <2>2. /\ fetcher'[j].window = 1 /\ fetcher'[j].before = 0 /\ ~fetcher'[j].whole /\ fetcher'[j].page = 1
        /\ fetcher'[j].pc \in {"finish", "plan"}
    BY <2>1 DEF Idle
  <2> QED
    BY <2>2 DEF ReaderOK
<1>9. CASE Plan(j)
  <2>1. /\ fetcher'[j].window = 1 /\ fetcher'[j].before = 0 /\ ~fetcher'[j].whole /\ fetcher'[j].page = 1
        /\ fetcher'[j].pc = "look"
    BY <1>0, <1>4, <1>5, <1>9 DEF Plan, ReaderOK, Fetchers
  <2>2. 1..(1 - 1) = {} /\ 1 - 1 = 0
    OBVIOUS
  <2>3. Missed(0)' = {}
    BY <1>3, MissedNone
  <2> QED
    BY <2>1, <2>2, <2>3 DEF ReaderOK
<1>10. CASE Checkpoint(j)
  <2> PICK n, length: n = f.page /\ length = pages[<<f.window, f.page>>]
    OBVIOUS
  <2>0. n \in Nat \ {0} /\ n \in 1..MaxPages
    BY <1>0, SearchBounds DEF Fetchers
  <2>1. Stores(n) /\ length = Length(n) /\ f.pc = "look"
    BY <1>5, <1>10 DEF Checkpoint, Stores, Length
  <2>2. length \in Nat
    BY <2>1, SearchBounds DEF Stores, Length, TypesInGroups, TypesOfList
  <2> DEFINE h == WithFailures(f, length)
  <2>3. /\ h \in Fetchers /\ h.window = 1 /\ h.before = 0 /\ ~h.whole /\ h.page = n
        /\ h.incomplete = (f.incomplete \/ PageItems(length, n) \cap Unreadable # {})
    BY <1>0, <1>4, <1>5, <2>1, NotesOf
  <2>4. Missed(n) = Missed(n - 1) \cup (PageItems(length, n) \cap Unreadable)
    BY <2>0, <2>1, MissedNext
  <2>5. ~doubled /\ ~h.incomplete => Missed(n) = {}
    BY <1>0, <2>1, <2>3, <2>4 DEF ReaderOK
  <2>6. (fetcher'[j] = EndOfWindow(h) /\ (Short(length, n) \/ ReachesStart(length, n)))
        \/ fetcher'[j] = Onward(h)
    BY <1>0, <1>10 DEF Checkpoint
  <2>7. CASE fetcher'[j] = Onward(h)
    <3>1. CASE fetcher'[j].pc = "read"
      BY <1>6, <2>3, <2>7, <3>1, YahooGoesOn
    <3>2. CASE fetcher'[j].pc = "look"
      <4>1. /\ fetcher'[j].window = 1 /\ fetcher'[j].before = 0 /\ ~fetcher'[j].whole
            /\ fetcher'[j].page = n + 1 /\ fetcher'[j].incomplete = h.incomplete
        BY <2>3, <2>7, <3>2, YahooGoesOn
      <4>2. n + 1 - 1 = n /\ \A m \in 1..n: m = n \/ m \in 1..(n - 1)
        BY <2>0
      <4>3. \A m \in 1..n: Stores(m)'
        BY <1>0, <1>3, <2>1, <4>2 DEF ReaderOK
      <4>4. ~doubled' /\ ~fetcher'[j].incomplete => Missed(n)' = {}
        BY <1>1, <1>3, <2>5, <4>1
      <4>5. fetcher'[j].page - 1 = n
        BY <2>0, <4>1
      <4> QED
        BY <3>2, <4>1, <4>3, <4>4, <4>5 DEF ReaderOK
    <3> QED
      BY <2>3, <2>7, <3>1, <3>2, YahooGoesOn
  <2>8. CASE fetcher'[j] = EndOfWindow(h) /\ (Short(length, n) \/ ReachesStart(length, n))
    <3>1. /\ fetcher'[j].window = 1 /\ fetcher'[j].before = 0 /\ fetcher'[j].pc = "read"
          /\ fetcher'[j].whole = ~h.incomplete
      BY <2>3, <2>8, YahooGoesOn
    <3>2. ASSUME ~h.incomplete PROVE Covered'
      <4>1. RowCovers(n)
        BY <2>0 DEF PagesOK
      <4>2. ReadTo(length - n * PageSize, Missed(n)) /\ Missed(n) \in SUBSET Unreadable
        BY <2>1, <4>1 DEF RowCovers, Missed
      <4>3. Covered
        BY <2>0, <2>2, <2>5, <2>8, <3>2, <4>2, CoveredBy
      <4> QED
        BY <1>2, <4>3
    <3> QED
      BY <3>1, <3>2 DEF ReaderOK
  <2> QED
    BY <2>6, <2>7, <2>8
<1>11. CASE NoCheckpoint(j)
  <2>1. fetcher'[j] = [f EXCEPT !.pc = "fetch"] /\ f.pc = "look" /\ ~Stores(f.page)
    BY <1>0, <1>5, <1>11 DEF NoCheckpoint, Stores
  <2>2. /\ fetcher'[j].pc = "fetch" /\ fetcher'[j].window = 1 /\ fetcher'[j].before = 0 /\ ~fetcher'[j].whole
        /\ fetcher'[j].page = f.page /\ fetcher'[j].incomplete = f.incomplete
    BY <1>0, <1>4, <1>5, <2>1 DEF Fetchers
  <2> QED
    BY <1>0, <1>1, <1>3, <2>1, <2>2 DEF ReaderOK
<1>12. CASE Fetch(j)
  <2> DEFINE h == WithFailures(f, listed)
  <2>1. fetcher'[j] = [h EXCEPT !.pc = "store", !.length = listed] /\ f.pc = "fetch"
    BY <1>0, <1>12 DEF Fetch
  <2>2. /\ fetcher'[j].pc = "store" /\ fetcher'[j].window = 1 /\ fetcher'[j].before = 0 /\ ~fetcher'[j].whole
        /\ fetcher'[j].page = f.page /\ fetcher'[j].length = listed
        /\ fetcher'[j].incomplete = (f.incomplete \/ PageItems(listed, f.page) \cap Unreadable # {})
    BY <1>0, <1>4, <1>5, <2>1, NotesOf DEF Fetchers
  <2>3. f.page > 1 => Length(f.page - 1) <= listed
    <3>1. f.page > 1 => f.page - 1 \in 1..(f.page - 1) /\ f.page - 1 \in 1..MaxPages
      BY <1>0, SearchBounds DEF Fetchers
    <3>2. f.page > 1 => Stores(f.page - 1) /\ RowOK(f.page - 1)
      BY <1>0, <2>1, <3>1 DEF ReaderOK, PagesOK
    <3> QED
      BY <3>2 DEF RowOK
  <2>4. found.born <= listed /\ listed <= listed
    BY SearchBounds DEF PagesOK, TypesInGroups, TypesOfList
  <2> QED
    BY <1>0, <1>1, <1>3, <2>1, <2>2, <2>3, <2>4 DEF ReaderOK
<1>13. CASE FetchRefused(j) \/ StoreFails(j)
  <2>1. PICK class, retry: fetcher'[j] = Refused(f, class, retry)
    BY <1>0, <1>13 DEF FetchRefused, StoreFails
  <2>2. f.pc \in {"fetch", "store"}
    BY <1>13 DEF FetchRefused, StoreFails
  <2> QED
    BY <1>0, <1>4, <1>5, <1>6, <2>1, <2>2 DEF Refused, Fetchers
<1>14. CASE Block(j)
  BY <1>0, <1>4, <1>5, <1>6, <1>14 DEF Block, Fetchers
<1>15. CASE ReadStored(j)
  <2>1. /\ f.pc = "read" /\ fetcher'[j].pc = "write" /\ fetcher'[j].window = 1 /\ fetcher'[j].before = 0
        /\ fetcher'[j].whole = f.whole
    BY <1>0, <1>5, <1>15 DEF ReadStored, Fetchers
  <2> QED
    BY <1>0, <1>2, <2>1 DEF ReaderOK
<1>16. CASE WriteEvaluation(j)
  <2>1. fetcher'[j] = [Idle EXCEPT !.pc = "finish"]
    BY <1>0, <1>16 DEF WriteEvaluation
  <2> QED
    BY <1>6, <2>1 DEF Idle
<1>17. CASE HandlerThrows(j)
  <2>1. PICK retry: fetcher'[j] = [Idle EXCEPT !.pc = "failing", !.retry = retry]
    BY <1>0, <1>17 DEF HandlerThrows
  <2> QED
    BY <1>6, <2>1 DEF Idle
<1>18. CASE JobSucceeds(j) \/ JobIsCancelled(j) \/ JobIsRetried(j) \/ JobFails(j) \/ WorkerDies(j)
  <2>1. fetcher'[j] = Idle
    BY <1>0, <1>18 DEF JobSucceeds, JobIsCancelled, JobIsRetried, JobFails, WorkerDies, EndJob
  <2> QED
    BY <1>6, <1>7, <2>1
<1> QED
  BY <1>8, <1>9, <1>10, <1>11, <1>12, <1>13, <1>14, <1>15, <1>16, <1>17, <1>18 DEF FetcherStep

\* The other source's result is never said to be whole.
LEMMA OthersAreNotWhole ==
    ASSUME TypesInGroups, ~Yahoo, NEW j \in SearchJobs, ~fetcher[j].whole, FetcherStep(j)
    PROVE ~fetcher'[j].whole
<1>0. fetcher[j] \in Fetchers /\ fetcher \in [SearchJobs -> Fetchers]
  BY DEF TypesInGroups
<1>1. ASSUME NEW h \in Fetchers, ~h.whole PROVE ~Onward(h).whole /\ ~EndOfWindow(h).whole
  <2>1. ~NextWindow(h).whole
    BY <1>1 DEF NextWindow, Fetchers
  <2> QED
    BY <1>1, <2>1 DEF Onward, EndOfWindow, Yahoo, Fetchers
<1>2. CASE Checkpoint(j)
  <2>1. PICK length: fetcher'[j] = EndOfWindow(WithFailures(fetcher[j], length))
                     \/ fetcher'[j] = Onward(WithFailures(fetcher[j], length))
    BY <1>0, <1>2 DEF Checkpoint
  <2> QED
    BY <1>0, <1>1, <2>1, NotesOf
<1>3. CASE StorePage(j)
  <2>1. fetcher'[j] = EndOfWindow(fetcher[j]) \/ fetcher'[j] = Onward(fetcher[j])
    BY <1>0, <1>3 DEF StorePage
  <2> QED
    BY <1>0, <1>1, <2>1
<1>4. CASE Fetch(j)
  <2>1. fetcher'[j] = [WithFailures(fetcher[j], listed) EXCEPT !.pc = "store", !.length = listed]
    BY <1>0, <1>4 DEF Fetch
  <2> QED
    BY <1>0, <2>1, NotesOf DEF Fetchers
<1>5. CASE FetchRefused(j) \/ StoreFails(j)
  <2>1. PICK class, retry: fetcher'[j] = Refused(fetcher[j], class, retry)
    BY <1>0, <1>5 DEF FetchRefused, StoreFails
  <2> QED
    BY <1>0, <2>1 DEF Refused, Fetchers
<1>6. CASE Plan(j) \/ NoCheckpoint(j) \/ Block(j) \/ ReadStored(j)
  BY <1>0, <1>6 DEF Plan, NoCheckpoint, Block, ReadStored, Fetchers
<1>7. CASE Prepare(j) \/ WriteEvaluation(j)
  <2>1. fetcher'[j] = [Idle EXCEPT !.pc = "finish"] \/ fetcher'[j] = [Idle EXCEPT !.pc = "plan", !.policy = found.policy]
    BY <1>0, <1>7 DEF Prepare, WriteEvaluation
  <2> QED
    BY <2>1 DEF Idle
<1>8. CASE HandlerThrows(j)
  <2>1. PICK retry: fetcher'[j] = [Idle EXCEPT !.pc = "failing", !.retry = retry]
    BY <1>0, <1>8 DEF HandlerThrows
  <2> QED
    BY <2>1 DEF Idle
<1>9. CASE JobSucceeds(j) \/ JobIsCancelled(j) \/ JobIsRetried(j) \/ JobFails(j) \/ WorkerDies(j)
  BY <1>0, <1>9 DEF JobSucceeds, JobIsCancelled, JobIsRetried, JobFails, WorkerDies, EndJob, Idle
<1> QED
  BY <1>2, <1>3, <1>4, <1>5, <1>6, <1>7, <1>8, <1>9 DEF FetcherStep

LEMMA StatusOfWorkers ==
    ASSUME TypesInGroups, PagesOK, JobsOK, NEW j \in SearchJobs, FetcherStep(j)
    PROVE found.status # "none" /\ found'.status # "none"
<1>1. asked[j] # "none"
  BY FetcherStepMoves DEF UnfinishedJob
<1>2. found.status # "none"
  BY <1>1 DEF PagesOK
<1>3. found'.status = found.status \/ found'.status \in
         {"planning", "fetching", "ready", "partial", "blocked", "failed", "cancelled"}
  BY DEF FetcherStep, Prepare, Plan, Checkpoint, NoCheckpoint, Fetch, FetchRefused, StorePage, StoreFails,
     Block, ReadStored, WriteEvaluation, HandlerThrows, JobSucceeds, JobIsCancelled, JobIsRetried, JobFails,
     WorkerDies, TypesInGroups, Founds
<1> QED
  BY <1>2, <1>3

LEMMA CoverageOfWorkers ==
    ASSUME TypesInGroups, NEW j \in SearchJobs, FetcherStep(j), found'.coverage = "complete"
    PROVE found.coverage = "complete" \/ (WriteEvaluation(j) /\ fetcher[j].whole)
<1>0. found \in Founds
  BY DEF TypesInGroups
<1>1. CASE WriteEvaluation(j)
  BY <1>0, <1>1 DEF WriteEvaluation, Founds
<1>2. CASE Prepare(j) \/ Plan(j) \/ Block(j) \/ JobIsCancelled(j) \/ JobFails(j)
  BY <1>0, <1>2 DEF Prepare, Plan, Block, JobIsCancelled, JobFails, Founds
<1>3. CASE UNCHANGED found
  BY <1>3
<1> QED
  BY <1>1, <1>2, <1>3 DEF FetcherStep, Checkpoint, NoCheckpoint, Fetch, FetchRefused, StorePage, StoreFails,
     ReadStored, HandlerThrows, JobSucceeds, JobIsRetried, WorkerDies

LEMMA PagesOfWorkers ==
    ASSUME MarketSearchTypeOK, JobsOK, PagesOK, NEW j \in SearchJobs, FetcherStep(j) PROVE PagesOK'
<1>0. TypesInGroups /\ fetcher \in [SearchJobs -> Fetchers] /\ listed \in Nat
  BY GroupsAreAll, SearchBounds DEF TypesInGroups, TypesOfList
<1>1. UNCHANGED <<listed, doubled, found.born, found.source>>
  <2>1. UNCHANGED listed
    BY DEF FetcherStep, Prepare, Plan, Checkpoint, NoCheckpoint, Fetch, FetchRefused, StorePage, StoreFails,
       Block, ReadStored, WriteEvaluation, HandlerThrows, JobSucceeds, JobIsCancelled, JobIsRetried, JobFails,
       WorkerDies
  <2>2. UNCHANGED <<found.born, found.source>>
    BY <1>0, FetcherStepFound DEF WriteEvaluation, TypesInGroups, Founds
  <2> QED
    BY <2>1, <2>2, FetcherStepAside
<1>2. Stored \subseteq Stored' /\ (Covered => Covered')
  BY <1>0, <1>1, StoredStays, CoveredStays
<1>3. found'.status # "none"
  BY <1>0, StatusOfWorkers
<1>4. \A k \in SearchJobs: k # j => fetcher'[k] = fetcher[k]
  BY <1>0, FetcherStepMoves DEF HandMoves
<1>5. ~Yahoo' => \A k \in SearchJobs: ~fetcher'[k].whole
  BY <1>0, <1>1, <1>4, OthersAreNotWhole DEF PagesOK, Yahoo
<1>6. ASSUME Yahoo PROVE /\ \A n \in 1..MaxPages: RowOK(n)' /\ RowCovers(n)'
                         /\ \A k \in SearchJobs: ReaderOK(k)'
  <2>1. CASE StorePage(j)
    BY <1>0, <1>6, <2>1, RowsOfStore, ReadersOfStore
  <2>2. CASE ~StorePage(j)
    <3>1. UNCHANGED <<pages, pageOf>>
      BY <2>2 DEF FetcherStep, Prepare, Plan, Checkpoint, NoCheckpoint, Fetch, FetchRefused, StoreFails,
       Block, ReadStored, WriteEvaluation, HandlerThrows, JobSucceeds, JobIsCancelled, JobIsRetried, JobFails,
       WorkerDies, candidateVars
    <3>2. listed <= listed' /\ listed' \in Nat /\ found.born \in Nat
      BY <1>0, <1>1, SearchBounds DEF TypesInGroups, Founds
    <3>3. \A n \in 1..MaxPages: RowOK(n)' /\ RowCovers(n)'
      BY <1>0, <1>1, <1>6, <3>1, <3>2, RowsStay
    <3>4. ASSUME NEW k \in SearchJobs, k # j PROVE ReaderOK(k)'
      <4>1. ReaderOK(k) /\ fetcher'[k] = fetcher[k] /\ fetcher[k].length \in Nat
        BY <1>0, <1>4, <1>6, <3>4, SearchBounds DEF PagesOK, Fetchers
      <4> QED
        BY <1>0, <1>1, <3>1, <3>2, <4>1, ReaderStays
    <3>5. ReaderOK(j)'
      BY <1>0, <1>6, <2>2, ReaderOfWork
    <3> QED
      BY <3>3, <3>4, <3>5
  <2> QED
    BY <2>1, <2>2
<1>7. found'.coverage = "complete" => Covered'
  <2>1. ASSUME WriteEvaluation(j), fetcher[j].whole PROVE Covered
    BY <2>1 DEF PagesOK, ReaderOK
  <2> QED
    BY <1>0, <1>2, <2>1, CoverageOfWorkers DEF PagesOK
<1> QED
  BY <1>1, <1>3, <1>5, <1>6, <1>7 DEF PagesOK, Yahoo

\* Other steps leave the pages and the workers alone.
LEMMA PagesAside ==
    ASSUME MarketSearchTypeOK, PagesOK, UNCHANGED <<pages, pageOf, fetcher, found.born, found.source>>,
           doubled => doubled', listed <= listed', listed' \in Nat,
           found'.coverage = "complete" => found.coverage = "complete",
           found'.status = "none" => /\ found.status = "none" /\ UNCHANGED asked
                                     /\ found'.coverage = found.coverage
    PROVE PagesOK'
<1>0. TypesInGroups /\ fetcher \in [SearchJobs -> Fetchers] /\ listed \in Nat /\ found.born \in Nat
  BY GroupsAreAll, SearchBounds DEF TypesInGroups, TypesOfList, Founds
<1>1. Covered => Covered'
  BY CoveredStays DEF Stored
<1>2. Yahoo => \A n \in 1..MaxPages: RowOK(n)' /\ RowCovers(n)'
  BY <1>0, RowsStay
<1>3. Yahoo => \A k \in SearchJobs: ReaderOK(k)'
  <2>1. \A k \in SearchJobs: fetcher'[k] = fetcher[k] /\ fetcher[k].length \in Nat
    BY <1>0, SearchBounds DEF Fetchers
  <2> QED
    BY <1>0, <2>1, ReaderStays DEF PagesOK
<1> QED
  BY <1>0, <1>1, <1>2, <1>3 DEF PagesOK, Yahoo

LEMMA PagesOfJobs == ASSUME MarketSearchTypeOK, JobsOK, PagesOK, JobStep PROVE PagesOK'
<1>0. found \in Founds /\ listed \in Nat /\ fetcher \in [SearchJobs -> Fetchers]
  BY GroupsAreAll, SearchBounds DEF TypesInGroups, TypesOfList
<1> USE DEF candidateVars
<1>1. CASE ListGrows
  BY <1>0, <1>1, PagesAside DEF ListGrows, jobVars
<1>2. ASSUME NEW j \in SearchJobs, NEW source \in Sources, CreateSearch(source, j) PROVE PagesOK'
  <2>1. /\ found.status = "none" /\ found'.status = "queued" /\ found'.born = listed
        /\ found'.coverage = found.coverage /\ UNCHANGED <<listed, pages, pageOf, fetcher>>
    BY <1>0, <1>2 DEF CreateSearch, Founds
  <2>2. DOMAIN pages = {} /\ found.coverage = "pending" /\ \A k \in SearchJobs: asked[k] = "none"
    BY <2>1 DEF PagesOK
  <2>3. \A k \in SearchJobs: fetcher[k] = Idle
    BY <2>2 DEF JobsOK
  <2>4. \A k \in SearchJobs: ReaderOK(k)' /\ ~fetcher'[k].whole
    BY <2>1, <2>3 DEF ReaderOK, Idle
  <2>5. \A n \in 1..MaxPages: RowOK(n)' /\ RowCovers(n)'
    BY <2>1, <2>2 DEF RowOK, RowCovers, Stores
  <2> QED
    BY <1>0, <2>1, <2>2, <2>4, <2>5 DEF PagesOK
<1>3. ASSUME NEW j \in SearchJobs, RetrySearch(j) PROVE PagesOK'
  <2>1. /\ found'.status = "queued" /\ found'.coverage = "pending"
        /\ UNCHANGED <<listed, pages, pageOf, fetcher, found.born, found.source>> /\ (doubled => doubled')
    BY <1>0, <1>3 DEF RetrySearch, NewJob, Founds
  <2> QED
    BY <1>0, <2>1, PagesAside
<1>4. ASSUME NEW j \in SearchJobs, CancelSearch(j) PROVE PagesOK'
  <2>1. found.status # "none"
    BY <1>4 DEF CancelSearch, Latest, PagesOK
  <2>2. /\ found'.status \in {found.status, "cancelled"} /\ found'.coverage = found.coverage
        /\ UNCHANGED <<listed, pages, pageOf, fetcher, found.born, found.source, doubled>>
    BY <1>0, <1>4 DEF CancelSearch, Founds
  <2> QED
    BY <1>0, <2>1, <2>2, PagesAside
<1>5. ASSUME NEW j \in SearchJobs, RestartJob(j) PROVE PagesOK'
  <2>1. found.status # "none"
    BY <1>5 DEF RestartJob, PagesOK
  <2>2. UNCHANGED <<listed, pages, pageOf, fetcher, found>> /\ (doubled => doubled')
    BY <1>5 DEF RestartJob
  <2> QED
    BY <1>0, <2>1, <2>2, PagesAside
<1> QED
  BY <1>1, <1>2, <1>3, <1>4, <1>5 DEF JobStep

LEMMA PagesOfMembers == ASSUME MarketSearchTypeOK, PagesOK, MemberStep PROVE PagesOK'
<1>0. found \in Founds /\ listed \in Nat
  BY GroupsAreAll, SearchBounds DEF TypesInGroups, TypesOfList
<1>1. UNCHANGED <<listed, pages, pageOf, fetcher, asked, doubled>>
  BY DEF MemberStep, BeginOverride, CommitOverride, AbortOverride, UpdatePolicy, ReadSearch, ConfirmSearch,
     candidateVars, jobVars
<1>2. UNCHANGED <<found.born, found.source, found.coverage>> /\ found'.status \in {found.status, "confirmed"}
  BY <1>0 DEF MemberStep, BeginOverride, CommitOverride, AbortOverride, UpdatePolicy, ReadSearch, ConfirmSearch,
     Founds
<1> QED
  BY <1>0, <1>1, <1>2, PagesAside

-----------------------------------------------------------------------------
(* The invariant.                                                          *)

LEMMA SearchStarts == MarketSearchInit => SearchInv
<1> SUFFICES ASSUME MarketSearchInit PROVE SearchInv
  OBVIOUS
<1>1. JobsOK
  BY DEF MarketSearchInit, JobsOK, Idle, UnfinishedJob
<1>2. ShownOK
  BY SearchBounds DEF MarketSearchInit, ShownOK, NotShown, Viewable
<1>3. StatisticsOK
  BY DEF MarketSearchInit, StatisticsOK, EditOK, Stored, Idle, Viewable
<1>4. PagesOK
  <2>1. \A j \in SearchJobs: ReaderOK(j) /\ ~fetcher[j].whole
    BY DEF MarketSearchInit, ReaderOK, Idle
  <2>2. \A n \in 1..MaxPages: RowOK(n) /\ RowCovers(n)
    BY DEF MarketSearchInit, RowOK, RowCovers, Stores
  <2> QED
    BY <2>1, <2>2, SearchBounds DEF MarketSearchInit, PagesOK
<1>5. SnapshotAgrees /\ ConfirmedAsRead
  BY DEF MarketSearchInit, SnapshotAgrees, ConfirmedAsRead, NoSnapshot
<1> QED
  BY <1>1, <1>2, <1>3, <1>4, <1>5, SearchStartsTyped DEF SearchInv

LEMMA SearchInvKept == ASSUME SearchInv, [MarketSearchNext]_marketVars PROVE SearchInv'
<1> USE DEF SearchInv
<1>1. TypesInGroups /\ PriceInv /\ OpenIsStored
  BY GroupsAreAll DEF PriceInv, StatisticsOK, EditOK, OpenIsStored
<1>2. MarketSearchTypeOK' /\ JobsOK' /\ PriceInv'
  BY <1>1, SearchTyped, JobsKept, PriceKept
<1>3. PagesOK'
  <2>1. CASE UNCHANGED marketVars
    BY <2>1 DEF marketVars, candidateVars, jobVars, PagesOK, Yahoo, RowOK, RowCovers, ReaderOK, Stores, Length,
       Missed, ReadTo, Covered, Stored
  <2> QED
    BY <2>1, SearchStepsAre, PagesOfWorkers, PagesOfJobs, PagesOfMembers
<1> QED
  BY <1>2, <1>3 DEF PriceInv

LEMMA SearchAlways == MarketSearchSpec => []SearchInv
<1>1. SearchInv /\ [MarketSearchNext]_marketVars => SearchInv'
  BY SearchInvKept
<1> QED
  BY <1>1, SearchStarts, PTL DEF MarketSearchSpec

\* Every variable of a search keeps its type.
THEOREM SearchIsTyped == MarketSearchSpec => []MarketSearchTypeOK
<1>1. SearchInv => MarketSearchTypeOK
  BY DEF SearchInv
<1> QED
  BY <1>1, SearchAlways, PTL

\* A search whose coverage is said to be complete has every item that was in
\* the list when it was created and ended within its period: pages are stored
\* in order, each from a list at least as long as the one before.
THEOREM CompleteSearchesAreWhole == MarketSearchSpec => []CompleteIsWhole
<1>1. SearchInv => CompleteIsWhole
  BY DEF SearchInv, PagesOK, Covered, CompleteIsWhole
<1> QED
  BY <1>1, SearchAlways, PTL

\* The statistics of a confirmed price are those of the candidates it names,
\* with one override at a time and one job of the search.
THEOREM ConfirmedStatisticsAgree == MarketSearchSpec => []SnapshotAgrees
<1>1. SearchInv => SnapshotAgrees
  BY DEF SearchInv
<1> QED
  BY <1>1, SearchAlways, PTL

\* A price is confirmed of the candidates that the page last read: whatever
\* changes them raises the version, or is a worker's evaluation, after which a
\* search can first be viewed.
THEOREM ConfirmationIsOfTheRead == MarketSearchSpec => []ConfirmedAsRead
<1>1. SearchInv => ConfirmedAsRead
  BY DEF SearchInv
<1> QED
  BY <1>1, SearchAlways, PTL

HIDE MarketSearchAssumption DEF MarketSearchAssumption
-----------------------------------------------------------------------------
(* Identification of the product.                                          *)

(***************************************************************************)
(* Fields under a version.  A page that has just updated the product and   *)
(* whose version is still the product's has the product's input.           *)
(***************************************************************************)
PageOfProduct(m) ==
    /\ client[m].version <= product.version
    /\ product.status = "none" => client[m].step = "none"
    /\ client[m].step = "updated" /\ UpToDate(m) => client[m].fields = product.input

Submissions == ConfirmedAsSubmitted /\ \A m \in Persons: PageOfProduct(m)

(***************************************************************************)
(* Pictures.  As long as no two jobs worked at once, the worker that has a *)
(* picture in hand is the only one, and the picture's row still names the  *)
(* source until the row is written; what the scan erases is marked.        *)
(***************************************************************************)
Busy(j) == analyst[j].pc \in {"next", "record", "undo", "drop", "finish"}
Waits(i) == picture[i].row \in {"uploaded", "normalizing"}

OneBusy == ~crossed => \A j, k \in Analyses: Busy(j) /\ Busy(k) => j = k

AnalystOK(j) ==
    LET f == analyst[j] IN
    /\ f.pc \in {"record", "undo", "drop"} => f.image \in Pictures
    /\ f.pc = "drop" => picture[f.image].name = "normalized"
    /\ ~crossed =>
        /\ f.pc = "next" => \A i \in f.todo: Waits(i)
        /\ f.pc \in {"record", "drop"} => \A i \in f.todo: i # f.image => Waits(i)
        /\ f.pc = "record" =>
               /\ Waits(f.image)
               /\ picture[f.image].object = "available" => <<f.image, "normalized">> \in bucket
        /\ f.pc = "undo" => Waits(f.image) \/ f.image \in unanswered

PictureOK(i) == picture[i].row \notin {"ready"} => picture[i].name = "source"
ScanOK == scan.pc = "delete" => scan.image \in Pictures /\ picture[scan.image].object # "available"

PicturesInv ==
    /\ PictureIsReadable /\ OneBusy /\ ScanOK
    /\ \A j \in Analyses: AnalystOK(j)
    /\ \A i \in Pictures: PictureOK(i)

IdentificationInv == MarketIdentificationTypeOK /\ Submissions /\ PicturesInv

USE MarketIdentificationAssumption DEF MarketIdentificationAssumption

LEMMA IdentificationBounds == MaxVersion \in Nat /\ MaxTrouble \in Nat
  OBVIOUS

-----------------------------------------------------------------------------
(* Types.                                                                  *)

PictureRows == [row: PictureStatus, name: ObjectName, object: {"available", "deleting", "deleted"},
         deleted: BOOLEAN]
Hands == [pc: AnalystPc, todo: SUBSET Pictures, image: Pictures \cup {NoPicture}, retry: BOOLEAN]
Products == [status: IdentificationStatus, images: BOOLEAN, version: 1..MaxVersion,
             input: Fields \cup {NoFields}, confirmed: Fields \cup {NoFields}]

TypesOfStorage ==
    /\ picture \in [Pictures -> PictureRows] /\ bucket \subseteq Pictures \X ObjectName
    /\ scan \in [pc: {"idle", "delete", "record"}, image: Pictures \cup {NoPicture}, name: ObjectName]
    /\ unanswered \subseteq Pictures

TypesOfAnalyses ==
    /\ analyses \in [Analyses -> AnalysisStatus] /\ halted \subseteq Analyses
    /\ analyst \in [Analyses -> Hands] /\ crossed \in BOOLEAN

TypesOfProduct ==
    /\ product \in Products /\ approved \in Fields \cup {NoFields}
    /\ client \in [Persons -> [step: {"none", "shown", "updated"}, version: 0..MaxVersion,
                               fields: Fields \cup {NoFields}]]

LEMMA TypesInParts ==
    MarketIdentificationTypeOK <=>
        TypesOfProduct /\ TypesOfAnalyses /\ TypesOfStorage /\ elapsed \in 0..2 /\ trouble \in 0..MaxTrouble
  BY DEF MarketIdentificationTypeOK, TypesOfStorage, TypesOfAnalyses, TypesOfProduct, PictureRows, Hands, Products

LEMMA TypesInPartsNext ==
    TypesOfProduct' /\ TypesOfAnalyses' /\ TypesOfStorage' /\ elapsed' \in 0..2 /\ trouble' \in 0..MaxTrouble
        => MarketIdentificationTypeOK'
  BY DEF MarketIdentificationTypeOK, TypesOfStorage, TypesOfAnalyses, TypesOfProduct, PictureRows, Hands, Products

LEMMA TroubleTyped == ASSUME trouble \in 0..MaxTrouble, Trouble PROVE trouble' \in 0..MaxTrouble
  BY IdentificationBounds DEF Trouble

LEMMA TypesOfMembers == ASSUME MarketIdentificationTypeOK, PersonStep PROVE MarketIdentificationTypeOK'
<1> USE DEF analysisVars, pictureVars, clientVars
<1>1. TypesOfProduct /\ TypesOfAnalyses /\ TypesOfStorage /\ elapsed \in 0..2 /\ trouble \in 0..MaxTrouble
  BY TypesInParts
<1>2. ASSUME NEW images \in BOOLEAN, NEW fields \in Fields, CreateIdentification(images, fields)
      PROVE TypesOfProduct'
  BY <1>1, <1>2 DEF CreateIdentification, TypesOfProduct, Products, IdentificationStatus
<1>3. ASSUME NEW m \in Persons, ShowIdentification(m) PROVE TypesOfProduct'
  BY <1>1, <1>3 DEF ShowIdentification, TypesOfProduct, Products
<1>4. ASSUME NEW m \in Persons, NEW fields \in Fields, UpdateIdentification(m, fields) PROVE TypesOfProduct'
  <2>1. product.version + 1 \in 1..MaxVersion
    BY <1>1, <1>4, IdentificationBounds DEF UpdateIdentification, TypesOfProduct, Products
  <2>2. product' \in Products
    BY <1>1, <1>4, <2>1 DEF UpdateIdentification, TypesOfProduct, Products, IdentificationStatus
  <2> QED
    BY <1>1, <1>4, <2>1, <2>2 DEF UpdateIdentification, TypesOfProduct
<1>5. ASSUME NEW m \in Persons, ConfirmIdentification(m) PROVE TypesOfProduct'
  <2>1. product.version + 1 \in 1..MaxVersion
    BY <1>1, <1>5, IdentificationBounds DEF ConfirmIdentification, TypesOfProduct, Products
  <2>2. product' \in Products
    BY <1>1, <1>5, <2>1 DEF ConfirmIdentification, TypesOfProduct, Products, IdentificationStatus
  <2> QED
    BY <1>1, <1>5, <2>2 DEF ConfirmIdentification, TypesOfProduct, NotOpened
<1>6. ASSUME NEW j \in Analyses, AnalyzeIdentification(j) PROVE TypesOfProduct' /\ TypesOfAnalyses'
  BY <1>1, <1>6 DEF AnalyzeIdentification, TypesOfProduct, Products, IdentificationStatus, TypesOfAnalyses,
                    AnalysisStatus
<1>7. ASSUME NEW j \in Analyses, CancelAnalysis(j) PROVE TypesOfAnalyses'
  BY <1>1, <1>7 DEF CancelAnalysis, TypesOfAnalyses, AnalysisStatus
<1>8. TypesOfProduct'
  BY <1>1, <1>2, <1>3, <1>4, <1>5, <1>6 DEF PersonStep, CancelAnalysis, TimePasses, TypesOfProduct
<1>9. TypesOfAnalyses'
  BY <1>1, <1>6, <1>7 DEF PersonStep, CreateIdentification, ShowIdentification, UpdateIdentification,
     ConfirmIdentification, TimePasses, TypesOfAnalyses
<1>10. TypesOfStorage'
  BY <1>1 DEF PersonStep, CreateIdentification, ShowIdentification, UpdateIdentification,
     ConfirmIdentification, AnalyzeIdentification, CancelAnalysis, TimePasses, TypesOfStorage
<1>11. elapsed' \in 0..2 /\ trouble' \in 0..MaxTrouble
  <2>1. TimePasses \/ elapsed' = elapsed
    BY DEF PersonStep, CreateIdentification, ShowIdentification, UpdateIdentification,
       ConfirmIdentification, AnalyzeIdentification, CancelAnalysis
  <2>2. UNCHANGED trouble
    BY DEF PersonStep, CreateIdentification, ShowIdentification, UpdateIdentification,
       ConfirmIdentification, AnalyzeIdentification, CancelAnalysis, TimePasses
  <2> QED
    BY <1>1, <2>1, <2>2 DEF TimePasses
<1> QED
  BY <1>8, <1>9, <1>10, <1>11, TypesInPartsNext

\* Only pictures, their objects and the scan change.
LEMMA TypesOfPictures ==
    ASSUME MarketIdentificationTypeOK, PictureStep \/ DeleteExpired \/ RecordExpired \/ ScanFails
    PROVE MarketIdentificationTypeOK'
<1> USE DEF analysisVars, clientVars
<1>1. TypesOfProduct /\ TypesOfAnalyses /\ TypesOfStorage /\ elapsed \in 0..2 /\ trouble \in 0..MaxTrouble
  BY TypesInParts
<1>2. TypesOfProduct' /\ TypesOfAnalyses' /\ elapsed' \in 0..2
  BY <1>1 DEF TypesOfProduct, TypesOfAnalyses, PictureStep, StartPictureUpload, PutPicture,
     CompletePictureUpload, CompleteRefused, PurgeUpload, MarkExpired, DeleteExpired, RecordExpired, ScanFails
<1>3. trouble' \in 0..MaxTrouble
  BY <1>1, TroubleTyped DEF PictureStep, StartPictureUpload, PutPicture, CompletePictureUpload,
     CompleteRefused, PurgeUpload, MarkExpired, DeleteExpired, RecordExpired, ScanFails
<1>4. ASSUME NEW i \in Pictures, StartPictureUpload(i) PROVE TypesOfStorage'
  BY <1>1, <1>4 DEF StartPictureUpload, TypesOfStorage, PictureRows, PictureStatus
<1>5. ASSUME NEW i \in Pictures, PutPicture(i) \/ CompleteRefused(i) PROVE TypesOfStorage'
  BY <1>1, <1>5 DEF PutPicture, CompleteRefused, TypesOfStorage, ObjectName
<1>6. ASSUME NEW i \in Pictures, CompletePictureUpload(i) \/ PurgeUpload(i) PROVE TypesOfStorage'
  <2>1. bucket' \subseteq bucket /\ UNCHANGED <<scan, unanswered>>
    BY <1>6 DEF CompletePictureUpload, PurgeUpload
  <2>2. picture' = [picture EXCEPT ![i].row = "uploaded"] \/ picture' = [picture EXCEPT ![i].row = "none"]
    BY <1>6 DEF CompletePictureUpload, PurgeUpload
  <2>3. picture' \in [Pictures -> PictureRows]
    BY <1>1, <2>2 DEF TypesOfStorage, PictureRows, PictureStatus
  <2> QED
    BY <1>1, <2>1, <2>3 DEF TypesOfStorage, PictureRows, ObjectName
<1>7. ASSUME NEW i \in Pictures, MarkExpired(i) PROVE TypesOfStorage'
  <2>1. picture' \in [Pictures -> PictureRows]
    BY <1>1, <1>7 DEF MarkExpired, TypesOfStorage, PictureRows
  <2>2. scan' \in [pc: {"idle", "delete", "record"}, image: Pictures \cup {NoPicture}, name: ObjectName]
    BY <1>1, <1>7 DEF MarkExpired, TypesOfStorage, PictureRows
  <2> QED
    BY <1>1, <1>7, <2>1, <2>2 DEF MarkExpired, TypesOfStorage
<1>8. ASSUME DeleteExpired \/ ScanFails PROVE TypesOfStorage'
  <2>1. bucket' \subseteq bucket /\ UNCHANGED <<picture, unanswered>>
    BY <1>8 DEF DeleteExpired, ScanFails
  <2>2. scan' = NoScan \/ scan' = [scan EXCEPT !.pc = "record"]
    BY <1>8 DEF DeleteExpired, ScanFails
  <2>3. scan' \in [pc: {"idle", "delete", "record"}, image: Pictures \cup {NoPicture}, name: ObjectName]
    BY <1>1, <2>2 DEF NoScan, TypesOfStorage, ObjectName
  <2>4. bucket' \subseteq Pictures \X ObjectName
    BY <1>1, <2>1 DEF TypesOfStorage
  <2>5. picture' \in [Pictures -> PictureRows] /\ unanswered' \subseteq Pictures
    BY <1>1, <2>1 DEF TypesOfStorage
  <2> QED
    BY <2>3, <2>4, <2>5 DEF TypesOfStorage, PictureRows, ObjectName
<1>9. ASSUME RecordExpired PROVE TypesOfStorage'
  <2>1. ASSUME NEW i \in Pictures \cup {NoPicture}
        PROVE [picture EXCEPT ![i].object = "deleted", ![i].deleted = TRUE] \in [Pictures -> PictureRows]
    <3>1. ASSUME NEW p \in PictureRows PROVE [p EXCEPT !.object = "deleted", !.deleted = TRUE] \in PictureRows
      BY DEF PictureRows
    <3>2. picture \in [Pictures -> PictureRows]
      BY <1>1 DEF TypesOfStorage
    <3> QED
      BY <3>1, <3>2
  <2>2. scan.image \in Pictures \cup {NoPicture}
    BY <1>1 DEF TypesOfStorage
  <2>3. picture' \in [Pictures -> PictureRows]
    BY <1>9, <2>1, <2>2 DEF RecordExpired
  <2>4. scan' = NoScan /\ UNCHANGED <<bucket, unanswered>>
    BY <1>9 DEF RecordExpired
  <2>5. scan' \in [pc: {"idle", "delete", "record"}, image: Pictures \cup {NoPicture}, name: ObjectName]
    BY <2>4 DEF NoScan, ObjectName
  <2>6. bucket' \subseteq Pictures \X ObjectName /\ unanswered' \subseteq Pictures
    BY <1>1, <2>4 DEF TypesOfStorage
  <2> QED
    BY <2>3, <2>5, <2>6 DEF TypesOfStorage, PictureRows, ObjectName
<1>10. TypesOfStorage'
  <2>1. CASE PictureStep
    BY <2>1, <1>4, <1>5, <1>6, <1>7, Zenon DEF PictureStep
  <2>2. CASE RecordExpired
    BY <1>9, <2>2
  <2>3. CASE DeleteExpired \/ ScanFails
    BY <1>8, <2>3
  <2> QED
    BY <2>1, <2>2, <2>3
<1> QED
  BY <1>2, <1>3, <1>10, TypesInPartsNext

\* The worker that takes a step.
AnalystMoves(j) ==
    \/ PrepareAnalysis(j) \/ PrepareRefused(j)
    \/ \E i \in Pictures: NormalizePicture(j, i) \/ NormalizeRefused(j, i)
    \/ RecordPicture(j) \/ RecordFails(j) \/ UndoPass(j) \/ DropSource(j)
    \/ CommitSuggestion(j) \/ AnalysisThrows(j) \/ AnalysisDies(j)
    \/ AnalysisSucceeds(j) \/ AnalysisIsCancelled(j)
    \/ AnalysisIsRetried(j) \/ AnalysisFails(j)

LEMMA RestingTyped == Resting \in Hands /\ \A retry \in BOOLEAN: [Resting EXCEPT !.pc = "failing", !.retry = retry] \in Hands
  BY DEF Resting, Hands, AnalystPc

LEMMA HandsTyped ==
    ASSUME TypesOfAnalyses, NEW j \in Analyses, AnalystMoves(j)
    PROVE analyst' \in [Analyses -> Hands]
<1>1. analyst \in [Analyses -> Hands]
  BY DEF TypesOfAnalyses
<1>2. PICK h \in Hands: analyst' = [analyst EXCEPT ![j] = h]
  <2>1. CASE PrepareAnalysis(j)
    <3>1. [Resting EXCEPT !.pc = "next", !.todo = Unprepared] \in Hands
      BY DEF Resting, Hands, AnalystPc, Unprepared, Readable, Shown
    <3> QED
      BY <2>1, <3>1 DEF PrepareAnalysis
  <2>2. CASE \/ PrepareRefused(j) \/ \E i \in Pictures: NormalizeRefused(j, i)
             \/ AnalysisThrows(j)
    <3>1. [Resting EXCEPT !.pc = "failing"] \in Hands
      BY DEF Resting, Hands, AnalystPc
    <3> QED
      BY <2>2, <3>1, RestingTyped DEF PrepareRefused, NormalizeRefused, AnalysisThrows, Throw
  <2>3. CASE \E i \in Pictures: NormalizePicture(j, i)
    <3>1. PICK i \in Pictures: analyst' = [analyst EXCEPT ![j] = [analyst[j] EXCEPT !.pc = "record", !.image = i]]
      BY <1>1, <2>3 DEF NormalizePicture, Hands
    <3>2. [analyst[j] EXCEPT !.pc = "record", !.image = i] \in Hands
      BY <1>1 DEF Hands, AnalystPc
    <3> QED
      BY <3>1, <3>2
  <2>4. CASE RecordPicture(j) \/ RecordFails(j) \/ CommitSuggestion(j)
    <3>1. PICK stage \in {"drop", "undo", "finish"}: analyst' = [analyst EXCEPT ![j] = [analyst[j] EXCEPT !.pc = stage]]
      BY <1>1, <2>4 DEF RecordPicture, RecordFails, CommitSuggestion, Hands
    <3>2. [analyst[j] EXCEPT !.pc = stage] \in Hands
      BY <1>1 DEF Hands, AnalystPc
    <3> QED
      BY <3>1, <3>2
  <2>5. CASE UndoPass(j)
    <3>1. [analyst EXCEPT ![j] = analyst[j]] = analyst
      BY <1>1
    <3> QED
      BY <1>1, <2>5, <3>1, RestingTyped DEF UndoPass, Throw
  <2>6. CASE DropSource(j)
    <3>1. analyst' = [analyst EXCEPT ![j] =
              [analyst[j] EXCEPT !.pc = "next", !.todo = @ \ {analyst[j].image}, !.image = NoPicture]]
      BY <1>1, <2>6 DEF DropSource, Hands
    <3>2. [analyst[j] EXCEPT !.pc = "next", !.todo = @ \ {analyst[j].image}, !.image = NoPicture] \in Hands
      BY <1>1 DEF Hands, AnalystPc
    <3> QED
      BY <3>1, <3>2
  <2>7. CASE \/ AnalysisDies(j) \/ AnalysisSucceeds(j) \/ AnalysisIsCancelled(j)
             \/ AnalysisIsRetried(j) \/ AnalysisFails(j)
    BY <2>7, RestingTyped
       DEF AnalysisDies, AnalysisSucceeds, AnalysisIsCancelled, AnalysisIsRetried, AnalysisFails, EndAnalysis
  <2> QED
    BY <2>1, <2>2, <2>3, <2>4, <2>5, <2>6, <2>7 DEF AnalystMoves
<1> QED
  BY <1>1, <1>2

\* A worker that records a picture has one.
InHand == \A j \in Analyses: analyst[j].pc \in {"record", "undo", "drop"} => analyst[j].image \in Pictures

LEMMA TypesOfAnalysts ==
    ASSUME MarketIdentificationTypeOK, InHand, NEW j \in Analyses, AnalystMoves(j) PROVE MarketIdentificationTypeOK'
<1> USE DEF pictureVars, clientVars
<1>1. TypesOfProduct /\ TypesOfAnalyses /\ TypesOfStorage /\ elapsed \in 0..2 /\ trouble \in 0..MaxTrouble
  BY TypesInParts
<1>2. TypesOfProduct'
  <2>1. UNCHANGED <<client, approved>>
    BY DEF AnalystMoves, PrepareAnalysis, PrepareRefused, NormalizePicture, NormalizeRefused, RecordPicture,
       RecordFails, UndoPass, DropSource, CommitSuggestion, AnalysisThrows, AnalysisDies, AnalysisSucceeds,
       AnalysisIsCancelled, AnalysisIsRetried, AnalysisFails
  <2>2. CASE CommitSuggestion(j)
    <3>1. product.version + 1 \in 1..MaxVersion
      BY <1>1, <2>2, IdentificationBounds DEF CommitSuggestion, TypesOfProduct, Products
    <3>2. product' \in Products
      BY <1>1, <2>2, <3>1 DEF CommitSuggestion, TypesOfProduct, Products, IdentificationStatus
    <3> QED
      BY <1>1, <2>1, <3>2 DEF TypesOfProduct
  <2>3. CASE AnalysisIsCancelled(j) \/ AnalysisFails(j)
    <3>1. product' \in Products
      BY <1>1, <2>3 DEF AnalysisIsCancelled, AnalysisFails, TypesOfProduct, Products, IdentificationStatus
    <3> QED
      BY <1>1, <2>1, <3>1 DEF TypesOfProduct
  <2>4. CASE UNCHANGED product
    BY <1>1, <2>1, <2>4 DEF TypesOfProduct
  <2> QED
    BY <2>2, <2>3, <2>4
       DEF AnalystMoves, PrepareAnalysis, PrepareRefused, NormalizePicture, NormalizeRefused, RecordPicture,
       RecordFails, UndoPass, DropSource, AnalysisThrows, AnalysisDies, AnalysisSucceeds, AnalysisIsRetried
<1>3. TypesOfAnalyses'
  <2>1. halted' \subseteq Analyses
    BY <1>1 DEF TypesOfAnalyses, AnalystMoves, PrepareAnalysis, PrepareRefused, NormalizePicture,
       NormalizeRefused, RecordPicture, RecordFails, UndoPass, DropSource, CommitSuggestion, AnalysisThrows,
       AnalysisDies, AnalysisSucceeds, AnalysisIsCancelled, AnalysisIsRetried, AnalysisFails, EndAnalysis
  <2>2. crossed' \in BOOLEAN
    BY <1>1 DEF TypesOfAnalyses, AnalystMoves, PrepareAnalysis, PrepareRefused, NormalizePicture,
       NormalizeRefused, RecordPicture, RecordFails, UndoPass, DropSource, CommitSuggestion, AnalysisThrows,
       AnalysisDies, AnalysisSucceeds, AnalysisIsCancelled, AnalysisIsRetried, AnalysisFails, EndAnalysis
  <2>3. \/ analyses' = analyses
        \/ \E s \in AnalysisStatus: analyses' = [analyses EXCEPT ![j] = s]
    BY DEF AnalystMoves, PrepareAnalysis, PrepareRefused, NormalizePicture,
       NormalizeRefused, RecordPicture, RecordFails, UndoPass, DropSource, CommitSuggestion, AnalysisThrows,
       AnalysisDies, AnalysisSucceeds, AnalysisIsCancelled, AnalysisIsRetried, AnalysisFails, EndAnalysis,
       AnalysisStatus
  <2>4. analyses' \in [Analyses -> AnalysisStatus]
    BY <1>1, <2>3 DEF TypesOfAnalyses
  <2> QED
    BY <1>1, <2>1, <2>2, <2>4, HandsTyped DEF TypesOfAnalyses
<1>4. TypesOfStorage'
  <2>1. UNCHANGED scan
    BY DEF AnalystMoves, PrepareAnalysis, PrepareRefused, NormalizePicture, NormalizeRefused, RecordPicture,
       RecordFails, UndoPass, DropSource, CommitSuggestion, AnalysisThrows, AnalysisDies, AnalysisSucceeds,
       AnalysisIsCancelled, AnalysisIsRetried, AnalysisFails
  <2>2. picture' \in [Pictures -> PictureRows]
    <3>1. CASE PrepareAnalysis(j)
      <4>1. \A i \in Pictures: [picture[i] EXCEPT !.row = "normalizing"] \in PictureRows
        BY <1>1 DEF TypesOfStorage, PictureRows, PictureStatus
      <4> QED
        BY <1>1, <3>1, <4>1 DEF PrepareAnalysis, TypesOfStorage
    <3>2. ASSUME NEW i \in Pictures \cup {NoPicture}
          PROVE [picture EXCEPT ![i].row = "ready", ![i].name = "normalized"] \in [Pictures -> PictureRows]
      <4>1. \A k \in Pictures: [picture[k] EXCEPT !.row = "ready", !.name = "normalized"] \in PictureRows
        <5>1. "ready" \in PictureStatus /\ "normalized" \in ObjectName
          BY DEF PictureStatus, ObjectName
        <5>2. ASSUME NEW p \in PictureRows PROVE [p EXCEPT !.row = "ready", !.name = "normalized"] \in PictureRows
          BY <5>1 DEF PictureRows
        <5> QED
          BY <1>1, <5>2 DEF TypesOfStorage
      <4>2. picture \in [Pictures -> PictureRows]
        BY <1>1 DEF TypesOfStorage
      <4> QED
        BY <4>1, <4>2
    <3>3. CASE RecordPicture(j) \/ RecordFails(j)
      <4>1. analyst[j].image \in Pictures \cup {NoPicture}
        BY <1>1 DEF TypesOfAnalyses, Hands
      <4> QED
        BY <1>1, <3>2, <3>3, <4>1 DEF RecordPicture, RecordFails, TypesOfStorage
    <3>4. CASE UNCHANGED picture
      BY <1>1, <3>4 DEF TypesOfStorage
    <3> QED
      BY <3>1, <3>3, <3>4 DEF AnalystMoves, PrepareRefused, NormalizePicture, NormalizeRefused, UndoPass,
         DropSource, CommitSuggestion, AnalysisThrows, AnalysisDies, AnalysisSucceeds, AnalysisIsCancelled,
         AnalysisIsRetried, AnalysisFails
  <2>3. \/ bucket' \subseteq bucket
        \/ \E i \in Pictures: bucket' = bucket \cup {<<i, "normalized">>}
    <3>1. \A i \in analyst[j].todo: i \in Pictures
      BY <1>1 DEF TypesOfAnalyses, Hands
    <3> QED
      BY <3>1 DEF AnalystMoves, PrepareAnalysis, PrepareRefused, NormalizePicture, NormalizeRefused, RecordPicture,
       RecordFails, UndoPass, DropSource, CommitSuggestion, AnalysisThrows, AnalysisDies, AnalysisSucceeds,
       AnalysisIsCancelled, AnalysisIsRetried, AnalysisFails
  <2>4. bucket' \subseteq Pictures \X ObjectName
    BY <1>1, <2>3 DEF TypesOfStorage, ObjectName
  <2>5. unanswered' \subseteq Pictures
    <3>1. CASE RecordFails(j)
      <4>1. PICK committed \in BOOLEAN:
              /\ picture' = IF committed
                            THEN [picture EXCEPT ![analyst[j].image].row = "ready",
                                                 ![analyst[j].image].name = "normalized"]
                            ELSE picture
              /\ unanswered' = IF committed THEN unanswered \cup {analyst[j].image} ELSE unanswered
        BY <3>1 DEF RecordFails
      <4> QED
        BY <1>1, <3>1, <4>1 DEF TypesOfStorage, RecordFails, InHand
    <3>2. CASE UNCHANGED unanswered
      BY <1>1, <3>2 DEF TypesOfStorage
    <3> QED
      BY <3>1, <3>2 DEF AnalystMoves, PrepareAnalysis, PrepareRefused, NormalizePicture, NormalizeRefused,
       RecordPicture, UndoPass, DropSource, CommitSuggestion, AnalysisThrows, AnalysisDies, AnalysisSucceeds,
       AnalysisIsCancelled, AnalysisIsRetried, AnalysisFails
  <2> QED
    BY <1>1, <2>1, <2>2, <2>4, <2>5 DEF TypesOfStorage
<1>5. elapsed' \in 0..2 /\ trouble' \in 0..MaxTrouble
  BY <1>1, TroubleTyped DEF AnalystMoves, PrepareAnalysis, PrepareRefused, NormalizePicture, NormalizeRefused,
     RecordPicture, RecordFails, UndoPass, DropSource, CommitSuggestion, AnalysisThrows, AnalysisDies,
     AnalysisSucceeds, AnalysisIsCancelled, AnalysisIsRetried, AnalysisFails
<1> QED
  BY <1>2, <1>3, <1>4, <1>5, TypesInPartsNext

LEMMA TypesOfIdentification ==
    ASSUME MarketIdentificationTypeOK, InHand, [MarketIdentificationNext]_identificationVars
    PROVE MarketIdentificationTypeOK'
<1>1. CASE PersonStep
  BY <1>1, TypesOfMembers
<1>2. CASE PictureStep \/ DeleteExpired \/ RecordExpired \/ ScanFails
  BY <1>2, TypesOfPictures
<1>3. ASSUME NEW j \in Analyses, AnalystMoves(j) PROVE MarketIdentificationTypeOK'
  BY <1>3, TypesOfAnalysts
<1>5. CASE UNCHANGED identificationVars
  BY <1>5 DEF identificationVars, MarketIdentificationTypeOK
<1> QED
  BY <1>1, <1>2, <1>3, <1>5 DEF MarketIdentificationNext, AnalystStep, AnalystMoves

-----------------------------------------------------------------------------
(* Submissions.                                                            *)

LEMMA SubmissionsStand ==
    ASSUME Submissions, UNCHANGED <<client, approved>>,
           UNCHANGED <<product.version, product.input, product.confirmed>>,
           product'.status = "none" => product.status = "none",
           product'.status = "confirmed" => product.status = "confirmed"
    PROVE Submissions'
  BY DEF Submissions, ConfirmedAsSubmitted, PageOfProduct, UpToDate

LEMMA SubmissionsOfMembers ==
    ASSUME MarketIdentificationTypeOK, Submissions, PersonStep PROVE Submissions'
<1> USE DEF Submissions, analysisVars, pictureVars, clientVars
<1>1. ASSUME NEW images \in BOOLEAN, NEW fields \in Fields, CreateIdentification(images, fields)
      PROVE Submissions'
  BY <1>1 DEF CreateIdentification, ConfirmedAsSubmitted, PageOfProduct, UpToDate, MarketIdentificationTypeOK
<1>2. ASSUME NEW m \in Persons, ShowIdentification(m) PROVE Submissions'
  BY <1>2 DEF ShowIdentification, ConfirmedAsSubmitted, PageOfProduct, UpToDate, MarketIdentificationTypeOK
<1>3. ASSUME NEW m \in Persons, NEW fields \in Fields, UpdateIdentification(m, fields) PROVE Submissions'
  <2>1. /\ product'.status \notin {"none", "confirmed"} /\ product'.version = product.version + 1
        /\ product'.input = fields
    BY <1>3 DEF UpdateIdentification, PageOfProduct, MarketIdentificationTypeOK
  <2>2. /\ client'[m] = [step |-> "updated", version |-> product.version + 1, fields |-> fields]
        /\ \A k \in Persons \ {m}: client'[k] = client[k]
    BY <1>3 DEF UpdateIdentification, MarketIdentificationTypeOK
  <2>3. \A k \in Persons: client[k].version <= product.version /\ client[k].version \in Nat
                          /\ product.version \in Nat
    BY DEF PageOfProduct, MarketIdentificationTypeOK
  <2>4. ASSUME NEW k \in Persons PROVE PageOfProduct(k)'
    BY <2>1, <2>2, <2>3 DEF PageOfProduct, UpToDate
  <2> QED
    BY <2>1, <2>4 DEF ConfirmedAsSubmitted
<1>4. ASSUME NEW m \in Persons, ConfirmIdentification(m) PROVE Submissions'
  <2>1. /\ product' = [product EXCEPT !.status = "confirmed", !.confirmed = product.input, !.version = @ + 1]
        /\ approved' = client[m].fields /\ client[m].fields = product.input
    BY <1>4 DEF ConfirmIdentification, PageOfProduct
  <2>2. /\ product'.status = "confirmed" /\ product'.version = product.version + 1
        /\ product'.input = product.input /\ product'.confirmed = product.input
    BY <2>1 DEF MarketIdentificationTypeOK
  <2>3. client'[m] = NotOpened /\ \A k \in Persons \ {m}: client'[k] = client[k]
    BY <1>4 DEF ConfirmIdentification, MarketIdentificationTypeOK
  <2>4. \A k \in Persons: client[k].version <= product.version /\ client[k].version \in Nat
                          /\ product.version \in Nat
    BY DEF PageOfProduct, MarketIdentificationTypeOK
  <2>5. ASSUME NEW k \in Persons PROVE PageOfProduct(k)'
    BY <2>2, <2>3, <2>4 DEF PageOfProduct, UpToDate, NotOpened
  <2> QED
    BY <2>1, <2>2, <2>5 DEF ConfirmedAsSubmitted
<1>5. ASSUME NEW j \in Analyses, AnalyzeIdentification(j) PROVE Submissions'
  BY <1>5, SubmissionsStand DEF AnalyzeIdentification, MarketIdentificationTypeOK
<1>6. ASSUME NEW j \in Analyses, CancelAnalysis(j) PROVE Submissions'
  BY <1>6, SubmissionsStand DEF CancelAnalysis
<1>7. CASE TimePasses
  BY <1>7, SubmissionsStand DEF TimePasses
<1> QED
  BY <1>1, <1>2, <1>3, <1>4, <1>5, <1>6, <1>7 DEF PersonStep

LEMMA SubmissionsOfAnalysts ==
    ASSUME MarketIdentificationTypeOK, Submissions, AnalystStep PROVE Submissions'
<1> USE DEF clientVars
<1> PICK j \in Analyses:
        \/ PrepareAnalysis(j) \/ PrepareRefused(j)
        \/ \E i \in Pictures: NormalizePicture(j, i) \/ NormalizeRefused(j, i)
        \/ RecordPicture(j) \/ RecordFails(j) \/ UndoPass(j) \/ DropSource(j)
        \/ CommitSuggestion(j) \/ AnalysisThrows(j) \/ AnalysisDies(j)
        \/ AnalysisSucceeds(j) \/ AnalysisIsCancelled(j)
        \/ AnalysisIsRetried(j) \/ AnalysisFails(j)
  BY DEF AnalystStep
<1>1. CASE CommitSuggestion(j)
  <2>1. /\ product'.status = "suggestion_ready" /\ product'.version = product.version + 1
        /\ product'.input = product.input
    BY <1>1 DEF CommitSuggestion, MarketIdentificationTypeOK
  <2>2. \A k \in Persons: client[k].version <= product.version /\ client[k].version \in Nat
                          /\ product.version \in Nat
    BY DEF PageOfProduct, Submissions, MarketIdentificationTypeOK
  <2> QED
    BY <1>1, <2>1, <2>2 DEF CommitSuggestion, Submissions, ConfirmedAsSubmitted, PageOfProduct, UpToDate
<1>2. CASE AnalysisIsCancelled(j) \/ AnalysisFails(j)
  <2>1. /\ product'.status = product.status \/ product'.status \in {"draft", "failed"}
        /\ UNCHANGED <<product.version, product.input, product.confirmed, client, approved>>
    BY <1>2 DEF AnalysisIsCancelled, AnalysisFails, MarketIdentificationTypeOK
  <2> QED
    BY <2>1, SubmissionsStand
<1>3. CASE UNCHANGED <<product, client, approved>>
  BY <1>3, SubmissionsStand
<1> QED
  BY <1>1, <1>2, <1>3
     DEF PrepareAnalysis, PrepareRefused, NormalizePicture, NormalizeRefused, RecordPicture, RecordFails,
         UndoPass, DropSource, AnalysisThrows, AnalysisDies, AnalysisSucceeds, AnalysisIsRetried

LEMMA SubmissionsKept ==
    ASSUME MarketIdentificationTypeOK, Submissions, [MarketIdentificationNext]_identificationVars
    PROVE Submissions'
<1>1. CASE PersonStep
  BY <1>1, SubmissionsOfMembers
<1>2. CASE AnalystStep
  BY <1>2, SubmissionsOfAnalysts
<1>3. CASE PictureStep \/ DeleteExpired \/ RecordExpired \/ ScanFails \/ UNCHANGED identificationVars
  <2>1. UNCHANGED <<product, client, approved>>
    BY <1>3 DEF PictureStep, StartPictureUpload, PutPicture, CompletePictureUpload, CompleteRefused,
                PurgeUpload, MarkExpired, DeleteExpired, RecordExpired, ScanFails, identificationVars, clientVars
  <2> QED
    BY <2>1, SubmissionsStand
<1> QED
  BY <1>1, <1>2, <1>3 DEF MarketIdentificationNext
-----------------------------------------------------------------------------
(* Pictures.                                                               *)

USE DEF InHand

PictureTypes ==
    /\ picture \in [Pictures -> PictureRows] /\ analyst \in [Analyses -> Hands]
    /\ crossed \in BOOLEAN

LEMMA PicturesTyped == MarketIdentificationTypeOK => PictureTypes
  BY DEF MarketIdentificationTypeOK, PictureTypes, PictureRows, Hands

LEMMA PicturesStand ==
    ASSUME PicturesInv, UNCHANGED <<picture, bucket, scan, analyst, unanswered, crossed>>
    PROVE PicturesInv'
  BY DEF PicturesInv, PictureIsReadable, OneBusy, ScanOK, AnalystOK, PictureOK, Busy, Waits, Readable, Shown

\* An upload or the scan: a row that a worker is about to write stays, what it
\* stored stays as long as it is available, and so does what a row names.
LEMMA PicturesOutside ==
    ASSUME PictureTypes, PicturesInv, UNCHANGED <<analyst, unanswered, crossed>>, ScanOK',
           \A i \in Pictures:
               /\ Waits(i) => Waits(i)'
               /\ PictureOK(i)'
               /\ picture[i].name = "normalized" => picture'[i].name = "normalized"
               /\ picture'[i].object = "available" => picture[i].object = "available"
               /\ i \in Readable' => i \in Readable \/ <<i, picture'[i].name>> \in bucket'
               /\ i \in Readable /\ i \in Readable' =>
                      picture'[i].name = picture[i].name
                      /\ (<<i, picture[i].name>> \in bucket => <<i, picture[i].name>> \in bucket')
               /\ Waits(i) /\ picture'[i].object = "available" /\ <<i, "normalized">> \in bucket =>
                      <<i, "normalized">> \in bucket'
    PROVE PicturesInv'
<1> USE DEF PicturesInv
<1>1. PictureIsReadable'
  BY DEF PictureIsReadable, Readable, Shown
<1>2. OneBusy'
  BY DEF OneBusy, Busy
<1>3. ASSUME NEW j \in Analyses PROVE AnalystOK(j)'
  <2>1. AnalystOK(j)
    OBVIOUS
  <2>2. \A i \in analyst[j].todo: Waits(i) => Waits(i)'
    BY DEF PictureTypes, Hands
  <2> QED
    BY <2>1, <2>2 DEF AnalystOK
<1> QED
  BY <1>1, <1>2, <1>3

LEMMA PicturesOfUploads ==
    ASSUME PictureTypes, PicturesInv, PictureStep \/ DeleteExpired \/ RecordExpired \/ ScanFails
    PROVE PicturesInv'
<1> USE DEF analysisVars, clientVars, PictureTypes
<1>0. UNCHANGED <<analyst, unanswered, crossed>>
  BY DEF PictureStep, StartPictureUpload, PutPicture, CompletePictureUpload, CompleteRefused,
     PurgeUpload, MarkExpired, DeleteExpired, RecordExpired, ScanFails
<1>1. ASSUME NEW k \in Pictures,
             \/ StartPictureUpload(k) \/ PutPicture(k) \/ CompletePictureUpload(k) \/ CompleteRefused(k)
             \/ PurgeUpload(k) \/ MarkExpired(k)
      PROVE PicturesInv'
  <2>1. ScanOK'
    BY <1>1 DEF StartPictureUpload, PutPicture, CompletePictureUpload, CompleteRefused,
       PurgeUpload, MarkExpired, PicturesInv, ScanOK, PictureRows
  <2>2. ASSUME NEW i \in Pictures
        PROVE /\ Waits(i) => Waits(i)'
              /\ PictureOK(i)'
              /\ picture'[i].name = picture[i].name
              /\ picture'[i].object = "available" => picture[i].object = "available"
              /\ i \in Readable' => i \in Readable \/ <<i, picture'[i].name>> \in bucket'
              /\ <<i, "normalized">> \in bucket => <<i, "normalized">> \in bucket'
              /\ i \in Readable /\ i \in Readable' /\ <<i, picture[i].name>> \in bucket =>
                     <<i, picture[i].name>> \in bucket'
    <3>1. PictureOK(i)
      BY DEF PicturesInv
    <3>2. picture[i] \in PictureRows
      OBVIOUS
    <3>3. CASE StartPictureUpload(k)
      BY <1>1, <3>1, <3>2, <3>3 DEF StartPictureUpload, Waits, PictureOK, Readable, Shown, PictureRows, PictureStatus
    <3>4. CASE PutPicture(k)
      BY <1>1, <3>1, <3>2, <3>4 DEF PutPicture, Waits, PictureOK, Readable, Shown, PictureRows
    <3>5. CASE CompletePictureUpload(k)
      BY <1>1, <3>1, <3>2, <3>5 DEF CompletePictureUpload, Waits, PictureOK, Readable, Shown, PictureRows
    <3>6. CASE CompleteRefused(k)
      BY <1>1, <3>1, <3>2, <3>6 DEF CompleteRefused, Waits, PictureOK, Readable, Shown, PictureRows
    <3>7. CASE PurgeUpload(k)
      BY <1>1, <3>1, <3>2, <3>7 DEF PurgeUpload, Waits, PictureOK, Readable, Shown, PictureRows
    <3>8. CASE MarkExpired(k)
      BY <1>1, <3>1, <3>2, <3>8 DEF MarkExpired, Waits, PictureOK, Readable, Shown, PictureRows
    <3> QED
      BY <1>1, <3>3, <3>4, <3>5, <3>6, <3>7, <3>8
  <2> QED
    BY <1>0, <2>1, <2>2, PicturesOutside
<1>2. CASE DeleteExpired
  <2>1. ScanOK' /\ scan.image \in Pictures /\ picture[scan.image].object # "available"
    BY <1>2 DEF DeleteExpired, PicturesInv, ScanOK
  <2>2. /\ UNCHANGED picture
        /\ \A i \in Pictures: \A name: i # scan.image /\ <<i, name>> \in bucket => <<i, name>> \in bucket'
    BY <1>2 DEF DeleteExpired
  <2> QED
    BY <1>0, <2>1, <2>2, PicturesOutside DEF PicturesInv, Waits, PictureOK, Readable, Shown
<1>3. CASE RecordExpired
  <2>1. ScanOK'
    BY <1>3 DEF RecordExpired, ScanOK, NoScan
  <2>2. /\ UNCHANGED bucket
        /\ \A i \in Pictures: /\ picture'[i].row = picture[i].row /\ picture'[i].name = picture[i].name
                              /\ picture'[i].object = picture[i].object \/ picture'[i].object = "deleted"
                              /\ picture'[i].deleted = picture[i].deleted \/ picture'[i].deleted
    BY <1>3 DEF RecordExpired, PictureRows
  <2> QED
    BY <1>0, <2>1, <2>2, PicturesOutside DEF PicturesInv, Waits, PictureOK, Readable, Shown
<1>4. CASE ScanFails
  BY <1>4, <1>0, PicturesOutside DEF ScanFails, ScanOK, NoScan, PicturesInv, Waits, PictureOK, Readable, Shown
<1> QED
  BY <1>1, <1>2, <1>3, <1>4 DEF PictureStep

\* One worker ends its attempt, or has nothing of a picture in hand any more;
\* what it removes no row names.
LEMMA PicturesLetGo ==
    ASSUME PictureTypes, PicturesInv, NEW j \in Analyses, NEW h \in Hands,
           analyst' = [analyst EXCEPT ![j] = h],
           h.pc \in {"idle", "failing", "finish"}, h.pc = "finish" => Busy(j),
           UNCHANGED <<picture, scan, unanswered, crossed>>,
           ~crossed => \A i \in Readable \ unanswered: <<i, picture[i].name>> \in bucket',
           ~crossed => \A i \in Pictures:
               <<i, "normalized">> \in bucket /\ Waits(i) /\ ~Busy(j) => <<i, "normalized">> \in bucket'
    PROVE PicturesInv'
<1> USE DEF PicturesInv, PictureTypes
<1>1. PictureIsReadable' /\ ScanOK' /\ \A i \in Pictures: PictureOK(i)'
  BY DEF PictureIsReadable, ScanOK, PictureOK, Readable, Shown
<1>2. \A k \in Analyses: k # j => analyst'[k] = analyst[k]
  OBVIOUS
<1>3. analyst'[j] = h
  OBVIOUS
<1>4. OneBusy'
  BY <1>2, <1>3 DEF OneBusy, Busy
<1>5. ASSUME NEW k \in Analyses PROVE AnalystOK(k)'
  <2>1. CASE k = j
    BY <1>3, <2>1 DEF AnalystOK
  <2>2. CASE k # j /\ Busy(k)
    <3>1. ~crossed => ~Busy(j)
      BY <2>2 DEF OneBusy
    <3>2. AnalystOK(k)
      OBVIOUS
    <3> QED
      BY <1>2, <2>2, <3>1, <3>2 DEF AnalystOK, Waits, Busy
  <2>3. CASE k # j /\ ~Busy(k)
    BY <1>2, <2>3 DEF AnalystOK, Busy
  <2> QED
    BY <2>1, <2>2, <2>3
<1> QED
  BY <1>1, <1>4, <1>5
\* The steps of a worker.
LEMMA PicturesOfPrepare ==
    ASSUME PictureTypes, PicturesInv, NEW j \in Analyses, PrepareAnalysis(j) PROVE PicturesInv'
<1> USE DEF PicturesInv, PictureTypes
<1>1. \A i \in Pictures:
          /\ picture'[i].row = IF picture[i].row = "uploaded" THEN "normalizing" ELSE picture[i].row
          /\ UNCHANGED <<picture[i].name, picture[i].object, picture[i].deleted>>
  BY DEF PrepareAnalysis, PictureRows
<1>2. /\ analyst'[j].pc = "next" /\ analyst'[j].todo = Unprepared
      /\ \A k \in Analyses: k # j => analyst'[k] = analyst[k]
  BY DEF PrepareAnalysis, Resting
<1>3. UNCHANGED <<bucket, scan, unanswered>>
  BY DEF PrepareAnalysis
<1>4. \A i \in Pictures: (Waits(i)' <=> Waits(i)) /\ (i \in Readable' <=> i \in Readable)
  BY <1>1 DEF Waits, Readable, Shown
<1>5. crossed => crossed'
  BY DEF PrepareAnalysis
<1>6. ~crossed' => \A k \in Analyses: k # j => analyst[k].pc = "idle"
  BY DEF PrepareAnalysis
<1>7. PictureIsReadable' /\ ScanOK' /\ \A i \in Pictures: PictureOK(i)'
  BY <1>1, <1>3, <1>4, <1>5 DEF PictureIsReadable, ScanOK, PictureOK, Readable, Shown
<1>8. OneBusy'
  BY <1>2, <1>6 DEF OneBusy, Busy
<1>9. ASSUME NEW k \in Analyses PROVE AnalystOK(k)'
  <2>1. CASE k = j
    <3>1. \A i \in Unprepared: i \in Pictures /\ Waits(i)'
      BY <1>4 DEF Unprepared, Readable, Shown, Waits
    <3> QED
      BY <1>2, <2>1, <3>1 DEF AnalystOK
  <2>2. CASE k # j
    <3>1. AnalystOK(k)
      OBVIOUS
    <3>2. ~crossed' => analyst'[k].pc = "idle"
      BY <1>2, <1>6, <2>2
    <3> QED
      BY <1>1, <1>2, <2>2, <3>1, <3>2 DEF AnalystOK
  <2> QED
    BY <2>1, <2>2
<1> QED
  BY <1>7, <1>8, <1>9

LEMMA PicturesOfNormalize ==
    ASSUME PictureTypes, PicturesInv, NEW j \in Analyses, NEW i \in Pictures, NormalizePicture(j, i)
    PROVE PicturesInv'
<1> USE DEF PicturesInv, PictureTypes
<1>1. /\ analyst'[j].pc = "record" /\ analyst'[j].image = i /\ analyst'[j].todo = analyst[j].todo
      /\ analyst[j].pc = "next" /\ i \in analyst[j].todo
      /\ \A k \in Analyses: k # j => analyst'[k] = analyst[k]
  BY DEF NormalizePicture, Hands
<1>2. UNCHANGED <<picture, scan, unanswered, crossed>> /\ bucket' = bucket \cup {<<i, "normalized">>}
  BY DEF NormalizePicture
<1>3. PictureIsReadable' /\ ScanOK' /\ \A m \in Pictures: PictureOK(m)'
  BY <1>2 DEF PictureIsReadable, ScanOK, PictureOK, Readable, Shown
<1>4. OneBusy'
  BY <1>1, <1>2 DEF OneBusy, Busy
<1>5. ASSUME NEW k \in Analyses PROVE AnalystOK(k)'
  <2>1. AnalystOK(k)
    OBVIOUS
  <2>2. CASE k = j
    <3>1. ~crossed => \A m \in analyst[j].todo: Waits(m)
      BY <1>1, <2>1, <2>2 DEF AnalystOK
    <3> QED
      BY <1>1, <1>2, <2>2, <3>1 DEF AnalystOK, Waits
  <2>3. CASE k # j
    BY <1>1, <1>2, <2>1, <2>3 DEF AnalystOK, Waits
  <2> QED
    BY <2>2, <2>3
<1> QED
  BY <1>3, <1>4, <1>5

LEMMA PicturesOfRecord ==
    ASSUME PictureTypes, PicturesInv, NEW j \in Analyses, analyst[j].pc = "record",
           NEW stage \in {"drop", "undo"},
           analyst' = [analyst EXCEPT ![j].pc = stage],
           UNCHANGED <<bucket, scan, crossed>>,
           \/ /\ picture' = [picture EXCEPT ![analyst[j].image].row = "ready",
                                            ![analyst[j].image].name = "normalized"]
              /\ \/ stage = "drop" /\ unanswered' = unanswered
                 \/ stage = "undo" /\ unanswered' = unanswered \cup {analyst[j].image}
           \/ stage = "undo" /\ UNCHANGED <<picture, unanswered>>
    PROVE PicturesInv'
<1> USE DEF PicturesInv, PictureTypes
<1> DEFINE p == analyst[j].image
<1>1. /\ analyst'[j].pc = stage /\ analyst'[j].image = p /\ analyst'[j].todo = analyst[j].todo
      /\ \A k \in Analyses: k # j => analyst'[k] = analyst[k]
  BY DEF Hands
<1>2. AnalystOK(j) /\ p \in Pictures
  BY DEF AnalystOK
<1>3. \A i \in Pictures: i # p => picture'[i] = picture[i]
  BY <1>2
<1>4. \/ picture'[p] = [picture[p] EXCEPT !.row = "ready", !.name = "normalized"]
      \/ stage = "undo" /\ UNCHANGED <<picture, unanswered>>
  BY <1>2 DEF PictureRows
<1>5. unanswered \subseteq unanswered'
  OBVIOUS
<1>6. \A i \in Pictures: PictureOK(i)'
  BY <1>3, <1>4 DEF PictureOK, PictureRows
<1>7. \A i \in Pictures: picture'[i].object = picture[i].object /\ picture'[i].deleted = picture[i].deleted
  BY <1>3, <1>4 DEF PictureRows
<1>8. ScanOK'
  BY <1>7 DEF ScanOK
<1>9. OneBusy'
  BY <1>1 DEF OneBusy, Busy
<1>10. PictureIsReadable'
  <2> SUFFICES ASSUME ~crossed, NEW i \in Readable', i \notin unanswered' PROVE <<i, picture'[i].name>> \in bucket
    BY DEF PictureIsReadable
  <2>1. i \in Pictures /\ picture[i].object = "available"
    BY <1>7 DEF Readable, Shown
  <2>2. CASE i # p \/ UNCHANGED picture
    <3>1. i \in Readable
      BY <1>3, <2>1, <2>2 DEF Readable, Shown
    <3> QED
      BY <1>3, <1>5, <2>1, <2>2, <3>1 DEF PictureIsReadable
  <2>3. CASE i = p /\ picture'[p] = [picture[p] EXCEPT !.row = "ready", !.name = "normalized"]
    <3>1. picture'[p].name = "normalized"
      BY <1>2, <2>3 DEF PictureRows
    <3> QED
      BY <1>2, <2>1, <2>3, <3>1 DEF AnalystOK
  <2> QED
    BY <1>4, <2>2, <2>3
<1>11. ASSUME NEW k \in Analyses PROVE AnalystOK(k)'
  <2>1. AnalystOK(k)
    OBVIOUS
  <2>2. CASE k = j
    <3>1. stage = "drop" => picture'[p].name = "normalized"
      BY <1>2, <1>4 DEF PictureRows
    <3>2. ~crossed => \A i \in analyst[j].todo: i # p => Waits(i)'
      BY <1>2, <1>3 DEF AnalystOK, Waits, Hands
    <3>3. ~crossed /\ stage = "undo" => Waits(p)' \/ p \in unanswered'
      BY <1>2 DEF AnalystOK, Waits
    <3> QED
      BY <1>1, <1>2, <2>2, <3>1, <3>2, <3>3 DEF AnalystOK
  <2>3. CASE k # j
    <3>1. ~crossed => ~Busy(k)
      BY <2>3 DEF OneBusy, Busy
    <3>2. \A i \in Pictures: picture[i].name = "normalized" => picture'[i].name = "normalized"
      BY <1>3, <1>4 DEF PictureRows
    <3> QED
      BY <1>1, <2>1, <2>3, <3>1, <3>2 DEF AnalystOK, Busy
  <2> QED
    BY <2>2, <2>3
<1> QED
  BY <1>6, <1>8, <1>9, <1>10, <1>11

\* The object that is deleted again is not the one its row names.
LEMMA UndoneIsUnnamed ==
    ASSUME PictureTypes, PicturesInv, NEW j \in Analyses, ~crossed,
           \/ analyst[j].pc = "undo" /\ bucket' = bucket \ {<<analyst[j].image, "normalized">>}
           \/ analyst[j].pc = "drop" /\ bucket' = bucket \ {<<analyst[j].image, "source">>},
           NEW i \in Readable \ unanswered
    PROVE <<i, picture[i].name>> \in bucket'
<1>1. AnalystOK(j) /\ i \in Pictures /\ PictureOK(i) /\ <<i, picture[i].name>> \in bucket
  BY DEF PicturesInv, PictureIsReadable, Readable, Shown
<1>2. CASE analyst[j].pc = "undo"
  <2>1. i = analyst[j].image => picture[i].name = "source"
    BY <1>1, <1>2 DEF AnalystOK, PictureOK, Waits
  <2> QED
    BY <1>1, <1>2, <2>1
<1>3. CASE analyst[j].pc = "drop"
  <2>1. i = analyst[j].image => picture[i].name = "normalized"
    BY <1>1, <1>3 DEF AnalystOK
  <2> QED
    BY <1>1, <1>3, <2>1
<1> QED
  BY <1>2, <1>3

LEMMA PicturesOfUndo ==
    ASSUME PictureTypes, PicturesInv, NEW j \in Analyses, analyst[j].pc = "undo",
           bucket' = bucket \ {<<analyst[j].image, "normalized">>},
           UNCHANGED <<picture, analyst, scan, unanswered, crossed>>
    PROVE PicturesInv'
<1> USE DEF PicturesInv
<1>1. PictureIsReadable'
  BY UndoneIsUnnamed DEF PictureIsReadable, Readable, Shown
<1>2. ScanOK' /\ OneBusy' /\ \A i \in Pictures: PictureOK(i)'
  BY DEF ScanOK, OneBusy, PictureOK, Busy
<1>3. ASSUME NEW k \in Analyses PROVE AnalystOK(k)'
  <2>1. AnalystOK(k)
    OBVIOUS
  <2>2. ~crossed => analyst[k].pc # "record"
    BY DEF OneBusy, Busy
  <2> QED
    BY <2>1, <2>2 DEF AnalystOK, Waits
<1> QED
  BY <1>1, <1>2, <1>3

LEMMA PicturesOfDrop ==
    ASSUME PictureTypes, PicturesInv, NEW j \in Analyses, DropSource(j) PROVE PicturesInv'
<1> USE DEF PicturesInv, PictureTypes
<1> DEFINE p == analyst[j].image
<1>1. /\ analyst[j].pc = "drop" /\ analyst'[j].pc = "next" /\ analyst'[j].image = NoPicture
      /\ analyst'[j].todo = analyst[j].todo \ {p}
      /\ \A k \in Analyses: k # j => analyst'[k] = analyst[k]
  BY DEF DropSource, Hands
<1>2. UNCHANGED <<picture, scan, unanswered, crossed>> /\ bucket' = bucket \ {<<p, "source">>}
  BY DEF DropSource
<1>3. PictureIsReadable'
  <2>1. ASSUME ~crossed, NEW i \in Readable \ unanswered PROVE <<i, picture[i].name>> \in bucket'
    BY <1>1, <1>2, <2>1, UndoneIsUnnamed
  <2> QED
    BY <1>2, <2>1 DEF PictureIsReadable, Readable, Shown
<1>4. ScanOK' /\ \A i \in Pictures: PictureOK(i)'
  BY <1>2 DEF ScanOK, PictureOK
<1>5. OneBusy'
  BY <1>1, <1>2 DEF OneBusy, Busy
<1>6. ASSUME NEW k \in Analyses PROVE AnalystOK(k)'
  <2>1. AnalystOK(k)
    OBVIOUS
  <2>2. CASE k = j
    BY <1>1, <1>2, <2>1, <2>2 DEF AnalystOK, Waits
  <2>3. CASE k # j
    BY <1>1, <1>2, <2>1, <2>3 DEF AnalystOK, Waits
  <2> QED
    BY <2>2, <2>3
<1> QED
  BY <1>3, <1>4, <1>5, <1>6

LEMMA PicturesOfAnalysts ==
    ASSUME PictureTypes, PicturesInv, NEW j \in Analyses, AnalystMoves(j) PROVE PicturesInv'
<1> USE DEF pictureVars
<1>1. CASE PrepareAnalysis(j)
  BY <1>1, PicturesOfPrepare
<1>2. ASSUME NEW i \in Pictures, NormalizePicture(j, i) PROVE PicturesInv'
  BY <1>2, PicturesOfNormalize
<1>3. CASE RecordPicture(j)
  BY <1>3, PicturesOfRecord DEF RecordPicture
<1>4. CASE RecordFails(j)
  <2>1. PICK committed \in BOOLEAN:
          /\ picture' = IF committed
                        THEN [picture EXCEPT ![analyst[j].image].row = "ready",
                                             ![analyst[j].image].name = "normalized"]
                        ELSE picture
          /\ unanswered' = IF committed THEN unanswered \cup {analyst[j].image} ELSE unanswered
    BY <1>4 DEF RecordFails
  <2>2. /\ analyst[j].pc = "record" /\ analyst' = [analyst EXCEPT ![j].pc = "undo"]
        /\ UNCHANGED <<bucket, scan, crossed>>
    BY <1>4 DEF RecordFails
  <2> QED
    BY <2>1, <2>2, PicturesOfRecord
<1>5. CASE DropSource(j)
  BY <1>5, PicturesOfDrop
\* The others let the picture go.
<1> DEFINE LetsGo(h) ==
        /\ analyst' = [analyst EXCEPT ![j] = h] /\ UNCHANGED <<picture, scan, unanswered, crossed>>
        /\ h.pc \in {"idle", "failing", "finish"} /\ (h.pc = "finish" => Busy(j))
<1>6. \A i \in Readable \ unanswered: ~crossed => <<i, picture[i].name>> \in bucket
  BY DEF PicturesInv, PictureIsReadable
<1>7. ASSUME NEW h \in Hands, LetsGo(h), UNCHANGED bucket PROVE PicturesInv'
  BY <1>6, <1>7, PicturesLetGo
<1>8. CASE UndoPass(j)
  <2>1. CASE UNCHANGED analyst
    <3>1. /\ analyst[j].pc = "undo" /\ bucket' = bucket \ {<<analyst[j].image, "normalized">>}
          /\ UNCHANGED <<picture, scan, unanswered, crossed>>
          \/ UNCHANGED <<picture, bucket, scan, analyst, unanswered, crossed>>
      BY <1>8, <2>1 DEF UndoPass
    <3> QED
      BY <2>1, <3>1, PicturesOfUndo, PicturesStand
  <2>2. CASE \E retry \in BOOLEAN: Throw(j, retry) /\ UNCHANGED bucket
    <3>1. PICK retry \in BOOLEAN: analyst' = [analyst EXCEPT ![j] = [Resting EXCEPT !.pc = "failing", !.retry = retry]]
      BY <2>2 DEF Throw
    <3>2. [Resting EXCEPT !.pc = "failing", !.retry = retry].pc = "failing"
      BY DEF Resting
    <3> QED
      BY <1>8, <2>2, <3>1, <3>2, <1>7, RestingTyped DEF UndoPass
  <2> QED
    BY <1>8, <2>1, <2>2 DEF UndoPass
<1>9. CASE AnalysisThrows(j)
  <2>1. PICK retry \in BOOLEAN: analyst' = [analyst EXCEPT ![j] = [Resting EXCEPT !.pc = "failing", !.retry = retry]]
    BY <1>9 DEF AnalysisThrows, Throw
  <2>2. [Resting EXCEPT !.pc = "failing", !.retry = retry].pc = "failing"
    BY DEF Resting
  <2>3. UNCHANGED <<picture, scan, unanswered, crossed>> /\ Busy(j)
    BY <1>9 DEF AnalysisThrows, Busy
  <2>4. ASSUME ~crossed, NEW i \in Readable \ unanswered PROVE <<i, picture[i].name>> \in bucket'
    <3>1. CASE bucket \subseteq bucket'
      BY <1>6, <2>4, <3>1
    <3>2. CASE analyst[j].pc = "drop" /\ bucket' = bucket \ {<<analyst[j].image, "source">>}
      BY <2>4, <3>2, UndoneIsUnnamed
    <3> QED
      BY <1>9, <3>1, <3>2 DEF AnalysisThrows
  <2> QED
    BY <2>1, <2>2, <2>3, <2>4, RestingTyped, PicturesLetGo
<1>10. CASE PrepareRefused(j)
  <2>1. [Resting EXCEPT !.pc = "failing"] \in Hands /\ [Resting EXCEPT !.pc = "failing"].pc = "failing"
    BY DEF Resting, Hands, AnalystPc
  <2> QED
    BY <1>7, <1>10, <2>1 DEF PrepareRefused
<1>11. ASSUME NEW i \in Pictures, NormalizeRefused(j, i) PROVE PicturesInv'
  <2>1. PICK retry \in BOOLEAN: analyst' = [analyst EXCEPT ![j] = [Resting EXCEPT !.pc = "failing", !.retry = retry]]
    BY <1>11 DEF NormalizeRefused, Throw
  <2>2. [Resting EXCEPT !.pc = "failing", !.retry = retry].pc = "failing"
    BY DEF Resting
  <2> QED
    BY <1>7, <1>11, <2>1, <2>2, RestingTyped DEF NormalizeRefused
<1>12. CASE CommitSuggestion(j)
  <2>1. /\ analyst' = [analyst EXCEPT ![j] = [analyst[j] EXCEPT !.pc = "finish"]] /\ analyst[j] \in Hands
        /\ Busy(j)
    BY <1>12 DEF CommitSuggestion, PictureTypes, Busy
  <2>2. [analyst[j] EXCEPT !.pc = "finish"] \in Hands /\ [analyst[j] EXCEPT !.pc = "finish"].pc = "finish"
    BY <2>1 DEF Hands, AnalystPc
  <2>3. UNCHANGED <<picture, bucket, scan, unanswered, crossed>>
    BY <1>12 DEF CommitSuggestion
  <2> QED
    BY <1>7, <2>1, <2>2, <2>3
<1>13. CASE \/ AnalysisDies(j) \/ AnalysisSucceeds(j) \/ AnalysisIsCancelled(j)
            \/ AnalysisIsRetried(j) \/ AnalysisFails(j)
  <2>1. analyst' = [analyst EXCEPT ![j] = Resting] /\ UNCHANGED <<picture, bucket, scan, unanswered, crossed>>
    BY <1>13 DEF AnalysisDies, AnalysisSucceeds, AnalysisIsCancelled, AnalysisIsRetried, AnalysisFails, EndAnalysis
  <2>2. Resting \in Hands /\ Resting.pc = "idle"
    BY RestingTyped DEF Resting
  <2> QED
    BY <1>7, <2>1, <2>2
<1> QED
  BY <1>1, <1>2, <1>3, <1>4, <1>5, <1>8, <1>9, <1>10, <1>11, <1>12, <1>13 DEF AnalystMoves

LEMMA PicturesKept ==
    ASSUME PictureTypes, PicturesInv, [MarketIdentificationNext]_identificationVars
    PROVE PicturesInv'
<1>1. CASE PersonStep \/ UNCHANGED identificationVars
  <2>1. UNCHANGED <<picture, bucket, scan, analyst, unanswered, crossed>>
    BY <1>1 DEF PersonStep, CreateIdentification, ShowIdentification, UpdateIdentification,
       ConfirmIdentification, AnalyzeIdentification, CancelAnalysis, TimePasses, identificationVars,
       analysisVars, pictureVars
  <2> QED
    BY <2>1, PicturesStand
<1>2. CASE PictureStep \/ DeleteExpired \/ RecordExpired \/ ScanFails
  BY <1>2, PicturesOfUploads
<1>3. ASSUME NEW j \in Analyses, AnalystMoves(j) PROVE PicturesInv'
  BY <1>3, PicturesOfAnalysts
<1> QED
  BY <1>1, <1>2, <1>3 DEF MarketIdentificationNext, AnalystStep, AnalystMoves

-----------------------------------------------------------------------------
(* The invariant.                                                          *)

LEMMA IdentificationStarts == MarketIdentificationInit => IdentificationInv
<1> SUFFICES ASSUME MarketIdentificationInit PROVE IdentificationInv
  OBVIOUS
<1>1. MarketIdentificationTypeOK
  <2>1. TypesOfProduct
    BY IdentificationBounds
       DEF MarketIdentificationInit, TypesOfProduct, Products, IdentificationStatus, NotOpened
  <2>2. TypesOfAnalyses
    BY RestingTyped DEF MarketIdentificationInit, TypesOfAnalyses, AnalysisStatus
  <2>3. TypesOfStorage
    BY DEF MarketIdentificationInit, TypesOfStorage, PictureRows, PictureStatus, ObjectName, NoScan
  <2> QED
    BY <2>1, <2>2, <2>3, IdentificationBounds, TypesInParts DEF MarketIdentificationInit
<1>2. Submissions
  BY DEF MarketIdentificationInit, Submissions, ConfirmedAsSubmitted, PageOfProduct, NotOpened
<1>3. PicturesInv
  BY DEF MarketIdentificationInit, PicturesInv, PictureIsReadable, OneBusy, ScanOK, AnalystOK, PictureOK,
         Busy, Resting, NoScan, Readable, Shown
<1> QED
  BY <1>1, <1>2, <1>3 DEF IdentificationInv


LEMMA IdentificationStep ==
    ASSUME IdentificationInv, [MarketIdentificationNext]_identificationVars PROVE IdentificationInv'
<1>1. InHand
  BY DEF IdentificationInv, PicturesInv, AnalystOK
<1> QED
  BY <1>1, TypesOfIdentification, SubmissionsKept, PicturesKept, PicturesTyped DEF IdentificationInv

LEMMA IdentificationAlways == MarketIdentificationSpec => []IdentificationInv
<1>1. MarketIdentificationInit => IdentificationInv
  BY IdentificationStarts
<1>2. IdentificationInv /\ [MarketIdentificationNext]_identificationVars => IdentificationInv'
  BY IdentificationStep
<1> QED
  BY <1>1, <1>2, PTL DEF MarketIdentificationSpec

\* Every variable of a product's identification keeps its type.
THEOREM IdentificationIsTyped == MarketIdentificationSpec => []MarketIdentificationTypeOK
<1>1. IdentificationInv => MarketIdentificationTypeOK
  BY DEF IdentificationInv
<1> QED
  BY <1>1, IdentificationAlways, PTL

\* What is confirmed is what the member who confirmed had submitted: a page
\* whose version is still the product's has the product's input.
THEOREM ConfirmationIsOfTheSubmitted == MarketIdentificationSpec => []ConfirmedAsSubmitted
<1>1. IdentificationInv => ConfirmedAsSubmitted
  BY DEF IdentificationInv, Submissions
<1> QED
  BY <1>1, IdentificationAlways, PTL

\* A picture's object is in the bucket under the name in its row, whatever step
\* the worker stops at: the smaller one is there before the row names it, the
\* source stays until then, and what is deleted again is what no row names.
THEOREM PicturesStayReadable == MarketIdentificationSpec => []PictureIsReadable
<1>1. IdentificationInv => PictureIsReadable
  BY DEF IdentificationInv, PicturesInv
<1> QED
  BY <1>1, IdentificationAlways, PTL
=============================================================================
