--------------------------- MODULE ExpenseClosing ---------------------------
(***************************************************************************)
(* The cash settlement of one branch on one day: members record what they  *)
(* spent, by hand or from receipts; officers and delegates keep the        *)
(* roster, confirm that members are ready, move cash, reconcile the vault  *)
(* and close the day; after that an officer may only correct.              *)
(*                                                                         *)
(* Every action is one transaction, and all but addFollowup take the       *)
(* advisory lock of the branch's day.  Commands compare the version their  *)
(* caller saw, so an action stands for a caller who saw the current one.   *)
(***************************************************************************)
EXTENDS Naturals

CONSTANTS
    Members,        \* members of the branch
    MaxReceipts,    \* receipts of a member on the day
    MaxCash,        \* the largest shortage recorded; transfers are up to it
    MaxTransfers    \* unreversed transfers of one amount for one shortage

ASSUME ClosingAssumption ==
    /\ MaxReceipts \in Nat
    /\ MaxCash \in Nat \ {0}
    /\ MaxTransfers \in Nat

DayReceipts == Members \X (1..MaxReceipts)
Amounts == 1..MaxCash

VARIABLES
    branch,         \* expense_branch_days.status: none, open, closed
    fresh,          \* reconciliation_version = lock_version
    difference,     \* actual_cash differs from expected_cash
    drift,          \* history: the records differ from those last reconciled
    issue,          \* the cash_difference issue: none, open, resolved
    corrected,      \* a post_close_correction issue exists
    roster,         \* members with an expense_branch_participants row
    ready,          \* those with ready_at
    day,            \* member -> expense_days: no row, fields missing, complete
    candidate,      \* members with an unconfirmed item
    confirmed,      \* members with a confirmed item
    receipt,        \* receipt -> what ReceiptLifecycle says of it
    missing,        \* members with a record of an unreplenished amount
    shortage,       \* member -> that amount
    settled,        \* members whose record is resolved
    linked,         \* member, amount -> unreversed transfers for the record
    moved           \* members with a transfer of any kind on this day

branchVars == <<branch, difference, issue, corrected>>
peopleVars == <<roster, ready>>
recordVars == <<day, candidate, confirmed>>
cashVars == <<missing, shortage, settled, linked, moved>>
closingVars == <<branchVars, fresh, drift, peopleVars, recordVars, receipt, cashVars>>

DayLife == INSTANCE ReceiptLifecycle WITH
    Receipts <- DayReceipts, phase <- receipt, open <- (branch # "closed")

ClosingTypeOK ==
    /\ branch \in {"none", "open", "closed"}
    /\ {fresh, difference, drift, corrected} \subseteq BOOLEAN
    /\ issue \in {"none", "open", "resolved"}
    /\ {roster, ready, candidate, confirmed, missing, settled, moved} \subseteq SUBSET Members
    /\ day \in [Members -> {"none", "blank", "complete"}]
    /\ receipt \in [DayReceipts -> DayLife!Phase]
    /\ shortage \in [Members -> 0..MaxCash]
    /\ linked \in [Members -> [Amounts -> 0..MaxTransfers]]

ClosingInit ==
    /\ branch = "none" /\ fresh = FALSE /\ difference = FALSE /\ drift = TRUE
    /\ issue = "none" /\ corrected = FALSE
    /\ roster = {} /\ ready = {}
    /\ day = [m \in Members |-> "none"]
    /\ candidate = {} /\ confirmed = {}
    /\ receipt = [r \in DayReceipts |-> "none"]
    /\ shortage = [m \in Members |-> 0]
    /\ missing = {} /\ settled = {} /\ moved = {}
    /\ linked = [m \in Members |-> [a \in Amounts |-> 0]]

-----------------------------------------------------------------------------
(* A member's own records: expense.ts, and the receipts of                 *)
(* expense-receipts.ts.                                                    *)

\* Mutant of PersonalMutation: the reconciliation survives an edit.
MutationKeepsReconciliation(m) ==
    /\ branch # "closed"
    /\ day[m] # "none"
    /\ ready' = ready \ {m}
    /\ drift' = TRUE
    /\ UNCHANGED <<branchVars, fresh, roster, cashVars>>

\* Mutant of PersonalMutation: the mark of readiness survives an edit.
MutationKeepsReady(m) ==
    /\ branch # "closed"
    /\ day[m] # "none"
    /\ fresh' = FALSE
    /\ drift' = TRUE
    /\ UNCHANGED <<branchVars, peopleVars, cashVars>>

\* expensePersonalMutation: refused once closed; a mark of readiness and the
\* reconciliation are withdrawn.
PersonalMutation(m) ==
    /\ branch # "closed"
    /\ day[m] # "none"
    /\ ready' = ready \ {m}
    /\ fresh' = FALSE
    /\ drift' = TRUE
    /\ UNCHANGED <<branchVars, roster, cashVars>>

CreateDay(m) ==
    /\ branch # "closed"
    /\ day[m] = "none"
    /\ day' = [day EXCEPT ![m] = "blank"]
    /\ UNCHANGED <<branchVars, fresh, drift, peopleVars, candidate, confirmed, receipt, cashVars>>

\* updateDay may fill the fields or empty them.
UpdateDay(m) ==
    /\ PersonalMutation(m)
    /\ \E fields \in {"blank", "complete"}: day' = [day EXCEPT ![m] = fields]
    /\ UNCHANGED <<candidate, confirmed, receipt>>

AddItem(m) ==
    /\ PersonalMutation(m)
    /\ candidate' = candidate \cup {m}
    /\ UNCHANGED <<day, confirmed, receipt>>

ConfirmItem(m) ==
    /\ m \in candidate
    /\ PersonalMutation(m)
    /\ candidate' = candidate \ {m}
    /\ confirmed' = confirmed \cup {m}
    /\ UNCHANGED <<day, receipt>>

UpdateCandidate(m) ==
    /\ m \in candidate
    /\ PersonalMutation(m)
    /\ UNCHANGED <<recordVars, receipt>>

ExcludeCandidate(m) ==
    /\ m \in candidate
    /\ PersonalMutation(m)
    /\ candidate' = candidate \ {m}
    /\ UNCHANGED <<day, confirmed, receipt>>

\* addImage of a new receipt; of one being collected nothing but the mutation.
AddDayImage(r) ==
    /\ PersonalMutation(r[1])
    /\ \/ DayLife!Take(r)
       \/ receipt[r] = "pending" /\ UNCHANGED receipt
    /\ UNCHANGED recordVars

RegisterReceipt(r) ==
    /\ PersonalMutation(r[1])
    /\ DayLife!Book(r)
    /\ confirmed' = confirmed \cup {r[1]}
    /\ UNCHANGED <<day, candidate>>

\* Excluded by its owner, or purged.
DropReceipt(r) ==
    /\ UNCHANGED <<branchVars, fresh, drift, peopleVars, recordVars, cashVars>>
    /\ DayLife!Drop(r)

\* addFollowup of an unreplenished amount, which may be 0; it takes no lock and
\* changes no input.
AddShortage(m, a) ==
    /\ day[m] # "none"
    /\ m \notin missing
    /\ missing' = missing \cup {m}
    /\ shortage' = [shortage EXCEPT ![m] = a]
    /\ UNCHANGED <<branchVars, fresh, drift, peopleVars, recordVars, receipt, settled, linked, moved>>

-----------------------------------------------------------------------------
(* Commands on the branch's day: expense-cash.ts.                          *)

\* The default end of a command: a new version without a reconciliation.
Reopened ==
    /\ fresh' = FALSE
    /\ drift' = TRUE

\* Rows a roster of ms would need are created, those of others are removed.
SetRoster(ms) ==
    /\ ms # {}
    /\ \A m \in roster \ ms: m \notin moved \cup candidate \cup confirmed
    /\ roster' = ms
    /\ ready' = ready \cap ms
    /\ day' = [m \in Members |-> IF m \in ms /\ day[m] = "none" THEN "blank" ELSE day[m]]
    /\ UNCHANGED <<candidate, confirmed, receipt, cashVars, difference, issue, corrected>>

CreateBranchDay(ms) ==
    /\ branch = "none"
    /\ branch' = "open"
    /\ SetRoster(ms)
    /\ Reopened

ChangeRoster(ms) ==
    /\ branch = "open"
    /\ SetRoster(ms)
    /\ Reopened
    /\ UNCHANGED branch

PendingOf(m) == {r \in DayReceipts: r[1] = m /\ receipt[r] = "pending"}

MarkReady(m) ==
    /\ branch = "open"
    /\ m \in roster
    /\ m \notin candidate
    /\ PendingOf(m) = {}
    /\ day[m] = "complete"
    /\ ready' = ready \cup {m}
    /\ fresh' = FALSE
    /\ UNCHANGED <<branchVars, drift, roster, recordVars, receipt, cashVars>>

\* entry: an officer or a delegate records for a participant.
EnterDaily(m) ==
    /\ branch = "open"
    /\ m \in roster
    /\ day' = [day EXCEPT ![m] = "complete"]
    /\ ready' = ready \ {m}
    /\ Reopened
    /\ UNCHANGED <<branchVars, roster, candidate, confirmed, receipt, cashVars>>

EnterItem(m) ==
    /\ branch = "open"
    /\ m \in roster
    /\ confirmed' = confirmed \cup {m}
    /\ ready' = ready \ {m}
    /\ Reopened
    /\ UNCHANGED <<branchVars, roster, day, candidate, receipt, cashVars>>

\* correct: the only change to a closed day, and it leaves an issue.
Correct(m) ==
    /\ branch # "none"
    /\ m \in roster
    /\ confirmed' = confirmed \cup {m}
    /\ ready' = ready \ {m}
    /\ corrected' = (corrected \/ branch = "closed")
    /\ Reopened
    /\ UNCHANGED <<branch, difference, issue, roster, day, candidate, receipt, cashVars>>

\* What counts[a] transfers of each amount a come to.
Total(counts) ==
    LET upTo[a \in 0..MaxCash] == IF a = 0 THEN 0 ELSE a * counts[a] + upTo[a - 1]
    IN  upTo[MaxCash]

Replenished(m) == Total(linked[m])

\* Mutant of Settle: a reversal does not open the record again.
SettleForGood(m, sum) ==
    /\ sum <= shortage[m]
    /\ settled' = IF sum = shortage[m] THEN settled \cup {m} ELSE settled

\* The record follows the transfers made for it, under its row lock.
Settle(m, sum) ==
    /\ sum <= shortage[m]
    /\ settled' = IF sum = shortage[m] THEN settled \cup {m} ELSE settled \ {m}

\* transfer, for a record of the same wallet or for none; the reversal of one
\* for none changes no more than it did.
Transfer(m, a) ==
    /\ branch = "open"
    /\ m \in roster
    /\ moved' = moved \cup {m}
    /\ \/ /\ m \in missing
          /\ linked[m][a] < MaxTransfers
          /\ Settle(m, Replenished(m) + a)
          /\ linked' = [linked EXCEPT ![m][a] = @ + 1]
       \/ UNCHANGED <<settled, linked>>
    /\ Reopened
    /\ UNCHANGED <<branchVars, peopleVars, recordVars, receipt, missing, shortage>>

ReverseTransfer(m, a) ==
    /\ branch = "open"
    /\ m \in roster
    /\ linked[m][a] > 0
    /\ Settle(m, Replenished(m) - a)
    /\ linked' = [linked EXCEPT ![m][a] = @ - 1]
    /\ Reopened
    /\ UNCHANGED <<branchVars, peopleVars, recordVars, receipt, missing, shortage, moved>>

Reconcile(differs) ==
    /\ branch = "open"
    /\ difference' = differs
    /\ fresh' = TRUE
    /\ drift' = FALSE
    /\ UNCHANGED <<branch, issue, corrected, peopleVars, recordVars, receipt, cashVars>>

\* close: on a current reconciliation, with everyone on the roster ready.
Close ==
    /\ branch = "open"
    /\ fresh
    /\ roster # {} /\ ready = roster
    /\ branch' = "closed"
    /\ issue' = IF difference THEN "open" ELSE issue
    /\ UNCHANGED <<difference, corrected, drift, peopleVars, recordVars, receipt, cashVars>>
    /\ fresh' = FALSE

\* resolve: only of a cash difference; it keeps the reconciliation current.
ResolveDifference ==
    /\ issue = "open"
    /\ issue' = "resolved"
    /\ UNCHANGED <<branch, difference, corrected, fresh, drift, peopleVars, recordVars, receipt, cashVars>>

-----------------------------------------------------------------------------
MemberStep(m) ==
    \/ CreateDay(m) \/ UpdateDay(m) \/ AddItem(m) \/ ConfirmItem(m)
    \/ UpdateCandidate(m) \/ ExcludeCandidate(m)
    \/ \E a \in 0..MaxCash: AddShortage(m, a)

DayReceiptStep(r) == AddDayImage(r) \/ RegisterReceipt(r) \/ DropReceipt(r)

Command ==
    \/ \E ms \in SUBSET Members: CreateBranchDay(ms) \/ ChangeRoster(ms)
    \/ \E m \in Members: MarkReady(m) \/ EnterDaily(m) \/ EnterItem(m) \/ Correct(m)
    \/ \E m \in Members, a \in Amounts: Transfer(m, a) \/ ReverseTransfer(m, a)
    \/ \E differs \in BOOLEAN: Reconcile(differs)
    \/ Close \/ ResolveDifference

ClosingNext ==
    \/ \E m \in Members: MemberStep(m)
    \/ \E r \in DayReceipts: DayReceiptStep(r)
    \/ Command

ClosingSpec == ClosingInit /\ [][ClosingNext]_closingVars

-----------------------------------------------------------------------------
(* Properties                                                              *)

\* Who is marked ready has nothing left to do: the day is complete, no item
\* waits for confirmation and no receipt is pending, whatever the member did
\* after the mark was set.
ReadyIsComplete ==
    \A m \in ready:
        /\ m \in roster
        /\ day[m] = "complete"
        /\ m \notin candidate
        /\ PendingOf(m) = {}

\* A closed day is the day that was reconciled, by members who were all
\* ready; what differs from it was changed by a correction that left an issue.
ClosedAsReconciled ==
    branch = "closed" /\ ~corrected => ~drift /\ roster # {} /\ ready = roster

\* A record of missing cash is resolved exactly while the transfers made for
\* it, less those reversed, make up its amount, and they never exceed it.  A
\* record of 0, which is accepted, is the exception: it takes no transfer, and
\* stays open.
ShortageAgrees ==
    \A m \in missing:
        /\ Replenished(m) <= shortage[m]
        /\ m \in settled <=> Replenished(m) = shortage[m] /\ shortage[m] # 0
=============================================================================
