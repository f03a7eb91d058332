----------------------------- MODULE MCExpense ------------------------------
(* Instances of the expense modules for TLC, checked side by side: a       *)
(* behaviour is one of ExpenseReceipts with no branch day at all, or one of *)
(* ExpenseClosing with no receipt.  What they share is ReceiptLifecycle.    *)
EXTENDS ExpenseReceipts, ExpenseClosing, TLC

\* Receipts are alike, so are jobs and members.
Symmetric == Permutations(Receipts) \cup Permutations(Jobs) \cup Permutations(Members)

VARIABLE part   \* which of the two the behaviour is of

OfReceipts == part = "receipts"
OfDay == part = "day"
Day == UNCHANGED <<closingVars, part>>
Scans == UNCHANGED <<vars, part>>

MCInit == Init /\ ClosingInit /\ part \in {"receipts", "day"}

MCImage(i) ==
    \/ OfReceipts /\ AddImage(i) /\ Day
    \/ OfReceipts /\ RenewImage(i) /\ Day
    \/ OfReceipts /\ Upload(i) /\ Day
    \/ OfReceipts /\ CompleteImage(i) /\ Day
    \/ OfReceipts /\ UrlLapses(i) /\ Day

MCReceipt(r) ==
    \/ OfReceipts /\ Exclude(r) /\ Day
    \/ OfReceipts /\ Register(r) /\ Day
    \/ OfReceipts /\ ChangeHold(r) /\ Day
    \/ OfReceipts /\ Expire(r) /\ Day
    \/ OfReceipts /\ ListObjects(r) /\ Day
    \/ OfReceipts /\ FinishPurge(r) /\ Day
    \/ \E j \in Jobs: OfReceipts /\ Analyze(r, j) /\ Day

MCJob(j) ==
    \/ OfReceipts /\ CancelJob(j) /\ Day
    \/ OfReceipts /\ RetryJob(j) /\ Day
    \/ OfReceipts /\ Claim(j) /\ Day
    \/ OfReceipts /\ Begin(j) /\ Day
    \/ OfReceipts /\ ReuseNormalized(j) /\ Day
    \/ OfReceipts /\ PutNormalized(j) /\ Day
    \/ OfReceipts /\ RecordNormalized(j) /\ Day
    \/ OfReceipts /\ AskAI(j) /\ Day
    \/ OfReceipts /\ CommitReading(j) /\ Day
    \/ OfReceipts /\ Finish(j) /\ Day
    \/ OfReceipts /\ FinishCancelled(j) /\ Day
    \/ \E retryable \in BOOLEAN: OfReceipts /\ HandlerFails(j, retryable) /\ Day
    \/ OfReceipts /\ Crash(j) /\ Day

MCPurge ==
    \/ OfReceipts /\ SelectExpired /\ Day
    \/ OfReceipts /\ PurgeStops /\ Day
    \/ \E o \in Objects: OfReceipts /\ EraseObject(o) /\ Day
    \/ \E o \in Objects: OfReceipts /\ RecordErased(o) /\ Day
    \/ OfReceipts /\ CloseDay /\ Day

MCMember(m) ==
    \/ OfDay /\ CreateDay(m) /\ Scans
    \/ OfDay /\ UpdateDay(m) /\ Scans
    \/ OfDay /\ AddItem(m) /\ Scans
    \/ OfDay /\ ConfirmItem(m) /\ Scans
    \/ OfDay /\ UpdateCandidate(m) /\ Scans
    \/ OfDay /\ ExcludeCandidate(m) /\ Scans
    \/ \E a \in 0..MaxCash: OfDay /\ AddShortage(m, a) /\ Scans

MCDayReceipt(r) ==
    \/ OfDay /\ AddDayImage(r) /\ Scans
    \/ OfDay /\ RegisterReceipt(r) /\ Scans
    \/ OfDay /\ DropReceipt(r) /\ Scans

MCCommand ==
    \/ \E ms \in SUBSET Members: OfDay /\ CreateBranchDay(ms) /\ Scans
    \/ \E ms \in SUBSET Members: OfDay /\ ChangeRoster(ms) /\ Scans
    \/ \E m \in Members: OfDay /\ MarkReady(m) /\ Scans
    \/ \E m \in Members: OfDay /\ EnterDaily(m) /\ Scans
    \/ \E m \in Members: OfDay /\ EnterItem(m) /\ Scans
    \/ \E m \in Members: OfDay /\ Correct(m) /\ Scans
    \/ \E m \in Members, a \in Amounts: OfDay /\ Transfer(m, a) /\ Scans
    \/ \E m \in Members, a \in Amounts: OfDay /\ ReverseTransfer(m, a) /\ Scans
    \/ \E differs \in BOOLEAN: OfDay /\ Reconcile(differs) /\ Scans
    \/ OfDay /\ Close /\ Scans
    \/ OfDay /\ ResolveDifference /\ Scans

MCNext ==
    \/ \E i \in Images: MCImage(i)
    \/ \E r \in Receipts: MCReceipt(r)
    \/ \E j \in Jobs: MCJob(j)
    \/ MCPurge
    \/ \E m \in Members: MCMember(m)
    \/ \E r \in DayReceipts: MCDayReceipt(r)
    \/ MCCommand

MCSpec == MCInit /\ [][MCNext]_<<vars, closingVars, part>>
=============================================================================
