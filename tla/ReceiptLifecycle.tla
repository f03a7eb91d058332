-------------------------- MODULE ReceiptLifecycle --------------------------
(***************************************************************************)
(* What a receipt means to the settlement of a branch's day, and all that  *)
(* the closing needs to know of it: it is taken in while the day is open,  *)
(* it is pending until a person books it as an expense or sets it aside,   *)
(* and then it is never pending again.  ExpenseReceipts implements this;   *)
(* ExpenseClosing is built on it.                                          *)
(***************************************************************************)
CONSTANT Receipts           \* receipts a member may take in

VARIABLES
    phase,      \* receipt -> none, pending, booked, dropped
    open        \* the branch's day of these receipts is not closed

lifeVars == <<phase, open>>

Phase == {"none", "pending", "booked", "dropped"}

Init ==
    /\ phase = [r \in Receipts |-> "none"]
    /\ open = TRUE

\* The first image of a receipt is announced.
Take(r) ==
    /\ open
    /\ phase[r] = "none"
    /\ phase' = [phase EXCEPT ![r] = "pending"]
    /\ UNCHANGED open

\* A person confirms the values: the receipt becomes a confirmed expense.
Book(r) ==
    /\ open
    /\ phase[r] = "pending"
    /\ phase' = [phase EXCEPT ![r] = "booked"]
    /\ UNCHANGED open

\* A person sets the receipt aside, or its retention ends.
Drop(r) ==
    /\ phase[r] = "pending"
    /\ phase' = [phase EXCEPT ![r] = "dropped"]
    /\ UNCHANGED open

\* One purge may drop several receipts at once.
DropAll(rs) ==
    /\ \A r \in rs: phase[r] = "pending"
    /\ phase' = [r \in Receipts |-> IF r \in rs THEN "dropped" ELSE phase[r]]
    /\ UNCHANGED open

Close ==
    /\ open
    /\ open' = FALSE
    /\ UNCHANGED phase

Next ==
    \/ \E r \in Receipts: Take(r) \/ Book(r)
    \/ \E rs \in SUBSET Receipts: DropAll(rs)
    \/ Close

Spec == Init /\ [][Next]_lifeVars
=============================================================================
