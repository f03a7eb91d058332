--------------------------- MODULE ProviderProofs ---------------------------
(***************************************************************************)
(* Two components whose requests and jobs call somebody outside between    *)
(* their transactions: ProviderWrites (the model, Google's tokens) and     *)
(* Recordings (the bucket, a Drive's files).  What they keep for any       *)
(* number of requests in flight, keys, uploads, imports, and faults.       *)
(***************************************************************************)
EXTENDS ProviderWrites, Recordings, TLAPS

USE ProviderWritesAssumption DEF ProviderWritesAssumption, ClaimKeys, Keys, Tokens,
    claimVars, turnVars, driveVars, forgottenVars

(***************************************************************************)
(* What the handlers' common steps do to a request and to a record.        *)
(***************************************************************************)
LEMMA RequestAt ==
    ASSUME NEW q \in Request,
           NEW next \in {"idle", "prepared", "claimed", "made", "read", "swept", "undo"}
    PROVE LET new == [q EXCEPT !.at = next] IN
          new \in Request /\ new.at = next /\ new.key = q.key /\ new.token = q.token /\ new.old = q.old
  BY DEF Request

LEMMA RequestToken ==
    ASSUME NEW q \in Request, NEW t \in Tokens
    PROVE LET new == [q EXCEPT !.token = t] IN
          new \in Request /\ new.at = q.at /\ new.key = q.key /\ new.token = t /\ new.old = q.old
  BY DEF Request

LEMMA RequestOld ==
    ASSUME NEW q \in Request, NEW t \in Tokens \cup {None}
    PROVE LET new == [q EXCEPT !.old = t] IN
          new \in Request /\ new.at = q.at /\ new.key = q.key /\ new.token = q.token /\ new.old = t
  BY DEF Request

LEMMA EndsIsTyped ==
    ASSUME req \in [Slots -> Request], NEW s \in Slots, Ends(s)
    PROVE req' \in [Slots -> Request] /\ \A q \in Slots: req'[q] = IF q = s THEN Idle ELSE req[q]
<1>1. Idle \in Request
  BY DEF Idle, Request
<1> QED
  BY <1>1 DEF Ends

LEMMA StepIsTyped ==
    ASSUME req \in [Slots -> Request], NEW s \in Slots,
           NEW next \in {"idle", "prepared", "claimed", "made", "read", "swept", "undo"}, Step(s, next)
    PROVE /\ req' \in [Slots -> Request]
          /\ \A q \in Slots: /\ req'[q].key = req[q].key
                             /\ req'[q].token = req[q].token
                             /\ req'[q].old = req[q].old
                             /\ req'[q].at = IF q = s THEN next ELSE req[q].at
<1> DEFINE new == [req[s] EXCEPT !.at = next]
<1>1. /\ new \in Request /\ new.at = next
      /\ new.key = req[s].key /\ new.token = req[s].token /\ new.old = req[s].old
  BY RequestAt
<1>2. req' = [req EXCEPT ![s] = new]
  BY DEF Step
<1> HIDE DEF new
<1> QED
  BY <1>1, <1>2

LEMMA ReleaseIsTyped ==
    ASSUME record \in [Keys -> Record], NEW k \in Keys, Release(k)
    PROVE /\ record' \in [Keys -> Record]
          /\ \A x \in Keys: record'[x].status = record[x].status /\ record'[x].expired = record[x].expired
<1> DEFINE new == [record[k] EXCEPT !.leased = record[k].leased /\ record[k].status # "in_progress"]
<1>1. new \in Record /\ new.status = record[k].status /\ new.expired = record[k].expired
  BY DEF Record
<1>2. record' = [record EXCEPT ![k] = new]
  BY DEF Release
<1> HIDE DEF new
<1> QED
  BY <1>1, <1>2

LEMMA CompleteIsTyped ==
    ASSUME record \in [Keys -> Record], effects \in [Keys -> Nat], NEW k \in Keys, Complete(k)
    PROVE /\ record' \in [Keys -> Record]
          /\ \A x \in Keys: record'[x].status = IF x = k THEN "completed" ELSE record[x].status
          /\ effects' \in [Keys -> Nat]
          /\ \A x \in Keys: effects'[x] = IF x = k THEN effects[k] + 1 ELSE effects[x]
<1> DEFINE new == [[record[k] EXCEPT !.status = "completed"] EXCEPT !.leased = FALSE]
<1>1. new \in Record /\ new.status = "completed"
  BY DEF Record
<1>2. record' = [record EXCEPT ![k] = new]
  BY DEF Complete
<1> HIDE DEF new
<1>3. record' \in [Keys -> Record]
      /\ \A x \in Keys: record'[x].status = IF x = k THEN "completed" ELSE record[x].status
  BY <1>1, <1>2
<1> QED
  BY <1>3 DEF Complete

(***************************************************************************)
(* Type correctness.                                                       *)
(***************************************************************************)
LEMMA TypeInit == Init => TypeOK
<1> USE DEF Init, TypeOK, NoRecord, Idle, Record, Request
<1> SUFFICES ASSUME Init PROVE TypeOK
  OBVIOUS
<1>1. record \in [Keys -> Record] /\ req \in [Slots -> Request]
  OBVIOUS
<1>2. effects \in [Keys -> Nat] /\ turns \in Seq(Nat)
  OBVIOUS
<1> QED
  BY <1>1, <1>2

LEMMA TypeClaim ==
    ASSUME TypeOK, NEW s \in Slots, ClaimStep(s) PROVE TypeOK'
<1> USE DEF TypeOK
<1>1. ASSUME NEW k \in TurnKeys, PrepareTurn(s, k) PROVE TypeOK'
  <2> DEFINE n == IF k \in Opening THEN 0 ELSE Len(turns)
  <2>1. n \in Nat
    OBVIOUS
  <2> HIDE DEF n
  <2>2. [Idle EXCEPT !.at = "prepared", !.key = k, !.seen = n] \in Request
    BY <2>1 DEF Idle, Request
  <2>3. req' \in [Slots -> Request]
    BY <1>1, <2>2 DEF PrepareTurn, n
  <2> QED
    BY <1>1, <2>3 DEF PrepareTurn, Send
<1>2. ASSUME NEW k \in Keys \ TurnKeys, Begin(s, k) PROVE TypeOK'
  <2>1. [Idle EXCEPT !.at = "prepared", !.key = k] \in Request
    BY DEF Idle, Request
  <2> QED
    BY <1>2, <2>1 DEF Begin, Send
<1>3. CASE Claim(s)
  <2>1. [NoRecord EXCEPT !.status = "in_progress", !.leased = TRUE] \in Record
    BY DEF NoRecord, Record
  <2>2. req' \in [Slots -> Request]
    BY <1>3, StepIsTyped DEF Claim
  <2> QED
    BY <1>3, <2>1, <2>2 DEF Claim, At
<1>4. CASE ClaimAnswered(s)
  BY <1>4, EndsIsTyped DEF ClaimAnswered
<1>5. CASE Fail(s)
  <2>1. req[s].key \in Keys
    BY <1>5 DEF Fail, At
  <2> QED
    BY <1>5, <2>1, EndsIsTyped, ReleaseIsTyped DEF Fail
<1>6. CASE Vanish(s)
  <2>1. req[s].token \in Tokens \cup {None}
    BY DEF Request
  <2> QED
    BY <1>6, <2>1, EndsIsTyped DEF Vanish
<1> QED
  BY <1>1, <1>2, <1>3, <1>4, <1>5, <1>6 DEF ClaimStep

LEMMA TypeEffect ==
    ASSUME TypeOK, NEW s \in Slots, EffectStep(s) PROVE TypeOK'
<1> USE DEF TypeOK
<1>1. CASE Perform(s)
  BY <1>1, StepIsTyped DEF Perform
<1>2. CASE CommitWrite(s)
  <2>1. req[s].key \in Keys
    BY <1>2 DEF CommitWrite, At
  <2> QED
    BY <1>2, <2>1, EndsIsTyped, CompleteIsTyped DEF CommitWrite
<1>3. CASE WriteEnds(s)
  BY <1>3, EndsIsTyped DEF WriteEnds
<1>4. CASE AskModel(s)
  BY <1>4, StepIsTyped DEF AskModel
<1>5. CASE CommitTurn(s)
  <2>1. req[s].key \in Keys /\ req[s].seen \in Nat
    BY <1>5 DEF CommitTurn, At, Request
  <2>2. turns' \in Seq(Nat)
    BY <1>5, <2>1 DEF CommitTurn
  <2> QED
    BY <1>5, <2>1, <2>2, EndsIsTyped, CompleteIsTyped DEF CommitTurn
<1> QED
  BY <1>1, <1>2, <1>3, <1>4, <1>5 DEF EffectStep

(***************************************************************************)
(* Tokens in hand.  A request has a token from its exchange until it ends; *)
(* what it has read of the row is a token that was given before.           *)
(***************************************************************************)
InHand == {"made", "read", "swept", "undo"}

Hands ==
    \A s \in Slots:
        /\ req[s].token # None =>
               /\ req[s].token = req[s].key /\ req[s].token \in minted
               /\ req[s].key \in ConnectKeys /\ req[s].at \in InHand
        /\ req[s].key \in ConnectKeys /\ req[s].at \in InHand => req[s].token = req[s].key
        /\ req[s].at = "undo" => req[s].key \in ConnectKeys
        /\ req[s].at # "idle" => req[s].key \in Keys
        /\ req[s].old \in minted \cup {None}

LEMMA HandsClaim ==
    ASSUME TypeOK, Hands, NEW s \in Slots, ClaimStep(s) PROVE Hands'
<1> USE DEF Hands, InHand
<1>0. req \in [Slots -> Request]
  BY DEF TypeOK
<1>1. ASSUME NEW k \in TurnKeys, PrepareTurn(s, k) PROVE Hands'
  BY <1>0, <1>1 DEF PrepareTurn, Idle
<1>2. ASSUME NEW k \in Keys \ TurnKeys, Begin(s, k) PROVE Hands'
  BY <1>0, <1>2 DEF Begin, Idle
<1>3. CASE Claim(s)
  BY <1>0, <1>3, StepIsTyped DEF Claim, At
<1>4. CASE ClaimAnswered(s) \/ Fail(s) \/ Vanish(s)
  BY <1>0, <1>4, EndsIsTyped DEF ClaimAnswered, Fail, Vanish, Idle
<1> QED
  BY <1>1, <1>2, <1>3, <1>4 DEF ClaimStep

LEMMA HandsEffect ==
    ASSUME TypeOK, Hands, NEW s \in Slots, EffectStep(s) PROVE Hands'
<1> USE DEF Hands, InHand
<1>0. req \in [Slots -> Request]
  BY DEF TypeOK
<1>1. CASE Perform(s) \/ AskModel(s)
  BY <1>0, <1>1, StepIsTyped DEF Perform, AskModel, At
<1>2. CASE CommitWrite(s) \/ WriteEnds(s) \/ CommitTurn(s)
  BY <1>0, <1>2, EndsIsTyped DEF CommitWrite, WriteEnds, CommitTurn, Idle
<1> QED
  BY <1>1, <1>2 DEF EffectStep

Rows == row \in minted \cup {None}

LEMMA ExchangeIsTyped ==
    ASSUME TypeOK, NEW s \in Slots, Exchange(s)
    PROVE /\ req' \in [Slots -> Request]
          /\ \A q \in Slots: /\ req'[q].key = req[q].key
                             /\ req'[q].old = req[q].old
                             /\ req'[q].at = IF q = s THEN "made" ELSE req[q].at
                             /\ req'[q].token = IF q = s THEN req[s].key ELSE req[q].token
<1> DEFINE made == [req[s] EXCEPT !.at = "made"]
           new == [made EXCEPT !.token = req[s].key]
<1>0. req \in [Slots -> Request]
  BY DEF TypeOK
<1>1. /\ made \in Request /\ made.at = "made"
      /\ made.key = req[s].key /\ made.old = req[s].old
  BY <1>0, RequestAt
<1>2. req' = [req EXCEPT ![s] = new]
  BY DEF Exchange
<1>3. req[s].key \in Tokens
  BY DEF Exchange, At
<1> HIDE DEF made
<1>4. /\ new \in Request /\ new.at = "made" /\ new.token = req[s].key
      /\ new.key = req[s].key /\ new.old = req[s].old
  BY <1>1, <1>3, RequestToken
<1> HIDE DEF new
<1> QED
  BY <1>0, <1>2, <1>4

LEMMA ReadIsTyped ==
    ASSUME TypeOK, NEW s \in Slots, ReadRow(s)
    PROVE /\ req' \in [Slots -> Request]
          /\ \A q \in Slots: /\ req'[q].key = req[q].key
                             /\ req'[q].token = req[q].token
                             /\ req'[q].at = IF q = s THEN "read" ELSE req[q].at
                             /\ req'[q].old = IF q = s THEN row ELSE req[q].old
<1> DEFINE read == [req[s] EXCEPT !.at = "read"]
           new == [read EXCEPT !.old = row]
<1>0. req \in [Slots -> Request] /\ row \in Tokens \cup {None}
  BY DEF TypeOK
<1>1. /\ read \in Request /\ read.at = "read"
      /\ read.key = req[s].key /\ read.token = req[s].token
  BY <1>0, RequestAt
<1>2. req' = [req EXCEPT ![s] = new]
  BY DEF ReadRow
<1> HIDE DEF read
<1>3. /\ new \in Request /\ new.at = "read" /\ new.old = row
      /\ new.key = req[s].key /\ new.token = req[s].token
  BY <1>0, <1>1, RequestOld
<1> HIDE DEF new
<1> QED
  BY <1>0, <1>2, <1>3

LEMMA HandsDrive ==
    ASSUME TypeOK, Hands, Rows, NEW s \in Slots, DriveStep(s) PROVE Hands'
<1> USE DEF Hands, Rows, InHand
<1>0. req \in [Slots -> Request]
  BY DEF TypeOK
<1>1. CASE Exchange(s)
  <2>1. minted' = minted \cup {req[s].key} /\ req[s].key \in ConnectKeys
    BY <1>1 DEF Exchange, At
  <2>2. \A q \in Slots: /\ req'[q].key = req[q].key
                        /\ req'[q].old = req[q].old
                        /\ req'[q].at = IF q = s THEN "made" ELSE req[q].at
                        /\ req'[q].token = IF q = s THEN req[s].key ELSE req[q].token
    BY <1>1, ExchangeIsTyped
  <2> QED
    BY <2>1, <2>2
<1>2. CASE ReadRow(s)
  <2>1. /\ minted' = minted
        /\ req[s].key \in ConnectKeys => req[s].at = "made"
        /\ req[s].key \in Keys
        /\ req[s].at # "undo"
    BY <1>2 DEF ReadRow, At
  <2>2. \A q \in Slots: /\ req'[q].key = req[q].key
                        /\ req'[q].token = req[q].token
                        /\ req'[q].at = IF q = s THEN "read" ELSE req[q].at
                        /\ req'[q].old = IF q = s THEN row ELSE req[q].old
    BY <1>2, ReadIsTyped
  <2> QED
    BY <2>1, <2>2
<1>3. CASE Sweep(s)
  BY <1>3, <1>0, StepIsTyped DEF Sweep
<1>4. CASE SweepFails(s)
  BY <1>4, <1>0, StepIsTyped, EndsIsTyped DEF SweepFails, Idle
<1>5. CASE CommitConnectInDoubt(s) \/ ConnectFails(s)
  BY <1>5, <1>0, StepIsTyped DEF CommitConnectInDoubt, ConnectFails, At
<1>6. CASE ExchangeGivenUp(s) \/ CommitConnect(s) \/ Undo(s) \/ UndoFails(s) \/ CommitRevoke(s)
  BY <1>0, <1>6, EndsIsTyped DEF ExchangeGivenUp, CommitConnect, Undo, UndoFails, CommitRevoke, Idle
<1> QED
  BY <1>1, <1>2, <1>3, <1>4, <1>5, <1>6 DEF DriveStep, ExchangeRefused, ExchangeUnheard

LEMMA ReplaceIsTyped ==
    ASSUME TypeOK, Hands, NEW s \in Slots, At(s, "swept", ConnectKeys), Replace(s)
    PROVE /\ record' \in [Keys -> Record]
          /\ effects' \in [Keys -> Nat]
          /\ row' \in Tokens \cup {None}
          /\ rows' \subseteq Tokens
          /\ {refused', unseen', lost'} \subseteq SUBSET Tokens
          /\ row' \in minted
<1>1. req[s].key \in Keys /\ req[s].token \in Tokens
  BY DEF TypeOK, At, Hands, InHand
<1>2. record \in [Keys -> Record] /\ effects \in [Keys -> Nat]
      /\ {refused, unseen, lost} \subseteq SUBSET Tokens
      /\ rows \subseteq Tokens /\ row \in Tokens \cup {None}
  BY DEF TypeOK
<1>3. row' = req[s].token /\ rows' = rows \cup {req[s].token} /\ Complete(req[s].key)
      /\ unseen' = unseen \cup ({row} \ {None, req[s].old}) /\ UNCHANGED <<refused, lost>>
  BY DEF Replace
<1>4. req[s].token \in minted
  BY <1>1 DEF Hands
<1> QED
  BY <1>1, <1>2, <1>3, <1>4, CompleteIsTyped

LEMMA TypeDrive ==
    ASSUME TypeOK, Hands, Rows, NEW s \in Slots, DriveStep(s) PROVE TypeOK' /\ Rows'
<1>0. /\ record \in [Keys -> Record] /\ req \in [Slots -> Request] /\ req[s] \in Request
      /\ {grants, minted, rows, refused, unseen, lost} \subseteq SUBSET Tokens /\ row \in Tokens \cup {None}
  BY DEF TypeOK
<1>1. CASE Exchange(s)
  <2>1. req[s].key \in Tokens /\ req' \in [Slots -> Request]
    BY <1>1, ExchangeIsTyped DEF Exchange, At
  <2> QED
    BY <1>0, <1>1, <2>1 DEF Exchange, TypeOK, Rows
<1>2. CASE ExchangeRefused(s) \/ ExchangeUnheard(s)
  <2>1. req[s].key \in ConnectKeys /\ Release(req[s].key) /\ ExchangeGivenUp(s)
    BY <1>2 DEF ExchangeRefused, ExchangeUnheard, ExchangeGivenUp, At
  <2>2. record' \in [Keys -> Record] /\ req' \in [Slots -> Request]
    BY <1>0, <2>1, EndsIsTyped, ReleaseIsTyped DEF ExchangeGivenUp
  <2> QED
    BY <1>0, <1>2, <2>1, <2>2 DEF ExchangeRefused, ExchangeUnheard, ExchangeGivenUp, TypeOK, Rows
<1>3. CASE ReadRow(s)
  BY <1>3, ReadIsTyped DEF ReadRow, TypeOK, Rows
<1>4. CASE Sweep(s)
  <2>1. req' \in [Slots -> Request]
    BY <1>0, <1>4, StepIsTyped DEF Sweep
  <2> QED
    BY <1>0, <1>4, <2>1 DEF Sweep, AfterSweep, TypeOK, Rows
<1>5. CASE SweepFails(s)
  <2>1. req[s].key \in Keys
    BY <1>5 DEF SweepFails, Hands
  <2>2. record' \in [Keys -> Record] /\ req' \in [Slots -> Request]
    BY <1>0, <1>5, <2>1, StepIsTyped, EndsIsTyped, ReleaseIsTyped DEF SweepFails
  <2> QED
    BY <1>5, <2>2 DEF SweepFails, TypeOK, Rows
<1>6. CASE CommitConnect(s)
  <2>1. req' \in [Slots -> Request]
    BY <1>0, <1>6, EndsIsTyped DEF CommitConnect
  <2>2. At(s, "swept", ConnectKeys) /\ Replace(s) /\ UNCHANGED <<sent, expiries, turnVars, grants, minted>>
    BY <1>6 DEF CommitConnect
  <2> QED
    BY <2>1, <2>2, ReplaceIsTyped DEF TypeOK, Rows
<1>7. CASE CommitConnectInDoubt(s)
  <2>1. req' \in [Slots -> Request]
    BY <1>0, <1>7, StepIsTyped DEF CommitConnectInDoubt
  <2>2. At(s, "swept", ConnectKeys) /\ Replace(s) /\ UNCHANGED <<sent, expiries, turnVars, grants, minted>>
    BY <1>7 DEF CommitConnectInDoubt
  <2> QED
    BY <2>1, <2>2, ReplaceIsTyped DEF TypeOK, Rows
<1>8. CASE ConnectFails(s) \/ CommitRevoke(s)
  <2>1. req[s].key \in Keys /\ Release(req[s].key)
    BY <1>8 DEF ConnectFails, CommitRevoke, At
  <2>2. record' \in [Keys -> Record] /\ req' \in [Slots -> Request]
    BY <1>0, <1>8, <2>1, StepIsTyped, EndsIsTyped, ReleaseIsTyped DEF ConnectFails, CommitRevoke
  <2> QED
    BY <1>8, <2>2 DEF ConnectFails, CommitRevoke, TypeOK, Rows
<1>9. CASE Undo(s) \/ UndoFails(s)
  <2>1. req' \in [Slots -> Request] /\ req[s].token \in Tokens \cup {None}
    BY <1>0, <1>9, EndsIsTyped DEF Undo, UndoFails, Request
  <2>2. req[s].token \in Tokens
    BY <1>9, <2>1 DEF Undo, UndoFails, Hands, InHand
  <2> QED
    BY <1>0, <1>9, <2>1, <2>2 DEF Undo, AfterUndo, UndoFails, TypeOK, Rows
<1> QED
  BY <1>1, <1>2, <1>3, <1>4, <1>5, <1>6, <1>7, <1>8, <1>9 DEF DriveStep

LEMMA TypeRecord ==
    ASSUME TypeOK, NEW k \in Keys, RecordStep(k) PROVE TypeOK'
<1>0. record \in [Keys -> Record] /\ effects \in [Keys -> Nat]
  BY DEF TypeOK
<1>1. CASE LeaseLapses(k)
  BY <1>0, <1>1, ReleaseIsTyped DEF LeaseLapses, TypeOK
<1>2. CASE Expire(k)
  <2> DEFINE old == [record[k] EXCEPT !.expired = TRUE]
             new == [old EXCEPT !.leased = FALSE]
  <2>1. old \in Record
    BY <1>0 DEF Record
  <2>2. record' = [record EXCEPT ![k] = new]
    BY <1>2 DEF Expire
  <2> HIDE DEF old
  <2>3. new \in Record
    BY <2>1 DEF Record
  <2> HIDE DEF new
  <2>4. record' \in [Keys -> Record]
    BY <1>0, <2>2, <2>3
  <2>5. expiries' \in 0..MaxExpiries
    BY <1>2 DEF Expire, TypeOK
  <2> QED
    BY <1>2, <2>4, <2>5 DEF Expire, TypeOK
<1>3. CASE Purge(k)
  <2>1. NoRecord \in Record
    BY DEF NoRecord, Record
  <2> QED
    BY <1>0, <1>3, <2>1 DEF Purge, TypeOK
<1> QED
  BY <1>1, <1>2, <1>3 DEF RecordStep

LEMMA TypeStep ==
    ASSUME TypeOK, Hands, Rows, [Next]_vars PROVE TypeOK' /\ Hands' /\ Rows'
<1>1. ASSUME NEW s \in Slots, ClaimStep(s) \/ EffectStep(s) PROVE TypeOK' /\ Hands' /\ Rows'
  <2>1. UNCHANGED <<minted, row>>
    BY <1>1 DEF ClaimStep, PrepareTurn, Begin, Claim, ClaimAnswered, Fail, Vanish,
       EffectStep, Perform, CommitWrite, WriteEnds, AskModel, CommitTurn
  <2> QED
    BY <1>1, <2>1, TypeClaim, TypeEffect, HandsClaim, HandsEffect DEF Rows
<1>2. ASSUME NEW s \in Slots, DriveStep(s) PROVE TypeOK' /\ Hands' /\ Rows'
  BY <1>2, TypeDrive, HandsDrive
<1>3. ASSUME NEW k \in Keys, RecordStep(k) PROVE TypeOK' /\ Hands' /\ Rows'
  <2>1. UNCHANGED <<req, minted, row>>
    BY <1>3 DEF RecordStep, LeaseLapses, Expire, Purge
  <2> QED
    BY <1>3, <2>1, TypeRecord DEF Hands, Rows
<1>4. CASE CompleteSession
  BY <1>4 DEF CompleteSession, TypeOK, Hands, Rows
<1>5. CASE UNCHANGED vars
  BY <1>5 DEF vars, TypeOK, Hands, Rows
<1> QED
  BY <1>1, <1>2, <1>3, <1>4, <1>5 DEF Next

LEMMA TypeInvariant == Spec => [](TypeOK /\ Hands /\ Rows)
<1>1. Init => Hands /\ Rows
  BY DEF Init, Hands, Idle, Rows
<1>2. TypeOK /\ Hands /\ Rows /\ [Next]_vars => TypeOK' /\ Hands' /\ Rows'
  BY TypeStep
<1> QED
  BY TypeInit, <1>1, <1>2, PTL DEF Spec

\* Everything the module keeps in its variables is of its type, in every
\* reachable state; above all, the row of a connection has a token.
THEOREM TypeCorrect == Spec => []TypeOK
<1> QED
  BY TypeInvariant, PTL

(***************************************************************************)
(* Effects.                                                                *)
(***************************************************************************)
LEMMA CompleteOnce ==
    ASSUME TypeOK, EffectIsRecorded, NEW k \in Keys, record[k].status # "completed", Complete(k)
    PROVE EffectIsRecorded'
<1>1. /\ \A x \in Keys: record'[x].status = IF x = k THEN "completed" ELSE record[x].status
      /\ \A x \in Keys: effects'[x] = IF x = k THEN effects[k] + 1 ELSE effects[x]
  BY CompleteIsTyped DEF TypeOK
<1>2. effects[k] = 0
  BY DEF EffectIsRecorded
<1> QED
  BY <1>1, <1>2 DEF EffectIsRecorded

LEMMA ReleaseKeepsEffects ==
    ASSUME TypeOK, EffectIsRecorded, NEW k \in Keys, Release(k), UNCHANGED effects
    PROVE EffectIsRecorded'
  BY ReleaseIsTyped DEF TypeOK, EffectIsRecorded

LEMMA EffectStepRecorded ==
    ASSUME TypeOK, Hands, EffectIsRecorded, NEW s \in Slots,
           ClaimStep(s) \/ EffectStep(s) \/ DriveStep(s)
    PROVE EffectIsRecorded'
<1>1. CASE CommitWrite(s) \/ CommitTurn(s) \/ CommitConnect(s) \/ CommitConnectInDoubt(s)
  <2>1. /\ req[s].key \in Keys
        /\ record[req[s].key].status # "completed"
        /\ Complete(req[s].key)
    BY <1>1 DEF CommitWrite, CommitTurn, CommitConnect, CommitConnectInDoubt, At, Held, Replace
  <2> QED
    BY <2>1, CompleteOnce
<1>2. CASE Fail(s) \/ ExchangeGivenUp(s) \/ SweepFails(s) \/ ConnectFails(s) \/ CommitRevoke(s)
  <2>1. req[s].key \in Keys /\ Release(req[s].key) /\ UNCHANGED effects
    BY <1>2 DEF Fail, ExchangeGivenUp, SweepFails, ConnectFails, CommitRevoke, At, Hands
  <2> QED
    BY <2>1, ReleaseKeepsEffects
<1>3. CASE Claim(s)
  <2> DEFINE k == req[s].key
             new == [NoRecord EXCEPT !.status = "in_progress", !.leased = TRUE]
  <2>1. k \in Keys /\ record[k].status # "completed"
    BY <1>3 DEF Claim, At, Claimable
  <2>2. new.status = "in_progress"
    BY DEF NoRecord
  <2>3. record' = [record EXCEPT ![k] = new] /\ UNCHANGED effects
    BY <1>3 DEF Claim
  <2> HIDE DEF k, new
  <2> QED
    BY <2>1, <2>2, <2>3 DEF TypeOK, EffectIsRecorded
<1>4. CASE UNCHANGED <<record, effects>>
  BY <1>4 DEF EffectIsRecorded
<1> QED
  BY <1>1, <1>2, <1>3, <1>4 DEF ClaimStep, PrepareTurn, Begin, ClaimAnswered, Vanish,
     EffectStep, Perform, WriteEnds, AskModel,
     DriveStep, Exchange, ExchangeRefused, ExchangeUnheard, ReadRow, Sweep, Undo, UndoFails

\* A key takes effect once as long as its record is kept, and then the record
\* says so, however many requests with that key overlap.
THEOREM EffectStaysRecorded == Spec => []EffectIsRecorded
<1>1. Init => EffectIsRecorded
  BY DEF Init, NoRecord, EffectIsRecorded
<1>2. TypeOK /\ Hands /\ EffectIsRecorded /\ [Next]_vars => EffectIsRecorded'
  <2> SUFFICES ASSUME TypeOK, Hands, EffectIsRecorded, [Next]_vars PROVE EffectIsRecorded'
    OBVIOUS
  <2>1. ASSUME NEW k \in Keys, LeaseLapses(k) PROVE EffectIsRecorded'
    BY <2>1, ReleaseKeepsEffects DEF LeaseLapses
  <2>2. ASSUME NEW k \in Keys, Expire(k) PROVE EffectIsRecorded'
    BY <2>2 DEF Expire, TypeOK, Record, EffectIsRecorded
  <2>3. ASSUME NEW k \in Keys, Purge(k) PROVE EffectIsRecorded'
    BY <2>3 DEF Purge, NoRecord, TypeOK, EffectIsRecorded
  <2>4. CASE CompleteSession \/ UNCHANGED vars
    BY <2>4 DEF CompleteSession, vars, EffectIsRecorded
  <2> QED
    BY <2>1, <2>2, <2>3, <2>4, EffectStepRecorded DEF Next, RecordStep
<1> QED
  BY <1>1, <1>2, TypeInvariant, PTL DEF Spec

(***************************************************************************)
(* The conversation.                                                       *)
(***************************************************************************)

\* A conversation that was ended gets no turn any more, whatever the model was
\* asked before.
THEOREM EndedStands == Spec => EndedConversationStands
<1>1. ASSUME Next, session = "completed" PROVE UNCHANGED <<session, turns>>
  <2>1. ASSUME NEW s \in Slots, CommitTurn(s) PROVE UNCHANGED <<session, turns>>
    BY <1>1, <2>1 DEF CommitTurn, SessionOpen
  <2> QED
    BY <1>1, <2>1 DEF Next, ClaimStep, PrepareTurn, Begin, Claim, ClaimAnswered, Fail, Vanish,
       EffectStep, Perform, CommitWrite, WriteEnds, AskModel,
       DriveStep, Exchange, ExchangeRefused, ExchangeUnheard, ExchangeGivenUp, ReadRow, Sweep, SweepFails, CommitConnect,
       CommitConnectInDoubt, ConnectFails, Undo, UndoFails, CommitRevoke,
       RecordStep, LeaseLapses, Expire, Purge, CompleteSession
<1>2. [Next]_vars => [session = "completed" => UNCHANGED <<session, turns>>]_vars
  BY <1>1
<1> QED
  BY <1>2, PTL DEF Spec, EndedConversationStands

(***************************************************************************)
(* Grants.  The token a connection replaces is dead before it is replaced. *)
(***************************************************************************)
Grants ==
    /\ grants \subseteq minted
    /\ \A s \in Slots: req[s].at = "swept" => req[s].old \notin grants
    /\ NoGrantLeftBehind

Forgotten == refused \cup unseen \cup lost

\* A request that ends without a token, or whose token is one of those.
LEMMA GrantsEnd ==
    ASSUME TypeOK, Hands, Grants, NEW s \in Slots, Ends(s), UNCHANGED <<grants, minted, row>>,
           Forgotten \subseteq Forgotten', req[s].token \in {None, row} \cup Forgotten'
    PROVE Grants'
<1>1. \A q \in Slots: req'[q] = IF q = s THEN Idle ELSE req[q]
  BY EndsIsTyped DEF TypeOK
<1>2. Idle.at # "swept"
  BY DEF Idle
<1>3. None \notin grants
  BY DEF TypeOK
<1> QED
  BY <1>1, <1>2, <1>3 DEF Grants, NoGrantLeftBehind, Forgotten

\* A request that goes on with its token.
LEMMA GrantsStep ==
    ASSUME TypeOK, Hands, Grants, NEW s \in Slots, NEW next \in {"prepared", "claimed", "made", "undo"},
           Step(s, next), UNCHANGED <<grants, minted, row>>, Forgotten \subseteq Forgotten'
    PROVE Grants'
<1>1. \A q \in Slots: /\ req'[q].token = req[q].token /\ req'[q].old = req[q].old
                      /\ req'[q].at = IF q = s THEN next ELSE req[q].at
  BY StepIsTyped DEF TypeOK
<1> QED
  BY <1>1 DEF Grants, NoGrantLeftBehind, Forgotten

LEMMA GrantsClaim ==
    ASSUME TypeOK, Hands, Grants, NEW s \in Slots, ClaimStep(s) \/ EffectStep(s) PROVE Grants'
<1>1. ASSUME NEW k \in Keys, PrepareTurn(s, k) \/ Begin(s, k) PROVE Grants'
  <2>1. /\ req[s].token = None /\ UNCHANGED driveVars
        /\ \A q \in Slots: q # s => req'[q] = req[q]
        /\ req'[s].at = "prepared"
    <3>1. CASE PrepareTurn(s, k)
      <4> DEFINE new == [Idle EXCEPT !.at = "prepared", !.key = k,
                             !.seen = IF k \in Opening THEN 0 ELSE Len(turns)]
      <4>1. new.at = "prepared" /\ Idle.token = None
        BY DEF Idle
      <4>2. req' = [req EXCEPT ![s] = new] /\ req[s] = Idle /\ UNCHANGED driveVars
        BY <3>1 DEF PrepareTurn
      <4> HIDE DEF new
      <4> QED
        BY <4>1, <4>2 DEF TypeOK
    <3>2. CASE Begin(s, k)
      <4> DEFINE new == [Idle EXCEPT !.at = "prepared", !.key = k]
      <4>1. new.at = "prepared" /\ Idle.token = None
        BY DEF Idle
      <4>2. req' = [req EXCEPT ![s] = new] /\ req[s] = Idle /\ UNCHANGED driveVars
        BY <3>2 DEF Begin
      <4> HIDE DEF new
      <4> QED
        BY <4>1, <4>2 DEF TypeOK
    <3> QED
      BY <1>1, <3>1, <3>2
  <2>2. None \notin grants
    BY DEF TypeOK
  <2> QED
    BY <2>1, <2>2 DEF Grants, NoGrantLeftBehind, Forgotten
<1>2. CASE Claim(s) \/ Perform(s) \/ AskModel(s)
  BY <1>2, GrantsStep DEF Claim, Perform, AskModel, Forgotten
<1>3. CASE Vanish(s)
  BY <1>3, GrantsEnd DEF Vanish, Forgotten
<1>4. CASE ClaimAnswered(s) \/ Fail(s) \/ CommitWrite(s) \/ WriteEnds(s) \/ CommitTurn(s)
  <2>1. req[s].token = None
    BY <1>4 DEF ClaimAnswered, Fail, CommitWrite, WriteEnds, CommitTurn, At, Hands, InHand
  <2> QED
    BY <1>4, <2>1, GrantsEnd DEF ClaimAnswered, Fail, CommitWrite, WriteEnds, CommitTurn, Forgotten
<1> QED
  BY <1>1, <1>2, <1>3, <1>4 DEF ClaimStep, EffectStep

LEMMA GrantsReplace ==
    ASSUME TypeOK, Hands, Rows, Grants, NEW s \in Slots, At(s, "swept", ConnectKeys), Replace(s),
           UNCHANGED <<grants, minted>>, Ends(s) \/ Step(s, "undo")
    PROVE Grants'
<1>1. /\ row' = req[s].token
      /\ Forgotten' = Forgotten \cup ({row} \ {None, req[s].old})
      /\ req[s].old \notin grants /\ None \notin grants
  BY DEF Replace, At, Grants, TypeOK, Forgotten
<1>2. \A q \in Slots: /\ q # s => req'[q].token = req[q].token /\ req'[q].old = req[q].old
                                  /\ req'[q].at = req[q].at
                      /\ q = s => req'[q].at # "swept"
  <2>1. Idle.at # "swept"
    BY DEF Idle
  <2> QED
    BY <2>1, EndsIsTyped, StepIsTyped DEF TypeOK
<1>3. ASSUME NEW t \in grants
      PROVE t = row' \/ t \in Forgotten' \/ \E q \in Slots: req'[q].token = t
  <2>1. CASE t = row \/ t \in Forgotten
    BY <1>1, <1>3, <2>1
  <2>2. ASSUME NEW q \in Slots, req[q].token = t
        PROVE t = row' \/ \E x \in Slots: req'[x].token = t
    BY <1>1, <1>2, <2>2
  <2> QED
    BY <1>3, <2>1, <2>2 DEF Grants, NoGrantLeftBehind, Forgotten
<1> QED
  BY <1>2, <1>3 DEF Grants, NoGrantLeftBehind, Forgotten

LEMMA GrantsDrive ==
    ASSUME TypeOK, Hands, Rows, Grants, NEW s \in Slots, DriveStep(s) PROVE Grants'
<1>0. req \in [Slots -> Request] /\ grants \subseteq Tokens /\ None \notin grants
  BY DEF TypeOK
<1>1. CASE Exchange(s)
  <2>1. \A q \in Slots: /\ req'[q].old = req[q].old
                        /\ req'[q].at = IF q = s THEN "made" ELSE req[q].at
                        /\ req'[q].token = IF q = s THEN req[s].key ELSE req[q].token
    BY <1>1, ExchangeIsTyped
  <2>2. /\ req[s].key \notin minted /\ req[s].key \in ConnectKeys /\ req[s].token = None
        /\ minted' = minted \cup {req[s].key} /\ grants' = grants \cup {req[s].key}
        /\ UNCHANGED <<row, forgottenVars>>
    BY <1>1 DEF Exchange, At, Hands, InHand
  <2>3. \A q \in Slots: req[q].old \in minted \cup {None}
    BY DEF Hands
  <2>4. NoGrantLeftBehind'
    BY <1>0, <2>1, <2>2 DEF Grants, NoGrantLeftBehind, Forgotten
  <2> QED
    BY <2>1, <2>2, <2>3, <2>4 DEF Grants
<1>2. CASE ExchangeRefused(s) \/ ExchangeUnheard(s)
  <2>1. \A q \in Slots: req'[q] = IF q = s THEN Idle ELSE req[q]
    BY <1>0, <1>2, EndsIsTyped DEF ExchangeRefused, ExchangeUnheard, ExchangeGivenUp
  <2>2. /\ req[s].key \notin minted /\ req[s].key \in ConnectKeys /\ req[s].token = None
        /\ minted' = minted \cup {req[s].key} /\ grants' = grants \cup {req[s].key}
        /\ Forgotten' = Forgotten \cup {req[s].key} /\ UNCHANGED row
    BY <1>2 DEF ExchangeRefused, ExchangeUnheard, ExchangeGivenUp, At, Hands, InHand, Forgotten
  <2>3. \A q \in Slots: req[q].old \in minted \cup {None}
    BY DEF Hands
  <2>4. Idle.at # "swept"
    BY DEF Idle
  <2>5. NoGrantLeftBehind'
    BY <1>0, <2>1, <2>2 DEF Grants, NoGrantLeftBehind, Forgotten
  <2> QED
    BY <2>1, <2>2, <2>3, <2>4, <2>5 DEF Grants
<1>3. CASE ReadRow(s)
  <2>1. \A q \in Slots: /\ req'[q].token = req[q].token
                        /\ req'[q].at = IF q = s THEN "read" ELSE req[q].at
                        /\ q # s => req'[q].old = req[q].old
    BY <1>3, ReadIsTyped
  <2>2. UNCHANGED <<grants, minted, row, forgottenVars>>
    BY <1>3 DEF ReadRow
  <2> QED
    BY <2>1, <2>2 DEF Grants, NoGrantLeftBehind, Forgotten
<1>4. CASE Sweep(s)
  <2>1. \A q \in Slots: /\ req'[q].token = req[q].token /\ req'[q].old = req[q].old
                        /\ req'[q].at = IF q = s THEN "swept" ELSE req[q].at
    BY <1>0, <1>4, StepIsTyped DEF Sweep
  <2> QED
    BY <1>4, <2>1 DEF Sweep, AfterSweep, Grants, NoGrantLeftBehind
<1>5. CASE SweepFails(s)
  BY <1>5, GrantsStep, GrantsEnd DEF SweepFails, Forgotten
<1>6. CASE CommitConnect(s) \/ CommitConnectInDoubt(s)
  BY <1>6, GrantsReplace DEF CommitConnect, CommitConnectInDoubt
<1>7. CASE ConnectFails(s)
  BY <1>7, GrantsStep DEF ConnectFails, Forgotten
<1>8. CASE Undo(s)
  <2>1. \A q \in Slots: req'[q] = IF q = s THEN Idle ELSE req[q]
    BY <1>0, <1>8, EndsIsTyped DEF Undo
  <2>2. Idle.at # "swept"
    BY DEF Idle
  <2> QED
    BY <1>8, <2>1, <2>2 DEF Undo, AfterUndo, Grants, NoGrantLeftBehind
<1>9. CASE UndoFails(s)
  BY <1>9, GrantsEnd DEF UndoFails, Forgotten
<1>10. CASE CommitRevoke(s)
  <2>1. req[s].token = None
    BY <1>10 DEF CommitRevoke, At, Hands
  <2> QED
    BY <1>10, <2>1, GrantsEnd DEF CommitRevoke, Forgotten
<1> QED
  BY <1>1, <1>2, <1>3, <1>4, <1>5, <1>6, <1>7, <1>8, <1>9, <1>10 DEF DriveStep

\* No grant on a member's Drive is left behind: one that is good is the
\* connection's, or in the hands of a request that will revoke it; or the code
\* refused it after the exchange, replaced it by a connection made at the same
\* time, or lost it with an instance or at Google.
THEOREM GrantsAreKnown == Spec => []NoGrantLeftBehind
<1>1. Init => Grants
  BY DEF Init, Idle, Grants, NoGrantLeftBehind
<1>2. TypeOK /\ Hands /\ Rows /\ Grants /\ [Next]_vars => Grants'
  <2> SUFFICES ASSUME TypeOK, Hands, Rows, Grants, [Next]_vars PROVE Grants'
    OBVIOUS
  <2>1. CASE UNCHANGED <<req, driveVars>>
    BY <2>1 DEF Grants, NoGrantLeftBehind, Forgotten
  <2> QED
    BY <2>1, GrantsClaim, GrantsDrive DEF Next, RecordStep, LeaseLapses, Expire, Purge,
       CompleteSession, vars
<1>3. Grants => NoGrantLeftBehind
  BY DEF Grants
<1> QED
  BY <1>1, <1>2, <1>3, TypeInvariant, PTL DEF Spec

USE RecordingsAssumption DEF RecordingsAssumption,
    consentVars, uploadVars, bytesVars, importVars, copyVars

(***************************************************************************)
(* Uploads.                                                                *)
(***************************************************************************)
UploadTypes ==
    /\ upload \in [Uploads -> SessionState]
    /\ age \in [Uploads -> {"ahead", "past", "stale"}]
    /\ {url, pending, final, recorded, raced} \subseteq SUBSET Uploads
    /\ try \in [Uploads -> [Completions -> TryPc]]
    /\ sweep \in [Uploads -> SweepPc]

\* A session past by a day has no URL and no request any more, and only such a
\* session is swept; what was swept is empty and stays so.
StaleIsQuiet(u) ==
    /\ age[u] = "stale" => u \notin url /\ \A c \in Completions: try[u][c] = "off"
    /\ sweep[u] # "off" => age[u] = "stale" /\ upload[u] = "open"
    /\ upload[u] = "gone" => age[u] = "stale"
    /\ sweep[u] = "erased" \/ upload[u] = "gone" => u \notin pending \cup final

\* Whoever is to record the bytes has them, and whoever is to delete them has
\* no recording to harm, unless the history says that two requests raced.
BytesAreKept(u) ==
    /\ u \in recorded <=> upload[u] = "completed"
    /\ u \in recorded => u \in final \cup raced
    /\ \A c \in Completions:
          /\ try[u][c] \in {"probe", "commit"} => u \in final \cup raced
          /\ try[u][c] = "delete" => u \notin recorded \ raced

UploadInv == UploadTypes /\ \A u \in Uploads: StaleIsQuiet(u) /\ BytesAreKept(u)

UploadRest == <<upload, age, url, pending, final, recorded, raced, try, sweep>>

LEMMA UploadIdle == ASSUME UploadInv, UNCHANGED UploadRest PROVE UploadInv'
BY DEF UploadInv, UploadTypes, UploadRest, StaleIsQuiet, BytesAreKept

LEMMA SessionKeeps ==
    ASSUME UploadInv, NEW u \in Uploads,
           (\E c \in Consents: StartUpload(u, c)) \/ SignUrl(u) \/ Put(u) \/ Lapse(u) \/ Age(u)
    PROVE UploadInv'
<1> USE DEF UploadInv, UploadTypes, SessionState, StaleIsQuiet, BytesAreKept
<1>1. CASE \E c \in Consents: StartUpload(u, c)
  BY <1>1 DEF StartUpload
<1>2. CASE SignUrl(u)
  BY <1>2 DEF SignUrl
<1>3. CASE Put(u)
  BY <1>3 DEF Put
<1>4. CASE Lapse(u)
  BY <1>4 DEF Lapse
<1>5. CASE Age(u)
  BY <1>5 DEF Age
<1> QED
  BY <1>1, <1>2, <1>3, <1>4, <1>5

LEMMA WithdrawKeeps == ASSUME UploadInv, NEW c \in Consents, Withdraw(c) PROVE UploadInv'
BY DEF UploadInv, UploadTypes, StaleIsQuiet, BytesAreKept, Withdraw

LEMMA SweepKeeps ==
    ASSUME UploadInv, NEW u \in Uploads, ClaimStale(u) \/ EraseStale(u) \/ EraseFails(u) \/ RemoveSession(u)
    PROVE UploadInv'
<1> USE DEF UploadInv, UploadTypes, SessionState, SweepPc, StaleIsQuiet, BytesAreKept
<1>1. CASE ClaimStale(u)
  BY <1>1 DEF ClaimStale
<1>2. CASE EraseStale(u)
  BY <1>2 DEF EraseStale
<1>3. CASE EraseFails(u)
  BY <1>3 DEF EraseFails
<1>4. CASE RemoveSession(u)
  BY <1>4 DEF RemoveSession
<1> QED
  BY <1>1, <1>2, <1>3, <1>4

LEMMA CompletionKeeps ==
    ASSUME UploadInv, NEW u \in Uploads, NEW c \in Completions,
           \/ BeginCompletion(u, c) \/ Verify(u, c) \/ VerifyFails(u, c)
           \/ Probe(u, c) \/ CommitRefused(u, c) \/ CommitFails(u, c) \/ Lookup(u, c)
    PROVE UploadInv'
<1> USE DEF UploadInv, UploadTypes, TryPc, StaleIsQuiet, BytesAreKept
<1>1. CASE BeginCompletion(u, c)
  BY <1>1 DEF BeginCompletion
<1>2. CASE Verify(u, c)
  BY <1>2 DEF Verify
<1>3. CASE VerifyFails(u, c)
  BY <1>3 DEF VerifyFails
<1>4. CASE Probe(u, c)
  BY <1>4 DEF Probe
<1>5. ASSUME NEW next \in {"off", "lookup", "delete"}, next = "delete" => u \notin recorded,
             try' = [try EXCEPT ![u][c] = next], try[u][c] \in {"commit", "lookup"},
             UNCHANGED <<upload, age, url, pending, final, recorded, raced, sweep>>
      PROVE UploadInv'
  <2>1. \A v \in Uploads, d \in Completions:
           try'[v][d] = try[v][d] \/ (v = u /\ try'[v][d] = next /\ try[v][d] \in {"commit", "lookup"})
    BY <1>5
  <2>2. UploadTypes'
    BY <1>5
  <2>3. \A v \in Uploads: StaleIsQuiet(v)' /\ BytesAreKept(v)'
    BY <1>5, <2>1
  <2> QED
    BY <2>2, <2>3
<1>6. CASE CommitRefused(u, c) \/ CommitFails(u, c)
  BY <1>5, <1>6 DEF CommitRefused, CommitFails
<1>7. CASE Lookup(u, c)
  BY <1>5, <1>7 DEF Lookup
<1> QED
  BY <1>1, <1>2, <1>3, <1>4, <1>6, <1>7

LEMMA RecordKeeps ==
    ASSUME UploadInv, NEW u \in Uploads, NEW c \in Completions, Commit(u, c) \/ CommitUnheard(u, c)
    PROVE UploadInv'
<1> USE DEF UploadInv, UploadTypes, SessionState, TryPc, StaleIsQuiet, BytesAreKept
<1>1. PICK next \in {"off", "lookup"}: try' = [try EXCEPT ![u][c] = next]
  BY DEF Commit, CommitUnheard
<1>2. /\ RecordUpload(u, c) /\ try[u][c] = "commit"
      /\ UNCHANGED <<age, url, pending, final, sweep>>
  BY DEF Commit, CommitUnheard
<1>3. UploadTypes'
  BY <1>1, <1>2 DEF RecordUpload
<1>4. \A v \in Uploads \ {u}: StaleIsQuiet(v)' /\ BytesAreKept(v)'
  BY <1>1, <1>2 DEF RecordUpload
<1>5. StaleIsQuiet(u)'
  BY <1>1, <1>2 DEF RecordUpload
<1>6. BytesAreKept(u)'
  BY <1>1, <1>2 DEF RecordUpload, RivalAt
<1> QED
  BY <1>3, <1>4, <1>5, <1>6

LEMMA DeleteKeeps ==
    ASSUME UploadInv, NEW u \in Uploads, NEW c \in Completions, ProbeFails(u, c) \/ DeleteUnreferenced(u, c)
    PROVE UploadInv'
<1> USE DEF UploadInv, UploadTypes, TryPc, StaleIsQuiet, BytesAreKept
<1>1. /\ try' = [try EXCEPT ![u][c] = "off"] /\ final' = final \ {u}
      /\ raced' \in {raced, raced \cup {u}}
      /\ RivalAt(u, c, {"probe", "commit"}) => u \in raced'
      /\ u \in recorded => u \in raced'
      /\ UNCHANGED <<upload, age, url, pending, recorded, sweep>>
  BY DEF ProbeFails, DeleteUnreferenced, DeleteFinal
<1>2. UploadTypes'
  BY <1>1
<1>3. \A v \in Uploads: StaleIsQuiet(v)'
  BY <1>1
<1>4. \A v \in Uploads \ {u}: BytesAreKept(v)'
  BY <1>1
<1>5. BytesAreKept(u)'
  BY <1>1 DEF RivalAt
<1> QED
  BY <1>2, <1>3, <1>4, <1>5

LEMMA ImportStepIdle == ASSUME ImportSteps PROVE UNCHANGED UploadRest
BY DEF ImportSteps, UploadRest, CreateImport, ClaimImport, BeginImport, Copy, ProbeCopy, NotCancelled,
   CommitImport, HandlerCancelled, Finish, Crash, RetryJob, CancelJob, HandlerFails, CommitImportUnheard

LEMMA UploadStep == UploadInv /\ [RecordingsNext]_recordingsVars => UploadInv'
<1> SUFFICES ASSUME UploadInv, [RecordingsNext]_recordingsVars PROVE UploadInv'
  OBVIOUS
<1>1. CASE UploadSteps
  BY <1>1, SessionKeeps, SweepKeeps, CompletionKeeps, RecordKeeps, DeleteKeeps DEF UploadSteps
<1>2. CASE ImportSteps
  BY <1>2, ImportStepIdle, UploadIdle
<1>3. ASSUME NEW c \in Consents, NEW granted \in BOOLEAN, BeginConsent(c, granted) \/ Grant(c)
      PROVE UploadInv'
  BY <1>3, UploadIdle DEF BeginConsent, Grant, UploadRest
<1>4. CASE UNCHANGED recordingsVars
  BY <1>4, UploadIdle DEF recordingsVars, UploadRest
<1> QED
  BY <1>1, <1>2, <1>3, <1>4, WithdrawKeeps DEF RecordingsNext

(***************************************************************************)
(* Imports.                                                                *)
(***************************************************************************)
ImportTypes ==
    /\ import \in [Imports -> ImportStatus]
    /\ doubted \subseteq Imports
    /\ tries \in [Imports -> 0..MaxTries]
    /\ pc \in [Imports -> WorkerPc]
    /\ {copies, astray} \subseteq [Imports -> SUBSET (1..MaxTries)]
    /\ kept \in [Imports -> 0..MaxTries]

\* An import names a copy exactly when it succeeded, a worker copies only for
\* one that has not, and besides the copy named and the one in hand there are
\* only those gone astray.
CopyIsOne(i) ==
    /\ pc[i] # "off" => tries[i] # 0
    /\ kept[i] # 0 <=> import[i] = "succeeded"
    /\ pc[i] \in {"copy", "probe", "check", "commit"} => import[i] = "copying"
    /\ CopyInHand(i) => tries[i] \in copies[i]
    /\ kept[i] # 0 => kept[i] \in copies[i] \/ i \in doubted
    /\ \A n \in copies[i]: n = kept[i] \/ n \in astray[i] \/ (n = tries[i] /\ CopyInHand(i))

ImportInv == ImportTypes /\ \A i \in Imports: CopyIsOne(i)

ImportRest == <<import, doubted, tries, pc, copies, astray, kept>>

LEMMA ImportIdle == ASSUME ImportInv, UNCHANGED ImportRest PROVE ImportInv'
BY DEF ImportInv, ImportTypes, ImportRest, CopyIsOne, CopyInHand

LEMMA UploadStepIdle == ASSUME UploadSteps PROVE UNCHANGED ImportRest
BY DEF UploadSteps, ImportRest, StartUpload, SignUrl, Put, Lapse, Age, BeginCompletion, Verify,
   VerifyFails, Probe, ProbeFails, Commit, CommitUnheard, CommitRefused, CommitFails, Lookup,
   DeleteUnreferenced, ClaimStale, EraseStale, EraseFails, RemoveSession

LEMMA AttemptKeeps ==
    ASSUME ImportInv, NEW i \in Imports,
           \/ \E c \in Consents: CreateImport(i, c)
           \/ ClaimImport(i) \/ BeginImport(i) \/ Copy(i) \/ ProbeCopy(i) \/ NotCancelled(i)
           \/ CommitImport(i)
    PROVE ImportInv'
<1> USE DEF ImportInv, ImportTypes, ImportStatus, WorkerPc, CopyIsOne, CopyInHand
<1>1. CASE \E c \in Consents: CreateImport(i, c)
  BY <1>1 DEF CreateImport
<1>2. CASE ClaimImport(i)
  BY <1>2 DEF ClaimImport
<1>3. CASE BeginImport(i)
  BY <1>3 DEF BeginImport, Importable
<1>4. CASE Copy(i)
  BY <1>4 DEF Copy
<1>5. CASE ProbeCopy(i) \/ NotCancelled(i)
  BY <1>5 DEF ProbeCopy, NotCancelled
<1>6. CASE CommitImport(i)
  BY <1>6 DEF CommitImport, RecordCopy
<1> QED
  BY <1>1, <1>2, <1>3, <1>4, <1>5, <1>6

LEMMA EndKeeps ==
    ASSUME ImportInv, NEW i \in Imports,
           \/ HandlerCancelled(i) \/ Finish(i) \/ Crash(i)
           \/ \E retryable \in BOOLEAN: HandlerFails(i, retryable) \/ CommitImportUnheard(i, retryable)
    PROVE ImportInv'
<1> USE DEF ImportInv, ImportTypes, ImportStatus, WorkerPc, CopyIsOne, CopyInHand
<1>1. CASE HandlerCancelled(i)
  BY <1>1 DEF HandlerCancelled, Discard, DiscardFails, Leave
<1>2. CASE Finish(i)
  BY <1>2 DEF Finish
<1>3. CASE Crash(i)
  BY <1>3 DEF Crash, Leave
<1>4. ASSUME NEW retryable \in BOOLEAN, HandlerFails(i, retryable) PROVE ImportInv'
  <2>1. CASE Discard(i)
    BY <1>4, <2>1 DEF HandlerFails, Discard
  <2>2. CASE DiscardFails(i)
    BY <1>4, <2>2 DEF HandlerFails, DiscardFails, Leave
  <2> QED
    BY <1>4, <2>1, <2>2 DEF HandlerFails
<1>5. ASSUME NEW retryable \in BOOLEAN, CommitImportUnheard(i, retryable) PROVE ImportInv'
  BY <1>5 DEF CommitImportUnheard, RecordCopy
<1> QED
  BY <1>1, <1>2, <1>3, <1>4, <1>5

LEMMA ConsentKeeps ==
    ASSUME ImportInv, NEW c \in Consents, NEW granted \in BOOLEAN,
           BeginConsent(c, granted) \/ Grant(c) \/ Withdraw(c)
    PROVE ImportInv'
<1>1. CASE BeginConsent(c, granted) \/ Grant(c)
  BY <1>1, ImportIdle DEF BeginConsent, Grant, ImportRest
<1>2. CASE Withdraw(c)
  BY <1>2 DEF Withdraw, ImportInv, ImportTypes, ImportStatus, CopyIsOne, CopyInHand
<1> QED
  BY <1>1, <1>2

LEMMA ImportStep == ImportInv /\ [RecordingsNext]_recordingsVars => ImportInv'
<1> SUFFICES ASSUME ImportInv, [RecordingsNext]_recordingsVars PROVE ImportInv'
  OBVIOUS
<1>1. CASE UploadSteps
  BY <1>1, UploadStepIdle, ImportIdle
<1>2. CASE ImportSteps
  <2>1. ASSUME NEW i \in Imports, RetryJob(i) \/ CancelJob(i) PROVE ImportInv'
    BY <2>1, ImportIdle DEF RetryJob, CancelJob, ImportRest
  <2> QED
    BY <1>2, <2>1, AttemptKeeps, EndKeeps DEF ImportSteps
<1>3. CASE UNCHANGED recordingsVars
  BY <1>3, ImportIdle DEF recordingsVars, ImportRest
<1> QED
  BY <1>1, <1>2, <1>3, ConsentKeeps DEF RecordingsNext

LEMMA RecordingsInvariant == RecordingsSpec => [](UploadInv /\ ImportInv)
<1>1. RecordingsInit => UploadInv /\ ImportInv
  BY DEF RecordingsInit, UploadInv, UploadTypes, SessionState, TryPc, SweepPc, StaleIsQuiet,
     BytesAreKept, ImportInv, ImportTypes, ImportStatus, WorkerPc, CopyIsOne, CopyInHand
<1> QED
  BY <1>1, UploadStep, ImportStep, PTL DEF RecordingsSpec

\* Every recording has its bytes, however many completions, imports, sweeps
\* and faults there are, but for the races and doubts the code leaves open.
THEOREM RecordingsAreStored == RecordingsSpec => []RecordedIsStored
<1>1. UploadInv => \A u \in recorded: u \in final \/ u \in raced
  BY DEF UploadInv, UploadTypes, BytesAreKept
<1>2. ImportInv => \A i \in Imports: kept[i] # 0 => kept[i] \in copies[i] \/ i \in doubted
  BY DEF ImportInv, CopyIsOne
<1> QED
  BY <1>1, <1>2, RecordingsInvariant, PTL DEF RecordedIsStored

\* No bytes are left that no row leads to, but the copies whose worker died or
\* whose deletion failed.
THEOREM NothingIsLeftBehind == RecordingsSpec => []NothingLeftBehind
<1>1. UploadInv /\ ImportInv => NothingLeftBehind
  BY DEF UploadInv, StaleIsQuiet, ImportInv, CopyIsOne, NothingLeftBehind
<1> QED
  BY <1>1, RecordingsInvariant, PTL

\* An import that succeeded stays so, with the copy it named first.
THEOREM ImportsAreMadeOnce == RecordingsSpec => ImportedOnce
<1> DEFINE Once == \A i \in Imports: import[i] = "succeeded" => import'[i] = "succeeded" /\ kept'[i] = kept[i]
<1>1. ASSUME ImportTypes, ImportSteps PROVE Once
  BY <1>1 DEF ImportTypes, ImportSteps, CreateImport, ClaimImport, BeginImport, Importable, Copy,
     ProbeCopy, NotCancelled, CommitImport, RecordCopy, HandlerCancelled, Finish, Crash, RetryJob,
     CancelJob, HandlerFails, CommitImportUnheard
<1>2. ASSUME UploadSteps PROVE Once
  BY <1>2, UploadStepIdle DEF ImportRest
<1>3. ImportTypes /\ [RecordingsNext]_recordingsVars => [Once]_recordingsVars
  BY <1>1, <1>2 DEF RecordingsNext, BeginConsent, Grant, Withdraw
<1>4. ImportInv => ImportTypes
  BY DEF ImportInv
<1> QED
  BY <1>3, <1>4, RecordingsInvariant, PTL DEF RecordingsSpec, ImportedOnce

(***************************************************************************)
(* Withdrawals.                                                            *)
(***************************************************************************)
Withdrawn == \E w \in Consents: consent[w] = "withdrawn" /\ Newest(w)

Live == {"queued", "retry_wait", "running"}

Announced(u) == upload[u] = "open" /\ age[u] = "ahead"

Waiting(i) == import[i] = "queued" \/ (import[i] = "copying" /\ job[i] \in Live /\ i \notin asked)

\* A worker's job is running, an import under way has a job that is to go on
\* or was asked to stop, and a worker that is done has succeeded.
ImportIsAttended(i) ==
    /\ import[i] = "none" => job[i] = "none"
    /\ pc[i] # "off" => job[i] = "running"
    /\ pc[i] = "done" => import[i] = "succeeded"
    /\ import[i] = "copying" => job[i] \in Live \/ i \in asked

QuietInv ==
    /\ consent \in [Consents -> ConsentState]
    /\ job \in [Imports -> JobStatus]
    /\ asked \subseteq Imports
    /\ \A i \in Imports: ImportIsAttended(i)
    /\ WithdrawnIsQuiet

LEMMA QuietMeans ==
    WithdrawnIsQuiet <=>
        (Withdrawn => (\A u \in Uploads: ~Announced(u)) /\ (\A i \in Imports: ~Waiting(i)))
BY DEF WithdrawnIsQuiet, Withdrawn, Announced, Waiting, Live

LEMMA CurrentIsNotWithdrawn == ASSUME NEW c, Current(c) PROVE ~Withdrawn
BY DEF Current, Withdrawn, Newest, Committed, Consents

\* Nothing new is announced or waits, while a decision is the newest and is not
\* a grant: that is what every step but Withdraw has to keep.
Stays ==
    /\ Withdrawn' => Withdrawn
    /\ Withdrawn => /\ \A u \in Uploads: Announced(u)' => Announced(u)
                    /\ \A i \in Imports: Waiting(i)' => Waiting(i)

LEMMA StaysQuiet == ASSUME WithdrawnIsQuiet, Stays PROVE WithdrawnIsQuiet'
BY QuietMeans DEF Stays, WithdrawnIsQuiet, Withdrawn, Announced, Waiting, Live

LEMMA QuietUpload == ASSUME QuietInv, UploadTypes, UploadSteps PROVE QuietInv'
<1>1. UNCHANGED <<consent, import, job, asked, pc>>
  BY DEF UploadSteps, StartUpload, SignUrl, Put, Lapse, Age, BeginCompletion, Verify,
     VerifyFails, Probe, ProbeFails, Commit, CommitUnheard, CommitRefused, CommitFails, Lookup,
     DeleteUnreferenced, ClaimStale, EraseStale, EraseFails, RemoveSession
<1>2. Withdrawn => \A u \in Uploads: Announced(u)' => Announced(u)
  BY CurrentIsNotWithdrawn DEF UploadTypes, SessionState, Announced, RecordUpload,
     UploadSteps, StartUpload, SignUrl, Put, Lapse, Age, BeginCompletion, Verify,
     VerifyFails, Probe, ProbeFails, Commit, CommitUnheard, CommitRefused, CommitFails, Lookup,
     DeleteUnreferenced, ClaimStale, EraseStale, EraseFails, RemoveSession
<1>3. Stays
  BY <1>1, <1>2 DEF Stays, Withdrawn, Newest, Committed, Waiting
<1> QED
  BY <1>1, <1>3, StaysQuiet DEF QuietInv, ImportIsAttended

LEMMA QuietImport ==
    ASSUME QuietInv, ImportInv, NEW i \in Imports,
           \/ \E c \in Consents: CreateImport(i, c)
           \/ ClaimImport(i) \/ BeginImport(i) \/ Copy(i) \/ ProbeCopy(i) \/ NotCancelled(i)
           \/ CommitImport(i) \/ HandlerCancelled(i) \/ Finish(i) \/ Crash(i)
           \/ RetryJob(i) \/ CancelJob(i)
           \/ \E retryable \in BOOLEAN: HandlerFails(i, retryable) \/ CommitImportUnheard(i, retryable)
    PROVE QuietInv'
<1>1. UNCHANGED <<consent, upload, age>>
  BY DEF CreateImport, ClaimImport, BeginImport, Copy, ProbeCopy, NotCancelled,
     CommitImport, HandlerCancelled, Finish, Crash, RetryJob, CancelJob, HandlerFails, CommitImportUnheard
<1> DEFINE Kept ==
        /\ job' \in [Imports -> JobStatus] /\ asked' \subseteq Imports
        /\ \A k \in Imports: ImportIsAttended(k)'
        /\ Withdrawn => \A k \in Imports: Waiting(k)' => Waiting(k)
<1> USE DEF QuietInv, ImportInv, ImportTypes, ImportStatus, WorkerPc, JobStatus, CopyIsOne, CopyInHand,
            ImportIsAttended, Waiting, Live
<1>2. ASSUME NEW c \in Consents, CreateImport(i, c) PROVE Kept
  BY <1>2, CurrentIsNotWithdrawn DEF CreateImport
<1>3. ASSUME ClaimImport(i) PROVE Kept
  BY <1>3 DEF ClaimImport
<1>4. ASSUME BeginImport(i) PROVE Kept
  BY <1>4, CurrentIsNotWithdrawn DEF BeginImport, Importable
<1>5. ASSUME Copy(i) \/ ProbeCopy(i) \/ NotCancelled(i) PROVE Kept
  BY <1>5 DEF Copy, ProbeCopy, NotCancelled
<1>6. ASSUME CommitImport(i) PROVE Kept
  BY <1>6 DEF CommitImport, RecordCopy
<1>7. ASSUME HandlerCancelled(i) PROVE Kept
  BY <1>7 DEF HandlerCancelled
<1>8. ASSUME Finish(i) \/ Crash(i) PROVE Kept
  BY <1>8 DEF Finish, Crash
<1>9. ASSUME RetryJob(i) PROVE Kept
  BY <1>9 DEF RetryJob
<1>10. ASSUME CancelJob(i) PROVE Kept
  BY <1>10 DEF CancelJob
<1>11. ASSUME NEW retryable \in BOOLEAN, HandlerFails(i, retryable) PROVE Kept
  BY <1>11 DEF HandlerFails
<1>12. ASSUME NEW retryable \in BOOLEAN, CommitImportUnheard(i, retryable) PROVE Kept
  BY <1>12 DEF CommitImportUnheard, RecordCopy
<1>13. Kept
  BY <1>2, <1>3, <1>4, <1>5, <1>6, <1>7, <1>8, <1>9, <1>10, <1>11, <1>12
<1>14. Stays
  BY <1>1, <1>13 DEF Stays, Withdrawn, Newest, Committed, Announced
<1> QED
  BY <1>1, <1>13, <1>14, StaysQuiet

LEMMA QuietConsent ==
    ASSUME QuietInv, ImportTypes, UploadTypes, NEW c \in Consents, NEW granted \in BOOLEAN,
           BeginConsent(c, granted) \/ Grant(c) \/ Withdraw(c)
    PROVE QuietInv'
<1> USE DEF QuietInv, ConsentState
<1>1. CASE BeginConsent(c, granted) \/ Grant(c)
  <2>1. UNCHANGED <<upload, age, import, job, asked, pc>> /\ consent' \in [Consents -> ConsentState]
    BY <1>1 DEF BeginConsent, Grant
  <2>2. Withdrawn' => Withdrawn
    BY <1>1 DEF BeginConsent, Grant, Withdrawn, Newest, Committed
  <2>3. Stays
    BY <2>1, <2>2 DEF Stays, Announced, Waiting
  <2> QED
    BY <2>1, <2>3, StaysQuiet DEF ImportIsAttended
<1>2. CASE Withdraw(c)
  <2>1. \A u \in Uploads: ~Announced(u)'
    BY <1>2 DEF Withdraw, Announced, UploadTypes
  <2>2. /\ job' \in [Imports -> JobStatus] /\ asked' \subseteq Imports
        /\ \A i \in Imports: ImportIsAttended(i)' /\ ~Waiting(i)'
    BY <1>2 DEF Withdraw, Waiting, ImportIsAttended, Live, ImportTypes, ImportStatus, JobStatus
  <2>3. consent' \in [Consents -> ConsentState]
    BY <1>2 DEF Withdraw
  <2> QED
    BY <2>1, <2>2, <2>3 DEF WithdrawnIsQuiet, Announced, Waiting, Live
<1> QED
  BY <1>1, <1>2

LEMMA QuietStep ==
    ASSUME QuietInv, ImportInv, UploadInv, [RecordingsNext]_recordingsVars PROVE QuietInv'
<1>1. UploadTypes /\ ImportTypes
  BY DEF UploadInv, ImportInv
<1>2. CASE UNCHANGED recordingsVars
  BY <1>2 DEF recordingsVars, QuietInv, ImportIsAttended, WithdrawnIsQuiet, Newest, Committed
<1>3. CASE ImportSteps
  BY <1>3, QuietImport DEF ImportSteps
<1> QED
  BY <1>1, <1>2, <1>3, QuietUpload, QuietConsent DEF RecordingsNext

\* While the newest decision is not a grant, nothing that was announced or
\* asked for under an earlier one can still begin, in any order of commits.
THEOREM WithdrawalsReachAll == RecordingsSpec => []WithdrawnIsQuiet
<1>1. RecordingsInit => QuietInv
  BY DEF RecordingsInit, QuietInv, ConsentState, JobStatus, ImportIsAttended, WithdrawnIsQuiet
<1>2. QuietInv => WithdrawnIsQuiet
  BY DEF QuietInv
<1> QED
  BY <1>1, <1>2, QuietStep, RecordingsInvariant, PTL DEF RecordingsSpec
=============================================================================
