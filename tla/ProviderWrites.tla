--------------------------- MODULE ProviderWrites ---------------------------
(***************************************************************************)
(* The idempotent writes of the API.  Most are one transaction, which      *)
(* looks for the key's record, does its work and inserts the record.       *)
(* Those that call a provider between two transactions, the turns of a     *)
(* member's roleplay and the member's connection to Google Drive, claim    *)
(* the record first, under a lease of five minutes, and complete it with   *)
(* the effect; a request that fails gives its claim up, and the next one   *)
(* with the same key takes it over.                                        *)
(*                                                                         *)
(* One member, one roleplay session and its turns, one Drive account.  The *)
(* digest of the request's body is left out: a request that reuses a key   *)
(* for another body changes nothing.  An authorisation code belongs to the *)
(* key it is sent with.                                                    *)
(***************************************************************************)
EXTENDS Naturals, Sequences, FiniteSets

CONSTANTS
    Slots,          \* requests of the member in flight at once
    TurnKeys,       \* keys of roleplay turns
    Opening,        \* those of them that open a session of their own
    ConnectKeys,    \* keys of Drive connections
    RevokeKeys,     \* keys of Drive disconnections
    WriteKeys,      \* keys of writes of one transaction
    None,           \* no key, no token
    MaxRequests,    \* bound on requests
    MaxExpiries     \* bound on records that expire

ASSUME ProviderWritesAssumption ==
    /\ Opening \subseteq TurnKeys
    /\ TurnKeys \cap (ConnectKeys \cup RevokeKeys) = {}
    /\ ConnectKeys \cap RevokeKeys = {}
    /\ WriteKeys \cap (TurnKeys \cup ConnectKeys \cup RevokeKeys) = {}
    /\ None \notin TurnKeys \cup ConnectKeys \cup RevokeKeys \cup WriteKeys
    /\ {MaxRequests, MaxExpiries} \subseteq Nat

ClaimKeys == TurnKeys \cup ConnectKeys \cup RevokeKeys
Keys == ClaimKeys \cup WriteKeys

\* A token is named by the key whose code it was exchanged for; none twice.
Tokens == ConnectKeys
Record == [status: {"none", "in_progress", "completed"}, leased: BOOLEAN, expired: BOOLEAN]
Request ==
    [at: {"idle", "prepared", "claimed", "made", "read", "swept", "undo"},
     key: Keys \cup {None}, seen: Nat,
     token: Tokens \cup {None}, old: Tokens \cup {None}]

VARIABLES
    record,     \* key -> idempotency_records row
    req,        \* slot -> the request it serves
    sent,       \* requests so far
    effects,    \* key -> effects since its record was made
    expiries,   \* records that expired
    session,    \* status of the roleplay session
    turns,      \* its turns: how much of the conversation each was made from
    grants,     \* refresh tokens that are good at Google
    minted,     \* those ever given: a code is good once
    row,        \* token of the active external_connections row
    rows,       \* tokens of all its rows
    refused,    \* history: tokens the code got and did not accept
    unseen,     \* history: those of rows replaced by a request that had read an
                \* older row
    lost        \* history: those nobody holds, an instance or Google failing

claimVars == <<record, sent, effects, expiries>>
turnVars == <<session, turns>>
forgottenVars == <<refused, unseen, lost>>
driveVars == <<grants, minted, row, rows, forgottenVars>>
vars == <<claimVars, req, turnVars, driveVars>>

TypeOK ==
    /\ record \in [Keys -> Record]
    /\ req \in [Slots -> Request]
    /\ sent \in 0..MaxRequests
    /\ effects \in [Keys -> Nat]
    /\ expiries \in 0..MaxExpiries
    /\ session \in {"active", "completed"}
    /\ turns \in Seq(Nat)
    /\ {grants, minted, rows, refused, unseen, lost} \subseteq SUBSET Tokens
    /\ row \in Tokens \cup {None}

NoRecord == [status |-> "none", leased |-> FALSE, expired |-> FALSE]
Idle == [at |-> "idle", key |-> None, seen |-> 0, token |-> None, old |-> None]

Init ==
    /\ record = [k \in Keys |-> NoRecord]
    /\ req = [s \in Slots |-> Idle]
    /\ sent = 0
    /\ effects = [k \in Keys |-> 0]
    /\ expiries = 0
    /\ session = "active" /\ turns = <<>>
    /\ grants = {} /\ minted = {} /\ row = None /\ rows = {}
    /\ refused = {} /\ unseen = {} /\ lost = {}

At(s, pc, keys) == req[s].at = pc /\ req[s].key \in keys
Step(s, pc) == req' = [req EXCEPT ![s].at = pc]
Ends(s) == req' = [req EXCEPT ![s] = Idle]

-----------------------------------------------------------------------------
(* The claim.                                                              *)

Send == sent < MaxRequests /\ sent' = sent + 1

\* roleplayTurn reads the session and its turns before it claims the key.
PrepareTurn(s, k) ==
    /\ req[s] = Idle
    /\ Send
    /\ k \in Opening \/ session = "active"
    /\ req' = [req EXCEPT ![s] = [Idle EXCEPT !.at = "prepared", !.key = k,
                                  !.seen = IF k \in Opening THEN 0 ELSE Len(turns)]]
    /\ UNCHANGED <<record, effects, expiries, turnVars, driveVars>>

\* createDriveConnection and revokeDriveConnection claim it at once; write
\* begins its transaction.
Begin(s, k) ==
    /\ req[s] = Idle
    /\ Send
    /\ req' = [req EXCEPT ![s] = [Idle EXCEPT !.at = "prepared", !.key = k]]
    /\ UNCHANGED <<record, effects, expiries, turnVars, driveVars>>

\* A new record, or one whose holder gave up or ran out of its lease.
Claimable(k) ==
    \/ record[k].status = "none"
    \/ record[k].status = "in_progress" /\ ~record[k].leased /\ ~record[k].expired

Claim(s) ==
    LET k == req[s].key IN
    /\ At(s, "prepared", ClaimKeys)
    /\ Claimable(k)
    /\ record' = [record EXCEPT ![k] = [NoRecord EXCEPT !.status = "in_progress", !.leased = TRUE]]
    /\ Step(s, "claimed")
    /\ UNCHANGED <<sent, effects, expiries, turnVars, driveVars>>

\* The saved answer, a conflict with the holder, or an expired record that is
\* in the way until it is purged.
ClaimAnswered(s) ==
    /\ At(s, "prepared", ClaimKeys)
    /\ ~Claimable(req[s].key)
    /\ Ends(s)
    /\ UNCHANGED <<claimVars, turnVars, driveVars>>

\* releaseProviderClaim: of whoever holds it by now.
Release(k) ==
    record' = [record EXCEPT ![k].leased = @ /\ record[k].status # "in_progress"]

\* Mutant of Held: the record is not read under its lock.
HeldUnchecked(k) == record[k].status # "none"

\* completeProviderWrite goes on while the claim has not been completed.
Held(k) == record[k].status = "in_progress"

Complete(k) ==
    /\ record' = [record EXCEPT ![k].status = "completed", ![k].leased = FALSE]
    /\ effects' = [effects EXCEPT ![k] = @ + 1]

\* The provider refuses, or the transaction that completes fails: the claim
\* is given up.  A request that holds a new token is treated below.
Fail(s) ==
    /\ At(s, "claimed", ClaimKeys) \/ At(s, "made", ClaimKeys)
    /\ req[s].token = None
    /\ Release(req[s].key)
    /\ Ends(s)
    /\ UNCHANGED <<sent, effects, expiries, turnVars, driveVars>>

\* The instance is gone; its claim is not given up.
Vanish(s) ==
    /\ req[s].at # "idle"
    /\ Ends(s)
    /\ lost' = lost \cup ({req[s].token} \ {None, row})
    /\ UNCHANGED <<claimVars, turnVars, grants, minted, row, rows, refused, unseen>>

LeaseLapses(k) ==
    /\ Held(k) /\ record[k].leased
    /\ Release(k)
    /\ UNCHANGED <<sent, effects, expiries, req, turnVars, driveVars>>

\* After 48 hours; no request lasts that long.
Expire(k) ==
    /\ record[k].status # "none" /\ ~record[k].expired
    /\ expiries < MaxExpiries
    /\ \A s \in Slots: req[s].key # k
    /\ record' = [record EXCEPT ![k].expired = TRUE, ![k].leased = FALSE]
    /\ expiries' = expiries + 1
    /\ UNCHANGED <<sent, effects, req, turnVars, driveVars>>

\* purge_expired_runtime_metadata.
Purge(k) ==
    /\ record[k].expired
    /\ record' = [record EXCEPT ![k] = NoRecord]
    /\ effects' = [effects EXCEPT ![k] = 0]
    /\ UNCHANGED <<sent, expiries, req, turnVars, driveVars>>

-----------------------------------------------------------------------------
(* Writes of one transaction.  Those of expense settlement, eBay prices    *)
(* and purchase results also take a lock on their key; a transaction that  *)
(* waits for it then finds the record, which is a step the others have.    *)

\* The transaction finds no record that is still good, and does its work ...
Perform(s) ==
    LET k == req[s].key IN
    /\ At(s, "prepared", WriteKeys)
    /\ record[k].status = "none" \/ record[k].expired
    /\ Step(s, "made")
    /\ UNCHANGED <<claimVars, turnVars, driveVars>>

\* ... and commits with its record, unless another row has the key by then.
CommitWrite(s) ==
    LET k == req[s].key IN
    /\ At(s, "made", WriteKeys)
    /\ record[k].status = "none"
    /\ Complete(k)
    /\ Ends(s)
    /\ UNCHANGED <<sent, expiries, turnVars, driveVars>>

\* The record has the answer, or the transaction fails.
WriteEnds(s) ==
    /\ \/ At(s, "prepared", WriteKeys) /\ record[req[s].key].status = "completed"
       \/ At(s, "made", WriteKeys)
    /\ Ends(s)
    /\ UNCHANGED <<claimVars, turnVars, driveVars>>

-----------------------------------------------------------------------------
(* Roleplay.                                                               *)

AskModel(s) ==
    /\ At(s, "claimed", TurnKeys)
    /\ Step(s, "made")
    /\ UNCHANGED <<claimVars, turnVars, driveVars>>

\* The session's row is locked and must still be active.
SessionOpen(k) == k \in Opening \/ session = "active"

CommitTurn(s) ==
    LET k == req[s].key IN
    /\ At(s, "made", TurnKeys)
    /\ Held(k)
    /\ SessionOpen(k)
    /\ Complete(k)
    /\ turns' = IF k \in Opening THEN turns ELSE Append(turns, req[s].seen)
    /\ Ends(s)
    /\ UNCHANGED <<sent, expiries, session, driveVars>>

CompleteSession ==
    /\ session = "active"
    /\ session' = "completed"
    /\ UNCHANGED <<claimVars, req, turns, driveVars>>

-----------------------------------------------------------------------------
(* The Drive connection.                                                   *)

\* A code is exchanged once; the new token is good from here on.
Exchange(s) ==
    LET k == req[s].key IN
    /\ At(s, "claimed", ConnectKeys)
    /\ k \notin minted
    /\ minted' = minted \cup {k}
    /\ grants' = grants \cup {k}
    /\ req' = [req EXCEPT ![s].at = "made", ![s].token = k]
    /\ UNCHANGED <<claimVars, turnVars, row, rows, forgottenVars>>

\* An exchange that gives up its claim although the token is good.
ExchangeGivenUp(s) ==
    LET k == req[s].key IN
    /\ At(s, "claimed", ConnectKeys)
    /\ k \notin minted
    /\ minted' = minted \cup {k}
    /\ grants' = grants \cup {k}
    /\ Release(k)
    /\ Ends(s)
    /\ UNCHANGED <<sent, effects, expiries, turnVars, row, rows, unseen>>

\* The code has the token and refuses its scopes, or does not learn the
\* account; it revokes nothing.
ExchangeRefused(s) ==
    /\ ExchangeGivenUp(s)
    /\ refused' = refused \cup {req[s].key}
    /\ UNCHANGED lost

\* Google's answer to the exchange does not arrive.
ExchangeUnheard(s) ==
    /\ ExchangeGivenUp(s)
    /\ lost' = lost \cup {req[s].key}
    /\ UNCHANGED refused

\* Both handlers read the token of the active row; one disconnects only what
\* is connected.
ReadRow(s) ==
    /\ At(s, "made", ConnectKeys) \/ (At(s, "claimed", RevokeKeys) /\ row # None)
    /\ req' = [req EXCEPT ![s].at = "read", ![s].old = row]
    /\ UNCHANGED <<claimVars, turnVars, driveVars>>

\* Mutant of AfterSweep: the token that is replaced is left alone.
AfterSweepKept(s) == grants

\* What is good once the old token is revoked; one already dead is no error.
AfterSweep(s) == grants \ {req[s].old}

Sweep(s) ==
    /\ req[s].at = "read"
    /\ grants' = AfterSweep(s)
    /\ Step(s, "swept")
    /\ UNCHANGED <<claimVars, turnVars, minted, row, rows, forgottenVars>>

\* Google does not answer: nothing is replaced.
SweepFails(s) ==
    /\ req[s].at = "read"
    /\ Release(req[s].key)
    /\ IF req[s].token = None THEN Ends(s) ELSE Step(s, "undo")
    /\ UNCHANGED <<sent, effects, expiries, turnVars, driveVars>>

\* All rows of the member are marked revoked and the new one is inserted.
\* A row made since the old one was read keeps its token, revoked or not.
Replace(s) ==
    LET k == req[s].key IN
    /\ Held(k)
    /\ Complete(k)
    /\ row' = req[s].token /\ rows' = rows \cup {req[s].token}
    /\ unseen' = unseen \cup ({row} \ {None, req[s].old})
    /\ UNCHANGED <<refused, lost>>

CommitConnect(s) ==
    /\ At(s, "swept", ConnectKeys)
    /\ Replace(s)
    /\ Ends(s)
    /\ UNCHANGED <<sent, expiries, turnVars, grants, minted>>

\* The commit took effect and its answer got lost; the record is completed.
CommitConnectInDoubt(s) ==
    /\ At(s, "swept", ConnectKeys)
    /\ Replace(s)
    /\ Step(s, "undo")
    /\ UNCHANGED <<sent, expiries, turnVars, grants, minted>>

ConnectFails(s) ==
    /\ At(s, "swept", ConnectKeys)
    /\ Release(req[s].key)
    /\ Step(s, "undo")
    /\ UNCHANGED <<sent, effects, expiries, turnVars, driveVars>>

\* Mutant of AfterUndo: the new token is not given back.
AfterUndoKept(s) == grants

AfterUndo(s) == grants \ {req[s].token}

\* What a failed connection revokes is its own new token ...
Undo(s) ==
    /\ req[s].at = "undo"
    /\ grants' = AfterUndo(s)
    /\ Ends(s)
    /\ UNCHANGED <<claimVars, turnVars, minted, row, rows, forgottenVars>>

\* ... once: an error of this call is swallowed.
UndoFails(s) ==
    /\ req[s].at = "undo"
    /\ lost' = lost \cup ({req[s].token} \ {row})
    /\ Ends(s)
    /\ UNCHANGED <<claimVars, turnVars, grants, minted, row, rows, refused, unseen>>

\* revokeDriveConnection answers with no body.  A completed record must have
\* one (idempotency_completion_shape), so the transaction that marks the row
\* revoked is always undone and the claim is given up.
CommitRevoke(s) ==
    /\ At(s, "swept", RevokeKeys)
    /\ Release(req[s].key)
    /\ Ends(s)
    /\ UNCHANGED <<sent, effects, expiries, turnVars, driveVars>>

-----------------------------------------------------------------------------
ClaimStep(s) ==
    \/ \E k \in TurnKeys: PrepareTurn(s, k)
    \/ \E k \in Keys \ TurnKeys: Begin(s, k)
    \/ Claim(s) \/ ClaimAnswered(s) \/ Fail(s) \/ Vanish(s)

EffectStep(s) ==
    \/ Perform(s) \/ CommitWrite(s) \/ WriteEnds(s)
    \/ AskModel(s) \/ CommitTurn(s)

DriveStep(s) ==
    \/ Exchange(s) \/ ExchangeRefused(s) \/ ExchangeUnheard(s) \/ ReadRow(s) \/ Sweep(s) \/ SweepFails(s)
    \/ CommitConnect(s) \/ CommitConnectInDoubt(s) \/ ConnectFails(s)
    \/ Undo(s) \/ UndoFails(s) \/ CommitRevoke(s)

RecordStep(k) == LeaseLapses(k) \/ Expire(k) \/ Purge(k)

Next ==
    \/ \E s \in Slots: ClaimStep(s) \/ EffectStep(s) \/ DriveStep(s)
    \/ \E k \in Keys: RecordStep(k)
    \/ CompleteSession

Spec == Init /\ [][Next]_vars

-----------------------------------------------------------------------------
(* Properties.                                                             *)

\* A key takes effect once as long as its record is kept, and then the record
\* says so, however often its lease lapsed, was given up by a request that no
\* longer held it, or was taken over, and however many transactions with the
\* key overlap (write, claimProviderWrite, completeProviderWrite,
\* releaseProviderClaim).
EffectIsRecorded ==
    \A k \in Keys: effects[k] = IF record[k].status = "completed" THEN 1 ELSE 0

\* A conversation that was ended while the model was writing gets no turn any
\* more (roleplayTurn, completeRoleplaySession).
EndedConversationStands ==
    [][session = "completed" => UNCHANGED <<session, turns>>]_vars

\* No grant on the member's Drive is left behind: one that is good is the
\* connection's, or in the hands of a request that will revoke it.  There are
\* three exceptions: a token the code itself refuses after the exchange, which
\* it never revokes; the connection replaced by one made at the same time; and
\* what a dead instance, a lost answer or a failing revocation leaves
\* (createDriveConnection, exchangeAuthorizationCode).
NoGrantLeftBehind ==
    \A t \in grants \ (refused \cup unseen \cup lost):
        t = row \/ \E s \in Slots: req[s].token = t

\* Refuted (drive_overlap.cfg): a connection that was replaced is revoked at
\* Google too; of two connections made at once, neither sees the other.
ReplacedIsRevoked == \A t \in rows \ {row}: t \notin grants

\* Refuted (drive_disconnect.cfg): a disconnection that revoked the token and
\* went on to its commit leaves no active connection with that token.
DisconnectEnds ==
    [][\A s \in Slots: CommitRevoke(s) => row' # req[s].old]_vars

\* Refuted (roleplay_overlap.cfg): a turn was made from all turns before it;
\* the conversation is read before the key is claimed and the session locked.
TurnSawAll == \A n \in DOMAIN turns: turns[n] = n - 1
=============================================================================
