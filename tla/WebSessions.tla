---------------------------- MODULE WebSessions ----------------------------
(***************************************************************************)
(* The server-side sessions of the web front end: the rows of              *)
(* alignment_sessions with their compare-and-swap (PrismaSessionStore),    *)
(* the login by single sign-on (ServerSso) and the renewal and             *)
(* revalidation of a session (LocalSessionGateway), by the requests of     *)
(* several instances over one store.                                       *)
(*                                                                         *)
(* An action is one operation of the store or one call of the identity     *)
(* provider or the API.  A grant is one successful answer of the token     *)
(* endpoint: it names the credential (the access token) and the refresh    *)
(* token that came with it.                                                *)
(***************************************************************************)
EXTENDS Naturals

CONSTANTS
    Requests,       \* requests under way, on any instance
    Keys,           \* keys of sessions: hashes of opaque cookies
    Flows,          \* login flows: states of the authorization endpoint
    Grants,         \* answers of the token endpoint
    Overlaps,       \* whether a logout may run into a transaction of replace
    NoKey, NoFlow, NoGrant, NoRow

(***************************************************************************)
(* A stored session.  renew is the version written by the request that     *)
(* holds the renewal lease, its owner; dead says that its expiry is in the *)
(* past: by time, or because it was set so.                                *)
(***************************************************************************)
Row == [ver: Nat, cred: Grants \cup {NoGrant}, token: Grants \cup {NoGrant},
        renew: Nat, dead: BOOLEAN]

ASSUME WebSessionsAssumption ==
    /\ NoKey \notin Keys
    /\ NoFlow \notin Flows
    /\ NoGrant \notin Grants
    /\ NoRow \notin Row
    /\ Overlaps \in BOOLEAN

TokenState == {"none", "fresh", "sent", "retired", "resent"}
Phase == {"idle", "looking", "claiming", "renewing", "sent", "completing", "discarding",
          "checking", "forwarding", "rejected", "invalidating",
          "consuming", "coding", "coded", "entering", "exchanging"}

VARIABLES
    row,        \* alignment_sessions: the sessions
    issued,     \* the keys that were given to a browser
    lapsed,     \* the claims of a renewal that are over twenty seconds old
    flow,       \* alignment_sessions: the flows; "over" when consumed or expired
    owner,      \* the key of the session that started the flow
    code,       \* "unsent" until the flow's code is exchanged
    token,      \* what became of each refresh token
    stale,      \* grants whose access token is, or is about to be, expired
    refused,    \* grants whose access token the API has refused
    heir,       \* the session a login has replaced by this one
    missed,     \* sessions whose logout was answered and has removed nothing
    pc,         \* where each request is
    key,        \* the session it is about
    at,         \* the flow it is about
    seen        \* the session as it read it, or is about to write it

storeVars    == <<row, issued, heir, missed>>
flowVars     == <<flow, owner, code>>
providerVars == <<token, refused>>
timeVars     == <<lapsed, stale>>
requestVars  == <<pc, key, at, seen>>
vars == <<storeVars, flowVars, providerVars, timeVars, requestVars>>

TypeOK ==
    /\ row \in [Keys -> Row \cup {NoRow}]
    /\ issued \subseteq Keys
    /\ lapsed \subseteq Keys \X Nat
    /\ flow \in [Flows -> {"absent", "open", "over"}]
    /\ owner \in [Flows -> Keys \cup {NoKey}]
    /\ code \in [Flows -> {"unsent", "sent", "resent"}]
    /\ token \in [Grants -> TokenState]
    /\ stale \subseteq Grants
    /\ refused \subseteq Grants
    /\ heir \in [Keys -> Keys \cup {NoKey}]
    /\ missed \subseteq Keys
    /\ pc \in [Requests -> Phase]
    /\ key \in [Requests -> Keys \cup {NoKey}]
    /\ at \in [Requests -> Flows \cup {NoFlow}]
    /\ seen \in [Requests -> Row \cup {NoRow}]

Init ==
    /\ row = [k \in Keys |-> NoRow]
    /\ issued = {}
    /\ lapsed = {}
    /\ flow = [f \in Flows |-> "absent"]
    /\ owner = [f \in Flows |-> NoKey]
    /\ code = [f \in Flows |-> "unsent"]
    /\ token = [g \in Grants |-> "none"]
    /\ stale = {}
    /\ refused = {}
    /\ heir = [k \in Keys |-> NoKey]
    /\ missed = {}
    /\ pc = [q \in Requests |-> "idle"]
    /\ key = [q \in Requests |-> NoKey]
    /\ at = [q \in Requests |-> NoFlow]
    /\ seen = [q \in Requests |-> NoRow]

-----------------------------------------------------------------------------
(* The store.                                                              *)

Visible(k) == row[k] # NoRow /\ ~row[k].dead

\* get
Current(k) == IF Visible(k) THEN row[k] ELSE NoRow

\* Mutant of CanReplace: the version is not compared.
CanReplaceAnyVersion(k, v) == Visible(k)

\* Mutant of CanReplace: the number of deleted rows is not looked at.
CanReplaceAnything(k, v) == TRUE

\* replace: deleteMany on key, version and expiry finds the row
CanReplace(k, v) == Visible(k) /\ row[k].ver = v

Replace(k, v, next, session) ==
    row' = [row EXCEPT ![k] = NoRow, ![next] = [session EXCEPT !.ver = v + 1]]

\* A removal takes no lock: when it meets the transaction of a replacement it
\* waits, then finds its row deleted and does not see the one that took its
\* place (READ COMMITTED).  A logout is answered all the same.
Overtake(k) ==
    missed' \in IF Overlaps THEN {missed, missed \cup {k}} ELSE {missed}

Remove(k) == row' = [row EXCEPT ![k] = NoRow]

\* create begins by deleting what has expired.
Swept == [k \in Keys |-> Current(k)]

Anonymous == [ver |-> 0, cred |-> NoGrant, token |-> NoGrant, renew |-> 0, dead |-> FALSE]

\* The request goes on in phase p with the session s in hand.
Go(q, p, s) ==
    /\ pc' = [pc EXCEPT ![q] = p]
    /\ seen' = [seen EXCEPT ![q] = s]
    /\ UNCHANGED <<key, at>>

Leave(q) ==
    /\ pc' = [pc EXCEPT ![q] = "idle"]
    /\ key' = [key EXCEPT ![q] = NoKey]
    /\ at' = [at EXCEPT ![q] = NoFlow]
    /\ seen' = [seen EXCEPT ![q] = NoRow]

\* GET without a session, or restart after its removal.
Bootstrap(k) ==
    /\ k \notin issued
    /\ row' = [Swept EXCEPT ![k] = Anonymous]
    /\ issued' = issued \cup {k}
    /\ UNCHANGED <<heir, missed, flowVars, providerVars, timeVars, requestVars>>

\* DELETE, and the first half of restart.
Logout(k) ==
    /\ k \in issued
    /\ Remove(k)
    /\ UNCHANGED <<issued, heir, missed, flowVars, providerVars, timeVars, requestVars>>

\* The request is answered, gives up, or its instance dies: nothing is stored.
Stop(q) ==
    /\ pc[q] # "idle"
    /\ Leave(q)
    /\ UNCHANGED <<storeVars, flowVars, providerVars, timeVars>>

-----------------------------------------------------------------------------
(* Login.                                                                  *)

StartFlow(f, k) ==
    /\ flow[f] = "absent"
    /\ Visible(k)
    /\ flow' = [flow EXCEPT ![f] = "open"]
    /\ owner' = [owner EXCEPT ![f] = k]
    /\ row' = Swept
    /\ UNCHANGED <<issued, heir, missed, code, providerVars, timeVars, requestVars>>

Callback(q, f) ==
    /\ pc[q] = "idle"
    /\ flow[f] = "open"
    /\ Visible(owner[f])
    /\ pc' = [pc EXCEPT ![q] = "consuming"]
    /\ key' = [key EXCEPT ![q] = owner[f]]
    /\ at' = [at EXCEPT ![q] = f]
    /\ UNCHANGED <<seen, storeVars, flowVars, providerVars, timeVars>>

\* The flow's row is replaced by an expired one; its loss ends the request.
Consume(q) ==
    /\ pc[q] = "consuming"
    /\ \/ /\ flow[at[q]] = "open"
          /\ flow' = [flow EXCEPT ![at[q]] = "over"]
          /\ Go(q, "coding", NoRow)
       \/ /\ flow[at[q]] # "open"
          /\ Leave(q)
          /\ UNCHANGED flow
    /\ UNCHANGED <<storeVars, owner, code, providerVars, timeVars>>

SendCode(q) ==
    /\ pc[q] = "coding"
    /\ code' = [code EXCEPT ![at[q]] = IF @ = "unsent" THEN "sent" ELSE "resent"]
    /\ Go(q, "coded", NoRow)
    /\ UNCHANGED <<storeVars, flow, owner, providerVars, timeVars>>

CodeAnswered(q, g) ==
    /\ pc[q] = "coded"
    /\ token[g] = "none"
    /\ token' = [token EXCEPT ![g] = "fresh"]
    /\ Go(q, "entering", [Anonymous EXCEPT !.cred = g, !.token = g])
    /\ UNCHANGED <<storeVars, flowVars, refused, timeVars>>

\* The version of the session to be replaced; then identity is asked.
Enter(q) ==
    /\ pc[q] = "entering"
    /\ Visible(key[q])
    /\ Go(q, "exchanging", [seen[q] EXCEPT !.ver = row[key[q]].ver])
    /\ UNCHANGED <<storeVars, flowVars, providerVars, timeVars>>

\* A lost replacement answers 409 and leaves everything: Stop.
Establish(q, k) ==
    /\ pc[q] = "exchanging"
    /\ k \notin issued
    /\ CanReplace(key[q], seen[q].ver)
    /\ Replace(key[q], seen[q].ver, k, seen[q])
    /\ issued' = issued \cup {k}
    /\ heir' = [heir EXCEPT ![k] = key[q]]
    /\ Leave(q)
    /\ UNCHANGED <<missed, flowVars, providerVars, timeVars>>

-----------------------------------------------------------------------------
(* Renewal: usable.                                                        *)

Arrive(q, k) ==
    /\ pc[q] = "idle"
    /\ k \in issued
    /\ pc' = [pc EXCEPT ![q] = "looking"]
    /\ key' = [key EXCEPT ![q] = k]
    /\ UNCHANGED <<at, seen, storeVars, flowVars, providerVars, timeVars>>

Lapsed(k, s) == <<k, s.renew>> \in lapsed

\* Mutant of Look: a lapsed renewal is taken over instead of given up.
LookAndTakeOver(q) ==
    LET s == Current(key[q])
    IN  /\ pc[q] = "looking"
        /\ \/ s = NoRow /\ Leave(q)
           \/ s # NoRow /\ s.token = NoGrant /\ Leave(q)
           \/ /\ s # NoRow /\ s.token # NoGrant
              /\ \/ s.renew # 0 /\ ~Lapsed(key[q], s) /\ Leave(q)
                 \/ s.renew # 0 /\ Lapsed(key[q], s) /\ Go(q, "claiming", s)
                 \/ s.renew = 0 /\ s.cred \in stale /\ Go(q, "claiming", s)
                 \/ s.renew = 0 /\ s.cred \notin stale /\ Go(q, "checking", s)
        /\ UNCHANGED <<storeVars, flowVars, providerVars, timeVars>>

\* While another request renews, it looks again until its own six seconds
\* are over and it is answered 503.
Look(q) ==
    LET s == Current(key[q])
    IN  /\ pc[q] = "looking"
        /\ \/ s = NoRow /\ Leave(q)
           \/ s # NoRow /\ s.token = NoGrant /\ Leave(q)
           \/ /\ s # NoRow /\ s.token # NoGrant
              /\ \/ s.renew # 0 /\ ~Lapsed(key[q], s) /\ Leave(q)
                 \/ s.renew # 0 /\ Lapsed(key[q], s) /\ Go(q, "discarding", NoRow)
                 \/ s.renew = 0 /\ s.cred \in stale /\ Go(q, "claiming", s)
                 \/ s.renew = 0 /\ s.cred \notin stale /\ Go(q, "checking", s)
        /\ UNCHANGED <<storeVars, flowVars, providerVars, timeVars>>

\* The claim is the row with the next version as its owner.
Claim(q) ==
    LET k == key[q]
        v == seen[q].ver
    IN  /\ pc[q] = "claiming"
        /\ \/ /\ CanReplace(k, v)
              /\ Replace(k, v, k, [seen[q] EXCEPT !.renew = v + 1])
              /\ Overtake(k)
              /\ Go(q, "renewing", seen[q])
           \/ /\ ~CanReplace(k, v)
              /\ Go(q, "looking", NoRow)
              /\ UNCHANGED <<row, missed>>
        /\ UNCHANGED <<issued, heir, flowVars, providerVars, timeVars>>

\* The subject is still active; its refresh token is sent.
SendToken(q) ==
    /\ pc[q] = "renewing"
    /\ token' = [token EXCEPT ![seen[q].token] = IF @ = "fresh" THEN "sent" ELSE "resent"]
    /\ Go(q, "sent", seen[q])
    /\ UNCHANGED <<storeVars, flowVars, refused, timeVars>>

\* tokens.refresh_token ?? the old one: the provider rotates, or lets the
\* token live on.
TokenAnswered(q, g) ==
    LET t == seen[q].token
    IN  /\ pc[q] = "sent"
        /\ token[t] = "sent"
        /\ token[g] = "none"
        /\ \/ /\ token' = [token EXCEPT ![t] = "retired", ![g] = "fresh"]
              /\ Go(q, "completing", [seen[q] EXCEPT !.cred = g, !.token = g])
           \/ /\ token' = [token EXCEPT ![t] = "fresh", ![g] = "retired"]
              /\ Go(q, "completing", [seen[q] EXCEPT !.cred = g])
        /\ UNCHANGED <<storeVars, flowVars, refused, timeVars>>

\* Status refused, answer lost, identity changed: caught, the row removed.
RenewalFails(q) ==
    /\ pc[q] \in {"renewing", "sent", "completing"}
    /\ Go(q, "discarding", NoRow)
    /\ UNCHANGED <<storeVars, flowVars, providerVars, timeVars>>

\* The claim is read again, its owner compared, and its version replaced;
\* no other request writes a row that is under renewal.
CompleteRenewal(q) ==
    LET k == key[q]
        mine == Visible(k) /\ row[k].renew = seen[q].ver + 1
    IN  /\ pc[q] = "completing"
        /\ \/ /\ mine
              /\ Replace(k, row[k].ver, k, seen[q])
              /\ Overtake(k)
              /\ Go(q, "looking", NoRow)
           \/ /\ ~mine
              /\ Leave(q)
              /\ UNCHANGED <<row, missed>>
        /\ UNCHANGED <<issued, heir, flowVars, providerVars, timeVars>>

\* Mutant of Discard: the claim is handed back instead.
HandBack(q) ==
    LET k == key[q]
    IN  /\ pc[q] = "discarding"
        /\ row' = IF row[k] = NoRow THEN row ELSE [row EXCEPT ![k].renew = 0]
        /\ Leave(q)
        /\ UNCHANGED <<issued, heir, missed, flowVars, providerVars, timeVars>>

\* remove: by key, whatever has become of the row.
Discard(q) ==
    /\ pc[q] = "discarding"
    /\ Remove(key[q])
    /\ Leave(q)
    /\ UNCHANGED <<issued, heir, missed, flowVars, providerVars, timeVars>>

-----------------------------------------------------------------------------
(* Revalidation: validated, forward, invalidateCredential.                 *)

\* The API has answered on the identity of the credential in hand; the
\* session is read again.
Recheck(q) ==
    LET s == Current(key[q])
    IN  /\ pc[q] = "checking"
        /\ \/ s = NoRow /\ Leave(q) /\ UNCHANGED refused
           \/ /\ s # NoRow
              /\ s.renew # 0 \/ s.cred # seen[q].cred
              /\ Go(q, "looking", NoRow)
              /\ UNCHANGED refused
           \/ /\ s # NoRow
              /\ s.renew = 0 /\ s.cred = seen[q].cred
              /\ \/ Go(q, "forwarding", seen[q]) /\ UNCHANGED refused
                 \/ Go(q, "rejected", seen[q]) /\ refused' = refused \cup {seen[q].cred}
        /\ UNCHANGED <<storeVars, flowVars, token, timeVars>>

\* The request is forwarded, and the API refuses its credential.
ForwardRefused(q) ==
    /\ pc[q] = "forwarding"
    /\ refused' = refused \cup {seen[q].cred}
    /\ Go(q, "rejected", seen[q])
    /\ UNCHANGED <<storeVars, flowVars, token, timeVars>>

ReadRejected(q) ==
    LET s == Current(key[q])
        same == s # NoRow /\ s.renew = 0 /\ s.cred = seen[q].cred
    IN  /\ pc[q] = "rejected"
        /\ \/ same /\ Go(q, "invalidating", s)
           \/ ~same /\ Leave(q)
        /\ UNCHANGED <<storeVars, flowVars, providerVars, timeVars>>

Invalidate(q) ==
    LET k == key[q]
        v == seen[q].ver
    IN  /\ pc[q] = "invalidating"
        /\ \/ /\ CanReplace(k, v)
              /\ Replace(k, v, k, [seen[q] EXCEPT !.dead = TRUE])
              /\ Overtake(k)
           \/ ~CanReplace(k, v) /\ UNCHANGED <<row, missed>>
        /\ Leave(q)
        /\ UNCHANGED <<issued, heir, flowVars, providerVars, timeVars>>

-----------------------------------------------------------------------------
(* The passing of time.                                                    *)

\* The absolute end of a session, which no renewal moves.
SessionEnds(k) ==
    /\ Visible(k)
    /\ row' = [row EXCEPT ![k].dead = TRUE]
    /\ UNCHANGED <<issued, heir, missed, flowVars, providerVars, timeVars, requestVars>>

ClaimLapses(k) ==
    /\ row[k] # NoRow
    /\ row[k].renew # 0
    /\ ~Lapsed(k, row[k])
    /\ lapsed' = lapsed \cup {<<k, row[k].renew>>}
    /\ UNCHANGED <<storeVars, flowVars, providerVars, stale, requestVars>>

AccessAges(g) ==
    /\ \E k \in Keys : row[k] # NoRow /\ row[k].cred = g
    /\ g \notin stale
    /\ stale' = stale \cup {g}
    /\ UNCHANGED <<storeVars, flowVars, providerVars, lapsed, requestVars>>

FlowExpires(f) ==
    /\ flow[f] = "open"
    /\ flow' = [flow EXCEPT ![f] = "over"]
    /\ UNCHANGED <<storeVars, owner, code, providerVars, timeVars, requestVars>>

-----------------------------------------------------------------------------
KeyStep(k) == Bootstrap(k) \/ Logout(k) \/ SessionEnds(k) \/ ClaimLapses(k)

LoginStep(q) == \/ Consume(q) \/ SendCode(q) \/ Enter(q)
                \/ \E f \in Flows : Callback(q, f)
                \/ \E g \in Grants : CodeAnswered(q, g)
                \/ \E k \in Keys : Establish(q, k)

RenewalStep(q) == \/ Look(q) \/ Claim(q) \/ SendToken(q) \/ RenewalFails(q)
                  \/ CompleteRenewal(q) \/ Discard(q)
                  \/ \E g \in Grants : TokenAnswered(q, g)

CheckStep(q) == \/ Recheck(q) \/ ForwardRefused(q) \/ ReadRejected(q) \/ Invalidate(q)
                \/ \E k \in Keys : Arrive(q, k)

Next == \/ \E k \in Keys : KeyStep(k)
        \/ \E f \in Flows, k \in Keys : StartFlow(f, k)
        \/ \E f \in Flows : FlowExpires(f)
        \/ \E g \in Grants : AccessAges(g)
        \/ \E q \in Requests : LoginStep(q) \/ RenewalStep(q) \/ CheckStep(q) \/ Stop(q)

Spec == Init /\ [][Next]_vars

-----------------------------------------------------------------------------
(* Safety.                                                                 *)

\* A rotating refresh token is never exchanged twice, whichever instances
\* renew, crash or lose the provider's answer (the comment of usable).
TokenSentOnce == \A g \in Grants : token[g] # "resent"

\* The code of a login is never exchanged twice, whatever callbacks are
\* repeated (the comment of callback).
CodeSentOnce == \A f \in Flows : code[f] # "resent"

\* A session that is not under renewal holds a refresh token that still can
\* be exchanged: a renewal whose outcome is unknown never leaves a session
\* that looks sound.
StoredTokenIsFresh ==
    \A k \in Keys :
        row[k] # NoRow /\ row[k].renew = 0 /\ row[k].token # NoGrant
            => token[row[k].token] = "fresh"

\* A session is replaced by at most one login, concurrent ones included.
OneHeir ==
    \A k, l \in Keys : heir[k] # NoKey /\ heir[k] = heir[l] => k = l

\* A logout that was answered has ended its session (the tests "blocks replay"
\* and "does not resurrect a session after logout during refresh").
LogoutEnds == \A k \in missed : ~Visible(k)

(* Action properties.                                                      *)

Over(k) == k \in issued /\ (row[k] = NoRow \/ row[k].dead)

\* A session that was logged out, replaced, given up or invalidated is never
\* brought back by a request that had read it before.
EndedStaysEnded == [][\A k \in Keys : Over(k) => Over(k)']_vars

\* The API's refusal of an access token ends no session that has renewed it
\* in the meantime.
RefusalSparesRenewed ==
    [][\A k \in Keys :
          Visible(k) /\ row'[k] # NoRow /\ row'[k].dead /\ row'[k].ver # row[k].ver
              => row[k].cred \in refused]_vars
=============================================================================
