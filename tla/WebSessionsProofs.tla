------------------------- MODULE WebSessionsProofs -------------------------
(***************************************************************************)
(* What WebSessions keeps for any number of requests, sessions, logins and *)
(* grants.                                                                 *)
(***************************************************************************)
EXTENDS WebSessions, TLAPS

USE WebSessionsAssumption

(***************************************************************************)
(* Type correctness.  A request at work is about a session that was given  *)
(* to a browser, and has in hand what its phase needs.                     *)
(***************************************************************************)
Logging == {"consuming", "coding", "coded"}
Holding == {"claiming", "renewing", "sent", "completing", "entering", "exchanging"}
Reading == {"checking", "forwarding", "rejected", "invalidating"}

\* A session has a refresh token and a credential, or neither.
Whole(s) == s \in Row /\ (s.token # NoGrant <=> s.cred # NoGrant)

RowsWhole  == \A k \in Keys : row[k] # NoRow => k \in issued /\ Whole(row[k])
FlowsOwned == \A f \in Flows : flow[f] # "absent" => owner[f] \in issued
KeysKnown  == \A q \in Requests : pc[q] # "idle" => key[q] \in issued
FlowsKnown == \A q \in Requests : pc[q] \in Logging => at[q] \in Flows
HandsFull  ==
    \A q \in Requests :
        pc[q] \in Holding \cup Reading =>
            /\ Whole(seen[q])
            /\ seen[q].token # NoGrant
            /\ seen[q].renew = 0
            /\ ~seen[q].dead

TypeInv == TypeOK /\ RowsWhole /\ FlowsOwned /\ KeysKnown /\ FlowsKnown /\ HandsFull

LEMMA TypeInit == Init => TypeInv
  BY DEF Init, TypeInv, TypeOK, RowsWhole, FlowsOwned, KeysKnown, FlowsKnown, HandsFull,
     Logging, Holding, Reading, TokenState, Phase

LEMMA AnonymousWhole == Whole(Anonymous)
  BY DEF Whole, Anonymous, Row

LEMMA CurrentWhole ==
    ASSUME TypeInv, NEW k \in Keys, Current(k) # NoRow
    PROVE  /\ Current(k) = row[k]
           /\ k \in issued
           /\ Whole(row[k])
           /\ ~row[k].dead
  BY DEF TypeInv, RowsWhole, Current, Visible

\* The store after a replacement.
LEMMA ReplaceType ==
    ASSUME TypeInv, NEW k \in Keys, NEW v \in Nat, NEW l \in Keys, NEW s \in Row, Whole(s),
           Replace(k, v, l, s)
    PROVE  /\ row' \in [Keys -> Row \cup {NoRow}]
           /\ Whole(row'[l])
           /\ row'[l].ver = v + 1
           /\ row'[l].cred = s.cred /\ row'[l].token = s.token
           /\ row'[l].renew = s.renew /\ row'[l].dead = s.dead
           /\ k # l => row'[k] = NoRow
           /\ \A m \in Keys : m # k /\ m # l => row'[m] = row[m]
<1> DEFINE t == [s EXCEPT !.ver = v + 1]
<1>1. /\ t \in Row /\ t.ver = v + 1
      /\ t.cred = s.cred /\ t.token = s.token /\ t.renew = s.renew /\ t.dead = s.dead
  BY DEF Row
<1>2. Whole(t)
  BY <1>1 DEF Whole
<1>3. row' = [row EXCEPT ![k] = NoRow, ![l] = t]
  BY DEF Replace
<1> HIDE DEF t
<1>4. /\ row' \in [Keys -> Row \cup {NoRow}]
      /\ row'[l] = t
      /\ k # l => row'[k] = NoRow
      /\ \A m \in Keys : m # k /\ m # l => row'[m] = row[m]
  BY <1>1, <1>3 DEF TypeInv, TypeOK
<1> QED
  BY <1>1, <1>2, <1>4

LEMMA OvertakeType ==
    ASSUME TypeInv, NEW k \in Keys, Overtake(k) PROVE missed' \subseteq Keys
  BY DEF Overtake, TypeInv, TypeOK

\* A request that goes on keeps its session and its flow.
LEMMA GoType ==
    ASSUME TypeInv, NEW q \in Requests, pc[q] # "idle", NEW p \in Phase, NEW s, Go(q, p, s),
           \/ s = NoRow /\ p \notin Holding \cup Reading
           \/ Whole(s) /\ s.token # NoGrant /\ s.renew = 0 /\ ~s.dead,
           p \in Logging => pc[q] \in Logging,
           issued' = issued
    PROVE  /\ pc' \in [Requests -> Phase]
           /\ key' \in [Requests -> Keys \cup {NoKey}]
           /\ at' \in [Requests -> Flows \cup {NoFlow}]
           /\ seen' \in [Requests -> Row \cup {NoRow}]
           /\ KeysKnown' /\ FlowsKnown' /\ HandsFull'
  BY DEF TypeInv, TypeOK, Go, KeysKnown, FlowsKnown, HandsFull, Whole

LEMMA LeaveType ==
    ASSUME TypeInv, NEW q \in Requests, Leave(q), issued \subseteq issued'
    PROVE  /\ pc' \in [Requests -> Phase]
           /\ key' \in [Requests -> Keys \cup {NoKey}]
           /\ at' \in [Requests -> Flows \cup {NoFlow}]
           /\ seen' \in [Requests -> Row \cup {NoRow}]
           /\ KeysKnown' /\ FlowsKnown' /\ HandsFull'
  BY DEF TypeInv, TypeOK, Leave, KeysKnown, FlowsKnown, HandsFull, Whole,
     Logging, Holding, Reading, Phase

LEMMA TypeKeyStep ==
    ASSUME TypeInv, NEW k \in Keys, KeyStep(k) PROVE TypeInv'
<1>1. CASE Bootstrap(k)
  <2>1. \A l \in Keys : row'[l] = (IF l = k THEN Anonymous ELSE Current(l))
    BY <1>1 DEF Bootstrap, Swept
  <2>2. row' \in [Keys -> Row \cup {NoRow}]
    BY <1>1, AnonymousWhole DEF Bootstrap, Swept, Current, TypeInv, TypeOK, Whole
  <2>3. RowsWhole'
    BY <1>1, <2>1, AnonymousWhole, CurrentWhole DEF Bootstrap, RowsWhole, Whole
  <2> QED
    BY <1>1, <2>2, <2>3 DEF Bootstrap, TypeInv, TypeOK, FlowsOwned, KeysKnown, FlowsKnown,
       HandsFull, Whole, flowVars, providerVars, timeVars, requestVars
<1>2. CASE Logout(k)
  BY <1>2 DEF Logout, Remove, TypeInv, TypeOK, RowsWhole, FlowsOwned, KeysKnown, FlowsKnown,
     HandsFull, Whole, flowVars, providerVars, timeVars, requestVars
<1>3. CASE SessionEnds(k)
  <2>1. Whole(row[k]) /\ k \in issued
    BY <1>3 DEF SessionEnds, Visible, TypeInv, RowsWhole
  <2>2. Whole([row[k] EXCEPT !.dead = TRUE])
    BY <2>1 DEF Whole, Row
  <2> QED
    BY <1>3, <2>1, <2>2 DEF SessionEnds, TypeInv, TypeOK, RowsWhole, FlowsOwned, KeysKnown,
       FlowsKnown, HandsFull, Whole, flowVars, providerVars, timeVars, requestVars
<1>4. CASE ClaimLapses(k)
  <2>1. row[k].renew \in Nat
    BY <1>4 DEF ClaimLapses, TypeInv, TypeOK, Row
  <2> QED
    BY <1>4, <2>1 DEF ClaimLapses, TypeInv, TypeOK, RowsWhole, FlowsOwned, KeysKnown, FlowsKnown,
       HandsFull, Whole, storeVars, flowVars, providerVars, requestVars
<1> QED
  BY <1>1, <1>2, <1>3, <1>4 DEF KeyStep

LEMMA TypeFlowStep ==
    ASSUME TypeInv, NEW f \in Flows,
           FlowExpires(f) \/ \E k \in Keys : StartFlow(f, k)
    PROVE  TypeInv'
<1>1. CASE FlowExpires(f)
  BY <1>1 DEF FlowExpires, TypeInv, TypeOK, RowsWhole, FlowsOwned, KeysKnown, FlowsKnown,
     HandsFull, Whole, storeVars, providerVars, timeVars, requestVars
<1>2. ASSUME NEW k \in Keys, StartFlow(f, k) PROVE TypeInv'
  <2>1. \A l \in Keys : row'[l] = Current(l)
    BY <1>2 DEF StartFlow, Swept
  <2>2. row' \in [Keys -> Row \cup {NoRow}]
    BY <1>2 DEF StartFlow, Swept, Current, TypeInv, TypeOK
  <2>3. RowsWhole'
    BY <1>2, <2>1, CurrentWhole DEF StartFlow, RowsWhole, Whole
  <2>4. k \in issued
    BY <1>2 DEF StartFlow, Visible, TypeInv, RowsWhole
  <2> QED
    BY <1>2, <2>2, <2>3, <2>4 DEF StartFlow, TypeInv, TypeOK, FlowsOwned, KeysKnown, FlowsKnown,
       HandsFull, Whole, providerVars, timeVars, requestVars
<1> QED
  BY <1>1, <1>2

LEMMA TypeLoginStep ==
    ASSUME TypeInv, NEW q \in Requests, LoginStep(q) PROVE TypeInv'
<1>1. CASE Consume(q)
  <2>1. at[q] \in Flows /\ pc[q] \in Logging
    BY <1>1 DEF Consume, TypeInv, FlowsKnown, Logging
  <2>2. flow' \in [Flows -> {"absent", "open", "over"}] /\ FlowsOwned'
    BY <1>1, <2>1 DEF Consume, TypeInv, TypeOK, FlowsOwned, storeVars
  <2>3. CASE Go(q, "coding", NoRow)
    BY <1>1, <2>1, <2>2, <2>3, GoType DEF Consume, TypeInv, TypeOK, RowsWhole, Whole, storeVars,
       providerVars, timeVars, Phase, Logging, Holding, Reading
  <2>4. CASE Leave(q)
    BY <1>1, <2>2, <2>4, LeaveType DEF Consume, TypeInv, TypeOK, RowsWhole, Whole, storeVars,
       providerVars, timeVars
  <2> QED
    BY <1>1, <2>3, <2>4 DEF Consume
<1>2. CASE SendCode(q)
  <2>1. at[q] \in Flows /\ pc[q] \in Logging
    BY <1>2 DEF SendCode, TypeInv, FlowsKnown, Logging
  <2> QED
    BY <1>2, <2>1, GoType DEF SendCode, TypeInv, TypeOK, RowsWhole, FlowsOwned, Whole, storeVars,
       providerVars, timeVars, Phase, Logging, Holding, Reading
<1>3. CASE Enter(q)
  <2>1. key[q] \in Keys /\ row[key[q]] \in Row
    BY <1>3 DEF Enter, TypeInv, TypeOK, KeysKnown, Visible
  <2>2. /\ Whole(seen[q]) /\ seen[q].token # NoGrant
        /\ seen[q].renew = 0 /\ ~seen[q].dead
    BY <1>3 DEF Enter, TypeInv, HandsFull, Holding
  <2> DEFINE s == [seen[q] EXCEPT !.ver = row[key[q]].ver]
  <2>3. Whole(s) /\ s.token # NoGrant /\ s.renew = 0 /\ ~s.dead
    BY <2>1, <2>2 DEF Whole, Row
  <2>4. Go(q, "exchanging", s)
    BY <1>3 DEF Enter
  <2> HIDE DEF s
  <2> QED
    BY <1>3, <2>3, <2>4, GoType DEF Enter, TypeInv, TypeOK, RowsWhole, FlowsOwned, Whole,
       storeVars, flowVars, providerVars, timeVars, Phase, Logging
<1>4. ASSUME NEW f \in Flows, Callback(q, f) PROVE TypeInv'
  <2>1. owner[f] \in issued
    BY <1>4 DEF Callback, TypeInv, FlowsOwned
  <2> QED
    BY <1>4, <2>1 DEF Callback, TypeInv, TypeOK, RowsWhole, FlowsOwned, KeysKnown, FlowsKnown,
       HandsFull, Whole, storeVars, flowVars, providerVars, timeVars, Phase, Logging, Holding,
       Reading
<1>5. ASSUME NEW g \in Grants, CodeAnswered(q, g) PROVE TypeInv'
  <2> DEFINE s == [Anonymous EXCEPT !.cred = g, !.token = g]
  <2>1. Whole(s) /\ s.token # NoGrant /\ s.renew = 0 /\ ~s.dead
    BY DEF Whole, Anonymous, Row
  <2>2. Go(q, "entering", s)
    BY <1>5 DEF CodeAnswered
  <2> HIDE DEF s
  <2> QED
    BY <1>5, <2>1, <2>2, GoType DEF CodeAnswered, TypeInv, TypeOK, RowsWhole, FlowsOwned, Whole,
       storeVars, flowVars, timeVars, Phase, Logging, TokenState
<1>6. ASSUME NEW k \in Keys, Establish(q, k) PROVE TypeInv'
  <2>1. key[q] \in Keys /\ Whole(seen[q]) /\ seen[q].ver \in Nat
    BY <1>6 DEF Establish, TypeInv, TypeOK, KeysKnown, HandsFull, Holding, Whole, Row
  <2>2. Replace(key[q], seen[q].ver, k, seen[q])
    BY <1>6 DEF Establish
  <2>3. /\ row' \in [Keys -> Row \cup {NoRow}]
        /\ Whole(row'[k])
        /\ \A m \in Keys : m # k => row'[m] = NoRow \/ row'[m] = row[m]
    <3>1. seen[q] \in Row
      BY <2>1 DEF Whole
    <3> QED
      BY <2>1, <2>2, <3>1, ReplaceType
  <2>4. RowsWhole'
    BY <1>6, <2>3 DEF Establish, TypeInv, RowsWhole, Whole
  <2> QED
    BY <1>6, <2>1, <2>3, <2>4, LeaveType DEF Establish, TypeInv, TypeOK, FlowsOwned,
       flowVars, providerVars, timeVars
<1> QED
  BY <1>1, <1>2, <1>3, <1>4, <1>5, <1>6 DEF LoginStep

LEMMA TypeRenewalStep ==
    ASSUME TypeInv, NEW q \in Requests, RenewalStep(q) PROVE TypeInv'
<1> DEFINE k == key[q]
<1>0. pc[q] # "idle" => k \in Keys /\ k \in issued
  BY DEF TypeInv, TypeOK, KeysKnown
<1> HIDE DEF k
<1>h. pc[q] \in Holding \cup Reading =>
          /\ Whole(seen[q]) /\ seen[q] \in Row /\ seen[q].token # NoGrant
          /\ seen[q].cred # NoGrant /\ seen[q].renew = 0 /\ ~seen[q].dead
          /\ seen[q].ver \in Nat
  BY DEF TypeInv, HandsFull, Whole, Row
<1>1. CASE Look(q)
  <2>1. /\ UNCHANGED <<storeVars, flowVars, providerVars, timeVars>>
        /\ pc[q] = "looking"
    BY <1>1 DEF Look
  <2>2. CASE Leave(q)
    BY <2>1, <2>2, LeaveType DEF TypeInv, TypeOK, RowsWhole, FlowsOwned, Whole, storeVars,
       flowVars, providerVars, timeVars
  <2>3. CASE Go(q, "discarding", NoRow)
    BY <2>1, <2>3, GoType DEF TypeInv, TypeOK, RowsWhole, FlowsOwned, Whole, storeVars,
       flowVars, providerVars, timeVars, Phase, Logging, Holding, Reading
  <2>4. ASSUME NEW p \in {"claiming", "checking"}, Go(q, p, Current(k)),
               Current(k) # NoRow, Current(k).token # NoGrant, Current(k).renew = 0
        PROVE  TypeInv'
    <3>1. Whole(Current(k)) /\ ~Current(k).dead
      BY <1>0, <2>1, <2>4, CurrentWhole
    <3> QED
      BY <2>1, <2>4, <3>1, GoType DEF TypeInv, TypeOK, RowsWhole, FlowsOwned, Whole, storeVars,
         flowVars, providerVars, timeVars, Phase, Logging
  <2> QED
    BY <1>1, <2>2, <2>3, <2>4 DEF Look, k
<1>2. CASE Claim(q)
  <2>1. pc[q] = "claiming" /\ pc[q] \in Holding
    BY <1>2 DEF Claim, Holding
  <2>i. /\ UNCHANGED <<issued, heir, flowVars, providerVars, timeVars>>
        /\ missed' \subseteq Keys
    BY <1>0, <1>2, <2>1, OvertakeType DEF Claim, k, TypeInv, TypeOK
  <2>2. CASE Replace(k, seen[q].ver, k, [seen[q] EXCEPT !.renew = seen[q].ver + 1])
             /\ Go(q, "renewing", seen[q])
    <3> DEFINE s == [seen[q] EXCEPT !.renew = seen[q].ver + 1]
    <3>1. s \in Row /\ Whole(s)
      BY <1>h, <2>1 DEF Whole, Row
    <3> HIDE DEF s
    <3>2. Replace(k, seen[q].ver, k, s)
      BY <2>2 DEF s
    <3>3. /\ row' \in [Keys -> Row \cup {NoRow}]
          /\ Whole(row'[k])
          /\ \A m \in Keys : m # k => row'[m] = row[m]
      BY <1>0, <1>h, <2>1, <3>1, <3>2, ReplaceType
    <3>4. RowsWhole'
      BY <1>0, <2>1, <2>i, <3>3 DEF TypeInv, RowsWhole, Whole
    <3> QED
      BY <1>h, <2>1, <2>2, <2>i, <3>3, <3>4, GoType DEF TypeInv, TypeOK, FlowsOwned,
         flowVars, providerVars, timeVars, Phase, Logging
  <2>3. CASE Go(q, "looking", NoRow) /\ UNCHANGED row
    BY <2>1, <2>3, <2>i, GoType DEF TypeInv, TypeOK, RowsWhole, FlowsOwned, Whole,
       flowVars, providerVars, timeVars, Phase, Logging, Holding, Reading
  <2> QED
    BY <1>2, <2>2, <2>3 DEF Claim, k
<1>3. CASE SendToken(q)
  <2>1. pc[q] = "renewing" /\ pc[q] \in Holding
    BY <1>3 DEF SendToken, Holding
  <2>2. token' \in [Grants -> TokenState]
    BY <1>3 DEF SendToken, TypeInv, TypeOK, TokenState
  <2> QED
    BY <1>3, <1>h, <2>1, <2>2, GoType DEF SendToken, TypeInv, TypeOK, RowsWhole, FlowsOwned,
       Whole, storeVars, flowVars, timeVars, Phase, Logging
<1>4. CASE RenewalFails(q)
  BY <1>4, GoType DEF RenewalFails, TypeInv, TypeOK, RowsWhole, FlowsOwned, Whole,
     storeVars, flowVars, providerVars, timeVars, Phase, Logging, Holding, Reading
<1>5. CASE CompleteRenewal(q)
  <2>1. pc[q] = "completing" /\ pc[q] \in Holding
    BY <1>5 DEF CompleteRenewal, Holding
  <2>i. /\ UNCHANGED <<issued, heir, flowVars, providerVars, timeVars>>
        /\ missed' \subseteq Keys
    BY <1>0, <1>5, <2>1, OvertakeType DEF CompleteRenewal, k, TypeInv, TypeOK
  <2>2. CASE /\ Visible(k) /\ Replace(k, row[k].ver, k, seen[q])
             /\ Go(q, "looking", NoRow)
    <3>1. row[k].ver \in Nat
      BY <1>0, <2>1, <2>2 DEF Visible, TypeInv, TypeOK, Row
    <3>2. /\ row' \in [Keys -> Row \cup {NoRow}]
          /\ Whole(row'[k])
          /\ \A m \in Keys : m # k => row'[m] = row[m]
      BY <1>0, <1>h, <2>1, <2>2, <3>1, ReplaceType
    <3>3. RowsWhole'
      BY <1>0, <2>1, <2>i, <3>2 DEF TypeInv, RowsWhole, Whole
    <3> QED
      BY <2>1, <2>2, <2>i, <3>2, <3>3, GoType DEF TypeInv, TypeOK, FlowsOwned,
         flowVars, providerVars, timeVars, Phase, Logging, Holding, Reading
  <2>3. CASE Leave(q) /\ UNCHANGED row
    BY <2>3, <2>i, LeaveType DEF TypeInv, TypeOK, RowsWhole, FlowsOwned, Whole,
       flowVars, providerVars, timeVars
  <2> QED
    BY <1>5, <2>2, <2>3 DEF CompleteRenewal, k
<1>6. CASE Discard(q)
  BY <1>6, LeaveType DEF Discard, Remove, TypeInv, TypeOK, RowsWhole, FlowsOwned, Whole,
     flowVars, providerVars, timeVars
<1>7. ASSUME NEW g \in Grants, TokenAnswered(q, g) PROVE TypeInv'
  <2>1. pc[q] = "sent" /\ pc[q] \in Holding
    BY <1>7 DEF TokenAnswered, Holding
  <2>2. token' \in [Grants -> TokenState]
    BY <1>7 DEF TokenAnswered, TypeInv, TypeOK, TokenState
  <2>3. ASSUME NEW t \in Grants, Go(q, "completing", [seen[q] EXCEPT !.cred = g, !.token = t])
        PROVE  TypeInv'
    <3> DEFINE s == [seen[q] EXCEPT !.cred = g, !.token = t]
    <3>1. Whole(s) /\ s.token # NoGrant /\ s.renew = 0 /\ ~s.dead
      BY <1>h, <2>1 DEF Whole, Row
    <3>2. Go(q, "completing", s)
      BY <2>3
    <3> HIDE DEF s
    <3> QED
      BY <1>7, <2>1, <2>2, <3>1, <3>2, GoType DEF TokenAnswered, TypeInv, TypeOK, RowsWhole,
         FlowsOwned, Whole, storeVars, flowVars, timeVars, Phase, Logging
  <2>4. seen[q].token \in Grants
        /\ [seen[q] EXCEPT !.cred = g] = [seen[q] EXCEPT !.cred = g, !.token = seen[q].token]
    BY <1>h, <2>1 DEF Row
  <2> QED
    BY <1>7, <2>3, <2>4 DEF TokenAnswered
<1> QED
  BY <1>1, <1>2, <1>3, <1>4, <1>5, <1>6, <1>7 DEF RenewalStep

LEMMA TypeCheckStep ==
    ASSUME TypeInv, NEW q \in Requests, CheckStep(q) PROVE TypeInv'
<1> DEFINE k == key[q]
<1>0. pc[q] # "idle" => k \in Keys /\ k \in issued
  BY DEF TypeInv, TypeOK, KeysKnown
<1> HIDE DEF k
<1>h. pc[q] \in Reading =>
          /\ Whole(seen[q]) /\ seen[q] \in Row /\ seen[q].token # NoGrant
          /\ seen[q].cred \in Grants /\ seen[q].renew = 0 /\ ~seen[q].dead
          /\ seen[q].ver \in Nat
  BY DEF TypeInv, HandsFull, Whole, Row
<1>1. CASE Recheck(q)
  <2>1. pc[q] = "checking" /\ pc[q] \in Reading
    BY <1>1 DEF Recheck, Reading
  <2>2. refused' \subseteq Grants
    BY <1>1, <1>h, <2>1 DEF Recheck, TypeInv, TypeOK
  <2>3. CASE Leave(q)
    BY <1>1, <2>2, <2>3, LeaveType DEF Recheck, TypeInv, TypeOK, RowsWhole, FlowsOwned, Whole,
       storeVars, flowVars, timeVars
  <2>4. CASE Go(q, "looking", NoRow)
    BY <1>1, <2>1, <2>2, <2>4, GoType DEF Recheck, TypeInv, TypeOK, RowsWhole, FlowsOwned, Whole,
       storeVars, flowVars, timeVars, Phase, Logging, Holding, Reading
  <2>5. ASSUME NEW p \in {"forwarding", "rejected"}, Go(q, p, seen[q]) PROVE TypeInv'
    BY <1>1, <1>h, <2>1, <2>2, <2>5, GoType DEF Recheck, TypeInv, TypeOK, RowsWhole, FlowsOwned,
       Whole, storeVars, flowVars, timeVars, Phase, Logging
  <2> QED
    BY <1>1, <2>3, <2>4, <2>5 DEF Recheck
<1>2. CASE ForwardRefused(q)
  <2>1. pc[q] = "forwarding" /\ pc[q] \in Reading
    BY <1>2 DEF ForwardRefused, Reading
  <2> QED
    BY <1>2, <1>h, <2>1, GoType DEF ForwardRefused, TypeInv, TypeOK, RowsWhole, FlowsOwned,
       Whole, storeVars, flowVars, timeVars, Phase, Logging
<1>3. CASE ReadRejected(q)
  <2>1. /\ UNCHANGED <<storeVars, flowVars, providerVars, timeVars>>
        /\ pc[q] = "rejected" /\ pc[q] \in Reading
    BY <1>3 DEF ReadRejected, Reading
  <2>2. CASE Leave(q)
    BY <2>1, <2>2, LeaveType DEF TypeInv, TypeOK, RowsWhole, FlowsOwned, Whole, storeVars,
       flowVars, providerVars, timeVars
  <2>3. CASE /\ Current(k) # NoRow /\ Current(k).renew = 0 /\ Current(k).cred = seen[q].cred
             /\ Go(q, "invalidating", Current(k))
    <3>1. Whole(Current(k)) /\ ~Current(k).dead
      BY <1>0, <2>1, <2>3, CurrentWhole
    <3>2. Current(k).token # NoGrant
      BY <1>h, <2>1, <2>3, <3>1 DEF Whole, Row
    <3> QED
      BY <2>1, <2>3, <3>1, <3>2, GoType DEF TypeInv, TypeOK, RowsWhole, FlowsOwned, Whole,
         storeVars, flowVars, providerVars, timeVars, Phase, Logging
  <2> QED
    BY <1>3, <2>2, <2>3 DEF ReadRejected, k
<1>4. CASE Invalidate(q)
  <2>1. pc[q] = "invalidating" /\ pc[q] \in Reading
    BY <1>4 DEF Invalidate, Reading
  <2>i. /\ Leave(q) /\ UNCHANGED <<issued, heir, flowVars, providerVars, timeVars>>
        /\ missed' \subseteq Keys
    BY <1>0, <1>4, <2>1, OvertakeType DEF Invalidate, k, TypeInv, TypeOK
  <2>2. row' \in [Keys -> Row \cup {NoRow}] /\ RowsWhole'
    <3>1. CASE Replace(k, seen[q].ver, k, [seen[q] EXCEPT !.dead = TRUE])
      <4> DEFINE s == [seen[q] EXCEPT !.dead = TRUE]
      <4>1. s \in Row /\ Whole(s)
        BY <1>h, <2>1 DEF Whole, Row
      <4> HIDE DEF s
      <4>2. Replace(k, seen[q].ver, k, s)
        BY <3>1 DEF s
      <4>3. /\ row' \in [Keys -> Row \cup {NoRow}]
            /\ Whole(row'[k])
            /\ \A m \in Keys : m # k => row'[m] = row[m]
        BY <1>0, <1>h, <2>1, <4>1, <4>2, ReplaceType
      <4> QED
        BY <1>0, <2>1, <2>i, <4>3 DEF TypeInv, RowsWhole, Whole
    <3>2. CASE UNCHANGED row
      BY <2>i, <3>2 DEF TypeInv, TypeOK, RowsWhole, Whole
    <3> QED
      BY <1>4, <3>1, <3>2 DEF Invalidate, k
  <2> QED
    BY <2>2, <2>i, LeaveType DEF TypeInv, TypeOK, FlowsOwned, flowVars, providerVars, timeVars
<1>5. ASSUME NEW l \in Keys, Arrive(q, l) PROVE TypeInv'
  BY <1>5 DEF Arrive, TypeInv, TypeOK, RowsWhole, FlowsOwned, KeysKnown, FlowsKnown, HandsFull,
     Whole, storeVars, flowVars, providerVars, timeVars, Phase, Logging, Holding, Reading
<1> QED
  BY <1>1, <1>2, <1>3, <1>4, <1>5 DEF CheckStep

LEMMA TypeStep == TypeInv /\ [Next]_vars => TypeInv'
<1> SUFFICES ASSUME TypeInv, [Next]_vars PROVE TypeInv'
  OBVIOUS
<1>1. ASSUME NEW q \in Requests, Stop(q) PROVE TypeInv'
  BY <1>1, LeaveType DEF Stop, TypeInv, TypeOK, RowsWhole, FlowsOwned, Whole, storeVars,
     flowVars, providerVars, timeVars
<1>2. ASSUME NEW g \in Grants, AccessAges(g) PROVE TypeInv'
  BY <1>2 DEF AccessAges, TypeInv, TypeOK, RowsWhole, FlowsOwned, KeysKnown, FlowsKnown,
     HandsFull, Whole, storeVars, flowVars, providerVars, requestVars
<1>3. CASE UNCHANGED vars
  BY <1>3 DEF TypeInv, TypeOK, RowsWhole, FlowsOwned, KeysKnown, FlowsKnown, HandsFull, Whole,
     vars, storeVars, flowVars, providerVars, timeVars, requestVars
<1> QED
  BY <1>1, <1>2, <1>3, TypeKeyStep, TypeFlowStep, TypeLoginStep, TypeRenewalStep, TypeCheckStep
     DEF Next

\* Every variable keeps its type, and a request at work is about a session
\* that was given to a browser.
THEOREM TypeInvariant == Spec => []TypeInv
<1> QED
  BY TypeInit, TypeStep, PTL DEF Spec

\* Every variable of the sessions, the flows and the requests keeps its type.
THEOREM TypeCorrect == Spec => []TypeOK
<1>1. TypeInv => TypeOK
  BY DEF TypeInv
<1> QED
  BY <1>1, TypeInvariant, PTL

(***************************************************************************)
(* What a step does to the row of a session: nothing, its deletion, its    *)
(* end, or a replacement with a later version, which ends it only for a    *)
(* refused credential.  An ended session can only be deleted.              *)
(***************************************************************************)
Invalidated(k) ==
    \E q \in Requests : pc[q] = "invalidating" /\ key[q] = k /\ CanReplace(k, seen[q].ver)

Kept(k) ==
    \/ row'[k] = row[k]
    \/ row'[k] = NoRow
    \/ /\ Visible(k)
       /\ row'[k] \in Row
       /\ \/ row'[k].ver = row[k].ver /\ row'[k].dead
          \/ row'[k].ver > row[k].ver /\ (row'[k].dead => Invalidated(k))

AllKept == issued \subseteq issued' /\ \A k \in issued : Kept(k)

LEMMA ReplaceKept ==
    ASSUME TypeInv, NEW k \in Keys, NEW l \in Keys, NEW s \in Row, Whole(s),
           CanReplace(k, row[k].ver), Replace(k, row[k].ver, l, s), l = k \/ l \notin issued,
           s.dead => Invalidated(k), issued \subseteq issued'
    PROVE  AllKept
<1>1. row[k] \in Row /\ row[k].ver \in Nat /\ Visible(k)
  BY DEF CanReplace, Visible, TypeInv, TypeOK, Row
<1>2. /\ row'[l] \in Row /\ row'[l].ver = row[k].ver + 1 /\ row'[l].dead = s.dead
      /\ k # l => row'[k] = NoRow
      /\ \A m \in Keys : m # k /\ m # l => row'[m] = row[m]
  BY <1>1, ReplaceType DEF Whole
<1>3. issued \subseteq Keys
  BY DEF TypeInv, TypeOK
<1> QED
  BY <1>1, <1>2, <1>3 DEF AllKept, Kept

LEMMA RowStep == TypeInv /\ [Next]_vars => AllKept
<1> SUFFICES ASSUME TypeInv, [Next]_vars PROVE AllKept
  OBVIOUS
<1>0. /\ row \in [Keys -> Row \cup {NoRow}] /\ issued \subseteq Keys
      /\ \A q \in Requests : pc[q] # "idle" => key[q] \in issued /\ key[q] \in Keys
      /\ \A q \in Requests : pc[q] \in Holding \cup Reading =>
             Whole(seen[q]) /\ seen[q] \in Row /\ ~seen[q].dead /\ seen[q].ver \in Nat
  BY DEF TypeInv, TypeOK, KeysKnown, HandsFull, Whole, Row
<1>1. ASSUME NEW k \in Keys, KeyStep(k) PROVE AllKept
  <2>1. CASE SessionEnds(k)
    <3>1. row[k] \in Row
      BY <1>0, <2>1 DEF SessionEnds, Visible
    <3> DEFINE t == [row[k] EXCEPT !.dead = TRUE]
    <3>2. t \in Row /\ t.ver = row[k].ver /\ t.dead
      BY <3>1 DEF Row
    <3>3. row' = [row EXCEPT ![k] = t] /\ Visible(k) /\ issued' = issued
      BY <2>1 DEF SessionEnds
    <3> HIDE DEF t
    <3> QED
      BY <1>0, <3>2, <3>3 DEF AllKept, Kept
  <2> QED
    BY <1>0, <1>1, <2>1 DEF KeyStep, Bootstrap, Logout, ClaimLapses, Swept, Current, Remove,
       AllKept, Kept, storeVars
<1>2. ASSUME NEW f \in Flows, FlowExpires(f) \/ \E k \in Keys : StartFlow(f, k) PROVE AllKept
  BY <1>0, <1>2 DEF FlowExpires, StartFlow, Swept, Current, AllKept, Kept, storeVars
<1>3. ASSUME NEW q \in Requests, NEW k \in Keys, Establish(q, k) PROVE AllKept
  <2>1. pc[q] \in Holding /\ key[q] \in Keys
    BY <1>0, <1>3 DEF Establish, Holding
  <2> QED
    BY <1>0, <1>3, <2>1, ReplaceKept DEF Establish, CanReplace
<1>4. ASSUME NEW q \in Requests, Claim(q) PROVE AllKept
  <2>1. pc[q] \in Holding /\ key[q] \in Keys
    BY <1>0, <1>4 DEF Claim, Holding
  <2> DEFINE s == [seen[q] EXCEPT !.renew = seen[q].ver + 1]
  <2>2. s \in Row /\ Whole(s) /\ ~s.dead
    BY <1>0, <2>1 DEF Whole, Row
  <2>3. \/ CanReplace(key[q], row[key[q]].ver) /\ Replace(key[q], row[key[q]].ver, key[q], s)
        \/ UNCHANGED row
    BY <1>4 DEF Claim, CanReplace
  <2> HIDE DEF s
  <2>4. CASE UNCHANGED row
    BY <1>4, <2>4 DEF Claim, AllKept, Kept
  <2> QED
    BY <1>4, <2>1, <2>2, <2>3, <2>4, ReplaceKept DEF Claim
<1>5. ASSUME NEW q \in Requests, CompleteRenewal(q) PROVE AllKept
  <2>1. pc[q] \in Holding /\ key[q] \in Keys
    BY <1>0, <1>5 DEF CompleteRenewal, Holding
  <2>2. CASE UNCHANGED row
    BY <1>5, <2>2 DEF CompleteRenewal, AllKept, Kept
  <2> QED
    BY <1>0, <1>5, <2>1, <2>2, ReplaceKept DEF CompleteRenewal, CanReplace
<1>6. ASSUME NEW q \in Requests, Invalidate(q) PROVE AllKept
  <2>1. pc[q] \in Reading /\ key[q] \in Keys
    BY <1>0, <1>6 DEF Invalidate, Reading
  <2> DEFINE s == [seen[q] EXCEPT !.dead = TRUE]
  <2>2. s \in Row /\ Whole(s)
    BY <1>0, <2>1 DEF Whole, Row
  <2>3. \/ /\ CanReplace(key[q], row[key[q]].ver) /\ Invalidated(key[q])
           /\ Replace(key[q], row[key[q]].ver, key[q], s)
        \/ UNCHANGED row
    BY <1>6 DEF Invalidate, CanReplace, Invalidated
  <2> HIDE DEF s
  <2>4. CASE UNCHANGED row
    BY <1>6, <2>4 DEF Invalidate, AllKept, Kept
  <2> QED
    BY <1>6, <2>1, <2>2, <2>3, <2>4, ReplaceKept DEF Invalidate
<1>7. ASSUME NEW q \in Requests, Discard(q) PROVE AllKept
  BY <1>0, <1>7 DEF Discard, Remove, AllKept, Kept
<1>8. CASE UNCHANGED <<row, issued>>
  BY <1>8 DEF AllKept, Kept
<1> QED
  BY <1>1, <1>2, <1>3, <1>4, <1>5, <1>6, <1>7, <1>8
     DEF Next, LoginStep, RenewalStep, CheckStep, Consume, SendCode, Enter, Callback, CodeAnswered,
     Look, SendToken, RenewalFails, TokenAnswered, Recheck, ForwardRefused, ReadRejected, Arrive,
     Stop, AccessAges, vars, storeVars

\* A session that was logged out, replaced, given up or invalidated is never
\* brought back.
THEOREM EndedSessionsStayEnded == Spec => EndedStaysEnded
<1>1. TypeInv /\ [Next]_vars => \A k \in Keys : Over(k) => Over(k)'
  BY RowStep DEF AllKept, Kept, Over, Visible
<1> QED
  BY <1>1, TypeInvariant, PTL DEF Spec, EndedStaysEnded

\* What a login has replaced is gone for good, and a session replaces at most
\* one other.
HeirInv ==
    /\ \A k \in Keys : heir[k] # NoKey => k \in issued /\ heir[k] \in issued /\ row[heir[k]] = NoRow
    /\ OneHeir

LEMMA HeirStep == TypeInv /\ HeirInv /\ [Next]_vars => HeirInv'
<1> SUFFICES ASSUME TypeInv, HeirInv, [Next]_vars PROVE HeirInv'
  OBVIOUS
<1>0. /\ issued \subseteq issued'
      /\ \A k \in issued : row[k] = NoRow => row'[k] = NoRow
  BY RowStep DEF AllKept, Kept, Visible
<1>1. CASE UNCHANGED heir
  BY <1>0, <1>1 DEF HeirInv, OneHeir
<1>2. ASSUME NEW q \in Requests, NEW k \in Keys, Establish(q, k) PROVE HeirInv'
  <2>1. /\ key[q] \in issued /\ key[q] \in Keys /\ row[key[q]] # NoRow
        /\ k \notin issued /\ k \in issued'
        /\ Whole(seen[q]) /\ seen[q] \in Row /\ seen[q].ver \in Nat
    BY <1>2 DEF Establish, CanReplace, Visible, TypeInv, TypeOK, KeysKnown, HandsFull, Holding,
       Whole, Row
  <2>2. row'[key[q]] = NoRow
    BY <1>2, <2>1, ReplaceType DEF Establish
  <2>3. \A l \in Keys : heir'[l] = IF l = k THEN key[q] ELSE heir[l]
    BY <1>2 DEF Establish, TypeInv, TypeOK
  <2>4. \A l \in Keys : heir'[l] # NoKey =>
            l \in issued' /\ heir'[l] \in issued' /\ row'[heir'[l]] = NoRow
    BY <1>0, <2>1, <2>2, <2>3 DEF HeirInv
  <2>5. \A l \in Keys : l # k => heir'[l] # key[q]
    BY <2>1, <2>3 DEF HeirInv
  <2> QED
    BY <2>3, <2>4, <2>5 DEF HeirInv, OneHeir
<1>3. (\E q \in Requests, k \in Keys : Establish(q, k)) \/ UNCHANGED heir
  BY DEF Next, KeyStep, Bootstrap, Logout, SessionEnds, ClaimLapses, StartFlow, FlowExpires,
     AccessAges, Stop, LoginStep, Consume, SendCode, Enter, Callback, CodeAnswered, RenewalStep,
     Look, Claim, SendToken, RenewalFails, CompleteRenewal, Discard, TokenAnswered, CheckStep,
     Recheck, ForwardRefused, ReadRejected, Invalidate, Arrive, vars, storeVars
<1> QED
  BY <1>1, <1>2, <1>3

\* A session is replaced by at most one login.
THEOREM OneLoginReplaces == Spec => []OneHeir
<1>1. Init => HeirInv
  BY DEF Init, HeirInv, OneHeir
<1>2. HeirInv => OneHeir
  BY DEF HeirInv
<1> QED
  BY <1>1, <1>2, HeirStep, TypeInvariant, PTL DEF Spec

(***************************************************************************)
(* The code of a login.                                                    *)
(***************************************************************************)

\* The flow of a request that has consumed it is over and has no other such
\* request; until then its code is unsent.
CodeInv ==
    /\ \A f \in Flows : flow[f] # "over" => code[f] = "unsent"
    /\ \A q \in Requests : pc[q] = "coding" => flow[at[q]] = "over" /\ code[at[q]] = "unsent"
    /\ \A q, r \in Requests : pc[q] = "coding" /\ pc[r] = "coding" /\ at[q] = at[r] => q = r
    /\ CodeSentOnce

\* No flow changes and no request comes to exchange a code.
KeepsCoding ==
    /\ UNCHANGED flowVars
    /\ \A q \in Requests : pc'[q] = "coding" => pc[q] = "coding" /\ at'[q] = at[q]

LEMMA CodeStep == TypeInv /\ CodeInv /\ [Next]_vars => CodeInv'
<1> SUFFICES ASSUME TypeInv, CodeInv, [Next]_vars PROVE CodeInv'
  OBVIOUS
<1>0. \A q \in Requests : pc[q] \in Logging => at[q] \in Flows
  BY DEF TypeInv, FlowsKnown
<1>1. CASE KeepsCoding
  BY <1>1 DEF KeepsCoding, CodeInv, CodeSentOnce, flowVars
<1>2. ASSUME NEW q \in Requests, Consume(q) PROVE CodeInv'
  <2>1. at[q] \in Flows
    BY <1>0, <1>2 DEF Consume, Logging
  <2> QED
    BY <1>0, <1>2, <2>1 DEF Consume, Go, Leave, CodeInv, CodeSentOnce, TypeInv, TypeOK, Logging
<1>3. ASSUME NEW q \in Requests, SendCode(q) PROVE CodeInv'
  <2>1. at[q] \in Flows
    BY <1>0, <1>3 DEF SendCode, Logging
  <2> QED
    BY <1>0, <1>3, <2>1 DEF SendCode, Go, CodeInv, CodeSentOnce, TypeInv, TypeOK, Logging
<1>4. ASSUME NEW f \in Flows, FlowExpires(f) \/ \E k \in Keys : StartFlow(f, k) PROVE CodeInv'
  BY <1>0, <1>4 DEF FlowExpires, StartFlow, CodeInv, CodeSentOnce, TypeInv, TypeOK, requestVars,
     Logging
<1>5. ASSUME NEW q \in Requests,
             \/ LoginStep(q) /\ ~Consume(q) /\ ~SendCode(q)
             \/ RenewalStep(q) \/ CheckStep(q) \/ Stop(q)
      PROVE  KeepsCoding
  <2>1. ASSUME NEW p, p # "coding", NEW s, Go(q, p, s), UNCHANGED flowVars PROVE KeepsCoding
    BY <2>1 DEF KeepsCoding, Go, TypeInv, TypeOK
  <2>2. CASE Leave(q) /\ UNCHANGED flowVars
    BY <2>2 DEF KeepsCoding, Leave, TypeInv, TypeOK
  <2>3. ASSUME NEW k \in Keys, Arrive(q, k) PROVE KeepsCoding
    BY <2>3 DEF KeepsCoding, Arrive, TypeInv, TypeOK
  <2>4. ASSUME NEW f \in Flows, Callback(q, f) PROVE KeepsCoding
    BY <2>4 DEF KeepsCoding, Callback, TypeInv, TypeOK
  <2>5. CASE LoginStep(q) /\ ~Consume(q) /\ ~SendCode(q)
    <3>1. CASE Enter(q)
      <4> DEFINE s == [seen[q] EXCEPT !.ver = row[key[q]].ver]
      <4>1. Go(q, "exchanging", s) /\ UNCHANGED flowVars
        BY <3>1 DEF Enter
      <4> HIDE DEF s
      <4> QED
        BY <2>1, <4>1
    <3>2. ASSUME NEW g \in Grants, CodeAnswered(q, g) PROVE KeepsCoding
      <4> DEFINE s == [Anonymous EXCEPT !.cred = g, !.token = g]
      <4>1. Go(q, "entering", s) /\ UNCHANGED flowVars
        BY <3>2 DEF CodeAnswered
      <4> HIDE DEF s
      <4> QED
        BY <2>1, <4>1
    <3>3. ASSUME NEW k \in Keys, Establish(q, k) PROVE KeepsCoding
      BY <2>2, <3>3 DEF Establish
    <3> QED
      BY <2>4, <2>5, <3>1, <3>2, <3>3 DEF LoginStep
  <2>6. ASSUME NEW g \in Grants, TokenAnswered(q, g) PROVE KeepsCoding
    <3>1. UNCHANGED flowVars /\ pc' = [pc EXCEPT ![q] = "completing"] /\ at' = at
      BY <2>6 DEF TokenAnswered, Go
    <3> QED
      BY <3>1 DEF KeepsCoding, TypeInv, TypeOK
  <2>7. CASE CheckStep(q)
    <3> QED
      BY <2>1, <2>2, <2>3, <2>7 DEF CheckStep, Recheck, ForwardRefused, ReadRejected, Invalidate
  <2>8. CASE RenewalStep(q) \/ Stop(q)
    <3> QED
      BY <2>1, <2>2, <2>6, <2>8 DEF RenewalStep, Look, Claim, SendToken, RenewalFails,
         CompleteRenewal, Discard, Stop
  <2> QED
    BY <1>5, <2>5, <2>7, <2>8
<1>6. ASSUME \/ UNCHANGED vars
             \/ \E k \in Keys : KeyStep(k)
             \/ \E g \in Grants : AccessAges(g)
      PROVE  KeepsCoding
  BY <1>6 DEF KeepsCoding, vars, KeyStep, Bootstrap, Logout, SessionEnds, ClaimLapses, AccessAges,
     requestVars
<1> QED
  BY <1>1, <1>2, <1>3, <1>4, <1>5, <1>6 DEF Next

\* The code of a login is never exchanged twice.
THEOREM CodesAreSentOnce == Spec => []CodeSentOnce
<1>1. Init => CodeInv
  BY DEF Init, CodeInv, CodeSentOnce
<1>2. CodeInv => CodeSentOnce
  BY DEF CodeInv
<1> QED
  BY <1>1, <1>2, CodeStep, TypeInvariant, PTL DEF Spec

(***************************************************************************)
(* Who replaces a session with what was read.  The version of a session    *)
(* only grows, so a version that still fits vouches for all that was read  *)
(* with it; and an access token that is about to end a session has been    *)
(* refused.                                                                *)
(***************************************************************************)
Swapping == {"claiming", "invalidating"}

Snapped(q) ==
    pc[q] \in Swapping /\ row[key[q]] # NoRow =>
        /\ seen[q].ver <= row[key[q]].ver
        /\ seen[q].ver = row[key[q]].ver /\ Visible(key[q]) => row[key[q]] = seen[q]

SnapInv ==
    \A q \in Requests :
        /\ Snapped(q)
        /\ pc[q] \in {"rejected", "invalidating"} => seen[q].cred \in refused

\* A request comes by the session it swaps by reading it.
SwapRead(q) ==
    /\ pc'[q] \in Swapping =>
          \/ pc[q] = pc'[q] /\ key'[q] = key[q] /\ seen'[q] = seen[q]
          \/ /\ row' = row /\ pc[q] # "idle" /\ key'[q] = key[q]
             /\ seen'[q] = Current(key[q]) /\ Current(key[q]) # NoRow
    /\ pc'[q] \in {"rejected", "invalidating"} =>
          \/ pc[q] \in {"rejected", "invalidating"} /\ seen'[q].cred = seen[q].cred
          \/ seen'[q].cred \in refused'
    /\ refused \subseteq refused'

LEMMA SnapStep == TypeInv /\ SnapInv /\ [Next]_vars => SnapInv'
<1> SUFFICES ASSUME TypeInv, SnapInv, [Next]_vars PROVE SnapInv'
  OBVIOUS
<1>0. /\ row \in [Keys -> Row \cup {NoRow}] /\ issued \subseteq Keys
      /\ \A k \in Keys : row[k] # NoRow => row[k].ver \in Nat
      /\ \A q \in Requests : pc[q] # "idle" => key[q] \in issued /\ key[q] \in Keys
      /\ \A q \in Requests : pc[q] \in Swapping => seen[q].ver \in Nat
  BY DEF TypeInv, TypeOK, KeysKnown, HandsFull, Whole, Row, Swapping, Holding, Reading
<1>1. ASSUME NEW q \in Requests, SwapRead(q), pc'[q] \in Swapping PROVE Snapped(q)'
  <2>1. CASE pc[q] = pc'[q] /\ key'[q] = key[q] /\ seen'[q] = seen[q]
    <3>1. Kept(key[q]) /\ pc[q] \in Swapping
      BY <1>0, <1>1, <2>1, RowStep DEF AllKept, Swapping
    <3>2. CASE row'[key[q]] = row[key[q]]
      BY <1>1, <2>1, <3>1, <3>2 DEF SnapInv, Snapped, Visible
    <3>3. CASE row'[key[q]] = NoRow
      BY <2>1, <3>3 DEF Snapped
    <3>4. CASE /\ Visible(key[q]) /\ row'[key[q]] \in Row
               /\ \/ row'[key[q]].ver = row[key[q]].ver /\ row'[key[q]].dead
                  \/ row'[key[q]].ver > row[key[q]].ver
      <4>1. /\ row[key[q]].ver \in Nat /\ row'[key[q]].ver \in Nat /\ seen[q].ver \in Nat
            /\ seen[q].ver <= row[key[q]].ver
        BY <1>0, <3>1, <3>4 DEF SnapInv, Snapped, Visible, Row, Swapping
      <4> QED
        BY <2>1, <3>4, <4>1 DEF Snapped, Visible
    <3> QED
      BY <3>1, <3>2, <3>3, <3>4 DEF Kept
  <2>2. CASE /\ row' = row /\ pc[q] # "idle" /\ key'[q] = key[q] /\ seen'[q] = Current(key[q])
             /\ Current(key[q]) # NoRow
    BY <1>0, <2>2 DEF Snapped, Current
  <2> QED
    BY <1>1, <2>1, <2>2 DEF SwapRead
<1>2. ASSUME NEW q \in Requests PROVE SwapRead(q)
  <2>1. CASE UNCHANGED requestVars /\ refused' = refused
    BY <2>1 DEF requestVars, SwapRead
  <2>2. ASSUME NEW r \in Requests, LoginStep(r) \/ Stop(r) PROVE SwapRead(q)
    <3>1. ASSUME NEW p \in {"coding", "coded", "entering", "exchanging"}, NEW s, Go(r, p, s),
                 UNCHANGED refused
          PROVE  SwapRead(q)
      BY <3>1 DEF SwapRead, Go, Swapping, TypeInv, TypeOK
    <3>2. CASE Leave(r) /\ UNCHANGED refused
      BY <3>2 DEF SwapRead, Leave, Swapping, TypeInv, TypeOK
    <3>3. CASE Enter(r)
      <4> DEFINE s == [seen[r] EXCEPT !.ver = row[key[r]].ver]
      <4>1. Go(r, "exchanging", s) /\ UNCHANGED refused
        BY <3>3 DEF Enter, providerVars
      <4> HIDE DEF s
      <4> QED
        BY <3>1, <4>1
    <3>4. ASSUME NEW g \in Grants, CodeAnswered(r, g) PROVE SwapRead(q)
      <4> DEFINE s == [Anonymous EXCEPT !.cred = g, !.token = g]
      <4>1. Go(r, "entering", s) /\ UNCHANGED refused
        BY <3>4 DEF CodeAnswered
      <4> HIDE DEF s
      <4> QED
        BY <3>1, <4>1
    <3>5. ASSUME NEW f \in Flows, Callback(r, f) PROVE SwapRead(q)
      BY <3>5 DEF Callback, SwapRead, Swapping, TypeInv, TypeOK, providerVars
    <3> QED
      BY <2>2, <3>1, <3>2, <3>3, <3>4, <3>5 DEF LoginStep, Stop, Consume, SendCode, Establish,
         providerVars
  <2>3. ASSUME NEW r \in Requests, RenewalStep(r) PROVE SwapRead(q)
    <3>1. CASE Look(r)
      <4>1. /\ pc[r] = "looking" /\ UNCHANGED <<row, refused>>
            /\ \/ Leave(r) \/ Go(r, "discarding", NoRow)
               \/ Current(key[r]) # NoRow
                  /\ (Go(r, "claiming", Current(key[r])) \/ Go(r, "checking", Current(key[r])))
        BY <3>1 DEF Look, providerVars, storeVars
      <4> QED
        BY <4>1 DEF SwapRead, Go, Leave, Swapping, TypeInv, TypeOK
    <3>2. CASE Claim(r)
      BY <3>2 DEF Claim, SwapRead, Go, Swapping, TypeInv, TypeOK, providerVars
    <3>3. ASSUME NEW g \in Grants, TokenAnswered(r, g) PROVE SwapRead(q)
      BY <3>3 DEF TokenAnswered, SwapRead, Go, Swapping, TypeInv, TypeOK
    <3> QED
      BY <2>3, <3>1, <3>2, <3>3 DEF RenewalStep, SendToken, RenewalFails, CompleteRenewal, Discard,
         SwapRead, Go, Leave, Swapping, TypeInv, TypeOK, providerVars
  <2>4. ASSUME NEW r \in Requests, CheckStep(r) PROVE SwapRead(q)
    <3>1. CASE Recheck(r)
      BY <3>1 DEF Recheck, SwapRead, Go, Leave, Swapping, TypeInv, TypeOK
    <3>2. CASE ForwardRefused(r)
      BY <3>2 DEF ForwardRefused, SwapRead, Go, Swapping, TypeInv, TypeOK
    <3>3. CASE ReadRejected(r)
      BY <3>3 DEF ReadRejected, SwapRead, Go, Leave, Swapping, SnapInv, TypeInv, TypeOK,
         providerVars, storeVars
    <3>4. CASE Invalidate(r)
      BY <3>4 DEF Invalidate, SwapRead, Leave, Swapping, TypeInv, TypeOK, providerVars
    <3>5. ASSUME NEW k \in Keys, Arrive(r, k) PROVE SwapRead(q)
      BY <3>5 DEF Arrive, SwapRead, Swapping, TypeInv, TypeOK, providerVars
    <3> QED
      BY <2>4, <3>1, <3>2, <3>3, <3>4, <3>5 DEF CheckStep
  <2>5. \/ UNCHANGED requestVars /\ refused' = refused
        \/ \E r \in Requests : LoginStep(r) \/ Stop(r) \/ RenewalStep(r) \/ CheckStep(r)
    BY DEF Next, KeyStep, Bootstrap, Logout, SessionEnds, ClaimLapses, StartFlow, FlowExpires,
       AccessAges, vars, providerVars
  <2> QED
    BY <2>1, <2>2, <2>3, <2>4, <2>5
<1> QED
  BY <1>1, <1>2 DEF SnapInv, Snapped, SwapRead

\* A version that still fits vouches for all that was read with it, and what
\* ends a session by a refusal was refused.
THEOREM SnapInvariant == Spec => []SnapInv
<1>1. Init => SnapInv
  BY DEF Init, SnapInv, Snapped, Swapping
<1> QED
  BY <1>1, SnapStep, TypeInvariant, PTL DEF Spec

\* The refusal of an access token ends no session that has renewed it in the
\* meantime.
THEOREM RefusalsSpareRenewed == Spec => RefusalSparesRenewed
<1>1. TypeInv /\ SnapInv /\ [Next]_vars =>
          \A k \in Keys :
              Visible(k) /\ row'[k] # NoRow /\ row'[k].dead /\ row'[k].ver # row[k].ver
                  => row[k].cred \in refused
  <2> SUFFICES ASSUME TypeInv, SnapInv, [Next]_vars, NEW k \in Keys,
                      Visible(k), row'[k] # NoRow, row'[k].dead, row'[k].ver # row[k].ver
               PROVE  row[k].cred \in refused
    OBVIOUS
  <2>1. Kept(k)
    BY RowStep DEF AllKept, Visible, TypeInv, RowsWhole
  <2>2. Invalidated(k)
    BY <2>1 DEF Kept
  <2> QED
    BY <2>2 DEF Invalidated, CanReplace, SnapInv, Snapped, Visible, Swapping
<1> QED
  BY <1>1, TypeInvariant, SnapInvariant, PTL DEF Spec, RefusalSparesRenewed

(***************************************************************************)
(* Refresh tokens.  A token that can still be exchanged is in one place:   *)
(* in a session that is not under renewal, or in the hand of one request.  *)
(* A claim moves it from the session to the hand, the end of the renewal   *)
(* or of the login from the hand to a session.                             *)
(***************************************************************************)
Carrying == {"renewing", "sent", "completing", "entering", "exchanging"}

RowHolds(k, g) == row[k] # NoRow /\ row[k].renew = 0 /\ row[k].token = g
ReqHolds(q, g) == pc[q] \in Carrying /\ seen[q].token = g

TokenInv ==
    \A g \in Grants :
        /\ \A k \in Keys : RowHolds(k, g) =>
               /\ token[g] = "fresh"
               /\ \A l \in Keys : RowHolds(l, g) => k = l
               /\ \A q \in Requests : ~ReqHolds(q, g)
        /\ \A q \in Requests : ReqHolds(q, g) =>
               /\ token[g] = IF pc[q] = "sent" THEN "sent" ELSE "fresh"
               /\ \A r \in Requests : ReqHolds(r, g) => q = r
        /\ token[g] # "resent"

\* A step that moves no token to a new place.
Quiet ==
    /\ token' = token
    /\ \A k \in Keys, g \in Grants : RowHolds(k, g)' => RowHolds(k, g)
    /\ \A q \in Requests, g \in Grants :
           ReqHolds(q, g)' => ReqHolds(q, g) /\ (pc'[q] = "sent" <=> pc[q] = "sent")

LEMMA QuietKeeps == TokenInv /\ Quiet => TokenInv'
<1> SUFFICES ASSUME TokenInv, Quiet PROVE TokenInv'
  OBVIOUS
<1> USE DEF Quiet
<1> HIDE DEF RowHolds, ReqHolds
<1> QED
  BY DEF TokenInv

\* The places of the requests after one of them has gone on or left.
LEMMA GoHolds ==
    ASSUME TypeInv, NEW q \in Requests, NEW p, NEW s, Go(q, p, s)
    PROVE  /\ \A r \in Requests, g \in Grants : r # q => (ReqHolds(r, g)' <=> ReqHolds(r, g))
           /\ \A g \in Grants : ReqHolds(q, g)' <=> p \in Carrying /\ s.token = g
           /\ \A r \in Requests : pc'[r] = IF r = q THEN p ELSE pc[r]
  BY DEF Go, ReqHolds, TypeInv, TypeOK

LEMMA LeaveHolds ==
    ASSUME TypeInv, NEW q \in Requests, Leave(q)
    PROVE  /\ \A r \in Requests, g \in Grants : r # q => (ReqHolds(r, g)' <=> ReqHolds(r, g))
           /\ \A g \in Grants : ~ReqHolds(q, g)'
           /\ \A r \in Requests : pc'[r] = IF r = q THEN "idle" ELSE pc[r]
  BY DEF Leave, ReqHolds, Carrying, TypeInv, TypeOK

LEMMA ReplaceHolds ==
    ASSUME TypeInv, NEW k \in Keys, NEW v \in Nat, NEW l \in Keys, NEW s \in Row, Whole(s),
           Replace(k, v, l, s)
    PROVE  /\ \A g \in Grants : RowHolds(l, g)' <=> s.renew = 0 /\ s.token = g
           /\ \A m \in Keys, g \in Grants : m # l /\ RowHolds(m, g)' => m # k /\ RowHolds(m, g)
  BY ReplaceType DEF RowHolds, Whole

\* A request that does not come to carry a token, and a store that stays or
\* loses rows.
LEMMA QuietStep ==
    ASSUME TypeInv, SnapInv, [Next]_vars,
           ~\E q \in Requests : \/ SendToken(q) \/ Claim(q) \/ CompleteRenewal(q)
                                \/ \E g \in Grants : CodeAnswered(q, g) \/ TokenAnswered(q, g)
                                \/ \E k \in Keys : Establish(q, k)
    PROVE  Quiet
<1>0. /\ row \in [Keys -> Row \cup {NoRow}]
      /\ \A q \in Requests : pc[q] # "idle" => key[q] \in Keys
      /\ \A q \in Requests : pc[q] \in Holding \cup Reading =>
             Whole(seen[q]) /\ seen[q] \in Row /\ seen[q].renew = 0 /\ seen[q].ver \in Nat
  BY DEF TypeInv, TypeOK, KeysKnown, HandsFull, Whole, Row
<1>a. ASSUME UNCHANGED <<row, token>>, NEW q \in Requests, NEW p, NEW s, Go(q, p, s),
             \/ p \notin Carrying
             \/ pc[q] \in Carrying /\ s.token = seen[q].token /\ (p = "sent" <=> pc[q] = "sent")
      PROVE  Quiet
  BY <1>a, GoHolds DEF Quiet, RowHolds, ReqHolds
<1>b. ASSUME token' = token, \A k \in Keys, g \in Grants : RowHolds(k, g)' => RowHolds(k, g),
             NEW q \in Requests, Leave(q)
      PROVE  Quiet
  BY <1>b, LeaveHolds DEF Quiet, ReqHolds
<1>c. ASSUME token' = token, \A k \in Keys, g \in Grants : RowHolds(k, g)' => RowHolds(k, g),
             UNCHANGED requestVars
      PROVE  Quiet
  BY <1>c DEF Quiet, ReqHolds, requestVars
<1>1. ASSUME NEW k \in Keys, KeyStep(k) PROVE Quiet
  <2>1. CASE SessionEnds(k)
    <3>1. row[k] \in Row
      BY <1>0, <2>1 DEF SessionEnds, Visible
    <3> DEFINE t == [row[k] EXCEPT !.dead = TRUE]
    <3>2. t \in Row /\ t.token = row[k].token /\ t.renew = row[k].renew
      BY <3>1 DEF Row
    <3>3. row' = [row EXCEPT ![k] = t] /\ row[k] # NoRow /\ token' = token /\ UNCHANGED requestVars
      BY <2>1 DEF SessionEnds, Visible, providerVars
    <3> HIDE DEF t
    <3> QED
      BY <1>0, <1>c, <3>2, <3>3 DEF RowHolds
  <2>2. CASE Bootstrap(k)
    <3>1. Anonymous.token = NoGrant
      BY DEF Anonymous
    <3>2. \A l \in Keys : row'[l] = IF l = k THEN Anonymous ELSE Current(l)
      BY <2>2 DEF Bootstrap, Swept
    <3>3. \A l \in Keys, g \in Grants : RowHolds(l, g)' => RowHolds(l, g)
      BY <3>1, <3>2 DEF RowHolds, Current
    <3> QED
      BY <1>c, <2>2, <3>3 DEF Bootstrap, providerVars
  <2>3. CASE Logout(k)
    BY <1>0, <1>c, <2>3 DEF Logout, Remove, RowHolds, providerVars
  <2>4. CASE ClaimLapses(k)
    BY <1>c, <2>4 DEF ClaimLapses, RowHolds, storeVars, providerVars
  <2> QED
    BY <1>1, <2>1, <2>2, <2>3, <2>4 DEF KeyStep
<1>2. ASSUME NEW f \in Flows, FlowExpires(f) \/ \E k \in Keys : StartFlow(f, k) PROVE Quiet
  BY <1>0, <1>c, <1>2 DEF FlowExpires, StartFlow, Swept, Current, RowHolds, storeVars, providerVars
<1>3. ASSUME NEW g \in Grants, AccessAges(g) PROVE Quiet
  BY <1>3, <1>c DEF AccessAges, RowHolds, storeVars, providerVars
<1>4. CASE UNCHANGED vars
  BY <1>4, <1>c DEF vars, RowHolds, storeVars, providerVars
<1>5. ASSUME NEW q \in Requests, Stop(q) PROVE Quiet
  BY <1>5, <1>b DEF Stop, RowHolds, storeVars, providerVars
<1>6. ASSUME NEW q \in Requests, Discard(q) PROVE Quiet
  <2>1. \A k \in Keys, g \in Grants : RowHolds(k, g)' => RowHolds(k, g)
    BY <1>0, <1>6 DEF Discard, Remove, RowHolds
  <2> QED
    BY <1>6, <1>b, <2>1 DEF Discard, providerVars
<1>7. ASSUME NEW q \in Requests, Enter(q) PROVE Quiet
  <2> DEFINE s == [seen[q] EXCEPT !.ver = row[key[q]].ver]
  <2>1. pc[q] = "entering" /\ seen[q] \in Row
    BY <1>0, <1>7 DEF Enter, Holding
  <2>2. s.token = seen[q].token
    BY <2>1 DEF Row
  <2>3. Go(q, "exchanging", s) /\ UNCHANGED <<row, token>>
    BY <1>7 DEF Enter, storeVars, providerVars
  <2> HIDE DEF s
  <2> QED
    BY <1>a, <2>1, <2>2, <2>3 DEF Carrying
<1>8. ASSUME NEW q \in Requests, NEW f \in Flows, Callback(q, f) PROVE Quiet
  BY <1>8 DEF Callback, Quiet, RowHolds, ReqHolds, Carrying, TypeInv, TypeOK, storeVars,
     providerVars
<1>9. ASSUME NEW q \in Requests, NEW k \in Keys, Arrive(q, k) PROVE Quiet
  BY <1>9 DEF Arrive, Quiet, RowHolds, ReqHolds, Carrying, TypeInv, TypeOK, storeVars, providerVars
<1>10. ASSUME NEW q \in Requests, Invalidate(q) PROVE Quiet
  <2>1. pc[q] = "invalidating" /\ key[q] \in Keys /\ Leave(q) /\ token' = token
    BY <1>0, <1>10 DEF Invalidate, providerVars
  <2>2. CASE CanReplace(key[q], seen[q].ver)
    <3> DEFINE s == [seen[q] EXCEPT !.dead = TRUE]
    <3>1. Whole(seen[q]) /\ seen[q] \in Row /\ seen[q].ver \in Nat
      BY <1>0, <2>1 DEF Reading
    <3>2. s \in Row /\ Whole(s) /\ s.token = seen[q].token /\ s.renew = seen[q].renew
      BY <3>1 DEF Whole, Row
    <3>3. Replace(key[q], seen[q].ver, key[q], s)
      BY <1>10, <2>2 DEF Invalidate
    <3> HIDE DEF s
    <3>4. row[key[q]] = seen[q] /\ row[key[q]] # NoRow
      BY <2>1, <2>2 DEF SnapInv, Snapped, Swapping, CanReplace, Visible
    <3>5. \A k \in Keys, g \in Grants : RowHolds(k, g)' => RowHolds(k, g)
      BY <2>1, <3>1, <3>2, <3>3, <3>4, ReplaceHolds DEF RowHolds
    <3> QED
      BY <1>b, <2>1, <3>5
  <2>3. CASE ~CanReplace(key[q], seen[q].ver)
    BY <1>10, <1>b, <2>1, <2>3 DEF Invalidate, RowHolds
  <2> QED
    BY <2>2, <2>3
<1>11. ASSUME NEW q \in Requests,
              \/ Consume(q) \/ SendCode(q) \/ Look(q) \/ RenewalFails(q)
              \/ Recheck(q) \/ ForwardRefused(q) \/ ReadRejected(q)
       PROVE  Quiet
  <2>1. UNCHANGED <<row, token>>
    BY <1>11 DEF Consume, SendCode, Look, RenewalFails, Recheck, ForwardRefused, ReadRejected,
       storeVars, providerVars
  <2>2. \/ Leave(q)
        \/ \E p \in {"coding", "coded", "discarding", "looking", "claiming", "checking",
                     "forwarding", "rejected", "invalidating"},
              s \in {NoRow, seen[q], Current(key[q])} : Go(q, p, s)
    BY <1>11 DEF Consume, SendCode, Look, RenewalFails, Recheck, ForwardRefused, ReadRejected
  <2>3. \A k \in Keys, g \in Grants : RowHolds(k, g)' => RowHolds(k, g)
    BY <2>1 DEF RowHolds
  <2> QED
    BY <1>a, <1>b, <2>1, <2>2, <2>3 DEF Carrying
<1> QED
  BY <1>1, <1>2, <1>3, <1>4, <1>5, <1>6, <1>7, <1>8, <1>9, <1>10, <1>11
     DEF Next, LoginStep, RenewalStep, CheckStep

\* A token moves from a session to the hand of the request that claims it.
LEMMA ClaimMoves ==
    ASSUME TypeInv, SnapInv, TokenInv, NEW q \in Requests, Claim(q) PROVE TokenInv'
<1> DEFINE k == key[q]
<1>1. /\ pc[q] = "claiming" /\ k \in Keys /\ token' = token
      /\ Whole(seen[q]) /\ seen[q] \in Row /\ seen[q].renew = 0 /\ seen[q].ver \in Nat
  BY DEF Claim, TypeInv, TypeOK, KeysKnown, HandsFull, Holding, Whole, Row, providerVars
<1>2. CASE CanReplace(k, seen[q].ver)
  <2> DEFINE s == [seen[q] EXCEPT !.renew = seen[q].ver + 1]
  <2>1. s \in Row /\ Whole(s) /\ s.renew # 0
    BY <1>1 DEF Whole, Row
  <2>2. Replace(k, seen[q].ver, k, s) /\ Go(q, "renewing", seen[q])
    BY <1>2 DEF Claim
  <2>3. row[k] = seen[q] /\ row[k] # NoRow
    BY <1>1, <1>2 DEF SnapInv, Snapped, Swapping, CanReplace, Visible
  <2> HIDE DEF s, k
  <2>4. \A m \in Keys, g \in Grants : RowHolds(m, g)' => m # k /\ RowHolds(m, g)
    BY <1>1, <2>1, <2>2, ReplaceHolds
  <2>5. \A g \in Grants : ReqHolds(q, g)' => RowHolds(k, g)
    BY <1>1, <2>2, <2>3, GoHolds DEF RowHolds
  <2>6. /\ \A r \in Requests, g \in Grants : r # q => (ReqHolds(r, g)' <=> ReqHolds(r, g))
        /\ \A r \in Requests : pc'[r] = IF r = q THEN "renewing" ELSE pc[r]
    BY <2>2, GoHolds
  <2> QED
    BY <1>1, <2>4, <2>5, <2>6 DEF TokenInv
<1>3. CASE ~CanReplace(k, seen[q].ver)
  <2>1. Go(q, "looking", NoRow) /\ row' = row
    BY <1>3 DEF Claim
  <2>2. Quiet
    BY <1>1, <2>1, GoHolds DEF Quiet, RowHolds, Carrying
  <2> QED
    BY <2>2, QuietKeeps
<1> QED
  BY <1>2, <1>3

\* A token moves from the hand of a request to the session it stores.
LEMMA StoreMoves ==
    ASSUME TypeInv, TokenInv, NEW q \in Requests, pc[q] \in {"completing", "exchanging"},
           NEW k \in Keys, NEW v \in Nat, NEW l \in Keys, Replace(k, v, l, seen[q]),
           Leave(q) \/ Go(q, "looking", NoRow), token' = token
    PROVE  TokenInv'
<1>1. Whole(seen[q]) /\ seen[q] \in Row
  BY DEF TypeInv, HandsFull, Holding, Whole
<1>2. \A g \in Grants : RowHolds(l, g)' => ReqHolds(q, g)
  BY <1>1, ReplaceHolds DEF ReqHolds, Carrying
<1>3. \A m \in Keys, g \in Grants : m # l /\ RowHolds(m, g)' => RowHolds(m, g)
  BY <1>1, ReplaceHolds
<1>4. /\ \A r \in Requests, g \in Grants : r # q => (ReqHolds(r, g)' <=> ReqHolds(r, g))
      /\ \A g \in Grants : ~ReqHolds(q, g)'
      /\ \A r \in Requests : r # q => pc'[r] = pc[r]
  BY LeaveHolds, GoHolds DEF Carrying
<1> QED
  BY <1>2, <1>3, <1>4 DEF TokenInv

\* The token in the hand of a request is sent, and answered by it or by another.
LEMMA SendMoves ==
    ASSUME TypeInv, TokenInv, NEW q \in Requests, SendToken(q) PROVE TokenInv'
<1>1. pc[q] = "renewing" /\ seen[q].token \in Grants /\ row' = row /\ Go(q, "sent", seen[q])
  BY DEF SendToken, TypeInv, HandsFull, Holding, Whole, Row, storeVars
<1>2. ReqHolds(q, seen[q].token)
  BY <1>1 DEF ReqHolds, Carrying
<1>3. \A g \in Grants : token'[g] = IF g = seen[q].token THEN "sent" ELSE token[g]
  BY <1>1, <1>2 DEF SendToken, TokenInv, TypeInv, TypeOK
<1>4. /\ \A r \in Requests, g \in Grants : ReqHolds(r, g)' <=> ReqHolds(r, g)
      /\ \A r \in Requests : pc'[r] = IF r = q THEN "sent" ELSE pc[r]
  BY <1>1, GoHolds DEF ReqHolds, Carrying
<1>5. \A k \in Keys, g \in Grants : RowHolds(k, g)' <=> RowHolds(k, g)
  BY <1>1 DEF RowHolds
<1>6. \A g \in Grants : ReqHolds(q, g) => g = seen[q].token
  BY DEF ReqHolds
<1> QED
  BY <1>2, <1>3, <1>4, <1>5, <1>6 DEF TokenInv

LEMMA AnswerMoves ==
    ASSUME TypeInv, TokenInv, NEW q \in Requests, NEW h \in Grants,
           CodeAnswered(q, h) \/ TokenAnswered(q, h)
    PROVE  TokenInv'
<1>1. \A g \in Grants, r \in Requests : ReqHolds(r, g) => token[g] \in {"fresh", "sent"}
  BY DEF TokenInv
<1>2. ASSUME NEW t \in Grants, NEW p \in {"entering", "completing"}, NEW s,
             row' = row, Go(q, p, s), s.token = t, token'[t] = "fresh",
             \A g \in Grants : g # t /\ ~ReqHolds(q, g) =>
                                   token'[g] = token[g] \/ token[g] = "none",
             \A g \in Grants : token'[g] # "resent",
             token[t] = "none" \/ ReqHolds(q, t)
      PROVE  TokenInv'
  <2>1. /\ \A r \in Requests, g \in Grants : r # q => (ReqHolds(r, g)' <=> ReqHolds(r, g))
        /\ \A g \in Grants : ReqHolds(q, g)' <=> g = t
        /\ \A r \in Requests : pc'[r] = IF r = q THEN p ELSE pc[r]
    BY <1>2, GoHolds DEF Carrying
  <2>2. \A k \in Keys, g \in Grants : RowHolds(k, g)' <=> RowHolds(k, g)
    BY <1>2 DEF RowHolds
  <2>3. \A k \in Keys : ~RowHolds(k, t)
    BY <1>2 DEF TokenInv
  <2>4. \A r \in Requests : r # q => ~ReqHolds(r, t)
    BY <1>1, <1>2 DEF TokenInv
  <2>5. \A r \in Requests, k \in Keys, g \in Grants :
            g # t /\ ((r # q /\ ReqHolds(r, g)) \/ RowHolds(k, g)) => token'[g] = token[g]
    BY <1>1, <1>2 DEF TokenInv
  <2> QED
    BY <1>2, <2>1, <2>2, <2>3, <2>4, <2>5 DEF TokenInv
<1>3. CASE CodeAnswered(q, h)
  <2> DEFINE s == [Anonymous EXCEPT !.cred = h, !.token = h]
  <2>1. s.token = h
    BY DEF Anonymous
  <2>2. Go(q, "entering", s) /\ row' = row /\ token[h] = "none"
        /\ token' = [token EXCEPT ![h] = "fresh"]
    BY <1>3 DEF CodeAnswered, storeVars
  <2> HIDE DEF s
  <2> QED
    BY <1>2, <2>1, <2>2 DEF TypeInv, TypeOK, TokenInv
<1>4. CASE TokenAnswered(q, h)
  <2> DEFINE t == seen[q].token
  <2>1. /\ pc[q] = "sent" /\ seen[q] \in Row /\ t \in Grants /\ ReqHolds(q, t)
        /\ token[t] = "sent" /\ token[h] = "none" /\ row' = row /\ h # t
    BY <1>4 DEF TokenAnswered, TypeInv, HandsFull, Holding, Whole, Row, ReqHolds, Carrying,
       storeVars
  <2>2. CASE /\ token' = [token EXCEPT ![t] = "retired", ![h] = "fresh"]
             /\ Go(q, "completing", [seen[q] EXCEPT !.cred = h, !.token = h])
    <3> DEFINE s == [seen[q] EXCEPT !.cred = h, !.token = h]
    <3>1. s.token = h
      BY <2>1 DEF Row
    <3>2. Go(q, "completing", s)
      BY <2>2
    <3> HIDE DEF s, t
    <3> QED
      BY <1>2, <2>1, <2>2, <3>1, <3>2 DEF TypeInv, TypeOK, TokenInv
  <2>3. CASE /\ token' = [token EXCEPT ![t] = "fresh", ![h] = "retired"]
             /\ Go(q, "completing", [seen[q] EXCEPT !.cred = h])
    <3> DEFINE s == [seen[q] EXCEPT !.cred = h]
    <3>1. s.token = t
      BY <2>1 DEF Row
    <3>2. Go(q, "completing", s)
      BY <2>3
    <3> HIDE DEF s, t
    <3> QED
      BY <1>2, <2>1, <2>3, <3>1, <3>2 DEF TypeInv, TypeOK, TokenInv
  <2> QED
    BY <1>4, <2>2, <2>3 DEF TokenAnswered
<1> QED
  BY <1>3, <1>4

LEMMA TokenStep == TypeInv /\ SnapInv /\ TokenInv /\ [Next]_vars => TokenInv'
<1> SUFFICES ASSUME TypeInv, SnapInv, TokenInv, [Next]_vars PROVE TokenInv'
  OBVIOUS
<1>0. \A q \in Requests :
          /\ pc[q] # "idle" => key[q] \in Keys
          /\ pc[q] \in Holding => seen[q].ver \in Nat
          /\ \A k \in Keys : Visible(k) => row[k].ver \in Nat
  BY DEF TypeInv, TypeOK, KeysKnown, HandsFull, Whole, Row, Visible
<1>1. ASSUME NEW q \in Requests, NEW k \in Keys, Establish(q, k) PROVE TokenInv'
  <2>1. /\ pc[q] = "exchanging" /\ key[q] \in Keys /\ seen[q].ver \in Nat
        /\ Replace(key[q], seen[q].ver, k, seen[q]) /\ Leave(q) /\ token' = token
    BY <1>0, <1>1 DEF Establish, Holding, providerVars
  <2> QED
    BY <2>1, StoreMoves
<1>2. ASSUME NEW q \in Requests, CompleteRenewal(q) PROVE TokenInv'
  <2>1. CASE row' = row /\ Leave(q)
    <3>1. Quiet
      BY <1>2, <2>1, LeaveHolds DEF CompleteRenewal, Quiet, RowHolds, providerVars
    <3> QED
      BY <3>1, QuietKeeps
  <2>2. CASE /\ Visible(key[q]) /\ Replace(key[q], row[key[q]].ver, key[q], seen[q])
             /\ Go(q, "looking", NoRow)
    <3>1. /\ pc[q] = "completing" /\ key[q] \in Keys /\ row[key[q]].ver \in Nat
          /\ token' = token
      BY <1>0, <1>2, <2>2 DEF CompleteRenewal, providerVars
    <3> QED
      BY <2>2, <3>1, StoreMoves
  <2> QED
    BY <1>2, <2>1, <2>2 DEF CompleteRenewal
<1> QED
  BY <1>1, <1>2, ClaimMoves, SendMoves, AnswerMoves, QuietStep, QuietKeeps

\* A live refresh token is in one place, and in the state its holder needs.
THEOREM TokenInvariant == Spec => []TokenInv
<1>1. Init => TokenInv
  BY DEF Init, TokenInv, RowHolds, ReqHolds, Carrying
<1> QED
  BY <1>1, TokenStep, TypeInvariant, SnapInvariant, PTL DEF Spec

\* No refresh token is ever exchanged twice.
THEOREM TokensAreSentOnce == Spec => []TokenSentOnce
<1>1. TokenInv => TokenSentOnce
  BY DEF TokenInv, TokenSentOnce
<1> QED
  BY <1>1, TokenInvariant, PTL

\* A session that is not under renewal holds a refresh token that can still be
\* exchanged.
THEOREM StoredTokensAreFresh == Spec => []StoredTokenIsFresh
<1>1. TypeInv /\ TokenInv => StoredTokenIsFresh
  <2> SUFFICES ASSUME TypeInv, TokenInv PROVE StoredTokenIsFresh
    OBVIOUS
  <2>1. \A k \in Keys : row[k] # NoRow => row[k].token \in Grants \cup {NoGrant}
    BY DEF TypeInv, TypeOK, Row
  <2> QED
    BY <2>1 DEF TokenInv, RowHolds, StoredTokenIsFresh
<1> QED
  BY <1>1, TypeInvariant, TokenInvariant, PTL
=============================================================================
