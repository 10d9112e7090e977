---------------------------- MODULE GatewayProofs ----------------------------
(***************************************************************************)
(* What Gateway promises of AI credentials, admission and account policy,  *)
(* for any number of calls, credentials and editors, any limits and        *)
(* prices, and every interleaving with revocations, policy edits, faults   *)
(* and broken connections, proved with TLAPS.                              *)
(***************************************************************************)
EXTENDS Gateway, FiniteSetTheorems, FunctionTheorems, TLAPS

-----------------------------------------------------------------------------
(* Sums.                                                                   *)

LEMMA UnitsFinite ==
    ASSUME NEW S, IsFiniteSet(S), NEW f, \A c \in S : f[c] \in Nat
    PROVE  IsFiniteSet(Units(f, S))
<1> DEFINE Part(c) == {c} \X (1..f[c])
           g == [c \in S |-> Part(c)]
           Parts == {Part(c) : c \in S}
<1>1. g \in Surjection(S, Parts)
  BY DEF Surjection
<1>2. IsFiniteSet(Parts)
  BY <1>1, FS_Surjection
<1>3. ASSUME NEW P \in Parts PROVE IsFiniteSet(P)
  <2>1. PICK c \in S : P = Part(c)
    OBVIOUS
  <2>2. IsFiniteSet({c})
    BY FS_Singleton, Zenon
  <2>3. f[c] \in Int /\ 1 \in Int
    OBVIOUS
  <2>4. IsFiniteSet(1..f[c])
    BY <2>3, FS_Interval, Zenon
  <2> QED BY <2>1, <2>2, <2>4, FS_Product, Zenon
<1> QED BY <1>2, <1>3, FS_UNION DEF Units

LEMMA OneUnit ==
    ASSUME NEW c, NEW f, f[c] \in Nat
    PROVE  /\ IsFiniteSet({c} \X (1..f[c]))
           /\ Cardinality({c} \X (1..f[c])) = f[c]
<1>1. IsFiniteSet({c}) /\ Cardinality({c}) = 1
  BY FS_Singleton, Zenon
<1>2. IsFiniteSet(1..f[c]) /\ Cardinality(1..f[c]) = f[c]
  <2>1. 1 \in Int /\ f[c] \in Int
    OBVIOUS
  <2>2. IsFiniteSet(1..f[c]) /\ Cardinality(1..f[c]) = IF 1 > f[c] THEN 0 ELSE f[c] - 1 + 1
    BY <2>1, FS_Interval, Zenon
  <2> QED BY <2>2
<1>3. /\ IsFiniteSet({c} \X (1..f[c]))
      /\ Cardinality({c} \X (1..f[c])) = Cardinality({c}) * Cardinality(1..f[c])
  BY <1>1, <1>2, FS_Product, Zenon
<1> QED BY <1>1, <1>2, <1>3

\* A total grows by what is added to it.
LEMMA TotalGrows ==
    ASSUME NEW S, IsFiniteSet(S), NEW c, c \notin S, NEW f, NEW g,
           \A d \in S : f[d] \in Nat /\ g[d] = f[d], g[c] \in Nat
    PROVE  Total(g, S \cup {c}) = Total(f, S) + g[c] /\ Total(f, S) \in Nat
<1> DEFINE new == {c} \X (1..g[c])
<1>1. Units(g, S \cup {c}) = Units(f, S) \cup new
  BY DEF Units
<1>2. Units(f, S) \cap new = {}
  BY DEF Units
<1>3. IsFiniteSet(Units(f, S))
  BY UnitsFinite
<1>4. IsFiniteSet(new) /\ Cardinality(new) = g[c]
  BY OneUnit
<1>5. Cardinality(Units(f, S) \cup new)
        = Cardinality(Units(f, S)) + Cardinality(new) - Cardinality(Units(f, S) \cap new)
  BY <1>3, <1>4, FS_Union
<1>6. Cardinality(Units(f, S)) \in Nat
  BY <1>3, FS_CardinalityType
<1>7. Cardinality(Units(f, S) \cap new) = 0
  BY <1>2, FS_EmptySet
<1>8. Total(f, S) = Cardinality(Units(f, S))
  BY DEF Total
<1>9. Total(g, S \cup {c}) = Cardinality(Units(f, S) \cup new)
  BY <1>1 DEF Total
<1> HIDE DEF new
<1> QED BY <1>4, <1>5, <1>6, <1>7, <1>8, <1>9

LEMMA TotalSame ==
    ASSUME NEW S, NEW f, NEW g, \A d \in S : g[d] = f[d]
    PROVE  Total(g, S) = Total(f, S)
BY DEF Total, Units

-----------------------------------------------------------------------------
(* Type correctness.                                                       *)

LEMMA GotoType ==
    ASSUME TypeOK, NEW c \in Calls, NEW label \in Working \cup Ended, Goto(c, label)
    PROVE  pc' \in [Calls -> Working \cup Ended]
BY DEF TypeOK, Goto

LEMMA RowType ==
    ASSUME NEW r \in Row, NEW n \in Nat, NEW m \in Nat,
           NEW state \in {"absent", "reserved", "priced"}
    PROVE  /\ [r EXCEPT !.state = state] \in Row
           /\ [r EXCEPT !.amount = n] \in Row
           /\ [[r EXCEPT !.state = state] EXCEPT !.hour = n] \in Row
           /\ [r EXCEPT !.state = state, !.original = n, !.amount = m] \in Row
<1>1. r.original \in Nat /\ r.amount \in Nat /\ r.hour \in Nat
  BY DEF Row
<1>2. [r EXCEPT !.state = state] \in Row
  BY DEF Row
<1>3. [r EXCEPT !.amount = n] \in Row
  BY DEF Row
<1>4. [[r EXCEPT !.state = state] EXCEPT !.hour = n] \in Row
  BY <1>2 DEF Row
<1>5. [r EXCEPT !.state = state, !.original = n, !.amount = m] \in Row
  BY DEF Row
<1> QED BY <1>2, <1>3, <1>4, <1>5

LEMMA GiveUpType ==
    ASSUME TypeOK, NEW c \in Calls, NEW label \in Working \cup Ended, GiveUp(c, label)
    PROVE  /\ pc' \in [Calls -> Working \cup Ended]
           /\ row' \in [Calls -> Row]
           /\ run' \in [Calls -> RunStatus \cup {None}]
<1>1. pc' \in [Calls -> Working \cup Ended]
  BY GotoType DEF GiveUp
<1>2. row' \in [Calls -> Row]
  <2>1. CASE UNCHANGED row
    BY <2>1 DEF TypeOK
  <2>2. CASE CancelAuthorization(c)
    <3>1. [row[c] EXCEPT !.state = "absent"] \in Row
      BY RowType, 0 \in Nat DEF TypeOK
    <3>2. row' = [row EXCEPT ![c] = [row[c] EXCEPT !.state = "absent"]]
      BY <2>2 DEF CancelAuthorization, TypeOK
    <3> QED BY <3>1, <3>2 DEF TypeOK
  <2> QED BY <2>1, <2>2 DEF GiveUp
<1>3. run' \in [Calls -> RunStatus \cup {None}]
  BY DEF GiveUp, FailRun, TypeOK, RunStatus
<1> QED BY <1>1, <1>2, <1>3

LEMMA PriceType ==
    ASSUME TypeOK, NEW c \in Calls, Price(c)
    PROVE  row' \in [Calls -> Row]
<1>1. local[c].usage \in Nat
  BY DEF TypeOK, Local
<1>2. row[c] \in Row
  BY DEF TypeOK
<1> DEFINE r == [row[c] EXCEPT !.state = "priced", !.original = local[c].usage,
                                !.amount = local[c].usage]
<1>3. r \in Row
  BY <1>1, <1>2, RowType
<1>4. row' = [row EXCEPT ![c] = r]
  BY DEF Price, TypeOK
<1> HIDE DEF r
<1> QED BY <1>3, <1>4 DEF TypeOK

LEMMA LocalType ==
    ASSUME TypeOK, NEW c \in Calls, NEW n \in Nat, NEW b \in BOOLEAN
    PROVE  /\ [local EXCEPT ![c].hourly = n] \in [Calls -> Local]
           /\ [local EXCEPT ![c].rounds = n] \in [Calls -> Local]
           /\ [local EXCEPT ![c].used = n] \in [Calls -> Local]
           /\ [local EXCEPT ![c].usage = n, ![c].handoff = b] \in [Calls -> Local]
<1>1. local[c] \in Local
  BY DEF TypeOK
<1>2. [local[c] EXCEPT !.hourly = n] \in Local
  BY <1>1 DEF Local
<1>3. [local[c] EXCEPT !.rounds = n] \in Local
  BY <1>1 DEF Local
<1>4. [local[c] EXCEPT !.used = n] \in Local
  BY <1>1 DEF Local
<1>5. [local[c] EXCEPT !.usage = n, !.handoff = b] \in Local
  BY <1>1 DEF Local
<1>6. [local EXCEPT ![c].usage = n, ![c].handoff = b]
        = [local EXCEPT ![c] = [local[c] EXCEPT !.usage = n, !.handoff = b]]
  BY DEF TypeOK
<1> QED BY <1>2, <1>3, <1>4, <1>5, <1>6 DEF TypeOK

LEMMA EditedType ==
    ASSUME NEW kind \in EditKinds, NEW p \in Policy, NEW q \in Edited(kind, p)
    PROVE  q \in Policy
<1>1. CASE kind = "quota"
  <2>1. q \in SetMySpendingQuota(p)
    BY <1>1 DEF Edited
  <2>2. PICK w \in Walls : q = [p EXCEPT !.wall = w]
    BY <2>1 DEF SetMySpendingQuota
  <2> QED BY <2>2, GatewayAssumption DEF Policy
<1>2. CASE kind = "put"
  <2>1. q \in PutBillingAccount(p)
    BY <1>2 DEF Edited
  <2>2. /\ q.blacklisted \in BOOLEAN /\ q.hourly \in {p.hourly} \cup Hourlies /\ q.wall \in Walls
        /\ q = [blacklisted |-> q.blacklisted, hourly |-> q.hourly, wall |-> q.wall]
    BY <2>1 DEF PutBillingAccount
  <2>3. q.hourly \in Nat \cup {None} /\ q.wall \in Nat
    BY <2>2, GatewayAssumption DEF Policy
  <2> QED BY <2>2, <2>3 DEF Policy
<1>3. CASE kind = "blacklist"
  BY <1>3 DEF Edited, Blacklist, Policy
<1>4. CASE kind = "clear"
  BY <1>4 DEF Edited, ClearBlacklist, Policy
<1> QED BY <1>1, <1>2, <1>3, <1>4 DEF EditKinds

\* Only calls that carry a credential reach its accounting.
Keyed == \A c \in Calls : pc[c] \in {"spend", "save"} => Credential[c] \in Credentials

LEMMA TypeInit == Init => TypeOK /\ Keyed
BY GatewayAssumption
DEF Init, TypeOK, Keyed, Policy, Row, Access, Local, Working, Ended, RunStatus

LEMMA TypeStep == TypeOK /\ Keyed /\ [Next]_vars => TypeOK'
<1> SUFFICES ASSUME TypeOK, Keyed, [Next]_vars PROVE TypeOK'
  OBVIOUS
<1> USE DEF account, keys, turns, bounds
<1>1. ASSUME NEW c \in Calls, CallStep(c) PROVE TypeOK'
  <2>1. CASE Identify(c)
    <3>1. pc' \in [Calls -> Working \cup Ended]
      BY <2>1, GotoType DEF Identify, Working, Ended
    <3> QED BY <2>1, <3>1 DEF Identify, TypeOK
  <2>2. CASE ExecuteResponse(c)
    <3>1. pc' \in [Calls -> Working \cup Ended]
      BY <2>2, GotoType DEF ExecuteResponse, Working, Ended
    <3> QED BY <2>2, <3>1 DEF ExecuteResponse, TypeOK
  <2>3. CASE CheckAccess(c)
    <3>1. CASE policy.blacklisted
      BY <2>3, <3>1, GiveUpType DEF CheckAccess, TypeOK, Ended
    <3>2. CASE ~policy.blacklisted
      <4>1. pc' \in [Calls -> Working \cup Ended]
        BY <2>3, <3>2, GotoType DEF CheckAccess, Working
      <4> QED BY <2>3, <3>2, <4>1 DEF CheckAccess, TypeOK
    <3> QED BY <3>1, <3>2
  <2>4. CASE AuthorizeCredential(c)
    <3>1. pc' \in [Calls -> Working \cup Ended]
      BY <2>4, GotoType DEF AuthorizeCredential, Working, Ended
    <3>2. seen' \in [Calls -> [rows: SUBSET Calls, items: SUBSET Calls]]
      BY <2>4 DEF AuthorizeCredential, TypeOK
    <3> QED BY <2>4, <3>1, <3>2 DEF AuthorizeCredential, TypeOK
  <2>5. CASE ReadPolicy(c)
    <3>1. pc' \in [Calls -> Working \cup Ended]
      BY <2>5, GotoType DEF ReadPolicy, Working, Ended
    <3>2. (IF policy.hourly = None THEN HourlyLimit ELSE policy.hourly) \in Nat
      BY GatewayAssumption DEF TypeOK, Policy
    <3>3. local' \in [Calls -> Local]
      BY <2>5, <3>2, LocalType DEF ReadPolicy
    <3> QED BY <2>5, <3>1, <3>3 DEF ReadPolicy, TypeOK
  <2>6. CASE RequirePaymentWallet(c)
    <3>1. pc' \in [Calls -> Working \cup Ended]
      BY <2>6, GotoType DEF RequirePaymentWallet, Working, Ended
    <3>2. walletCache' \in BOOLEAN \cup {None}
      BY <2>6 DEF RequirePaymentWallet, TypeOK
    <3> QED BY <2>6, <3>1, <3>2 DEF RequirePaymentWallet, TypeOK
  <2>7. CASE AdmitRun(c)
    <3>1. pc' \in [Calls -> Working \cup Ended]
      BY <2>7, GotoType DEF AdmitRun, Working, Ended
    <3>2. row' \in [Calls -> Row]
      <4>1. CASE UNCHANGED row
        BY <4>1 DEF TypeOK
      <4>2. CASE row' = [row EXCEPT ![c].state = "reserved", ![c].hour = hour]
        <5> DEFINE r == [[row[c] EXCEPT !.state = "reserved"] EXCEPT !.hour = hour]
        <5>1. r \in Row
          BY RowType DEF TypeOK
        <5>2. row' = [row EXCEPT ![c] = r]
          BY <4>2 DEF TypeOK
        <5> HIDE DEF r
        <5> QED BY <5>1, <5>2 DEF TypeOK
      <4> QED BY <2>7, <4>1, <4>2 DEF AdmitRun
    <3>3. seen' \in [Calls -> [rows: SUBSET Calls, items: SUBSET Calls]]
      <4>1. Priced(c) \in SUBSET Calls
        BY DEF Priced
      <4>2. \/ UNCHANGED seen
            \/ seen' = [seen EXCEPT ![c].rows = Priced(c)]
        BY <2>7 DEF AdmitRun
      <4>3. [seen[c] EXCEPT !.rows = Priced(c)] \in [rows: SUBSET Calls, items: SUBSET Calls]
        BY <4>1 DEF TypeOK
      <4>4. \/ UNCHANGED seen
            \/ seen' = [seen EXCEPT ![c] = [seen[c] EXCEPT !.rows = Priced(c)]]
        BY <4>2 DEF TypeOK
      <4> QED BY <4>3, <4>4 DEF TypeOK
    <3>4. run' \in [Calls -> RunStatus \cup {None}]
      BY <2>7 DEF AdmitRun, TypeOK, RunStatus
    <3> QED BY <2>7, <3>1, <3>2, <3>3, <3>4 DEF AdmitRun, TypeOK
  <2>8. CASE BuildModelMessages(c)
    <3>1. CASE GiveUp(c, "failed")
      BY <2>8, <3>1, GiveUpType DEF BuildModelMessages, TypeOK, Ended
    <3>2. CASE Goto(c, "access") /\ UNCHANGED <<row, run>>
      <4>1. pc' \in [Calls -> Working \cup Ended]
        BY <3>2, GotoType DEF Working
      <4> QED BY <2>8, <3>2, <4>1 DEF BuildModelMessages, TypeOK
    <3> QED BY <2>8, <3>1, <3>2 DEF BuildModelMessages
  <2>9. CASE ServerToolRound(c)
    <3>1. PICK cost \in RoundCost(c) : spent' = [spent EXCEPT ![c] = @ + cost]
      BY <2>9 DEF ServerToolRound
    <3>2. spent' \in [Calls -> Nat]
      BY <3>1, GatewayAssumption DEF TypeOK, RoundCost
    <3>3. local[c].rounds + 1 \in Nat
      BY DEF TypeOK, Local
    <3>4. local' = [local EXCEPT ![c].rounds = local[c].rounds + 1]
      BY <2>9 DEF ServerToolRound, TypeOK, Local
    <3>5. local' \in [Calls -> Local]
      BY <3>3, <3>4, LocalType
    <3> QED BY <2>9, <3>2, <3>5 DEF ServerToolRound, TypeOK
  <2>10. CASE Finish(c)
    <3>1. pc' \in [Calls -> Working \cup Ended]
      BY <2>10, GotoType DEF Finish, Working
    <3>2. PICK cost \in RoundCost(c), handoff \in (IF c \in Responses THEN BOOLEAN ELSE {FALSE}) :
             /\ spent' = [spent EXCEPT ![c] = @ + cost]
             /\ local' = [local EXCEPT ![c].usage = cost, ![c].handoff = handoff]
      BY <2>10 DEF Finish
    <3>3. cost \in Nat
      BY <3>2, GatewayAssumption DEF RoundCost
    <3>4. spent' \in [Calls -> Nat]
      BY <3>2, <3>3 DEF TypeOK
    <3>5. local' \in [Calls -> Local]
      <4>1. handoff \in BOOLEAN
        BY <3>2
      <4> QED BY <3>2, <3>3, <4>1, LocalType
    <3> QED BY <2>10, <3>1, <3>4, <3>5 DEF Finish, TypeOK
  <2>11. CASE GenerationFails(c)
    BY <2>11, GiveUpType DEF GenerationFails, TypeOK, Ended
  <2>12. CASE RecordUsage(c)
    <3>1. pc' \in [Calls -> Working \cup Ended]
      BY <2>12, GotoType DEF RecordUsage, AfterRecord, Working, Ended
    <3> QED BY <2>12, <3>1, PriceType DEF RecordUsage, TypeOK
  <2>13. CASE WallChargeFails(c)
    <3>1. pc' \in [Calls -> Working \cup Ended]
      BY <2>13, GotoType DEF WallChargeFails, Working, Ended
    <3> QED BY <2>13, <3>1, PriceType DEF WallChargeFails, TypeOK
  <2>14. CASE LockCredential(c)
    <3>1. pc' \in [Calls -> Working \cup Ended]
      BY <2>14, GotoType DEF LockCredential, Deliver, Working, Ended
    <3>2. lock' \in [Credentials -> Calls \cup {None}]
      <4>1. \/ UNCHANGED lock
            \/ lock' = [lock EXCEPT ![Credential[c]] = c]
        BY <2>14 DEF LockCredential
      <4> QED BY <4>1 DEF TypeOK
    <3>3. local' \in [Calls -> Local]
      <4>1. CASE UNCHANGED local
        BY <4>1 DEF TypeOK
      <4>2. CASE local' = [local EXCEPT ![c].used = credential[Credential[c]].used]
        <5>1. Credential[c] \in Credentials
          BY <2>14 DEF LockCredential, Keyed
        <5>2. credential[Credential[c]].used \in Nat
          BY <5>1 DEF TypeOK, Access
        <5> QED BY <4>2, <5>2, LocalType
      <4> QED BY <2>14, <4>1, <4>2 DEF LockCredential
    <3> QED BY <2>14, <3>1, <3>2, <3>3 DEF LockCredential, TypeOK
  <2>15. CASE SaveCredential(c)
    <3>1. pc' \in [Calls -> Working \cup Ended]
      BY <2>15, GotoType DEF SaveCredential, Deliver, Ended
    <3>2. local[c].used + local[c].usage \in Nat /\ local[c].usage \in Nat
      BY DEF TypeOK, Local
    <3>3. credential' \in [Credentials -> Access]
      BY <2>15, <3>2 DEF SaveCredential, TypeOK, Access
    <3>4. item' \in [Calls -> Nat \cup {None}]
      BY <2>15, <3>2 DEF SaveCredential, TypeOK
    <3>5. lock' \in [Credentials -> Calls \cup {None}]
      BY <2>15 DEF SaveCredential, TypeOK
    <3> QED BY <2>15, <3>1, <3>3, <3>4, <3>5 DEF SaveCredential, TypeOK
  <2>16. CASE StoreAnswer(c)
    <3>1. pc' \in [Calls -> Working \cup Ended]
      BY <2>16, GotoType DEF StoreAnswer, Working
    <3> QED BY <2>16, <3>1 DEF StoreAnswer, TypeOK
  <2>17. CASE SaveRun(c)
    <3>1. pc' \in [Calls -> Working \cup Ended]
      BY <2>17, GotoType DEF SaveRun, Ended
    <3>2. run' \in [Calls -> RunStatus \cup {None}]
      BY <2>17 DEF SaveRun, TypeOK, RunStatus
    <3> QED BY <2>17, <3>1, <3>2 DEF SaveRun, TypeOK
  <2> QED BY <1>1, <2>1, <2>2, <2>3, <2>4, <2>5, <2>6, <2>7, <2>8, <2>9, <2>10, <2>11, <2>12,
             <2>13, <2>14, <2>15, <2>16, <2>17 DEF CallStep
<1>2. ASSUME NEW c \in Calls, Disconnect(c) PROVE TypeOK'
  <2>1. pc' \in [Calls -> Working \cup Ended]
    BY <1>2, GotoType DEF Disconnect, Ended
  <2>2. lock' \in [Credentials -> Calls \cup {None}]
    BY <1>2 DEF Disconnect, TypeOK
  <2>3. hit' \subseteq Calls /\ faults' \in Nat
    BY <1>2 DEF Disconnect, Fault, TypeOK
  <2> QED BY <1>2, <2>1, <2>2, <2>3 DEF Disconnect, TypeOK
<1>3. ASSUME NEW c \in Calls, RecordUsageFails(c) PROVE TypeOK'
  <2>1. pc' \in [Calls -> Working \cup Ended]
    BY <1>3, GotoType DEF RecordUsageFails, Working, Ended
  <2>2. hit' \subseteq Calls /\ faults' \in Nat
    BY <1>3 DEF RecordUsageFails, Fault, TypeOK
  <2> QED BY <1>3, <2>1, <2>2 DEF RecordUsageFails, TypeOK
<1>4. ASSUME NEW k \in Credentials, RevokeCredential(k) PROVE TypeOK'
  <2>1. credential' \in [Credentials -> Access]
    BY <1>4 DEF RevokeCredential, TypeOK, Access
  <2>2. changes' \in Nat
    BY <1>4 DEF RevokeCredential, Change, TypeOK
  <2> QED BY <1>4, <2>1, <2>2 DEF RevokeCredential, TypeOK
<1>5. ASSUME NEW e \in Editors, ReadPolicyRow(e) PROVE TypeOK'
  <2>1. draft' \in [Editors -> [kind: EditKinds, row: Policy] \cup {None}]
    BY <1>5 DEF ReadPolicyRow, TypeOK
  <2>2. changes' \in Nat
    BY <1>5 DEF ReadPolicyRow, Change, TypeOK
  <2> QED BY <1>5, <2>1, <2>2 DEF ReadPolicyRow, TypeOK
<1>6. ASSUME NEW e \in Editors, UpsertAccountPolicy(e) PROVE TypeOK'
  <2>1. draft[e].kind \in EditKinds /\ draft[e].row \in Policy
    BY <1>6 DEF UpsertAccountPolicy, TypeOK
  <2>2. PICK q \in Edited(draft[e].kind, draft[e].row) : policy' = q
    BY <1>6 DEF UpsertAccountPolicy
  <2>3. policy' \in Policy
    BY <2>1, <2>2, EditedType
  <2>4. draft' \in [Editors -> [kind: EditKinds, row: Policy] \cup {None}]
    BY <1>6 DEF UpsertAccountPolicy, TypeOK
  <2> QED BY <1>6, <2>3, <2>4 DEF UpsertAccountPolicy, TypeOK
<1>7. CASE WalletCacheExpires
  BY <1>7 DEF WalletCacheExpires, Change, TypeOK
<1>8. CASE Settle
  <2>1. row' \in [Calls -> Row]
    <3>1. \A c \in Calls : [row[c] EXCEPT !.amount = 0] \in Row
      BY RowType, 0 \in Nat DEF TypeOK
    <3> QED BY <1>8, <3>1 DEF Settle
  <2> QED BY <1>8, <2>1 DEF Settle, Change, TypeOK
<1>9. CASE HourPasses
  BY <1>9 DEF HourPasses, Change, TypeOK
<1>10. CASE UNCHANGED vars
  BY <1>10 DEF vars, TypeOK
<1> QED BY <1>1, <1>2, <1>3, <1>4, <1>5, <1>6, <1>7, <1>8, <1>9, <1>10 DEF Next

-----------------------------------------------------------------------------
(* The inductive invariant.  While a transaction is open it holds the       *)
(* credential's row, and what it read is what the row still says; a call    *)
(* that gets so far has its price in the ledger; and a call that is still   *)
(* going on has written no usage row.                                       *)

LockHeld ==
    \A c \in Calls : pc[c] = "save" =>
        /\ lock[Credential[c]] = c
        /\ credential[Credential[c]].live
        /\ credential[Credential[c]].used = local[c].used

Pending ==
    \A c \in Calls :
        /\ pc[c] \in {"spend", "save"} => row[c].state = "priced" /\ row[c].original = local[c].usage
        /\ pc[c] \in Working => item[c] = None

IInv == TypeOK /\ Keyed /\ LockHeld /\ Pending /\ UsedIsRecorded

\* What the steps of one call leave alone in another.
Apart(c, d) == /\ pc'[d] = pc[d] /\ local'[d] = local[d]
               /\ row'[d] = row[d] /\ item'[d] = item[d]

PlainStep(c) ==
    \/ Identify(c) \/ ExecuteResponse(c) \/ CheckAccess(c) \/ AuthorizeCredential(c)
    \/ ReadPolicy(c) \/ RequirePaymentWallet(c) \/ AdmitRun(c) \/ BuildModelMessages(c)
    \/ ServerToolRound(c) \/ Finish(c) \/ GenerationFails(c)
    \/ RecordUsage(c) \/ WallChargeFails(c) \/ RecordUsageFails(c)
    \/ StoreAnswer(c) \/ SaveRun(c)

LEMMA IInit == Init => IInv
<1> SUFFICES ASSUME Init PROVE IInv
  OBVIOUS
<1>1. TypeOK /\ Keyed
  BY TypeInit
<1>2. LockHeld /\ Pending
  BY DEF Init, LockHeld, Pending
<1>3. ASSUME NEW k \in Credentials PROVE credential[k].used = Total(Amount, Items(k))
  <2>1. Items(k) = {}
    BY DEF Init, Items
  <2>2. Units(Amount, {}) = {}
    BY DEF Units
  <2>3. Total(Amount, Items(k)) = 0
    BY <2>1, <2>2, FS_EmptySet DEF Total
  <2> QED BY <2>3 DEF Init
<1>4. \A c \in Calls : item[c] = None
  BY DEF Init
<1> QED BY <1>1, <1>2, <1>3, <1>4 DEF IInv, UsedIsRecorded

LEMMA GiveUpFrame ==
    ASSUME TypeOK, NEW c \in Calls, NEW label \in Ended, GiveUp(c, label)
    PROVE  /\ pc'[c] = label
           /\ \A d \in Calls \ {c} : pc'[d] = pc[d] /\ row'[d] = row[d]
BY DEF GiveUp, Goto, CancelAuthorization, TypeOK

\* A step outside the credential's transaction touches only its own call, and
\* reaches the accounting of its credential with its price recorded.
LEMMA PlainFrame ==
    ASSUME TypeOK, NEW c \in Calls, PlainStep(c)
    PROVE  /\ UNCHANGED keys
           /\ pc[c] \in Working \ {"spend", "save"}
           /\ pc'[c] # "save"
           /\ pc'[c] = "spend" => /\ Credential[c] \in Credentials
                                  /\ row'[c].state = "priced"
                                  /\ row'[c].original = local'[c].usage
           /\ \A d \in Calls \ {c} : Apart(c, d)
<1> USE DEF keys, Apart, Working, Ended
<1>1. CASE Identify(c)
  BY <1>1 DEF Identify, Goto, TypeOK
<1>2. CASE ExecuteResponse(c)
  BY <1>2 DEF ExecuteResponse, Goto, TypeOK
<1>3. CASE CheckAccess(c)
  <2>1. CASE policy.blacklisted
    BY <1>3, <2>1, GiveUpFrame DEF CheckAccess
  <2>2. CASE ~policy.blacklisted
    BY <1>3, <2>2 DEF CheckAccess, Goto, TypeOK
  <2> QED BY <2>1, <2>2
<1>4. CASE AuthorizeCredential(c)
  BY <1>4 DEF AuthorizeCredential, Goto, TypeOK
<1>5. CASE ReadPolicy(c)
  BY <1>5 DEF ReadPolicy, Goto, TypeOK
<1>6. CASE RequirePaymentWallet(c)
  BY <1>6 DEF RequirePaymentWallet, Goto, TypeOK
<1>7. CASE AdmitRun(c)
  BY <1>7 DEF AdmitRun, Goto, TypeOK
<1>8. CASE BuildModelMessages(c)
  <2>1. CASE GiveUp(c, "failed")
    BY <1>8, <2>1, GiveUpFrame DEF BuildModelMessages
  <2>2. CASE Goto(c, "access") /\ UNCHANGED <<row, run>>
    BY <1>8, <2>2 DEF BuildModelMessages, Goto, TypeOK
  <2> QED BY <1>8, <2>1, <2>2 DEF BuildModelMessages
<1>9. CASE ServerToolRound(c)
  BY <1>9 DEF ServerToolRound, TypeOK
<1>10. CASE Finish(c)
  BY <1>10 DEF Finish, Goto, TypeOK
<1>11. CASE GenerationFails(c)
  BY <1>11, GiveUpFrame DEF GenerationFails
<1>12. CASE RecordUsage(c)
  <2>1. /\ row'[c].state = "priced" /\ row'[c].original = local[c].usage
        /\ \A d \in Calls \ {c} : row'[d] = row[d]
    BY <1>12 DEF RecordUsage, Price, TypeOK, Row
  <2>2. pc'[c] = AfterRecord(c) /\ \A d \in Calls \ {c} : pc'[d] = pc[d]
    BY <1>12 DEF RecordUsage, Goto, TypeOK
  <2>3. AfterRecord(c) # "save"
    BY DEF AfterRecord
  <2>4. AfterRecord(c) = "spend" => Credential[c] \in Credentials
    BY GatewayAssumption DEF AfterRecord
  <2> QED BY <1>12, <2>1, <2>2, <2>3, <2>4 DEF RecordUsage
<1>13. CASE WallChargeFails(c)
  <2>1. \A d \in Calls \ {c} : row'[d] = row[d]
    BY <1>13 DEF WallChargeFails, Price, TypeOK
  <2> QED BY <1>13, <2>1 DEF WallChargeFails, Goto, TypeOK
<1>14. CASE RecordUsageFails(c)
  BY <1>14 DEF RecordUsageFails, Goto, TypeOK
<1>15. CASE StoreAnswer(c)
  BY <1>15 DEF StoreAnswer, Goto, TypeOK
<1>16. CASE SaveRun(c)
  BY <1>16 DEF SaveRun, Goto, TypeOK
<1> QED BY <1>1, <1>2, <1>3, <1>4, <1>5, <1>6, <1>7, <1>8, <1>9, <1>10, <1>11, <1>12, <1>13,
           <1>14, <1>15, <1>16 DEF PlainStep

\* Sums do not move with anything but the usage rows.
LEMMA SameItems ==
    ASSUME item' = item
    PROVE  \A k \in Credentials : Total(Amount, Items(k))' = Total(Amount, Items(k))
BY DEF Total, Units, Amount, Items

LEMMA PlainInv ==
    ASSUME IInv, NEW c \in Calls, PlainStep(c)
    PROVE  Keyed' /\ LockHeld' /\ Pending' /\ UsedIsRecorded'
<1>1. /\ UNCHANGED keys
      /\ pc[c] \in Working \ {"spend", "save"}
      /\ pc'[c] # "save"
      /\ pc'[c] = "spend" => /\ Credential[c] \in Credentials
                             /\ row'[c].state = "priced"
                             /\ row'[c].original = local'[c].usage
      /\ \A d \in Calls \ {c} : Apart(c, d)
  BY PlainFrame DEF IInv
<1>2. Keyed'
  BY <1>1 DEF IInv, Keyed, Apart
<1>3. LockHeld'
  BY <1>1 DEF IInv, LockHeld, Apart, keys
<1>4. item[c] = None
  BY <1>1 DEF IInv, Pending
<1>5. Pending'
  BY <1>1, <1>4 DEF IInv, Pending, Apart, keys
<1>6. UsedIsRecorded'
  <2>1. \A k \in Credentials : credential'[k].used = Total(Amount, Items(k))'
    BY <1>1, SameItems DEF IInv, UsedIsRecorded, keys
  <2>2. \A d \in Calls : item'[d] # None => row'[d].state = "priced" /\ row'[d].original = item'[d]
    BY <1>1, <1>4 DEF IInv, UsedIsRecorded, keys, Apart
  <2> QED BY <2>1, <2>2 DEF UsedIsRecorded
<1> QED BY <1>2, <1>3, <1>5, <1>6

LEMMA LockInv ==
    ASSUME IInv, NEW c \in Calls, LockCredential(c)
    PROVE  Keyed' /\ LockHeld' /\ Pending' /\ UsedIsRecorded'
<1> DEFINE k == Credential[c]
<1>1. k \in Credentials /\ pc[c] = "spend" /\ lock[k] = None
  BY DEF LockCredential, IInv, Keyed
<1>2. UNCHANGED <<row, credential, item>>
  BY DEF LockCredential
<1>3. \A d \in Calls : UNCHANGED item[d] /\ UNCHANGED row[d] /\ local'[d].usage = local[d].usage
  <2>1. \/ local' = [local EXCEPT ![c].used = credential[k].used]
        \/ UNCHANGED local
    BY DEF LockCredential
  <2>2. local \in [Calls -> Local]
    BY DEF IInv, TypeOK
  <2>3. ASSUME NEW d \in Calls PROVE local'[d].usage = local[d].usage
    <3>1. CASE UNCHANGED local
      BY <3>1
    <3>2. CASE local' = [local EXCEPT ![c].used = credential[k].used]
      <4>1. CASE d = c
        <5>1. local'[c] = [local[c] EXCEPT !.used = credential[k].used]
          BY <2>2, <3>2
        <5> QED BY <2>2, <4>1, <5>1 DEF Local
      <4>2. CASE d # c
        BY <2>2, <3>2, <4>2
      <4> QED BY <4>1, <4>2
    <3> QED BY <2>1, <3>1, <3>2
  <2> QED BY <1>2, <2>3
<1>4. \A d \in Calls \ {c} : UNCHANGED pc[d] /\ UNCHANGED local[d]
  BY DEF LockCredential, Deliver, Goto, IInv, TypeOK
<1>5. pc'[c] \in {"save", "answered", "withheld"}
  BY DEF LockCredential, Deliver, Goto, IInv, TypeOK
<1>6. Keyed'
  BY <1>1, <1>4 DEF IInv, Keyed
<1>7. LockHeld'
  <2> SUFFICES ASSUME NEW d \in Calls, pc'[d] = "save"
               PROVE  /\ lock'[Credential[d]] = d
                      /\ credential'[Credential[d]].live
                      /\ credential'[Credential[d]].used = local'[d].used
    BY DEF LockHeld
  <2>1. CASE d = c
    <3>1. /\ credential[k].live
          /\ lock' = [lock EXCEPT ![k] = c]
          /\ local' = [local EXCEPT ![c].used = credential[k].used]
      BY <2>1 DEF LockCredential, Deliver, Goto, IInv, TypeOK
    <3> QED BY <1>1, <1>2, <2>1, <3>1 DEF IInv, TypeOK, Local
  <2>2. CASE d # c
    <3>1. pc[d] = "save" /\ local'[d] = local[d]
      BY <1>4, <2>2
    <3>2. lock[Credential[d]] = d
      BY <3>1 DEF IInv, LockHeld
    <3>3. Credential[d] # k
      BY <1>1, <3>2, GatewayAssumption
    <3>4. lock'[Credential[d]] = lock[Credential[d]]
      BY <3>1, <3>3 DEF LockCredential, IInv, TypeOK, Keyed
    <3> QED BY <1>2, <3>1, <3>2, <3>4 DEF IInv, LockHeld
  <2> QED BY <2>1, <2>2
<1>8. Pending'
  BY <1>1, <1>3, <1>4, <1>5 DEF IInv, Pending, Working
<1>9. UsedIsRecorded'
  BY <1>2, SameItems DEF IInv, UsedIsRecorded
<1> QED BY <1>6, <1>7, <1>8, <1>9

\* The transaction commits: the row grows by exactly the usage row it adds.
LEMMA SaveInv ==
    ASSUME IInv, NEW c \in Calls, SaveCredential(c)
    PROVE  Keyed' /\ LockHeld' /\ Pending' /\ UsedIsRecorded'
<1> DEFINE k == Credential[c]
           usage == local[c].usage
<1>1. /\ k \in Credentials /\ pc[c] = "save" /\ lock[k] = c
      /\ credential[k].used = local[c].used
      /\ row[c].state = "priced" /\ row[c].original = usage
      /\ item[c] = None
  BY DEF SaveCredential, IInv, Keyed, LockHeld, Pending, Working
<1>2. UNCHANGED <<row, local>>
  BY DEF SaveCredential
<1>3. /\ pc'[c] \in {"answered", "withheld"}
      /\ \A d \in Calls \ {c} : UNCHANGED pc[d] /\ UNCHANGED item[d]
  BY DEF SaveCredential, Deliver, Goto, IInv, TypeOK
<1>4. usage \in Nat /\ item' = [item EXCEPT ![c] = usage] /\ item'[c] = usage /\ usage # None
  BY GatewayAssumption DEF SaveCredential, IInv, TypeOK, Local
<1>5. /\ credential' = [credential EXCEPT ![k] = [live |-> TRUE, used |-> local[c].used + usage]]
      /\ lock' = [lock EXCEPT ![k] = None]
  BY DEF SaveCredential
<1>6. Keyed'
  BY <1>3 DEF IInv, Keyed
<1>7. LockHeld'
  <2> SUFFICES ASSUME NEW d \in Calls, pc'[d] = "save"
               PROVE  /\ lock'[Credential[d]] = d
                      /\ credential'[Credential[d]].live
                      /\ credential'[Credential[d]].used = local'[d].used
    BY DEF LockHeld
  <2>1. d # c /\ pc[d] = "save"
    BY <1>3
  <2>2. lock[Credential[d]] = d /\ Credential[d] # k
    BY <1>1, <2>1 DEF IInv, LockHeld
  <2>3. UNCHANGED lock[Credential[d]] /\ UNCHANGED credential[Credential[d]]
    BY <1>5, <2>1, <2>2 DEF IInv, TypeOK, Keyed
  <2> QED BY <1>2, <2>1, <2>2, <2>3 DEF IInv, LockHeld
<1>8. Pending'
  BY <1>2, <1>3 DEF IInv, Pending, Working
<1>9. ASSUME NEW j \in Credentials PROVE credential'[j].used = Total(Amount, Items(j))'
  <2> DEFINE f == Amount
             g == Amount'
             S == Items(j)
  <2>1. IsFiniteSet(S)
    BY GatewayAssumption, FS_Subset DEF Items
  <2>2. \A d \in S : f[d] \in Nat /\ g[d] = f[d] /\ d # c
    BY <1>1, <1>3 DEF Items, Amount, IInv, TypeOK
  <2>3. Total(Amount, Items(j))' = Total(g, Items(j)')
    BY DEF Total, Units
  <2>4. CASE j = k
    <3>1. Items(j)' = S \cup {c}
      BY <1>3, <1>4, <2>4 DEF Items
    <3>2. g[c] = usage
      BY <1>4 DEF Amount
    <3>3. c \notin S
      BY <1>1 DEF Items
    <3>4. Total(f, S) = credential[k].used
      BY <2>4 DEF IInv, UsedIsRecorded
    <3>5. credential'[j].used = credential[k].used + usage
      BY <1>1, <1>5, <2>4 DEF IInv, TypeOK
    <3>6. g[c] \in Nat
      BY <1>4, <3>2
    <3>7. \A d \in S : f[d] \in Nat /\ g[d] = f[d]
      BY <2>2
    <3>8. Total(g, Items(j)') = Total(g, S \cup {c})
      BY <3>1
    <3> HIDE DEF f, g, S, usage
    <3>9. Total(g, S \cup {c}) = Total(f, S) + g[c]
      BY <2>1, <3>3, <3>6, <3>7, TotalGrows
    <3> QED BY <2>3, <3>2, <3>4, <3>5, <3>8, <3>9
  <2>5. CASE j # k
    <3>1. Items(j)' = S
      BY <1>1, <1>3, <1>4, <2>5 DEF Items
    <3>2. credential'[j].used = credential[j].used
      BY <1>5, <2>5 DEF IInv, TypeOK
    <3>3. Total(f, S) = credential[j].used
      BY DEF IInv, UsedIsRecorded
    <3> HIDE DEF f, g, S
    <3>4. Total(g, S) = Total(f, S)
      BY <2>2, TotalSame
    <3> QED BY <2>3, <3>1, <3>2, <3>3, <3>4
  <2> QED BY <2>4, <2>5
<1>10. \A d \in Calls : item'[d] # None => row'[d].state = "priced" /\ row'[d].original = item'[d]
  BY <1>1, <1>2, <1>3, <1>4 DEF IInv, UsedIsRecorded
<1> QED BY <1>6, <1>7, <1>8, <1>9, <1>10 DEF UsedIsRecorded

\* What leaves the rows, the usage rows and the calls' positions alone, apart
\* from ending some of them, keeps what the invariant says of the sums.
LEMMA FrameInv ==
    ASSUME IInv, UNCHANGED item,
           \A k \in Credentials : credential'[k].used = credential[k].used,
           \A d \in Calls : /\ row'[d].state = row[d].state
                            /\ row'[d].original = row[d].original
                            /\ local'[d] = local[d]
                            /\ pc'[d] = pc[d] \/ pc'[d] \in Ended
    PROVE  Keyed' /\ Pending' /\ UsedIsRecorded'
<1>1. Keyed'
  BY DEF IInv, Keyed, Ended
<1>2. Pending'
  BY DEF IInv, Pending, Ended, Working
<1>3. \A k \in Credentials : credential'[k].used = Total(Amount, Items(k))'
  BY SameItems DEF IInv, UsedIsRecorded
<1>4. \A d \in Calls : item'[d] # None => row'[d].state = "priced" /\ row'[d].original = item'[d]
  BY DEF IInv, UsedIsRecorded
<1> QED BY <1>1, <1>2, <1>3, <1>4 DEF UsedIsRecorded

LEMMA SettleFrame ==
    ASSUME TypeOK, Settle
    PROVE  \A d \in Calls : row'[d].state = row[d].state /\ row'[d].original = row[d].original
<1> SUFFICES ASSUME NEW d \in Calls
             PROVE  row'[d].state = row[d].state /\ row'[d].original = row[d].original
  OBVIOUS
<1>1. row[d] \in Row
  BY DEF TypeOK
<1>2. row'[d] = [row[d] EXCEPT !.amount = 0]
  BY DEF Settle
<1> QED BY <1>1, <1>2 DEF Row

LEMMA IStep == IInv /\ [Next]_vars => IInv'
<1> SUFFICES ASSUME IInv, [Next]_vars PROVE IInv'
  OBVIOUS
<1>1. TypeOK'
  BY TypeStep DEF IInv
<1> SUFFICES Keyed' /\ LockHeld' /\ Pending' /\ UsedIsRecorded'
  BY <1>1 DEF IInv
<1>2. ASSUME NEW c \in Calls, CallStep(c) \/ RecordUsageFails(c)
      PROVE  Keyed' /\ LockHeld' /\ Pending' /\ UsedIsRecorded'
  <2>1. CASE LockCredential(c)
    BY <2>1, LockInv
  <2>2. CASE SaveCredential(c)
    BY <2>2, SaveInv
  <2>3. CASE PlainStep(c)
    BY <2>3, PlainInv
  <2> QED BY <1>2, <2>1, <2>2, <2>3 DEF CallStep, PlainStep
<1>3. ASSUME NEW c \in Calls, Disconnect(c)
      PROVE  Keyed' /\ LockHeld' /\ Pending' /\ UsedIsRecorded'
  <2>1. /\ UNCHANGED <<row, credential, item, local>>
        /\ \A d \in Calls : pc'[d] = IF d = c THEN "gone" ELSE pc[d]
    BY <1>3 DEF Disconnect, Goto, IInv, TypeOK
  <2>2. Keyed' /\ Pending' /\ UsedIsRecorded'
    BY <2>1, FrameInv DEF Ended
  <2>3. LockHeld'
    <3> SUFFICES ASSUME NEW d \in Calls, pc'[d] = "save"
                 PROVE  lock'[Credential[d]] = d
      BY <2>1 DEF IInv, LockHeld
    <3>1. d # c /\ pc[d] = "save"
      BY <2>1
    <3>2. lock[Credential[d]] = d /\ Credential[d] \in Credentials
      BY <3>1 DEF IInv, LockHeld, Keyed
    <3> QED BY <1>3, <3>1, <3>2 DEF Disconnect
  <2> QED BY <2>2, <2>3
<1>4. ASSUME NEW k \in Credentials, RevokeCredential(k)
      PROVE  Keyed' /\ LockHeld' /\ Pending' /\ UsedIsRecorded'
  <2>1. UNCHANGED <<row, item, lock, pc, local>> /\ lock[k] = None
    BY <1>4 DEF RevokeCredential
  <2>2. credential' = [credential EXCEPT ![k].live = FALSE]
    BY <1>4 DEF RevokeCredential
  <2>3. \A j \in Credentials : credential'[j].used = credential[j].used
    BY <2>2 DEF IInv, TypeOK, Access
  <2>4. Keyed' /\ Pending' /\ UsedIsRecorded'
    BY <2>1, <2>3, FrameInv
  <2>5. LockHeld'
    <3> SUFFICES ASSUME NEW d \in Calls, pc[d] = "save"
                 PROVE  credential'[Credential[d]] = credential[Credential[d]]
      BY <2>1 DEF IInv, LockHeld
    <3>1. lock[Credential[d]] = d /\ Credential[d] \in Credentials
      BY DEF IInv, LockHeld, Keyed
    <3>2. Credential[d] # k
      BY <2>1, <3>1, GatewayAssumption
    <3> QED BY <2>2, <3>1, <3>2 DEF IInv, TypeOK
  <2> QED BY <2>4, <2>5
<1>5. ASSUME UNCHANGED <<item, credential, lock, pc, local>>, UNCHANGED row \/ Settle
      PROVE  Keyed' /\ LockHeld' /\ Pending' /\ UsedIsRecorded'
  <2>1. \A d \in Calls : row'[d].state = row[d].state /\ row'[d].original = row[d].original
    BY <1>5, SettleFrame DEF IInv
  <2>2. Keyed' /\ Pending' /\ UsedIsRecorded'
    BY <1>5, <2>1, FrameInv
  <2>3. LockHeld'
    BY <1>5 DEF IInv, LockHeld
  <2> QED BY <2>2, <2>3
<1>6. ASSUME NEW e \in Editors, ReadPolicyRow(e) \/ UpsertAccountPolicy(e)
      PROVE  Keyed' /\ LockHeld' /\ Pending' /\ UsedIsRecorded'
  BY <1>5, <1>6 DEF ReadPolicyRow, UpsertAccountPolicy, keys
<1>7. CASE WalletCacheExpires \/ Settle \/ HourPasses \/ UNCHANGED vars
  BY <1>5, <1>7 DEF WalletCacheExpires, Settle, HourPasses, vars, keys
<1> QED BY <1>2, <1>3, <1>4, <1>6, <1>7 DEF Next

-----------------------------------------------------------------------------
\* Every reachable state is of its types.
THEOREM SpecTypeOK == Spec => []TypeOK
<1>1. Init => IInv
  BY IInit
<1>2. IInv /\ [Next]_vars => IInv'
  BY IStep
<1>3. IInv => TypeOK
  BY DEF IInv
<1> QED BY <1>1, <1>2, <1>3, PTL DEF Spec

\* Whatever is interleaved with the recording of a credential's usage - other
\* recordings, revocations, edits of the policy, broken connections - what the
\* credential says was used is the sum of its usage rows, and each of them is a
\* priced row of the account's ledger (openai_credentials.go:183-228).
THEOREM SpecUsedIsRecorded == Spec => []UsedIsRecorded
<1>1. Init => IInv
  BY IInit
<1>2. IInv /\ [Next]_vars => IInv'
  BY IStep
<1>3. IInv => UsedIsRecorded
  BY DEF IInv
<1> QED BY <1>1, <1>2, <1>3, PTL DEF Spec

\* Only a revocation and the end of a recording write a credential: the first
\* needs it live, the second holds its row since it saw it live.
LEMMA DeadStays ==
    ASSUME IInv, [Next]_vars, NEW k \in Credentials, ~credential[k].live
    PROVE  UNCHANGED credential[k]
<1>1. ASSUME NEW c \in Calls, CallStep(c) \/ RecordUsageFails(c) PROVE UNCHANGED credential[k]
  <2>1. CASE LockCredential(c)
    BY <2>1 DEF LockCredential
  <2>2. CASE SaveCredential(c)
    <3>1. pc[c] = "save"
      BY <2>2 DEF SaveCredential
    <3>2. Credential[c] # k
      BY <3>1 DEF IInv, LockHeld
    <3> QED BY <2>2, <3>2 DEF SaveCredential, IInv, TypeOK
  <2>3. CASE PlainStep(c)
    BY <2>3, PlainFrame DEF IInv, keys
  <2> QED BY <1>1, <2>1, <2>2, <2>3 DEF CallStep, PlainStep
<1>2. ASSUME NEW c \in Calls, Disconnect(c) PROVE UNCHANGED credential[k]
  BY <1>2 DEF Disconnect
<1>3. ASSUME NEW j \in Credentials, RevokeCredential(j) PROVE UNCHANGED credential[k]
  BY <1>3 DEF RevokeCredential, IInv, TypeOK
<1>4. ASSUME NEW e \in Editors, ReadPolicyRow(e) \/ UpsertAccountPolicy(e)
      PROVE  UNCHANGED credential[k]
  BY <1>4 DEF ReadPolicyRow, UpsertAccountPolicy, keys
<1>5. CASE WalletCacheExpires \/ Settle \/ HourPasses \/ UNCHANGED vars
  BY <1>5 DEF WalletCacheExpires, Settle, HourPasses, vars, keys
<1> QED BY <1>1, <1>2, <1>3, <1>4, <1>5 DEF Next

\* A revoked credential is neither revived nor charged by a call that it had
\* let in (openai_credentials.go:119-129, 183-228).
THEOREM SpecRevokedStaysRevoked == Spec => RevokedStaysRevoked
<1>1. Init => IInv
  BY IInit
<1>2. IInv /\ [Next]_vars => IInv'
  BY IStep
<1>3. IInv /\ [Next]_vars
        => [\A k \in Credentials : ~credential[k].live => UNCHANGED credential[k]]_vars
  BY DeadStays
<1> QED BY <1>1, <1>2, <1>3, PTL DEF Spec, RevokedStaysRevoked
-----------------------------------------------------------------------------
(* What a call has on the ledger at each point of its way, and what was     *)
(* there when it was let in.                                                *)

Early(c) == \/ pc[c] \in {"identify", "credential", "policy", "wallet", "admit"}
            \/ pc[c] = "access" /\ c \notin Responses
Going(c) == \/ pc[c] \in {"build", "round", "record"}
            \/ pc[c] = "access" /\ c \in Responses

Stage(c) ==
    /\ row[c].state # "priced" => row[c].original = 0
    /\ Early(c) => row[c].state = "absent" /\ run[c] = None
    /\ Going(c) => row[c].state = "reserved" /\ (c \in Responses => run[c] = "running")
    /\ pc[c] \in {"build", "store", "close"} => c \in Responses
    /\ pc[c] \in {"store", "close"} => run[c] = "running" /\ (c \notin hit => row[c].state = "priced")
    /\ pc[c] = "close" => c \in answer
    /\ run[c] # None => c \in Responses
    /\ run[c] \in {"requires_action", "completed"} => c \in answer
    /\ pc[c] = "gone" => c \in hit
    /\ pc[c] \in {"answered", "withheld"} /\ c \notin hit => row[c].state = "priced"
    /\ pc[c] = "withheld" => c \notin Responses
    /\ pc[c] = "answered" => /\ c \in Responses => run[c] # "running"
                             /\ Credential[c] # None /\ c \notin Streams => item[c] # None
    /\ pc[c] \in {"refused", "failed"} => /\ row[c].state # "priced" /\ item[c] = None
                                          /\ row[c].state = "reserved" => run[c] = "failed"
                                          /\ run[c] # "running"

Stages == \A c \in Calls : Stage(c)

BelowRows(c) ==
    LET sameHour == {d \in seen[c].rows : row[d].hour = row[c].hour}
        sameDay  == {d \in seen[c].rows : Day(row[d].hour) = Day(row[c].hour)}
    IN  /\ local[c].hourly > 0 => Total(Original, sameHour) < local[c].hourly
        /\ DailyLimit > 0 => Total(Original, sameDay) < DailyLimit

BelowQuota(c) ==
    Credential[c] # None =>
        Limit[Credential[c]] = 0 \/ Total(Amount, seen[c].items) < Limit[Credential[c]]

Admitted(c) ==
    /\ \A d \in seen[c].rows  : row[d].state = "priced"
    /\ \A d \in seen[c].items : item[d] # None
    /\ row[c].state # "absent" => BelowRows(c) /\ BelowQuota(c)
    /\ pc[c] \in {"policy", "wallet", "admit"} => BelowQuota(c)

AdmitInv == \A c \in Calls : Admitted(c)

\* What a step does to a call's row and to what it was let in with.
Steady(c) ==
    /\ row'[c].state # "absent" =>
          \/ AdmitRun(c)
          \/ /\ row[c].state # "absent"
             /\ row'[c].hour = row[c].hour /\ local'[c].hourly = local[c].hourly
             /\ seen'[c] = seen[c]
    /\ row[c].state = "priced" => /\ row'[c].state = "priced"
                                  /\ row'[c].original = row[c].original
                                  /\ row'[c].hour = row[c].hour
    /\ item[c] # None => item'[c] = item[c]
    /\ seen'[c].rows = seen[c].rows \/ AdmitRun(c)
    /\ seen'[c].items = seen[c].items \/ AuthorizeCredential(c)
    /\ pc'[c] \in {"policy", "wallet", "admit"} =>
          \/ pc[c] \in {"policy", "wallet"} /\ seen'[c] = seen[c]
          \/ pc[c] = "admit" /\ pc'[c] = pc[c] /\ seen'[c] = seen[c]
          \/ Credential[c] = None
          \/ AuthorizeCredential(c)

\* A step that leaves a call where it is, and what its row counts for.
LEMMA Untouched ==
    ASSUME Stages, NEW d \in Calls,
           row'[d].state = row[d].state, row'[d].original = row[d].original,
           row'[d].hour = row[d].hour, item'[d] = item[d],
           pc'[d] = pc[d], local'[d] = local[d], seen'[d] = seen[d], run'[d] = run[d],
           d \in answer => d \in answer', d \in hit' <=> d \in hit
    PROVE  Stage(d)' /\ Steady(d)
<1>1. Stage(d)
  BY DEF Stages
<1>2. (Early(d)' <=> Early(d)) /\ (Going(d)' <=> Going(d))
  BY DEF Early, Going
<1>3. Stage(d)'
  BY <1>1, <1>2 DEF Stage
<1> QED BY <1>3 DEF Steady

LEMMA GiveUpEffect ==
    ASSUME TypeOK, NEW c \in Calls, NEW label \in Ended, GiveUp(c, label)
    PROVE  /\ pc'[c] = label
           /\ c \in Responses => row'[c] = row[c] /\ run'[c] = "failed"
           /\ c \notin Responses => /\ row'[c].state = "absent" /\ run'[c] = run[c]
                                    /\ row'[c].original = row[c].original
                                    /\ row'[c].hour = row[c].hour
           /\ \A d \in Calls \ {c} : run'[d] = run[d]
BY DEF GiveUp, Goto, CancelAuthorization, FailRun, TypeOK, Row

\* A step outside the credential's transaction.
LEMMA PlainStage ==
    ASSUME IInv, Stages, NEW c \in Calls, PlainStep(c)
    PROVE  Stage(c)' /\ Steady(c)
<1> DEFINE r == row[c]
           still == UNCHANGED <<hour, keys, answer, hit>>
           kept  == UNCHANGED <<row, run>>
<1>1. Stage(c) /\ item[c] = None /\ pc[c] \in Working \ {"spend", "save"} /\ UNCHANGED keys
  BY PlainFrame DEF Stages, IInv, Pending
<1>2. item'[c] = item[c]
  BY <1>1 DEF keys
<1>3. /\ row[c] \in Row /\ TypeOK
      /\ c \in Responses => Credential[c] = None
      /\ None # "running"
  BY GatewayAssumption DEF IInv, TypeOK, RunStatus
<1>4. CASE Identify(c)
  <2>1. /\ pc[c] = "identify" /\ pc'[c] \in {"refused", "access"} /\ c \notin Responses
        /\ UNCHANGED <<hour, row, local, run, answer, seen, hit>>
    BY <1>3, <1>4 DEF Identify, Goto, TypeOK, turns
  <2> QED BY <1>1, <1>2, <1>3, <2>1 DEF Stage, Steady, Early, Going
<1>5. CASE ExecuteResponse(c)
  <2>1. /\ pc[c] = "identify" /\ pc'[c] \in {"refused", "policy"} /\ c \in Responses
        /\ UNCHANGED <<hour, row, local, run, answer, seen, hit>>
    BY <1>3, <1>5 DEF ExecuteResponse, Goto, TypeOK, turns
  <2> QED BY <1>1, <1>2, <1>3, <2>1 DEF Stage, Steady, Early, Going
<1>6. CASE CheckAccess(c)
  <2>1. pc[c] = "access" /\ UNCHANGED <<hour, local, answer, seen, hit>>
    BY <1>6 DEF CheckAccess
  <2>2. CASE policy.blacklisted
    <3> DEFINE label == IF c \in Responses THEN "failed" ELSE "refused"
    <3>1. GiveUp(c, label) /\ label \in Ended
      BY <1>6, <2>2 DEF CheckAccess, Ended
    <3> QED BY <1>1, <1>2, <1>3, <2>1, <3>1, GiveUpEffect DEF Stage, Steady, Early, Going
  <2>3. CASE ~policy.blacklisted
    <3>1. pc'[c] = (IF c \in Responses THEN "round" ELSE "credential") /\ UNCHANGED <<row, run>>
      BY <1>3, <1>6, <2>3 DEF CheckAccess, Goto, TypeOK
    <3> QED BY <1>1, <1>2, <1>3, <2>1, <3>1 DEF Stage, Steady, Early, Going
  <2> QED BY <2>2, <2>3
<1>7. CASE AuthorizeCredential(c)
  <2>1. /\ pc[c] = "credential" /\ pc'[c] \in {"refused", "policy"}
        /\ UNCHANGED <<hour, row, local, run, answer, hit>>
        /\ seen'[c].rows = seen[c].rows
    BY <1>3, <1>7 DEF AuthorizeCredential, Goto, TypeOK, turns
  <2> QED BY <1>1, <1>2, <1>3, <1>7, <2>1 DEF Stage, Steady, Early, Going
<1>8. CASE ReadPolicy(c)
  <2>1. /\ pc[c] = "policy" /\ pc'[c] \in {"refused", "wallet", "admit"}
        /\ UNCHANGED <<hour, row, run, answer, seen, hit>>
    BY <1>3, <1>8 DEF ReadPolicy, Goto, TypeOK, turns
  <2> QED BY <1>1, <1>2, <1>3, <2>1 DEF Stage, Steady, Early, Going
<1>9. CASE RequirePaymentWallet(c)
  <2>1. /\ pc[c] = "wallet" /\ pc'[c] \in {"refused", "admit"}
        /\ UNCHANGED <<hour, row, local, run, answer, seen, hit>>
    BY <1>3, <1>9 DEF RequirePaymentWallet, Goto, TypeOK, turns
  <2> QED BY <1>1, <1>2, <1>3, <2>1 DEF Stage, Steady, Early, Going
<1>10. CASE AdmitRun(c)
  <2>1. pc[c] = "admit" /\ UNCHANGED <<hour, local, answer, hit>>
    BY <1>10 DEF AdmitRun
  <2>2. CASE pc'[c] = "refused" /\ UNCHANGED <<row, seen, run>>
    BY <1>1, <1>2, <1>3, <2>1, <2>2 DEF Stage, Steady, Early, Going
  <2>3. CASE /\ row' = [row EXCEPT ![c].state = "reserved", ![c].hour = hour]
             /\ seen' = [seen EXCEPT ![c].rows = Priced(c)]
             /\ Goto(c, IF c \in Responses THEN "build" ELSE "round")
             /\ run' = IF c \in Responses THEN [run EXCEPT ![c] = "running"] ELSE run
    <3>1. /\ row'[c].state = "reserved" /\ row'[c].original = row[c].original
          /\ pc'[c] = (IF c \in Responses THEN "build" ELSE "round")
          /\ run'[c] = IF c \in Responses THEN "running" ELSE run[c]
          /\ seen'[c].items = seen[c].items
      BY <1>3, <2>3 DEF Goto, TypeOK, Row
    <3> QED BY <1>1, <1>2, <1>3, <1>10, <2>1, <3>1 DEF Stage, Steady, Early, Going
  <2> QED BY <1>3, <1>10, <2>2, <2>3 DEF AdmitRun, Goto, TypeOK
<1>11. CASE BuildModelMessages(c)
  <2>1. pc[c] = "build" /\ UNCHANGED <<hour, local, answer, seen, hit>>
    BY <1>11 DEF BuildModelMessages
  <2>2. CASE GiveUp(c, "failed")
    <3>1. "failed" \in Ended
      BY DEF Ended
    <3> QED BY <1>1, <1>2, <1>3, <2>1, <2>2, <3>1, GiveUpEffect DEF Stage, Steady, Early, Going
  <2>3. CASE pc'[c] = "access" /\ UNCHANGED <<row, run>>
    BY <1>1, <1>2, <2>1, <2>3 DEF Stage, Steady, Early, Going
  <2> QED BY <1>3, <1>11, <2>2, <2>3 DEF BuildModelMessages, Goto, TypeOK
<1>12. CASE ServerToolRound(c)
  <2>1. /\ pc[c] = "round" /\ UNCHANGED <<hour, row, pc, run, answer, seen, hit>>
        /\ local'[c].hourly = local[c].hourly
    BY <1>3, <1>12 DEF ServerToolRound, turns, TypeOK, Local
  <2> QED BY <1>1, <1>2, <1>3, <2>1 DEF Stage, Steady, Early, Going
<1>13. CASE Finish(c)
  <2>1. /\ pc[c] = "round" /\ pc'[c] = "record" /\ UNCHANGED <<hour, row, run, answer, seen, hit>>
        /\ local'[c].hourly = local[c].hourly
    BY <1>3, <1>13 DEF Finish, Goto, turns, TypeOK, Local
  <2> QED BY <1>1, <1>2, <1>3, <2>1 DEF Stage, Steady, Early, Going
<1>14. CASE GenerationFails(c)
  <2>1. pc[c] = "round" /\ GiveUp(c, "failed") /\ UNCHANGED <<hour, local, answer, seen, hit>>
    BY <1>14 DEF GenerationFails
  <2>2. "failed" \in Ended
    BY DEF Ended
  <2> QED BY <1>1, <1>2, <1>3, <2>1, <2>2, GiveUpEffect DEF Stage, Steady, Early, Going
<1>15. ASSUME RecordUsage(c) \/ WallChargeFails(c)
       PROVE  Stage(c)' /\ Steady(c)
  <2>1. /\ pc[c] = "record" /\ Price(c) /\ UNCHANGED <<hour, local, run, answer, seen, hit>>
        /\ pc'[c] \in {AfterRecord(c), IF c \in Responses THEN "store" ELSE "withheld"}
    BY <1>3, <1>15 DEF RecordUsage, WallChargeFails, Goto, turns, TypeOK
  <2>2. row'[c].state = "priced" /\ row'[c].hour = row[c].hour
    BY <1>3, <2>1 DEF Price, TypeOK, Row
  <2>3. /\ AfterRecord(c) \in {"spend", "store", "answered"}
        /\ AfterRecord(c) = "store" => c \in Responses
        /\ AfterRecord(c) = "answered" => c \notin Responses /\ Credential[c] = None
    BY DEF AfterRecord
  <2> QED BY <1>1, <1>2, <1>3, <2>1, <2>2, <2>3 DEF Stage, Steady, Early, Going
<1>16. CASE RecordUsageFails(c)
  <2>1. /\ pc[c] = "record" /\ pc'[c] = (IF c \in Responses THEN "store" ELSE "gone") /\ c \in hit'
        /\ UNCHANGED <<hour, row, local, run, answer, seen>>
    BY <1>3, <1>16 DEF RecordUsageFails, Fault, Goto, turns, TypeOK
  <2> QED BY <1>1, <1>2, <1>3, <2>1 DEF Stage, Steady, Early, Going
<1>17. CASE StoreAnswer(c)
  <2>1. /\ pc[c] = "store" /\ pc'[c] = "close" /\ c \in answer'
        /\ UNCHANGED <<hour, row, local, run, seen, hit>>
    BY <1>3, <1>17 DEF StoreAnswer, Goto, TypeOK
  <2> QED BY <1>1, <1>2, <1>3, <2>1 DEF Stage, Steady, Early, Going
<1>18. CASE SaveRun(c)
  <2>1. /\ pc[c] = "close" /\ pc'[c] = "answered" /\ run'[c] \in {"requires_action", "completed"}
        /\ UNCHANGED <<hour, row, local, answer, seen, hit>>
    BY <1>3, <1>18 DEF SaveRun, Goto, TypeOK
  <2> QED BY <1>1, <1>2, <1>3, <2>1 DEF Stage, Steady, Early, Going
<1> QED BY <1>4, <1>5, <1>6, <1>7, <1>8, <1>9, <1>10, <1>11, <1>12, <1>13, <1>14, <1>15, <1>16,
           <1>17, <1>18 DEF PlainStep

LEMMA LockStage ==
    ASSUME IInv, Stages, NEW c \in Calls, LockCredential(c)
    PROVE  Stage(c)' /\ Steady(c)
<1>1. /\ Stage(c) /\ pc[c] = "spend" /\ item[c] = None /\ row[c].state = "priced"
      /\ Credential[c] \in Credentials
  BY DEF LockCredential, Stages, IInv, Pending, Keyed, Working
<1>2. /\ pc'[c] \in {"save", "answered", "withheld"}
      /\ pc'[c] = "answered" => c \in Streams
      /\ UNCHANGED <<row, item, run, answer, seen, hit>>
  BY <1>1 DEF LockCredential, Deliver, Goto, IInv, TypeOK, turns
<1>3. local'[c].hourly = local[c].hourly
  <2>1. local \in [Calls -> Local] /\ local[c] \in Local
    BY DEF IInv, TypeOK
  <2>2. CASE local' = [local EXCEPT ![c].used = credential[Credential[c]].used]
    <3>1. local'[c] = [local[c] EXCEPT !.used = credential[Credential[c]].used]
      BY <2>1, <2>2
    <3> QED BY <2>1, <3>1 DEF Local
  <2> QED BY <2>2 DEF LockCredential
<1>4. c \notin Responses
  BY <1>1, GatewayAssumption
<1> QED BY <1>1, <1>2, <1>3, <1>4 DEF Stage, Steady, Early, Going

LEMMA SaveStage ==
    ASSUME IInv, Stages, NEW c \in Calls, SaveCredential(c)
    PROVE  Stage(c)' /\ Steady(c)
<1>1. /\ Stage(c) /\ pc[c] = "save" /\ item[c] = None /\ row[c].state = "priced"
      /\ Credential[c] \in Credentials
  BY DEF SaveCredential, Stages, IInv, Pending, Keyed, Working
<1>2. /\ pc'[c] \in {"answered", "withheld"}
      /\ UNCHANGED <<row, local, run, answer, seen, hit>>
  BY <1>1 DEF SaveCredential, Deliver, Goto, IInv, TypeOK, turns
<1>3. item'[c] \in Nat /\ item'[c] # None
  BY GatewayAssumption DEF SaveCredential, IInv, TypeOK, Local
<1>4. c \notin Responses
  BY <1>1, GatewayAssumption
<1> QED BY <1>1, <1>2, <1>3, <1>4 DEF Stage, Steady, Early, Going

LEMMA DisconnectStage ==
    ASSUME IInv, Stages, NEW c \in Calls, Disconnect(c)
    PROVE  Stage(c)' /\ Steady(c)
<1>1. Stage(c) /\ pc[c] \in Working
  BY DEF Disconnect, Stages
<1>2. /\ pc'[c] = "gone" /\ c \in hit'
      /\ UNCHANGED <<row, item, local, run, answer, seen>>
  BY DEF Disconnect, Fault, Goto, IInv, TypeOK, turns
<1> QED BY <1>1, <1>2 DEF Stage, Steady, Early, Going

\* The step of a call leaves the others alone.
LEMMA OthersKept ==
    ASSUME IInv, NEW c \in Calls, CallStep(c) \/ RecordUsageFails(c) \/ Disconnect(c),
           NEW d \in Calls \ {c}
    PROVE  /\ Apart(c, d) /\ seen'[d] = seen[d] /\ run'[d] = run[d]
           /\ d \in answer => d \in answer'
           /\ d \in hit' <=> d \in hit
<1> USE DEF turns, bounds, keys
<1>1. TypeOK
  BY DEF IInv
<1>2. Apart(c, d)
  <2>1. CASE PlainStep(c)
    BY <1>1, <2>1, PlainFrame
  <2>2. CASE LockCredential(c)
    <3>1. pc'[d] = pc[d] /\ UNCHANGED <<row, item>>
      BY <1>1, <2>2 DEF LockCredential, Deliver, Goto, TypeOK
    <3>2. local'[d] = local[d]
      BY <1>1, <2>2 DEF LockCredential, TypeOK
    <3> QED BY <3>1, <3>2 DEF Apart
  <2>3. CASE SaveCredential(c)
    BY <1>1, <2>3 DEF SaveCredential, Deliver, Goto, TypeOK, Apart
  <2>4. CASE Disconnect(c)
    BY <1>1, <2>4 DEF Disconnect, Goto, TypeOK, Apart
  <2> QED BY <2>1, <2>2, <2>3, <2>4 DEF CallStep, PlainStep
<1>3. seen'[d] = seen[d]
  <2>1. CASE AuthorizeCredential(c)
    BY <1>1, <2>1 DEF AuthorizeCredential, TypeOK
  <2>2. CASE AdmitRun(c)
    BY <1>1, <2>2 DEF AdmitRun, TypeOK
  <2>3. CASE ~AuthorizeCredential(c) /\ ~AdmitRun(c)
    BY <2>3 DEF CallStep, RecordUsageFails, Disconnect, Identify, ExecuteResponse, CheckAccess,
       ReadPolicy, RequirePaymentWallet, BuildModelMessages, ServerToolRound, Finish,
       GenerationFails, RecordUsage, WallChargeFails, LockCredential, SaveCredential, StoreAnswer,
       SaveRun
  <2> QED BY <2>1, <2>2, <2>3
<1>4. run'[d] = run[d]
  <2>1. ASSUME NEW label, GiveUp(c, label) PROVE run'[d] = run[d]
    BY <1>1, <2>1 DEF GiveUp, FailRun, TypeOK
  <2>2. CASE CheckAccess(c) \/ BuildModelMessages(c) \/ GenerationFails(c)
    BY <2>1, <2>2 DEF CheckAccess, BuildModelMessages, GenerationFails
  <2>3. CASE AdmitRun(c)
    BY <1>1, <2>3 DEF AdmitRun, TypeOK
  <2>4. CASE SaveRun(c)
    BY <1>1, <2>4 DEF SaveRun, TypeOK
  <2> QED BY <2>2, <2>3, <2>4 DEF CallStep, RecordUsageFails, Disconnect, Identify,
       ExecuteResponse, AuthorizeCredential, ReadPolicy, RequirePaymentWallet, ServerToolRound,
       Finish, RecordUsage, WallChargeFails, LockCredential, SaveCredential, StoreAnswer
<1>5. d \in answer => d \in answer'
  BY DEF CallStep, RecordUsageFails, Disconnect, Identify, ExecuteResponse, CheckAccess,
       AuthorizeCredential, ReadPolicy, RequirePaymentWallet, AdmitRun, BuildModelMessages,
       ServerToolRound, Finish, GenerationFails, RecordUsage, WallChargeFails, LockCredential,
       SaveCredential, StoreAnswer, SaveRun
<1>6. d \in hit' <=> d \in hit
  BY DEF Fault, CallStep, RecordUsageFails, Disconnect, Identify, ExecuteResponse, CheckAccess,
       AuthorizeCredential, ReadPolicy, RequirePaymentWallet, AdmitRun, BuildModelMessages,
       ServerToolRound, Finish, GenerationFails, RecordUsage, WallChargeFails, LockCredential,
       SaveCredential, StoreAnswer, SaveRun
<1> QED BY <1>2, <1>3, <1>4, <1>5, <1>6

LEMMA StageStep ==
    ASSUME IInv, Stages, [Next]_vars
    PROVE  \A d \in Calls : Stage(d)' /\ Steady(d)
<1> SUFFICES ASSUME NEW d \in Calls PROVE Stage(d)' /\ Steady(d)
  OBVIOUS
<1>1. ASSUME NEW c \in Calls, CallStep(c) \/ RecordUsageFails(c) \/ Disconnect(c)
      PROVE  Stage(d)' /\ Steady(d)
  <2>1. CASE d = c
    BY <1>1, <2>1, PlainStage, LockStage, SaveStage, DisconnectStage DEF CallStep, PlainStep
  <2>2. CASE d # c
    BY <1>1, <2>2, OthersKept, Untouched DEF Apart
  <2> QED BY <2>1, <2>2
<1>2. ASSUME UNCHANGED <<item, pc, local, seen, turns, hit>>, UNCHANGED row \/ Settle
      PROVE  Stage(d)' /\ Steady(d)
  <2>1. row'[d].state = row[d].state /\ row'[d].original = row[d].original
        /\ row'[d].hour = row[d].hour
    BY <1>2 DEF Settle, IInv, TypeOK, Row
  <2> QED BY <1>2, <2>1, Untouched DEF turns
<1>3. ASSUME NEW k \in Credentials, RevokeCredential(k) PROVE Stage(d)' /\ Steady(d)
  BY <1>2, <1>3 DEF RevokeCredential
<1>4. ASSUME NEW e \in Editors, ReadPolicyRow(e) \/ UpsertAccountPolicy(e)
      PROVE  Stage(d)' /\ Steady(d)
  BY <1>2, <1>4 DEF ReadPolicyRow, UpsertAccountPolicy, keys
<1>5. CASE WalletCacheExpires \/ Settle \/ HourPasses \/ UNCHANGED vars
  BY <1>2, <1>5 DEF WalletCacheExpires, Settle, HourPasses, vars, keys
<1> QED BY <1>1, <1>3, <1>4, <1>5 DEF Next

LEMMA StageInit == Init => Stages
<1> SUFFICES ASSUME Init, NEW c \in Calls PROVE Stage(c)
  BY DEF Stages
<1>1. pc[c] = "identify" /\ row[c].state = "absent" /\ row[c].original = 0 /\ run[c] = None
  BY DEF Init
<1> QED BY <1>1, GatewayAssumption DEF Stage, Early, Going, RunStatus

\* A sum over fewer calls is no greater.
LEMMA TotalOfFewer ==
    ASSUME NEW S, IsFiniteSet(S), NEW T \in SUBSET S, NEW f, \A c \in S : f[c] \in Nat
    PROVE  Total(f, T) \in Nat /\ Total(f, S) \in Nat /\ Total(f, T) <= Total(f, S)
<1>1. Units(f, T) \subseteq Units(f, S)
  BY DEF Units
<1>2. IsFiniteSet(Units(f, S))
  BY UnitsFinite
<1>3. IsFiniteSet(Units(f, T)) /\ Cardinality(Units(f, T)) <= Cardinality(Units(f, S))
  BY <1>1, <1>2, FS_Subset
<1> QED BY <1>2, <1>3, FS_CardinalityType DEF Total

\* The rows a call was let in with count for what they did.
LEMMA RowsStand ==
    ASSUME NEW c \in Calls, Admitted(c), row[c].state # "absent",
           \A d \in Calls : Steady(d), seen[c].rows \subseteq Calls,
           row'[c].hour = row[c].hour, local'[c].hourly = local[c].hourly, seen'[c] = seen[c]
    PROVE  BelowRows(c)'
<1> DEFINE hourly == {d \in seen[c].rows : row[d].hour = row[c].hour}
           daily  == {d \in seen[c].rows : Day(row[d].hour) = Day(row[c].hour)}
<1>1. \A d \in seen[c].rows : row'[d].hour = row[d].hour /\ row'[d].original = row[d].original
  BY DEF Admitted, Steady
<1>2. /\ {d \in seen'[c].rows : row'[d].hour = row'[c].hour} = hourly
      /\ {d \in seen'[c].rows : Day(row'[d].hour) = Day(row'[c].hour)} = daily
  BY <1>1
<1>3. \A d \in seen[c].rows : Original'[d] = Original[d]
  BY <1>1 DEF Original
<1>4. /\ Total(Original', hourly) = Total(Original, hourly)
      /\ Total(Original', daily) = Total(Original, daily)
  BY <1>3, TotalSame
<1>5. BelowRows(c)
  BY DEF Admitted
<1>6. /\ local[c].hourly > 0 => Total(Original, hourly) < local[c].hourly
      /\ DailyLimit > 0 => Total(Original, daily) < DailyLimit
  BY <1>5 DEF BelowRows
<1>7. /\ local'[c].hourly > 0 =>
           Total(Original', {d \in seen'[c].rows : row'[d].hour = row'[c].hour}) < local'[c].hourly
      /\ DailyLimit > 0 =>
           Total(Original', {d \in seen'[c].rows : Day(row'[d].hour) = Day(row'[c].hour)}) < DailyLimit
  <2> HIDE DEF hourly, daily
  <2> QED BY <1>2, <1>4, <1>6
<1>8. /\ Total(Original, {d \in seen[c].rows : row[d].hour = row[c].hour})'
           = Total(Original', {d \in seen'[c].rows : row'[d].hour = row'[c].hour})
      /\ Total(Original, {d \in seen[c].rows : Day(row[d].hour) = Day(row[c].hour)})'
           = Total(Original', {d \in seen'[c].rows : Day(row'[d].hour) = Day(row'[c].hour)})
  BY DEF Total, Units, Day
<1> QED BY <1>7, <1>8 DEF BelowRows

LEMMA QuotaStands ==
    ASSUME NEW c \in Calls, BelowQuota(c), \A d \in seen[c].items : item[d] # None,
           \A d \in Calls : Steady(d), seen[c].items \subseteq Calls,
           seen'[c].items = seen[c].items
    PROVE  BelowQuota(c)'
<1>1. \A d \in seen[c].items : Amount'[d] = Amount[d]
  BY DEF Steady, Amount
<1>2. Total(Amount', seen[c].items) = Total(Amount, seen[c].items)
  BY <1>1, TotalSame
<1>3. Total(Amount, seen[c].items)' = Total(Amount', seen'[c].items)
  BY DEF Total, Units
<1> QED BY <1>2, <1>3 DEF BelowQuota

\* What the limit checks let in was below them.
LEMMA AdmitBelow ==
    ASSUME IInv, Stages, NEW c \in Calls, AdmitRun(c), row'[c].state # "absent"
    PROVE  /\ BelowRows(c)'
           /\ seen'[c].rows = Priced(c) /\ seen'[c].items = seen[c].items
           /\ \A d \in Priced(c) : d # c /\ row'[d] = row[d] /\ row[d].state = "priced"
<1>1. row[c].state = "absent" /\ row[c] \in Row /\ TypeOK
  BY DEF AdmitRun, Stages, Stage, Early, IInv, TypeOK
<1>2. /\ BelowLimit(ThisHour(c), local[c].hourly) /\ BelowLimit(ThisDay(c), DailyLimit)
      /\ row' = [row EXCEPT ![c].state = "reserved", ![c].hour = hour]
      /\ seen' = [seen EXCEPT ![c].rows = Priced(c)]
      /\ local' = local
  BY <1>1 DEF AdmitRun
<1>3. seen'[c].rows = Priced(c) /\ seen'[c].items = seen[c].items
  BY <1>1, <1>2 DEF TypeOK
<1>4. row'[c].hour = hour /\ \A d \in Priced(c) : d # c /\ row'[d] = row[d] /\ row[d].state = "priced"
  BY <1>1, <1>2 DEF TypeOK, Row, Priced
<1> DEFINE hourly == {d \in Priced(c) : row[d].hour = hour}
           daily  == {d \in Priced(c) : Day(row[d].hour) = Day(hour)}
           f == [d \in Calls |-> row[d].original]
<1>5. /\ IsFiniteSet(ThisHour(c)) /\ IsFiniteSet(ThisDay(c))
      /\ ThisHour(c) \subseteq Calls /\ ThisDay(c) \subseteq Calls
  BY GatewayAssumption, FS_Subset DEF ThisHour, ThisDay, Priced
<1>6. \A d \in Calls : f[d] \in Nat
  BY <1>1 DEF TypeOK, Row
<1>7. hourly \in SUBSET ThisHour(c) /\ daily \in SUBSET ThisDay(c)
  <2>1. \A d \in Calls : row[d].hour \in Nat /\ hour \in Nat
    BY <1>1 DEF TypeOK, Row
  <2>2. Day(hour) \in Int
    BY <2>1, GatewayAssumption DEF Day
  <2>3. hourly \subseteq ThisHour(c)
    BY <2>1 DEF ThisHour, Priced
  <2>4. daily \subseteq ThisDay(c)
    BY <2>2 DEF ThisDay
  <2> QED BY <2>3, <2>4
<1>8. /\ Total(f, hourly) \in Nat /\ Total(f, ThisHour(c)) \in Nat
      /\ Total(f, hourly) <= Total(f, ThisHour(c))
      /\ Total(f, daily) \in Nat /\ Total(f, ThisDay(c)) \in Nat
      /\ Total(f, daily) <= Total(f, ThisDay(c))
  <2> HIDE DEF hourly, daily, f
  <2> QED BY <1>5, <1>6, <1>7, TotalOfFewer
<1>9. /\ local[c].hourly > 0 => Total(f, hourly) < local[c].hourly
      /\ DailyLimit > 0 => Total(f, daily) < DailyLimit
  <2>1. /\ local[c].hourly > 0 => Total(f, ThisHour(c)) < local[c].hourly
        /\ DailyLimit > 0 => Total(f, ThisDay(c)) < DailyLimit
    BY <1>2 DEF BelowLimit, UsedAmount
  <2>2. local[c].hourly \in Nat /\ DailyLimit \in Nat
    BY <1>1, GatewayAssumption DEF TypeOK, Local
  <2> HIDE DEF hourly, daily, f
  <2> QED BY <1>8, <2>1, <2>2
<1>10. /\ Total(Original', hourly) = Total(f, hourly)
       /\ Total(Original', daily) = Total(f, daily)
  <2>1. \A d \in Priced(c) : Original'[d] = f[d]
    BY <1>4 DEF Original, Priced
  <2>2. (\A d \in hourly : Original'[d] = f[d]) /\ (\A d \in daily : Original'[d] = f[d])
    BY <2>1
  <2> HIDE DEF hourly, daily, f
  <2> QED BY <2>2, TotalSame
<1>11. /\ {d \in seen'[c].rows : row'[d].hour = row'[c].hour} = hourly
       /\ {d \in seen'[c].rows : Day(row'[d].hour) = Day(row'[c].hour)} = daily
  BY <1>3, <1>4
<1>12. /\ Total(Original, {d \in seen[c].rows : row[d].hour = row[c].hour})'
            = Total(Original', {d \in seen'[c].rows : row'[d].hour = row'[c].hour})
       /\ Total(Original, {d \in seen[c].rows : Day(row[d].hour) = Day(row[c].hour)})'
            = Total(Original', {d \in seen'[c].rows : Day(row'[d].hour) = Day(row'[c].hour)})
  BY DEF Total, Units, Day
<1>13. BelowRows(c)'
  <2>1. local'[c].hourly = local[c].hourly
    BY <1>2
  <2> HIDE DEF hourly, daily, f
  <2> QED BY <1>9, <1>10, <1>11, <1>12, <2>1 DEF BelowRows
<1> QED BY <1>3, <1>4, <1>13

\* What a credential lets in was below its quota.
LEMMA AuthorizeBelow ==
    ASSUME IInv, NEW c \in Calls, AuthorizeCredential(c)
    PROVE  /\ \A d \in seen'[c].items : item'[d] # None
           /\ pc'[c] \in {"policy", "wallet", "admit"} => BelowQuota(c)'
<1> DEFINE k == Credential[c]
           items == {d \in Calls : item[d] # None /\ Credential[d] = k}
<1>1. UNCHANGED item /\ seen'[c].items = items
  BY DEF AuthorizeCredential, IInv, TypeOK, keys
<1>2. ASSUME pc'[c] \in {"policy", "wallet", "admit"}, k # None
      PROVE  Limit[k] = 0 \/ Total(Amount, seen[c].items)' < Limit[k]
  <2>1. k \in Credentials
    BY <1>2, GatewayAssumption
  <2>2. ~UsedUp(k)
    BY <1>2 DEF AuthorizeCredential, Goto, IInv, TypeOK
  <2>3. credential[k].used = Total(Amount, items)
    <3>1. Items(k) = items
      BY DEF Items
    <3> QED BY <2>1, <3>1 DEF IInv, UsedIsRecorded
  <2>4. Total(Amount, seen[c].items)' = Total(Amount, items)
    BY <1>1 DEF Total, Units, Amount
  <2>5. Limit[k] \in Nat /\ credential[k].used \in Nat
    BY <2>1, GatewayAssumption DEF IInv, TypeOK, Access
  <2> HIDE DEF items, k
  <2> QED BY <2>2, <2>3, <2>4, <2>5 DEF UsedUp
<1> QED BY <1>1, <1>2 DEF BelowQuota

LEMMA AdmitStep ==
    ASSUME IInv, Stages, AdmitInv, \A d \in Calls : Steady(d), NEW c \in Calls
    PROVE  Admitted(c)'
<1>1. /\ Admitted(c) /\ Steady(c)
      /\ seen[c].rows \subseteq Calls /\ seen[c].items \subseteq Calls
  BY DEF AdmitInv, IInv, TypeOK
<1>2. \A d \in seen'[c].rows : row'[d].state = "priced"
  <2>1. CASE seen'[c].rows = seen[c].rows
    BY <1>1, <2>1 DEF Admitted, Steady
  <2>2. CASE AdmitRun(c) /\ row'[c].state = "absent"
    <3>1. row[c].state = "absent" /\ row[c] \in Row
      BY <2>2 DEF AdmitRun, Stages, Stage, Early, IInv, TypeOK
    <3>2. UNCHANGED seen
      BY <2>2, <3>1 DEF AdmitRun, IInv, TypeOK, Row
    <3> QED BY <1>1, <3>2 DEF Admitted, Steady
  <2>3. CASE AdmitRun(c) /\ row'[c].state # "absent"
    BY <2>3, AdmitBelow
  <2> QED BY <1>1, <2>1, <2>2, <2>3 DEF Steady
<1>3. \A d \in seen'[c].items : item'[d] # None
  BY <1>1, AuthorizeBelow DEF Admitted, Steady
<1>4. ASSUME row'[c].state # "absent" PROVE BelowRows(c)' /\ BelowQuota(c)'
  <2>1. CASE AdmitRun(c)
    <3>1. BelowRows(c)' /\ seen'[c].items = seen[c].items
      BY <1>4, <2>1, AdmitBelow
    <3>2. BelowQuota(c) /\ \A d \in seen[c].items : item[d] # None
      BY <1>1, <2>1 DEF AdmitRun, Admitted
    <3> QED BY <1>1, <3>1, <3>2, QuotaStands
  <2>2. CASE ~AdmitRun(c)
    <3>1. /\ row[c].state # "absent" /\ row'[c].hour = row[c].hour
          /\ local'[c].hourly = local[c].hourly /\ seen'[c] = seen[c]
      BY <1>1, <1>4, <2>2 DEF Steady
    <3>2. BelowQuota(c) /\ \A d \in seen[c].items : item[d] # None
      BY <1>1, <3>1 DEF Admitted
    <3> QED BY <1>1, <3>1, <3>2, RowsStand, QuotaStands
  <2> QED BY <2>1, <2>2
<1>5. ASSUME pc'[c] \in {"policy", "wallet", "admit"} PROVE BelowQuota(c)'
  <2>1. CASE pc[c] \in {"policy", "wallet", "admit"} /\ seen'[c] = seen[c]
    <3>1. BelowQuota(c) /\ \A d \in seen[c].items : item[d] # None
      BY <1>1, <2>1 DEF Admitted
    <3> QED BY <1>1, <2>1, <3>1, QuotaStands
  <2>2. CASE Credential[c] = None
    BY <2>2 DEF BelowQuota
  <2>3. CASE AuthorizeCredential(c)
    BY <1>5, <2>3, AuthorizeBelow
  <2> QED BY <1>1, <1>5, <2>1, <2>2, <2>3 DEF Steady
<1> QED BY <1>2, <1>3, <1>4, <1>5 DEF Admitted

LEMMA AdmitInit == Init => AdmitInv
BY DEF Init, AdmitInv, Admitted

LEMMA WholeInit == Init => IInv /\ Stages /\ AdmitInv
BY IInit, StageInit, AdmitInit

LEMMA WholeStep == IInv /\ Stages /\ AdmitInv /\ [Next]_vars => IInv' /\ Stages' /\ AdmitInv'
<1> SUFFICES ASSUME IInv, Stages, AdmitInv, [Next]_vars PROVE IInv' /\ Stages' /\ AdmitInv'
  OBVIOUS
<1>1. \A d \in Calls : Stage(d)' /\ Steady(d)
  BY StageStep
<1>2. IInv'
  BY IStep
<1>3. Stages'
  BY <1>1 DEF Stages
<1>4. AdmitInv'
  BY <1>1, AdmitStep DEF AdmitInv
<1> QED BY <1>2, <1>3, <1>4

\* Whoever records, settles, revokes or edits in between: a call is let in only
\* when what was on the ledger in its hour, its day and on its credential was
\* below the limits it was checked against (billing.go:349-389,
\* openai_credentials.go:159-161).
THEOREM SpecAdmittedBelowLimits == Spec => []AdmittedBelowLimits
<1>1. AdmitInv => AdmittedBelowLimits
  BY DEF AdmitInv, Admitted, BelowRows, BelowQuota, AdmittedBelowLimits
<1> QED BY <1>1, WholeInit, WholeStep, PTL DEF Spec

\* A call no fault hit left the ledger, its credential's items, its run and its
\* answer as it ended, at every interleaving of its statements with others'.
THEOREM SpecLedgerMatchesOutcome == Spec => []LedgerMatchesOutcome
<1>1. IInv /\ Stages => LedgerMatchesOutcome
  <2> SUFFICES ASSUME IInv, Stages, NEW c \in Calls \ hit
               PROVE  /\ pc[c] \in {"answered", "withheld"} => row[c].state = "priced"
                      /\ pc[c] = "answered" /\ Credential[c] # None /\ c \notin Streams => item[c] # None
                      /\ pc[c] \in {"refused", "failed"} =>
                            /\ row[c].original = 0 /\ item[c] = None
                            /\ row[c].state = "reserved" => run[c] = "failed"
                      /\ c \in Responses /\ pc[c] \in Ended => run[c] # "running"
                      /\ run[c] \in {"requires_action", "completed"} => c \in answer
    BY DEF LedgerMatchesOutcome
  <2>1. Stage(c)
    BY DEF Stages
  <2> QED BY <2>1 DEF Stage, Ended
<1> QED BY <1>1, WholeInit, WholeStep, PTL DEF Spec

-----------------------------------------------------------------------------
(* The policy.  While edits do not overlap, the row an edit read is the row *)
(* it replaces.                                                             *)

Alone ==
    SerialEdits => \A e \in Editors : draft[e] # None =>
        /\ draft[e].row = policy
        /\ \A other \in Editors : draft[other] # None => other = e

LEMMA AloneInit == Init => Alone
BY DEF Init, Alone

LEMMA AloneStep == TypeOK /\ Alone /\ [Next]_vars => Alone'
<1> SUFFICES ASSUME TypeOK, Alone, [Next]_vars PROVE Alone'
  OBVIOUS
<1>1. ASSUME UNCHANGED <<policy, draft>> PROVE Alone'
  BY <1>1 DEF Alone
<1>2. ASSUME NEW e \in Editors, ReadPolicyRow(e) PROVE Alone'
  <2>1. PICK kind \in EditKinds : draft' = [draft EXCEPT ![e] = [kind |-> kind, row |-> policy]]
    BY <1>2 DEF ReadPolicyRow
  <2>2. UNCHANGED policy /\ (SerialEdits => \A other \in Editors : draft[other] = None)
    BY <1>2 DEF ReadPolicyRow
  <2> QED BY <2>1, <2>2 DEF Alone, TypeOK
<1>3. ASSUME NEW e \in Editors, UpsertAccountPolicy(e) PROVE Alone'
  <2>1. draft' = [draft EXCEPT ![e] = None] /\ draft[e] # None
    BY <1>3 DEF UpsertAccountPolicy
  <2> QED BY <2>1 DEF Alone, TypeOK
<1>4. ASSUME NEW c \in Calls, CallStep(c) \/ RecordUsageFails(c) \/ Disconnect(c) PROVE Alone'
  <2>1. UNCHANGED <<policy, draft>>
    BY <1>4 DEF account, CallStep, RecordUsageFails, Disconnect, Identify, ExecuteResponse,
       CheckAccess, AuthorizeCredential, ReadPolicy, RequirePaymentWallet, AdmitRun,
       BuildModelMessages, ServerToolRound, Finish, GenerationFails, RecordUsage,
       WallChargeFails, LockCredential, SaveCredential, StoreAnswer, SaveRun
  <2> QED BY <1>1, <2>1
<1>5. ASSUME NEW k \in Credentials, RevokeCredential(k) PROVE Alone'
  BY <1>1, <1>5 DEF RevokeCredential, account
<1>6. CASE WalletCacheExpires \/ Settle \/ HourPasses \/ UNCHANGED vars
  BY <1>1, <1>6 DEF WalletCacheExpires, Settle, HourPasses, vars, account
<1> QED BY <1>2, <1>3, <1>4, <1>5, <1>6 DEF Next

LEMMA LiftingIsMeant ==
    ASSUME IInv, Alone, [Next]_vars, SerialEdits, policy.blacklisted, ~policy'.blacklisted
    PROVE  \E e \in Editors : draft[e] # None /\ draft[e].kind \in {"put", "clear"}
<1>1. PICK e \in Editors : UpsertAccountPolicy(e)
  <2>1. ASSUME UNCHANGED policy PROVE FALSE
    BY <2>1
  <2>2. ASSUME NEW c \in Calls, CallStep(c) \/ RecordUsageFails(c) \/ Disconnect(c) PROVE FALSE
    BY <2>1, <2>2 DEF account, CallStep, RecordUsageFails, Disconnect, Identify, ExecuteResponse,
       CheckAccess, AuthorizeCredential, ReadPolicy, RequirePaymentWallet, AdmitRun,
       BuildModelMessages, ServerToolRound, Finish, GenerationFails, RecordUsage,
       WallChargeFails, LockCredential, SaveCredential, StoreAnswer, SaveRun
  <2>3. ASSUME NEW k \in Credentials, RevokeCredential(k) PROVE FALSE
    BY <2>1, <2>3 DEF RevokeCredential, account
  <2>4. ASSUME NEW e \in Editors, ReadPolicyRow(e) PROVE FALSE
    BY <2>1, <2>4 DEF ReadPolicyRow
  <2>5. ASSUME WalletCacheExpires \/ Settle \/ HourPasses \/ UNCHANGED vars PROVE FALSE
    BY <2>1, <2>5 DEF WalletCacheExpires, Settle, HourPasses, vars, account
  <2> QED BY <2>2, <2>3, <2>4, <2>5 DEF Next
<1>2. /\ draft[e] # None /\ draft[e].row = policy /\ draft[e].kind \in EditKinds
      /\ policy \in Policy
      /\ policy' \in Edited(draft[e].kind, draft[e].row)
  BY <1>1 DEF UpsertAccountPolicy, Alone, IInv, TypeOK
<1>3. ASSUME draft[e].kind = "quota" PROVE FALSE
  <2>1. policy' \in SetMySpendingQuota(policy)
    BY <1>2, <1>3 DEF Edited
  <2> QED BY <1>2, <2>1 DEF SetMySpendingQuota, Policy
<1>4. ASSUME draft[e].kind = "blacklist" PROVE FALSE
  <2>1. policy' \in Blacklist(policy)
    BY <1>2, <1>4 DEF Edited
  <2> QED BY <1>2, <2>1 DEF Blacklist, Policy
<1> QED BY <1>2, <1>3, <1>4 DEF EditKinds

\* While edits do not overlap, only an administrator's form or a clearing lifts
\* a blacklisting: no quota saved at the same time does (handler/billing.go:149-181).
THEOREM SpecBlacklistingStands == Spec => BlacklistingStands
<1>1. Init => IInv /\ Alone
  BY IInit, AloneInit
<1>2. IInv /\ Alone /\ [Next]_vars => IInv' /\ Alone'
  BY IStep, AloneStep DEF IInv
<1>3. IInv /\ Alone /\ [Next]_vars
        => [SerialEdits /\ policy.blacklisted /\ ~policy'.blacklisted =>
              \E e \in Editors : draft[e] # None /\ draft[e].kind \in {"put", "clear"}]_vars
  BY LiftingIsMeant
<1> QED BY <1>1, <1>2, <1>3, PTL DEF Spec, BlacklistingStands
=============================================================================
