--------------------------- MODULE BillingProofs ---------------------------
(***************************************************************************)
(* What holds of Billing for every set of accounts, runs and prices, every *)
(* wall and every interleaving, proved with TLAPS.                         *)
(***************************************************************************)
EXTENDS Billing, FunctionTheorems, FiniteSetTheorems, TLAPS

-----------------------------------------------------------------------------
(* Sums.                                                                   *)

LEMMA FiniteUnits ==
    ASSUME NEW S, IsFiniteSet(S), NEW f, \A r \in S : f[r] \in Nat
    PROVE  IsFiniteSet(Units(f, S))
<1> DEFINE Slice(r) == {r} \X (1..f[r])
           g == [r \in S |-> Slice(r)]
           Slices == {Slice(r) : r \in S}
<1>1. IsFiniteSet(Slices)
  <2>1. g \in Surjection(S, Slices)
    BY DEF Surjection
  <2> QED BY <2>1, FS_Surjection
<1>2. ASSUME NEW T \in Slices PROVE IsFiniteSet(T)
  <2>1. PICK r \in S : T = Slice(r)
    OBVIOUS
  <2>2. IsFiniteSet({r})
    BY FS_Singleton, Zenon
  <2>3. f[r] \in Int /\ 1 \in Int
    OBVIOUS
  <2>4. IsFiniteSet(1..f[r])
    BY <2>3, FS_Interval, Zenon
  <2>5. IsFiniteSet(Slice(r))
    BY <2>2, <2>4, FS_Product, Zenon
  <2> QED BY <2>1, <2>5
<1> QED BY <1>1, <1>2, FS_UNION DEF Units

LEMMA TotalType ==
    ASSUME NEW S, IsFiniteSet(S), NEW f, \A r \in S : f[r] \in Nat
    PROVE  Total(f, S) \in Nat
BY FiniteUnits, FS_CardinalityType DEF Total

LEMMA TotalEmpty == ASSUME NEW f PROVE Total(f, {}) = 0
<1>1. Units(f, {}) = {}
  BY DEF Units
<1> QED BY <1>1, FS_EmptySet DEF Total

LEMMA TotalSame ==
    ASSUME NEW S, NEW f, NEW g, \A r \in S : f[r] = g[r]
    PROVE  Total(f, S) = Total(g, S)
BY DEF Total, Units

LEMMA TotalZero ==
    ASSUME NEW S, NEW f, \A r \in S : f[r] = 0
    PROVE  Total(f, S) = 0
<1>1. Units(f, S) = {}
  <2>1. 1..0 = {}
    OBVIOUS
  <2>2. ASSUME NEW u \in Units(f, S) PROVE FALSE
    <3>1. PICK r \in S : u \in {r} \X (1..f[r])
      BY <2>2 DEF Units
    <3>2. u \in {r} \X {}
      BY <2>1, <3>1
    <3> QED BY <3>2
  <2> QED BY <2>2
<1> QED BY <1>1, FS_EmptySet DEF Total

LEMMA TotalOne ==
    ASSUME NEW x, NEW f, f[x] \in Nat
    PROVE  Total(f, {x}) = f[x]
<1>1. Units(f, {x}) = {x} \X (1..f[x])
  BY DEF Units
<1>2. IsFiniteSet({x}) /\ Cardinality({x}) = 1
  BY FS_Singleton, Zenon
<1>3. IsFiniteSet(1..f[x]) /\ Cardinality(1..f[x]) = f[x]
  <2>1. 1 \in Int /\ f[x] \in Int
    OBVIOUS
  <2>2. IsFiniteSet(1..f[x]) /\ Cardinality(1..f[x]) = IF 1 > f[x] THEN 0 ELSE f[x] - 1 + 1
    BY <2>1, FS_Interval, Zenon
  <2> QED BY <2>2
<1>4. Cardinality({x} \X (1..f[x])) = Cardinality({x}) * Cardinality(1..f[x])
  BY <1>2, <1>3, FS_Product, Zenon
<1>5. Total(f, {x}) = Cardinality({x} \X (1..f[x]))
  BY <1>1 DEF Total
<1> QED BY <1>2, <1>3, <1>4, <1>5

LEMMA TotalSplit ==
    ASSUME NEW S, IsFiniteSet(S), NEW T, IsFiniteSet(T), S \cap T = {},
           NEW f, \A r \in S \cup T : f[r] \in Nat
    PROVE  Total(f, S \cup T) = Total(f, S) + Total(f, T)
<1>1. IsFiniteSet(Units(f, S)) /\ IsFiniteSet(Units(f, T))
  BY FiniteUnits
<1>2. Units(f, S \cup T) = Units(f, S) \cup Units(f, T)
  BY DEF Units
<1>3. Units(f, S) \cap Units(f, T) = {}
  BY DEF Units
<1>4. Cardinality(Units(f, S) \cup Units(f, T))
        = Cardinality(Units(f, S)) + Cardinality(Units(f, T))
          - Cardinality(Units(f, S) \cap Units(f, T))
  BY <1>1, FS_Union
<1>5. Cardinality(Units(f, S) \cap Units(f, T)) = 0
  BY <1>3, FS_EmptySet
<1>6. Cardinality(Units(f, S)) \in Nat /\ Cardinality(Units(f, T)) \in Nat
  BY <1>1, FS_CardinalityType
<1>7. /\ Total(f, S \cup T) = Cardinality(Units(f, S) \cup Units(f, T))
      /\ Total(f, S) = Cardinality(Units(f, S))
      /\ Total(f, T) = Cardinality(Units(f, T))
  BY <1>2 DEF Total
<1> QED BY <1>4, <1>5, <1>6, <1>7

\* Members that contribute nothing need not be in the larger set.
LEMMA TotalCovered ==
    ASSUME NEW T, IsFiniteSet(T), NEW S, NEW f, NEW g, \A r \in T : g[r] \in Nat,
           \A r \in S : f[r] \in Nat /\ (f[r] > 0 => r \in T /\ f[r] <= g[r])
    PROVE  Total(f, S) <= Total(g, T)
<1>1. IsFiniteSet(Units(g, T))
  BY FiniteUnits
<1>2. Units(f, S) \in SUBSET Units(g, T)
  <2>1. ASSUME NEW u \in Units(f, S) PROVE u \in Units(g, T)
    <3>1. PICK r \in S : u \in {r} \X (1..f[r])
      BY DEF Units
    <3>2. r \in T /\ u \in {r} \X (1..g[r])
      <4>1. PICK i \in 1..f[r] : u = <<r, i>>
        BY <3>1
      <4>2. f[r] \in Nat /\ i \in Int /\ 1 <= i /\ i <= f[r]
        BY <3>1, <4>1
      <4>3. r \in T /\ f[r] <= g[r] /\ g[r] \in Nat
        BY <3>1, <4>2
      <4>4. i \in 1..g[r]
        BY <4>2, <4>3
      <4> QED BY <4>1, <4>3, <4>4
    <3> QED BY <3>2 DEF Units
  <2> QED BY <2>1
<1> QED BY <1>1, <1>2, FS_Subset DEF Total

LEMMA TotalMono ==
    ASSUME NEW T, IsFiniteSet(T), NEW S \in SUBSET T, NEW f, NEW g,
           \A r \in T : g[r] \in Nat, \A r \in S : f[r] \in Nat /\ f[r] <= g[r]
    PROVE  Total(f, S) <= Total(g, T)
BY TotalCovered

\* The total of a sum is the sum of the totals: the units of g are stacked on
\* those of f.
LEMMA TotalAdd ==
    ASSUME NEW S, IsFiniteSet(S), NEW f, NEW g, NEW h,
           \A r \in S : f[r] \in Nat /\ g[r] \in Nat /\ h[r] = f[r] + g[r]
    PROVE  Total(h, S) = Total(f, S) + Total(g, S)
<1> DEFINE up == Units(h, S) \ Units(f, S)
           m  == [u \in Units(g, S) |-> <<u[1], f[u[1]] + u[2]>>]
<1>1. ASSUME NEW k, \A r \in S : k[r] \in Nat, NEW u
      PROVE  u \in Units(k, S) <=>
                 \E r \in S, j \in Nat : u = <<r, j>> /\ 1 <= j /\ j <= k[r]
  <2>1. ASSUME NEW r \in S, u \in {r} \X (1..k[r])
        PROVE  \E j \in Nat : u = <<r, j>> /\ 1 <= j /\ j <= k[r]
    <3>1. PICK j \in 1..k[r] : u = <<r, j>>
      BY <2>1
    <3> QED BY <1>1, <3>1
  <2>2. ASSUME NEW r \in S, NEW j \in Nat, u = <<r, j>>, 1 <= j, j <= k[r]
        PROVE  u \in {r} \X (1..k[r])
    <3>1. j \in 1..k[r]
      BY <1>1, <2>2
    <3> QED BY <2>2, <3>1
  <2> QED BY <2>1, <2>2 DEF Units
<1>2. \A r \in S : f[r] \in Nat /\ g[r] \in Nat /\ h[r] \in Nat
  OBVIOUS
<1>3. IsFiniteSet(Units(f, S)) /\ IsFiniteSet(Units(g, S)) /\ IsFiniteSet(Units(h, S))
  BY <1>2, FiniteUnits
<1>4. Units(f, S) \subseteq Units(h, S)
  <2> SUFFICES ASSUME NEW u \in Units(f, S) PROVE u \in Units(h, S)
    OBVIOUS
  <2>1. PICK r \in S, j \in Nat : u = <<r, j>> /\ 1 <= j /\ j <= f[r]
    BY <1>1, <1>2
  <2>2. j <= h[r]
    BY <2>1
  <2> QED BY <1>1, <1>2, <2>1, <2>2
<1>5. ASSUME NEW u \in Units(g, S) PROVE m[u] \in up
  <2>1. PICK r \in S, j \in Nat : u = <<r, j>> /\ 1 <= j /\ j <= g[r]
    BY <1>1, <1>2
  <2>2. m[u] = <<r, f[r] + j>> /\ f[r] + j \in Nat /\ 1 <= f[r] + j /\ f[r] + j <= h[r]
    BY <2>1
  <2>3. m[u] \in Units(h, S)
    BY <1>1, <1>2, <2>2
  <2>4. m[u] \notin Units(f, S)
    <3> SUFFICES ASSUME m[u] \in Units(f, S) PROVE FALSE
      OBVIOUS
    <3>1. PICK q \in S, i \in Nat : m[u] = <<q, i>> /\ i <= f[q]
      BY <1>1, <1>2
    <3> QED BY <2>1, <2>2, <3>1
  <2> QED BY <2>3, <2>4
<1>6. ASSUME NEW u \in Units(g, S), NEW v \in Units(g, S), m[u] = m[v] PROVE u = v
  <2>1. PICK r \in S, j \in Nat : u = <<r, j>>
    BY <1>1, <1>2
  <2>2. PICK q \in S, i \in Nat : v = <<q, i>>
    BY <1>1, <1>2
  <2>3. r = q /\ f[r] + j = f[q] + i
    BY <1>6, <2>1, <2>2
  <2> QED BY <2>1, <2>2, <2>3
<1>7. ASSUME NEW v \in up PROVE \E u \in Units(g, S) : m[u] = v
  <2>1. PICK r \in S, j \in Nat : v = <<r, j>> /\ 1 <= j /\ j <= h[r]
    BY <1>1, <1>2
  <2>2. ~(j <= f[r])
    BY <1>1, <1>2, <2>1
  <2>3. j - f[r] \in Nat /\ 1 <= j - f[r] /\ j - f[r] <= g[r] /\ f[r] + (j - f[r]) = j
    BY <2>1, <2>2
  <2>4. <<r, j - f[r]>> \in Units(g, S)
    BY <1>1, <1>2, <2>3
  <2>5. m[<<r, j - f[r]>>] = v
    BY <2>1, <2>3, <2>4
  <2> QED BY <2>4, <2>5
<1>8. ExistsBijection(Units(g, S), up)
  <2>1. m \in [Units(g, S) -> up]
    BY <1>5
  <2> HIDE DEF m, up
  <2>2. m \in Injection(Units(g, S), up)
    BY <1>6, <2>1, Fun_IsInj
  <2>3. m \in Surjection(Units(g, S), up)
    BY <1>7, <2>1, Fun_IsSurj
  <2> QED BY <2>2, <2>3 DEF ExistsBijection, Bijection
<1>9. IsFiniteSet(up) /\ Cardinality(up) = Cardinality(Units(g, S))
  BY <1>3, <1>8, FS_Bijection
<1>10. Units(h, S) \cap Units(f, S) = Units(f, S)
  BY <1>4
<1>11. Cardinality(up) = Cardinality(Units(h, S)) - Cardinality(Units(f, S))
  <2>1. Cardinality(up)
          = Cardinality(Units(h, S)) - Cardinality(Units(h, S) \cap Units(f, S))
    BY <1>3, FS_Difference, Zenon
  <2> QED BY <1>10, <2>1, Zenon
<1>12. /\ Cardinality(Units(f, S)) \in Nat /\ Cardinality(Units(g, S)) \in Nat
       /\ Cardinality(Units(h, S)) \in Nat
  BY <1>3, FS_CardinalityType
<1>13. /\ Total(f, S) = Cardinality(Units(f, S))
       /\ Total(g, S) = Cardinality(Units(g, S))
       /\ Total(h, S) = Cardinality(Units(h, S))
  BY DEF Total
<1> QED
  <2> HIDE DEF up
  <2>1. Cardinality(Units(g, S)) = Cardinality(Units(h, S)) - Cardinality(Units(f, S))
    BY <1>9, <1>11, Zenon
  <2> QED BY <1>12, <1>13, <2>1

\* What one member contributes.
LEMMA TotalWith ==
    ASSUME NEW S, IsFiniteSet(S), NEW x \in S, NEW f, \A r \in S : f[r] \in Nat
    PROVE  Total(f, S) = Total(f, S \ {x}) + f[x]
<1>1. IsFiniteSet(S \ {x}) /\ IsFiniteSet({x}) /\ S = (S \ {x}) \cup {x}
  BY FS_Subset, FS_Singleton
<1>2. Total(f, (S \ {x}) \cup {x}) = Total(f, S \ {x}) + Total(f, {x})
  BY <1>1, TotalSplit
<1> QED BY <1>1, <1>2, TotalOne

LEMMA FloorType ==
    ASSUME NEW n \in Nat
    PROVE  /\ FloorCurrencyAmount(n) \in Nat
           /\ FloorCurrencyAmount(n) <= n
<1>1. n % Cent \in Nat /\ n % Cent <= n
  BY BillingAssumption
<1> QED BY <1>1 DEF FloorCurrencyAmount

\* What Wallet can transfer of n is whole Wallet units, all but a rest.
LEMMA FloorWhole ==
    ASSUME NEW n \in Nat
    PROVE  /\ FloorCurrencyAmount(n) % Cent = 0
           /\ n - FloorCurrencyAmount(n) < Cent
<1>1. /\ n = Cent * (n \div Cent) + (n % Cent)
      /\ n \div Cent \in Nat /\ n % Cent \in Nat /\ n % Cent < Cent
  BY BillingAssumption
<1>2. (Cent * (n \div Cent)) % Cent = 0
  BY <1>1, BillingAssumption
<1>3. FloorCurrencyAmount(n) = Cent * (n \div Cent) /\ n - FloorCurrencyAmount(n) = n % Cent
  <2>1. Cent * (n \div Cent) \in Nat
    BY <1>1, BillingAssumption
  <2> QED BY <1>1, <2>1 DEF FloorCurrencyAmount
<1> QED BY <1>1, <1>2, <1>3

LEMMA SubsetOfRuns ==
    ASSUME NEW S \in SUBSET Runs
    PROVE  IsFiniteSet(S)
BY BillingAssumption, FS_Subset

-----------------------------------------------------------------------------
(* Type correctness.                                                       *)

LEMMA SnapshotType ==
    ASSUME TypeOK, NEW p \in Procs
    PROVE  Snapshot(p) \in Charge
<1> DEFINE rows == UnpaidRows(chg[p].account, chg[p].currency, chg[p].before)
<1>1. rows \in SUBSET Runs
  BY DEF UnpaidRows
<1>2. \A r \in rows : Amounts[r] \in Nat
  BY <1>1 DEF Amounts, TypeOK, UsageRow
<1>3. FloorCurrencyAmount(Total(Amounts, rows)) \in Nat
  BY <1>1, <1>2, SubsetOfRuns, TotalType, FloorType
<1>4. [r \in Runs |-> IF r \in rows THEN usage[r].amount ELSE 0] \in [Runs -> Nat]
  BY DEF TypeOK, UsageRow
<1>5. chg[p] \in Charge
  BY DEF TypeOK
<1> HIDE DEF rows
<1> QED BY <1>1, <1>3, <1>4, <1>5 DEF Snapshot, Charge, rows

LEMMA NoChargeType == NoCharge \in Charge
BY DEF NoCharge, Charge

LEMMA RemainingType ==
    ASSUME TypeOK, NEW p \in Procs, NEW full \in SUBSET Runs
    PROVE  Remaining(chg[p], full) \in Int
<1>1. chg[p].owed \in [Runs -> Nat] /\ chg[p].amount \in Nat
  BY DEF TypeOK, Charge
<1>2. Total(chg[p].owed, full) \in Nat
  BY <1>1, SubsetOfRuns, TotalType
<1> QED BY <1>1, <1>2 DEF Remaining

\* What Commit writes keeps every row well formed.
LEMMA SettledType ==
    ASSUME TypeOK, NEW p \in Procs, NEW full \in SUBSET chg[p].rows,
           NEW part \in chg[p].rows \cup {None},
           IsAllocation(chg[p], full, part)
    PROVE  /\ Settled(chg[p], full, part) \in [Runs -> UsageRow]
           /\ Allocated(chg[p], full, part) \in [Runs -> Nat]
<1>1. chg[p].owed \in [Runs -> Nat] /\ chg[p].tx \in Nat /\ chg[p].rows \subseteq Runs
  BY DEF TypeOK, Charge
<1>2. Remaining(chg[p], full) \in Int
  BY <1>1, RemainingType
<1>3. part \in Runs => /\ Remaining(chg[p], full) > 0
                       /\ Remaining(chg[p], full) < chg[p].owed[part]
  BY BillingAssumption DEF IsAllocation
<1>4. ASSUME NEW r \in Runs PROVE Settled(chg[p], full, part)[r] \in UsageRow
  <2>1. usage[r] \in UsageRow
    BY DEF TypeOK
  <2>2. Stamped(usage[r], chg[p].tx) \in UsageRow
    BY <1>1, <2>1 DEF Stamped, UsageRow
  <2>3. r = part => KeepRemainder(usage[r], chg[p].owed[r] - Remaining(chg[p], full)) \in UsageRow
    BY <1>1, <1>2, <1>3, <2>1 DEF KeepRemainder, UsageRow
  <2> QED BY <2>1, <2>2, <2>3 DEF Settled
<1>5. ASSUME NEW r \in Runs PROVE Allocated(chg[p], full, part)[r] \in Nat
  BY <1>1, <1>2, <1>3 DEF Allocated
<1> QED BY <1>4, <1>5 DEF Settled, Allocated

\* A process inside chargeAccount knows whom it is charging; without this a
\* recorded payment would not be well formed.
ChargesNamed ==
    \A p \in Procs : pc[p] \in {"read", "wallet", "commit"} =>
        chg[p].account \in Accounts /\ chg[p].currency \in Currencies

TypeInv == TypeOK /\ ChargesNamed

LEMMA TypeInit == Init => TypeInv
<1>1. Init => TypeOK
  BY BillingAssumption, NoChargeType
     DEF Init, TypeOK, UsageRow, RowStates, Procs, Keys
<1>2. Init => ChargesNamed
  BY DEF Init, ChargesNamed, Procs
<1> QED BY <1>1, <1>2 DEF TypeInv

\* The two ways out of chargeAccount keep the variables they write typed.
LEMMA ChargeEndType ==
    ASSUME TypeOK, NEW p \in Procs, ChargeSucceeded(p) \/ ChargeFailed(p)
    PROVE  /\ pc' \in [Procs -> {"new", "authorized", "running", "wall", "read",
                                 "wallet", "commit", "loop", "idle", "done"}]
           /\ chg' \in [Procs -> Charge]
           /\ todo' \in [Procs -> SUBSET Keys]
           /\ wakeDay' \in Nat
           /\ due' \in [Settlers -> SUBSET Runs]
<1>1. LoopLocals(p) \in Charge
  BY DEF LoopLocals, NoCharge, Charge, TypeOK
<1> QED BY <1>1, NoChargeType
     DEF TypeOK, ChargeSucceeded, ChargeFailed, Goto, SetCharge, NextMidnight


LEMMA PricedType ==
    ASSUME NEW r \in Runs, NEW price \in Priced(r)
    PROVE  price.currency \in Currencies /\ price.amount \in Nat
<1>1. ModelCurrency[r] \in Currencies /\ DefaultCurrency \in Currencies
  BY BillingAssumption
<1>2. CASE price \in [currency : {ModelCurrency[r]}, amount : Prices]
  BY <1>1, <1>2, BillingAssumption
<1>3. CASE price = [currency |-> DefaultCurrency, amount |-> 0]
  BY <1>1, <1>3
<1> QED BY <1>2, <1>3 DEF Priced

LEMMA DebitType ==
    ASSUME TypeOK, NEW p \in Procs, Debit(p)
    PROVE  wallet' \in [Keys -> Nat] /\ lastTx' \in Nat
<1> DEFINE k == <<chg[p].account, chg[p].currency>>
<1>1. chg[p].amount \in Nat
  BY DEF TypeOK, Charge
<1>2. lastTx' \in Nat
  BY DEF Debit, TypeOK
<1>3. wallet' = [wallet EXCEPT ![k] = @ + chg[p].amount]
  BY DEF Debit
<1>4. wallet \in [Keys -> Nat]
  BY DEF TypeOK
<1> HIDE DEF k
<1>5. ASSUME NEW x \in Keys PROVE wallet'[x] \in Nat
  BY <1>1, <1>3, <1>4
<1>6. wallet' = [x \in Keys |-> wallet'[x]]
  BY <1>3, <1>4
<1> QED BY <1>2, <1>5, <1>6

LEMMA ChargeOfFields ==
    ASSUME NEW a, NEW c, NEW b
    PROVE  /\ ChargeOf(a, c, b).account = a
           /\ ChargeOf(a, c, b).currency = c
           /\ ChargeOf(a, c, b).before = b
           /\ a \in Accounts /\ c \in Currencies /\ b \in Nat \cup {None}
                 => ChargeOf(a, c, b) \in Charge
BY DEF ChargeOf, NoCharge, Charge

LEMMA SnapshotFields ==
    ASSUME TypeOK, NEW p \in Procs
    PROVE  /\ Snapshot(p).account = chg[p].account
           /\ Snapshot(p).currency = chg[p].currency
           /\ Snapshot(p).rows = UnpaidRows(chg[p].account, chg[p].currency, chg[p].before)
           /\ Snapshot(p).owed = [r \in Runs |-> IF r \in Snapshot(p).rows
                                                 THEN usage[r].amount ELSE 0]
BY DEF Snapshot, TypeOK, Charge

LEMMA WithTxType ==
    ASSUME TypeOK, NEW p \in Procs, NEW n \in Nat
    PROVE  /\ [chg[p] EXCEPT !.tx = n] \in Charge
           /\ [chg[p] EXCEPT !.tx = n].account = chg[p].account
           /\ [chg[p] EXCEPT !.tx = n].currency = chg[p].currency
           /\ [chg[p] EXCEPT !.tx = n].rows = chg[p].rows
           /\ [chg[p] EXCEPT !.tx = n].owed = chg[p].owed
           /\ [chg[p] EXCEPT !.tx = n].amount = chg[p].amount
BY DEF TypeOK, Charge

LEMMA TypeStep == TypeInv /\ [Next]_vars => TypeOK'
<1> SUFFICES ASSUME TypeOK, ChargesNamed, [Next]_vars PROVE TypeOK'
  BY DEF TypeInv
<1> USE DEF ledger, external
<1>1. ASSUME NEW r \in Runs, RunStep(r) PROVE TypeOK'
  <2> r \in Procs
    BY DEF Procs
  <2>1. CASE Authorize(r)
    BY <2>1 DEF Authorize, Goto, SetCharge, TypeOK
  <2>2. CASE ReserveRow(r)
    <3>1. Row("reserved", ModelCurrency[r], 0, None, day) \in UsageRow
      BY BillingAssumption DEF Row, UsageRow, RowStates, TypeOK
    <3> QED BY <2>2, <3>1 DEF ReserveRow, Goto, SetCharge, TypeOK
  <2>3. CASE CancelAuthorization(r)
    BY <2>3 DEF CancelAuthorization, Goto, SetCharge, TypeOK, UsageRow, RowStates
  <2>4. CASE AbandonReservation(r)
    BY <2>4 DEF AbandonReservation, Goto, SetCharge, TypeOK
  <2>5. CASE RecordUsage(r)
    <3>1. PICK price \in Priced(r) :
            usage' = [usage EXCEPT ![r] = Row("priced", price.currency, price.amount,
                                              usage[r].payment, usage[r].day)]
      BY <2>5 DEF RecordUsage
    <3>2. Row("priced", price.currency, price.amount, usage[r].payment, usage[r].day)
             \in UsageRow
      BY PricedType DEF Row, UsageRow, RowStates, TypeOK
    <3> QED BY <2>5, <3>1, <3>2 DEF RecordUsage, Goto, SetCharge, TypeOK
  <2>6. CASE ChargeAction(r)
    <3>1. PICK amount \in Prices \ {0} :
            usage' = [usage EXCEPT ![r] = Row("priced", DefaultCurrency, amount, None, day)]
      BY <2>6 DEF ChargeAction
    <3>2. Row("priced", DefaultCurrency, amount, None, day) \in UsageRow
      BY BillingAssumption DEF Row, UsageRow, RowStates, TypeOK
    <3> QED BY <2>6, <3>1, <3>2 DEF ChargeAction, Goto, SetCharge, TypeOK
  <2>7. CASE ApplyInstantWall(r)
    <3>1. ChargeOf(Owner[r], usage[r].currency, None) \in Charge
      BY ChargeOfFields, BillingAssumption DEF TypeOK, UsageRow
    <3> QED BY <2>7, <3>1 DEF ApplyInstantWall, Goto, SetCharge, TypeOK
  <2> QED BY <1>1, <2>1, <2>2, <2>3, <2>4, <2>5, <2>6, <2>7 DEF RunStep
<1>2. ASSUME NEW p \in Procs, ChargeRead(p) PROVE TypeOK'
  <2>1. CASE Snapshot(p).amount = 0
    BY <1>2, <2>1, ChargeEndType DEF ChargeRead, TypeOK
  <2>2. CASE Snapshot(p).amount # 0
    BY <1>2, <2>2, SnapshotType DEF ChargeRead, Goto, SetCharge, TypeOK
  <2> QED BY <2>1, <2>2
<1>3. ASSUME NEW p \in Procs, Commit(p) PROVE TypeOK'
  <2>1. PICK full \in SUBSET chg[p].rows, part \in chg[p].rows \cup {None} :
          /\ IsAllocation(chg[p], full, part)
          /\ usage' = Settled(chg[p], full, part)
          /\ collected' = [r \in Runs |-> collected[r] + Allocated(chg[p], full, part)[r]]
    BY <1>3 DEF Commit
  <2>2. usage' \in [Runs -> UsageRow] /\ collected' \in [Runs -> Nat]
    <3>1. /\ Settled(chg[p], full, part) \in [Runs -> UsageRow]
          /\ Allocated(chg[p], full, part) \in [Runs -> Nat]
      BY <2>1, SettledType
    <3>2. collected \in [Runs -> Nat]
      BY DEF TypeOK
    <3> HIDE DEF UsageRow
    <3> QED BY <2>1, <3>1, <3>2
  <2>3. ChargeSucceeded(p)
    BY <1>3 DEF Commit
  <2>4. payments' \subseteq Payment
    <3>1. chg[p].account \in Accounts /\ chg[p].currency \in Currencies
      BY <1>3 DEF Commit, ChargesNamed
    <3>2. PaymentFor(chg[p]) \in Payment
      BY <3>1 DEF PaymentFor, Payment, TypeOK, Charge
    <3> QED BY <1>3, <3>2 DEF Commit, TypeOK
  <2> QED BY <1>3, <2>2, <2>3, <2>4, ChargeEndType DEF Commit, TypeOK
<1>4. ASSUME NEW p \in Procs, WalletStep(p) PROVE TypeOK'
  <2>1. CASE WalletAccepts(p)
    <3>0. lastTx + 1 \in Nat
      BY DEF TypeOK
    <3>1. [chg[p] EXCEPT !.tx = lastTx + 1] \in Charge
      BY <3>0, WithTxType
    <3> QED BY <2>1, <3>1, DebitType DEF WalletAccepts, Goto, SetCharge, TypeOK
  <2>2. CASE WalletRejects(p)
    BY <2>2, ChargeEndType DEF WalletRejects, Blacklist, TypeOK
  <2> QED BY <1>4, <2>1, <2>2 DEF WalletStep
<1>5. ASSUME NEW m \in Settlers, SettleStep(m) PROVE TypeOK'
  <2> m \in Procs
    BY DEF Procs
  <2>1. CASE SettleStart(m)
    <3>1. \A a \in Accounts : [NoCharge EXCEPT !.account = a] \in Charge
      BY DEF NoCharge, Charge
    <3> QED BY <2>1, <3>1 DEF SettleStart, UnpaidKeys, Goto, SetCharge, TypeOK
  <2>2. CASE SettleNext(m)
    <3>1. \A k \in Keys : ChargeOf(k[1], k[2], None) \in Charge
      BY ChargeOfFields DEF Keys
    <3> QED BY <2>2, <3>1 DEF SettleNext, Goto, SetCharge, TypeOK
  <2>3. CASE SettleClear(m)
    BY <2>3, NoChargeType DEF SettleClear, Goto, SetCharge, TypeOK
  <2> QED BY <1>5, <2>1, <2>2, <2>3 DEF SettleStep
<1>6. ASSUME DailyStep PROVE TypeOK'
  <2> Daily \in Procs
    BY DEF Procs
  <2>1. CASE DailyStart
    <3>1. [NoCharge EXCEPT !.before = day] \in Charge
      BY DEF NoCharge, Charge, TypeOK
    <3> QED BY <2>1, <3>1 DEF DailyStart, UnpaidKeys, Goto, SetCharge, TypeOK
  <2>2. CASE DailyCharge
    <3>1. \A k \in Keys : ChargeOf(k[1], k[2], chg[Daily].before) \in Charge
      BY ChargeOfFields DEF Keys, TypeOK, Charge
    <3> QED BY <2>2, <3>1 DEF DailyCharge, Goto, SetCharge, TypeOK
  <2>3. CASE DailySkip
    BY <2>3 DEF DailySkip, TypeOK
  <2>4. CASE DailyDone
    BY <2>4, NoChargeType DEF DailyDone, NextMidnight, Goto, SetCharge, TypeOK
  <2> QED BY <1>6, <2>1, <2>2, <2>3, <2>4 DEF DailyStep
<1>7. CASE Midnight
  BY <1>7 DEF Midnight, TypeOK
<1>8. CASE FaultStep
  <2>1. CASE Crash
    BY <2>1, NoChargeType DEF Crash, Fault, TypeOK
  <2>2. ASSUME NEW p \in Procs, WalletReplyLost(p) PROVE TypeOK'
    <3>1. Debit(p) /\ ChargeFailed(p)
      BY <2>2 DEF WalletReplyLost
    <3>2. wallet' \in [Keys -> Nat] /\ lastTx' \in Nat
      BY <3>1, DebitType
    <3>3. blacklisted' \in [Accounts -> BOOLEAN]
      <4>1. blacklisted' = [blacklisted EXCEPT ![chg[p].account] = TRUE]
        BY <2>2 DEF WalletReplyLost, Blacklist
      <4>2. blacklisted \in [Accounts -> BOOLEAN]
        BY DEF TypeOK
      <4> QED BY <4>1, <4>2
    <3>5. faults' \in Nat
      <4>1. faults' = faults + 1
        BY <2>2 DEF WalletReplyLost, Fault
      <4> QED BY <4>1 DEF TypeOK
    <3>4. UNCHANGED <<usage, payments, day, collected>>
      BY <2>2 DEF WalletReplyLost
    <3> QED BY <3>1, <3>2, <3>3, <3>4, <3>5, ChargeEndType DEF TypeOK
  <2>3. ASSUME NEW p \in Procs, CommitFails(p) PROVE TypeOK'
    BY <2>3, ChargeEndType DEF CommitFails, Fault, TypeOK
  <2> QED BY <1>8, <2>1, <2>2, <2>3 DEF FaultStep
<1>9. CASE UNCHANGED vars
  BY <1>9 DEF vars, TypeOK
<1> QED BY <1>1, <1>2, <1>3, <1>4, <1>5, <1>6, <1>7, <1>8, <1>9 DEF Next, ChargeStep

LEMMA NamedStep == TypeInv /\ [Next]_vars => ChargesNamed'
<1> SUFFICES ASSUME TypeOK, ChargesNamed, [Next]_vars, NEW p \in Procs,
                    pc'[p] \in {"read", "wallet", "commit"}
             PROVE  chg'[p].account \in Accounts /\ chg'[p].currency \in Currencies
  BY DEF TypeInv, ChargesNamed
<1> USE DEF ledger, external
<1>1. ASSUME NEW q \in Procs, ChargeSucceeded(q) \/ ChargeFailed(q)
      PROVE  pc'[p] = pc[p] /\ chg'[p] = chg[p]
  BY <1>1 DEF ChargeSucceeded, ChargeFailed, Goto, SetCharge, TypeOK
<1>2. CASE UNCHANGED <<pc, chg>>
  BY <1>2 DEF ChargesNamed
<1>3. ASSUME NEW r \in Runs, RunStep(r)
      PROVE  chg'[p].account \in Accounts /\ chg'[p].currency \in Currencies
  <2>1. CASE ApplyInstantWall(r)
    <3>1. Owner[r] \in Accounts /\ usage[r].currency \in Currencies
      BY BillingAssumption DEF TypeOK, UsageRow
    <3> QED BY <2>1, <3>1, ChargeOfFields
         DEF ApplyInstantWall, Goto, SetCharge, TypeOK, ChargesNamed
  <2>2. CASE ~ApplyInstantWall(r)
    BY <1>3, <2>2 DEF RunStep, Authorize, ReserveRow, CancelAuthorization,
       AbandonReservation, RecordUsage, ChargeAction, Goto, SetCharge, TypeOK, ChargesNamed
  <2> QED BY <2>1, <2>2
<1>4. ASSUME NEW q \in Procs, ChargeStep(q) \/ WalletStep(q)
      PROVE  chg'[p].account \in Accounts /\ chg'[p].currency \in Currencies
  <2>1. CASE ChargeRead(q) /\ Snapshot(q).amount # 0
    BY <2>1, SnapshotFields DEF ChargeRead, Goto, SetCharge, TypeOK, ChargesNamed
  <2>2. CASE WalletAccepts(q)
    BY <2>2, WithTxType DEF WalletAccepts, Goto, SetCharge, TypeOK, ChargesNamed
  <2> QED BY <1>1, <1>4, <2>1, <2>2
       DEF ChargeStep, WalletStep, ChargeRead, Commit, WalletRejects, ChargesNamed
<1>5. ASSUME NEW m \in Settlers, SettleStep(m)
      PROVE  chg'[p].account \in Accounts /\ chg'[p].currency \in Currencies
  BY <1>5, ChargeOfFields DEF SettleStep, SettleStart, SettleNext, SettleClear,
     Goto, SetCharge, TypeOK, ChargesNamed, Keys
<1>6. ASSUME DailyStep
      PROVE  chg'[p].account \in Accounts /\ chg'[p].currency \in Currencies
  BY <1>6, ChargeOfFields DEF DailyStep, DailyStart, DailyCharge, DailySkip,
     DailyDone, Goto, SetCharge, TypeOK, ChargesNamed, Keys
<1>7. CASE Crash
  BY <1>7 DEF Crash
<1>8. ASSUME NEW q \in Procs, WalletReplyLost(q) \/ CommitFails(q)
      PROVE  chg'[p].account \in Accounts /\ chg'[p].currency \in Currencies
  BY <1>1, <1>8 DEF WalletReplyLost, CommitFails, ChargesNamed
<1> QED BY <1>2, <1>3, <1>4, <1>5, <1>6, <1>7, <1>8
     DEF Next, vars, Midnight, FaultStep

\* The ledger, the policies and the calls in progress always have their types:
\* whatever overlaps or crashes, no amount and no remainder goes negative.
THEOREM TypeCorrect == Spec => []TypeOK
<1>1. TypeInv /\ [Next]_vars => TypeInv'
  BY TypeStep, NamedStep DEF TypeInv
<1>2. TypeInv => TypeOK
  BY DEF TypeInv
<1> QED BY TypeInit, <1>1, <1>2, PTL DEF Spec

-----------------------------------------------------------------------------
(* The ledger is exact while charges of one account and currency do not     *)
(* overlap.  The snapshot that a charge works from must still be true when   *)
(* it is committed, except for reservations, which were worth nothing when   *)
(* they were read; and two charges in progress have no row in common that is *)
(* worth anything.                                                          *)

RowInv(r) ==
    /\ usage[r].state # "priced" =>
          usage[r].amount = 0 /\ usage[r].original = 0 /\ collected[r] = 0
    /\ pc[r] \in {"new", "authorized"} => usage[r].state = "absent"
    /\ pc[r] = "running" => usage[r].state = "reserved"
    /\ usage[r].state = "reserved" => usage[r].currency = ModelCurrency[r]
    /\ Unpaid(r) => collected[r] + usage[r].amount = usage[r].original
    /\ collected[r] <= usage[r].original

SnapshotRow(p, r) ==
    /\ usage[r].state # "absent"
    /\ Owner[r] = chg[p].account
    /\ usage[r].state = "reserved" => usage[r].currency = chg[p].currency
    /\ usage[r].currency = chg[p].currency \/ usage[r].amount = 0
    /\ chg[p].owed[r] > 0 => /\ usage[r].state = "priced"
                             /\ usage[r].payment = None
                             /\ usage[r].amount = chg[p].owed[r]

SnapshotInv == \A p \in Procs : Holding(p) => \A r \in chg[p].rows : SnapshotRow(p, r)

NoOverlap ==
    \A p, q \in Procs : p # q /\ Holding(p) /\ Holding(q) =>
        chg[p].account # chg[q].account \/ chg[p].currency # chg[q].currency

SerialInv == TypeInv /\ (\A r \in Runs : RowInv(r)) /\ SnapshotInv /\ NoOverlap

\* The invariant without its types.
Exactness == (\A r \in Runs : RowInv(r)) /\ SnapshotInv /\ NoOverlap

LEMMA SerialInit == Init => SerialInv
<1> SUFFICES ASSUME Init PROVE SerialInv
  OBVIOUS
<1>1. TypeInv
  BY TypeInit
<1>2. ASSUME NEW r \in Runs PROVE RowInv(r)
  BY DEF Init, RowInv, Unpaid, Stored, Procs
<1>3. ASSUME NEW p \in Procs PROVE ~Holding(p)
  BY DEF Init, Holding
<1> QED BY <1>1, <1>2, <1>3 DEF SerialInv, SnapshotInv, NoOverlap

\* A step that neither touches rows nor takes a snapshot.
Quiet ==
    /\ UNCHANGED <<usage, collected>>
    /\ \A p \in Procs : pc'[p] \in {"wallet", "commit"} =>
          /\ Holding(p)
          /\ chg'[p].rows = chg[p].rows /\ chg'[p].owed = chg[p].owed
          /\ chg'[p].amount = chg[p].amount
          /\ chg'[p].account = chg[p].account /\ chg'[p].currency = chg[p].currency
    /\ \A r \in Runs :
          /\ pc'[r] \in {"new", "authorized"} => pc[r] \in {"new", "authorized"}
          /\ pc'[r] = "running" => pc[r] = "running"

LEMMA QuietStep == Exactness /\ Quiet => Exactness'
<1> SUFFICES ASSUME Exactness, Quiet PROVE Exactness'
  OBVIOUS
<1>1. ASSUME NEW r \in Runs PROVE RowInv(r)'
  BY DEF Exactness, Quiet, RowInv, Unpaid, Stored
<1>2. SnapshotInv'
  <2> SUFFICES ASSUME NEW p \in Procs, Holding(p)', NEW r \in chg'[p].rows
               PROVE  SnapshotRow(p, r)'
    BY DEF SnapshotInv
  <2>1. /\ Holding(p) /\ r \in chg[p].rows /\ chg'[p].owed = chg[p].owed
        /\ chg'[p].account = chg[p].account /\ chg'[p].currency = chg[p].currency
    BY DEF Quiet, Holding
  <2>2. SnapshotRow(p, r)
    BY <2>1 DEF Exactness, SnapshotInv
  <2> QED BY <2>1, <2>2 DEF SnapshotRow, Quiet
<1>3. NoOverlap'
  BY DEF Exactness, NoOverlap, Quiet, Holding
<1> QED BY <1>1, <1>2, <1>3 DEF Exactness

LEMMA ChargeEndQuiet ==
    ASSUME TypeOK, NEW p \in Procs, ChargeSucceeded(p) \/ ChargeFailed(p),
           UNCHANGED <<usage, collected>>
    PROVE  Quiet
<1>1. /\ \A q \in Procs \ {p} : pc'[q] = pc[q] /\ chg'[q] = chg[q]
      /\ pc'[p] \in {"done", "loop", "idle"}
  BY DEF ChargeSucceeded, ChargeFailed, Goto, SetCharge, TypeOK
<1>2. \A r \in Runs : r \in Procs
  BY DEF Procs
<1> QED BY <1>1, <1>2 DEF Quiet, Holding

\* One run changes its own row.  It keeps what every snapshot relies on.
RowStep(r) ==
    /\ UNCHANGED chg
    /\ \A q \in Runs \ {r} : usage'[q] = usage[q] /\ collected'[q] = collected[q]
    /\ \A p \in Procs \ {r} : pc'[p] = pc[p]
    /\ pc[r] \notin {"wallet", "commit"} /\ pc'[r] \notin {"wallet", "commit"}
    /\ usage[r].state \in {"absent", "reserved"}
    /\ usage[r].state = "reserved" =>
          /\ usage'[r].state \notin {"absent", "reserved"}
          /\ usage'[r].currency = usage[r].currency \/ usage'[r].amount = 0

LEMMA RowStepExact ==
    ASSUME TypeOK, Exactness, NEW r \in Runs, RowStep(r), RowInv(r)'
    PROVE  Exactness'
<1>1. ASSUME NEW q \in Runs PROVE RowInv(q)'
  <2>1. CASE q # r
    BY <2>1 DEF Exactness, RowStep, RowInv, Unpaid, Stored, Procs
  <2> QED BY <2>1
<1>2. \A p \in Procs : Holding(p)' => Holding(p)
  BY DEF RowStep, Holding
<1>3. SnapshotInv'
  <2> SUFFICES ASSUME NEW p \in Procs, Holding(p)', NEW q \in chg'[p].rows
               PROVE  SnapshotRow(p, q)'
    BY DEF SnapshotInv
  <2>1. Holding(p) /\ q \in chg[p].rows /\ chg' = chg
    BY <1>2 DEF RowStep
  <2>2. SnapshotRow(p, q)
    BY <2>1 DEF Exactness, SnapshotInv
  <2>3. CASE q = r
    BY <2>1, <2>2, <2>3 DEF SnapshotRow, RowStep
  <2>4. CASE q # r
    <3>1. q \in Runs
      BY <2>1 DEF TypeOK, Charge
    <3> QED BY <2>1, <2>2, <2>4, <3>1 DEF SnapshotRow, RowStep
  <2> QED BY <2>3, <2>4
<1>4. NoOverlap'
  BY <1>2 DEF Exactness, NoOverlap, RowStep
<1> QED BY <1>1, <1>3, <1>4 DEF Exactness

LEMMA RunStepExact ==
    ASSUME TypeInv, Exactness, NEW r \in Runs, RunStep(r)
    PROVE  Exactness'
<1> USE DEF ledger, external
<1>0. TypeOK /\ r \in Procs /\ RowInv(r)
  BY DEF TypeInv, Procs, Exactness
<1>1. CASE Authorize(r)
  <2>1. Quiet
    BY <1>0, <1>1 DEF Authorize, Goto, TypeOK, Quiet, Holding, Procs
  <2> QED BY <2>1, QuietStep
<1>2. CASE AbandonReservation(r)
  <2>1. Quiet
    BY <1>0, <1>2 DEF AbandonReservation, Goto, TypeOK, Quiet, Holding, Procs
  <2> QED BY <2>1, QuietStep
<1>3. CASE ApplyInstantWall(r)
  <2>1. Quiet
    <3>1. /\ \A q \in Procs \ {r} : pc'[q] = pc[q] /\ chg'[q] = chg[q]
          /\ pc'[r] \in {"done", "read"}
      BY <1>0, <1>3 DEF ApplyInstantWall, Goto, SetCharge, TypeOK
    <3> QED BY <1>3, <3>1 DEF ApplyInstantWall, Quiet, Holding, Procs
  <2> QED BY <2>1, QuietStep
<1>4. ASSUME NEW row, usage' = [usage EXCEPT ![r] = row],
             NEW label, pc' = [pc EXCEPT ![r] = label],
             UNCHANGED <<chg, collected>>
      PROVE  /\ UNCHANGED chg /\ usage'[r] = row /\ pc'[r] = label
             /\ collected'[r] = collected[r]
             /\ \A q \in Runs \ {r} : usage'[q] = usage[q] /\ collected'[q] = collected[q]
             /\ \A p \in Procs \ {r} : pc'[p] = pc[p]
  BY <1>0, <1>4 DEF TypeOK
<1>5. CASE ReserveRow(r)
  <2>1. /\ UNCHANGED chg /\ pc[r] = "authorized" /\ pc'[r] = "running"
        /\ usage'[r] = Row("reserved", ModelCurrency[r], 0, None, day)
        /\ collected'[r] = collected[r]
        /\ \A q \in Runs \ {r} : usage'[q] = usage[q] /\ collected'[q] = collected[q]
        /\ \A p \in Procs \ {r} : pc'[p] = pc[p]
    BY <1>4, <1>5 DEF ReserveRow, Goto
  <2>2. RowInv(r)'
    BY <1>0, <2>1 DEF RowInv, Row, Unpaid, Stored
  <2>3. RowStep(r)
    BY <1>0, <2>1 DEF RowInv, RowStep, Row
  <2> QED BY <1>0, <2>2, <2>3, RowStepExact
<1>6. CASE CancelAuthorization(r)
  <2>1. /\ UNCHANGED chg /\ pc[r] = "running" /\ pc'[r] = "done"
        /\ usage'[r] = [usage[r] EXCEPT !.state = "deleted"]
        /\ collected'[r] = collected[r]
        /\ \A q \in Runs \ {r} : usage'[q] = usage[q] /\ collected'[q] = collected[q]
        /\ \A p \in Procs \ {r} : pc'[p] = pc[p]
    BY <1>0, <1>6 DEF CancelAuthorization, Goto, TypeOK
  <2>2. /\ usage'[r].state = "deleted" /\ usage'[r].amount = usage[r].amount
        /\ usage'[r].original = usage[r].original
    BY <1>0, <2>1 DEF TypeOK, UsageRow
  <2>3. RowInv(r)'
    BY <1>0, <2>1, <2>2 DEF RowInv, Unpaid, Stored
  <2>4. RowStep(r)
    BY <1>0, <2>1, <2>2 DEF RowInv, RowStep
  <2> QED BY <1>0, <2>3, <2>4, RowStepExact
<1>7. CASE RecordUsage(r)
  <2>1. PICK price \in Priced(r) :
          usage' = [usage EXCEPT ![r] = Row("priced", price.currency, price.amount,
                                            usage[r].payment, usage[r].day)]
    BY <1>7 DEF RecordUsage
  <2>2. price.amount \in Nat /\ (price.currency = ModelCurrency[r] \/ price.amount = 0)
    BY PricedType DEF Priced
  <2>3. /\ UNCHANGED chg /\ pc[r] = "running" /\ pc'[r] = "wall"
        /\ usage'[r] = Row("priced", price.currency, price.amount,
                           usage[r].payment, usage[r].day)
        /\ collected'[r] = collected[r]
        /\ \A q \in Runs \ {r} : usage'[q] = usage[q] /\ collected'[q] = collected[q]
        /\ \A p \in Procs \ {r} : pc'[p] = pc[p]
    BY <1>4, <1>7, <2>1 DEF RecordUsage, Goto
  <2>4. RowInv(r)'
    BY <1>0, <2>2, <2>3 DEF RowInv, Row, Unpaid, Stored
  <2>5. RowStep(r)
    BY <1>0, <2>2, <2>3 DEF RowInv, RowStep, Row
  <2> QED BY <1>0, <2>4, <2>5, RowStepExact
<1>8. CASE ChargeAction(r)
  <2>1. PICK amount \in Prices \ {0} :
          usage' = [usage EXCEPT ![r] = Row("priced", DefaultCurrency, amount, None, day)]
    BY <1>8 DEF ChargeAction
  <2>2. amount \in Nat
    BY BillingAssumption
  <2>3. /\ UNCHANGED chg /\ pc[r] = "authorized" /\ pc'[r] = "wall"
        /\ usage'[r] = Row("priced", DefaultCurrency, amount, None, day)
        /\ collected'[r] = collected[r]
        /\ \A q \in Runs \ {r} : usage'[q] = usage[q] /\ collected'[q] = collected[q]
        /\ \A p \in Procs \ {r} : pc'[p] = pc[p]
    BY <1>4, <1>8, <2>1 DEF ChargeAction, Goto
  <2>4. RowInv(r)'
    BY <1>0, <2>2, <2>3 DEF RowInv, Row, Unpaid, Stored
  <2>5. RowStep(r)
    BY <1>0, <2>2, <2>3 DEF RowInv, RowStep, Row
  <2> QED BY <1>0, <2>4, <2>5, RowStepExact
<1> QED BY <1>1, <1>2, <1>3, <1>5, <1>6, <1>7, <1>8 DEF RunStep

\* Taking a snapshot: what was just read is true, and with SerialCharges no
\* other charge of the account and currency is in progress.
LEMMA ChargeReadExact ==
    ASSUME SerialCharges, TypeInv, Exactness, NEW p \in Procs, ChargeRead(p)
    PROVE  Exactness'
<1> USE DEF ledger, external
<1>0. TypeOK /\ UNCHANGED <<usage, collected>>
  BY DEF TypeInv, ChargeRead
<1>1. CASE Snapshot(p).amount = 0
  BY <1>0, <1>1, ChargeEndQuiet, QuietStep DEF ChargeRead
<1>2. CASE Snapshot(p).amount # 0
  <2>1. /\ \A q \in Procs \ {p} : pc'[q] = pc[q] /\ chg'[q] = chg[q]
        /\ pc'[p] = "wallet" /\ chg'[p] = Snapshot(p) /\ pc[p] = "read"
    BY <1>0, <1>2 DEF ChargeRead, Goto, SetCharge, TypeOK
  <2>2. ASSUME NEW r \in Runs PROVE RowInv(r)'
    BY <1>0, <2>1, <2>2 DEF Exactness, RowInv, Unpaid, Stored, Procs
  <2>3. ASSUME NEW r \in Snapshot(p).rows PROVE SnapshotRow(p, r)'
    <3>0. r \in UnpaidRows(chg[p].account, chg[p].currency, chg[p].before)
      BY <1>0, <2>3, SnapshotFields
    <3>1. /\ r \in Runs /\ Unpaid(r) /\ Owner[r] = chg[p].account
          /\ usage[r].currency = chg[p].currency
      BY <3>0 DEF UnpaidRows
    <3>2. chg'[p].account = chg[p].account /\ chg'[p].currency = chg[p].currency
      BY <1>0, <2>1, SnapshotFields
    <3>3. chg'[p].owed[r] = usage[r].amount
      BY <1>0, <2>1, <3>1, SnapshotFields
    <3>4. usage[r].state # "priced" => usage[r].amount = 0
      BY <3>1 DEF Exactness, RowInv
    <3> QED BY <1>0, <3>1, <3>2, <3>3, <3>4 DEF SnapshotRow, Unpaid, Stored
  <2>4. SnapshotInv'
    <3> SUFFICES ASSUME NEW q \in Procs, Holding(q)', NEW r \in chg'[q].rows
                 PROVE  SnapshotRow(q, r)'
      BY DEF SnapshotInv
    <3>1. CASE q = p
      BY <2>1, <2>3, <3>1
    <3>2. CASE q # p
      <4>1. Holding(q) /\ r \in chg[q].rows /\ chg'[q] = chg[q]
        BY <2>1, <3>2 DEF Holding
      <4>2. SnapshotRow(q, r)
        BY <4>1 DEF Exactness, SnapshotInv
      <4> QED BY <1>0, <4>1, <4>2 DEF SnapshotRow
    <3> QED BY <3>1, <3>2
  <2>5. NoOverlap'
    <3>1. \A q \in Procs \ {p} : Holding(q) => \/ chg[q].account # chg[p].account
                                              \/ chg[q].currency # chg[p].currency
      BY DEF ChargeRead, MayRead
    <3>2. chg'[p].account = chg[p].account /\ chg'[p].currency = chg[p].currency
      BY <1>0, <2>1, SnapshotFields
    <3> QED BY <2>1, <3>1, <3>2 DEF Exactness, NoOverlap, Holding
  <2> QED BY <2>2, <2>4, <2>5 DEF Exactness
<1> QED BY <1>1, <1>2

\* Committing: a covered row had its whole remaining price collected, the
\* partly covered one keeps the difference, and no other charge relied on them.
LEMMA CommitExact ==
    ASSUME TypeInv, Exactness, NEW p \in Procs, Commit(p)
    PROVE  Exactness'
<1> DEFINE c == chg[p]
<1>0. TypeOK /\ Holding(p) /\ c.rows \subseteq Runs /\ c.owed \in [Runs -> Nat]
  BY DEF TypeInv, TypeOK, Charge, Commit, Holding
<1>1. PICK full \in SUBSET c.rows, part \in c.rows \cup {None} :
        /\ IsAllocation(c, full, part)
        /\ usage' = Settled(c, full, part)
        /\ collected' = [r \in Runs |-> collected[r] + Allocated(c, full, part)[r]]
  BY DEF Commit
<1>2. /\ \A q \in Procs \ {p} : pc'[q] = pc[q] /\ chg'[q] = chg[q]
      /\ pc'[p] \in {"done", "loop"}
  BY <1>0 DEF Commit, ChargeSucceeded, Goto, SetCharge, TypeOK
<1>3. \A r \in Runs : r = part => /\ r \notin full /\ r \in c.rows
                                  /\ Remaining(c, full) > 0
                                  /\ Remaining(c, full) < c.owed[r]
  BY <1>1, BillingAssumption DEF IsAllocation
<1>4. Remaining(c, full) \in Int
  BY <1>0, RemainingType
<1>5. ASSUME NEW r \in Runs PROVE usage[r] \in UsageRow /\ collected[r] \in Nat
  BY <1>0 DEF TypeOK
<1>6. ASSUME NEW r \in c.rows PROVE SnapshotRow(p, r)
  BY <1>0 DEF Exactness, SnapshotInv
<1> HIDE DEF c
\* What the step does to one row.
<1>7. ASSUME NEW r \in Runs
      PROVE  /\ usage'[r].state = usage[r].state
             /\ usage'[r].currency = usage[r].currency
             /\ usage'[r].original = usage[r].original
             /\ r \in full /\ Stored(r) =>
                   /\ usage'[r].payment = c.tx
                   /\ usage'[r].amount = usage[r].amount
                   /\ collected'[r] = collected[r] + c.owed[r]
             /\ r = part /\ Stored(r) =>
                   /\ usage'[r].payment = usage[r].payment
                   /\ usage'[r].amount = c.owed[r] - Remaining(c, full)
                   /\ collected'[r] = collected[r] + Remaining(c, full)
             /\ ~(r \in full \/ r = part) \/ ~Stored(r) => usage'[r] = usage[r]
             /\ ~(r \in full \/ r = part) => collected'[r] = collected[r]
             /\ r \in full => collected'[r] = collected[r] + c.owed[r]
  BY <1>1, <1>3, <1>5 DEF Settled, Allocated, Stamped, KeepRemainder, UsageRow
<1>8. ASSUME NEW r \in Runs PROVE RowInv(r)'
  <2>1. RowInv(r)
    BY DEF Exactness
  <2>2. /\ pc'[r] \in {"new", "authorized"} => pc[r] \in {"new", "authorized"}
        /\ pc'[r] = "running" => pc[r] = "running"
    BY <1>2 DEF Procs
  <2>3. /\ usage[r].amount \in Nat /\ usage[r].original \in Nat /\ collected[r] \in Nat
        /\ c.owed[r] \in Nat /\ c.tx \in Nat
    BY <1>0, <1>5 DEF UsageRow, TypeOK, Charge, c
  <2>4. CASE r \in full
    <3>1. SnapshotRow(p, r)
      BY <1>6, <2>4
    <3>2. c.owed[r] > 0 => collected[r] + c.owed[r] = usage[r].original /\ Stored(r)
      BY <2>1, <3>1 DEF SnapshotRow, RowInv, Unpaid, Stored, c
    <3>3. Stored(r) => usage'[r].payment # None
      BY <1>7, <2>3, <2>4, BillingAssumption
    <3>4. usage[r].state # "priced" => c.owed[r] = 0
      BY <2>3, <3>1 DEF SnapshotRow, c
    <3>5. ~Stored(r) => ~Stored(r)' 
      BY <1>7 DEF Stored
    <3>6. /\ usage'[r].state # "priced" =>
               usage'[r].amount = 0 /\ usage'[r].original = 0 /\ collected'[r] = 0
          /\ collected'[r] <= usage'[r].original
      <4>1. /\ usage'[r].state = usage[r].state
            /\ usage'[r].original = usage[r].original
            /\ collected'[r] = collected[r] + c.owed[r]
            /\ usage[r].amount = usage'[r].amount
        BY <1>7, <2>4
      <4>2. collected[r] <= usage[r].original
        BY <2>1 DEF RowInv
      <4>3. collected'[r] <= usage'[r].original
        BY <2>3, <3>2, <4>1, <4>2
      <4>4. ASSUME usage[r].state # "priced"
            PROVE  usage[r].amount = 0 /\ usage[r].original = 0 /\ collected[r] = 0
        BY <2>1, <4>4 DEF RowInv
      <4>5. usage[r].state # "priced" => collected'[r] = 0
        BY <3>4, <4>1, <4>4
      <4> QED BY <4>1, <4>3, <4>4, <4>5
    <3>7. ~Unpaid(r)'
      BY <1>7, <3>3, <3>5 DEF Unpaid, Stored
    <3> QED BY <1>7, <2>1, <2>2, <3>6, <3>7 DEF RowInv
  <2>5. CASE r = part
    <3>1. SnapshotRow(p, r) /\ c.owed[r] > 0
      BY <1>3, <1>4, <1>6, <2>3, <2>5
    <3>2. /\ usage[r].state = "priced" /\ Unpaid(r) /\ usage[r].amount = c.owed[r]
      BY <3>1 DEF SnapshotRow, Unpaid, Stored, c
    <3>3. collected[r] + c.owed[r] = usage[r].original
      BY <2>1, <3>2 DEF RowInv
    <3> QED BY <1>3, <1>4, <1>7, <2>1, <2>2, <2>3, <2>5, <3>2, <3>3
         DEF RowInv, Unpaid, Stored
  <2>6. CASE ~(r \in full \/ r = part)
    BY <1>7, <2>1, <2>2, <2>6 DEF RowInv, Unpaid, Stored
  <2> QED BY <2>4, <2>5, <2>6
<1>9. SnapshotInv'
  <2> SUFFICES ASSUME NEW q \in Procs, Holding(q)', NEW r \in chg'[q].rows
               PROVE  SnapshotRow(q, r)'
    BY DEF SnapshotInv
  <2>1. q # p /\ Holding(q) /\ r \in chg[q].rows /\ chg'[q] = chg[q]
    BY <1>2 DEF Holding
  <2>2. SnapshotRow(q, r)
    BY <2>1 DEF Exactness, SnapshotInv
  <2>3. r \in Runs /\ chg[q].owed[r] \in Nat
    BY <1>0, <2>1 DEF TypeOK, Charge
  <2>4. CASE r \notin full /\ r # part
    <3>1. usage'[r] = usage[r]
      BY <1>7, <2>3, <2>4
    <3> QED BY <2>1, <2>2, <3>1 DEF SnapshotRow
  <2>5. CASE r \in full \/ r = part
    <3>1. SnapshotRow(p, r)
      BY <1>3, <1>6, <2>3, <2>5
    <3>2. chg[q].currency # chg[p].currency
      BY <1>0, <2>1, <2>2, <3>1 DEF SnapshotRow, Exactness, NoOverlap
    <3>3. usage[r].amount = 0 /\ usage[r].state # "reserved" /\ chg[q].owed[r] = 0
      BY <2>2, <2>3, <3>1, <3>2 DEF SnapshotRow
    <3>4. r # part
      <4>1. c.owed[r] > 0 => usage[r].amount = c.owed[r]
        BY <3>1 DEF SnapshotRow, c
      <4>2. c.owed[r] \in Nat
        BY <1>0, <2>3 DEF c
      <4>3. r = part => c.owed[r] > 0
        BY <1>3, <1>4, <2>3, <4>2
      <4> QED BY <3>3, <4>1, <4>2, <4>3
    <3>5. usage'[r].state = usage[r].state /\ usage'[r].amount = 0
      BY <1>7, <2>3, <2>5, <3>3, <3>4
    <3> QED BY <2>1, <2>2, <3>3, <3>5 DEF SnapshotRow
  <2> QED BY <2>4, <2>5
<1>10. NoOverlap'
  BY <1>2 DEF Exactness, NoOverlap, Holding
<1> QED BY <1>8, <1>9, <1>10 DEF Exactness

LEMMA QuietActions ==
    ASSUME TypeInv
    PROVE  /\ \A p \in Procs : WalletStep(p) => Quiet
           /\ \A m \in Settlers : SettleStep(m) => Quiet
           /\ DailyStep \/ Midnight \/ FaultStep \/ UNCHANGED vars => Quiet
<1> USE DEF ledger, external
<1>0. TypeOK /\ \A r \in Runs : r \in Procs
  BY DEF TypeInv, Procs
<1>1. ASSUME NEW p \in Procs, WalletStep(p) PROVE Quiet
  <2>1. CASE WalletAccepts(p)
    <3>1. /\ \A q \in Procs \ {p} : pc'[q] = pc[q] /\ chg'[q] = chg[q]
          /\ pc[p] = "wallet" /\ pc'[p] = "commit"
          /\ chg'[p] = [chg[p] EXCEPT !.tx = lastTx + 1]
      BY <1>0, <2>1 DEF WalletAccepts, Goto, SetCharge, TypeOK
    <3>2. /\ chg'[p].rows = chg[p].rows /\ chg'[p].owed = chg[p].owed
          /\ chg'[p].amount = chg[p].amount
          /\ chg'[p].account = chg[p].account /\ chg'[p].currency = chg[p].currency
      BY <1>0, <3>1 DEF TypeOK, Charge
    <3> QED BY <1>0, <2>1, <3>1, <3>2 DEF WalletAccepts, Quiet, Holding
  <2>2. CASE WalletRejects(p)
    BY <1>0, <2>2, ChargeEndQuiet DEF WalletRejects
  <2> QED BY <1>1, <2>1, <2>2 DEF WalletStep
<1>2. ASSUME NEW m \in Settlers, SettleStep(m) PROVE Quiet
  <2>1. m \in Procs
    BY DEF Procs
  <2>2. /\ \A q \in Procs \ {m} : pc'[q] = pc[q] /\ chg'[q] = chg[q]
        /\ pc'[m] \in {"loop", "read", "idle"}
        /\ UNCHANGED <<usage, collected>>
    BY <1>0, <1>2, <2>1 DEF SettleStep, SettleStart, SettleNext, SettleClear,
       Goto, SetCharge, TypeOK
  <2> QED BY <1>0, <2>1, <2>2 DEF Quiet, Holding
<1>3. ASSUME DailyStep PROVE Quiet
  <2>1. Daily \in Procs
    BY DEF Procs
  <2>2. /\ \A q \in Procs \ {Daily} : pc'[q] = pc[q] /\ chg'[q] = chg[q]
        /\ pc'[Daily] \in {"loop", "read", "idle"}
        /\ UNCHANGED <<usage, collected>>
    BY <1>0, <1>3, <2>1 DEF DailyStep, DailyStart, DailyCharge, DailySkip, DailyDone,
       Goto, SetCharge, TypeOK
  <2> QED BY <1>0, <2>1, <2>2 DEF Quiet, Holding
<1>4. ASSUME Crash PROVE Quiet
  BY <1>0, <1>4 DEF Crash, Quiet
<1>5. ASSUME NEW p \in Procs, WalletReplyLost(p) \/ CommitFails(p) PROVE Quiet
  BY <1>0, <1>5, ChargeEndQuiet DEF WalletReplyLost, CommitFails
<1>6. Midnight \/ UNCHANGED vars => Quiet
  BY DEF Midnight, vars, Quiet, Holding
<1> QED BY <1>1, <1>2, <1>3, <1>4, <1>5, <1>6 DEF FaultStep

LEMMA SerialStep == SerialCharges /\ SerialInv /\ [Next]_vars => SerialInv'
<1> SUFFICES ASSUME SerialCharges, TypeInv, Exactness, [Next]_vars
             PROVE  TypeInv' /\ Exactness'
  BY DEF SerialInv, Exactness
<1>1. TypeInv'
  BY TypeStep, NamedStep DEF TypeInv
<1>2. CASE \E r \in Runs : RunStep(r)
  BY <1>1, <1>2, RunStepExact
<1>3. CASE \E p \in Procs : ChargeStep(p)
  BY <1>1, <1>3, ChargeReadExact, CommitExact DEF ChargeStep
<1>4. CASE Quiet
  BY <1>1, <1>4, QuietStep
<1> QED BY <1>1, <1>2, <1>3, <1>4, QuietActions DEF Next

\* Whenever no two charges of an account and currency overlap, every unpaid row
\* owes its price less what was collected for it, whatever crashes or fails.
THEOREM LedgerExact == SerialCharges /\ Spec => []UnpaidRowsExact
<1> SUFFICES ASSUME SerialCharges PROVE Spec => []UnpaidRowsExact
  OBVIOUS
<1>1. SerialInv /\ [Next]_vars => SerialInv'
  BY SerialStep
<1>2. SerialInv => UnpaidRowsExact
  BY DEF SerialInv, RowInv, UnpaidRowsExact
<1> QED BY SerialInit, <1>1, <1>2, PTL DEF Spec

\* Under the same condition no row is ever charged for more than its price.
THEOREM NothingOvercollected == SerialCharges /\ Spec => []NeverOvercollected
<1> SUFFICES ASSUME SerialCharges PROVE Spec => []NeverOvercollected
  OBVIOUS
<1>1. SerialInv /\ [Next]_vars => SerialInv'
  BY SerialStep
<1>2. SerialInv => NeverOvercollected
  BY DEF SerialInv, RowInv, NeverOvercollected
<1> QED BY SerialInit, <1>1, <1>2, PTL DEF Spec


-----------------------------------------------------------------------------
(* Payments.  Whatever overlaps, the recorded payments and the transfers    *)
(* about to be recorded stay within what Wallet debited.  A transfer's      *)
(* number is its own until it is recorded, so that a payment is never       *)
(* mistaken for an older one.                                               *)

Paid(k)      == Total(PaymentAmount, PaymentsOf(k))
InTransit(k) == Total(ChargeAmount, CommittingOf(k))
Committing   == {p \in Procs : pc[p] = "commit"}

OwnNumbers ==
    /\ \A pay \in payments : pay.id <= lastTx
    /\ \A p \in Procs : pc[p] = "commit" =>
          /\ chg[p].tx <= lastTx
          /\ \A pay \in payments : pay.id # chg[p].tx
          /\ \A q \in Procs \ {p} : pc[q] = "commit" => chg[p].tx # chg[q].tx

WithinDebits ==
    \A k \in Keys : /\ Paid(k) + InTransit(k) <= wallet[k]
                    /\ faults = 0 => Paid(k) + InTransit(k) = wallet[k]

FiniteWork == IsFiniteSet(payments) /\ IsFiniteSet(Committing)

MoneyInv == TypeInv /\ FiniteWork /\ OwnNumbers /\ WithinDebits /\ faults <= MaxFaults

LEMMA MoneyTypes ==
    ASSUME TypeOK, FiniteWork, NEW k \in Keys
    PROVE  /\ IsFiniteSet(PaymentsOf(k)) /\ IsFiniteSet(CommittingOf(k))
           /\ Paid(k) \in Nat /\ InTransit(k) \in Nat
           /\ \A pay \in PaymentsOf(k) : PaymentAmount[pay] \in Nat
           /\ \A p \in CommittingOf(k) : ChargeAmount[p] \in Nat
<1>1. PaymentsOf(k) \subseteq payments /\ CommittingOf(k) \subseteq Committing
  BY DEF PaymentsOf, CommittingOf, Committing
<1>2. IsFiniteSet(PaymentsOf(k)) /\ IsFiniteSet(CommittingOf(k))
  BY <1>1, FS_Subset DEF FiniteWork
<1>3. \A pay \in PaymentsOf(k) : PaymentAmount[pay] \in Nat
  BY <1>1 DEF PaymentAmount, TypeOK, Payment
<1>4. \A p \in CommittingOf(k) : ChargeAmount[p] \in Nat
  BY DEF CommittingOf, ChargeAmount, TypeOK, Charge
<1> QED BY <1>2, <1>3, <1>4, TotalType DEF Paid, InTransit

\* A step that records nothing and starts no transfer.  A debit without a
\* transfer in progress, and a transfer given up, are faults.
NothingRecorded ==
    /\ payments' = payments
    /\ lastTx' >= lastTx
    /\ \A k \in Keys : wallet'[k] >= wallet[k]
    /\ \A p \in Procs : pc'[p] = "commit" => pc[p] = "commit" /\ chg'[p] = chg[p]
    /\ faults' >= faults /\ faults' <= MaxFaults
    /\ faults' = 0 => /\ wallet' = wallet
                      /\ \A p \in Procs : pc[p] = "commit" => pc'[p] = "commit"

LEMMA NothingRecordedStep ==
    ASSUME MoneyInv, TypeInv', NothingRecorded
    PROVE  MoneyInv'
<1> USE DEF MoneyInv, TypeInv
<1>1. FiniteWork'
  <2>1. Committing' \subseteq Committing
    BY DEF Committing, NothingRecorded
  <2> QED BY <2>1, FS_Subset DEF FiniteWork, NothingRecorded
<1>2. OwnNumbers'
  <2>0. lastTx \in Nat /\ lastTx' \in Nat /\ lastTx <= lastTx'
    BY DEF TypeOK, NothingRecorded
  <2>1. ASSUME NEW pay \in payments PROVE pay.id <= lastTx'
    <3>1. pay.id \in Nat /\ pay.id <= lastTx
      BY DEF TypeOK, Payment, OwnNumbers
    <3> QED BY <2>0, <3>1
  <2>2. ASSUME NEW p \in Procs, pc'[p] = "commit"
        PROVE  /\ chg'[p].tx <= lastTx'
               /\ \A pay \in payments : pay.id # chg'[p].tx
               /\ \A q \in Procs \ {p} : pc'[q] = "commit" => chg'[p].tx # chg'[q].tx
    <3>1. pc[p] = "commit" /\ chg'[p] = chg[p]
      BY <2>2 DEF NothingRecorded
    <3>2. chg[p].tx \in Nat /\ chg[p].tx <= lastTx
      BY <3>1 DEF TypeOK, Charge, OwnNumbers
    <3>3. chg'[p].tx <= lastTx'
      BY <2>0, <3>1, <3>2
    <3>4. ASSUME NEW q \in Procs \ {p}, pc'[q] = "commit" PROVE chg'[p].tx # chg'[q].tx
      BY <3>1, <3>4 DEF NothingRecorded, OwnNumbers
    <3> QED BY <3>1, <3>3, <3>4 DEF OwnNumbers
  <2> QED BY <2>1, <2>2 DEF OwnNumbers, NothingRecorded
<1>3. WithinDebits'
  <2> SUFFICES ASSUME NEW k \in Keys
               PROVE  /\ (Paid(k) + InTransit(k))' <= wallet'[k]
                      /\ faults' = 0 => (Paid(k) + InTransit(k))' = wallet'[k]
    BY DEF WithinDebits
  <2>1. Paid(k)' = Paid(k)
    BY DEF Paid, PaymentAmount, PaymentsOf, NothingRecorded
  <2>2. CommittingOf(k)' \in SUBSET CommittingOf(k)
    BY DEF CommittingOf, NothingRecorded
  <2>3. \A p \in CommittingOf(k)' : ChargeAmount'[p] = ChargeAmount[p]
    BY DEF CommittingOf, ChargeAmount, NothingRecorded
  <2>4. /\ IsFiniteSet(CommittingOf(k)) /\ \A p \in CommittingOf(k) : ChargeAmount[p] \in Nat
        /\ Paid(k) \in Nat /\ InTransit(k) \in Nat
    BY MoneyTypes
  <2>5. InTransit(k)' <= InTransit(k)
    <3>1. \A p \in CommittingOf(k)' : ChargeAmount'[p] \in Nat
                                      /\ ChargeAmount'[p] <= ChargeAmount[p]
      BY <2>2, <2>3, <2>4
    <3>2. Total(ChargeAmount', CommittingOf(k)') <= Total(ChargeAmount, CommittingOf(k))
      BY <2>2, <2>4, <3>1, TotalMono
    <3> QED BY <3>2 DEF InTransit
  <2>6. InTransit(k)' \in Nat
    <3>1. IsFiniteSet(CommittingOf(k)')
      BY <2>2, <2>4, FS_Subset
    <3>2. Total(ChargeAmount', CommittingOf(k)') \in Nat
      BY <2>2, <2>3, <2>4, <3>1, TotalType
    <3> QED BY <3>2 DEF InTransit
  <2>7. wallet[k] \in Nat /\ wallet'[k] \in Nat /\ wallet'[k] >= wallet[k]
    BY DEF TypeOK, NothingRecorded
  <2>8. faults \in Nat /\ faults' \in Nat /\ faults' >= faults
    BY DEF TypeOK, NothingRecorded
  <2>9. (Paid(k) + InTransit(k))' <= wallet'[k]
    <3>1. Paid(k) + InTransit(k) <= wallet[k]
      BY DEF WithinDebits
    <3> QED BY <2>1, <2>4, <2>5, <2>6, <2>7, <3>1
  <2>10. ASSUME faults' = 0 PROVE (Paid(k) + InTransit(k))' = wallet'[k]
    <3>1. CommittingOf(k)' = CommittingOf(k)
      BY <2>10 DEF CommittingOf, NothingRecorded
    <3>2. InTransit(k)' = InTransit(k)
      <4>1. Total(ChargeAmount', CommittingOf(k)') = Total(ChargeAmount, CommittingOf(k)')
        BY <2>3, TotalSame
      <4> QED BY <3>1, <4>1 DEF InTransit
    <3>3. Paid(k) + InTransit(k) = wallet[k] /\ wallet' = wallet
      BY <2>8, <2>10 DEF WithinDebits, NothingRecorded
    <3> QED BY <2>1, <3>2, <3>3
  <2> QED BY <2>9, <2>10
<1> QED BY <1>1, <1>2, <1>3 DEF NothingRecorded

LEMMA WalletAcceptsMoney ==
    ASSUME MoneyInv, TypeInv', NEW p \in Procs, WalletAccepts(p)
    PROVE  MoneyInv'
<1> USE DEF MoneyInv, TypeInv
<1> DEFINE key == <<chg[p].account, chg[p].currency>>
<1>1. /\ \A q \in Procs \ {p} : pc'[q] = pc[q] /\ chg'[q] = chg[q]
      /\ pc[p] = "wallet" /\ pc'[p] = "commit"
      /\ chg'[p] = [chg[p] EXCEPT !.tx = lastTx + 1]
      /\ UNCHANGED <<payments, faults>> /\ lastTx' = lastTx + 1
      /\ wallet' = [wallet EXCEPT ![key] = @ + chg[p].amount]
  BY DEF WalletAccepts, Debit, Goto, SetCharge, TypeOK, ledger
<1>2. /\ chg'[p].account = chg[p].account /\ chg'[p].currency = chg[p].currency
      /\ chg'[p].amount = chg[p].amount /\ chg'[p].tx = lastTx + 1
      /\ chg[p].amount \in Nat
  BY <1>1 DEF TypeOK, Charge
<1>3. FiniteWork'
  <2>1. Committing' = Committing \cup {p}
    BY <1>1 DEF Committing
  <2>2. IsFiniteSet(Committing \cup {p})
    BY FS_AddElement DEF FiniteWork
  <2> QED BY <1>1, <2>1, <2>2 DEF FiniteWork
<1>4. OwnNumbers'
  <2>0. lastTx \in Nat /\ lastTx' = lastTx + 1 /\ payments' = payments
    BY <1>1 DEF TypeOK
  <2>1. ASSUME NEW pay \in payments PROVE pay.id <= lastTx' /\ pay.id # lastTx + 1
    <3>1. pay.id \in Nat /\ pay.id <= lastTx
      BY DEF TypeOK, Payment, OwnNumbers
    <3> QED BY <2>0, <3>1
  <2>2. ASSUME NEW q \in Procs, pc'[q] = "commit", q # p
        PROVE  /\ chg'[q].tx <= lastTx' /\ chg'[q].tx # lastTx + 1
               /\ pc[q] = "commit" /\ chg'[q] = chg[q]
    <3>1. pc[q] = "commit" /\ chg'[q] = chg[q]
      BY <1>1, <2>2
    <3>2. chg[q].tx \in Nat /\ chg[q].tx <= lastTx
      BY <3>1 DEF TypeOK, Charge, OwnNumbers
    <3> QED BY <2>0, <3>1, <3>2
  <2>3. ASSUME NEW q \in Procs, pc'[q] = "commit"
        PROVE  /\ chg'[q].tx <= lastTx'
               /\ \A pay \in payments : pay.id # chg'[q].tx
               /\ \A o \in Procs \ {q} : pc'[o] = "commit" => chg'[q].tx # chg'[o].tx
    <3>1. CASE q = p
      BY <1>2, <2>0, <2>1, <2>2, <3>1
    <3>2. CASE q # p
      BY <1>2, <2>2, <2>3, <3>2 DEF OwnNumbers
    <3> QED BY <3>1, <3>2
  <2> QED BY <2>0, <2>1, <2>3 DEF OwnNumbers
<1>5. WithinDebits'
  <2> SUFFICES ASSUME NEW k \in Keys
               PROVE  /\ (Paid(k) + InTransit(k))' <= wallet'[k]
                      /\ faults' = 0 => (Paid(k) + InTransit(k))' = wallet'[k]
    BY DEF WithinDebits
  <2>1. Paid(k)' = Paid(k)
    BY <1>1 DEF Paid, PaymentAmount, PaymentsOf
  <2>2. /\ IsFiniteSet(CommittingOf(k)) /\ \A q \in CommittingOf(k) : ChargeAmount[q] \in Nat
        /\ Paid(k) \in Nat /\ InTransit(k) \in Nat
    BY MoneyTypes
  <2>3. p \notin CommittingOf(k)
    BY <1>1 DEF CommittingOf
  <2>4. \A q \in CommittingOf(k) : ChargeAmount'[q] = ChargeAmount[q]
    BY <1>1 DEF CommittingOf, ChargeAmount
  <2>5. ChargeAmount'[p] = chg[p].amount
    BY <1>2 DEF ChargeAmount
  <2>6. wallet[k] \in Nat /\ faults' = faults
    BY <1>1 DEF TypeOK
  <2>7. /\ Paid(k) + InTransit(k) <= wallet[k]
        /\ faults = 0 => Paid(k) + InTransit(k) = wallet[k]
    BY DEF WithinDebits
  <2>8. CASE k = key
    <3>1. CommittingOf(k)' = CommittingOf(k) \cup {p}
      BY <1>1, <1>2, <2>8 DEF CommittingOf
    <3>2. Total(ChargeAmount', CommittingOf(k) \cup {p})
             = Total(ChargeAmount', CommittingOf(k)) + Total(ChargeAmount', {p})
      <4>1. IsFiniteSet({p})
        BY FS_Singleton
      <4>2. CommittingOf(k) \cap {p} = {}
        BY <2>3
      <4>3. \A q \in CommittingOf(k) \cup {p} : ChargeAmount'[q] \in Nat
        BY <1>2, <2>2, <2>4, <2>5
      <4> QED BY <2>2, <4>1, <4>2, <4>3, TotalSplit
    <3>3. Total(ChargeAmount', {p}) = chg[p].amount
      BY <1>2, <2>5, TotalOne
    <3>4. Total(ChargeAmount', CommittingOf(k)) = InTransit(k)
      BY <2>4, TotalSame DEF InTransit
    <3>5. InTransit(k)' = InTransit(k) + chg[p].amount
      <4>1. InTransit(k)' = Total(ChargeAmount', CommittingOf(k)')
        BY DEF InTransit
      <4> QED BY <3>1, <3>2, <3>3, <3>4, <4>1
    <3>6. wallet'[k] = wallet[k] + chg[p].amount
      BY <1>1, <2>8 DEF TypeOK
    <3>7. chg[p].amount \in Nat
      BY <1>2
    <3> HIDE DEF MoneyInv, TypeInv
    <3> QED BY <2>1, <2>2, <2>6, <2>7, <3>5, <3>6, <3>7
  <2>9. CASE k # key
    <3>1. CommittingOf(k)' = CommittingOf(k)
      <4>1. p \notin CommittingOf(k)'
        BY <1>2, <2>9 DEF CommittingOf
      <4>2. ASSUME NEW q \in Procs \ {p}
            PROVE  q \in CommittingOf(k)' <=> q \in CommittingOf(k)
        <5> HIDE DEF MoneyInv, TypeInv
        <5>1. q \in Procs /\ pc'[q] = pc[q] /\ chg'[q] = chg[q]
          BY <1>1
        <5> QED BY <5>1 DEF CommittingOf
      <4>3. CommittingOf(k) \subseteq Procs /\ CommittingOf(k)' \subseteq Procs
        BY DEF CommittingOf
      <4> QED BY <2>3, <4>1, <4>2, <4>3
    <3>2. Total(ChargeAmount', CommittingOf(k)') = InTransit(k)
      BY <2>4, <3>1, TotalSame DEF InTransit
    <3>3. InTransit(k)' = InTransit(k)
      BY <3>2 DEF InTransit
    <3>4. wallet'[k] = wallet[k]
      BY <1>1, <2>9 DEF TypeOK
    <3> QED BY <2>1, <2>6, <2>7, <3>3, <3>4
  <2> QED BY <2>8, <2>9
<1> QED BY <1>1, <1>3, <1>4, <1>5

\* Recording a transfer moves its amount from one sum to the other.
LEMMA CommitTransfers ==
    ASSUME TypeOK, FiniteWork, OwnNumbers, NEW p \in Procs, Commit(p), NEW k \in Keys
    PROVE  /\ k = <<chg[p].account, chg[p].currency>> =>
                  /\ Paid(k)' = Paid(k) + chg[p].amount
                  /\ InTransit(k) = InTransit(k)' + chg[p].amount
           /\ k # <<chg[p].account, chg[p].currency>> =>
                  Paid(k)' = Paid(k) /\ InTransit(k)' = InTransit(k)
           /\ Paid(k) \in Nat /\ InTransit(k)' \in Nat
<1> DEFINE key == <<chg[p].account, chg[p].currency>>
           new == PaymentFor(chg[p])
<1>1. /\ \A q \in Procs \ {p} : pc'[q] = pc[q] /\ chg'[q] = chg[q]
      /\ pc[p] = "commit" /\ pc'[p] # "commit"
      /\ UNCHANGED <<lastTx, wallet, faults>>
      /\ payments' = payments \cup {new}
  BY DEF Commit, ChargeSucceeded, Goto, SetCharge, TypeOK, external
<1>2. /\ new.id = chg[p].tx /\ new.account = chg[p].account
      /\ new.currency = chg[p].currency /\ new.amount = chg[p].amount
      /\ chg[p].amount \in Nat
  BY DEF PaymentFor, TypeOK, Charge
<1>3. new \notin payments
  BY <1>1, <1>2 DEF OwnNumbers
<1>4. /\ IsFiniteSet(CommittingOf(k)) /\ \A q \in CommittingOf(k) : ChargeAmount[q] \in Nat
      /\ IsFiniteSet(PaymentsOf(k)) /\ \A pay \in PaymentsOf(k) : PaymentAmount[pay] \in Nat
      /\ Paid(k) \in Nat /\ InTransit(k) \in Nat
  BY MoneyTypes
<1>5. \A pay \in PaymentsOf(k) : PaymentAmount'[pay] = PaymentAmount[pay]
  BY <1>1 DEF PaymentsOf, PaymentAmount
<1>6. PaymentAmount'[new] = chg[p].amount
  BY <1>1, <1>2 DEF PaymentAmount
<1>7. \A q \in CommittingOf(k)' : ChargeAmount'[q] = ChargeAmount[q]
  BY <1>1 DEF CommittingOf, ChargeAmount
<1>8. Total(PaymentAmount', PaymentsOf(k)) = Paid(k)
  BY <1>5, TotalSame DEF Paid
<1>9. InTransit(k)' = Total(ChargeAmount, CommittingOf(k)')
  <2>1. Total(ChargeAmount', CommittingOf(k)') = Total(ChargeAmount, CommittingOf(k)')
    BY <1>7, TotalSame
  <2> QED BY <2>1 DEF InTransit
<1>10. Paid(k)' = Total(PaymentAmount', PaymentsOf(k)')
  BY DEF Paid
<1>11. Paid(k) \in Nat /\ InTransit(k)' \in Nat
  <2>1. CommittingOf(k)' \subseteq CommittingOf(k)
    BY <1>1 DEF CommittingOf
  <2>2. IsFiniteSet(CommittingOf(k)')
    BY <1>4, <2>1, FS_Subset
  <2>3. Total(ChargeAmount, CommittingOf(k)') \in Nat
    BY <1>4, <2>1, <2>2, TotalType
  <2> QED BY <1>4, <1>9, <2>3
<1>12. CASE k = key
  <2>1. CommittingOf(k)' = CommittingOf(k) \ {p} /\ p \in CommittingOf(k)
    BY <1>1, <1>12 DEF CommittingOf
  <2>2. PaymentsOf(k)' = PaymentsOf(k) \cup {new} /\ PaymentsOf(k) \cap {new} = {}
    BY <1>1, <1>2, <1>3, <1>12 DEF PaymentsOf
  <2>3. InTransit(k) = InTransit(k)' + chg[p].amount
    <3>1. Total(ChargeAmount, CommittingOf(k))
            = Total(ChargeAmount, CommittingOf(k) \ {p}) + ChargeAmount[p]
      BY <1>4, <2>1, TotalWith
    <3>2. ChargeAmount[p] = chg[p].amount
      BY DEF ChargeAmount
    <3>3. Total(ChargeAmount, CommittingOf(k)) = InTransit(k)
      BY DEF InTransit
    <3> QED BY <1>9, <2>1, <3>1, <3>2, <3>3
  <2>4. Paid(k)' = Paid(k) + chg[p].amount
    <3>1. IsFiniteSet({new})
      BY FS_Singleton
    <3>2. \A pay \in PaymentsOf(k) \cup {new} : PaymentAmount'[pay] \in Nat
      BY <1>2, <1>4, <1>5, <1>6
    <3> HIDE DEF new
    <3>3. Total(PaymentAmount', PaymentsOf(k) \cup {new})
             = Total(PaymentAmount', PaymentsOf(k)) + Total(PaymentAmount', {new})
      BY <1>4, <2>2, <3>1, <3>2, TotalSplit
    <3>4. Total(PaymentAmount', {new}) = chg[p].amount
      BY <1>2, <1>6, TotalOne
    <3> QED BY <1>8, <1>10, <2>2, <3>3, <3>4
  <2>5. Paid(k) \in Nat /\ InTransit(k) \in Nat /\ chg[p].amount \in Nat
    BY <1>2, <1>4
  <2> QED BY <1>11, <1>12, <2>3, <2>4, <2>5
<1>13. CASE k # key
  <2>1. CommittingOf(k)' = CommittingOf(k)
    BY <1>1, <1>13 DEF CommittingOf
  <2>2. PaymentsOf(k)' = PaymentsOf(k)
    BY <1>1, <1>2, <1>13 DEF PaymentsOf
  <2>3. InTransit(k)' = InTransit(k)
    BY <1>9, <2>1 DEF InTransit
  <2>4. Paid(k)' = Paid(k)
    BY <1>8, <1>10, <2>2
  <2> QED BY <1>11, <1>13, <2>3, <2>4
<1> QED BY <1>12, <1>13

LEMMA CommitMoney ==
    ASSUME MoneyInv, TypeInv', NEW p \in Procs, Commit(p)
    PROVE  MoneyInv'
<1> USE DEF MoneyInv, TypeInv
<1> DEFINE key == <<chg[p].account, chg[p].currency>>
           new == PaymentFor(chg[p])
<1>1. /\ \A q \in Procs \ {p} : pc'[q] = pc[q] /\ chg'[q] = chg[q]
      /\ pc[p] = "commit" /\ pc'[p] # "commit"
      /\ UNCHANGED <<lastTx, wallet, faults>>
      /\ payments' = payments \cup {new}
  BY DEF Commit, ChargeSucceeded, Goto, SetCharge, TypeOK, external
<1>2. /\ new.id = chg[p].tx /\ new.account = chg[p].account
      /\ new.currency = chg[p].currency /\ new.amount = chg[p].amount
      /\ chg[p].amount \in Nat
  BY DEF PaymentFor, TypeOK, Charge
<1>3. new \notin payments
  BY <1>1, <1>2 DEF OwnNumbers
<1>4. FiniteWork'
  <2>1. Committing' \subseteq Committing
    BY <1>1 DEF Committing
  <2>2. IsFiniteSet(payments \cup {new})
    BY FS_AddElement DEF FiniteWork
  <2> QED BY <1>1, <2>1, <2>2, FS_Subset DEF FiniteWork
<1>5. OwnNumbers'
  <2>1. ASSUME NEW pay \in payments' PROVE pay.id <= lastTx'
    BY <1>1, <1>2, <2>1 DEF OwnNumbers
  <2>2. ASSUME NEW q \in Procs, pc'[q] = "commit"
        PROVE  /\ chg'[q].tx <= lastTx'
               /\ \A pay \in payments' : pay.id # chg'[q].tx
               /\ \A o \in Procs \ {q} : pc'[o] = "commit" => chg'[q].tx # chg'[o].tx
    <3>1. q # p /\ pc[q] = "commit" /\ chg'[q] = chg[q]
      BY <1>1, <2>2
    <3>2. new.id # chg[q].tx
      BY <1>1, <1>2, <3>1 DEF OwnNumbers
    <3>3. \A pay \in payments' : pay.id # chg'[q].tx
      BY <1>1, <3>1, <3>2 DEF OwnNumbers
    <3> QED BY <1>1, <3>1, <3>3 DEF OwnNumbers
  <2> QED BY <2>1, <2>2 DEF OwnNumbers
<1>6. WithinDebits'
  <2> SUFFICES ASSUME NEW k \in Keys PROVE (Paid(k) + InTransit(k))' = Paid(k) + InTransit(k)
    BY <1>1 DEF WithinDebits
  <2>1. chg[p].amount \in Nat
    BY <1>2
  <2> HIDE DEF MoneyInv, TypeInv
  <2>2. TypeOK /\ FiniteWork /\ OwnNumbers
    BY DEF MoneyInv, TypeInv
  <2>3. Paid(k) \in Nat /\ InTransit(k)' \in Nat
    BY <2>2, CommitTransfers
  <2>4. CASE k = key
    <3>1. Paid(k)' = Paid(k) + chg[p].amount /\ InTransit(k) = InTransit(k)' + chg[p].amount
      BY <2>2, <2>4, CommitTransfers
    <3> QED BY <2>1, <2>3, <3>1
  <2>5. CASE k # key
    BY <2>2, <2>5, CommitTransfers
  <2> QED BY <2>4, <2>5
<1> QED BY <1>1, <1>4, <1>5, <1>6

LEMMA MoneyInit == Init => MoneyInv
<1> SUFFICES ASSUME Init PROVE MoneyInv
  OBVIOUS
<1>1. TypeInv
  BY TypeInit
<1>2. payments = {} /\ lastTx = 0 /\ faults = 0 /\ \A p \in Procs : pc[p] # "commit"
  BY DEF Init
<1>3. FiniteWork
  <2>1. Committing = {}
    BY <1>2 DEF Committing
  <2> QED BY <1>2, <2>1, FS_EmptySet DEF FiniteWork
<1>4. OwnNumbers
  BY <1>2 DEF OwnNumbers
<1>5. WithinDebits
  <2> SUFFICES ASSUME NEW k \in Keys PROVE Paid(k) + InTransit(k) = wallet[k] /\ wallet[k] = 0
    BY DEF WithinDebits
  <2>1. PaymentsOf(k) = {} /\ CommittingOf(k) = {}
    BY <1>2 DEF PaymentsOf, CommittingOf
  <2>2. Paid(k) = 0 /\ InTransit(k) = 0
    BY <2>1, TotalEmpty DEF Paid, InTransit
  <2>3. wallet[k] = 0
    BY DEF Init
  <2> QED BY <2>2, <2>3
<1>6. faults <= MaxFaults
  BY <1>2, BillingAssumption
<1> QED BY <1>1, <1>3, <1>4, <1>5, <1>6 DEF MoneyInv

\* Every step but those two records nothing.
LEMMA OtherStepsMoney ==
    ASSUME MoneyInv, TypeInv', [Next]_vars,
           ~\E p \in Procs : WalletAccepts(p) \/ Commit(p)
    PROVE  NothingRecorded
<1> USE DEF ledger, external
<1>0. /\ TypeOK /\ faults <= MaxFaults /\ faults \in Nat /\ lastTx \in Nat
      /\ MaxFaults \in Nat /\ wallet \in [Keys -> Nat]
      /\ Runs \subseteq Procs /\ Settlers \subseteq Procs /\ Daily \in Procs
  BY BillingAssumption DEF MoneyInv, TypeInv, TypeOK, Procs
\* What most steps have in common.
<1>1. ASSUME UNCHANGED <<payments, wallet, lastTx, faults>>,
             NEW p \in Procs, pc[p] # "commit", pc'[p] # "commit",
             \A q \in Procs \ {p} : pc'[q] = pc[q] /\ chg'[q] = chg[q]
      PROVE  NothingRecorded
  BY <1>0, <1>1 DEF NothingRecorded
<1>2. ASSUME NEW p \in Procs, ChargeSucceeded(p) \/ ChargeFailed(p)
      PROVE  /\ pc'[p] # "commit"
             /\ \A q \in Procs \ {p} : pc'[q] = pc[q] /\ chg'[q] = chg[q]
  BY <1>0, <1>2 DEF ChargeSucceeded, ChargeFailed, Goto, SetCharge, TypeOK
<1>3. ASSUME NEW r \in Runs, RunStep(r) PROVE NothingRecorded
  <2>1. /\ UNCHANGED <<payments, wallet, lastTx, faults>>
        /\ pc[r] # "commit" /\ pc'[r] # "commit"
        /\ \A q \in Procs \ {r} : pc'[q] = pc[q] /\ chg'[q] = chg[q]
    BY <1>0, <1>3 DEF RunStep, Authorize, ReserveRow, CancelAuthorization,
       AbandonReservation, RecordUsage, ChargeAction, ApplyInstantWall,
       Goto, SetCharge, TypeOK
  <2> QED BY <1>0, <1>1, <2>1
<1>4. ASSUME NEW p \in Procs, ChargeRead(p) PROVE NothingRecorded
  <2>1. /\ UNCHANGED <<payments, wallet, lastTx, faults>> /\ pc[p] # "commit"
    BY <1>4 DEF ChargeRead
  <2>2. /\ pc'[p] # "commit"
        /\ \A q \in Procs \ {p} : pc'[q] = pc[q] /\ chg'[q] = chg[q]
    BY <1>0, <1>2, <1>4 DEF ChargeRead, Goto, SetCharge, TypeOK
  <2> QED BY <1>1, <2>1, <2>2
<1>5. ASSUME NEW p \in Procs, WalletRejects(p) PROVE NothingRecorded
  BY <1>1, <1>2, <1>5 DEF WalletRejects
<1>6. ASSUME NEW m \in Settlers, SettleStep(m) PROVE NothingRecorded
  <2>1. /\ UNCHANGED <<payments, wallet, lastTx, faults>>
        /\ pc[m] # "commit" /\ pc'[m] # "commit"
        /\ \A q \in Procs \ {m} : pc'[q] = pc[q] /\ chg'[q] = chg[q]
    BY <1>0, <1>6 DEF SettleStep, SettleStart, SettleNext, SettleClear,
       Goto, SetCharge, TypeOK
  <2> QED BY <1>0, <1>1, <2>1
<1>7. ASSUME DailyStep PROVE NothingRecorded
  <2>1. /\ UNCHANGED <<payments, wallet, lastTx, faults>>
        /\ pc[Daily] # "commit" /\ pc'[Daily] # "commit"
        /\ \A q \in Procs \ {Daily} : pc'[q] = pc[q] /\ chg'[q] = chg[q]
    BY <1>0, <1>7 DEF DailyStep, DailyStart, DailyCharge, DailySkip, DailyDone,
       Goto, SetCharge, TypeOK
  <2> QED BY <1>0, <1>1, <2>1
<1>8. CASE Midnight \/ UNCHANGED vars
  BY <1>0, <1>8 DEF Midnight, vars, NothingRecorded
<1>9. Fault => faults' = faults + 1 /\ faults' <= MaxFaults
  BY <1>0 DEF Fault
<1>10. CASE Crash
  <2>1. \A p \in Procs : pc'[p] # "commit"
    BY <1>0, <1>10 DEF Crash
  <2> QED BY <1>0, <1>9, <1>10, <2>1 DEF Crash, NothingRecorded
<1>11. ASSUME NEW p \in Procs, WalletReplyLost(p) PROVE NothingRecorded
  <2>1. /\ payments' = payments /\ lastTx' = lastTx + 1 /\ pc[p] = "wallet"
        /\ wallet' = [wallet EXCEPT ![<<chg[p].account, chg[p].currency>>]
                         = @ + chg[p].amount]
    BY <1>11 DEF WalletReplyLost, Debit
  <2>2. chg[p].amount \in Nat
    BY <1>0 DEF TypeOK, Charge
  <2>3. \A k \in Keys : wallet'[k] >= wallet[k]
    BY <1>0, <2>1, <2>2
  <2>4. /\ pc'[p] # "commit"
        /\ \A q \in Procs \ {p} : pc'[q] = pc[q] /\ chg'[q] = chg[q]
    BY <1>2, <1>11 DEF WalletReplyLost
  <2>5. Fault
    BY <1>11 DEF WalletReplyLost
  <2> QED BY <1>0, <1>9, <2>1, <2>3, <2>4, <2>5 DEF NothingRecorded
<1>12. ASSUME NEW p \in Procs, CommitFails(p) PROVE NothingRecorded
  <2>1. UNCHANGED <<payments, wallet, lastTx>> /\ Fault
    BY <1>12 DEF CommitFails
  <2>2. /\ pc'[p] # "commit"
        /\ \A q \in Procs \ {p} : pc'[q] = pc[q] /\ chg'[q] = chg[q]
    BY <1>2, <1>12 DEF CommitFails
  <2> QED BY <1>0, <1>9, <2>1, <2>2 DEF NothingRecorded
<1> QED BY <1>3, <1>4, <1>5, <1>6, <1>7, <1>8, <1>10, <1>11, <1>12
     DEF Next, ChargeStep, WalletStep, FaultStep

LEMMA MoneyStep == MoneyInv /\ [Next]_vars => MoneyInv'
<1> SUFFICES ASSUME MoneyInv, [Next]_vars PROVE MoneyInv'
  OBVIOUS
<1>1. TypeInv'
  BY TypeStep, NamedStep DEF TypeInv, MoneyInv
<1> QED BY <1>1, WalletAcceptsMoney, CommitMoney, OtherStepsMoney, NothingRecordedStep

\* Unless a reply or a commit was lost, Wallet's debits are exactly the recorded
\* payments and the transfers about to be recorded, however charges overlap.
THEOREM DebitsReconciled == MaxFaults = 0 /\ Spec => []ReconciledWithWallet
<1> SUFFICES ASSUME MaxFaults = 0 PROVE Spec => []ReconciledWithWallet
  OBVIOUS
<1>1. MoneyInv => ReconciledWithWallet
  <2> SUFFICES ASSUME MoneyInv, NEW k \in Keys PROVE wallet[k] = Paid(k) + InTransit(k)
    BY DEF ReconciledWithWallet, Paid, InTransit
  <2>1. faults = 0
    BY DEF MoneyInv, TypeInv, TypeOK
  <2> QED BY <2>1 DEF MoneyInv, WithinDebits
<1> QED BY MoneyInit, MoneyStep, <1>1, PTL DEF Spec

-----------------------------------------------------------------------------
(* Where payments go.  An allocation hands out the whole amount, and only to *)
(* rows of the account that pays.                                           *)

LEMMA AllocationTotal ==
    ASSUME TypeOK, NEW p \in Procs, NEW full \in SUBSET chg[p].rows,
           NEW part \in chg[p].rows \cup {None}, IsAllocation(chg[p], full, part),
           NEW S \in SUBSET Runs, chg[p].rows \subseteq S
    PROVE  Total(Allocated(chg[p], full, part), S) = chg[p].amount
<1> DEFINE c == chg[p]
           f == Allocated(chg[p], full, part)
           rest == S \ full
<1>1. /\ c.rows \subseteq Runs /\ c.owed \in [Runs -> Nat] /\ c.amount \in Nat
      /\ f \in [Runs -> Nat]
  BY SettledType DEF TypeOK, Charge
<1>2. /\ full \subseteq Runs /\ rest \subseteq Runs /\ S = full \cup rest /\ full \cap rest = {}
      /\ IsFiniteSet(full) /\ IsFiniteSet(rest)
  BY <1>1, SubsetOfRuns
<1>3. Total(f, full) = Total(c.owed, full)
  <2>1. \A r \in full : f[r] = c.owed[r]
    BY <1>2 DEF Allocated
  <2> HIDE DEF f
  <2> QED BY <2>1, TotalSame
<1>4. Total(c.owed, full) \in Nat
  BY <1>1, <1>2, TotalType
<1>5. Total(f, rest) = Remaining(c, full)
  <2>1. CASE part = None
    <3>1. \A r \in rest : f[r] = 0
      BY <1>2, <2>1, BillingAssumption DEF Allocated
    <3>2. Remaining(c, full) = 0
      BY <2>1 DEF IsAllocation
    <3> HIDE DEF f
    <3> QED BY <3>1, <3>2, TotalZero
  <2>2. CASE part # None
    <3>1. part \in rest /\ part \in Runs
      BY <1>1, <2>2 DEF IsAllocation
    <3>2. f[part] = Remaining(c, full)
      BY <3>1 DEF Allocated
    <3>3. \A r \in rest \ {part} : f[r] = 0
      BY <1>2 DEF Allocated
    <3>4. \A r \in rest : f[r] \in Nat
      BY <1>1, <1>2
    <3> HIDE DEF f, rest
    <3>5. Total(f, rest \ {part}) = 0
      BY <3>3, TotalZero
    <3>6. Total(f, rest) = Total(f, rest \ {part}) + f[part]
      BY <1>2, <3>1, <3>4, TotalWith
    <3> QED BY <3>1, <3>2, <3>4, <3>5, <3>6
  <2> QED BY <2>1, <2>2
<1>6. Total(f, full \cup rest) = Total(f, full) + Total(f, rest)
  <2>1. \A r \in full \cup rest : f[r] \in Nat
    BY <1>1, <1>2
  <2> HIDE DEF f, rest
  <2> QED BY <1>2, <2>1, TotalSplit
<1>7. Remaining(c, full) = c.amount - Total(c.owed, full)
  BY DEF Remaining
<1> HIDE DEF f, rest, c
<1>8. Total(f, S) = c.amount
  BY <1>1, <1>2, <1>3, <1>4, <1>5, <1>6, <1>7
<1> QED BY <1>8 DEF f, c

OwnRows == \A p \in Procs : Holding(p) => \A r \in chg[p].rows : Owner[r] = chg[p].account

OwnPayments ==
    \A r \in Runs : usage[r].payment # None =>
        \E pay \in payments : pay.id = usage[r].payment /\ pay.account = Owner[r]

PaymentsBy(a) == {pay \in payments : pay.account = a}
RowsBy(a)     == {r \in Runs : Owner[r] = a}

HandedOut == \A a \in Accounts : Total(PaymentAmount, PaymentsBy(a)) = Total(collected, RowsBy(a))

AllocInv == MoneyInv /\ OwnRows /\ OwnPayments /\ HandedOut

LEMMA AllocInit == Init => AllocInv
<1> SUFFICES ASSUME Init PROVE AllocInv
  OBVIOUS
<1>1. MoneyInv
  BY MoneyInit
<1>2. OwnRows
  BY DEF Init, OwnRows, Holding
<1>3. OwnPayments
  BY DEF Init, OwnPayments
<1>4. HandedOut
  <2> SUFFICES ASSUME NEW a \in Accounts
               PROVE  Total(PaymentAmount, PaymentsBy(a)) = Total(collected, RowsBy(a))
    BY DEF HandedOut
  <2>1. PaymentsBy(a) = {}
    BY DEF Init, PaymentsBy
  <2>2. \A r \in RowsBy(a) : collected[r] = 0
    BY DEF Init, RowsBy
  <2> QED BY <2>1, <2>2, TotalEmpty, TotalZero
<1> QED BY <1>1, <1>2, <1>3, <1>4 DEF AllocInv

LEMMA CommitAlloc ==
    ASSUME AllocInv, TypeInv', NEW p \in Procs, Commit(p)
    PROVE  OwnRows' /\ OwnPayments' /\ HandedOut'
<1> DEFINE c == chg[p]
           new == PaymentFor(chg[p])
<1>0. TypeOK /\ FiniteWork
  BY DEF AllocInv, MoneyInv, TypeInv
<1>1. /\ \A q \in Procs \ {p} : pc'[q] = pc[q] /\ chg'[q] = chg[q]
      /\ pc[p] = "commit" /\ pc'[p] \notin {"commit", "wallet"}
      /\ payments' = payments \cup {new}
  BY <1>0 DEF Commit, ChargeSucceeded, Goto, SetCharge, TypeOK
<1>2. PICK full \in SUBSET c.rows, part \in c.rows \cup {None} :
        /\ IsAllocation(c, full, part)
        /\ usage' = Settled(c, full, part)
        /\ collected' = [r \in Runs |-> collected[r] + Allocated(c, full, part)[r]]
  BY DEF Commit
<1>3. /\ new.id = c.tx /\ new.account = c.account /\ new.currency = c.currency
      /\ new.amount = c.amount /\ c.amount \in Nat /\ c.rows \subseteq Runs
  BY <1>0 DEF PaymentFor, TypeOK, Charge
<1>4. \A r \in c.rows : Owner[r] = c.account
  BY <1>1 DEF AllocInv, OwnRows, Holding
<1>5. new \notin payments
  BY <1>1, <1>3 DEF AllocInv, MoneyInv, OwnNumbers
<1>6. OwnRows'
  BY <1>1 DEF AllocInv, OwnRows, Holding
<1>7. OwnPayments'
  <2> SUFFICES ASSUME NEW r \in Runs, usage'[r].payment # None
               PROVE  \E pay \in payments' : pay.id = usage'[r].payment /\ pay.account = Owner[r]
    BY DEF OwnPayments
  <2>1. CASE r \in full /\ Stored(r)
    <3>1. usage'[r].payment = c.tx
      BY <1>0, <1>2, <2>1 DEF Settled, Stamped, TypeOK, UsageRow
    <3> QED BY <1>1, <1>3, <1>4, <2>1, <3>1
  <2>2. CASE ~(r \in full /\ Stored(r))
    <3>1. usage'[r].payment = usage[r].payment
      BY <1>0, <1>2, <2>2 DEF Settled, KeepRemainder, TypeOK, UsageRow
    <3> QED BY <1>1, <3>1 DEF AllocInv, OwnPayments
  <2> QED BY <2>1, <2>2
<1>8. HandedOut'
  <2> SUFFICES ASSUME NEW a \in Accounts
               PROVE  Total(PaymentAmount', PaymentsBy(a)') = Total(collected', RowsBy(a))
    BY DEF HandedOut, RowsBy
  <2> DEFINE f == Allocated(c, full, part)
             S == RowsBy(a)
  <2>1. f \in [Runs -> Nat] /\ collected \in [Runs -> Nat] /\ S \subseteq Runs /\ IsFiniteSet(S)
    BY <1>0, <1>2, SettledType, SubsetOfRuns DEF TypeOK, RowsBy
  <2>2. Total(collected', S) = Total(collected, S) + Total(f, S)
    <3>1. \A r \in S : collected[r] \in Nat /\ f[r] \in Nat /\ collected'[r] = collected[r] + f[r]
      BY <1>2, <2>1
    <3> HIDE DEF f, S
    <3> QED BY <2>1, <3>1, TotalAdd
  <2>3. /\ IsFiniteSet(PaymentsBy(a))
        /\ \A pay \in PaymentsBy(a) : /\ PaymentAmount[pay] \in Nat
                                      /\ PaymentAmount'[pay] = PaymentAmount[pay]
        /\ PaymentAmount'[new] = c.amount
    <3>1. PaymentsBy(a) \subseteq payments
      BY DEF PaymentsBy
    <3>2. IsFiniteSet(PaymentsBy(a))
      BY <1>0, <3>1, FS_Subset DEF FiniteWork
    <3> QED BY <1>0, <1>1, <1>3, <3>1, <3>2 DEF PaymentAmount, TypeOK, Payment
  <2>4. Total(PaymentAmount', PaymentsBy(a)) = Total(collected, S)
    <3>1. Total(PaymentAmount', PaymentsBy(a)) = Total(PaymentAmount, PaymentsBy(a))
      BY <2>3, TotalSame
    <3> QED BY <3>1 DEF AllocInv, HandedOut
  <2>5. CASE a = c.account
    <3>1. PaymentsBy(a)' = PaymentsBy(a) \cup {new} /\ PaymentsBy(a) \cap {new} = {}
      BY <1>1, <1>3, <1>5, <2>5 DEF PaymentsBy
    <3>2. Total(PaymentAmount', PaymentsBy(a) \cup {new})
            = Total(PaymentAmount', PaymentsBy(a)) + c.amount
      <4>1. \A pay \in PaymentsBy(a) \cup {new} : PaymentAmount'[pay] \in Nat
        BY <1>3, <2>3
      <4>2. IsFiniteSet({new})
        BY FS_Singleton
      <4> HIDE DEF new
      <4>3. Total(PaymentAmount', PaymentsBy(a) \cup {new})
              = Total(PaymentAmount', PaymentsBy(a)) + Total(PaymentAmount', {new})
        BY <2>3, <3>1, <4>1, <4>2, TotalSplit
      <4> QED BY <1>3, <2>3, <4>3, TotalOne
    <3>3. Total(f, S) = c.amount
      <4>1. c.rows \subseteq S /\ S \in SUBSET Runs
        BY <1>3, <1>4, <2>1, <2>5 DEF RowsBy
      <4> HIDE DEF S
      <4> QED BY <1>0, <1>2, <4>1, AllocationTotal
    <3>4. Total(collected, S) \in Nat
      BY <2>1, TotalType
    <3>5. Total(PaymentAmount', PaymentsBy(a)') = Total(collected', S)
      <4> HIDE DEF f, S, c, new
      <4> QED BY <2>2, <2>4, <3>1, <3>2, <3>3
    <3> QED BY <3>5
  <2>6. CASE a # c.account
    <3>1. PaymentsBy(a)' = PaymentsBy(a)
      BY <1>1, <1>3, <2>6 DEF PaymentsBy
    <3>2. Total(f, S) = 0
      <4>1. \A r \in S : r \notin full /\ r # part
        BY <1>4, <2>6, BillingAssumption DEF RowsBy
      <4>2. \A r \in S : f[r] = 0
        BY <2>1, <4>1 DEF Allocated
      <4> HIDE DEF f, S
      <4> QED BY <4>2, TotalZero
    <3>3. Total(collected, S) \in Nat
      BY <2>1, TotalType
    <3>4. Total(PaymentAmount', PaymentsBy(a)') = Total(collected', S)
      <4> HIDE DEF f, S, c, new
      <4> QED BY <2>2, <2>4, <3>1, <3>2, <3>3
    <3> QED BY <3>4
  <2> QED BY <2>5, <2>6
<1> QED BY <1>6, <1>7, <1>8

\* No other step records or collects; a row keeps its stamp or starts without.
LEMMA OtherStepsAlloc ==
    ASSUME AllocInv, TypeInv', [Next]_vars, ~\E p \in Procs : Commit(p)
    PROVE  OwnRows' /\ OwnPayments' /\ HandedOut'
<1> USE DEF ledger, external
<1>0. TypeOK /\ TypeInv /\ MoneyInv /\ Runs \subseteq Procs
  BY DEF AllocInv, MoneyInv, TypeInv, Procs
<1>1. payments' = payments
  <2>1. CASE \E p \in Procs : WalletAccepts(p)
    BY <2>1 DEF WalletAccepts
  <2>2. CASE ~\E p \in Procs : WalletAccepts(p)
    BY <1>0, <2>2, OtherStepsMoney DEF NothingRecorded
  <2> QED BY <2>1, <2>2
<1>2. /\ OwnRows' /\ collected' = collected
      /\ \A r \in Runs : usage'[r].payment \in {usage[r].payment, None}
  <2>1. CASE Quiet
    <3>1. \A p \in Procs : Holding(p)' =>
             Holding(p) /\ chg'[p].rows = chg[p].rows /\ chg'[p].account = chg[p].account
      BY <2>1 DEF Quiet, Holding
    <3> QED BY <2>1, <3>1 DEF AllocInv, OwnRows, Quiet
  <2>2. ASSUME NEW p \in Procs, ChargeRead(p)
        PROVE  OwnRows' /\ UNCHANGED <<usage, collected>>
    <3>1. CASE Snapshot(p).amount = 0
      <4>1. Quiet
        BY <1>0, <2>2, <3>1, ChargeEndQuiet DEF ChargeRead
      <4>2. \A q \in Procs : Holding(q)' =>
               Holding(q) /\ chg'[q].rows = chg[q].rows /\ chg'[q].account = chg[q].account
        BY <4>1 DEF Quiet, Holding
      <4> QED BY <4>1, <4>2 DEF AllocInv, OwnRows, Quiet
    <3>2. CASE Snapshot(p).amount # 0
      <4>1. /\ \A q \in Procs \ {p} : pc'[q] = pc[q] /\ chg'[q] = chg[q]
            /\ chg'[p] = Snapshot(p) /\ UNCHANGED <<usage, collected>>
        BY <1>0, <2>2, <3>2 DEF ChargeRead, Goto, SetCharge, TypeOK
      <4>2. \A r \in Snapshot(p).rows : Owner[r] = Snapshot(p).account
        <5>1. /\ Snapshot(p).rows = UnpaidRows(chg[p].account, chg[p].currency, chg[p].before)
              /\ Snapshot(p).account = chg[p].account
          BY <1>0, SnapshotFields
        <5> QED BY <5>1 DEF UnpaidRows
      <4> QED BY <4>1, <4>2 DEF AllocInv, OwnRows, Holding
    <3> QED BY <2>2, <3>1, <3>2 DEF ChargeRead
  <2>3. ASSUME NEW r \in Runs, RunStep(r)
        PROVE  /\ OwnRows' /\ collected' = collected
               /\ \A q \in Runs : usage'[q].payment \in {usage[q].payment, None}
    <3>1. /\ \A q \in Procs \ {r} : pc'[q] = pc[q] /\ chg'[q] = chg[q]
          /\ pc'[r] \notin {"wallet", "commit"} /\ collected' = collected
      BY <1>0, <2>3 DEF RunStep, Authorize, ReserveRow, CancelAuthorization,
         AbandonReservation, RecordUsage, ChargeAction, ApplyInstantWall,
         Goto, SetCharge, TypeOK
    <3>2. OwnRows'
      BY <3>1 DEF AllocInv, OwnRows, Holding
    <3>3. ASSUME NEW q \in Runs PROVE usage'[q].payment \in {usage[q].payment, None}
      <4>1. CASE UNCHANGED usage
        BY <4>1
      <4>2. CASE ReserveRow(r) \/ ChargeAction(r) \/ RecordUsage(r)
        <5>1. PICK row : /\ usage' = [usage EXCEPT ![r] = row]
                         /\ row.payment \in {usage[r].payment, None}
          <6>1. CASE ReserveRow(r)
            <7>1. usage' = [usage EXCEPT ![r] = Row("reserved", ModelCurrency[r], 0, None, day)]
              BY <6>1 DEF ReserveRow
            <7>2. Row("reserved", ModelCurrency[r], 0, None, day).payment = None
              BY DEF Row
            <7> QED BY <7>1, <7>2
          <6>2. CASE ChargeAction(r)
            BY <6>2 DEF ChargeAction, Row
          <6>3. CASE RecordUsage(r)
            BY <6>3 DEF RecordUsage, Row
          <6> QED BY <4>2, <6>1, <6>2, <6>3
        <5> QED BY <1>0, <5>1 DEF TypeOK
      <4>3. CASE CancelAuthorization(r)
        BY <1>0, <4>3 DEF CancelAuthorization, TypeOK, UsageRow
      <4> QED BY <2>3, <4>1, <4>2, <4>3
           DEF RunStep, Authorize, AbandonReservation, ApplyInstantWall
    <3> QED BY <3>1, <3>2, <3>3
  <2> QED BY <1>0, <2>1, <2>2, <2>3, QuietActions DEF Next, ChargeStep
<1>3. OwnPayments'
  BY <1>1, <1>2 DEF AllocInv, OwnPayments
<1>4. HandedOut'
  BY <1>1, <1>2 DEF AllocInv, HandedOut, PaymentAmount, PaymentsBy, RowsBy
<1> QED BY <1>2, <1>3, <1>4

LEMMA AllocStep == AllocInv /\ [Next]_vars => AllocInv'
<1> SUFFICES ASSUME AllocInv, [Next]_vars PROVE AllocInv'
  OBVIOUS
<1>1. MoneyInv'
  BY MoneyStep DEF AllocInv
<1>2. OwnRows' /\ OwnPayments' /\ HandedOut'
  BY <1>1, CommitAlloc, OtherStepsAlloc DEF MoneyInv
<1> QED BY <1>1, <1>2 DEF AllocInv

\* Whatever crashes, is lost or overlaps: recorded payments never exceed what
\* Wallet debited, every payment is handed out to the last unit to rows of the
\* account that paid, and a paid row points at a payment of its own account.
THEOREM PaymentsAlwaysAccounted == Spec => []PaymentsAccounted
<1>1. AllocInv => PaymentsAccounted
  <2> SUFFICES ASSUME AllocInv PROVE PaymentsBacked /\ PaymentsAllocated
    BY DEF PaymentsAccounted
  <2>0. TypeOK /\ FiniteWork
    BY DEF AllocInv, MoneyInv, TypeInv
  <2>1. ASSUME NEW k \in Keys PROVE Paid(k) <= wallet[k]
    <3>1. Paid(k) \in Nat /\ InTransit(k) \in Nat /\ wallet[k] \in Nat
      BY <2>0, MoneyTypes DEF TypeOK
    <3>2. Paid(k) + InTransit(k) <= wallet[k]
      BY DEF AllocInv, MoneyInv, WithinDebits
    <3> QED BY <3>1, <3>2
  <2>2. PaymentsBacked
    BY <2>1 DEF PaymentsBacked, Paid
  <2>3. PaymentsAllocated
    BY DEF AllocInv, HandedOut, OwnPayments, PaymentsAllocated, PaymentsBy, RowsBy,
       Unpaid
  <2> QED BY <2>2, <2>3
<1> QED BY AllocInit, AllocStep, <1>1, PTL DEF Spec

-----------------------------------------------------------------------------
(* The promise to an account.  When charges do not overlap and nothing      *)
(* fails, what was paid in a currency is what was collected from its rows,  *)
(* and a charge is payable: whole Wallet units, no more than its rows owe   *)
(* and less than one unit short of it.                                      *)

Used(k)      == Total(Originals, RowsOf(k))
Collected(k) == Total(collected, RowsOf(k))

Payable(p) ==
    /\ chg[p].amount > 0
    /\ chg[p].amount % Cent = 0
    /\ chg[p].amount <= Total(chg[p].owed, chg[p].rows)
    /\ Total(chg[p].owed, chg[p].rows) - chg[p].amount < Cent

AllPayable      == \A p \in Procs : Holding(p) => Payable(p)
PaidIsCollected == \A k \in Keys : Paid(k) = Collected(k)

PromiseInv == SerialInv /\ MoneyInv /\ AllPayable /\ PaidIsCollected

\* A row that a charge in progress relies on belongs to what is being charged.
LEMMA OwedRow ==
    ASSUME SerialInv, NEW p \in Procs, Holding(p), NEW r \in chg[p].rows, chg[p].owed[r] > 0
    PROVE  /\ r \in RowsOf(<<chg[p].account, chg[p].currency>>)
           /\ Stored(r) /\ collected[r] + chg[p].owed[r] = usage[r].original
<1>1. SnapshotRow(p, r) /\ r \in Runs /\ chg[p].owed[r] \in Nat
  BY DEF SerialInv, SnapshotInv, TypeInv, TypeOK, Charge
<1>2. /\ usage[r].state = "priced" /\ usage[r].payment = None
      /\ usage[r].amount = chg[p].owed[r] /\ Owner[r] = chg[p].account
      /\ usage[r].currency = chg[p].currency
  BY <1>1 DEF SnapshotRow
<1>3. Unpaid(r) /\ Stored(r)
  BY <1>2 DEF Unpaid, Stored
<1>4. collected[r] + chg[p].owed[r] = usage[r].original
  BY <1>1, <1>2, <1>3 DEF SerialInv, RowInv
<1> QED BY <1>1, <1>2, <1>3, <1>4 DEF RowsOf

\* What was collected and what a charge in progress may still collect stay
\* within the price of the usage.
LEMMA ChargeWithinUsed ==
    ASSUME SerialInv, NEW p \in Procs, Holding(p)
    PROVE  LET k == <<chg[p].account, chg[p].currency>>
           IN  Collected(k) + Total(chg[p].owed, chg[p].rows) <= Used(k)
<1> DEFINE k == <<chg[p].account, chg[p].currency>>
           f == chg[p].owed
           T == RowsOf(k)
           g == [r \in Runs |-> IF r \in chg[p].rows THEN f[r] ELSE 0]
           h == [r \in Runs |-> collected[r] + g[r]]
<1>1. /\ f \in [Runs -> Nat] /\ collected \in [Runs -> Nat] /\ chg[p].rows \subseteq Runs
      /\ \A r \in Runs : usage[r] \in UsageRow
  BY DEF SerialInv, TypeInv, TypeOK, Charge
<1>2. T \subseteq Runs /\ IsFiniteSet(T)
  BY SubsetOfRuns DEF RowsOf
<1>3. g \in [Runs -> Nat] /\ h \in [Runs -> Nat]
  BY <1>1
<1>4. ASSUME NEW r \in chg[p].rows
      PROVE  f[r] \in Nat /\ (f[r] > 0 => r \in T /\ f[r] <= g[r])
  BY <1>1, OwedRow
<1>5. Total(f, chg[p].rows) <= Total(g, T)
  <2> HIDE DEF f, g, T
  <2>1. \A r \in T : g[r] \in Nat
    BY <1>2, <1>3
  <2> QED BY <1>2, <1>4, <2>1, TotalCovered
<1>6. Total(h, T) = Total(collected, T) + Total(g, T)
  <2>1. \A r \in T : collected[r] \in Nat /\ g[r] \in Nat /\ h[r] = collected[r] + g[r]
    BY <1>1, <1>2, <1>3
  <2> HIDE DEF h, g, T
  <2> QED BY <1>2, <2>1, TotalAdd
<1>7. ASSUME NEW r \in T
      PROVE  h[r] \in Nat /\ Originals[r] \in Nat /\ h[r] <= Originals[r]
  <2>1. r \in Runs /\ RowInv(r) /\ usage[r].original \in Nat /\ collected[r] \in Nat
    BY <1>1, <1>2 DEF SerialInv, UsageRow
  <2>2. CASE r \in chg[p].rows /\ f[r] > 0
    <3>1. Stored(r) /\ collected[r] + f[r] = usage[r].original
      BY <2>2, OwedRow
    <3> QED BY <1>1, <2>1, <2>2, <3>1 DEF Originals
  <2>3. CASE ~(r \in chg[p].rows /\ f[r] > 0)
    <3>1. g[r] = 0 /\ h[r] = collected[r]
      BY <1>1, <2>1, <2>3
    <3>2. collected[r] <= Originals[r]
      BY <2>1 DEF RowInv, Originals, Stored
    <3>3. Originals[r] \in Nat
      BY <2>1 DEF Originals
    <3> QED BY <2>1, <3>1, <3>2, <3>3
  <2> QED BY <2>2, <2>3
<1>8. Total(h, T) <= Total(Originals, T)
  <2> HIDE DEF h, T
  <2> QED BY <1>2, <1>7, TotalMono
<1>9. /\ Total(h, T) \in Nat /\ Total(collected, T) \in Nat /\ Total(g, T) \in Nat
      /\ Total(Originals, T) \in Nat /\ Total(f, chg[p].rows) \in Nat
  <2>1. IsFiniteSet(chg[p].rows)
    BY <1>1, SubsetOfRuns
  <2>2. \A r \in T : collected[r] \in Nat /\ g[r] \in Nat
    BY <1>1, <1>2, <1>3
  <2> HIDE DEF h, g, T, f
  <2> QED BY <1>1, <1>2, <1>4, <1>7, <2>1, <2>2, TotalType
<1>10. Collected(k) = Total(collected, T) /\ Used(k) = Total(Originals, T)
  BY DEF Collected, Used
<1>11. Collected(k) + Total(f, chg[p].rows) <= Used(k)
  <2> HIDE DEF h, g, T, f, k
  <2> QED BY <1>5, <1>6, <1>8, <1>9, <1>10
<1> QED BY <1>11

\* A step that leaves the rows' prices and currencies alone.
SamePrices ==
    \A r \in Runs : /\ usage'[r].state = usage[r].state
                    /\ usage'[r].currency = usage[r].currency
                    /\ usage'[r].original = usage[r].original

LEMMA SamePricesUsed ==
    ASSUME SamePrices, NEW k
    PROVE  RowsOf(k)' = RowsOf(k) /\ Used(k)' = Used(k)
<1>1. RowsOf(k)' = RowsOf(k)
  BY DEF SamePrices, RowsOf
<1>2. \A r \in RowsOf(k) : Originals'[r] = Originals[r]
  BY DEF SamePrices, RowsOf, Originals, Stored
<1>3. Total(Originals', RowsOf(k)) = Total(Originals, RowsOf(k))
  BY <1>2, TotalSame
<1> QED BY <1>1, <1>3 DEF Used

\* Only a run that was not yet priced changes its row.
LEMMA RunStepRow ==
    ASSUME TypeInv, NEW r \in Runs, RowInv(r), RunStep(r)
    PROVE  /\ collected' = collected
           /\ \A q \in Runs \ {r} : usage'[q] = usage[q]
           /\ \/ usage' = usage
              \/ Originals[r] = 0 /\ collected[r] = 0
<1> USE DEF ledger, external
<1>1. CASE Authorize(r) \/ AbandonReservation(r) \/ ApplyInstantWall(r)
  BY <1>1 DEF Authorize, AbandonReservation, ApplyInstantWall
<1>2. CASE ReserveRow(r) \/ CancelAuthorization(r) \/ RecordUsage(r) \/ ChargeAction(r)
  <2>1. collected' = collected /\ pc[r] \in {"authorized", "running"}
    BY <1>2 DEF ReserveRow, CancelAuthorization, RecordUsage, ChargeAction
  <2>2. \A q \in Runs \ {r} : usage'[q] = usage[q]
    BY <1>2 DEF ReserveRow, CancelAuthorization, RecordUsage, ChargeAction, TypeInv, TypeOK
  <2>3. usage[r].state # "priced"
    BY <2>1 DEF RowInv
  <2>4. collected[r] = 0 /\ usage[r].original = 0
    BY <2>3 DEF RowInv
  <2>5. Originals[r] = 0
    BY <2>4 DEF Originals
  <2> QED BY <2>1, <2>2, <2>4, <2>5
<1> QED BY <1>1, <1>2 DEF RunStep

LEMMA NewPriceUsed ==
    ASSUME TypeOK, TypeOK', NEW r \in Runs, Originals[r] = 0,
           \A q \in Runs \ {r} : usage'[q] = usage[q], NEW k
    PROVE  Used(k)' = Used(k) + IF r \in RowsOf(k)' THEN Originals'[r] ELSE 0
<1> DEFINE rest == RowsOf(k) \ {r}
<1>1. /\ \A q \in Runs : Originals[q] \in Nat /\ Originals'[q] \in Nat
      /\ \A q \in rest : Originals'[q] = Originals[q]
  BY DEF TypeOK, UsageRow, Originals, Stored, RowsOf
<1>2. RowsOf(k)' \ {r} = rest /\ RowsOf(k) \subseteq Runs /\ RowsOf(k)' \subseteq Runs
  BY DEF RowsOf
<1>3. IsFiniteSet(RowsOf(k)) /\ IsFiniteSet(RowsOf(k)') /\ IsFiniteSet(rest)
  BY <1>2, SubsetOfRuns
<1>4. Total(Originals, RowsOf(k)) = Total(Originals, rest)
  <2>1. CASE r \in RowsOf(k)
    <3>1. Total(Originals, RowsOf(k)) = Total(Originals, RowsOf(k) \ {r}) + Originals[r]
      BY <1>1, <1>2, <1>3, <2>1, TotalWith
    <3>2. Total(Originals, rest) \in Nat
      BY <1>1, <1>2, <1>3, TotalType
    <3> QED BY <3>1, <3>2
  <2>2. CASE r \notin RowsOf(k)
    <3>1. rest = RowsOf(k)
      BY <2>2
    <3> QED BY <3>1
  <2> QED BY <2>1, <2>2
<1>5. Total(Originals', rest) = Total(Originals, rest)
  <2> HIDE DEF rest
  <2> QED BY <1>1, TotalSame
<1>6. Total(Originals', rest) \in Nat
  <2>1. \A q \in rest : Originals'[q] \in Nat
    BY <1>1, <1>2
  <2> HIDE DEF rest
  <2> QED BY <1>3, <2>1, TotalType
<1>7. Total(Originals', RowsOf(k)')
        = Total(Originals', rest) + IF r \in RowsOf(k)' THEN Originals'[r] ELSE 0
  <2>1. CASE r \in RowsOf(k)'
    <3>1. \A q \in RowsOf(k)' : Originals'[q] \in Nat
      BY <1>1, <1>2
    <3>2. Total(Originals', RowsOf(k)')
            = Total(Originals', RowsOf(k)' \ {r}) + Originals'[r]
      BY <1>3, <2>1, <3>1, TotalWith
    <3> QED BY <1>2, <2>1, <3>2
  <2>2. CASE r \notin RowsOf(k)'
    <3>1. rest = RowsOf(k)'
      BY <1>2, <2>2
    <3>2. Total(Originals', RowsOf(k)') = Total(Originals', rest)
      BY <3>1
    <3> HIDE DEF rest
    <3> QED BY <1>6, <2>2, <3>2
  <2> QED BY <2>1, <2>2
<1>8. Used(k)' = Total(Originals', RowsOf(k)') /\ Used(k) = Total(Originals, RowsOf(k))
  BY DEF Used
<1> HIDE DEF rest
<1> QED BY <1>4, <1>5, <1>7, <1>8

\* A row that nothing was collected for may change its currency.
LEMMA NewPriceCollected ==
    ASSUME TypeOK, NEW r \in Runs, collected[r] = 0, collected' = collected,
           \A q \in Runs \ {r} : usage'[q] = usage[q], NEW k
    PROVE  Collected(k)' = Collected(k)
<1>1. \A q \in Runs : collected[q] \in Nat
  BY DEF TypeOK
<1>2. /\ RowsOf(k) \subseteq Runs /\ RowsOf(k)' \subseteq Runs
      /\ \A q \in Runs \ {r} : q \in RowsOf(k)' <=> q \in RowsOf(k)
  BY DEF RowsOf
<1>3. IsFiniteSet(RowsOf(k)) /\ IsFiniteSet(RowsOf(k)')
  BY <1>2, SubsetOfRuns
<1>4. /\ \A q \in RowsOf(k) : collected[q] > 0 => q \in RowsOf(k)'
      /\ \A q \in RowsOf(k)' : collected[q] > 0 => q \in RowsOf(k)
  BY <1>1, <1>2
<1>5. Total(collected, RowsOf(k)) <= Total(collected, RowsOf(k)')
  <2>1. \A q \in RowsOf(k) : /\ collected[q] \in Nat
                             /\ collected[q] > 0 => q \in RowsOf(k)' /\ collected[q] <= collected[q]
    BY <1>1, <1>2, <1>4
  <2>2. \A q \in RowsOf(k)' : collected[q] \in Nat
    BY <1>1, <1>2
  <2> QED BY <1>3, <2>1, <2>2, TotalCovered
<1>6. Total(collected, RowsOf(k)') <= Total(collected, RowsOf(k))
  <2>1. \A q \in RowsOf(k)' : /\ collected[q] \in Nat
                              /\ collected[q] > 0 => q \in RowsOf(k) /\ collected[q] <= collected[q]
    BY <1>1, <1>2, <1>4
  <2>2. \A q \in RowsOf(k) : collected[q] \in Nat
    BY <1>1, <1>2
  <2> QED BY <1>3, <2>1, <2>2, TotalCovered
<1>7. Total(collected, RowsOf(k)) \in Nat /\ Total(collected, RowsOf(k)') \in Nat
  BY <1>1, <1>2, <1>3, TotalType
<1>8. Collected(k)' = Total(collected, RowsOf(k)') /\ Collected(k) = Total(collected, RowsOf(k))
  BY DEF Collected
<1> QED BY <1>5, <1>6, <1>7, <1>8

LEMMA CommitCollected ==
    ASSUME SerialInv, NEW p \in Procs, Commit(p), NEW k \in Keys
    PROVE  /\ SamePrices
           /\ k = <<chg[p].account, chg[p].currency>> =>
                  Collected(k)' = Collected(k) + chg[p].amount
           /\ k # <<chg[p].account, chg[p].currency>> => Collected(k)' = Collected(k)
<1> DEFINE key == <<chg[p].account, chg[p].currency>>
<1>0. TypeOK /\ Holding(p)
  BY DEF SerialInv, TypeInv, Commit, Holding
<1>1. PICK full \in SUBSET chg[p].rows, part \in chg[p].rows \cup {None} :
        /\ IsAllocation(chg[p], full, part)
        /\ usage' = Settled(chg[p], full, part)
        /\ collected' = [r \in Runs |-> collected[r] + Allocated(chg[p], full, part)[r]]
  BY DEF Commit
<1> DEFINE f == Allocated(chg[p], full, part)
<1>2. /\ chg[p].rows \subseteq Runs /\ chg[p].owed \in [Runs -> Nat]
      /\ f \in [Runs -> Nat] /\ collected \in [Runs -> Nat] /\ chg[p].amount \in Nat
  BY <1>0, <1>1, SettledType DEF TypeOK, Charge
<1>3. SamePrices
  BY <1>0, <1>1 DEF Settled, Stamped, KeepRemainder, SamePrices, TypeOK, UsageRow
<1>4. ASSUME NEW r \in Runs, f[r] > 0 PROVE r \in chg[p].rows /\ chg[p].owed[r] > 0
  <2>1. CASE r \in full
    BY <1>2, <1>4, <2>1 DEF Allocated
  <2>2. CASE r \notin full
    <3>1. r = part
      BY <1>4, <2>2 DEF Allocated
    <3>2. part # None /\ Remaining(chg[p], full) \in Int
      BY <1>0, <1>2, <3>1, BillingAssumption, RemainingType
    <3>3. Remaining(chg[p], full) > 0 /\ Remaining(chg[p], full) < chg[p].owed[r]
      BY <1>1, <3>1, <3>2 DEF IsAllocation
    <3>4. chg[p].owed[r] \in Nat
      BY <1>2
    <3> QED BY <1>1, <3>1, <3>2, <3>3, <3>4
  <2> QED BY <2>1, <2>2
<1>5. ASSUME NEW r \in Runs, f[r] > 0 PROVE r \in RowsOf(key)
  BY <1>0, <1>4, <1>5, OwedRow
<1>6. RowsOf(k) \subseteq Runs /\ IsFiniteSet(RowsOf(k)) /\ IsFiniteSet(chg[p].rows)
  BY <1>2, SubsetOfRuns DEF RowsOf
<1>7. Collected(k)' = Collected(k) + Total(f, RowsOf(k))
  <2>1. RowsOf(k)' = RowsOf(k)
    BY <1>3, SamePricesUsed
  <2>2. \A r \in RowsOf(k) : /\ collected[r] \in Nat /\ f[r] \in Nat
                             /\ collected'[r] = collected[r] + f[r]
    BY <1>1, <1>2, <1>6
  <2> HIDE DEF f
  <2>3. Total(collected', RowsOf(k)) = Total(collected, RowsOf(k)) + Total(f, RowsOf(k))
    BY <1>6, <2>2, TotalAdd
  <2> QED BY <2>1, <2>3 DEF Collected
<1>8. CASE k = key
  <2>1. Total(f, chg[p].rows) = chg[p].amount
    BY <1>0, <1>1, <1>2, AllocationTotal
  <2>2. /\ \A r \in RowsOf(k) : f[r] \in Nat /\ (f[r] > 0 => r \in chg[p].rows /\ f[r] <= f[r])
        /\ \A r \in chg[p].rows : f[r] \in Nat /\ (f[r] > 0 => r \in RowsOf(k) /\ f[r] <= f[r])
    <3> HIDE DEF f
    <3> QED BY <1>2, <1>4, <1>5, <1>6, <1>8
  <2> HIDE DEF f
  <2>3. Total(f, RowsOf(k)) <= Total(f, chg[p].rows)
    BY <1>6, <2>2, TotalCovered
  <2>4. Total(f, chg[p].rows) <= Total(f, RowsOf(k))
    BY <1>6, <2>2, TotalCovered
  <2>5. Total(f, RowsOf(k)) \in Nat /\ Total(f, chg[p].rows) \in Nat
    BY <1>6, <2>2, TotalType
  <2>6. Total(f, RowsOf(k)) = chg[p].amount
    BY <2>1, <2>3, <2>4, <2>5
  <2> QED BY <1>3, <1>7, <1>8, <2>6
<1>9. CASE k # key
  <2>1. \A r \in RowsOf(k) : r \notin RowsOf(key)
    BY <1>9 DEF RowsOf
  <2>2. \A r \in RowsOf(k) : f[r] = 0
    <3> HIDE DEF f, key
    <3> QED BY <1>2, <1>5, <1>6, <2>1
  <2>3. Collected(k) \in Nat
    BY <1>2, <1>6, TotalType DEF Collected
  <2> HIDE DEF f
  <2>4. Total(f, RowsOf(k)) = 0
    BY <2>2, TotalZero
  <2> QED BY <1>3, <1>7, <1>9, <2>3, <2>4
<1> QED BY <1>8, <1>9

LEMMA SnapshotPayable ==
    ASSUME TypeOK, NEW p \in Procs, Snapshot(p).amount # 0
    PROVE  /\ Snapshot(p).amount > 0
           /\ Snapshot(p).amount % Cent = 0
           /\ Snapshot(p).amount <= Total(Snapshot(p).owed, Snapshot(p).rows)
           /\ Total(Snapshot(p).owed, Snapshot(p).rows) - Snapshot(p).amount < Cent
<1> DEFINE rows == UnpaidRows(chg[p].account, chg[p].currency, chg[p].before)
<1>1. /\ Snapshot(p).rows = rows
      /\ Snapshot(p).owed = [r \in Runs |-> IF r \in rows THEN usage[r].amount ELSE 0]
      /\ Snapshot(p).amount = FloorCurrencyAmount(Total(Amounts, rows))
  BY DEF Snapshot, TypeOK, Charge
<1>2. /\ rows \in SUBSET Runs
      /\ \A r \in rows : Amounts[r] \in Nat /\ Snapshot(p).owed[r] = Amounts[r]
  BY <1>1 DEF UnpaidRows, Unpaid, Amounts, TypeOK, UsageRow
<1> HIDE DEF rows
<1>3. Total(Snapshot(p).owed, rows) = Total(Amounts, rows)
  BY <1>2, TotalSame
<1>4. Total(Amounts, rows) \in Nat
  BY <1>2, SubsetOfRuns, TotalType
<1>5. /\ FloorCurrencyAmount(Total(Amounts, rows)) \in Nat
      /\ FloorCurrencyAmount(Total(Amounts, rows)) <= Total(Amounts, rows)
      /\ FloorCurrencyAmount(Total(Amounts, rows)) % Cent = 0
      /\ Total(Amounts, rows) - FloorCurrencyAmount(Total(Amounts, rows)) < Cent
  BY <1>4, FloorType, FloorWhole
<1> QED BY <1>1, <1>3, <1>5

LEMMA PromiseInit == Init => PromiseInv
<1> SUFFICES ASSUME Init PROVE PromiseInv
  OBVIOUS
<1>1. SerialInv /\ MoneyInv
  BY SerialInit, MoneyInit
<1>2. AllPayable
  BY DEF Init, AllPayable, Holding
<1>3. PaidIsCollected
  <2> SUFFICES ASSUME NEW k \in Keys PROVE Paid(k) = Collected(k)
    BY DEF PaidIsCollected
  <2>1. PaymentsOf(k) = {} /\ \A r \in RowsOf(k) : collected[r] = 0
    BY DEF Init, PaymentsOf, RowsOf
  <2> QED BY <2>1, TotalEmpty, TotalZero DEF Paid, Collected
<1> QED BY <1>1, <1>2, <1>3 DEF PromiseInv

LEMMA PromiseStep ==
    ASSUME SerialCharges, PromiseInv, [Next]_vars
    PROVE  PromiseInv'
<1> USE DEF ledger, external
<1>0. SerialInv /\ MoneyInv /\ TypeInv /\ TypeOK /\ Exactness /\ Runs \subseteq Procs
  BY DEF PromiseInv, SerialInv, TypeInv, Exactness, Procs
<1>1. SerialInv' /\ MoneyInv' /\ TypeInv'
  BY <1>0, SerialStep, MoneyStep DEF SerialInv
<1>2. ASSUME payments' = payments, UNCHANGED <<usage, collected>>
      PROVE  PaidIsCollected'
  BY <1>2 DEF PromiseInv, PaidIsCollected, Paid, PaymentAmount, PaymentsOf,
     Collected, RowsOf
\* Charges that go on keep what makes them payable.
<1>3. ASSUME \A p \in Procs : Holding(p)' =>
                 /\ Holding(p) /\ chg'[p].rows = chg[p].rows /\ chg'[p].owed = chg[p].owed
                 /\ chg'[p].amount = chg[p].amount
      PROVE  AllPayable'
  BY <1>3 DEF PromiseInv, AllPayable, Payable
<1>4. ASSUME \A p \in Procs : ~Commit(p) PROVE payments' = payments
  <2>1. CASE \E p \in Procs : WalletAccepts(p)
    BY <2>1 DEF WalletAccepts
  <2>2. CASE ~\E p \in Procs : WalletAccepts(p)
    BY <1>0, <1>1, <1>4, <2>2, OtherStepsMoney DEF NothingRecorded
  <2> QED BY <2>1, <2>2
<1>5. CASE \E p \in Procs : Commit(p)
  <2> PICK p \in Procs : Commit(p)
    BY <1>5
  <2>1. AllPayable'
    <3>1. /\ \A q \in Procs \ {p} : pc'[q] = pc[q] /\ chg'[q] = chg[q]
          /\ pc'[p] \in {"done", "loop"}
      BY <1>0 DEF Commit, ChargeSucceeded, Goto, SetCharge, TypeOK
    <3>2. \A q \in Procs : Holding(q)' => Holding(q) /\ chg'[q] = chg[q]
      BY <3>1 DEF Holding
    <3> QED BY <1>3, <3>2
  <2>2. ASSUME NEW k \in Keys PROVE Paid(k)' = Collected(k)'
    <3>1. TypeOK /\ FiniteWork /\ OwnNumbers /\ Paid(k) = Collected(k)
      BY <1>0 DEF MoneyInv, PromiseInv, PaidIsCollected
    <3>2. CASE k = <<chg[p].account, chg[p].currency>>
      BY <1>0, <3>1, <3>2, CommitTransfers, CommitCollected
    <3>3. CASE k # <<chg[p].account, chg[p].currency>>
      BY <1>0, <3>1, <3>3, CommitTransfers, CommitCollected
    <3> QED BY <3>2, <3>3
  <2>3. PaidIsCollected'
    BY <2>2 DEF PaidIsCollected
  <2> QED BY <1>1, <2>1, <2>3 DEF PromiseInv
<1>6. CASE \E p \in Procs : ChargeRead(p)
  <2> PICK p \in Procs : ChargeRead(p)
    BY <1>6
  <2>1. UNCHANGED <<usage, payments, collected>>
    BY DEF ChargeRead
  <2>2. AllPayable'
    <3>1. CASE Snapshot(p).amount = 0
      <4>1. Quiet
        BY <1>0, <2>1, <3>1, ChargeEndQuiet DEF ChargeRead
      <4> QED BY <1>3, <4>1 DEF Quiet, Holding
    <3>2. CASE Snapshot(p).amount # 0
      <4>1. /\ \A q \in Procs \ {p} : pc'[q] = pc[q] /\ chg'[q] = chg[q]
            /\ chg'[p] = Snapshot(p)
        BY <1>0, <3>2 DEF ChargeRead, Goto, SetCharge, TypeOK
      <4>2. Payable(p)'
        BY <1>0, <3>2, <4>1, SnapshotPayable DEF Payable
      <4>3. ASSUME NEW q \in Procs \ {p}, Holding(q)' PROVE Payable(q)'
        BY <4>1, <4>3 DEF PromiseInv, AllPayable, Payable, Holding
      <4> QED BY <4>2, <4>3 DEF AllPayable
    <3> QED BY <3>1, <3>2
  <2> QED BY <1>1, <1>2, <2>1, <2>2 DEF PromiseInv
<1>7. CASE \E r \in Runs : RunStep(r)
  <2> PICK r \in Runs : RunStep(r)
    BY <1>7
  <2>1. payments' = payments
    BY DEF RunStep, Authorize, ReserveRow, CancelAuthorization,
       AbandonReservation, RecordUsage, ChargeAction, ApplyInstantWall
  <2>2. AllPayable'
    <3>1. /\ \A q \in Procs \ {r} : pc'[q] = pc[q] /\ chg'[q] = chg[q]
          /\ pc'[r] \notin {"wallet", "commit"}
      BY <1>0 DEF RunStep, Authorize, ReserveRow, CancelAuthorization,
         AbandonReservation, RecordUsage, ChargeAction, ApplyInstantWall,
         Goto, SetCharge, TypeOK
    <3>2. \A q \in Procs : Holding(q)' => Holding(q) /\ chg'[q] = chg[q]
      BY <3>1 DEF Holding
    <3> QED BY <1>3, <3>2
  <2>3. /\ collected' = collected /\ \A q \in Runs \ {r} : usage'[q] = usage[q]
        /\ usage' = usage \/ (Originals[r] = 0 /\ collected[r] = 0)
    <3>1. RowInv(r)
      BY <1>0 DEF SerialInv
    <3> QED BY <1>0, <3>1, RunStepRow
  <2>4. PaidIsCollected'
    <3>1. CASE usage' = usage
      BY <1>2, <2>1, <2>3, <3>1
    <3>2. CASE collected[r] = 0
      <4> SUFFICES ASSUME NEW k \in Keys PROVE Paid(k)' = Collected(k)'
        BY DEF PaidIsCollected
      <4>1. Collected(k)' = Collected(k)
        BY <1>0, <2>3, <3>2, NewPriceCollected
      <4>2. Paid(k)' = Paid(k)
        BY <2>1 DEF Paid, PaymentAmount, PaymentsOf
      <4> QED BY <4>1, <4>2 DEF PromiseInv, PaidIsCollected
    <3> QED BY <2>3, <3>1, <3>2
  <2> QED BY <1>1, <2>2, <2>4 DEF PromiseInv
<1>8. CASE Quiet /\ \A p \in Procs : ~Commit(p)
  <2>1. AllPayable'
    BY <1>3, <1>8 DEF Quiet, Holding
  <2> QED BY <1>1, <1>2, <1>4, <1>8, <2>1 DEF PromiseInv, Quiet
<1> QED BY <1>0, <1>5, <1>6, <1>7, <1>8, QuietActions DEF Next, ChargeStep

\* Every step is a step of the promise or leaves it alone.
LEMMA PromiseSteps ==
    ASSUME SerialCharges, MaxFaults = 0, PromiseInv, [Next]_vars
    PROVE  [Promise!Next]_<<[k \in Keys |-> Total(Originals, RowsOf(k))], wallet>>
<1> USE DEF ledger, external
<1> DEFINE used == [k \in Keys |-> Total(Originals, RowsOf(k))]
<1>0. /\ SerialInv /\ MoneyInv /\ TypeInv /\ TypeOK /\ Runs \subseteq Procs
      /\ TypeOK' /\ faults = 0 /\ wallet \in [Keys -> Nat]
  <2>1. SerialInv /\ MoneyInv /\ TypeInv /\ TypeOK
    BY DEF PromiseInv, SerialInv, TypeInv
  <2>2. faults = 0
    BY <2>1 DEF MoneyInv, TypeOK
  <2> QED BY <2>1, <2>2, TypeStep DEF Procs, TypeOK
<1>1. ~FaultStep
  <2>1. ~Fault
    BY <1>0 DEF Fault
  <2> QED BY <2>1 DEF FaultStep, Crash, WalletReplyLost, CommitFails
<1>2. \A k \in Keys : used[k] = Used(k) /\ used'[k] = Used(k)'
  BY DEF Used
<1>3. ASSUME wallet' = wallet, \A k \in Keys : Used(k)' = Used(k)
      PROVE  UNCHANGED <<used, wallet>>
  BY <1>2, <1>3 DEF Used
<1>4. CASE \E p \in Procs : Commit(p)
  <2> PICK p \in Procs : Commit(p)
    BY <1>4
  <2>1. wallet' = wallet
    BY DEF Commit
  <2>2. \A k \in Keys : Used(k)' = Used(k)
    BY <1>0, CommitCollected, SamePricesUsed
  <2> QED BY <1>3, <2>1, <2>2
<1>5. CASE UNCHANGED <<usage, wallet>>
  <2>1. \A k \in Keys : Used(k)' = Used(k)
    BY <1>5 DEF Used, Originals, RowsOf, Stored
  <2> QED BY <1>3, <1>5, <2>1
<1>6. CASE \E p \in Procs : WalletAccepts(p)
  <2> PICK p \in Procs : WalletAccepts(p)
    BY <1>6
  <2> DEFINE key == <<chg[p].account, chg[p].currency>>
  <2>1. /\ key \in Keys /\ Holding(p) /\ chg[p].amount \in Nat
        /\ UNCHANGED usage /\ wallet' = [wallet EXCEPT ![key] = @ + chg[p].amount]
    BY <1>0 DEF WalletAccepts, Debit, Holding, TypeInv, ChargesNamed, TypeOK, Charge, Keys
  <2>2. CommittingOf(key) = {}
    <3> SUFFICES ASSUME NEW q \in CommittingOf(key) PROVE FALSE
      OBVIOUS
    <3>1. q \in Procs /\ pc[q] = "commit" /\ pc[p] = "wallet"
          /\ chg[q].account = chg[p].account /\ chg[q].currency = chg[p].currency
      BY DEF CommittingOf, WalletAccepts
    <3> QED BY <1>0, <2>1, <3>1 DEF SerialInv, NoOverlap, Holding
  <2>3. wallet[key] = Collected(key)
    <3>1. InTransit(key) = 0
      BY <2>2, TotalEmpty DEF InTransit
    <3>2. Paid(key) + InTransit(key) = wallet[key] /\ Paid(key) = Collected(key)
      BY <1>0, <2>1 DEF MoneyInv, WithinDebits, PromiseInv, PaidIsCollected
    <3>3. Paid(key) \in Nat
      BY <1>0, <2>1, MoneyTypes DEF MoneyInv
    <3> QED BY <3>1, <3>2, <3>3
  <2>4. wallet[key] + chg[p].amount <= Used(key)
    <3>1. Payable(p)
      BY <2>1 DEF PromiseInv, AllPayable
    <3>2. Collected(key) + Total(chg[p].owed, chg[p].rows) <= Used(key)
      BY <1>0, <2>1, ChargeWithinUsed
    <3>3. /\ Used(key) \in Nat /\ wallet[key] \in Nat
          /\ Total(chg[p].owed, chg[p].rows) \in Nat
      <4>1. /\ RowsOf(key) \in SUBSET Runs /\ chg[p].rows \in SUBSET Runs
            /\ chg[p].owed \in [Runs -> Nat] /\ wallet[key] \in Nat
            /\ \A r \in Runs : Originals[r] \in Nat
        BY <1>0, <2>1 DEF RowsOf, Originals, TypeOK, Charge, UsageRow
      <4>2. IsFiniteSet(RowsOf(key)) /\ IsFiniteSet(chg[p].rows)
        BY <4>1, SubsetOfRuns
      <4>3. Used(key) \in Nat
        BY <4>1, <4>2, TotalType DEF Used
      <4>4. Total(chg[p].owed, chg[p].rows) \in Nat
        BY <4>1, <4>2, TotalType
      <4> QED BY <4>1, <4>3, <4>4
    <3>4. chg[p].amount <= Total(chg[p].owed, chg[p].rows)
      BY <3>1 DEF Payable
    <3> HIDE DEF key
    <3> QED BY <2>1, <2>3, <3>2, <3>3, <3>4
  <2>5. used' = used
    BY <2>1 DEF Originals, RowsOf, Stored
  <2>6. Promise!Charge(key)
    <3>1. wallet[key] \in Nat /\ wallet'[key] = wallet[key] + chg[p].amount
      BY <1>0, <2>1
    <3>2. chg[p].amount > 0 /\ chg[p].amount % Cent = 0
      BY <2>1 DEF PromiseInv, AllPayable, Payable
    <3>3. wallet'[key] > wallet[key] /\ wallet'[key] - wallet[key] = chg[p].amount
      BY <2>1, <3>1, <3>2
    <3>4. wallet'[key] <= used[key]
      BY <1>2, <2>1, <2>4, <3>1
    <3>5. wallet' = [wallet EXCEPT ![key] = wallet'[key]]
      BY <2>1, <3>1
    <3> HIDE DEF used, key
    <3>6. (wallet'[key] - wallet[key]) % Cent = 0
      BY <3>2, <3>3
    <3> QED BY <2>5, <3>3, <3>4, <3>5, <3>6 DEF Promise!Charge, used
  <2> QED BY <2>1, <2>6 DEF Promise!Next
<1>7. CASE \E r \in Runs : RunStep(r)
  <2> PICK r \in Runs : RunStep(r)
    BY <1>7
  <2>1. wallet' = wallet
    BY DEF RunStep, Authorize, ReserveRow, CancelAuthorization,
       AbandonReservation, RecordUsage, ChargeAction, ApplyInstantWall
  <2>2. /\ \A q \in Runs \ {r} : usage'[q] = usage[q]
        /\ usage' = usage \/ Originals[r] = 0
    BY <1>0, RunStepRow DEF SerialInv
  <2>3. CASE usage' = usage
    BY <1>5, <2>1, <2>3
  <2>4. CASE Originals[r] = 0
    <3> PICK c \in Currencies : c = usage'[r].currency
      BY <1>0 DEF TypeOK, UsageRow
    <3> DEFINE key == <<Owner[r], c>>
    <3>1. /\ key \in Keys
          /\ \A k : r \in RowsOf(k)' <=> k = key
          /\ Originals'[r] \in Nat
      BY <1>0, BillingAssumption DEF Keys, RowsOf, TypeOK, UsageRow, Originals, Stored
    <3>2. ASSUME NEW k \in Keys
          PROVE  /\ Used(k) \in Nat
                 /\ Used(k)' = Used(k) + IF k = key THEN Originals'[r] ELSE 0
      <4>1. Used(k)' = Used(k) + IF r \in RowsOf(k)' THEN Originals'[r] ELSE 0
        BY <1>0, <2>2, <2>4, NewPriceUsed
      <4>2. Used(k) \in Nat
        <5>1. /\ RowsOf(k) \in SUBSET Runs
              /\ \A q \in Runs : Originals[q] \in Nat
          BY <1>0 DEF RowsOf, Originals, TypeOK, UsageRow
        <5>2. IsFiniteSet(RowsOf(k))
          BY <5>1, SubsetOfRuns
        <5> QED BY <5>1, <5>2, TotalType DEF Used
      <4> QED BY <3>1, <4>1, <4>2
    <3>3. CASE Originals'[r] = 0
      <4>1. \A k \in Keys : Used(k)' = Used(k)
        BY <3>2, <3>3
      <4> QED BY <1>3, <2>1, <4>1
    <3>4. CASE Originals'[r] # 0
      <4>1. Used(key)' > Used(key)
        <5> HIDE DEF key, used
        <5>1. Used(key)' = Used(key) + Originals'[r] /\ Used(key) \in Nat
          BY <3>1, <3>2
        <5> QED BY <3>1, <3>4, <5>1
      <4>2. \A k \in Keys : k # key => Used(k)' = Used(k)
        BY <3>2
      <4>3. used' = [used EXCEPT ![key] = used'[key]]
        <5>1. \A k \in Keys : used'[k] = IF k = key THEN used'[key] ELSE used[k]
          BY <1>2, <4>2
        <5>2. used' = [k \in Keys |-> used'[k]] /\ used = [k \in Keys |-> used[k]]
          OBVIOUS
        <5> HIDE DEF used, key
        <5> QED BY <5>1, <5>2
      <4>4. used'[key] > used[key]
        <5> HIDE DEF key, used
        <5> QED BY <1>2, <3>1, <4>1
      <4>5. Promise!Use(key)
        <5> HIDE DEF key
        <5> QED BY <2>1, <4>3, <4>4 DEF Promise!Use
      <4> QED BY <3>1, <4>5 DEF Promise!Next
    <3> QED BY <3>3, <3>4
  <2> QED BY <2>2, <2>3, <2>4
<1>8. ASSUME NEW p \in Procs, ChargeRead(p) \/ WalletRejects(p)
      PROVE  UNCHANGED <<usage, wallet>>
  BY <1>8 DEF ChargeRead, WalletRejects
<1>9. ASSUME NEW m \in Settlers, SettleStep(m) PROVE UNCHANGED <<usage, wallet>>
  BY <1>9 DEF SettleStep, SettleStart, SettleNext, SettleClear
<1>10. DailyStep \/ Midnight \/ UNCHANGED vars => UNCHANGED <<usage, wallet>>
  BY DEF DailyStep, DailyStart, DailyCharge, DailySkip, DailyDone, Midnight, vars
<1> QED BY <1>1, <1>4, <1>5, <1>6, <1>7, <1>8, <1>9, <1>10
     DEF Next, ChargeStep, WalletStep

\* While charges of an account and currency do not overlap and nothing fails on
\* the way, settlement implements the promise: Wallet is debited in whole Wallet
\* units and never for more than the usage was priced at.
THEOREM PromiseKept == SerialCharges /\ MaxFaults = 0 /\ Spec => KeepsPromise
<1> SUFFICES ASSUME SerialCharges, MaxFaults = 0 PROVE Spec => KeepsPromise
  OBVIOUS
<1>1. Init => Promise!Init
  <2> SUFFICES ASSUME Init PROVE Promise!Init
    OBVIOUS
  <2>1. ASSUME NEW k \in Keys PROVE Total(Originals, RowsOf(k)) = 0
    <3>1. \A r \in RowsOf(k) : Originals[r] = 0
      BY DEF Init, Originals, Stored, RowsOf
    <3> QED BY <3>1, TotalZero
  <2>2. wallet = [k \in Keys |-> 0]
    BY DEF Init
  <2> QED BY <2>1, <2>2 DEF Promise!Init
<1>2. PromiseInv /\ [Next]_vars => PromiseInv'
  BY PromiseStep
<1>3. PromiseInv /\ [Next]_vars
        => [Promise!Next]_<<[k \in Keys |-> Total(Originals, RowsOf(k))], wallet>>
  BY PromiseSteps
<1> QED BY PromiseInit, <1>1, <1>2, <1>3, PTL DEF Spec, KeepsPromise, Promise!Spec

-----------------------------------------------------------------------------
(* Manual settlement.  What an account owed when SettleAccount was called is *)
(* in a currency still to be charged, in the charge being made, or down to   *)
(* less than a Wallet unit; meanwhile it only gets less.                     *)

RowsShrink ==
    \A r \in Runs : usage[r].state = "priced" =>
        /\ usage'[r].state = "priced"
        /\ usage'[r].currency = usage[r].currency
        /\ Unpaid(r)' => Unpaid(r) /\ usage'[r].amount <= usage[r].amount

LEMMA ShrinkStep ==
    ASSUME SerialInv, [Next]_vars
    PROVE  RowsShrink
<1> USE DEF ledger, external
<1>0. TypeInv /\ TypeOK /\ \A r \in Runs : usage[r].amount \in Nat
  BY DEF SerialInv, TypeInv, TypeOK, UsageRow
<1>1. CASE usage' = usage
  BY <1>0, <1>1 DEF RowsShrink, Unpaid, Stored
<1>2. ASSUME NEW r \in Runs, RunStep(r), usage' # usage PROVE RowsShrink
  <2>1. RowInv(r)
    BY DEF SerialInv
  <2>2. \A q \in Runs \ {r} : usage'[q] = usage[q]
    BY <1>0, <1>2, <2>1, RunStepRow
  <2>3. usage[r].state # "priced"
    <3>1. pc[r] \in {"authorized", "running"}
      BY <1>2 DEF RunStep, Authorize, AbandonReservation, ApplyInstantWall,
         ReserveRow, CancelAuthorization, RecordUsage, ChargeAction
    <3> QED BY <2>1, <3>1 DEF RowInv
  <2> QED BY <1>0, <2>2, <2>3 DEF RowsShrink, Unpaid, Stored
<1>3. ASSUME NEW p \in Procs, Commit(p) PROVE RowsShrink
  <2>1. PICK full \in SUBSET chg[p].rows, part \in chg[p].rows \cup {None} :
          /\ IsAllocation(chg[p], full, part)
          /\ usage' = Settled(chg[p], full, part)
    BY <1>3 DEF Commit
  <2>2. chg[p].rows \subseteq Runs /\ chg[p].owed \in [Runs -> Nat] /\ chg[p].tx \in Nat
    BY <1>0 DEF TypeOK, Charge
  <2> SUFFICES ASSUME NEW r \in Runs, usage[r].state = "priced"
               PROVE  /\ usage'[r].state = "priced"
                      /\ usage'[r].currency = usage[r].currency
                      /\ Unpaid(r)' => Unpaid(r) /\ usage'[r].amount <= usage[r].amount
    BY DEF RowsShrink
  <2>3. usage[r] \in UsageRow /\ Stored(r)
    BY <1>0 DEF TypeOK, Stored
  <2>4. CASE r \in full
    <3>1. usage'[r] = [usage[r] EXCEPT !.payment = chg[p].tx]
      BY <2>1, <2>3, <2>4 DEF Settled, Stamped
    <3>2. chg[p].tx # None
      BY <2>2, BillingAssumption
    <3> QED BY <2>3, <3>1, <3>2 DEF UsageRow, Unpaid, Stored
  <2>5. CASE r = part /\ r \notin full
    <3>1. usage'[r] = [usage[r] EXCEPT !.amount = chg[p].owed[r] - Remaining(chg[p], full)]
      BY <2>1, <2>3, <2>5 DEF Settled, KeepRemainder
    <3>2. Remaining(chg[p], full) \in Int /\ chg[p].owed[r] \in Nat
      BY <1>0, <2>1, <2>2, RemainingType
    <3>3. Remaining(chg[p], full) > 0 /\ Remaining(chg[p], full) < chg[p].owed[r]
      BY <2>1, <2>5, BillingAssumption DEF IsAllocation
    <3>4. usage[r].amount = chg[p].owed[r]
      <4>1. SnapshotRow(p, r)
        BY <1>3, <2>1, <2>5, BillingAssumption DEF SerialInv, SnapshotInv, Commit, Holding
      <4> QED BY <3>2, <3>3, <4>1 DEF SnapshotRow
    <3> QED BY <2>3, <3>1, <3>2, <3>3, <3>4 DEF UsageRow, Unpaid, Stored
  <2>6. CASE r \notin full /\ r # part
    <3>1. usage'[r] = usage[r]
      BY <2>1, <2>6 DEF Settled
    <3> QED BY <1>0, <3>1 DEF Unpaid, Stored
  <2> QED BY <2>4, <2>5, <2>6
<1>4. ASSUME NEW p \in Procs, ChargeRead(p) \/ WalletStep(p) PROVE usage' = usage
  BY <1>4 DEF ChargeRead, WalletStep, WalletAccepts, WalletRejects
<1>5. ASSUME NEW m \in Settlers, SettleStep(m) PROVE usage' = usage
  BY <1>5 DEF SettleStep, SettleStart, SettleNext, SettleClear
<1>6. DailyStep \/ Midnight \/ FaultStep \/ UNCHANGED vars => usage' = usage
  BY DEF DailyStep, DailyStart, DailyCharge, DailySkip, DailyDone, Midnight,
     FaultStep, Crash, WalletReplyLost, CommitFails, vars
<1> QED BY <1>1, <1>2, <1>3, <1>4, <1>5, <1>6 DEF Next, ChargeStep

Rest(m, c)  == {r \in due[m] : Unpaid(r) /\ usage[r].currency = c}
Charging(m) == pc[m] \in {"read", "wallet", "commit"}

SettledOrToCharge(m, c) ==
    \/ <<chg[m].account, c>> \in todo[m]
    \/ Charging(m) /\ chg[m].currency = c
    \/ Total(Amounts, Rest(m, c)) < Cent

SettlerInv(m) ==
    /\ pc[m] \in {"idle", "loop", "read", "wallet", "commit"}
    /\ pc[m] # "idle" =>
          /\ chg[m].account \in Accounts
          /\ \A k \in todo[m] : k[1] = chg[m].account
          /\ \A r \in due[m] : usage[r].state = "priced" /\ Owner[r] = chg[m].account
          /\ \A c \in Currencies : SettledOrToCharge(m, c)
    /\ Charging(m) => chg[m].before = None
    /\ Holding(m) => \A r \in Rest(m, chg[m].currency) :
          r \in chg[m].rows /\ usage[r].amount <= chg[m].owed[r]

RestoreInv == PromiseInv /\ \A m \in Settlers : SettlerInv(m)

LEMMA RestShrinks ==
    ASSUME TypeOK, TypeOK', RowsShrink, NEW m \in Settlers, due'[m] = due[m],
           \A r \in due[m] : usage[r].state = "priced", NEW c
    PROVE  /\ \A r \in Rest(m, c)' : r \in Rest(m, c) /\ usage'[r].amount <= usage[r].amount
           /\ Total(Amounts', Rest(m, c)') <= Total(Amounts, Rest(m, c))
           /\ Total(Amounts', Rest(m, c)') \in Nat /\ Total(Amounts, Rest(m, c)) \in Nat
           /\ Total(Amounts, Rest(m, c)) < Cent => (Total(Amounts, Rest(m, c)) < Cent)'
<1>1. /\ due[m] \subseteq Runs
      /\ \A r \in Runs : usage[r].amount \in Nat /\ usage'[r].amount \in Nat
  BY DEF TypeOK, UsageRow
<1>2. ASSUME NEW r \in Rest(m, c)'
      PROVE  r \in Rest(m, c) /\ usage'[r].amount <= usage[r].amount
  BY <1>1, <1>2 DEF Rest, RowsShrink
<1>3. /\ \A r \in Rest(m, c) : Amounts[r] = usage[r].amount
      /\ \A r \in Rest(m, c)' : Amounts'[r] = usage'[r].amount
  BY <1>1 DEF Rest, Amounts, Unpaid
<1>4. /\ Rest(m, c) \in SUBSET Runs /\ Rest(m, c)' \in SUBSET Rest(m, c)
      /\ IsFiniteSet(Rest(m, c)) /\ IsFiniteSet(Rest(m, c)')
  <2>1. Rest(m, c) \in SUBSET Runs
    BY <1>1 DEF Rest
  <2>2. Rest(m, c)' \in SUBSET Rest(m, c)
    BY <1>2
  <2> QED BY <2>1, <2>2, SubsetOfRuns
<1>5. \A r \in Rest(m, c)' : Amounts'[r] \in Nat /\ Amounts'[r] <= Amounts[r]
  BY <1>1, <1>2, <1>3, <1>4
<1>6. \A r \in Rest(m, c) : Amounts[r] \in Nat
  BY <1>1, <1>3, <1>4
<1>7. Total(Amounts', Rest(m, c)') <= Total(Amounts, Rest(m, c))
  BY <1>4, <1>5, <1>6, TotalMono
<1>8. Total(Amounts', Rest(m, c)') \in Nat /\ Total(Amounts, Rest(m, c)) \in Nat
  BY <1>4, <1>5, <1>6, TotalType
<1>9. Total(Amounts, Rest(m, c)) < Cent => Total(Amounts', Rest(m, c)') < Cent
  BY <1>7, <1>8, BillingAssumption
<1> QED BY <1>2, <1>7, <1>8, <1>9

\* Steps of others leave a settlement where it was; what it has still to
\* settle only gets less.
LEMMA SettlerUndisturbed ==
    ASSUME TypeOK, TypeOK', RowsShrink, NEW m \in Settlers, SettlerInv(m),
           pc'[m] = pc[m], chg'[m] = chg[m], todo'[m] = todo[m], due'[m] = due[m]
    PROVE  SettlerInv(m)'
<1>1. CASE pc[m] = "idle"
  BY <1>1 DEF SettlerInv, Charging, Holding
<1>2. CASE pc[m] # "idle"
  <2>1. \A r \in due[m] : usage[r].state = "priced" /\ Owner[r] = chg[m].account
    BY <1>2 DEF SettlerInv
  <2>2. \A r \in due[m] : usage'[r].state = "priced"
    BY <2>1 DEF TypeOK, RowsShrink
  <2>3. ASSUME NEW c \in Currencies PROVE SettledOrToCharge(m, c)'
    <3>1. SettledOrToCharge(m, c)
      BY <1>2 DEF SettlerInv
    <3>2. Total(Amounts, Rest(m, c)) < Cent => (Total(Amounts, Rest(m, c)) < Cent)'
      BY <2>1, RestShrinks
    <3> QED BY <3>1, <3>2 DEF SettledOrToCharge, Charging
  <2>4. ASSUME Holding(m)', NEW r \in Rest(m, chg[m].currency)'
        PROVE  r \in chg[m].rows /\ usage'[r].amount <= chg[m].owed[r]
    <3>1. r \in Rest(m, chg[m].currency) /\ usage'[r].amount <= usage[r].amount
      BY <2>1, <2>4, RestShrinks
    <3>2. r \in chg[m].rows /\ usage[r].amount <= chg[m].owed[r]
      BY <2>4, <3>1 DEF SettlerInv, Holding
    <3>3. r \in Runs
      BY <3>1 DEF Rest, TypeOK
    <3>4. /\ usage[r].amount \in Nat /\ usage'[r].amount \in Nat /\ chg[m].owed[r] \in Nat
      BY <3>3 DEF TypeOK, UsageRow, Charge, Procs
    <3> QED BY <3>1, <3>2, <3>4
  <2> QED BY <1>2, <2>1, <2>2, <2>3, <2>4 DEF SettlerInv, Charging, Holding, Rest
<1> QED BY <1>1, <1>2

\* A process that is not charging disturbs nobody else's settlement.
LEMMA IdleSettler ==
    ASSUME NEW m \in Settlers, pc'[m] = "idle"
    PROVE  SettlerInv(m)'
BY DEF SettlerInv, Charging, Holding

\* A charge that finds less than Wallet can transfer ends without one.
LEMMA NothingToTransfer ==
    ASSUME TypeOK, NEW p \in Procs, Snapshot(p).amount = 0,
           NEW S, S = UnpaidRows(chg[p].account, chg[p].currency, chg[p].before)
    PROVE  Total(Amounts, S) \in Nat /\ Total(Amounts, S) < Cent
<1>1. FloorCurrencyAmount(Total(Amounts, S)) = 0
  BY DEF Snapshot, TypeOK, Charge
<1>2. S \in SUBSET Runs /\ \A r \in S : Amounts[r] \in Nat
  BY DEF UnpaidRows, Amounts, TypeOK, UsageRow
<1>3. Total(Amounts, S) \in Nat
  BY <1>2, SubsetOfRuns, TotalType
<1>4. Total(Amounts, S) - FloorCurrencyAmount(Total(Amounts, S)) < Cent
  BY <1>3, FloorWhole
<1> QED BY <1>1, <1>3, <1>4

LEMMA ChargeReadSettles ==
    ASSUME TypeOK, TypeOK', RowsShrink, NEW m \in Settlers, SettlerInv(m), ChargeRead(m)
    PROVE  SettlerInv(m)'
<1> DEFINE a == chg[m].account
<1> PICK cur : cur = chg[m].currency
  OBVIOUS
<1>0. /\ m \in Procs /\ m \notin Runs /\ pc[m] = "read" /\ chg[m].before = None
      /\ usage' = usage /\ Charging(m) /\ a \in Accounts /\ chg[m] \in Charge
  BY BillingAssumption DEF Procs, ChargeRead, SettlerInv, Charging, ledger, TypeOK
<1>1. /\ \A r \in due[m] : usage[r].state = "priced" /\ Owner[r] = a
      /\ \A k \in todo[m] : k[1] = a
      /\ \A c \in Currencies : SettledOrToCharge(m, c)
  BY <1>0 DEF SettlerInv
<1>2. due'[m] = due[m] /\ todo'[m] = todo[m]
  BY DEF ChargeRead, ChargeSucceeded
<1>3. Rest(m, cur) \subseteq UnpaidRows(a, cur, None)
  BY <1>1 DEF Rest, UnpaidRows, TypeOK
<1>4. \A c : Rest(m, c)' = Rest(m, c) /\ Amounts' = Amounts
  BY <1>0, <1>2 DEF Rest, Unpaid, Stored, Amounts
<1>5. CASE Snapshot(m).amount = 0
  <2>1. pc'[m] = "loop" /\ chg'[m] = LoopLocals(m)
    BY <1>0, <1>5 DEF ChargeRead, ChargeSucceeded, Goto, SetCharge, TypeOK
  <2>2. chg'[m].account = a
    BY <2>1 DEF LoopLocals, NoCharge
  <2>3. Total(Amounts, Rest(m, cur)) < Cent
    <3>2. /\ UnpaidRows(a, cur, None) \in SUBSET Runs
          /\ \A r \in Runs : Amounts[r] \in Nat
      BY DEF UnpaidRows, Amounts, TypeOK, UsageRow
    <3>3. IsFiniteSet(UnpaidRows(a, cur, None)) /\ IsFiniteSet(Rest(m, cur))
      BY <1>3, <3>2, SubsetOfRuns
    <3>4. Total(Amounts, Rest(m, cur)) \in Nat
      BY <1>3, <3>2, <3>3, TotalType
    <3>5. /\ Total(Amounts, UnpaidRows(a, cur, None)) \in Nat
          /\ Total(Amounts, UnpaidRows(a, cur, None)) < Cent
      BY <1>0, <1>5, NothingToTransfer
    <3>6. Total(Amounts, Rest(m, cur)) <= Total(Amounts, UnpaidRows(a, cur, None))
      BY <1>3, <3>2, <3>3, TotalMono
    <3> QED BY <3>4, <3>5, <3>6, BillingAssumption
  <2>4. ASSUME NEW c \in Currencies PROVE SettledOrToCharge(m, c)'
    <3>1. CASE c = cur
      BY <1>4, <2>3, <3>1 DEF SettledOrToCharge
    <3>2. CASE c # cur
      BY <1>1, <1>2, <1>4, <2>2, <3>2 DEF SettledOrToCharge
    <3> QED BY <3>1, <3>2
  <2> QED BY <1>0, <1>1, <1>2, <2>1, <2>2, <2>4 DEF SettlerInv, Charging, Holding
<1>6. CASE Snapshot(m).amount # 0
  <2>1. pc'[m] = "wallet" /\ chg'[m] = Snapshot(m)
    BY <1>0, <1>6 DEF ChargeRead, Goto, SetCharge, TypeOK
  <2>2. /\ chg'[m].account = a /\ chg'[m].currency = cur /\ chg'[m].before = None
        /\ chg'[m].rows = UnpaidRows(a, cur, None)
        /\ \A r \in chg'[m].rows : chg'[m].owed[r] = usage[r].amount
    BY <1>0, <2>1, SnapshotFields DEF Snapshot, Charge, UnpaidRows
  <2>3. ASSUME NEW c \in Currencies PROVE SettledOrToCharge(m, c)'
    BY <1>0, <1>1, <1>2, <1>4, <2>1, <2>2 DEF SettledOrToCharge, Charging
  <2>4. ASSUME NEW r \in Rest(m, cur)'
        PROVE  r \in chg'[m].rows /\ usage'[r].amount <= chg'[m].owed[r]
    <3>1. r \in UnpaidRows(a, cur, None)
      BY <1>3, <1>4
    <3>2. r \in chg'[m].rows /\ usage'[r].amount = chg'[m].owed[r]
      BY <1>0, <2>2, <3>1
    <3>3. usage[r].amount \in Nat
      BY <3>1 DEF UnpaidRows, TypeOK, UsageRow
    <3> QED BY <1>0, <3>2, <3>3
  <2>5. Rest(m, chg[m].currency)' = Rest(m, cur)'
    BY <2>2 DEF Rest
  <2> QED BY <1>0, <1>1, <1>2, <2>1, <2>2, <2>3, <2>4, <2>5 DEF SettlerInv, Charging, Holding
<1> QED BY <1>5, <1>6

\* The rows of the charge that are left are worth less than a Wallet unit.
\* What a commit leaves of the rows that its snapshot covered is less than
\* Wallet can transfer.
LEMMA CommitLeaves ==
    ASSUME PromiseInv, TypeOK', RowsShrink, NEW p \in Procs, Commit(p),
           NEW S \in SUBSET Runs,
           \A r \in S : Unpaid(r)' /\ (usage'[r].amount > 0 =>
              /\ usage'[r].amount <= usage[r].amount /\ r \in chg[p].rows
              /\ usage[r].amount <= chg[p].owed[r])
    PROVE  Total(Amounts', S) \in Nat /\ Total(Amounts', S) < Cent
<1>0. TypeOK /\ Holding(p)
  BY DEF Commit, Holding, PromiseInv, SerialInv, TypeInv
<1>2. PICK full \in SUBSET chg[p].rows, part \in chg[p].rows \cup {None} :
        /\ IsAllocation(chg[p], full, part)
        /\ usage' = Settled(chg[p], full, part)
  BY DEF Commit
<1> DEFINE f == Allocated(chg[p], full, part)
           left == [r \in Runs |-> IF r \in chg[p].rows THEN chg[p].owed[r] - f[r] ELSE 0]
<1>4. /\ chg[p].rows \subseteq Runs /\ IsFiniteSet(chg[p].rows)
      /\ chg[p].owed \in [Runs -> Nat] /\ chg[p].amount \in Nat /\ f \in [Runs -> Nat]
  BY <1>0, <1>2, SettledType, SubsetOfRuns DEF TypeOK, Charge
<1>5. Remaining(chg[p], full) \in Int
  BY <1>0, <1>4, RemainingType
<1>6. ASSUME NEW r \in chg[p].rows
      PROVE  /\ left[r] \in Nat /\ chg[p].owed[r] = left[r] + f[r]
             /\ r \in full => f[r] = chg[p].owed[r]
             /\ r \notin full /\ r = part => f[r] = Remaining(chg[p], full)
             /\ r \notin full /\ r # part => f[r] = 0
  <2>1. r \in Runs /\ chg[p].owed[r] \in Nat /\ f[r] \in Nat
    BY <1>4
  <2>2. r \notin full /\ r = part => Remaining(chg[p], full) < chg[p].owed[r]
    BY <1>2, <2>1, BillingAssumption DEF IsAllocation
  <2>3. f[r] <= chg[p].owed[r]
    BY <1>5, <2>1, <2>2 DEF Allocated
  <2>4. left[r] = chg[p].owed[r] - f[r]
    BY <2>1
  <2> QED BY <2>1, <2>3, <2>4 DEF Allocated
<1>7. Total(left, chg[p].rows) \in Nat /\ Total(left, chg[p].rows) < Cent
  <2>1. Total(f, chg[p].rows) = chg[p].amount
    BY <1>0, <1>2, <1>4, AllocationTotal
  <2>2. /\ \A r \in chg[p].rows : left[r] \in Nat /\ f[r] \in Nat
                                  /\ chg[p].owed[r] = left[r] + f[r]
    BY <1>4, <1>6
  <2>3. Payable(p)
    BY <1>0 DEF PromiseInv, AllPayable
  <2> HIDE DEF f, left
  <2>4. Total(chg[p].owed, chg[p].rows) = Total(left, chg[p].rows) + Total(f, chg[p].rows)
    BY <1>4, <2>2, TotalAdd
  <2>5. Total(left, chg[p].rows) \in Nat
    BY <1>4, <2>2, TotalType
  <2>6. Total(chg[p].owed, chg[p].rows) - chg[p].amount < Cent
    BY <2>3 DEF Payable
  <2> QED BY <1>4, <2>1, <2>4, <2>5, <2>6
<1>8. ASSUME NEW r \in S, usage'[r].amount > 0
      PROVE  r \in chg[p].rows /\ usage'[r].amount <= left[r]
  <2>1. usage'[r].amount <= usage[r].amount
    BY <1>8
  <2>2. /\ r \in chg[p].rows /\ r \in Runs /\ usage[r].amount <= chg[p].owed[r]
        /\ usage[r].amount \in Nat /\ usage'[r].amount \in Nat /\ chg[p].owed[r] \in Nat
    BY <1>0, <1>4, <1>8 DEF TypeOK, UsageRow
  <2>3. Unpaid(r)' /\ Stored(r) /\ usage[r] \in UsageRow
    <3>1. Unpaid(r)' /\ usage[r] \in UsageRow
      BY <1>0, <2>2 DEF TypeOK
    <3>2. Stored(r)
      BY <1>2, <2>2, <3>1 DEF Settled, Unpaid, Stored
    <3> QED BY <3>1, <3>2
  <2>4. r \notin full
    <3> SUFFICES ASSUME r \in full PROVE FALSE
      OBVIOUS
    <3>1. usage'[r].payment = chg[p].tx
      BY <1>2, <2>2, <2>3 DEF Settled, Stamped, UsageRow
    <3>2. chg[p].tx # None
      BY <1>0, BillingAssumption DEF TypeOK, Charge
    <3> QED BY <2>3, <3>1, <3>2 DEF Unpaid
  <2>5. CASE r = part
    <3>1. usage'[r].amount = chg[p].owed[r] - Remaining(chg[p], full)
      BY <1>2, <2>2, <2>3, <2>4, <2>5 DEF Settled, KeepRemainder, UsageRow
    <3>2. chg[p].owed[r] = left[r] + Remaining(chg[p], full) /\ left[r] \in Nat
      BY <1>6, <2>2, <2>4, <2>5
    <3> HIDE DEF f, left
    <3> QED BY <1>5, <2>2, <3>1, <3>2
  <2>6. CASE r # part
    <3>1. left[r] = chg[p].owed[r] /\ left[r] \in Nat
      <4>1. chg[p].owed[r] = left[r] + f[r] /\ f[r] = 0 /\ left[r] \in Nat
        BY <1>6, <2>2, <2>4, <2>6
      <4> HIDE DEF f, left
      <4> QED BY <4>1
    <3> HIDE DEF f, left
    <3> QED BY <2>1, <2>2, <3>1
  <2> QED BY <2>5, <2>6
<1>9. \A r \in S : Amounts'[r] = usage'[r].amount /\ usage'[r].amount \in Nat
  BY <1>0 DEF Amounts, Unpaid, TypeOK, UsageRow
<1>10. \A r \in S : Amounts'[r] \in Nat
                    /\ (Amounts'[r] > 0 => r \in chg[p].rows /\ Amounts'[r] <= left[r])
  BY <1>8, <1>9
<1>11. \A r \in chg[p].rows : left[r] \in Nat
  BY <1>6
<1> HIDE DEF f, left
<1>12. Total(Amounts', S) <= Total(left, chg[p].rows)
  BY <1>4, <1>10, <1>11, TotalCovered
<1>13. Total(Amounts', S) \in Nat
  BY <1>10, SubsetOfRuns, TotalType
<1> QED BY <1>7, <1>12, <1>13, BillingAssumption

LEMMA CommitSettles ==
    ASSUME PromiseInv, TypeOK', RowsShrink, NEW m \in Settlers, SettlerInv(m), Commit(m)
    PROVE  SettlerInv(m)'
<1> DEFINE a == chg[m].account
<1> PICK cur : cur = chg[m].currency
  OBVIOUS
<1>0. /\ m \in Procs /\ m \notin Runs /\ TypeOK /\ Holding(m) /\ Charging(m)
      /\ a \in Accounts /\ pc[m] = "commit"
  BY BillingAssumption
     DEF Procs, Commit, Holding, Charging, SettlerInv, PromiseInv, SerialInv, TypeInv
<1>1. /\ \A r \in due[m] : usage[r].state = "priced" /\ Owner[r] = a
      /\ \A k \in todo[m] : k[1] = a
      /\ \A c \in Currencies : SettledOrToCharge(m, c)
      /\ \A r \in Rest(m, cur) : r \in chg[m].rows /\ usage[r].amount <= chg[m].owed[r]
  BY <1>0 DEF SettlerInv
<1>3. /\ due'[m] = due[m] /\ todo'[m] = todo[m]
      /\ pc'[m] = "loop" /\ chg'[m] = LoopLocals(m) /\ chg'[m].account = a
  BY <1>0 DEF Commit, ChargeSucceeded, Goto, SetCharge, TypeOK, LoopLocals, NoCharge
<1>9. (Total(Amounts, Rest(m, cur)) < Cent)'
  <2>1. ASSUME NEW r \in Rest(m, cur)'
        PROVE  /\ r \in Runs /\ Unpaid(r)' /\ usage'[r].amount <= usage[r].amount
               /\ r \in chg[m].rows /\ usage[r].amount <= chg[m].owed[r]
    <3>1. r \in Rest(m, cur) /\ usage'[r].amount <= usage[r].amount
      BY <1>0, <1>1, <1>3, RestShrinks
    <3> QED BY <1>0, <1>1, <3>1 DEF Rest, TypeOK
  <2> QED BY <1>0, <2>1, CommitLeaves
<1>10. ASSUME NEW c \in Currencies PROVE SettledOrToCharge(m, c)'
  <2>1. CASE c = cur
    BY <1>9, <2>1 DEF SettledOrToCharge
  <2>2. CASE c # cur
    <3>1. Total(Amounts, Rest(m, c)) < Cent => (Total(Amounts, Rest(m, c)) < Cent)'
      BY <1>0, <1>1, <1>3, RestShrinks
    <3> QED BY <1>1, <1>3, <2>2, <3>1 DEF SettledOrToCharge
  <2> QED BY <2>1, <2>2
<1>11. \A r \in due[m] : usage'[r].state = "priced"
  BY <1>0, <1>1 DEF RowsShrink, TypeOK
<1> QED BY <1>0, <1>1, <1>3, <1>10, <1>11 DEF SettlerInv, Charging, Holding

LEMMA SettleActions ==
    ASSUME TypeInv, TypeOK', RowsShrink, \A r \in Runs : RowInv(r),
           NEW m \in Settlers, SettlerInv(m), SettleStep(m)
    PROVE  SettlerInv(m)'
<1> USE DEF ledger, external
<1>0. m \in Procs /\ TypeOK
  BY DEF Procs, TypeInv
<1>1. CASE SettleClear(m)
  <2>1. pc'[m] = "idle"
    BY <1>0, <1>1 DEF SettleClear, Goto, TypeOK
  <2> QED BY <2>1, IdleSettler
<1>2. CASE SettleNext(m)
  <2>1. PICK k \in todo[m] :
          /\ chg' = [chg EXCEPT ![m] = ChargeOf(k[1], k[2], None)]
          /\ todo' = [todo EXCEPT ![m] = @ \ {k}]
    BY <1>2 DEF SettleNext, SetCharge
  <2>2. k \in Keys /\ k = <<k[1], k[2]>> /\ k[1] \in Accounts /\ k[2] \in Currencies
    BY <1>0 DEF TypeOK, Keys
  <2>3. /\ pc[m] = "loop" /\ pc'[m] = "read" /\ due'[m] = due[m] /\ usage' = usage
        /\ todo'[m] = todo[m] \ {k} /\ chg'[m] = ChargeOf(k[1], k[2], None)
    BY <1>0, <1>2, <2>1 DEF SettleNext, Goto, TypeOK
  <2>4. /\ chg'[m].account = k[1] /\ chg'[m].currency = k[2] /\ chg'[m].before = None
        /\ k[1] = chg[m].account
    BY <2>3, ChargeOfFields DEF SettlerInv
  <2>5. \A c : Rest(m, c)' = Rest(m, c) /\ Amounts' = Amounts
    BY <2>3 DEF Rest, Unpaid, Stored, Amounts
  <2>6. ASSUME NEW c \in Currencies PROVE SettledOrToCharge(m, c)'
    <3>1. SettledOrToCharge(m, c) /\ ~Charging(m)
      BY <2>3 DEF SettlerInv, Charging
    <3>2. CASE c = k[2]
      BY <2>3, <2>4, <3>2 DEF SettledOrToCharge, Charging
    <3>3. CASE c # k[2]
      <4>1. <<k[1], c>> # k
        BY <2>2, <3>3
      <4> QED BY <2>3, <2>4, <2>5, <3>1, <4>1 DEF SettledOrToCharge
    <3> QED BY <3>2, <3>3
  <2>7. /\ \A r \in due[m] : usage[r].state = "priced" /\ Owner[r] = chg[m].account
        /\ \A x \in todo[m] : x[1] = chg[m].account
    BY <2>3 DEF SettlerInv
  <2> QED BY <2>2, <2>3, <2>4, <2>6, <2>7 DEF SettlerInv, Charging, Holding
<1>3. CASE SettleStart(m)
  <2>1. PICK a \in Accounts :
          /\ chg' = [chg EXCEPT ![m] = [NoCharge EXCEPT !.account = a]]
          /\ todo' = [todo EXCEPT ![m] = {k \in UnpaidKeys(None) : k[1] = a}]
          /\ due' = [due EXCEPT ![m] = {r \in Runs : /\ Unpaid(r)
                                                    /\ Owner[r] = a
                                                    /\ usage[r].amount > 0}]
    BY <1>3 DEF SettleStart, SetCharge
  <2>2. /\ pc'[m] = "loop" /\ usage' = usage /\ chg'[m].account = a
        /\ todo'[m] = {k \in UnpaidKeys(None) : k[1] = a}
        /\ due'[m] = {r \in Runs : Unpaid(r) /\ Owner[r] = a /\ usage[r].amount > 0}
    BY <1>0, <1>3, <2>1 DEF SettleStart, Goto, TypeOK, NoCharge
  <2>3. \A r \in due'[m] : usage[r].state = "priced" /\ Owner[r] = a
    BY <2>2 DEF RowInv
  <2>4. ASSUME NEW c \in Currencies, <<a, c>> \notin todo'[m]
        PROVE  (Total(Amounts, Rest(m, c)) < Cent)'
    <3>1. UnpaidRows(a, c, None) = {}
      BY <2>2, <2>4 DEF UnpaidKeys, Keys
    <3>2. Rest(m, c)' = {}
      BY <2>2, <3>1 DEF Rest, UnpaidRows, Unpaid, Stored
    <3>3. Total(Amounts', Rest(m, c)') = 0
      BY <3>2, TotalEmpty
    <3> QED BY <3>3, BillingAssumption
  <2>5. \A c \in Currencies : SettledOrToCharge(m, c)'
    BY <2>2, <2>4 DEF SettledOrToCharge
  <2> QED BY <2>2, <2>3, <2>5 DEF SettlerInv, Charging, Holding
<1> QED BY <1>1, <1>2, <1>3 DEF SettleStep

LEMMA RestoreInit == Init => RestoreInv
<1> SUFFICES ASSUME Init, NEW m \in Settlers PROVE SettlerInv(m)
  BY PromiseInit DEF RestoreInv
<1>1. pc[m] = "idle"
  BY BillingAssumption DEF Init, Procs
<1> QED BY <1>1 DEF SettlerInv, Charging, Holding

LEMMA RestoreStep ==
    ASSUME SerialCharges, RestoreInv, [Next]_vars
    PROVE  RestoreInv'
<1> USE DEF ledger, external
<1>0. /\ PromiseInv /\ SerialInv /\ TypeInv /\ TypeOK
      /\ \A r \in Runs : RowInv(r)
  BY DEF RestoreInv, PromiseInv, SerialInv, TypeInv
<1>1. PromiseInv' /\ TypeOK' /\ RowsShrink
  BY <1>0, PromiseStep, TypeStep, ShrinkStep
<1> SUFFICES ASSUME NEW m \in Settlers PROVE SettlerInv(m)'
  BY <1>1 DEF RestoreInv
<1>2. /\ SettlerInv(m) /\ m \in Procs /\ m \notin Runs /\ m # Daily
      /\ Runs \subseteq Procs /\ Settlers \subseteq Procs /\ Daily \in Procs
      /\ \A r \in Runs : r # m
  BY BillingAssumption DEF RestoreInv, Procs
<1>3. ASSUME pc'[m] = pc[m], chg'[m] = chg[m], todo'[m] = todo[m], due'[m] = due[m]
      PROVE  SettlerInv(m)'
  BY <1>0, <1>1, <1>2, <1>3, SettlerUndisturbed
\* Another process leaves chargeAccount.
<1>4. ASSUME NEW p \in Procs, p # m, ChargeSucceeded(p) \/ ChargeFailed(p)
      PROVE  SettlerInv(m)'
  <2>1. pc'[m] = pc[m] /\ chg'[m] = chg[m] /\ todo'[m] = todo[m] /\ due'[m] = due[m]
    BY <1>0, <1>2, <1>4 DEF ChargeSucceeded, ChargeFailed, Goto, SetCharge, TypeOK
  <2> QED BY <1>3, <2>1
\* The settlement itself gives up.
<1>5. ASSUME ChargeFailed(m) PROVE SettlerInv(m)'
  <2>1. pc'[m] = "idle"
    BY <1>0, <1>2, <1>5 DEF ChargeFailed, Goto, TypeOK
  <2> QED BY <2>1, IdleSettler
<1>6. ASSUME NEW r \in Runs, RunStep(r) PROVE SettlerInv(m)'
  <2>1. pc'[m] = pc[m] /\ chg'[m] = chg[m] /\ todo'[m] = todo[m] /\ due'[m] = due[m]
    BY <1>0, <1>2, <1>6 DEF RunStep, Authorize, ReserveRow, CancelAuthorization,
       AbandonReservation, RecordUsage, ChargeAction, ApplyInstantWall,
       Goto, SetCharge, TypeOK
  <2> QED BY <1>3, <2>1
<1>7. ASSUME NEW p \in Procs, ChargeRead(p) PROVE SettlerInv(m)'
  <2>1. CASE p = m
    BY <1>0, <1>1, <1>2, <1>7, <2>1, ChargeReadSettles
  <2>2. CASE p # m /\ Snapshot(p).amount = 0
    BY <1>4, <1>7, <2>2 DEF ChargeRead
  <2>3. CASE p # m /\ Snapshot(p).amount # 0
    <3>1. pc'[m] = pc[m] /\ chg'[m] = chg[m] /\ todo'[m] = todo[m] /\ due'[m] = due[m]
      BY <1>0, <1>2, <1>7, <2>3 DEF ChargeRead, Goto, SetCharge, TypeOK
    <3> QED BY <1>3, <3>1
  <2> QED BY <2>1, <2>2, <2>3
<1>8. ASSUME NEW p \in Procs, Commit(p) PROVE SettlerInv(m)'
  <2>1. CASE p = m
    BY <1>0, <1>1, <1>2, <1>8, <2>1, CommitSettles
  <2>2. CASE p # m
    BY <1>4, <1>8, <2>2 DEF Commit
  <2> QED BY <2>1, <2>2
<1>9. ASSUME NEW p \in Procs, WalletAccepts(p) PROVE SettlerInv(m)'
  <2>1. CASE p # m
    <3>1. pc'[m] = pc[m] /\ chg'[m] = chg[m] /\ todo'[m] = todo[m] /\ due'[m] = due[m]
      BY <1>0, <1>2, <1>9, <2>1 DEF WalletAccepts, Goto, SetCharge, TypeOK
    <3> QED BY <1>3, <3>1
  <2>2. CASE p = m
    <3>1. /\ pc[m] = "wallet" /\ pc'[m] = "commit" /\ todo'[m] = todo[m] /\ due'[m] = due[m]
          /\ usage' = usage /\ chg'[m] = [chg[m] EXCEPT !.tx = lastTx + 1]
      BY <1>0, <1>2, <1>9, <2>2 DEF WalletAccepts, Goto, SetCharge, TypeOK
    <3>2. /\ chg'[m].account = chg[m].account /\ chg'[m].currency = chg[m].currency
          /\ chg'[m].rows = chg[m].rows /\ chg'[m].owed = chg[m].owed
          /\ chg'[m].before = chg[m].before
      BY <1>0, <1>2, <3>1 DEF TypeOK, Charge
    <3>3. /\ \A c : Rest(m, c)' = Rest(m, c)
          /\ Amounts' = Amounts
      BY <3>1 DEF Rest, Unpaid, Stored, Amounts
    <3>4. Rest(m, chg[m].currency)' = Rest(m, chg[m].currency)
      BY <3>1, <3>2 DEF Rest, Unpaid, Stored
    <3>5. \A c \in Currencies : SettledOrToCharge(m, c) => SettledOrToCharge(m, c)'
      BY <3>1, <3>2, <3>3 DEF SettledOrToCharge, Charging
    <3> QED BY <1>2, <3>1, <3>2, <3>4, <3>5 DEF SettlerInv, Charging, Holding
  <2> QED BY <2>1, <2>2
<1>10. ASSUME NEW p \in Procs, WalletRejects(p) \/ WalletReplyLost(p) \/ CommitFails(p)
       PROVE  SettlerInv(m)'
  BY <1>4, <1>5, <1>10 DEF WalletRejects, WalletReplyLost, CommitFails
<1>11. ASSUME NEW s \in Settlers, SettleStep(s) PROVE SettlerInv(m)'
  <2>1. CASE s = m
    BY <1>0, <1>1, <1>2, <1>11, <2>1, SettleActions
  <2>2. CASE s # m
    <3>1. pc'[m] = pc[m] /\ chg'[m] = chg[m] /\ todo'[m] = todo[m] /\ due'[m] = due[m]
      BY <1>0, <1>2, <1>11, <2>2 DEF SettleStep, SettleStart, SettleNext, SettleClear,
         Goto, SetCharge, TypeOK
    <3> QED BY <1>3, <3>1
  <2> QED BY <2>1, <2>2
<1>12. ASSUME DailyStep PROVE SettlerInv(m)'
  <2>1. pc'[m] = pc[m] /\ chg'[m] = chg[m] /\ todo'[m] = todo[m] /\ due'[m] = due[m]
    BY <1>0, <1>2, <1>12 DEF DailyStep, DailyStart, DailyCharge, DailySkip, DailyDone,
       Goto, SetCharge, TypeOK
  <2> QED BY <1>3, <2>1
<1>13. CASE Midnight \/ UNCHANGED vars
  BY <1>3, <1>13 DEF Midnight, vars
<1>14. CASE Crash
  <2>1. pc'[m] = "idle"
    BY <1>0, <1>2, <1>14 DEF Crash
  <2> QED BY <2>1, IdleSettler
<1> QED BY <1>6, <1>7, <1>8, <1>9, <1>10, <1>11, <1>12, <1>13, <1>14
     DEF Next, ChargeStep, WalletStep, FaultStep

\* While charges of an account and currency do not overlap, whatever fails,
\* SettleAccount lifts the blacklist only when everything that was priced and
\* unpaid when it was called is paid, but for less than one Wallet unit per
\* currency.
THEOREM RestoresOnlyPaid == SerialCharges /\ Spec => SettleRestoresOnlyPaid
<1> SUFFICES ASSUME SerialCharges PROVE Spec => SettleRestoresOnlyPaid
  OBVIOUS
<1> DEFINE Lifts == \A a \in Accounts : blacklisted[a] /\ ~blacklisted'[a] =>
          \E m \in Settlers :
             /\ chg[m].account = a
             /\ \A c \in Currencies :
                  Total(Amounts, {r \in due[m] : Unpaid(r) /\ usage[r].currency = c})
                     < Cent
<1>1. ASSUME RestoreInv, [Next]_vars PROVE Lifts
  <2> SUFFICES ASSUME NEW a \in Accounts, blacklisted[a], ~blacklisted'[a]
               PROVE  \E m \in Settlers :
                         /\ chg[m].account = a
                         /\ \A c \in Currencies : Total(Amounts, Rest(m, c)) < Cent
    BY DEF Rest
  <2>0. TypeOK
    BY <1>1 DEF RestoreInv, PromiseInv, SerialInv, TypeInv
  <2>1. ASSUME NEW p \in Procs, Blacklist(chg[p].account) PROVE FALSE
    BY <2>0, <2>1 DEF Blacklist, TypeOK
  <2>2. ASSUME UNCHANGED blacklisted PROVE FALSE
    BY <2>2
  <2>3. PICK m \in Settlers : SettleClear(m)
    <3>1. ASSUME NEW r \in Runs, RunStep(r) PROVE UNCHANGED blacklisted
      BY <3>1 DEF RunStep, Authorize, ReserveRow, CancelAuthorization,
         AbandonReservation, RecordUsage, ChargeAction, ApplyInstantWall, ledger
    <3>2. ASSUME NEW p \in Procs, ChargeStep(p) \/ WalletAccepts(p) PROVE UNCHANGED blacklisted
      BY <3>2 DEF ChargeStep, ChargeRead, Commit, WalletAccepts, ledger
    <3>3. ASSUME NEW p \in Procs, WalletRejects(p) \/ WalletReplyLost(p)
          PROVE  Blacklist(chg[p].account)
      BY <3>3 DEF WalletRejects, WalletReplyLost
    <3>4. ASSUME NEW m \in Settlers, SettleStart(m) \/ SettleNext(m) PROVE UNCHANGED blacklisted
      BY <3>4 DEF SettleStart, SettleNext, ledger
    <3>5. DailyStep \/ Midnight \/ UNCHANGED vars \/ Crash => UNCHANGED blacklisted
      BY DEF DailyStep, DailyStart, DailyCharge, DailySkip, DailyDone, Midnight, vars,
         Crash, ledger
    <3>6. ASSUME NEW p \in Procs, CommitFails(p) PROVE UNCHANGED blacklisted
      BY <3>6 DEF CommitFails, ledger
    <3> QED BY <1>1, <2>1, <2>2, <3>1, <3>2, <3>3, <3>4, <3>5, <3>6
         DEF Next, WalletStep, SettleStep, FaultStep
  <2>4. chg[m].account = a
    BY <2>0, <2>3 DEF SettleClear, TypeOK
  <2>5. ASSUME NEW c \in Currencies PROVE Total(Amounts, Rest(m, c)) < Cent
    <3>1. pc[m] = "loop" /\ todo[m] = {}
      BY <2>3 DEF SettleClear
    <3>2. SettledOrToCharge(m, c)
      BY <1>1, <3>1 DEF RestoreInv, SettlerInv
    <3> QED BY <3>1, <3>2 DEF SettledOrToCharge, Charging
  <2> QED BY <2>4, <2>5
<1>2. RestoreInv /\ [Next]_vars => RestoreInv'
  BY RestoreStep
<1>3. RestoreInv /\ [Next]_vars => [Lifts]_vars
  BY <1>1
<1> QED BY RestoreInit, <1>2, <1>3, PTL DEF Spec, SettleRestoresOnlyPaid

-----------------------------------------------------------------------------
(* The instant billing wall.  A run that charges its account has seen every  *)
(* row that the account still owes for, unless the account is back below its *)
(* wall or another run has still to come to the wall: a row priced after the *)
(* snapshot was taken belongs to such a run.                                 *)

LeavesWall == {"wall", "read", "wallet", "commit"}

Covers(r) ==
    \A x \in UnpaidRows(Owner[r], DefaultCurrency, None) : usage[x].amount > 0 =>
        x \in chg[r].rows /\ usage[x].amount <= chg[r].owed[x]

BelowWall(r)   == Owed(Owner[r]) < Wall[Owner[r]]
OtherAtWall(r) == \E q \in Runs \ {r} : Owner[q] = Owner[r] /\ AtWall(q)

WallInv(r) ==
    /\ pc[r] \in LeavesWall => usage[r].state = "priced"
    /\ pc[r] \in {"read", "wallet", "commit"} =>
          /\ chg[r].account = Owner[r] /\ chg[r].currency = DefaultCurrency
          /\ chg[r].before = None /\ usage[r].currency = DefaultCurrency
          /\ Wall[Owner[r]] # NoWall
    /\ Holding(r) => Covers(r) \/ BelowWall(r) \/ OtherAtWall(r)

WallsInv == PromiseInv /\ \A r \in Runs : WallInv(r)

LEMMA WallsInit == Init => WallsInv
<1> SUFFICES ASSUME Init, NEW r \in Runs PROVE WallInv(r)
  BY PromiseInit DEF WallsInv
<1>1. pc[r] = "new"
  BY DEF Init, Procs
<1> QED BY <1>1 DEF WallInv, Holding, LeavesWall

\* A row becomes priced by its own run only, which then goes to the wall.
LEMMA FreshRow ==
    ASSUME SerialInv, [Next]_vars, NEW x \in Runs,
           usage[x].state # "priced", usage'[x].state = "priced"
    PROVE  RunStep(x) /\ pc'[x] = "wall" /\ chg' = chg
<1> USE DEF ledger, external
<1>0. TypeInv /\ TypeOK /\ x \in Procs
  BY DEF SerialInv, TypeInv, Procs
<1>1. ASSUME NEW r \in Runs, RunStep(r)
      PROVE  RunStep(x) /\ pc'[x] = "wall" /\ chg' = chg
  <2>1. RowInv(r)
    BY DEF SerialInv
  <2>2. r = x
    BY <1>0, <1>1, <2>1, RunStepRow
  <2>3. usage' # usage
    OBVIOUS
  <2>4. RecordUsage(x) \/ ChargeAction(x) \/ ReserveRow(x) \/ CancelAuthorization(x)
    BY <1>1, <2>2, <2>3 DEF RunStep, Authorize, AbandonReservation, ApplyInstantWall
  <2>5. ~ReserveRow(x) /\ ~CancelAuthorization(x)
    BY <1>0 DEF ReserveRow, CancelAuthorization, Row, TypeOK, UsageRow
  <2> QED BY <1>0, <1>1, <2>2, <2>4, <2>5 DEF RecordUsage, ChargeAction, Goto, TypeOK
<1>2. ASSUME NEW p \in Procs, Commit(p) PROVE FALSE
  <2>1. PICK full \in SUBSET chg[p].rows, part \in chg[p].rows \cup {None} :
          usage' = Settled(chg[p], full, part)
    BY <1>2 DEF Commit
  <2>2. usage[x] \in UsageRow
    BY <1>0 DEF TypeOK
  <2> QED BY <2>1, <2>2 DEF Settled, Stamped, KeepRemainder, UsageRow
<1>3. ASSUME NEW p \in Procs, ChargeRead(p) \/ WalletStep(p) PROVE usage' = usage
  BY <1>3 DEF ChargeRead, WalletStep, WalletAccepts, WalletRejects
<1>4. ASSUME NEW m \in Settlers, SettleStep(m) PROVE usage' = usage
  BY <1>4 DEF SettleStep, SettleStart, SettleNext, SettleClear
<1>5. DailyStep \/ Midnight \/ FaultStep \/ UNCHANGED vars => usage' = usage
  BY DEF DailyStep, DailyStart, DailyCharge, DailySkip, DailyDone, Midnight,
     FaultStep, Crash, WalletReplyLost, CommitFails, vars
<1> QED BY <1>1, <1>2, <1>3, <1>4, <1>5 DEF Next, ChargeStep

NothingNew(a) ==
    \A x \in UnpaidRows(a, DefaultCurrency, None)' :
        usage'[x].amount > 0 => usage[x].state = "priced"

LEMMA OwedShrinks ==
    ASSUME TypeOK, TypeOK', RowsShrink, NEW a \in Accounts, NothingNew(a)
    PROVE  /\ \A x \in UnpaidRows(a, DefaultCurrency, None)' : usage'[x].amount > 0 =>
                 /\ x \in UnpaidRows(a, DefaultCurrency, None)
                 /\ usage'[x].amount <= usage[x].amount
           /\ Owed(a)' <= Owed(a) /\ Owed(a) \in Nat /\ Owed(a)' \in Nat
<1> DEFINE S == UnpaidRows(a, DefaultCurrency, None)
           Z == UnpaidRows(a, DefaultCurrency, None)'
<1>1. /\ S \in SUBSET Runs /\ Z \in SUBSET Runs
      /\ \A x \in Runs : usage[x].amount \in Nat /\ usage'[x].amount \in Nat
  BY DEF UnpaidRows, TypeOK, UsageRow
<1>2. ASSUME NEW x \in Z, usage'[x].amount > 0
      PROVE  x \in S /\ usage'[x].amount <= usage[x].amount
  BY <1>1, <1>2 DEF NothingNew, RowsShrink, UnpaidRows
<1>3. /\ \A x \in S : Amounts[x] = usage[x].amount
      /\ \A x \in Z : Amounts'[x] = usage'[x].amount
  BY <1>1 DEF Amounts, UnpaidRows, Unpaid
<1>4. IsFiniteSet(S) /\ IsFiniteSet(Z)
  BY <1>1, SubsetOfRuns
<1>5. Owed(a) = Total(Amounts, S) /\ Owed(a)' = Total(Amounts', Z)
  BY DEF Owed
<1> HIDE DEF S, Z
<1>6. /\ \A x \in S : Amounts[x] \in Nat
      /\ \A x \in Z : Amounts'[x] \in Nat /\ (Amounts'[x] > 0 => x \in S /\ Amounts'[x] <= Amounts[x])
  BY <1>1, <1>2, <1>3
<1>7. Total(Amounts', Z) <= Total(Amounts, S)
  BY <1>4, <1>6, TotalCovered
<1>8. Total(Amounts', Z) \in Nat /\ Total(Amounts, S) \in Nat
  BY <1>4, <1>6, TotalType
<1>9. /\ \A x \in Z : usage'[x].amount > 0 => x \in S /\ usage'[x].amount <= usage[x].amount
      /\ Owed(a)' <= Owed(a) /\ Owed(a) \in Nat /\ Owed(a)' \in Nat
  BY <1>2, <1>5, <1>7, <1>8
<1> QED BY <1>9 DEF S, Z

\* What can move a run.
LEMMA RunMoves ==
    ASSUME TypeInv, [Next]_vars, NEW r \in Runs
    PROVE  \/ pc'[r] = pc[r] /\ chg'[r] = chg[r]
           \/ RunStep(r) \/ ChargeStep(r) \/ WalletStep(r)
           \/ Crash \/ WalletReplyLost(r) \/ CommitFails(r)
<1> USE DEF ledger, external
<1> DEFINE Still == pc'[r] = pc[r] /\ chg'[r] = chg[r]
<1>0. TypeOK /\ r \in Procs /\ r \notin Settlers /\ r # Daily
  BY BillingAssumption DEF TypeInv, Procs
<1>1. ASSUME NEW x \in Runs, RunStep(x), x # r PROVE Still
  BY <1>0, <1>1 DEF RunStep, Authorize, ReserveRow, CancelAuthorization, AbandonReservation,
     RecordUsage, ChargeAction, ApplyInstantWall, Goto, SetCharge, TypeOK
<1>2. ASSUME NEW p \in Procs, p # r, ChargeSucceeded(p) \/ ChargeFailed(p) PROVE Still
  BY <1>0, <1>2 DEF ChargeSucceeded, ChargeFailed, Goto, SetCharge, TypeOK
<1>3. ASSUME NEW p \in Procs, p # r, ChargeStep(p) \/ WalletStep(p) PROVE Still
  <2>1. CASE ChargeSucceeded(p) \/ ChargeFailed(p)
    BY <1>2, <1>3, <2>1
  <2>2. CASE ~ChargeSucceeded(p) /\ ~ChargeFailed(p)
    BY <1>0, <1>3, <2>2 DEF ChargeStep, ChargeRead, Commit, WalletStep, WalletAccepts,
       WalletRejects, Goto, SetCharge, TypeOK
  <2> QED BY <2>1, <2>2
<1>4. ASSUME NEW m \in Settlers, SettleStep(m) PROVE Still
  BY <1>0, <1>4 DEF SettleStep, SettleStart, SettleNext, SettleClear, Goto, SetCharge, TypeOK
<1>5. ASSUME DailyStep PROVE Still
  BY <1>0, <1>5 DEF DailyStep, DailyStart, DailyCharge, DailySkip, DailyDone,
     Goto, SetCharge, TypeOK
<1>6. ASSUME NEW p \in Procs, p # r, WalletReplyLost(p) \/ CommitFails(p) PROVE Still
  BY <1>2, <1>6 DEF WalletReplyLost, CommitFails
<1>7. Midnight \/ UNCHANGED vars => Still
  BY DEF Midnight, vars
<1> QED BY <1>1, <1>3, <1>4, <1>5, <1>6, <1>7 DEF Next, FaultStep

\* A step that keeps a charge's snapshot keeps what makes it enough.
LEMMA WallUndisturbed ==
    ASSUME SerialCharges, WallsInv, PromiseInv', RowsShrink, [Next]_vars,
           NEW r \in Runs, Holding(r), Holding(r)',
           chg'[r].rows = chg[r].rows, chg'[r].owed = chg[r].owed
    PROVE  Covers(r)' \/ BelowWall(r)' \/ OtherAtWall(r)'
<1> USE DEF ledger, external
<1>0. /\ SerialInv /\ TypeInv /\ TypeOK /\ TypeOK' /\ NoOverlap
      /\ r \in Procs /\ Owner[r] \in Accounts /\ Wall[Owner[r]] \in Int
      /\ \A x \in Runs : RowInv(x)' /\ WallInv(x)
      /\ chg[r].account = Owner[r] /\ chg[r].currency = DefaultCurrency
  BY BillingAssumption
     DEF WallsInv, WallInv, Holding, PromiseInv, SerialInv, TypeInv, Procs, NoWall
<1>1. CASE \E x \in Runs : /\ usage[x].state # "priced" /\ usage'[x].state = "priced"
                           /\ Owner[x] = Owner[r] /\ usage'[x].currency = DefaultCurrency
  <2>1. PICK x \in Runs : /\ usage[x].state # "priced" /\ usage'[x].state = "priced"
                          /\ Owner[x] = Owner[r] /\ usage'[x].currency = DefaultCurrency
    BY <1>1
  <2>2. pc'[x] = "wall"
    BY <1>0, <2>1, FreshRow
  <2>3. x # r /\ AtWall(x)'
    BY <2>1, <2>2 DEF Holding, AtWall
  <2> QED BY <2>1, <2>3 DEF OtherAtWall
<1>2. CASE ~\E x \in Runs : /\ usage[x].state # "priced" /\ usage'[x].state = "priced"
                            /\ Owner[x] = Owner[r] /\ usage'[x].currency = DefaultCurrency
  <2>1. NothingNew(Owner[r])
    <3>1. ASSUME NEW x \in UnpaidRows(Owner[r], DefaultCurrency, None)', usage'[x].amount > 0
          PROVE  usage[x].state = "priced"
      <4>1. x \in Runs /\ Owner[x] = Owner[r] /\ usage'[x].currency = DefaultCurrency
        BY <3>1 DEF UnpaidRows
      <4>2. usage'[x].state = "priced"
        BY <1>0, <3>1, <4>1 DEF RowInv
      <4> QED BY <1>2, <4>1, <4>2
    <3> QED BY <3>1 DEF NothingNew
  <2>2. /\ \A x \in UnpaidRows(Owner[r], DefaultCurrency, None)' : usage'[x].amount > 0 =>
             /\ x \in UnpaidRows(Owner[r], DefaultCurrency, None)
             /\ usage'[x].amount <= usage[x].amount
        /\ Owed(Owner[r])' <= Owed(Owner[r])
        /\ Owed(Owner[r]) \in Nat /\ Owed(Owner[r])' \in Nat
    BY <1>0, <2>1, OwedShrinks
  <2>3. BelowWall(r) => BelowWall(r)'
    BY <1>0, <2>2 DEF BelowWall
  <2>4. ASSUME Covers(r) PROVE Covers(r)'
    <3> SUFFICES ASSUME NEW x \in UnpaidRows(Owner[r], DefaultCurrency, None)',
                        usage'[x].amount > 0
                 PROVE  x \in chg[r].rows /\ usage'[x].amount <= chg[r].owed[x]
      BY DEF Covers
    <3>1. /\ x \in UnpaidRows(Owner[r], DefaultCurrency, None) /\ x \in Runs
          /\ usage'[x].amount <= usage[x].amount
      BY <2>2 DEF UnpaidRows
    <3>2. /\ usage[x].amount \in Nat /\ usage'[x].amount \in Nat /\ chg[r].owed[x] \in Nat
      BY <1>0, <3>1 DEF TypeOK, UsageRow, Charge
    <3>3. x \in chg[r].rows /\ usage[x].amount <= chg[r].owed[x]
      BY <2>4, <3>1, <3>2 DEF Covers
    <3> QED BY <3>1, <3>2, <3>3
  <2>5. ASSUME OtherAtWall(r) PROVE BelowWall(r)' \/ OtherAtWall(r)'
    <3>1. PICK q \in Runs \ {r} : Owner[q] = Owner[r] /\ AtWall(q)
      BY <2>5 DEF OtherAtWall
    <3>2. /\ q \in Procs /\ usage[q].state = "priced" /\ usage'[q].currency = DefaultCurrency
          /\ usage[q].currency = DefaultCurrency
      BY <1>0, <3>1 DEF WallInv, AtWall, LeavesWall, RowsShrink, Procs
    <3>3. ASSUME pc'[q] \in LeavesWall PROVE OtherAtWall(r)'
      BY <3>1, <3>2, <3>3 DEF OtherAtWall, AtWall, LeavesWall
    <3>4. ~Holding(q)
      <4> SUFFICES ASSUME Holding(q) PROVE FALSE
        OBVIOUS
      <4>1. chg[q].account = Owner[r] /\ chg[q].currency = DefaultCurrency
        BY <1>0, <3>1 DEF WallInv, Holding
      <4> QED BY <1>0, <3>1, <3>2, <4>1 DEF NoOverlap
    <3>5. CASE pc'[q] = pc[q]
      BY <3>1, <3>3, <3>5 DEF AtWall, LeavesWall
    <3>6. CASE RunStep(q)
      <4>1. ApplyInstantWall(q)
        BY <3>1, <3>6 DEF AtWall, RunStep, Authorize, ReserveRow, CancelAuthorization,
           AbandonReservation, RecordUsage, ChargeAction
      <4>2. CASE WallReached(Owner[q], DefaultCurrency)
        BY <1>0, <3>2, <3>3, <4>1, <4>2 DEF ApplyInstantWall, Goto, TypeOK, LeavesWall
      <4>3. CASE ~WallReached(Owner[q], DefaultCurrency)
        <5>1. Wall[Owner[r]] # NoWall => Owed(Owner[r]) < Wall[Owner[r]]
          BY <1>0, <2>2, <3>1, <4>3 DEF WallReached, Owed
        <5>2. Wall[Owner[r]] # NoWall
          BY <1>0 DEF WallInv, Holding
        <5> QED BY <2>3, <5>1, <5>2 DEF BelowWall
      <4> QED BY <4>2, <4>3
    <3>7. CASE ChargeRead(q)
      <4>1. chg[q].account = Owner[r] /\ chg[q].currency = DefaultCurrency
        BY <1>0, <3>1, <3>7 DEF WallInv, ChargeRead
      <4> QED BY <1>0, <3>1, <3>7, <4>1 DEF ChargeRead, MayRead
    <3>8. ~Commit(q) /\ ~WalletStep(q) /\ ~WalletReplyLost(q) /\ ~CommitFails(q)
      BY <3>4 DEF Commit, WalletStep, WalletAccepts, WalletRejects, WalletReplyLost,
         CommitFails, Holding
    <3>9. ~Crash
      BY <1>0 DEF Crash, Holding
    <3> QED BY <1>0, <3>1, <3>5, <3>6, <3>7, <3>8, <3>9, RunMoves DEF ChargeStep
  <2>6. Covers(r) \/ BelowWall(r) \/ OtherAtWall(r)
    BY <1>0 DEF WallInv
  <2> QED BY <2>3, <2>4, <2>5, <2>6
<1> QED BY <1>1, <1>2

LEMMA WallStep ==
    ASSUME SerialCharges, WallsInv, [Next]_vars
    PROVE  WallsInv'
<1> USE DEF ledger, external
<1>0. /\ PromiseInv /\ SerialInv /\ TypeInv /\ TypeOK
      /\ \A x \in Runs : WallInv(x)
  BY DEF WallsInv, PromiseInv, SerialInv, TypeInv
<1>1. PromiseInv' /\ TypeOK' /\ RowsShrink
  BY <1>0, PromiseStep, TypeStep, ShrinkStep
<1> SUFFICES ASSUME NEW r \in Runs PROVE WallInv(r)'
  BY <1>1 DEF WallsInv
<1>2. r \in Procs /\ WallInv(r) /\ usage[r] \in UsageRow
  BY <1>0 DEF Procs, TypeOK
<1>3. ASSUME usage[r].state = "priced"
      PROVE  usage'[r].state = "priced" /\ usage'[r].currency = usage[r].currency
  BY <1>1, <1>3 DEF RowsShrink
<1>4. ASSUME pc'[r] = pc[r] \/ pc'[r] = "commit", pc[r] \in LeavesWall,
             chg'[r].account = chg[r].account, chg'[r].currency = chg[r].currency,
             chg'[r].before = chg[r].before, chg'[r].rows = chg[r].rows,
             chg'[r].owed = chg[r].owed, pc'[r] = "commit" => Holding(r)
      PROVE  WallInv(r)'
  <2>1. usage'[r].state = "priced"
    BY <1>2, <1>3, <1>4 DEF WallInv
  <2>2. pc'[r] \in {"read", "wallet", "commit"} => pc[r] \in {"read", "wallet", "commit"}
    BY <1>4 DEF Holding
  <2>3. pc'[r] \in {"read", "wallet", "commit"} =>
          /\ chg'[r].account = Owner[r] /\ chg'[r].currency = DefaultCurrency
          /\ chg'[r].before = None /\ usage'[r].currency = DefaultCurrency
          /\ Wall[Owner[r]] # NoWall
    BY <1>2, <1>3, <1>4, <2>2 DEF WallInv, LeavesWall
  <2>4. Holding(r)' => Covers(r)' \/ BelowWall(r)' \/ OtherAtWall(r)'
    <3>1. Holding(r)' => Holding(r)
      BY <1>4 DEF Holding
    <3> QED BY <1>1, <1>4, <3>1, WallUndisturbed
  <2> QED BY <2>1, <2>3, <2>4 DEF WallInv
<1>5. CASE pc'[r] \notin LeavesWall
  BY <1>5 DEF WallInv, LeavesWall, Holding
<1>6. CASE pc'[r] = pc[r] /\ chg'[r] = chg[r]
  BY <1>4, <1>5, <1>6 DEF Holding
<1>7. CASE RunStep(r)
  <2>1. CASE RecordUsage(r) \/ ChargeAction(r)
    <3>1. pc'[r] = "wall" /\ usage'[r].state = "priced"
      BY <1>0, <1>2, <2>1 DEF RecordUsage, ChargeAction, Goto, Row, TypeOK
    <3> QED BY <3>1 DEF WallInv, Holding
  <2>2. CASE ApplyInstantWall(r)
    <3>1. pc[r] = "wall" /\ usage[r].state = "priced" /\ usage' = usage
      BY <1>2, <2>2 DEF ApplyInstantWall, WallInv, LeavesWall
    <3>2. CASE WallReached(Owner[r], usage[r].currency)
      <4>1. /\ pc'[r] = "read" /\ chg'[r] = ChargeOf(Owner[r], usage[r].currency, None)
            /\ usage[r].currency = DefaultCurrency /\ Wall[Owner[r]] # NoWall
        BY <1>0, <1>2, <2>2, <3>2 DEF ApplyInstantWall, Goto, SetCharge, TypeOK, WallReached
      <4>2. /\ chg'[r].account = Owner[r] /\ chg'[r].currency = DefaultCurrency
            /\ chg'[r].before = None
        BY <4>1, ChargeOfFields
      <4> QED BY <3>1, <4>1, <4>2 DEF WallInv, Holding
    <3>3. CASE ~WallReached(Owner[r], usage[r].currency)
      <4>1. pc'[r] = "done"
        BY <1>0, <1>2, <2>2, <3>3 DEF ApplyInstantWall, Goto, TypeOK
      <4> QED BY <1>5, <4>1 DEF LeavesWall
    <3> QED BY <3>2, <3>3
  <2>3. CASE Authorize(r) \/ ReserveRow(r) \/ CancelAuthorization(r) \/ AbandonReservation(r)
    <3>1. pc'[r] \in {"authorized", "running", "done"}
      BY <1>0, <1>2, <2>3 DEF Authorize, ReserveRow, CancelAuthorization,
         AbandonReservation, Goto, TypeOK
    <3> QED BY <1>5, <3>1 DEF LeavesWall
  <2> QED BY <1>7, <2>1, <2>2, <2>3 DEF RunStep
<1>8. CASE ChargeSucceeded(r) \/ ChargeFailed(r)
  <2>1. pc'[r] = "done"
    BY <1>0, <1>2, <1>8 DEF ChargeSucceeded, ChargeFailed, Goto, TypeOK
  <2> QED BY <1>5, <2>1 DEF LeavesWall
<1>9. CASE ChargeRead(r) /\ Snapshot(r).amount # 0
  <2>1. /\ pc[r] = "read" /\ pc'[r] = "wallet" /\ chg'[r] = Snapshot(r) /\ usage' = usage
    BY <1>0, <1>2, <1>9 DEF ChargeRead, Goto, SetCharge, TypeOK
  <2>2. /\ chg[r].account = Owner[r] /\ chg[r].currency = DefaultCurrency
        /\ chg[r].before = None /\ usage[r].currency = DefaultCurrency
        /\ Wall[Owner[r]] # NoWall /\ usage[r].state = "priced"
    BY <1>2, <2>1 DEF WallInv, LeavesWall
  <2>3. /\ chg'[r].account = Owner[r] /\ chg'[r].currency = DefaultCurrency
        /\ chg'[r].before = None
        /\ chg'[r].rows = UnpaidRows(Owner[r], DefaultCurrency, None)
        /\ \A x \in chg'[r].rows : chg'[r].owed[x] = usage[x].amount
    BY <1>0, <1>2, <2>1, <2>2, SnapshotFields DEF Snapshot, TypeOK, Charge, UnpaidRows
  <2>4. Covers(r)'
    <3>1. UnpaidRows(Owner[r], DefaultCurrency, None)' = UnpaidRows(Owner[r], DefaultCurrency, None)
      BY <2>1 DEF UnpaidRows, Unpaid, Stored
    <3>2. \A x \in UnpaidRows(Owner[r], DefaultCurrency, None) : usage[x].amount \in Nat
      BY <1>0 DEF UnpaidRows, TypeOK, UsageRow
    <3> QED BY <2>1, <2>3, <3>1, <3>2 DEF Covers
  <2> QED BY <2>1, <2>2, <2>3, <2>4 DEF WallInv
<1>10. CASE WalletAccepts(r)
  <2>1. /\ pc[r] = "wallet" /\ pc'[r] = "commit" /\ chg'[r] = [chg[r] EXCEPT !.tx = lastTx + 1]
    BY <1>0, <1>2, <1>10 DEF WalletAccepts, Goto, SetCharge, TypeOK
  <2>2. /\ chg'[r].account = chg[r].account /\ chg'[r].currency = chg[r].currency
        /\ chg'[r].before = chg[r].before /\ chg'[r].rows = chg[r].rows
        /\ chg'[r].owed = chg[r].owed
    BY <1>0, <1>2, <2>1 DEF TypeOK, Charge
  <2> QED BY <1>4, <2>1, <2>2 DEF LeavesWall, Holding
<1>11. CASE Crash
  BY <1>2, <1>5, <1>11 DEF Crash, LeavesWall
<1> QED BY <1>0, <1>6, <1>7, <1>8, <1>9, <1>10, <1>11, RunMoves
     DEF ChargeStep, ChargeRead, Commit, WalletStep, WalletRejects, WalletReplyLost, CommitFails

\* While charges of an account and currency do not overlap, the last run of an
\* account to leave the instant billing wall leaves it blacklisted, or owing
\* less than the wall or less than Wallet can transfer, unless a fault ends
\* the run: applyInstantWall forgets no usage that was priced meanwhile.
THEOREM WallIsCharged == SerialCharges /\ Spec => LastRunChargesWall
<1> SUFFICES ASSUME SerialCharges PROVE Spec => LastRunChargesWall
  OBVIOUS
<1> DEFINE Charged == \A r \in Runs :
          (AtWall(r) /\ pc'[r] = "done" /\ faults' = faults /\ Wall[Owner[r]] # NoWall) =>
             \/ blacklisted'[Owner[r]]
             \/ Owed(Owner[r])' < Wall[Owner[r]] \/ Owed(Owner[r])' < Cent
             \/ \E q \in Runs \ {r} : Owner[q] = Owner[r] /\ AtWall(q)'
<1>1. ASSUME WallsInv, [Next]_vars PROVE Charged
  <2> SUFFICES ASSUME NEW r \in Runs, AtWall(r), pc'[r] = "done", faults' = faults,
                      Wall[Owner[r]] # NoWall
               PROVE  \/ blacklisted'[Owner[r]]
                      \/ Owed(Owner[r])' < Wall[Owner[r]] \/ Owed(Owner[r])' < Cent
                      \/ OtherAtWall(r)'
    BY DEF OtherAtWall
  <2> USE DEF ledger, external
  <2>0. /\ PromiseInv /\ SerialInv /\ TypeInv /\ TypeOK /\ NoOverlap /\ WallInv(r)
        /\ \A x \in Runs : RowInv(x) /\ WallInv(x)
        /\ r \in Procs /\ Owner[r] \in Accounts /\ Wall[Owner[r]] \in Nat
    BY <1>1, BillingAssumption DEF WallsInv, PromiseInv, SerialInv, TypeInv, Procs
  <2>1. PromiseInv' /\ TypeOK' /\ RowsShrink
    BY <1>1, <2>0, PromiseStep, TypeStep, ShrinkStep
  <2>2. pc[r] \in LeavesWall /\ usage[r].currency = DefaultCurrency
    BY DEF AtWall, LeavesWall
  <2>3. CASE ApplyInstantWall(r)
    <3>1. ~WallReached(Owner[r], DefaultCurrency) /\ usage' = usage
      BY <2>0, <2>2, <2>3 DEF ApplyInstantWall, Goto, TypeOK
    <3>2. Owed(Owner[r])' = Owed(Owner[r])
      BY <3>1 DEF Owed, UnpaidRows, Unpaid, Stored, Amounts
    <3>3. Owed(Owner[r]) \in Nat
      <4>1. /\ UnpaidRows(Owner[r], DefaultCurrency, None) \in SUBSET Runs
            /\ \A x \in Runs : Amounts[x] \in Nat
        BY <2>0 DEF UnpaidRows, Amounts, TypeOK, UsageRow
      <4> QED BY <4>1, SubsetOfRuns, TotalType DEF Owed
    <3> QED BY <2>0, <3>1, <3>2, <3>3 DEF WallReached, Owed
  <2>4. CASE ChargeRead(r)
    <3>1. pc[r] = "read" /\ usage' = usage /\ Snapshot(r).amount = 0
      BY <2>0, <2>4 DEF ChargeRead, Goto, TypeOK
    <3>2. /\ chg[r].account = Owner[r] /\ chg[r].currency = DefaultCurrency
          /\ chg[r].before = None
      BY <2>0, <3>1 DEF WallInv
    <3>3. Owed(Owner[r]) < Cent
      BY <2>0, <3>1, <3>2, NothingToTransfer DEF Owed
    <3>4. Owed(Owner[r])' = Owed(Owner[r])
      BY <3>1 DEF Owed, UnpaidRows, Unpaid, Stored, Amounts
    <3> QED BY <3>3, <3>4
  <2>5. CASE WalletRejects(r)
    <3>1. chg[r].account = Owner[r]
      BY <2>0, <2>5 DEF WallInv, WalletRejects
    <3> QED BY <2>0, <2>5, <3>1 DEF WalletRejects, Blacklist, TypeOK
  <2>6. CASE Commit(r)
    <3>1. /\ Holding(r) /\ \A x \in Runs : usage'[x].state = "priced" => usage[x].state = "priced"
      <4>1. Holding(r)
        BY <2>6 DEF Commit, Holding
      <4>2. ASSUME NEW x \in Runs, usage'[x].state = "priced", usage[x].state # "priced"
            PROVE  FALSE
        <5>1. RunStep(x) /\ pc'[x] = "wall" /\ chg' = chg
          BY <1>1, <2>0, <4>2, FreshRow
        <5>2. x # r
          BY <5>1
        <5>3. pc'[x] = pc[x]
          BY <2>0, <2>6, <5>2 DEF Commit, ChargeSucceeded, Goto, TypeOK
        <5>4. usage[x].state # "priced" /\ WallInv(x)
          BY <2>0, <4>2
        <5> QED BY <5>1, <5>3, <5>4 DEF WallInv, LeavesWall
      <4> QED BY <4>1, <4>2
    <3>2. NothingNew(Owner[r])
      BY <2>1, <3>1 DEF NothingNew, UnpaidRows, PromiseInv, SerialInv, RowInv
    <3>3. /\ \A x \in UnpaidRows(Owner[r], DefaultCurrency, None)' : usage'[x].amount > 0 =>
               /\ x \in UnpaidRows(Owner[r], DefaultCurrency, None)
               /\ usage'[x].amount <= usage[x].amount
          /\ Owed(Owner[r])' <= Owed(Owner[r])
          /\ Owed(Owner[r]) \in Nat /\ Owed(Owner[r])' \in Nat
      BY <2>0, <2>1, <3>2, OwedShrinks
    <3>4. CASE BelowWall(r)
      BY <2>0, <3>3, <3>4 DEF BelowWall
    <3>5. CASE OtherAtWall(r)
      <4>1. PICK q \in Runs \ {r} : Owner[q] = Owner[r] /\ AtWall(q)
        BY <3>5 DEF OtherAtWall
      <4>2. /\ q \in Procs /\ usage[q].state = "priced" /\ usage'[q].currency = usage[q].currency
        BY <2>0, <2>1, <4>1 DEF WallInv, AtWall, LeavesWall, RowsShrink, Procs
      <4>3. pc'[q] = pc[q]
        BY <2>0, <2>6, <4>1 DEF Commit, ChargeSucceeded, Goto, TypeOK, Procs
      <4> QED BY <4>1, <4>2, <4>3 DEF OtherAtWall, AtWall
    <3>6. CASE Covers(r)
      <4> DEFINE S == UnpaidRows(Owner[r], DefaultCurrency, None)'
      <4>1. S \in SUBSET Runs /\ \A x \in S : Unpaid(x)'
        BY DEF UnpaidRows
      <4>2. ASSUME NEW x \in S, usage'[x].amount > 0
            PROVE  /\ usage'[x].amount <= usage[x].amount /\ x \in chg[r].rows
                   /\ usage[x].amount <= chg[r].owed[x]
        <5>1. /\ x \in UnpaidRows(Owner[r], DefaultCurrency, None)
              /\ usage'[x].amount <= usage[x].amount
          BY <3>3, <4>2
        <5>2. usage[x].amount \in Nat /\ usage'[x].amount \in Nat
          BY <2>0, <2>1, <4>1 DEF TypeOK, UsageRow
        <5> QED BY <3>6, <4>2, <5>1, <5>2 DEF Covers
      <4>3. Owed(Owner[r])' = Total(Amounts', S)
        BY DEF Owed
      <4> HIDE DEF S
      <4>4. Total(Amounts', S) < Cent
        BY <2>0, <2>1, <2>6, <4>1, <4>2, CommitLeaves
      <4> QED BY <4>3, <4>4
    <3> QED BY <2>0, <3>1, <3>4, <3>5, <3>6 DEF WallInv
  <2>7. ~Crash /\ ~WalletReplyLost(r) /\ ~CommitFails(r)
    <3>1. faults \in Nat
      BY <2>0 DEF TypeOK
    <3> QED BY <3>1 DEF Crash, WalletReplyLost, CommitFails, Fault
  <2>8. ~WalletAccepts(r)
    BY <2>0 DEF WalletAccepts, Goto, TypeOK
  <2>9. RunStep(r) => ApplyInstantWall(r)
    BY <2>2 DEF LeavesWall, RunStep, Authorize, ReserveRow, CancelAuthorization,
       AbandonReservation, RecordUsage, ChargeAction
  <2>10. pc'[r] # pc[r]
    BY <2>2 DEF LeavesWall
  <2> QED BY <1>1, <2>0, <2>3, <2>4, <2>5, <2>6, <2>7, <2>8, <2>9, <2>10, RunMoves
       DEF ChargeStep, WalletStep
<1>2. WallsInv /\ [Next]_vars => WallsInv'
  BY WallStep
<1>3. WallsInv /\ [Next]_vars => [Charged]_vars
  BY <1>1
<1> QED BY WallsInit, <1>2, <1>3, PTL DEF Spec, LastRunChargesWall
=============================================================================
