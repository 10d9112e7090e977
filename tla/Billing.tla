------------------------------ MODULE Billing ------------------------------
(***************************************************************************)
(* The settlement side of internal/service/billing.go: usage rows, the     *)
(* instant billing wall, manual and daily settlement, and the Wallet call  *)
(* that sits between reading the unpaid rows and stamping them as paid.    *)
(*                                                                         *)
(* chargeAccount is three steps here because it is three steps there: a    *)
(* SELECT of the unpaid rows, a remote Wallet transfer, and a database     *)
(* transaction that works from the rows as they were first read.  Nothing  *)
(* in the code serialises two of them; SerialCharges = TRUE restricts the  *)
(* model to behaviours in which they happen not to overlap.                *)
(*                                                                         *)
(* Amounts are counted in the ledger's smallest unit; Cent of them make    *)
(* the smallest amount Wallet can transfer.                                *)
(***************************************************************************)
EXTENDS Integers, FiniteSets

CONSTANTS
    Accounts, Currencies, DefaultCurrency,
    Runs,           \* billable calls; a call and its BillingUsage row share a name
    Owner,          \* Owner[r] is the account that run r is billed to
    ModelCurrency,  \* ModelCurrency[r] is modelCurrency(def) of run r
    Prices,         \* the amounts price() may compute
    Cent,           \* ledger units in one Wallet unit (two decimal places)
    Wall,           \* Wall[a] is the resolved instant billing wall of account a
    Settlers,       \* concurrent SettleAccount requests
    None,
    SerialCharges,  \* TRUE: charges of one account and currency never overlap
    PromptPasses,   \* TRUE: a daily pass is over before the next midnight
    MaxDay,         \* bound on the UTC days that pass
    MaxFaults       \* bound on crashes, lost replies and failed commits

\* An unparsable wall normalises to the string "0", the only value that the
\* code takes for "no wall" (billing.go:215-217).
NoWall == -1

Daily == "runBillingSettlement"
Procs == Runs \cup Settlers \cup {Daily}
Keys  == Accounts \X Currencies

ASSUME BillingAssumption ==
    /\ DefaultCurrency \in Currencies
    /\ IsFiniteSet(Runs)
    /\ Owner \in [Runs -> Accounts]
    /\ ModelCurrency \in [Runs -> Currencies]
    /\ Prices \subseteq Nat
    /\ Cent \in Nat \ {0}
    /\ Wall \in [Accounts -> Nat \cup {NoWall}]
    /\ Runs \cap Settlers = {}
    /\ Daily \notin Runs \cup Settlers
    /\ None \notin Accounts \cup Currencies \cup Runs \cup Nat
    /\ SerialCharges \in BOOLEAN
    /\ PromptPasses \in BOOLEAN
    /\ MaxDay \in Nat
    /\ MaxFaults \in Nat

VARIABLES
    usage,          \* BillingUsage rows
    payments,       \* BillingPayment rows
    blacklisted,    \* BillingAccountPolicy.Blacklisted
    day,            \* the current UTC day
    wakeDay,        \* the midnight the settlement goroutine sleeps until
    pc,             \* where each process is
    chg,            \* the charge each process is making (its local variables)
    todo,           \* currencies or accounts a settlement loop has still to charge
    wallet,         \* external: what Wallet has debited, by account and currency
    lastTx,         \* external: the last transaction number Wallet gave out
    collected,      \* observer: how much of recorded payments went to each row
    due,            \* observer: what a SettleAccount call found priced and unpaid
    faults          \* observer: faults so far

ledger   == <<usage, payments, blacklisted>>
external == <<wallet, lastTx>>
vars     == <<ledger, day, wakeDay, pc, chg, todo, external, collected, due, faults>>

-----------------------------------------------------------------------------
(* Sums.  A total is the number of units the rows hold between them, so    *)
(* that its arithmetic is the arithmetic of cardinalities.                 *)

Units(f, S) == UNION {{r} \X (1..f[r]) : r \in S}
Total(f, S) == Cardinality(Units(f, S))

RowStates == {"absent", "reserved", "priced", "deleted"}
UsageRow  == [state: RowStates, currency: Currencies, amount: Nat,
              original: Nat, payment: Nat \cup {None}, day: Nat]
Payment   == [id: Nat, account: Accounts, currency: Currencies, amount: Nat]
Charge    == [account: Accounts \cup {None}, currency: Currencies \cup {None},
              before: Nat \cup {None}, rows: SUBSET Runs, owed: [Runs -> Nat],
              amount: Nat, tx: Nat]

Stored(r) == usage[r].state \in {"reserved", "priced"}
Unpaid(r) == Stored(r) /\ usage[r].payment = None
Amounts   == [r \in Runs |-> IF Stored(r) THEN usage[r].amount ELSE 0]
Originals == [r \in Runs |-> IF Stored(r) THEN usage[r].original ELSE 0]

\* before = None is the zero time.Time: no cutoff.
UnpaidRows(a, c, before) ==
    {r \in Runs : /\ Unpaid(r)
                  /\ Owner[r] = a
                  /\ usage[r].currency = c
                  /\ before # None => usage[r].day < before}

NoCharge == [account |-> None, currency |-> None, before |-> None, rows |-> {},
             owed |-> [r \in Runs |-> 0], amount |-> 0, tx |-> 0]

ChargeOf(a, c, before) ==
    [NoCharge EXCEPT !.account = a, !.currency = c, !.before = before]

Holding(p) == pc[p] \in {"wallet", "commit"}

-----------------------------------------------------------------------------
TypeOK ==
    /\ usage \in [Runs -> UsageRow]
    /\ payments \subseteq Payment
    /\ blacklisted \in [Accounts -> BOOLEAN]
    /\ day \in Nat
    /\ wakeDay \in Nat
    /\ pc \in [Procs -> {"new", "authorized", "running", "wall", "read", "wallet",
                         "commit", "loop", "idle", "done"}]
    /\ chg \in [Procs -> Charge]
    /\ todo \in [Procs -> SUBSET Keys]
    /\ wallet \in [Keys -> Nat]
    /\ lastTx \in Nat
    /\ collected \in [Runs -> Nat]
    /\ due \in [Settlers -> SUBSET Runs]
    /\ faults \in Nat

Init ==
    /\ usage = [r \in Runs |-> [state |-> "absent", currency |-> ModelCurrency[r],
                                amount |-> 0, original |-> 0, payment |-> None,
                                day |-> 0]]
    /\ payments = {}
    /\ blacklisted = [a \in Accounts |-> FALSE]
    /\ day = 0
    /\ wakeDay = 0
    /\ pc = [p \in Procs |-> IF p \in Runs THEN "new" ELSE "idle"]
    /\ chg = [p \in Procs |-> NoCharge]
    /\ todo = [p \in Procs |-> {}]
    /\ wallet = [k \in Keys |-> 0]
    /\ lastTx = 0
    /\ collected = [r \in Runs |-> 0]
    /\ due = [m \in Settlers |-> {}]
    /\ faults = 0

-----------------------------------------------------------------------------
(* Leaving chargeAccount.  A run ends; a settlement loop goes on with its   *)
(* next key, or gives up at the first error.                               *)

SetCharge(p, c) == chg' = [chg EXCEPT ![p] = c]

Goto(p, label) == pc' = [pc EXCEPT ![p] = label]

\* What a loop still needs: SettleAccount its account, SettleCompletedDays
\* its cutoff.
LoopLocals(p) == [NoCharge EXCEPT !.before = chg[p].before,
                                  !.account = IF p \in Settlers THEN chg[p].account ELSE None]

\* The settlement goroutine sleeps until the midnight after it finished.
NextMidnight == day + 1

ChargeSucceeded(p) ==
    /\ Goto(p, IF p \in Runs THEN "done" ELSE "loop")
    /\ SetCharge(p, LoopLocals(p))
    /\ UNCHANGED <<todo, wakeDay, due>>

ChargeFailed(p) ==
    /\ Goto(p, IF p \in Runs THEN "done" ELSE "idle")
    /\ SetCharge(p, NoCharge)
    /\ todo' = [todo EXCEPT ![p] = {}]
    /\ wakeDay' = IF p = Daily THEN NextMidnight ELSE wakeDay
    /\ due' = [m \in Settlers |-> IF m = p THEN {} ELSE due[m]]

-----------------------------------------------------------------------------
(* AuthorizeRun, AuthorizeAction: the policy is read first.  Limits and the  *)
(* wallet check only refuse; a refused call never leaves "new".             *)

Authorize(r) ==
    /\ pc[r] = "new"
    /\ ~blacklisted[Owner[r]]
    /\ Goto(r, "authorized")
    /\ UNCHANGED <<ledger, day, wakeDay, chg, todo, external, collected, due, faults>>

Row(state, currency, amount, payment, created) ==
    [state |-> state, currency |-> currency, amount |-> amount, original |-> amount,
     payment |-> payment, day |-> created]

\* The row that AuthorizeRun creates counts for nothing until it is priced.
ReserveRow(r) ==
    /\ pc[r] = "authorized"
    /\ usage' = [usage EXCEPT ![r] = Row("reserved", ModelCurrency[r], 0, None, day)]
    /\ Goto(r, "running")
    /\ UNCHANGED <<payments, blacklisted, day, wakeDay, chg, todo, external,
                   collected, due, faults>>

\* CancelAuthorization: the call never became a run.
CancelAuthorization(r) ==
    /\ pc[r] = "running"
    /\ usage' = [usage EXCEPT ![r].state = "deleted"]
    /\ Goto(r, "done")
    /\ UNCHANGED <<payments, blacklisted, day, wakeDay, chg, todo, external,
                   collected, due, faults>>

\* FailRun, and every autonomous run: the row is left as it was reserved.
AbandonReservation(r) ==
    /\ pc[r] = "running"
    /\ Goto(r, "done")
    /\ UNCHANGED <<ledger, day, wakeDay, chg, todo, external, collected, due, faults>>

\* price() answers in the model's currency, and 0 of the default currency
\* when the provider reported no usage or the model has no price.
Priced(r) == [currency : {ModelCurrency[r]}, amount : Prices]
             \cup {[currency |-> DefaultCurrency, amount |-> 0]}

RecordUsage(r) ==
    /\ pc[r] = "running"
    /\ \E price \in Priced(r) :
         usage' = [usage EXCEPT ![r] = Row("priced", price.currency, price.amount,
                                           usage[r].payment, usage[r].day)]
    /\ Goto(r, "wall")
    /\ UNCHANGED <<payments, blacklisted, day, wakeDay, chg, todo, external,
                   collected, due, faults>>

\* A billable action reserves nothing: its row is created with its price.
ChargeAction(r) ==
    /\ pc[r] = "authorized"
    /\ \E amount \in Prices \ {0} :
         usage' = [usage EXCEPT ![r] = Row("priced", DefaultCurrency, amount, None, day)]
    /\ Goto(r, "wall")
    /\ UNCHANGED <<payments, blacklisted, day, wakeDay, chg, todo, external,
                   collected, due, faults>>

\* applyInstantWall: only the default currency has a wall.
\* Mutant: a balance that equals the wall is let through.
WallPassed(a, c) ==
    /\ c = DefaultCurrency
    /\ Wall[a] # NoWall
    /\ Total(Amounts, UnpaidRows(a, c, None)) > Wall[a]

WallReached(a, c) ==
    /\ c = DefaultCurrency
    /\ Wall[a] # NoWall
    /\ Total(Amounts, UnpaidRows(a, c, None)) >= Wall[a]

ApplyInstantWall(r) ==
    LET a == Owner[r]
        c == usage[r].currency
    IN  /\ pc[r] = "wall"
        /\ IF WallReached(a, c)
             THEN /\ Goto(r, "read")
                  /\ SetCharge(r, ChargeOf(a, c, None))
             ELSE /\ Goto(r, "done")
                  /\ UNCHANGED chg
        /\ UNCHANGED <<ledger, day, wakeDay, todo, external, collected, due, faults>>

-----------------------------------------------------------------------------
(* chargeAccount.                                                          *)

\* floorCurrencyAmount: truncated to what Wallet can transfer, never rounded.
\* Mutant: rounded up.
CeilCurrencyAmount(total) == total + ((Cent - (total % Cent)) % Cent)

FloorCurrencyAmount(total) == total - (total % Cent)

\* With SerialCharges nobody else holds a snapshot of this account and currency.
MayRead(p) ==
    SerialCharges =>
        \A q \in Procs \ {p} : Holding(q) => \/ chg[q].account # chg[p].account
                                             \/ chg[q].currency # chg[p].currency

Snapshot(p) ==
    LET rows == UnpaidRows(chg[p].account, chg[p].currency, chg[p].before)
    IN  [chg[p] EXCEPT
           !.rows = rows,
           !.owed = [r \in Runs |-> IF r \in rows THEN usage[r].amount ELSE 0],
           !.amount = FloorCurrencyAmount(Total(Amounts, rows))]

ChargeRead(p) ==
    /\ pc[p] = "read"
    /\ MayRead(p)
    /\ IF Snapshot(p).amount = 0
         THEN ChargeSucceeded(p)
         ELSE /\ Goto(p, "wallet")
              /\ SetCharge(p, Snapshot(p))
              /\ UNCHANGED <<todo, wakeDay, due>>
    /\ UNCHANGED <<ledger, day, external, collected, faults>>

\* external: Wallet moves the money and answers with a transaction number.
Debit(p) ==
    /\ wallet' = [wallet EXCEPT ![<<chg[p].account, chg[p].currency>>] = @ + chg[p].amount]
    /\ lastTx' = lastTx + 1

WalletAccepts(p) ==
    /\ pc[p] = "wallet"
    /\ Debit(p)
    /\ Goto(p, "commit")
    /\ SetCharge(p, [chg[p] EXCEPT !.tx = lastTx + 1])
    /\ UNCHANGED <<ledger, day, wakeDay, todo, collected, due, faults>>

\* Any error from Wallet blacklists the account, a lost reply included.
Blacklist(a) == blacklisted' = [blacklisted EXCEPT ![a] = TRUE]

\* Mutant: the error is noted but the charge goes on to the commit.
WalletErrorIgnored(p) ==
    /\ pc[p] = "wallet"
    /\ Blacklist(chg[p].account)
    /\ Goto(p, "commit")
    /\ UNCHANGED <<usage, payments, day, wakeDay, chg, todo, external, collected,
                   due, faults>>

WalletRejects(p) ==
    /\ pc[p] = "wallet"
    /\ Blacklist(chg[p].account)
    /\ ChargeFailed(p)
    /\ UNCHANGED <<usage, payments, day, external, collected, faults>>

Fault == faults < MaxFaults /\ faults' = faults + 1

WalletReplyLost(p) ==
    /\ pc[p] = "wallet"
    /\ Fault
    /\ Debit(p)
    /\ Blacklist(chg[p].account)
    /\ ChargeFailed(p)
    /\ UNCHANGED <<usage, payments, day, collected>>

\* applyPaymentAllocation walks the snapshot in whatever order the database
\* returned it: some rows are covered in full, at most one in part, and the
\* walk stops when nothing is left.
Remaining(c, full) == c.amount - Total(c.owed, full)

Allocated(c, full, part) ==
    [r \in Runs |-> IF r \in full THEN c.owed[r]
                    ELSE IF r = part THEN Remaining(c, full) ELSE 0]

\* Mutant: the walk may stop while some of the payment is left.
LeakyAllocation(c, full, part) ==
    IF part = None THEN Remaining(c, full) >= 0
                   ELSE /\ part \notin full
                        /\ Remaining(c, full) > 0
                        /\ Remaining(c, full) < c.owed[part]

IsAllocation(c, full, part) ==
    IF part = None THEN Remaining(c, full) = 0
                   ELSE /\ part \notin full
                        /\ Remaining(c, full) > 0
                        /\ Remaining(c, full) < c.owed[part]

\* The covered row is stamped by id alone, and the remainder is computed from
\* the snapshot: neither looks at what the row holds by now.
\* Mutants: the stamp is forgotten; the remainder is forgotten.
Unstamped(row, id)    == row
DropRemainder(row, n) == [row EXCEPT !.amount = 0]

Stamped(row, id)      == [row EXCEPT !.payment = id]
KeepRemainder(row, n) == [row EXCEPT !.amount = n]

Settled(c, full, part) ==
    [r \in Runs |->
        IF ~Stored(r) THEN usage[r]
        ELSE IF r \in full THEN Stamped(usage[r], c.tx)
        ELSE IF r = part THEN KeepRemainder(usage[r], c.owed[r] - Remaining(c, full))
        ELSE usage[r]]

\* Mutant: the payment is recorded before truncation.
UntruncatedPayment(c) == [id |-> c.tx, account |-> c.account, currency |-> c.currency,
                          amount |-> Total(c.owed, c.rows)]

PaymentFor(c) == [id |-> c.tx, account |-> c.account, currency |-> c.currency,
                  amount |-> c.amount]

Commit(p) ==
    /\ pc[p] = "commit"
    /\ \E full \in SUBSET chg[p].rows, part \in chg[p].rows \cup {None} :
         /\ IsAllocation(chg[p], full, part)
         /\ usage' = Settled(chg[p], full, part)
         /\ collected' = [r \in Runs |-> collected[r] + Allocated(chg[p], full, part)[r]]
    /\ payments' = payments \cup {PaymentFor(chg[p])}
    /\ ChargeSucceeded(p)
    /\ UNCHANGED <<blacklisted, day, external, faults>>

\* The transaction fails (a cancelled request context is enough): the money
\* has moved and the ledger does not know.
CommitFails(p) ==
    /\ pc[p] = "commit"
    /\ Fault
    /\ ChargeFailed(p)
    /\ UNCHANGED <<ledger, day, external, collected>>

-----------------------------------------------------------------------------
(* SettleAccount: every currency of one account in turn, then the blacklist *)
(* is lifted.                                                              *)

UnpaidKeys(before) == {k \in Keys : UnpaidRows(k[1], k[2], before) # {}}

SettleStart(m) ==
    /\ pc[m] = "idle"
    /\ \E a \in Accounts :
         /\ SetCharge(m, [NoCharge EXCEPT !.account = a])
         /\ todo' = [todo EXCEPT ![m] = {k \in UnpaidKeys(None) : k[1] = a}]
         /\ due' = [due EXCEPT ![m] = {r \in Runs : /\ Unpaid(r)
                                                   /\ Owner[r] = a
                                                   /\ usage[r].amount > 0}]
    /\ Goto(m, "loop")
    /\ UNCHANGED <<ledger, day, wakeDay, external, collected, faults>>

SettleNext(m) ==
    /\ pc[m] = "loop"
    /\ \E k \in todo[m] :
         /\ SetCharge(m, ChargeOf(k[1], k[2], None))
         /\ todo' = [todo EXCEPT ![m] = @ \ {k}]
    /\ Goto(m, "read")
    /\ UNCHANGED <<ledger, day, wakeDay, external, collected, due, faults>>

\* Mutant: the blacklist is lifted before every currency was charged.
SettleClearEarly(m) ==
    /\ pc[m] = "loop"
    /\ blacklisted' = [blacklisted EXCEPT ![chg[m].account] = FALSE]
    /\ Goto(m, "idle")
    /\ SetCharge(m, NoCharge)
    /\ due' = [due EXCEPT ![m] = {}]
    /\ todo' = [todo EXCEPT ![m] = {}]
    /\ UNCHANGED <<usage, payments, day, wakeDay, external, collected, faults>>

SettleClear(m) ==
    /\ pc[m] = "loop"
    /\ todo[m] = {}
    /\ blacklisted' = [blacklisted EXCEPT ![chg[m].account] = FALSE]
    /\ Goto(m, "idle")
    /\ SetCharge(m, NoCharge)
    /\ due' = [due EXCEPT ![m] = {}]
    /\ UNCHANGED <<usage, payments, day, wakeDay, todo, external, collected, faults>>

-----------------------------------------------------------------------------
(* runBillingSettlement and SettleCompletedDays: at startup, then at each   *)
(* midnight after the previous pass ended.                                 *)

DailyStart ==
    /\ pc[Daily] = "idle"
    /\ day >= wakeDay
    /\ SetCharge(Daily, [NoCharge EXCEPT !.before = day])
    /\ todo' = [todo EXCEPT ![Daily] = UnpaidKeys(day)]
    /\ Goto(Daily, "loop")
    /\ UNCHANGED <<ledger, day, wakeDay, external, collected, due, faults>>

\* Mutant: blacklisted accounts are charged too.
DailyChargeAnyone ==
    /\ pc[Daily] = "loop"
    /\ \E k \in todo[Daily] :
         /\ SetCharge(Daily, ChargeOf(k[1], k[2], chg[Daily].before))
         /\ todo' = [todo EXCEPT ![Daily] = @ \ {k}]
    /\ Goto(Daily, "read")
    /\ UNCHANGED <<ledger, day, wakeDay, external, collected, due, faults>>

DailyCharge ==
    /\ pc[Daily] = "loop"
    /\ \E k \in todo[Daily] :
         /\ ~blacklisted[k[1]]
         /\ SetCharge(Daily, ChargeOf(k[1], k[2], chg[Daily].before))
         /\ todo' = [todo EXCEPT ![Daily] = @ \ {k}]
    /\ Goto(Daily, "read")
    /\ UNCHANGED <<ledger, day, wakeDay, external, collected, due, faults>>

DailySkip ==
    /\ pc[Daily] = "loop"
    /\ \E k \in todo[Daily] :
         /\ blacklisted[k[1]]
         /\ todo' = [todo EXCEPT ![Daily] = @ \ {k}]
    /\ UNCHANGED <<ledger, day, wakeDay, pc, chg, external, collected, due, faults>>

DailyDone ==
    /\ pc[Daily] = "loop"
    /\ todo[Daily] = {}
    /\ wakeDay' = NextMidnight
    /\ Goto(Daily, "idle")
    /\ SetCharge(Daily, NoCharge)
    /\ UNCHANGED <<ledger, day, todo, external, collected, due, faults>>

-----------------------------------------------------------------------------
Midnight ==
    /\ day < MaxDay
    /\ PromptPasses => pc[Daily] = "idle" /\ wakeDay > day
    /\ day' = day + 1
    /\ UNCHANGED <<ledger, wakeDay, pc, chg, todo, external, collected, due, faults>>

\* The process dies and starts again: rows stay, every call in progress is
\* gone, and the startup catch-up is due.
Crash ==
    /\ Fault
    /\ pc' = [p \in Procs |-> IF p \notin Runs THEN "idle"
                              ELSE IF pc[p] = "new" THEN "new" ELSE "done"]
    /\ chg' = [p \in Procs |-> NoCharge]
    /\ todo' = [p \in Procs |-> {}]
    /\ wakeDay' = 0
    /\ due' = [m \in Settlers |-> {}]
    /\ UNCHANGED <<ledger, day, external, collected>>

RunStep(r) ==
    \/ Authorize(r) \/ ReserveRow(r) \/ CancelAuthorization(r)
    \/ AbandonReservation(r) \/ RecordUsage(r) \/ ChargeAction(r)
    \/ ApplyInstantWall(r)

ChargeStep(p) == ChargeRead(p) \/ Commit(p)

WalletStep(p) == WalletAccepts(p) \/ WalletRejects(p)

FaultStep == Crash \/ \E p \in Procs : WalletReplyLost(p) \/ CommitFails(p)

SettleStep(m) == SettleStart(m) \/ SettleNext(m) \/ SettleClear(m)

DailyStep == DailyStart \/ DailyCharge \/ DailySkip \/ DailyDone

Next ==
    \/ \E r \in Runs : RunStep(r)
    \/ \E p \in Procs : ChargeStep(p) \/ WalletStep(p)
    \/ \E m \in Settlers : SettleStep(m)
    \/ DailyStep
    \/ Midnight
    \/ FaultStep

Spec == Init /\ [][Next]_vars

-----------------------------------------------------------------------------
(* Fairness.  The goroutines run, Wallet answers every call one way or the  *)
(* other, and midnight comes; runs and requests need not be made at all.   *)

Fairness ==
    /\ \A p \in Procs : WF_vars(ChargeStep(p)) /\ WF_vars(WalletStep(p))
    /\ \A m \in Settlers : WF_vars(SettleNext(m)) /\ WF_vars(SettleClear(m))
    /\ WF_vars(DailyStep)
    /\ WF_vars(Midnight)

FairSpec == Spec /\ Fairness

-----------------------------------------------------------------------------
(* Properties.                                                             *)

PaymentAmount      == [pay \in payments |-> pay.amount]
PaymentsOf(k)      == {pay \in payments : <<pay.account, pay.currency>> = k}
RowsOf(k)          == {r \in Runs : <<Owner[r], usage[r].currency>> = k}
CommittingOf(k)    == {p \in Procs : pc[p] = "commit"
                                     /\ <<chg[p].account, chg[p].currency>> = k}
ChargeAmount       == [p \in Procs |-> chg[p].amount]

\* Every payment in the ledger is money that Wallet moved: whatever crashes,
\* is lost or overlaps, recorded payments never exceed the debits.
PaymentsBacked ==
    \A k \in Keys : Total(PaymentAmount, PaymentsOf(k)) <= wallet[k]

\* Every payment is handed out to usage rows to the last unit, and a row that
\* is marked paid points at a recorded payment of its own account.
PaymentsAllocated ==
    /\ \A a \in Accounts :
         Total(PaymentAmount, {pay \in payments : pay.account = a})
            = Total(collected, {r \in Runs : Owner[r] = a})
    /\ \A r \in Runs : Stored(r) /\ ~Unpaid(r) =>
         \E pay \in payments : pay.id = usage[r].payment /\ pay.account = Owner[r]

\* Both at once: the ledger's payments stand between what Wallet moved and what
\* the usage rows say was collected, and are lost or invented towards neither.
PaymentsAccounted == PaymentsBacked /\ PaymentsAllocated

\* SettleAccount lifts the blacklist only after everything that was priced and
\* unpaid when it was called is paid, but for less than one Wallet unit per
\* currency.
SettleRestoresOnlyPaid ==
    [][\A a \in Accounts : blacklisted[a] /\ ~blacklisted'[a] =>
          \E m \in Settlers :
             /\ chg[m].account = a
             /\ \A c \in Currencies :
                  Total(Amounts, {r \in due[m] : Unpaid(r) /\ usage[r].currency = c})
                     < Cent]_vars

\* A row that is still unpaid owes exactly its price less what was collected
\* for it: truncation to cents and partial coverage lose nothing.
UnpaidRowsExact ==
    \A r \in Runs : Unpaid(r) => collected[r] + usage[r].amount = usage[r].original

\* No row is ever charged for more than its price.
NeverOvercollected == \A r \in Runs : collected[r] <= usage[r].original

\* The debits that Wallet made are the recorded payments and the transfers
\* about to be recorded, nothing else.
ReconciledWithWallet ==
    \A k \in Keys :
        wallet[k] = Total(PaymentAmount, PaymentsOf(k)) + Total(ChargeAmount, CommittingOf(k))

\* "chargeAccount settles all eligible unpaid rows atomically": Wallet never
\* debits an account for more than its usage was priced at.  The code does not
\* keep this when two settlements overlap.
ChargedWithinUsage ==
    \A k \in Keys : wallet[k] <= Total(Originals, RowsOf(k))

Owed(a) == Total(Amounts, UnpaidRows(a, DefaultCurrency, None))

\* The run's row counts for the wall and the run has not dealt with it yet.
AtWall(r) ==
    /\ pc[r] \in {"wall", "read", "wallet", "commit"}
    /\ usage[r].currency = DefaultCurrency

\* The last run of an account to leave the instant billing wall leaves the
\* account blacklisted, or owing less than the wall or less than Wallet can
\* transfer, unless a fault ends the run: usage that was priced while another
\* run's charge was under way is not forgotten.
LastRunChargesWall ==
    [][\A r \in Runs :
          (AtWall(r) /\ pc'[r] = "done" /\ faults' = faults /\ Wall[Owner[r]] # NoWall) =>
             \/ blacklisted'[Owner[r]]
             \/ Owed(Owner[r])' < Wall[Owner[r]] \/ Owed(Owner[r])' < Cent
             \/ \E q \in Runs \ {r} : Owner[q] = Owner[r] /\ AtWall(q)']_vars

\* Usage of a completed day worth at least one Wallet unit is eventually
\* charged, or its account blocked.  A failing account ends the pass for all
\* the others, so this takes as many midnights as there are accounts.
Collectable(k) ==
    /\ ~blacklisted[k[1]]
    /\ Total(Amounts, UnpaidRows(k[1], k[2], day)) >= Cent

CompletedDaysSettle ==
    \A k \in Keys :
        (Collectable(k) /\ day + Cardinality(Accounts) <= MaxDay) ~> ~Collectable(k)

-----------------------------------------------------------------------------
(* What settlement promises an account, seen from outside.                  *)

Promise == INSTANCE BillingPromise WITH
    used    <- [k \in Keys |-> Total(Originals, RowsOf(k))],
    charged <- wallet

KeepsPromise == Promise!Spec

=============================================================================
