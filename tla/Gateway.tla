------------------------------- MODULE Gateway -------------------------------
(***************************************************************************)
(* The two generation endpoints that are not chats: the OpenAI-compatible  *)
(* completion (plain and streamed, service/openai_compatible.go) and the   *)
(* native response (service/responses.go), with what decides whether a     *)
(* call is let in - the account's policy, its wallet, its hourly and daily *)
(* usage limits (service/billing.go) and the AI credential it may carry    *)
(* (service/openai_credentials.go) - and what is written down afterwards.  *)
(*                                                                         *)
(* Every call is of one account.  A call is as many steps as it has        *)
(* database statements that other calls, an editor of the policy or a      *)
(* revocation can come between.  The limit checks and the insertion of the *)
(* reserved row are one step: a reserved row counts for nothing until it   *)
(* is priced.  Charging the account (the instant wall, settlement) is      *)
(* module Billing; here a settlement only writes off what rows still owe.  *)
(***************************************************************************)
EXTENDS Integers, FiniteSets

CONSTANTS
    Calls,
    Streams,        \* the completions that stream
    Responses,      \* the calls that are response turns; the others are completions
    Credentials,
    Credential,     \* Credential[c]: the AI credential of call c, or None
    Limit,          \* Limit[k]: UsageLimit of credential k, 0 for none
    Currency,       \* Currency[k]: UsageCurrency of credential k
    ModelCurrency,  \* ModelCurrency[c]: modelCurrency(def) of call c
    Paid,           \* the calls whose model has a price
    Prices,         \* what one round of a paid model may cost
    HourlyLimit,    \* configured limits in ModelCurrency, 0 for none
    DailyLimit,
    HoursPerDay,
    Editors,        \* concurrent edits of the policy
    Walls, Hourlies,\* the spending quotas and hourly limits that are set
    SerialEdits,    \* TRUE: edits of the policy never overlap
    None,
    MaxRounds,      \* bound on the rounds of one call
    MaxChanges,     \* bound on edits, settlements, revocations, forgotten wallets and hours
    MaxFaults       \* bound on broken connections and failed statements

RunStatus == {"running", "failed", "requires_action", "completed"}

ASSUME GatewayAssumption ==
    /\ IsFiniteSet(Calls)
    /\ Streams \subseteq Calls /\ Responses \subseteq Calls \ Streams
    /\ Credential \in [Calls -> Credentials \cup {None}]
    /\ \A c \in Responses : Credential[c] = None
    /\ Limit \in [Credentials -> Nat]
    /\ Prices \subseteq Nat
    /\ HourlyLimit \in Nat /\ DailyLimit \in Nat
    /\ HoursPerDay \in Nat \ {0}
    /\ Walls \subseteq Nat /\ Hourlies \subseteq Nat
    /\ SerialEdits \in BOOLEAN
    /\ None \notin Calls \cup Credentials \cup BOOLEAN \cup Nat \cup RunStatus
    /\ MaxRounds \in Nat /\ MaxChanges \in Nat /\ MaxFaults \in Nat

VARIABLES
    policy,         \* the account's BillingAccountPolicy row
    draft,          \* draft[e]: the edit that editor e makes and the row it read, or None
    walletCache,    \* BillingService.walletCache: TRUE, FALSE, or None
    hour,           \* the current UTC hour
    row,            \* BillingUsage row of each call
    credential,     \* OpenAIAccessCredential rows
    item,           \* OpenAICredentialUsage row of each call: its amount, or None
    lock,           \* lock[k]: the call whose transaction holds credential k's row
    pc,             \* where each call is
    local,          \* each call's local variables
    run,            \* ConversationRun.Status of each response, None before it exists
    answer,         \* the responses whose assistant message is stored
    seen,           \* observer: rows priced, and items written, when a call was let in
    spent,          \* observer: what the provider's rounds of a call cost together
    hit,            \* observer: the calls a fault has hit
    changes, faults \* observers: changes and faults so far

account == <<policy, draft, walletCache>>
keys    == <<credential, item, lock>>
turns   == <<run, answer>>
bounds  == <<changes, faults>>
vars == <<account, hour, row, keys, pc, local, turns, seen, spent, hit, bounds>>

-----------------------------------------------------------------------------
Units(f, S) == UNION {{c} \X (1..f[c]) : c \in S}
Total(f, S) == Cardinality(Units(f, S))

\* A limit is inherited from the configuration unless the policy stores one (of
\* the two limits, the hourly one is edited here).
Policy == [blacklisted: BOOLEAN, hourly: Nat \cup {None}, wall: Nat]
Row    == [state: {"absent", "reserved", "priced"}, original: Nat, amount: Nat, hour: Nat]
Access == [live: BOOLEAN, used: Nat]
Local  == [hourly: Nat, rounds: Nat, usage: Nat, used: Nat, handoff: BOOLEAN]

EditKinds == {"quota", "put", "blacklist", "clear"}

Ended   == {"answered", "refused", "failed", "withheld", "gone"}
Working == {"identify", "access", "credential", "policy", "wallet", "admit", "build",
            "round", "record", "spend", "save", "store", "close"}

TypeOK ==
    /\ policy \in Policy
    /\ draft \in [Editors -> [kind: EditKinds, row: Policy] \cup {None}]
    /\ walletCache \in BOOLEAN \cup {None}
    /\ hour \in Nat
    /\ row \in [Calls -> Row]
    /\ credential \in [Credentials -> Access]
    /\ item \in [Calls -> Nat \cup {None}]
    /\ lock \in [Credentials -> Calls \cup {None}]
    /\ pc \in [Calls -> Working \cup Ended]
    /\ local \in [Calls -> Local]
    /\ run \in [Calls -> RunStatus \cup {None}]
    /\ answer \subseteq Calls
    /\ seen \in [Calls -> [rows: SUBSET Calls, items: SUBSET Calls]]
    /\ spent \in [Calls -> Nat]
    /\ hit \subseteq Calls
    /\ changes \in Nat
    /\ faults \in Nat

Init ==
    /\ policy \in [blacklisted: BOOLEAN, hourly: {None}, wall: {0}]
    /\ draft = [e \in Editors |-> None]
    /\ walletCache = None
    /\ hour = 0
    /\ row = [c \in Calls |-> [state |-> "absent", original |-> 0, amount |-> 0, hour |-> 0]]
    /\ credential = [k \in Credentials |-> [live |-> TRUE, used |-> 0]]
    /\ item = [c \in Calls |-> None]
    /\ lock = [k \in Credentials |-> None]
    /\ pc = [c \in Calls |-> "identify"]
    /\ local = [c \in Calls |-> [hourly |-> 0, rounds |-> 0, usage |-> 0, used |-> 0,
                                 handoff |-> FALSE]]
    /\ run = [c \in Calls |-> None]
    /\ answer = {}
    /\ seen = [c \in Calls |-> [rows |-> {}, items |-> {}]]
    /\ spent = [c \in Calls |-> 0]
    /\ hit = {}
    /\ changes = 0
    /\ faults = 0

Goto(c, label) == pc' = [pc EXCEPT ![c] = label]

Change == changes < MaxChanges /\ changes' = changes + 1

-----------------------------------------------------------------------------
(* Who calls.  A sat_ token names a live credential, anything else is the   *)
(* gateway's account.  A turn that submits tool outputs needs a response    *)
(* that waits for some; one that only continues it needs it to exist.       *)

Identify(c) ==
    /\ pc[c] = "identify"
    /\ c \notin Responses
    /\ IF Credential[c] # None /\ ~credential[Credential[c]].live
       THEN Goto(c, "refused")
       ELSE Goto(c, "access")
    /\ UNCHANGED <<account, hour, row, keys, local, turns, seen, spent, hit, bounds>>

MayContinue(previous, outputs) ==
    IF previous = None THEN ~outputs ELSE outputs => previous = "requires_action"

\* previous is the status of the run that the turn names, None when it names
\* none.  That status never changes again: the outputs of one response may be
\* submitted any number of times.
ExecuteResponse(c) ==
    /\ pc[c] = "identify"
    /\ c \in Responses
    /\ \E previous \in RunStatus \cup {None}, outputs \in BOOLEAN :
          Goto(c, IF MayContinue(previous, outputs) THEN "policy" ELSE "refused")
    /\ UNCHANGED <<account, hour, row, keys, local, turns, seen, spent, hit, bounds>>

-----------------------------------------------------------------------------
(* Leaving early.  A completion that owns its reserved row deletes it; a    *)
(* response leaves the row and marks its run as failed.                     *)

CancelAuthorization(c) == row' = [row EXCEPT ![c].state = "absent"]
FailRun(c)             == run' = [run EXCEPT ![c] = "failed"]

\* The same without the deferred deletion.
GiveUpKeepingRow(c, label) ==
    /\ Goto(c, label)
    /\ run' = IF c \in Responses THEN [run EXCEPT ![c] = "failed"] ELSE run
    /\ UNCHANGED row

GiveUp(c, label) ==
    /\ Goto(c, label)
    /\ IF c \in Responses
       THEN FailRun(c) /\ UNCHANGED row
       ELSE CancelAuthorization(c) /\ UNCHANGED run

CheckAccess(c) ==
    /\ pc[c] = "access"
    /\ IF policy.blacklisted
       THEN GiveUp(c, IF c \in Responses THEN "failed" ELSE "refused")
       ELSE Goto(c, IF c \in Responses THEN "round" ELSE "credential")
            /\ UNCHANGED <<row, run>>
    /\ UNCHANGED <<account, hour, keys, local, answer, seen, spent, hit, bounds>>

-----------------------------------------------------------------------------
(* The agent and model must resolve and messages be there; the credential   *)
(* must still be live, its quota not used up, and the agent, provider and   *)
(* model within its lists.  What the request names is data: any verdict.    *)

UsedUp(k) == Limit[k] > 0 /\ credential[k].used >= Limit[k]

AuthorizeCredential(c) ==
    /\ pc[c] = "credential"
    /\ LET k == Credential[c] IN
         \/ /\ k # None => credential[k].live /\ ~UsedUp(k)
            /\ Goto(c, "policy")
         \/ Goto(c, "refused")
    /\ seen' = [seen EXCEPT ![c].items = {d \in Calls : item[d] # None
                                                        /\ Credential[d] = Credential[c]}]
    /\ UNCHANGED <<account, hour, row, keys, local, turns, spent, hit, bounds>>

-----------------------------------------------------------------------------
(* AuthorizeRun: the policy is read, a paid model needs a wallet - asked    *)
(* for once and remembered, found or not, for ten minutes; a check that     *)
(* fails refuses the call and is not remembered - and what the              *)
(* account used in this hour and this day must be below its limits.         *)

ReadPolicy(c) ==
    /\ pc[c] = "policy"
    /\ IF policy.blacklisted
       THEN Goto(c, "refused")
       ELSE Goto(c, IF c \in Paid THEN "wallet" ELSE "admit")
    /\ local' = [local EXCEPT ![c].hourly =
                    IF policy.hourly = None THEN HourlyLimit ELSE policy.hourly]
    /\ UNCHANGED <<account, hour, row, keys, turns, seen, spent, hit, bounds>>

RequirePaymentWallet(c) ==
    /\ pc[c] = "wallet"
    /\ \/ /\ walletCache' \in IF walletCache = None THEN BOOLEAN ELSE {walletCache}
          /\ Goto(c, IF walletCache' THEN "admit" ELSE "refused")
       \/ walletCache = None /\ UNCHANGED walletCache /\ Goto(c, "refused")
    /\ UNCHANGED <<policy, draft, hour, row, keys, local, turns, seen, spent, hit, bounds>>

WalletCacheExpires ==
    /\ walletCache # None
    /\ Change
    /\ walletCache' = None
    /\ UNCHANGED <<policy, draft, hour, row, keys, pc, local, turns, seen, spent, hit, faults>>

Day(h) == h \div HoursPerDay

\* Rows with a currency, from a time on, paid or not: what was asked for them.
OwedAmount(rows) == Total([d \in Calls |-> row[d].amount], rows)
UsedAmount(rows) == Total([d \in Calls |-> row[d].original], rows)

Priced(c) == {d \in Calls : row[d].state = "priced" /\ ModelCurrency[d] = ModelCurrency[c]}
ThisHour(c) == {d \in Priced(c) : row[d].hour >= hour}
ThisDay(c)  == {d \in Priced(c) : Day(row[d].hour) >= Day(hour)}

BelowLimit(rows, limit) == limit = 0 \/ UsedAmount(rows) < limit

AdmitRun(c) ==
    /\ pc[c] = "admit"
    /\ IF /\ BelowLimit(ThisHour(c), local[c].hourly)
          /\ BelowLimit(ThisDay(c), DailyLimit)
       THEN /\ row' = [row EXCEPT ![c].state = "reserved", ![c].hour = hour]
            /\ seen' = [seen EXCEPT ![c].rows = Priced(c)]
            /\ Goto(c, IF c \in Responses THEN "build" ELSE "round")
            /\ run' = IF c \in Responses THEN [run EXCEPT ![c] = "running"] ELSE run
       ELSE Goto(c, "refused") /\ UNCHANGED <<row, seen, run>>
    /\ UNCHANGED <<account, hour, keys, local, answer, spent, hit, bounds>>

\* The request and every tool output are stored, and the prompt is built from
\* the log (module Conversation); any of it may fail.
BuildModelMessages(c) ==
    /\ pc[c] = "build"
    /\ \/ Goto(c, "access") /\ UNCHANGED <<row, run>>
       \/ GiveUp(c, "failed")
    /\ UNCHANGED <<account, hour, keys, local, answer, seen, spent, hit, bounds>>

-----------------------------------------------------------------------------
(* The rounds.  Server-owned calls are run and the model is asked again;    *)
(* a credential has no server tools.  A round with a client-owned call, or  *)
(* without calls, is the last, and the usage that is priced is that round's.*)

RoundCost(c) == IF c \in Paid THEN Prices ELSE {0}

ServerToolRound(c) ==
    /\ pc[c] = "round"
    /\ Credential[c] = None
    /\ local[c].rounds + 1 < MaxRounds
    /\ \E cost \in RoundCost(c) : spent' = [spent EXCEPT ![c] = @ + cost]
    /\ local' = [local EXCEPT ![c].rounds = @ + 1]
    /\ UNCHANGED <<account, hour, row, keys, pc, turns, seen, hit, bounds>>

Finish(c) ==
    /\ pc[c] = "round"
    /\ \E cost \in RoundCost(c), handoff \in IF c \in Responses THEN BOOLEAN ELSE {FALSE} :
          /\ spent' = [spent EXCEPT ![c] = @ + cost]
          /\ local' = [local EXCEPT ![c].usage = cost, ![c].handoff = handoff]
    /\ Goto(c, "record")
    /\ UNCHANGED <<account, hour, row, keys, turns, seen, hit, bounds>>

GenerationFails(c) ==
    /\ pc[c] = "round"
    /\ GiveUp(c, "failed")
    /\ UNCHANGED <<account, hour, keys, local, answer, seen, spent, hit, bounds>>

AfterRecord(c) ==
    CASE Credential[c] # None -> "spend"
      [] c \in Responses      -> "store"
      [] OTHER                -> "answered"

Price(c) == row' = [row EXCEPT ![c] = [@ EXCEPT !.state = "priced",
                          !.original = local[c].usage, !.amount = local[c].usage]]

RecordUsage(c) ==
    /\ pc[c] = "record"
    /\ Price(c)
    /\ Goto(c, AfterRecord(c))
    /\ UNCHANGED <<account, hour, keys, local, turns, seen, spent, hit, bounds>>

\* The instant wall is reached and its charge fails: a response only logs that,
\* a completion ends with the error, and its credential is not charged.
WallChargeFails(c) ==
    /\ pc[c] = "record"
    /\ Price(c)
    /\ Goto(c, IF c \in Responses THEN "store" ELSE "withheld")
    /\ UNCHANGED <<account, hour, keys, local, turns, seen, spent, hit, bounds>>

-----------------------------------------------------------------------------
(* The credential's quota, in one transaction that reads the row FOR        *)
(* UPDATE and saves it whole.  A completion whose use cannot be recorded,   *)
(* or exceeds the quota, withholds the answer; a stream has sent it.        *)

Deliver(c, recorded) ==
    Goto(c, IF recorded \/ c \in Streams THEN "answered" ELSE "withheld")

\* The same without FOR UPDATE.
ReadCredential(c) ==
    LET k == Credential[c] IN
    /\ pc[c] = "spend"
    /\ IF credential[k].live /\ Currency[k] = ModelCurrency[c]
       THEN local' = [local EXCEPT ![c].used = credential[k].used] /\ Goto(c, "save")
       ELSE Deliver(c, FALSE) /\ UNCHANGED local
    /\ UNCHANGED <<account, hour, row, keys, turns, seen, spent, hit, bounds>>

LockCredential(c) ==
    LET k == Credential[c] IN
    /\ pc[c] = "spend"
    /\ lock[k] = None
    /\ IF credential[k].live /\ Currency[k] = ModelCurrency[c]
       THEN /\ lock' = [lock EXCEPT ![k] = c]
            /\ local' = [local EXCEPT ![c].used = credential[k].used]
            /\ Goto(c, "save")
       ELSE Deliver(c, FALSE) /\ UNCHANGED <<lock, local>>
    /\ UNCHANGED <<account, hour, row, credential, item, turns, seen, spent, hit, bounds>>

SaveCredential(c) ==
    LET k == Credential[c]
        total == local[c].used + local[c].usage
    IN
    /\ pc[c] = "save"
    /\ credential' = [credential EXCEPT ![k] = [live |-> TRUE, used |-> total]]
    /\ item' = [item EXCEPT ![c] = local[c].usage]
    /\ lock' = [lock EXCEPT ![k] = None]
    /\ Deliver(c, Limit[k] = 0 \/ total <= Limit[k])
    /\ UNCHANGED <<account, hour, row, local, turns, seen, spent, hit, bounds>>

\* An UPDATE of the same row waits for the transaction that holds it.
RevokeCredential(k) ==
    /\ Change
    /\ credential[k].live
    /\ lock[k] = None
    /\ credential' = [credential EXCEPT ![k].live = FALSE]
    /\ UNCHANGED <<account, hour, row, item, lock, pc, local, turns, seen, spent, hit, faults>>

-----------------------------------------------------------------------------
(* The end of a response: the assistant message, with the calls it makes,   *)
(* and then the run.                                                        *)

StoreAnswer(c) ==
    /\ pc[c] = "store"
    /\ answer' = answer \cup {c}
    /\ Goto(c, "close")
    /\ UNCHANGED <<account, hour, row, keys, local, run, seen, spent, hit, bounds>>

SaveRun(c) ==
    /\ pc[c] = "close"
    /\ run' = [run EXCEPT ![c] = IF local[c].handoff THEN "requires_action" ELSE "completed"]
    /\ Goto(c, "answered")
    /\ UNCHANGED <<account, hour, row, keys, local, answer, seen, spent, hit, bounds>>

-----------------------------------------------------------------------------
(* Editing the account's policy: the row is read, changed and saved whole.  *)
(* Nothing in the code keeps two edits apart; SerialEdits = TRUE restricts  *)
(* the model to behaviours in which they happen not to overlap.             *)

\* The owner's spending quota, an administrator's form (which may or may not
\* say blacklisted), Billing's blacklisting after a failed charge, and the two
\* ways that one is lifted.
SetFreshQuota(p)      == {[blacklisted |-> FALSE, hourly |-> None, wall |-> w] : w \in Walls}
SetMySpendingQuota(p) == {[p EXCEPT !.wall = w] : w \in Walls}
PutBillingAccount(p)  == {[blacklisted |-> b, hourly |-> h, wall |-> w] :
                             b \in BOOLEAN, h \in {p.hourly} \cup Hourlies, w \in Walls}
Blacklist(p)          == {[p EXCEPT !.blacklisted = TRUE]}
ClearBlacklist(p)     == {[p EXCEPT !.blacklisted = FALSE]}

Edited(kind, p) ==
    CASE kind = "quota"     -> SetMySpendingQuota(p)
      [] kind = "put"       -> PutBillingAccount(p)
      [] kind = "blacklist" -> Blacklist(p)
      [] kind = "clear"     -> ClearBlacklist(p)

ReadPolicyRow(e) ==
    /\ draft[e] = None
    /\ SerialEdits => \A other \in Editors : draft[other] = None
    /\ Change
    /\ \E kind \in EditKinds : draft' = [draft EXCEPT ![e] = [kind |-> kind, row |-> policy]]
    /\ UNCHANGED <<policy, walletCache, hour, row, keys, pc, local, turns, seen, spent, hit,
                   faults>>

UpsertAccountPolicy(e) ==
    /\ draft[e] # None
    /\ policy' \in Edited(draft[e].kind, draft[e].row)
    /\ draft' = [draft EXCEPT ![e] = None]
    /\ UNCHANGED <<walletCache, hour, row, keys, pc, local, turns, seen, spent, hit, bounds>>

\* A settlement leaves what was asked for a row and takes what is still owed.
Settle ==
    /\ Change
    /\ \E c \in Calls : row[c].amount > 0
    /\ row' = [c \in Calls |-> [row[c] EXCEPT !.amount = 0]]
    /\ UNCHANGED <<account, hour, keys, pc, local, turns, seen, spent, hit, faults>>

HourPasses ==
    /\ Change
    /\ hour' = hour + 1
    /\ UNCHANGED <<account, row, keys, pc, local, turns, seen, spent, hit, faults>>

-----------------------------------------------------------------------------
(* A connection that breaks, or a process that dies: what the call has not  *)
(* written stays unwritten - deleting its row and failing its run as well - *)
(* and an open transaction is rolled back.                                  *)

Fault(c) == /\ faults < MaxFaults /\ faults' = faults + 1
            /\ hit' = hit \cup {c}

Disconnect(c) ==
    /\ pc[c] \in Working
    /\ Fault(c)
    /\ Goto(c, "gone")
    /\ lock' = [k \in Credentials |-> IF lock[k] = c THEN None ELSE lock[k]]
    /\ UNCHANGED <<account, hour, row, credential, item, local, turns, seen, spent, changes>>

\* A response only logs that its usage could not be recorded; a completion
\* that cannot write its usage fails, and leaves its row as it was reserved.
RecordUsageFails(c) ==
    /\ pc[c] = "record"
    /\ Fault(c)
    /\ Goto(c, IF c \in Responses THEN "store" ELSE "gone")
    /\ UNCHANGED <<account, hour, row, keys, local, turns, seen, spent, changes>>

-----------------------------------------------------------------------------
CallStep(c) ==
    \/ Identify(c) \/ ExecuteResponse(c) \/ CheckAccess(c) \/ AuthorizeCredential(c)
    \/ ReadPolicy(c) \/ RequirePaymentWallet(c) \/ AdmitRun(c) \/ BuildModelMessages(c)
    \/ ServerToolRound(c) \/ Finish(c) \/ GenerationFails(c)
    \/ RecordUsage(c) \/ WallChargeFails(c)
    \/ LockCredential(c) \/ SaveCredential(c) \/ StoreAnswer(c) \/ SaveRun(c)

Next ==
    \/ \E c \in Calls : CallStep(c) \/ Disconnect(c) \/ RecordUsageFails(c)
    \/ \E k \in Credentials : RevokeCredential(k)
    \/ \E e \in Editors : ReadPolicyRow(e) \/ UpsertAccountPolicy(e)
    \/ WalletCacheExpires
    \/ Settle
    \/ HourPasses

Spec == Init /\ [][Next]_vars

-----------------------------------------------------------------------------
Items(k) == {c \in Calls : Credential[c] = k /\ item[c] # None}
Amount   == [c \in Calls |-> IF item[c] = None THEN 0 ELSE item[c]]

\* A credential's used quota is exactly what its usage rows add up to, and
\* each of them is a priced row of the account's ledger with the same amount:
\* no concurrent recording is lost, none is made twice
\* (openai_credentials.go:183-228).
UsedIsRecorded ==
    /\ \A k \in Credentials : credential[k].used = Total(Amount, Items(k))
    /\ \A c \in Calls : item[c] # None => row[c].state = "priced" /\ row[c].original = item[c]

\* Once revoked, a credential stays revoked and is charged nothing more, though
\* calls it let in are still going on and each saves the whole row.
RevokedStaysRevoked ==
    [][\A k \in Credentials : ~credential[k].live => UNCHANGED credential[k]]_vars

\* No call is let in on top of a used-up hour or day of its account, or of a
\* used-up credential: what had been recorded by then was below every limit,
\* whether it has been paid in the meantime or not (billing.go:349-389,
\* openai_credentials.go:159-161).
Original == [c \in Calls |-> row[c].original]
AdmittedBelowLimits ==
    \A c \in Calls : row[c].state # "absent" =>
        LET sameHour == {d \in seen[c].rows : row[d].hour = row[c].hour}
            sameDay  == {d \in seen[c].rows : Day(row[d].hour) = Day(row[c].hour)}
            k        == Credential[c]
        IN
        /\ local[c].hourly > 0 => Total(Original, sameHour) < local[c].hourly
        /\ DailyLimit > 0 => Total(Original, sameDay) < DailyLimit
        /\ k # None => Limit[k] = 0 \/ Total(Amount, seen[c].items) < Limit[k]

\* Unless a fault hit it, a call that ended is on the ledger as it ended: an
\* answer, given or withheld, has its price; a completion that gave none left
\* no row; a failed response left a row that asks for nothing; and a response
\* that waits for tool outputs, or is complete, has stored what it said.
LedgerMatchesOutcome ==
    \A c \in Calls \ hit :
        /\ pc[c] \in {"answered", "withheld"} => row[c].state = "priced"
        /\ pc[c] = "answered" /\ Credential[c] # None /\ c \notin Streams => item[c] # None
        /\ pc[c] \in {"refused", "failed"} =>
              /\ row[c].original = 0 /\ item[c] = None
              /\ row[c].state = "reserved" => run[c] = "failed"
        /\ c \in Responses /\ pc[c] \in Ended => run[c] # "running"
        /\ run[c] \in {"requires_action", "completed"} => c \in answer

\* While edits of the policy do not overlap, an account that was blacklisted is
\* let in again only by an edit that says so (handler/billing.go:149-181,
\* billing_admin.go:59-126).
BlacklistingStands ==
    [][SerialEdits /\ policy.blacklisted /\ ~policy'.blacklisted =>
          \E e \in Editors : draft[e] # None /\ draft[e].kind \in {"put", "clear"}]_vars

\* What a request is billed for is everything its rounds cost
\* (openai_compatible.go:103-106).
WholeRequestBilled == \A c \in Calls : pc[c] = "answered" => row[c].original >= spent[c]
=============================================================================
