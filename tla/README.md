# PersonalityCore: a verification project

TLA+ modules, TLC configurations and TLAPS proofs about the Go service in `src/`: the Solar Network
agent runtime. Every definition is translated from the code; `PROJECT.json` names, for each one, the
lines it stands for. What follows says what the system is made of, what of it is modelled and how,
what each check shows, and what is left.

Paths below are relative to `src/internal/` unless they begin with `src/`, `docs/` or `README.md`
(of the repository).

## 1. Inventory

The service is one Go process over one Postgres database. It serves HTTP and gRPC, keeps one
websocket per chat-integrated agent, and runs several tickers. Nothing serialises two requests on the
same row: there are few transactions, almost no row locks, and gorm's `Save` writes back every column
of the row a request read earlier (and *inserts* the row when the update finds none, a deleted one
included). Most of what is hard in this code comes from that, from remote calls made between a read
and the write that depends on it, and from goroutines that nobody waits for.

| Component | State | Operations | Talks to | Hard behaviour | What makes it correct |
|---|---|---|---|---|---|
| **Usage billing** `service/billing.go`, `app/billing.go` | `billing_usages`, `billing_payments`, `billing_account_policies`, `billing_actions` | reserve, cancel, record and price; instant wall; `SettleAccount`; daily pass; blacklist | Wallet (gRPC), every run | transfer between the read and the stamp of rows; crash or lost reply in between; two charges at once; truncation to cents | nobody pays more than the usage; no unit of a price is lost; payments agree with Wallet; a debtor is blocked |
| **Billing admission and account policy** `service/billing.go` (authorize, limits), `handler/billing*.go` | policies, wallet-presence cache | usage limits, quotas, administrators' edits | billing, perks | read-modify-save of a policy against `Blacklist`; a wallet answer cached | limits hold; a blacklisting is not undone |
| **AI credentials** `service/openai_credentials.go` | credentials, their usage rows | create, revoke, authenticate, record | OpenAI-compatible API | quota recorded after the call it limits; revocation during a call | a revoked key is refused; quota counted once |
| **OpenAI-compatible API and responses** `service/openai_compatible.go`, `responses.go` | stored runs, waiting for tool outputs or not | complete, stream, create a response, submit outputs | conversations, billing, credentials | a connection that breaks anywhere; one step of several failing | the ledger says how each call ended |
| **Conversation log** `service/conversation.go`, `chat_tools.go`, `conversation_groups.go`, `usage.go` | threads (title, group, skills, summary), messages, runs, groups | create run, add message, tool loop, compaction, window, complete/fail, delete, group | model provider, humanizer, billing, tools | whole-row saves from stale copies; sequence numbers by read-then-write; compaction between queries; crash inside a tool round | the log only grows; prompts are well formed and complete; no column is undone; runs end |
| **Skills and tool lists** `service/skills.go`, `chat_tools.go`, `perk.go` | the skills a thread has activated, the caller's overrides | offer, list, activate | the tool loop, perks | rules in four places that must agree | no name twice; nothing blocked offered; what is listed can be used |
| **Client-side tools** `service/conversation.go` 1046-1130, `chat_tools.go` 700-850 | process-wide map of waiters | emit call, wait, submit result, time out, cancel | the SSE stream, a second HTTP request | the answer races registration, timer and deletion | an answer reaches its own call; no waiter leaks; the run ends |
| **Scheduled tasks** `service/scheduled_tasks.go`, `task_scheduler.go` | `scheduled_tasks` | create, update, delete, reset; check, run, save | autonomous runs | batches run from copies that are minutes old; whole-row saves; deadlines; limit 20 | no task that looks scheduled is dead; once means once; only wanted tasks run |
| **Solar chat ingestion** `solar_network/manager.go`, `service/solar_debounce.go`, `solar.go`; **shutdown** `app/app.go` | websocket, room boundaries, debounce batches, bindings | push, catch-up, debounce, flush, bind, run, send, stop | Solar REST and websocket, conversations | timers racing messages; reconnects; boundaries moved by several hands; batch dropped on error; a stop that races the timers | no message multiplied, none skipped, none left behind |
| **Solar rooms: engagement, sends and wakes** `service/solar.go`, `autonomous*.go`, `surf*.go` | bindings (conversation, engaged until), last wakes (memory) | mention, engage, end, send, periodic wake, trigger | conversations, Solar | a binding read, changed and saved whole by runs and wakes at once; reply mode decided from a row read twice | a mention is answered; an agent does not stay engaged without cause; a room keeps its conversation |
| **Humanizer: memory and affinity** `humanize/*.go`, `service/memory*.go` | memories, the older state row | observe, confirm, supersede, pin, reset | conversations, groups | look-up and save without a transaction; two stores of one fact | one fact per key; retention is kept; a reset forgets |
| **Web search** `websearch/*.go`, `webindex/*.go`, `service/web_search*.go` | result cache, index, hosts' slots, robots policies | search, merge, fall back, read pages, charge | engines, billing | a cache shared by all accounts; engines that fail in part; pace of a host across searches | an account pays what answered it, sees its engine's results, and hosts are asked politely |
| **Registry, executor, context window, configuration** `agent/*.go`, `config/config.go`, `service/perk.go` | immutable after start, but for what discovery found | resolve a model, its modalities, window and limits | all | names in several spellings; settings in several places | the rule of the documentation decides |
| Solar REST client; HTTP and gRPC transport; identity, reports, audit; attachment images; terminal client | stateless or local | | | none over time | see section 8 |

How they interact: every run, whoever starts it (HTTP, a scheduled task, a Solar batch, a wake), goes
through the conversation log, reserves and records usage in billing, and may call tools that write
tasks, memories, skills and titles into rows which the run itself holds a copy of.

## 2. Plan

The order puts money first, then the log every run goes through, then the schedulers of work, then
what the runs act on, and last the pure decisions.

| # | Module | Composes / implements | Runs | State |
|---|---|---|---|---|
| 1 | `Billing`, `BillingPromise`, `BillingProofs` | `Billing` implements `BillingPromise` | `billing_*` | done |
| 2 | `Conversation`, `ConversationLog`, `ConversationProofs` | `Conversation` implements `ConversationLog` | `conversation_*` | done |
| 3 | `ClientCalls`, `ClientTools`, `RoomsAndToolsProofs` | the wait inside a tool round of `Conversation` | `clienttools` | done |
| 4 | `ScheduledTasks`, `ScheduledTasksProofs` | | `tasks` | done |
| 5 | `SolarInbound`, `SolarInboundProofs` | debouncer, connection and stop in one | `inbound` | done |
| 6 | `Gateway`, `GatewayProofs` | policy, credential, ledger and stored runs in one | `gateway` | done |
| 7 | `SolarRooms`, `RoomsAndToolsProofs` | batches, wakes and triggers on one binding | `rooms` | done |
| 8 | `Memory`, `MemoryProofs` | both stores of facts | `memory` | done |
| 9 | `WebSearch`, `SearchAlgorithms`, `WebSearchProofs` | the search over the algorithms | `websearch` | done |
| 10 | `ToolCatalogue`, `ModelAccess`, `RunUsage` | pure; checked by named assumptions | with `clienttools`, `gateway`, `conversation_serial` | done |

What is left, in order of worth: the types of `SolarInbound` and `WebSearch` as theorems; the mood
and the relationship of the humanizer; several agents in `SolarRooms`.

## 3. Modules, and how they correspond to the code

Three conventions hold throughout. A step is what the code does between two points where another
goroutine, request or process can act: one database call, one remote call, one section under a mutex.
What a request keeps in local variables across such points is a variable of the model (`chg`, `copy`,
`local`, `draft`, `job`), because acting on it when it is stale is the usual way this code goes wrong.
Operators whose comment begins with *Mutant* belong to no specification; each is a plausible bug of a
definition near it, and shows that the properties notice it. `MC*` modules hold the values of
constants, symmetries and the checks of pure operators.

### Billing (`Billing.tla`)

`Authorize`/`ReserveRow`/`CancelAuthorization`/`AbandonReservation`/`RecordUsage` are a run's path
through its usage row. `ChargeAction` and `ApplyInstantWall` decide whether the run settles at once.
`SettleStart`/`SettleNext`/`SettleClear` are `SettleAccount`; `DailyStart`...`DailyDone` the pass that
runs at startup and after every midnight. `chargeAccount` is three steps because it is three in the
code: `ChargeRead` (SELECT and sum, truncated by `FloorCurrencyAmount`), the Wallet call
(`WalletAccepts`, `WalletRejects`, `WalletReplyLost`), and `Commit` or `CommitFails`, the transaction
that stamps rows by id from the values first read. Which rows are covered in full and which in part
is any allocation the loop can compute for some order of the rows (`IsAllocation`), since the query
names none. Amounts are integers in the ledger's smallest unit, `Cent` of them one Wallet unit. Wallet
is external: it debits or refuses, and its answer may be lost.

`SerialCharges = TRUE` restricts behaviours to those in which two charges of one account and currency
do not overlap. The code does not enforce it. It is what the exact properties need; section 6 says
what happens without.

### Gateway (`Gateway.tla`)

The generation endpoints that are not chats. A call is admitted in the order of the code:
`Identify` or `ExecuteResponse`, `CheckAccess`, `AuthorizeCredential`, `ReadPolicy`,
`RequirePaymentWallet`, `AdmitRun` (the limit queries and the reserved row in one step, because a
reserved row counts for nothing). It then runs rounds (`ServerToolRound`, `Finish`, `GenerationFails`),
prices its row (`RecordUsage`), and answers through the credential's transaction
(`ReadCredential`, `LockCredential`, `SaveCredential`) or through the stored run (`StoreAnswer`,
`SaveRun`). `GiveUp` is every early return with what it cancels. Around it the account is edited:
`ReadPolicyRow`/`UpsertAccountPolicy` are the read and the whole-row save of any of its four edits
(quota, an administrator's put, blacklist, clear); `Settle` pays what is owed, `WallChargeFails` is the
instant charge that Wallet refuses; `RevokeCredential`; `WalletCacheExpires`; `HourPasses`. `Disconnect` and
`RecordUsageFails` are the faults. `SerialEdits` plays the part of `SerialCharges` for policy edits.

### Conversation (`Conversation.tla`)

One thread row and everybody who works on it. A process reads the row (`GetConversation`), stores
messages in three steps (`ReadSequence`, `CreateMessage`, `SaveThread`), and saves the *whole* copy
each time. A run compacts (`CountMessages`, `FindCutoff`, `Summarize`, `SaveSummary`), selects its
window (`SelectWindow`), and loops through tool rounds (`EnterToolLoop`, `ModelCallsTools`,
`ToolReturns`, `SetConversationTitle`, `ActivateSkill`) to `ModelAnswers`, `CompleteRun`,
`FinishRun`, or `FailRun`. `DeleteConversation`, `SetConversationGroup` and
`DeleteConversationGroup` are the account's own edits. `Cancelled` ends a request whose context is
done, `Crash` ends them all.

A summary is the set of messages it was made from: what is abstracted is the wording, and
`trimCompactedSummary`, which keeps the last 5000 runes of it. `Rendered`/`KeptCalls` are what
`buildModelMessages` makes of a window: results without their call and calls without a result are
dropped. Autonomous runs store a "system" message that no user sees and are left out. Ids of tool
calls are taken to be unique. `SerialRequests` plays the part of `SerialCharges`. `RunUsage` is the
count of tokens over rounds, runs and a conversation.

### Client-side tools (`ClientCalls.tla`, `ClientTools.tla`)

`ClientCalls` has the state and how each call is to be settled, `ClientTools` the steps. A run emits a call, registers a waiter, waits, and leaves by result, timer or cancellation. `Submit`
is one step because the lookup and the non-blocking send happen under one mutex; `Receive` and
`Leave` are two because receiving from the channel and the deferred delete are. Posts are delayed,
reordered and repeated; a client may never answer.

### Skills and tools (`ToolCatalogue.tla`)

Pure operators over names: `AutoLoadedSkills`, `StaticSkills`, `BuildToolInfos`,
`FilterSolarOutboundTools`, `ApplyCallerOverrides`, `ConversationToolInfos`, `CallerServerTools`,
`NamespaceClientTools`, `RejectToolNameCollisions`, `ListSkills`, `ActivateSkill` and
`LoadExtraTools` are the functions of these names. Lists stay sequences, because a provider refuses a
name that is there twice and what prevents it is part of the code.

### Scheduled tasks (`ScheduledTasks.tla`)

`Fetch` is the due query (earliest first, limit `Batch`), `StartRun`/`RunSucceeds`/`RunFails` one
run, `SaveTask` the `Save` of the copy that was fetched, with the context of the check, which may have
expired. `GetTask` and `UpdateTask`/`DeleteTask` are the read and the write of an edit.
`ResetAgentMemories` is the part of the reset that deletes tasks. Time is counted in checks (30 s).
`overlapped` observes whether an edit was open, or begun, while a check was going on; properties that
hold only without such an overlap say so in their antecedent.

### Solar ingestion and the stop (`SolarInbound.tla`)

A message is its place in Solar's history. `Connect`, `ReadHistory`, `ReplayMessage`, `EndCatchUp`,
`HandlePacket`, `Disconnect` are the connection loop: subscribe, catch up every tracked room from the
boundary noted at the connect, then serve. `Enqueue`, `Fire`, `FlushStale`, `FlushBatch` are the
debouncer: `Fire` is the start of the timer's goroutine, which then waits for the lock with the `seq`
it was armed for. `FindBinding`, `CreateBinding`, `SendBotMessage`, `BindSent`, `RunEnds`,
`RunFails` are a batch in the hands of that goroutine. `Restart` comes back with the boundaries of the
database. `taken` and `lost` observe how often a message was given to the debouncer and which
messages were in a batch that failed.

`Stop`, `FlushAll` and `StopLinks` are `App.Stop`: the stopping goroutine takes each room's batch in
turn, stops its timer, which may have fired already, and handles the batch itself; the first that
fails ends the flush, and then the connections are closed, whatever goroutines still hold.

### Rooms and wakes (`SolarRooms.tla`)

One agent's bindings: for each room its conversation and until when it is engaged. A batch
(`BatchArrives`, `FindBinding`, `SaveBinding`, `StartRun`, `ReadReplyMode`) is bound, extends or opens
the window of its group if it mentions the agent or the window is open, and runs with `force_allow`,
`allow` or `suppress`; then the run sends (`Send`, `MarkRoom`, which files the room under the
sender's conversation and extends its window) or ends its engagement (`EndEngagement`). `WakeStarts`,
`WakeRoom`, `WakeEnds` are the periodic wake over the listed bindings (the list may fail to be read, and each room
be skipped); `TriggerByThread`, `TriggerByRoom`, `TriggerByAccount` what an operator and the surf scheduler ask
for. Rows are read and saved whole; a row saved as new where there is one by now is `Refused` by the unique index,
and what its run had to say is dropped. `homes` observes which rooms were ever bound to a conversation.
`OneAtATime` (a room's batch waits for the one before it) and `OwnRoomOnly` (a run sends into its own
room) restrict behaviours in the way `SerialCharges` does.

### Memory (`Memory.tla`)

A fact has a key and a content. A job is a tool's save, a post, the observation of a message, or a
prompt: `ReadState`, `FindExisting`, then `ReobserveFact`, or `SupersedeFact` and `CreateFact`, and
`SaveState` into the older row of `agent_human_states`. `ListLongTerm`/`RefillFact` are the prompt that finds no row
and writes the older row's facts back. `ForgetMemory`, `SetConversationGroup`,
`DeleteConversationGroup` and `ResetAgentMemories` are the account's. `JobFails` is a statement that fails and
ends its job there, `Crash` ends them all: both leave a superseded fact without the one that was to replace it.
`overlapped` observes whether two jobs met on a key or an edit met a job.

### Web search (`WebSearch.tla`, `SearchAlgorithms.tla`)

`SearchWeb` reads the account's preference; `Get` looks into the cache, where a hit costs
nothing; `EngineAnswers` asks the engines in turn; `Merge` or `SearchIndex`, `ReadPages`,
`StoreAnswer` (`CacheSet`, which evicts), `ChargeEngine` one by one, `Deliver`. A page is read by
`LookupRobots`, `FetchRobots`, `WaitForHost`, `DirectRead`, `CancelWait`, where a wait takes the next
free slot of the host under its mutex. `sent` has the page reads only: the request for robots.txt takes no slot
(section 6). `Restart` brings another configuration and an empty cache.
`SearchAlgorithms` has the pure parts: merging by rank, judging an engine's rows, robots groups and
rules, and fitting a query's operators under DeepSeek's cap. `MCWebSearch` compares each with a
definition that says what it is for.

### Models and access (`ModelAccess.tla`)

Which agent and model a request names (`ResolveOpenAIAgentModel`, `ResolveModel`), whether a level
may use it (`IsModelBlocked`, `ResolvePerkLimits`, `ResolveMaxCompletionTokens`), whether a credential's scopes allow
it (`ValidateCredentialScopes`, `WithinScopes`), what it takes in (`SupportsVision`,
`SupportsModality`) and how long its context is (`ContextWindow` and what it is looked up in). A text
is the sequence of what stands between its slashes, each segment a word and its spelling.

## 4. Runs and what they show

Each property's comment says what it means; this is what each run is for. Sizes are distinct states.
All runs are expected to pass.

| Run | Shows | Size |
|---|---|---|
| `billing_serial` | the ledger is exact to the unit, agrees with Wallet, implements `BillingPromise`; a settlement that lifts a blacklisting has been paid; the last run at the wall charges what is owed or blocks | 0.53 M |
| `billing_faults` | charges overlap and one crash, lost reply or failed commit strikes: no payment without a transfer, each payment equals what it covers | 1.5 M |
| `billing_daily` | liveness: usage of a completed day is charged or the account blocked, though one failing account ends the pass for the others | small |
| `gateway` | a completion, a stream and a response with an edit, a revocation or a fault in between: quota counted once, limits hold, a revoked credential stays revoked, a blacklisting stands, and the ledger says how each call ended | 0.50 M |
| `conversation_serial` | append-only log, complete and well-formed prompts, honest summaries, no tool's or group's write undone, with a crash or a cancelled request at any step | 0.52 M |
| `conversation_overlap` | two runs interleave freely: calls and results stay paired; no run is left running | 0.70 M |
| `clienttools` | an answer reaches its own call, no waiter leaks; liveness: the run ends whoever answers | 0.1 M |
| `tasks` | stale saves never leave an enabled pending task without a time; without overlap once is once, only wanted tasks run, intervals are kept | 3.3 M |
| `inbound` | every gathering batch has its timer or is flushed by the stop; no message is multiplied; none is skipped but those of failed batches | 1.2 M |
| `rooms` | a mention is not suppressed, a group's window is no longer than its latest cause allows, a group once bound keeps its conversation, with batch, wakes and a trigger interleaved | 2.5 M |
| `memory` | saves never supersede each other away; without overlap one fact per key, retention follows it, a reset forgets | 2.4 M |
| `websearch` | charges are for live answers and complete, results are of the account's engine, the page reads at a host keep its pace | 1.2 M |

The pure operators are checked by named assumptions that TLC evaluates when it starts on the
module: in `MCClientTools` the rules of the catalogue (`EachToolOnce`, `BlockedSkillsStayOut`,
`OutboundStaysInSolar`, `OverridesTakeNoMore`, `ListedSkillsDeliver`, `CatalogueGrows`,
`CallersToolsApart`, `CallersSkillsRefused`), in `MCGateway` those of names and access
(`OneTextOrTwo`, `TakenRequestsParse`, `BlockedInEverySpelling`, `TokensByOrder`, `ScopesBind`,
`ProvidersBind`, `AskedOnce`, `LongestPresetDecides`, `DeclaredModalitiesDecide`), in
`MCConversation` the token count (`ConversationAddsUp`), in `MCWebSearch` the algorithms
(`MergedByRank`, `RulesOfOurGroups`, `DelayOnlyGroupGoesOn`, `LongestRuleDecides`, `QueryFits`).

### Bounds, and why they are enough

- *Billing.* Two or three usage rows, prices 1 and 3 with `Cent = 2`: an amount below one Wallet unit, one
  with a remainder, and sums of both, so every outcome of truncation (nothing, exact, remainder on a
  row) occurs. The wall 3 lies between one run and two. Two currencies in the serial run because
  `SettleAccount` loops over them; two accounts in the daily run because one's failure ends the pass
  for the other. One fault: each property is about what one lost step can do, and the state it leaves
  is one from which the rest goes on. `MaxDay = 3` leaves each of the two accounts its midnight.
- *Gateway.* One call of each kind, two of them on one credential, so that two recordings of its quota
  meet; a price of 1 against limits of 1 and 2, so that one call exhausts the hour and the credential
  and two the day; two rounds, because only a call with tools has a second; two hours to a day, so
  that the hour can pass with and without the day. One change and one fault.
- *Conversation.* Two runs, a note and a forced compaction, a window of two messages: several
  compactions on one another, and windows that begin inside a tool round. The window's size may differ
  from prompt to prompt (perk levels limit it); the serial run also passes
  with sizes 1 and 2 mixed and no groups; with both it is three times as long. Two tool calls per round in the serial run
  so that results can be missing, misplaced or split by the window. One fault at any step.
- *Client tools.* Three calls by one run, two posts each: a post can be early, late by one or two
  calls, second, or missing. Waiters of different runs have different keys and share nothing else;
  that any number of runs is safe is proved (section 5).
- *Tasks.* One task of each kind, batches of two, an interval of one or two checks, one editor, one
  deadline or restart. An edit that comes too close to a check is an overlap, and one is enough for it.
- *Solar ingestion.* Three messages, the agent's included, two flushing goroutines and the one that
  stops, two broken connections and one restart or stop: a message in each place (socket, replay, batch,
  goroutine) while another one moves the room's boundary. One room suffices for the debouncer, since batches are
  keyed by room, and it begins unknown, so that its binding is created. A stop is tried before any
  connection broke.
- *Rooms.* A group that may be bound and a direct message that is not yet; one batch, with a mention or
  without; two periodic wakes (`Interval` 2 within `MaxTime` 2) and one trigger; a window of 2 that can
  expire; one call of each run that sends or ends an engagement, made while the others hold the row.
- *Memory.* One fact with two contents and one group, two jobs: a correction meets a
  repetition, another correction, an observation or a prompt; three rows because two corrections of
  one fact make three; one edit, failure or crash. Keys share no row, only the older state row, whose facts are one
  per key.
- *Web search.* A free engine and a priced one, one query, two pages: lists that agree, differ and
  are empty. Two searches, so that the second meets the first in the cache (room for one
  entry, a lifetime of one tick) and in the wait for the host; a delay of the configuration (1) and one of the
  robots.txt (2). One change: another configuration at a restart, or another preference.

`CHECK_DEADLOCK FALSE` is set everywhere: each model has finitely many requests, and the system may
rest when they are done. Symmetry is used over interchangeable requests, keys and goroutines, in runs
without liveness.

### Fairness

- `billing_daily`: weak fairness of the goroutines' own steps, of Wallet answering one way or the
  other (the call has a deadline), and of midnight. Runs and requests need not be made.
  `PromptPasses` says a pass ends before the next midnight: with a pass longer than a day the code skips a
  day (section 6), and the property is not about that.
- `clienttools`: weak fairness of the service's own steps, its timer included, and of the model
  answering. Nothing is assumed of clients.

The other runs check safety only; in them any process may stop for good at any step.

## 5. Proofs

All proofs hold for every value of the constants that satisfies the module's named assumption, so for
any number of requests, rows, rounds, faults and edits. Every safety and action property of section 4
is proved. `TypeOK` is defined in every module and proved for all but `SolarInbound` and `WebSearch`, whose
invariants prove the types their arguments need; a type alone is in no run's list of properties.

**`BillingProofs`.** `TypeCorrect`: `Spec => []TypeOK`, by the invariant `TypeInv` (`TypeOK` and
`ChargesNamed`: a process that is charging has an account and a currency). That amounts stay natural
numbers is not a matter of form: `Commit` subtracts what a payment leaves over, and the lemma
`SettledType` needs the allocation's own condition. The others rest on four invariants, each on top
of the one before or beside it:

- `SerialInv`, under `SerialCharges`, for `LedgerExact` (an unpaid row owes its price less what was
  collected for it) and `NothingOvercollected`. Neither is inductive: a charge works from the rows as
  they were *before* the Wallet call. It adds `RowInv`, the ledger's bookkeeping of one row;
  `SnapshotInv`, that between a charge's read and its commit every row it remembers as worth
  something is still priced, unpaid and worth just that; and `NoOverlap`, that two charges in that
  position differ in account or currency. Actions that touch neither a row nor a snapshot are `Quiet`.
- `MoneyInv`, with charges overlapping in any way, for `DebitsReconciled`: what Wallet debited is
  what is recorded plus what is `InTransit` (`WithinDebits`), because transaction ids are new and each is held once
  (`OwnNumbers`). With `HandedOut` (what an account paid is what its rows collected), `OwnRows` and
  `OwnPayments` it is `AllocInv`, for `PaymentsAlwaysAccounted`. Both are about sums over sets that
  grow by one member, which the section *Sums* reduces to cardinalities of disjoint unions.
- `PromiseInv` (`SerialInv`, `MoneyInv`, `AllPayable`, `PaidIsCollected`) for `PromiseKept`, the
  refinement of `BillingPromise`: each step of `Billing` is one of the promise's or changes neither
  what was used nor what was charged.
- `RestoreInv` for `RestoresOnlyPaid`: `SettlerInv` follows a settlement through its loop over
  currencies, each still to do, being charged, or left with less than one Wallet unit
  (`SettledOrToCharge`). `WallsInv` for `WallIsCharged`: a run that charges at the wall covers all
  that is owed, or the account is below its wall, or another run is at the wall (`WallInv`).

**`GatewayProofs`.** `SpecTypeOK`, `SpecUsedIsRecorded` (a credential's used quota is the sum of its usage rows,
each of them a priced row of the ledger with the same amount) and `SpecRevokedStaysRevoked`. The
invariant `IInv` adds `Keyed` (a call at the credential has one), `LockHeld` (who is between the
locked read and the save holds the row as it is) and `Pending` (what is about to be recorded is
priced, and not recorded yet). Sums are cardinalities of sets of units, and the lemmas on them are
about adding and exchanging one call's units. `SpecLedgerMatchesOutcome` needs `Stages`: at each place of
the code, the state of the call's row, of its stored run, of its item and of its answer, so that an
early return anywhere leaves what its outcome says. `SpecAdmittedBelowLimits` needs `AdmitInv`: the rows and items
a call was let in with stay priced and recorded, and their prices, hours and days do not change, so what the
limit queries summed once is still what those rows are worth (`Steady`). `SpecBlacklistingStands`:
under `SerialEdits` the one edit under way holds the policy as it is (`Alone`).

**`ConversationProofs`.** `SpecTypeOK`, whose invariant `TypeInv` needs that a round that goes on has
calls left (`LocalsSound`; `NextCall` chooses one) and that messages are finite and bounded (so that
`LastSequence` is a number). With requests, deletions and stale saves overlapping in any way:

- `SpecNoRunLeftRunning`. `Tracked` says which places of the code come before the run's row (`Before`) and which come after it saw
  its conversation (`Late`); while a run is `Late`, a conversation that is gone took the run's row with
  it, which is why the early return of `CompleteRun` leaves nothing behind; `CopiesAlive`, that no
  held row is a deleted one, is why a save can only bring a conversation back.
- `SpecPromptPairsCalls`. `Rendered` and `KeptCalls` drop what has no counterpart in the window, so the
  pairing is by construction; that it is one to one and in order is not. `PairInv` says that no call is in two
  messages, none is answered twice, and a result has a higher number than its call (`Paired`), also when two
  requests give the same number to different messages; and that what a run has yet to call or to answer is
  not in the conversation (`Made`, `Ahead`).

Under `SerialRequests`:

- `SpecSummaryHonest`, `SpecFiledUnderLiveGroup` and `SpecToolWritesKept`, by `SerialInv`: the one
  request that works (`Alone`) holds the row as it is, but for a summary it has not saved yet (`Holds`),
  a number it is about to give lies past all messages, a cutoff it works with does not, and a summary is never ahead of
  the last message (`Honest`), so that what is stored later is never taken for summarized.
- `SpecContextComplete`, by `NumberInv`: messages are numbered 1 to as many as there are (`Numbered`), and
  a request between its compaction and its window has all messages but the last `limit` in the summary
  it holds (`Near`). So cutoff, summary and window meet exactly (`WindowIsTheEnd`, `PromptIsWhole`).
- `SpecKeepsLog`, the refinement of `ConversationLog`, from the same invariant: a stored message is one more
  entry (`LogSays`), a prompt recalls all that was said (`LogRecalls`), and every other step deletes,
  forgets or stutters (`LogDeletes`, `LogForgets`).
- `SpecResultsFollowCalls`, by `RoundInv`, which joins `PairInv` and `NumberInv`: the results that came are those
  of the round's first calls, each as many places behind the call message as its place in the round (`Follows`),
  and what a run still has to answer are the round's other calls, in that order (`InTurn`). A window has no gaps
  (`WellLaid`), so it keeps the first calls of the round it begins before, and nothing of a round it begins inside of.

**`RoomsAndToolsProofs`** holds the theorems of two components that share no state. It extends
`SolarRooms`, none of whose three properties is inductive. `RoomsInv` is `TypeInv` (what a goroutine has
in hand, in each place of the code, is a room, a conversation, a row) and:

- for `SpecMentionHeard`, under `OneAtATime`, `AtHome` and `MentionKept`: a handler's room is among the
  rooms its conversation ever had, and if it is the only one, the newest message in it is still the mention when the
  mode is read, because no other handler is at work for that room (`OneBatch`) and who is no handler
  files nothing. A conversation with two rooms is excepted for the reason given in section 6.
- for `SpecWindowHasCause`, with batches, sends and saves overlapping in any way, `CausesInv`: not only every
  stored window has its cause, but also the one in each row that somebody holds and will save whole,
  and the one a mention or a sent message is about to make of a row (`CausedRun`). Causes only become later
  (`Later`), so a row saved late is never open longer than the latest cause allows.
- for `SpecGroupKeepsConversation`, under `OwnRoomOnly`, `KeptInv`: who works for a group that is bound has its
  conversation (`RunsKept`), the row of it that somebody will save whole carries that conversation too unless
  it is a new one, the wake's list names it (`ListKept`), and the group was never in another (`HomesKept`). A row
  that is saved late is therefore of that conversation, or new and refused, because a stored binding never goes away
  (`GroupsStay`).

`ClientTools` is there under the name `Tools`, for `ToolsTypeOK` and `ToolsCallsSettled`. `SettledInv`
follows a result back to its post: what a run has received is for the call it is at (`GotOwn`), and what a channel holds was
posted for the call whose waiter it is (`ChannelOwn`); `AtACall` says a run that is not with the model
is at a call.

**`ScheduledTasksProofs`.** `TypeCorrect`, and `PendingTasksHaveTime`: no interleaving of edits, stale
saves, expired deadlines and restarts leaves an enabled pending task without a time to run at. The
stored rows alone are not inductive, since any copy may be written over them; the invariant says that
every record that is or may become a row is sound: `RowsTimed`, `CopiesTimed` (the scheduler's) and
`DraftsTimed` (the editors'), with `AtWork` (a run has a task). `OnceTasksRunOnce`, `RunsAreWanted` and `IntervalsAreKept`
are about checks that no edit overlapped; the first and the last also ask that no deadline or restart
struck, and the last is about tasks that do not fail. They rest on `CalmInv`: during such a check nobody edits, the fetched
tasks are distinct, still due and as they were fetched (`CheckAlone`), a draft is of a stored row of the
same status (`DraftsOfRows`), a one-time task that ran is completed or about to be saved so (`OnceInv`), and every
record of a repeating task comes due an interval after its last run (`RecordsSpaced`).

**`SolarInboundProofs`.** `SpecBatchesFlushed`. That a batch has its timer is inductive given
what types the messages and what goroutines hold (`SolarTyped`, `HandsTyped`, `HandsSound`). The stop
is not: `PendingAccounted` follows each message that was waiting when it began, from its batch, which is
still to be flushed, to the goroutine that took it, and on to a run or a loss. `SpecDeliveredOnce`, by
`DeliveredInv`: the copies of a message in batches and hands and the times it was handled are no more than
Solar delivered it; each action moves copies from one holder to another (`OnlyHolder`, `Recounted`), and a count
of copies is a cardinality. `SpecNoneSkipped` is about an agent that only listens, in a process that stays up, by `SkipInv`:
during a catch-up what is to be replayed of a room is all of it above the mark (`ReplayWhole`), the view of the
mark is the mark (`ViewIsMark`), and what lies below the mark was reached (`MarkReached`).

**`MemoryProofs`.** `SpecTypeOK` and `SpecKeysKept` for any overlap: `MemoryInv` adds that a job past
its look-up has a key and a copy of a row of that key (`JobsSound`), that ids not given out have no row
(`RowsFresh`), that the row a job is to write, if it is still active, is of the job's key (`HeldForKey`),
and that two jobs about to write one row do it for one key (`HoldersAgree`): a save can supersede a row
of its own key only, and leaves another behind, unless it is stopped between the two (`AbandonKeeps`, for any set of
jobs that end at once: one whose statement fails, or all of them).
`SpecOneFactPerKey`, `SpecRetentionFollowsFact` and `SpecResetForgets` need that nothing overlapped:
`CalmInv` says that until something does, what a job read is still so when it writes (`Apart`, `ReadsHold`,
`OneRow`), that everything in either store and in every job's hands was told since the last reset
(`RowsTold`, `StateTold`, `JobsTold`), and that retention is with the active row or on its way to its
heir (`RowsRetained`, `HeirsRetained`, `RetainedThere`, `GroupsLive`).

**`WebSearchProofs`.** `SpecPageReadsSpaced`, for every number of searches and pages, every delay and every
robots.txt: `HostInv` says that waits and page reads sent are spaced from each other (`WaitsSpaced`, `MixedSpaced`,
`SentsSpaced`), that the host's next free slot lies a delay behind all of them (`WaitsTaken`,
`SentsTaken`), and that no wait is outrun by the clock (`WaitsTaken`). `SearchesAreChargedForAnswers` and
`AnswersComeFromTheirEngines`, by `SearchInv`: at each stage of a search what it paid and what it
still has to pay are the priced engines that answered (`Charged`), and what it holds, like what the cache holds under
a key, names engines of that search's list only (`Shown`, `Cached`). For the second, lemmas say what merging
by rank keeps of the engines' lists, of any length; the folds of the community modules it is made of are recursive
functions over finite sets and sequences, and the lemmas reach their values by the least argument at which they
would differ (`Settled`, `FlatSettled`).

**Only model-checked:** the two properties of liveness (`CompletedDaysSettle`, `RunsEnd`), which are beyond
the proof system's backends here. So are the library's theorems on induction, because they take an operator; where a proof needs an induction it takes the least of a set of naturals (`LeastNatural`
in `MemoryProofs`, `ConversationProofs`, `WebSearchProofs` and `RoomsAndToolsProofs`) from the library's theorem on well-founded relations. No module uses a recursive
operator: totals are cardinalities (`Total`) or folds from the community modules. That the pure operators compute what
their reference definitions say is checked on bounded inputs (section 4), not proved.


## 6. Differences between the code and what is said of it

The model contains them, and the properties above are stated so as to be true of the code. Four of
them have a definition that says what the code does not keep; it is in no run, and TLC shows a
counterexample when it is added to the named configuration with the change given:

- `ChargedWithinUsage` (`Billing`): `chargeAccount` "settles all eligible unpaid rows atomically" (`service/billing.go:651`),
  but two settlements that overlap both transfer the same rows. (`MCBillingSerial.cfg` with
  two `Settlers` and `SerialCharges = FALSE`.)
- `ToolActivitySurvives` (`Conversation`): `docs/API.md:494-496` says a summary captures tool calls so that key activity
  survives; `summarizeWithModel` is shown no tool result (`service/conversation.go:2242`).
  (`MCConversationSerial.cfg`.)
- `DeletedStaysDeleted` (`Conversation`): `README.md:645` says a conversation is soft-deleted; a request that is worked on
  saves the row it holds and so inserts it anew (`service/conversation.go:1352`). (`MCConversationOverlap.cfg` with
  `MayDelete = TRUE`.)
- `DueTasksRun` (`ScheduledTasks`): a task "runs automatically" (`service/scheduled_tasks.go:48`); tasks that keep failing
  stay the earliest due and fill every batch (`service/task_scheduler.go:71`). (`FairSpec`, `Batch = 1`,
  one failing task.)

`ForgottenStaysForgotten` (`Memory`) and `WholeRequestBilled` (`Gateway`) are two more of the kind; see below.

- *Billing.* `chargeAccount` reads its rows without an order though "oldest first" is said. A
  reservation of a run in progress is worth nothing and can be stamped paid by another run's charge;
  its price is then never collected. A wall configured as 0 charges at once instead of never (the
  normalised string is not `"0"`). The first failed transfer ends the daily pass. A crash between the
  transfer and its record charges the usage again. A settlement can lift a blacklisting made while it ran, and a
  charge from stale rows can write a remainder back over another's, so with overlapping charges two remainders
  may reach the wall with nobody blocked: that a debtor at the wall is blocked whenever the account rests is false,
  and `LastRunChargesWall` says what is true of the last run that meets the wall.
- *Gateway.* Of the rounds of a request only the last is billed, though the comment at
  `service/openai_compatible.go:103-106` says the whole. Reserved rows count 0, so calls admitted at the same time are
  not counted against each other's limits (the comment at `service/billing.go:78-80` says they are). `HourlyRunLimit` and
  `DailyRunLimit` are stored and never enforced. Two overlapping edits of a policy can lose a
  blacklisting. Tool outputs may be submitted any number of times, and are not matched with the calls.
  A failed response leaves a reserved row of 0. On a broken connection the writes that cancel a reservation
  or fail a run go through the cancelled context and do nothing. A credential that is revoked, or goes over
  its quota, while a call is going on bills the account and withholds the answer (a stream has sent it). A failed
  instant charge ends a completion with an error: it is priced for the account and not counted for the credential.
  That there is no wallet is remembered for ten minutes, too.
- *Conversation.* With overlapping requests: a message stored between one run's compaction and its
  window pushes others out of both; a deleted group, a title or a skill set meanwhile is
  overwritten by the row another request holds; two messages get one sequence number. The result of `list_skills`
  is stored without the id of its call (`service/skills.go:319-329`), so that later prompts drop both; the model's
  results all have theirs. A call message whose calls are dropped stays in the prompt as text when it has any
  (`service/conversation.go:742`); the model's have none.
- *Skills and tools.* `activate_skill` does not look at the access level: a skill that the level blocks is
  answered as activated, with its tools, and stored, and then dropped from the list, which the comment in
  `service/skills.go` wants to avoid. With dynamic skills `chat` and `solar_network` are not gated by
  ability, though `service/skills.go:214-218` says they are when tools are built: an agent without them lists and
  activates `chat`; its tools are taken out outside Solar rooms and stay on the stateless endpoint. Outside Solar
  `list_skills` offers `chat`, none of whose tools then come. A stored activation of `web_search` is loaded although the
  agent lost the ability. A skill the caller replaces as a whole is not listed but can be activated. A name
  that is twice in the caller's own list is sent twice until the first activation.
- *Client tools.* The call is emitted before its waiter exists, so a prompt answer is refused; an
  accepted answer can lose against the timer, and a second one is accepted and dropped.
- *Tasks.* An edit that overlaps a run makes a one-time task run twice, a stale save revives a deleted
  task or enables a disabled one, a failed repeating task is retried every check, and an update may
  set an interval below the minimum of 60.
- *Solar ingestion.* A message read live does not move its room's boundary, so a reconnect replays it; one pushed
  during the catch-up is replayed at once. The agent's own message moves the boundary past
  unread ones. After a restart the boundary is that of the last batch that was bound. The reconnect
  delay in effect never goes back to its minimum.
- *Shutdown.* `FlushAll` stops at the first batch that fails, goroutines that handle a batch are not waited
  for, and a message that is pushed between the flush and the close of its connection is lost with its timer. When
  `serveLoop` ends, `readLoop` may stay blocked on the unbuffered channel. `Stop` of the task and surf
  schedulers is never called; the connections' `Wait` is called twice.
- *Rooms and wakes.* Of two goroutines that find a room unbound, the one that stores its binding second is
  refused: its batch is dropped, and the conversation it opened is left over (`service/solar.go:386-397`). Two goroutines that handle batches of one room at the same time (`OneAtATime = FALSE`) violate
  `MentionHeard`: the stale row of the one closes the window the mention opened (`docs/SYSTEM_PROMPT_STRUCTURE.md:267`,
  `README.md:184`). A run that sends into another room binds that room to its own conversation; two rooms may then
  share one, and reply mode and prompt follow the binding created first; and a batch of the one that is filed after
  a mention in the other hides it, which is why `MentionHeard` asks for a conversation that had one room. `end_engagement` may be
  undone by a save that overlaps it, which brings the older window back: `WindowHasCause` bounds a window by its
  latest cause and allows that. A direct message the agent opened has no known type until it is answered,
  so it is taken for a group and not woken unless
  a mention makes it eligible, though `README.md:220` says direct messages are always eligible. Wakes of
  several agents may come closer than `wakeInterval`. If the last message of a room mentions the agent, every periodic wake
  of it is `force_allow`, and `no_reply` is refused. `no_reply` does not end the tool loop. A surf wake's account is
  derived from the previous one's, nested once more with each wake, and opens a conversation each time
  (`service/surf_scheduler.go:128-145`). Autonomous runs are never billed: their row stays reserved at 0. A trigger by
  thread into a user's conversation binds the room to it; when that is deleted, each batch of the room
  fails. A batch of messages that fails halfway leaves those sent, and the binding as it was.
  `deliverFallbackChatResponse`, `normalizeSolarChatFinalResponse` and `snOutboundStreamSender` have no caller.
- *Memory.* What the account forgot stays in `agent_human_states.memory_items`, and a prompt that finds no
  long-term row writes it back (`humanize/manager.go:65-75`; `docs/API.md:331` says it is excluded from prompts). The same refill may
  supersede a correction. When all rows are pinned, the prompt renders them twice. Saves of one key that overlap leave
  two active facts; a stale save takes a pin away, pins under a deleted group, or revives a forgotten row; a save begun before a reset
  stores after it.
- *Web search.* `websearch/crawl.go:224-225` says the requests to a host are serialized. The one for robots.txt
  (420-427) waits for no slot, and each of the pages read at once (129-131) sends one while none is kept; redirects
  are followed without a slot, too. Only the page reads are `PageReadsSpaced`. A group of robots.txt with nothing but a
  crawl delay does not end at the next user agent
  (`websearch/crawl.go` 441-485). The index's stand-in is cached like an answer and knows no domain or
  freshness. An answer's lifetime counts from after its pages were read. A preference for an engine the
  server no longer has falls back to all of them, priced ones included. An answer of several charges is lost when one of
  them fails, those before it paid. DeepSeek's reply of which nothing is left by the restriction to
  domains is not charged.
- *Models and access.* The OpenAI-compatible endpoint never asks `isModelBlocked`, so a level without the model can
  use it (`src/config.example.toml:84`: "perk 0 users cannot use gpt-4o at all"). `surfing` in that file's `blockedSkills` is
  no registered skill. Two providers whose ids differ in case only are accepted, and access and price are those of the
  first. Of a listed model without modalities `SupportsModality` says no where `SupportsVision` may say yes,
  although the comment in `agent/executor.go` says such a model "has not said no". Tokens of failed runs are not in a
  conversation's usage. A discovery that failed is remembered as long as the process lives.

## 7. Hazards

`PROJECT.json` lists what is hard to test in this code, at its line, with the properties that speak
of it. A note says where a property holds under a condition (no overlap, no restart, one batch of a room
at a time) and what the code does beyond it. Two hazards have no property, because the code does not rule
them out: tasks that starve others, and messages that a restart leaves behind a boundary that was saved before their run.

## 8. Not modelled

- *Conversations:* attachments and their image summaries, reasoning metadata, streaming deltas,
  overlays; `CompleteOnce`, which stores no messages (its reservation is in `Billing`).
- *Gateway:* conversions between message formats, creation and listing of credentials (the secret
  is random bytes), listing of policies and actions.
- *Solar:* paging and contents of messages, typing packets; binding and newest message are read for the reply mode in
  two queries (`service/chat_tools.go:297-301`) and in one step of the model; the window of twelve messages that a prompt
  shows; several agents; the order of `updated_at` among bindings; accounts named as a target (`Users` is empty
  in the run, since a wake by account opens a room of its own).
- *Memory:* manual memories, mood, relationship and interaction count, recall across conversations, the
  confirmed flag, and the budgets of 12 and 24, which the instances do not reach.
- *Web search:* scraping, article extraction, snippets, ranking and formatting: I/O and text.
- *Models:* spaces around segments of a name; the estimate of tokens (arithmetic on text).
- The Solar REST client (stateless; its outcomes are in `SolarInbound` and `SolarRooms`), logging, schema and
  the settings that are read once; HTTP and gRPC transport, which decodes and calls the services above
  (handlers that decide something are mapped with the component they decide for); identity, reports and the audit log
  (append-only; nothing modelled reads them); the attachment image cache; the terminal client.
