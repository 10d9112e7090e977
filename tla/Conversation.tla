---------------------------- MODULE Conversation ----------------------------
(***************************************************************************)
(* One conversation thread and everybody who works on it: runs (ExecuteRun *)
(* and StreamRun with their tool loop), AddUserMessage, the compact        *)
(* endpoint, deletion and grouping.                                        *)
(*                                                                         *)
(* Every database call is a step of its own.  A process keeps the thread   *)
(* row it read in its own copy and, after each message it stores, writes   *)
(* the whole copy back: gorm's Save updates every column of the live row,  *)
(* and inserts it anew when there is no live row to update.                *)
(*                                                                         *)
(* SerialRequests = TRUE restricts the model to behaviours in which the    *)
(* requests made on a thread happen not to overlap; nothing in the code    *)
(* makes them wait for each other.                                         *)
(*                                                                         *)
(* Left out: the text of messages and summaries (a summary is the set of   *)
(* messages it was made from), attachments, overlays, billing.             *)
(***************************************************************************)
EXTENDS Integers, FiniteSets, Sequences

CONSTANTS
    Runs,           \* requests that run the model
    Notes,          \* AddUserMessage requests
    Compactors,     \* CompactConversation requests
    Groups,         \* conversation groups of the account
    Skills,         \* server-owned skills the thread may switch on
    Limits,         \* history windows that perk levels resolve to
    MaxRounds,      \* bound on the tool rounds of a run
    MaxCalls,       \* bound on the tool calls of a round
    MayDelete,      \* FALSE leaves deletion to other instances
    SerialRequests, \* TRUE: requests on the thread never overlap
    MaxFaults,      \* bound on cancelled requests and crashes
    None

Procs == Runs \cup Notes \cup Compactors

\* A tool call: whose it is, its round (counted down) and its place in it.
Calls == Runs \X (1..MaxRounds) \X (1..MaxCalls)

ASSUME ConversationAssumption ==
    /\ IsFiniteSet(Procs)
    /\ Runs \cap Notes = {} /\ Runs \cap Compactors = {} /\ Notes \cap Compactors = {}
    /\ Limits \subseteq Nat \ {0}
    /\ MaxRounds \in Nat
    /\ MaxCalls \in Nat \ {0}
    /\ MayDelete \in BOOLEAN
    /\ SerialRequests \in BOOLEAN
    /\ MaxFaults \in Nat
    /\ None \notin Runs \cup Groups \cup Calls \cup {"derived"}
    /\ "derived" \notin Runs

VARIABLES
    thread,     \* the ConversationThread row
    messages,   \* the live ConversationMessage rows
    run,        \* the ConversationRun rows
    groups,     \* the live ConversationGroup rows
    pc,         \* where each process is
    copy,       \* the thread row each process holds
    local,      \* the other local variables of each process
    prompt,     \* what the prompt of each run in progress was built from
    faults      \* observer: faults so far

db     == <<thread, messages, run, groups>>
locals == <<copy, local, prompt>>
vars   == <<db, pc, locals, faults>>

-----------------------------------------------------------------------------
Roles == {"user", "call", "tool", "assistant"}

\* A stored message; "call" is an assistant message with tool calls.
Message == [by: Procs, role: Roles, seq: Nat, calls: SUBSET Calls,
            answers: Calls \cup {None}]

\* Title None is the placeholder; a run stands for the title its tool set.
Row == [alive: BOOLEAN, group: Groups \cup {None}, title: Runs \cup {None, "derived"},
        skills: SUBSET Skills, summary: SUBSET Message, summarySeq: Int]

RunRow == [status: {"absent", "running", "completed", "failed"}, live: BOOLEAN]

Local == [draft: Message,            \* the message about to be stored
          limit: Limits \cup {0},    \* history window of this prompt
          cutoff: Int,               \* cutoffSeq
          rounds: 0..MaxRounds,      \* tool rounds the model may still ask for
          pending: SUBSET Calls,     \* calls of this round still to execute
          active: SUBSET Skills]     \* activeSkills

NewThread == [alive |-> TRUE, group |-> None, title |-> None, skills |-> {},
              summary |-> {}, summarySeq |-> 0]

Draft(p, role, calls, answers) ==
    [by |-> p, role |-> role, seq |-> 0, calls |-> calls, answers |-> answers]

TypeOK ==
    /\ thread \in Row
    /\ messages \subseteq Message
    /\ run \in [Runs -> RunRow]
    /\ groups \subseteq Groups
    /\ pc \in [Procs -> {"idle", "sequence", "create", "save", "start", "build",
                         "count", "latest", "read", "summarized", "select", "loop",
                         "model", "tools", "complete", "finish", "fail", "done"}]
    /\ copy \in [Procs -> Row]
    /\ local \in [Procs -> Local]
    /\ prompt \in [Runs -> [window: Seq(Message), summary: SUBSET Message]]
    /\ faults \in 0..MaxFaults

Fresh(p) == [draft |-> Draft(p, "user", {}, None), limit |-> 0, cutoff |-> 0,
             rounds |-> 0, pending |-> {}, active |-> {}]

NoPrompt == [window |-> <<>>, summary |-> {}]

Init ==
    /\ thread = NewThread
    /\ messages = {}
    /\ run = [r \in Runs |-> [status |-> "absent", live |-> FALSE]]
    /\ groups = Groups
    /\ pc = [p \in Procs |-> "idle"]
    /\ copy = [p \in Procs |-> NewThread]
    /\ local = [p \in Procs |-> Fresh(p)]
    /\ prompt = [r \in Runs |-> NoPrompt]
    /\ faults = 0

-----------------------------------------------------------------------------
Goto(p, label) == pc' = [pc EXCEPT ![p] = label]

Set(p, new) == local' = [local EXCEPT ![p] = new]

\* The request is answered, one way or the other: its variables are gone.
Return(p) ==
    /\ Goto(p, "done")
    /\ copy' = [copy EXCEPT ![p] = NewThread]
    /\ Set(p, Fresh(p))
    /\ prompt' = [r \in Runs |-> IF r = p THEN NoPrompt ELSE prompt[r]]

Idle(p) == pc[p] \in {"idle", "done"}

MayStart(p) == SerialRequests => \A q \in Procs \ {p} : Idle(q)

\* GetConversation: the row is read again, unless it is gone.
GetConversation(p) ==
    /\ thread.alive
    /\ copy' = [copy EXCEPT ![p] = thread]

\* gorm's Save of a row that is held: it is live afterwards, whatever it was.
Save(row) == thread' = row

-----------------------------------------------------------------------------
(* A request begins: CreateRun, AddUserMessage, CompactConversation.        *)

CreateRun(p) ==
    /\ pc[p] = "idle"
    /\ p \notin Compactors
    /\ MayStart(p)
    /\ \/ /\ GetConversation(p)
          /\ Set(p, [local[p] EXCEPT !.active = IF p \in Runs THEN thread.skills ELSE {}])
          /\ Goto(p, "sequence")
          /\ UNCHANGED prompt
       \/ ~thread.alive /\ Return(p)
    /\ UNCHANGED <<db, faults>>

CompactConversation(p) ==
    /\ pc[p] = "idle"
    /\ p \in Compactors
    /\ MayStart(p)
    /\ \/ /\ GetConversation(p)
          /\ \E limit \in Limits : Set(p, [local[p] EXCEPT !.limit = limit])
          /\ Goto(p, "count")
          /\ UNCHANGED prompt
       \/ ~thread.alive /\ Return(p)
    /\ UNCHANGED <<db, faults>>

-----------------------------------------------------------------------------
(* createMessageWithMetadata: nextSequence, Create, Save(thread).           *)

\* The highest sequence of a set of messages, 0 when there is none.
LastSequence(S) ==
    IF S = {} THEN 0 ELSE CHOOSE n \in {m.seq : m \in S} : \A m \in S : m.seq <= n

\* Mutant: the messages are counted instead, and numbered from 0.
CountedSequence == Cardinality(messages)

NextSequence == LastSequence(messages) + 1

ReadSequence(p) ==
    /\ pc[p] = "sequence"
    /\ Set(p, [local[p] EXCEPT !.draft.seq = NextSequence])
    /\ Goto(p, "create")
    /\ UNCHANGED <<db, copy, prompt, faults>>

CreateMessage(p) ==
    /\ pc[p] = "create"
    /\ messages' = messages \cup {local[p].draft}
    /\ Goto(p, "save")
    /\ UNCHANGED <<thread, run, groups, locals, faults>>

\* A placeholder title is replaced by one derived from the message.
Titled(row) == IF row.title = None THEN [row EXCEPT !.title = "derived"] ELSE row

\* Where a run goes on after each message.
AfterMessage(r) ==
    CASE local[r].draft.role = "user"      -> "start"
      [] local[r].draft.role = "call"      -> "tools"
      [] local[r].draft.role = "tool"      -> IF local[r].pending = {} THEN "model"
                                                                       ELSE "tools"
      [] local[r].draft.role = "assistant" -> "finish"

SaveThread(p) ==
    /\ pc[p] = "save"
    /\ Save(Titled(copy[p]))
    /\ \/ /\ p \in Runs
          /\ copy' = [copy EXCEPT ![p] = Titled(@)]
          /\ Goto(p, AfterMessage(p))
          /\ UNCHANGED <<local, prompt>>
       \/ p \notin Runs /\ Return(p)
    /\ UNCHANGED <<messages, run, groups, faults>>

\* The run's row is created after its request message.
StartRun(r) ==
    /\ pc[r] = "start"
    /\ run' = [run EXCEPT ![r] = [status |-> "running", live |-> TRUE]]
    /\ Goto(r, "build")
    /\ UNCHANGED <<thread, messages, groups, locals, faults>>

-----------------------------------------------------------------------------
(* ensureThreadContextCompaction, on the caller's copy of the row.          *)

BuildModelMessages(r) ==
    /\ pc[r] = "build"
    /\ \/ /\ GetConversation(r)
          /\ \E limit \in Limits : Set(r, [local[r] EXCEPT !.limit = limit])
          /\ Goto(r, "count")
       \/ /\ ~thread.alive
          /\ Goto(r, "fail")
          /\ UNCHANGED <<copy, local>>
    /\ UNCHANGED <<db, prompt, faults>>

Compacted(p) ==
    \/ p \in Runs /\ Goto(p, "select") /\ UNCHANGED locals
    \/ p \notin Runs /\ Return(p)

CountMessages(p) ==
    /\ pc[p] = "count"
    /\ \/ Cardinality(messages) <= local[p].limit /\ Compacted(p)
       \/ /\ Cardinality(messages) > local[p].limit
          /\ Goto(p, "latest")
          /\ UNCHANGED locals
    /\ UNCHANGED <<db, faults>>

\* Mutant: the cutoff is one message short of the window.
ShortCutoff(p) == LastSequence(messages) - local[p].limit - 1

Cutoff(p) == LastSequence(messages) - local[p].limit

FindCutoff(p) ==
    /\ pc[p] = "latest"
    /\ \/ messages = {} /\ p \in Runs /\ Goto(p, "fail") /\ UNCHANGED locals
       \/ messages = {} /\ p \notin Runs /\ Return(p)
       \/ messages # {} /\ Cutoff(p) <= copy[p].summarySeq /\ Compacted(p)
       \/ /\ messages # {}
          /\ Cutoff(p) > copy[p].summarySeq
          /\ Set(p, [local[p] EXCEPT !.cutoff = Cutoff(p)])
          /\ Goto(p, "read")
          /\ UNCHANGED <<copy, prompt>>
    /\ UNCHANGED <<db, faults>>

\* Mutant: the message at the cutoff is not summarized.
BeforeCutoff(p) ==
    {m \in messages : copy[p].summarySeq < m.seq /\ m.seq < local[p].cutoff}

ToSummarize(p) ==
    {m \in messages : copy[p].summarySeq < m.seq /\ m.seq <= local[p].cutoff}

\* summarizeWithModel is shown what was said and no tool result; when it has
\* nothing to show, or the model fails, raw snippets of everything are kept.
Transcript(S) == {m \in S : m.role # "tool"}

Summaries(S) == {S} \cup (IF Transcript(S) = {} THEN {} ELSE {Transcript(S)})

\* The records are read, then summarized by the model: both belong to the
\* caller's copy until it is saved.
Summarize(p) ==
    /\ pc[p] = "read"
    /\ \E new \in Summaries(ToSummarize(p)) :
         copy' = [copy EXCEPT ![p].summary = @ \cup new,
                              ![p].summarySeq = local[p].cutoff]
    /\ Goto(p, "summarized")
    /\ UNCHANGED <<db, local, prompt, faults>>

SaveSummary(p) ==
    /\ pc[p] = "summarized"
    /\ Save(copy[p])
    /\ Compacted(p)
    /\ UNCHANGED <<messages, run, groups, faults>>

-----------------------------------------------------------------------------
(* The live window: the last messages by sequence, oldest first.  Messages  *)
(* of one sequence come in whatever order the database returns them.        *)

\* Mutant: the order is forgotten.
UnorderedWindows(limit) ==
    LET n == IF Cardinality(messages) < limit THEN Cardinality(messages) ELSE limit
    IN  {w \in [1..n -> messages] : \A i, j \in 1..n : i < j => w[i] # w[j]}

Windows(limit) ==
    LET n == IF Cardinality(messages) < limit THEN Cardinality(messages) ELSE limit
    IN  {w \in [1..n -> messages] :
           /\ \A i, j \in 1..n : i < j => w[i] # w[j] /\ w[i].seq <= w[j].seq
           /\ \A m \in messages : n > 0 /\ (\A i \in 1..n : w[i] # m) => m.seq <= w[1].seq}

SelectWindow(r) ==
    /\ pc[r] = "select"
    /\ \E w \in Windows(local[r].limit) :
         prompt' = [prompt EXCEPT ![r] = [window |-> w, summary |-> copy[r].summary]]
    /\ \/ /\ Goto(r, "loop")
          /\ Set(r, [local[r] EXCEPT !.rounds = MaxRounds])
       \/ /\ Goto(r, "model")      \* an agent without tools
          /\ UNCHANGED local
    /\ UNCHANGED <<db, copy, faults>>

\* How the window is rendered.  A call whose result is not in the window is
\* dropped, and so is a result that no earlier call is waiting for.
Answered(w) == {w[i].answers : i \in {i \in DOMAIN w : w[i].role = "tool"}}

\* Mutant: calls are kept without looking for their result.
AllCalls(w, i) == w[i].calls

KeptCalls(w, i) == w[i].calls \cap Answered(w)

\* A kept call waits for its result until a tool message answers it.
WaitedFor(w, i) ==
    \E j \in 1..(i - 1) :
       /\ w[i].answers \in KeptCalls(w, j)
       /\ \A k \in (j + 1)..(i - 1) : w[k].answers # w[i].answers

Kept(w, i) ==
    CASE w[i].role = "call" -> KeptCalls(w, i) # {}
      [] w[i].role = "tool" -> WaitedFor(w, i)
      [] OTHER              -> TRUE

\* The places of the window that reach the model.
Rendered(w) == {i \in DOMAIN w : Kept(w, i)}

-----------------------------------------------------------------------------
(* The tool loop: runWithGeneralTools, streamWithGeneralTools.              *)

EnterToolLoop(r) ==
    /\ pc[r] = "loop"
    /\ \/ GetConversation(r) /\ Goto(r, "model")
       \/ ~thread.alive /\ Goto(r, "fail") /\ UNCHANGED copy
    /\ UNCHANGED <<db, local, prompt, faults>>

ModelCallsTools(r) ==
    /\ pc[r] = "model"
    /\ local[r].rounds > 0
    /\ \E n \in 1..MaxCalls :
         LET calls == {<<r, local[r].rounds, i>> : i \in 1..n}
         IN  Set(r, [local[r] EXCEPT !.draft = Draft(r, "call", calls, None),
                                     !.pending = calls,
                                     !.rounds = @ - 1])
    /\ Goto(r, "sequence")
    /\ UNCHANGED <<db, copy, prompt, faults>>

ModelAnswers(r) ==
    /\ pc[r] = "model"
    /\ Goto(r, "complete")
    /\ UNCHANGED <<db, locals, faults>>

\* The model, or a tool, returns an error.
GenerationFails(r) ==
    /\ pc[r] \in {"model", "tools"}
    /\ Goto(r, "fail")
    /\ UNCHANGED <<db, locals, faults>>

\* set_conversation_title updates one column, and the held row with it.
\* Mutant: the held row is forgotten.
SetTitleInDatabaseOnly(r) ==
    /\ thread' = IF thread.alive THEN [thread EXCEPT !.title = r] ELSE thread
    /\ UNCHANGED copy

SetTitle(r) ==
    /\ thread' = IF thread.alive THEN [thread EXCEPT !.title = r] ELSE thread
    /\ copy' = [copy EXCEPT ![r].title = r]

\* persistActivatedSkills: nothing is written when the held row has the set.
PersistSkills(r, active) ==
    IF copy[r].skills = active
      THEN UNCHANGED <<thread, copy>>
      ELSE /\ thread' = IF thread.alive THEN [thread EXCEPT !.skills = active] ELSE thread
           /\ copy' = [copy EXCEPT ![r].skills = active]

ExecuteTool(r, call, active) ==
    /\ Set(r, [local[r] EXCEPT !.draft = Draft(r, "tool", {}, call),
                               !.pending = @ \ {call},
                               !.active = active])
    /\ Goto(r, "sequence")
    /\ UNCHANGED <<messages, run, groups, prompt, faults>>

NextCall(r) ==
    CHOOSE c \in local[r].pending : \A d \in local[r].pending : c[3] <= d[3]

ToolReturns(r) ==
    /\ pc[r] = "tools"
    /\ ExecuteTool(r, NextCall(r), local[r].active)
    /\ UNCHANGED <<thread, copy>>

SetConversationTitle(r) ==
    /\ pc[r] = "tools"
    /\ SetTitle(r)
    /\ ExecuteTool(r, NextCall(r), local[r].active)

ActivateSkill(r) ==
    /\ pc[r] = "tools"
    /\ \E skill \in Skills :
         /\ PersistSkills(r, local[r].active \cup {skill})
         /\ ExecuteTool(r, NextCall(r), local[r].active \cup {skill})

-----------------------------------------------------------------------------
(* CompleteRun and FailRun.                                                 *)

\* A run whose conversation is gone returns here without FailRun.
CompleteRun(r) ==
    /\ pc[r] = "complete"
    /\ \/ /\ GetConversation(r)
          /\ Set(r, [local[r] EXCEPT !.draft = Draft(r, "assistant", {}, None)])
          /\ Goto(r, "sequence")
          /\ UNCHANGED prompt
       \/ ~thread.alive /\ Return(r)
    /\ UNCHANGED <<db, faults>>

EndRun(r, status) ==
    /\ run' = [run EXCEPT ![r] = [status |-> status, live |-> TRUE]]
    /\ Return(r)
    /\ UNCHANGED <<thread, messages, groups, faults>>

FinishRun(r) == pc[r] = "finish" /\ EndRun(r, "completed")

\* Mutant: the failure is only logged.
FailRunUnsaved(r) ==
    /\ pc[r] = "fail"
    /\ Return(r)
    /\ UNCHANGED <<db, faults>>

FailRun(r) == pc[r] = "fail" /\ EndRun(r, "failed")

-----------------------------------------------------------------------------
(* What else the account may do: each is one database transaction.          *)

NobodyWorks == SerialRequests => \A p \in Procs : Idle(p)

\* softDeleteThreads: messages, runs and the row are hidden together.
SoftDeleteThreads ==
    /\ thread' = [thread EXCEPT !.alive = FALSE]
    /\ messages' = {}
    /\ run' = [r \in Runs |-> [run[r] EXCEPT !.live = FALSE]]

DeleteConversation ==
    /\ MayDelete
    /\ NobodyWorks
    /\ thread.alive
    /\ SoftDeleteThreads
    /\ UNCHANGED <<groups, pc, locals, faults>>

\* A group is named only if it is live; None clears the membership.
SetConversationGroup ==
    /\ NobodyWorks
    /\ thread.alive
    /\ \E g \in groups \cup {None} : thread' = [thread EXCEPT !.group = g]
    /\ UNCHANGED <<messages, run, groups, pc, locals, faults>>

\* Mutant: the group goes and its threads keep its id.
DeleteGroupOnly ==
    /\ NobodyWorks
    /\ \E g \in groups : groups' = groups \ {g}
    /\ UNCHANGED <<thread, messages, run, pc, locals, faults>>

DeleteConversationGroup ==
    /\ NobodyWorks
    /\ \E g \in groups :
         /\ groups' = groups \ {g}
         /\ thread' = IF thread.alive /\ thread.group = g
                        THEN [thread EXCEPT !.group = None] ELSE thread
    /\ UNCHANGED <<messages, run, pc, locals, faults>>

-----------------------------------------------------------------------------
(* Faults.                                                                  *)

Fault == faults < MaxFaults /\ faults' = faults + 1

\* The request's context is cancelled: every later database call fails, the
\* one in FailRun included.
Cancelled(p) ==
    /\ ~Idle(p)
    /\ Fault
    /\ Return(p)
    /\ UNCHANGED db

Crash ==
    /\ Fault
    /\ pc' = [p \in Procs |-> IF pc[p] = "idle" THEN "idle" ELSE "done"]
    /\ copy' = [p \in Procs |-> NewThread]
    /\ local' = [p \in Procs |-> Fresh(p)]
    /\ prompt' = [r \in Runs |-> NoPrompt]
    /\ UNCHANGED db

-----------------------------------------------------------------------------
MessageStep(p) == ReadSequence(p) \/ CreateMessage(p) \/ SaveThread(p)

CompactionStep(p) == CountMessages(p) \/ FindCutoff(p) \/ Summarize(p) \/ SaveSummary(p)

ToolStep(r) == ToolReturns(r) \/ SetConversationTitle(r) \/ ActivateSkill(r)

RunStep(r) ==
    \/ StartRun(r) \/ BuildModelMessages(r) \/ SelectWindow(r)
    \/ EnterToolLoop(r) \/ ModelCallsTools(r) \/ ModelAnswers(r)
    \/ GenerationFails(r) \/ ToolStep(r)
    \/ CompleteRun(r) \/ FinishRun(r) \/ FailRun(r)

Working(p) == MessageStep(p) \/ CompactionStep(p) \/ (p \in Runs /\ RunStep(p))

AccountStep == DeleteConversation \/ SetConversationGroup \/ DeleteConversationGroup

Next ==
    \/ \E p \in Procs : CreateRun(p) \/ CompactConversation(p) \/ Working(p)
    \/ AccountStep
    \/ Crash \/ \E p \in Procs : Cancelled(p)

Spec == Init /\ [][Next]_vars

-----------------------------------------------------------------------------
(* Properties.                                                             *)

WindowSet(r) == {prompt[r].window[i] : i \in DOMAIN prompt[r].window}

\* What the user and the agent said to each other.
SpokenRoles == {"user", "assistant"}
Spoken(S)   == {m \in S : m.role \in SpokenRoles}

\* The persisted summary covers everything said up to the sequence it is said to
\* reach, through crashes and cancelled requests: nothing is skipped between
\* one compaction and the next.
SummaryHonest ==
    thread.alive =>
        \A m \in Spoken(messages) : m.seq <= thread.summarySeq => m \in thread.summary

\* "older messages are automatically compacted into a persisted thread summary
\* that is injected back into future runs": a prompt misses nothing that was
\* said, it is in the window or in the summary.
ContextComplete ==
    [][\A r \in Runs : prompt'[r] \notin {prompt[r], NoPrompt} =>
          Spoken(messages) \subseteq (WindowSet(r)' \cup prompt'[r].summary)]_vars

\* In every prompt, whatever overlaps or crashed before it, a tool call is
\* followed by exactly one result and a result is preceded by its call.
PromptPairsCalls ==
    \A r \in Runs : LET w == prompt[r].window IN
        /\ \A i \in Rendered(w) : w[i].role = "call" =>
              \A c \in KeptCalls(w, i) :
                 \E j \in Rendered(w) : j > i /\ w[j].answers = c
        /\ \A i, j \in Rendered(w) :
              i # j /\ w[i].role = "tool" /\ w[j].role = "tool"
                => w[i].answers # w[j].answers
        /\ \A j \in Rendered(w) : w[j].role = "tool" =>
              \E i \in Rendered(w) : i < j /\ w[j].answers \in KeptCalls(w, i)

\* When requests do not overlap, the results of a call message follow it with
\* nothing in between, as model providers demand; a crash in the middle of a
\* round and a window that begins in the middle of one change nothing.
ResultsFollowCalls ==
    \A r \in Runs : LET w == prompt[r].window IN
        \A i \in Rendered(w) : w[i].role = "call" =>
           \A k \in 1..Cardinality(KeptCalls(w, i)) :
              /\ i + k \in Rendered(w)
              /\ w[i + k].answers \in KeptCalls(w, i)

\* What a tool wrote into the thread row survives the rows that are saved after
\* it: a title set by the model, a skill that was switched on.
ToolWritesKept ==
    [][thread.alive /\ thread'.alive =>
          /\ thread.title \in Runs => thread'.title \in Runs
          /\ thread.skills \subseteq thread'.skills]_vars

\* "Threads survive their group: they simply become ungrouped."  When requests do
\* not overlap, no row that a request saves files the thread under a group that
\* is gone.
FiledUnderLiveGroup ==
    thread.alive => thread.group \in groups \cup {None}

\* A request that is over, however it ended, leaves no run behind that says it is
\* still running; only a crash or a cancelled request, whose last writes are
\* lost, may.
NoRunLeftRunning ==
    faults = 0 =>
        \A r \in Runs : pc[r] = "done" /\ run[r].live => run[r].status # "running"

\* "The summary captures tool calls and reasoning, so key activity survives
\* compaction": nothing a summary reaches over is missing in it.  The code does
\* not keep this of tool results when the model writes the summary.
ToolActivitySurvives ==
    thread.alive =>
        \A m \in messages : m.seq <= thread.summarySeq => m \in thread.summary

\* "soft-deletes the conversation with its messages and runs": a conversation
\* that was deleted does not come back.  The code does not keep this when a
\* request that is being worked on saves the row it holds.
DeletedStaysDeleted == [][~thread.alive => ~thread'.alive]_vars

-----------------------------------------------------------------------------
(* The conversation as the person having it sees it.                        *)

Entry(m) == [pos |-> m.seq, by |-> m.by, role |-> m.role]

Log == INSTANCE ConversationLog WITH
    Authors  <- Procs,
    Requests <- Runs,
    log      <- {Entry(m) : m \in messages},
    heard    <- [r \in Runs |->
                    {Entry(m) : m \in Spoken(WindowSet(r) \cup prompt[r].summary)}],
    open     <- thread.alive

KeepsLog == Log!Spec

=============================================================================
