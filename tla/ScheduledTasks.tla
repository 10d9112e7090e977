-------------------------- MODULE ScheduledTasks --------------------------
(***************************************************************************)
(* Tasks an agent schedules for itself, and the scheduler that runs them.  *)
(*                                                                         *)
(* Every check the scheduler fetches the due rows, earliest first and at   *)
(* most Batch of them, then runs them one after the other from the copies  *)
(* it fetched and saves each copy whole when its run is over.  The agent's *)
(* tools edit the same rows meanwhile, those of the running task included, *)
(* with a read, a change and a save of their own.  gorm's Save falls back  *)
(* to an upsert when it updates no row, so it also writes a deleted row    *)
(* back.                                                                   *)
(*                                                                         *)
(* Time is counted in checks of the scheduler (30 s).                      *)
(***************************************************************************)
EXTENDS Integers, FiniteSets, Sequences

CONSTANTS
    OnceTasks, IntervalTasks,
    Editors,      \* conversations whose agent may call the task tools
    Intervals,    \* the intervals asked for
    MinInterval,  \* 60 s
    Batch,        \* Limit(20)
    Failing,      \* tasks whose runs may fail
    MaxTime,      \* bound on the clock
    MaxFaults,    \* bound on deadlines that expire and on restarts
    None

Tasks == OnceTasks \cup IntervalTasks

ASSUME ScheduledTasksAssumption ==
    /\ IsFiniteSet(Tasks)
    /\ OnceTasks \cap IntervalTasks = {}
    /\ Intervals \subseteq Nat
    /\ MinInterval \in Nat
    /\ Batch \in Nat \ {0}
    /\ MaxTime \in Nat
    /\ MaxFaults \in Nat
    /\ None \notin Nat \cup Tasks

VARIABLES
    now,
    row,        \* the stored task
    ran,        \* successful runs of each task, counted to 2
    phase,      \* what the scheduler is at
    batch,      \* tasks fetched and not yet dealt with, the running one first
    copy,       \* the scheduler's copy of each task
    expired,    \* the context of this check is done
    editing,    \* the task each editor has read
    draft,      \* and the editor's copy of it
    faults,
    overlapped  \* an observer: an edit began or was open during a check

schedulerVars == <<phase, batch, copy, expired>>
editorVars    == <<editing, draft>>
vars == <<now, row, ran, schedulerVars, editorVars, faults, overlapped>>

Times == Nat \cup {None}

Rows == [place    : {"absent", "live", "deleted"},
         status   : {"pending", "completed", "failed"},
         enabled  : BOOLEAN,
         interval : Intervals \cup {0},
         last     : Times,
         next     : Times]

TypeOK ==
    /\ now \in 0..MaxTime
    /\ row \in [Tasks -> Rows]
    /\ ran \in [Tasks -> 0..2]
    /\ phase \in {"idle", "between", "running", "succeeded", "failed"}
    /\ batch \in Seq(Tasks)
    /\ copy \in [Tasks -> Rows]
    /\ expired \in BOOLEAN
    /\ editing \in [Editors -> Tasks \cup {None}]
    /\ draft \in [Editors -> Rows]
    /\ faults \in 0..MaxFaults
    /\ overlapped \in BOOLEAN

NoRow == [place |-> "absent", status |-> "pending", enabled |-> FALSE,
          interval |-> 0, last |-> None, next |-> None]

Init ==
    /\ now = 0
    /\ row = [t \in Tasks |-> NoRow]
    /\ ran = [t \in Tasks |-> 0]
    /\ phase = "idle"
    /\ batch = <<>>
    /\ copy = row
    /\ expired = FALSE
    /\ editing = [e \in Editors |-> None]
    /\ draft = [e \in Editors |-> NoRow]
    /\ faults = 0
    /\ overlapped = FALSE

Live(t) == row[t].place = "live"

-----------------------------------------------------------------------------
(* The scheduler.                                                          *)

\* Mutant: disabled tasks are fetched too.
DueEvenDisabled(t) ==
    /\ Live(t)
    /\ row[t].status = "pending"
    /\ row[t].next # None
    /\ row[t].next <= now

Due(t) ==
    /\ Live(t)
    /\ row[t].enabled
    /\ row[t].status = "pending"
    /\ row[t].next # None
    /\ row[t].next <= now

\* Sequences the query may return: the earliest due tasks, in order.
DueBatches ==
    LET due == {t \in Tasks : Due(t)}
        len == IF Cardinality(due) < Batch THEN Cardinality(due) ELSE Batch
        Earlier(t, u) == row[t].next <= row[u].next
    IN  {s \in [1..len -> due] :
            /\ \A i, j \in 1..len : i < j => s[i] # s[j] /\ Earlier(s[i], s[j])
            /\ \A t \in due : (\E i \in 1..len : s[i] = t) \/ \A i \in 1..len : Earlier(s[i], t)}

Fetch ==
    /\ phase = "idle"
    /\ \E t \in Tasks : Due(t)
    /\ batch' \in DueBatches
    /\ copy' = [t \in Tasks |-> IF Due(t) THEN row[t] ELSE copy[t]]
    /\ phase' = "between"
    /\ expired' = FALSE
    /\ overlapped' = (overlapped \/ \E e \in Editors : editing[e] # None)
    /\ UNCHANGED <<now, row, ran, editorVars, faults>>

StartRun ==
    /\ phase = "between"
    /\ batch # <<>>
    /\ phase' = "running"
    /\ UNCHANGED <<now, row, ran, batch, copy, expired, editorVars, faults, overlapped>>

RunSucceeds ==
    /\ phase = "running"
    /\ ~expired
    /\ phase' = "succeeded"
    /\ ran' = [ran EXCEPT ![Head(batch)] = IF @ < 2 THEN @ + 1 ELSE @]
    /\ UNCHANGED <<now, row, batch, copy, expired, editorVars, faults, overlapped>>

RunFails ==
    /\ phase = "running"
    /\ expired \/ Head(batch) \in Failing
    /\ phase' = "failed"
    /\ UNCHANGED <<now, row, ran, batch, copy, expired, editorVars, faults, overlapped>>

Ended(c, status) == [c EXCEPT !.last = now, !.status = status, !.enabled = FALSE, !.next = None]

AfterFailure(t, c) ==
    IF t \in OnceTasks THEN Ended(c, "failed") ELSE [c EXCEPT !.last = now]

\* Mutants of AfterSuccess: the task keeps its time; it loses its time and stays
\* pending.
KeepsTime(t, c) == [c EXCEPT !.last = now]

ForgetsTime(t, c) == [c EXCEPT !.last = now, !.next = None]

AfterSuccess(t, c) ==
    IF t \in OnceTasks
    THEN Ended(c, "completed")
    ELSE [c EXCEPT !.last = now, !.next = now + c.interval]

Outcome(t) ==
    IF phase = "succeeded" THEN AfterSuccess(t, copy[t]) ELSE AfterFailure(t, copy[t])

\* Save(task): the whole copy is written, over whatever the row is by now, and
\* with the context of the check, which may be done.
SaveTask ==
    LET t == Head(batch)
    IN  /\ phase \in {"succeeded", "failed"}
        /\ row' = IF expired THEN row ELSE [row EXCEPT ![t] = Outcome(t)]
        /\ copy' = [copy EXCEPT ![t] = NoRow]
        /\ batch' = Tail(batch)
        /\ phase' = "between"
        /\ UNCHANGED <<now, ran, expired, editorVars, faults, overlapped>>

EndCheck ==
    /\ phase = "between"
    /\ batch = <<>>
    /\ phase' = "idle"
    /\ UNCHANGED <<now, row, ran, batch, copy, expired, editorVars, faults, overlapped>>

\* The five minutes of the check are over, or Stop cancels it.
Expire ==
    /\ phase # "idle"
    /\ ~expired
    /\ faults < MaxFaults
    /\ expired' = TRUE
    /\ faults' = faults + 1
    /\ UNCHANGED <<now, row, ran, phase, batch, copy, editorVars, overlapped>>

\* The process goes away and comes back: what was fetched or read is lost.
Restart ==
    /\ faults < MaxFaults
    /\ faults' = faults + 1
    /\ phase' = "idle"
    /\ batch' = <<>>
    /\ expired' = FALSE
    /\ editing' = [e \in Editors |-> None]
    /\ copy' = [t \in Tasks |-> NoRow]
    /\ draft' = [e \in Editors |-> NoRow]
    /\ UNCHANGED <<now, row, ran, overlapped>>

Clock ==
    /\ now < MaxTime
    /\ now' = now + 1
    /\ UNCHANGED <<row, ran, schedulerVars, editorVars, faults, overlapped>>

-----------------------------------------------------------------------------
(* The task tools, and the reset of an agent's memories.                   *)

NewRow(interval, next) ==
    [place |-> "live", status |-> "pending", enabled |-> TRUE,
     interval |-> interval, last |-> None, next |-> next]

\* run_at may be any time from now on.
CreateOnce(t) ==
    /\ t \in OnceTasks
    /\ row[t].place = "absent"
    /\ \E at \in now..MaxTime : row' = [row EXCEPT ![t] = NewRow(0, at)]
    /\ UNCHANGED <<now, ran, schedulerVars, editorVars, faults, overlapped>>

CreateInterval(t) ==
    /\ t \in IntervalTasks
    /\ row[t].place = "absent"
    /\ \E i \in Intervals :
          /\ i >= MinInterval
          /\ row' = [row EXCEPT ![t] = NewRow(i, now + i)]
    /\ UNCHANGED <<now, ran, schedulerVars, editorVars, faults, overlapped>>

GetTask(e) ==
    /\ editing[e] = None
    /\ \E t \in Tasks :
          /\ Live(t)
          /\ editing' = [editing EXCEPT ![e] = t]
          /\ draft' = [draft EXCEPT ![e] = row[t]]
    /\ overlapped' = (overlapped \/ phase # "idle")
    /\ UNCHANGED <<now, row, ran, schedulerVars, faults>>

Release(e) ==
    /\ editing' = [editing EXCEPT ![e] = None]
    /\ draft' = [draft EXCEPT ![e] = NoRow]

\* A new run_at is a new next run unless the task is completed.
MovedTo(t, c) ==
    IF t \in OnceTasks /\ c.status # "completed"
    THEN {[c EXCEPT !.next = at] : at \in 0..MaxTime}
    ELSE {}

Spaced(t, c) ==
    IF t \in IntervalTasks
    THEN {[c EXCEPT !.interval = i, !.next = now + i] : i \in Intervals}
    ELSE {}

\* What one call may make of a task; its description says nothing here.
Changes(t, c) ==
    {[x EXCEPT !.enabled = on] : x \in {c} \cup MovedTo(t, c) \cup Spaced(t, c),
                                 on \in BOOLEAN}

\* The draft is saved whole.
UpdateTask(e) ==
    LET t == editing[e]
    IN  /\ t # None
        /\ \E new \in Changes(t, draft[e]) : row' = [row EXCEPT ![t] = new]
        /\ Release(e)
        /\ UNCHANGED <<now, ran, schedulerVars, faults, overlapped>>

DeleteTask(e) ==
    LET t == editing[e]
    IN  /\ t # None
        /\ row' = IF Live(t) THEN [row EXCEPT ![t].place = "deleted"] ELSE row
        /\ Release(e)
        /\ UNCHANGED <<now, ran, schedulerVars, faults, overlapped>>

\* Every task of the account goes, in one transaction.
ResetAgentMemories ==
    /\ row' = [t \in Tasks |-> IF row[t].place = "absent" THEN row[t]
                               ELSE [row[t] EXCEPT !.place = "deleted"]]
    /\ overlapped' = (overlapped \/ phase # "idle")
    /\ UNCHANGED <<now, ran, schedulerVars, editorVars, faults>>

-----------------------------------------------------------------------------
Schedule == Fetch \/ StartRun \/ RunSucceeds \/ RunFails \/ SaveTask \/ EndCheck

Edit ==
    \/ \E t \in Tasks : CreateOnce(t) \/ CreateInterval(t)
    \/ \E e \in Editors : GetTask(e) \/ UpdateTask(e) \/ DeleteTask(e)
    \/ ResetAgentMemories

Next == Schedule \/ Edit \/ Expire \/ Restart \/ Clock

Spec == Init /\ [][Next]_vars

\* The ticker, the runs (they have deadlines) and the clock go on.
FairSpec == Spec /\ WF_vars(Schedule) /\ WF_vars(Clock)

-----------------------------------------------------------------------------
\* A task that is enabled and pending has a time to run at: no edit, save, late
\* answer or restart leaves a task that looks scheduled and never comes due.
PendingHasTime ==
    \A t \in Tasks :
        Live(t) /\ row[t].enabled /\ row[t].status = "pending" => row[t].next # None

\* "Use 'once' for a one-time task": it succeeds once at most, unless an edit
\* read it before its run and saves it after, or the outcome was never saved.
OnceRunsOnce ==
    ~overlapped /\ faults = 0 => \A t \in OnceTasks : ran[t] <= 1

\* What is run is what the agent still wants run: the stored task is there and
\* enabled when its run starts, whatever was lost before, unless it is edited
\* while it waits its turn in a batch.
OnlyWantedRuns ==
    [][StartRun /\ ~overlapped => Live(Head(batch)) /\ row[Head(batch)].enabled]_vars

\* "Seconds between runs": the runs of a repeating task are an interval apart,
\* as long as they do not fail; one that failed is run again at the next check.
IntervalKept ==
    [][StartRun /\ ~overlapped /\ faults = 0 =>
          \/ Head(batch) \in OnceTasks \cup Failing
          \/ row[Head(batch)].last = None
          \/ now >= row[Head(batch)].last + row[Head(batch)].interval]_vars

\* "Create a scheduled task that runs automatically": a task that is due is run,
\* unless it is edited first.
Running(t) == phase = "running" /\ Head(batch) = t

DueTasksRun == \A t \in Tasks : Due(t) ~> ~Due(t) \/ Running(t)
=============================================================================
