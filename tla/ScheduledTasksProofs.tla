----------------------- MODULE ScheduledTasksProofs -----------------------
(***************************************************************************)
(* What holds of the scheduled tasks for every set of tasks and editors,   *)
(* every batch size, interval and clock, and every interleaving of edits,  *)
(* checks, expired deadlines and restarts.                                 *)
(***************************************************************************)
EXTENDS ScheduledTasks, FiniteSetTheorems, TLAPS

-----------------------------------------------------------------------------
(* The invariant: every record that is or may become a row has its time, so*)
(* that saving any of them, however stale, leaves the stored task sound.    *)

Timed(r) == r.place # "absent" /\ r.status = "pending" => r.next # None

RowsTimed   == \A t \in Tasks : Timed(row[t])
CopiesTimed == \A t \in Tasks : Timed(copy[t])
DraftsTimed == \A e \in Editors : Timed(draft[e])

AtWork == phase \in {"running", "succeeded", "failed"} => batch # <<>>

IInv == TypeOK /\ AtWork /\ RowsTimed /\ CopiesTimed /\ DraftsTimed

-----------------------------------------------------------------------------
(* The operators that make rows.                                           *)

LEMMA NoRowType == NoRow \in Rows /\ Timed(NoRow)
BY DEF NoRow, Rows, Times, Timed

LEMMA NewRowType ==
    ASSUME NEW i \in Intervals \cup {0}, NEW n \in Nat
    PROVE  NewRow(i, n) \in Rows /\ Timed(NewRow(i, n))
BY ScheduledTasksAssumption DEF NewRow, Rows, Times, Timed

LEMMA EndedType ==
    ASSUME NEW c \in Rows, now \in Nat, NEW s \in {"completed", "failed"}
    PROVE  Ended(c, s) \in Rows /\ Timed(Ended(c, s))
BY DEF Ended, Rows, Times, Timed

LEMMA AfterSuccessType ==
    ASSUME NEW t \in Tasks, NEW c \in Rows, Timed(c), now \in Nat
    PROVE  AfterSuccess(t, c) \in Rows /\ Timed(AfterSuccess(t, c))
<1>1. CASE t \in OnceTasks
  BY <1>1, EndedType DEF AfterSuccess
<1>2. CASE t \notin OnceTasks
  <2>1. c.interval \in Intervals \cup {0}
    BY DEF Rows
  <2>2. Intervals \cup {0} \subseteq Nat
    BY ScheduledTasksAssumption
  <2>3. c.interval \in Nat
    BY <2>1, <2>2
  <2>4. now + c.interval \in Nat
    BY <2>3
  <2>5. now + c.interval # None
    BY <2>4, ScheduledTasksAssumption
  <2> QED BY <1>2, <2>4, <2>5 DEF AfterSuccess, Rows, Times, Timed
<1> QED BY <1>1, <1>2

LEMMA AfterFailureType ==
    ASSUME NEW t \in Tasks, NEW c \in Rows, Timed(c), now \in Nat
    PROVE  AfterFailure(t, c) \in Rows /\ Timed(AfterFailure(t, c))
<1>1. CASE t \in OnceTasks
  BY <1>1, EndedType DEF AfterFailure
<1>2. CASE t \notin OnceTasks
  BY <1>2 DEF AfterFailure, Rows, Times, Timed
<1> QED BY <1>1, <1>2

LEMMA OutcomeType ==
    ASSUME IInv, NEW t \in Tasks
    PROVE  Outcome(t) \in Rows /\ Timed(Outcome(t))
<1>1. copy[t] \in Rows /\ Timed(copy[t]) /\ now \in Nat
  BY DEF IInv, TypeOK, CopiesTimed
<1> QED BY <1>1, AfterSuccessType, AfterFailureType DEF Outcome

\* Whatever an editor changes of a sound draft leaves it sound: a pending task
\* can be disabled and moved, never left without a time.
LEMMA UpdateType ==
    ASSUME NEW t \in Tasks, NEW c \in Rows, Timed(c), now \in Nat, MaxTime \in Nat,
           NEW new \in Changes(t, c)
    PROVE  new \in Rows /\ Timed(new)
<1>1. PICK x \in {c} \cup MovedTo(t, c) \cup Spaced(t, c), on \in BOOLEAN :
         new = [x EXCEPT !.enabled = on]
  BY DEF Changes
<1>2. x \in Rows /\ Timed(x)
  <2>1. CASE x = c
    BY <2>1
  <2>2. CASE x \in MovedTo(t, c)
    <3>1. PICK at \in 0..MaxTime : x = [c EXCEPT !.next = at]
      BY <2>2 DEF MovedTo
    <3>2. at \in Nat /\ at # None
      BY ScheduledTasksAssumption
    <3> QED BY <3>1, <3>2 DEF Rows, Times, Timed
  <2>3. CASE x \in Spaced(t, c)
    <3>1. PICK i \in Intervals : x = [c EXCEPT !.interval = i, !.next = now + i]
      BY <2>3 DEF Spaced
    <3>2. now + i \in Nat
      BY ScheduledTasksAssumption
    <3>3. now + i # None
      BY <3>2, ScheduledTasksAssumption
    <3> QED BY <3>1, <3>2, <3>3 DEF Rows, Times, Timed
  <2> QED BY <1>1, <2>1, <2>2, <2>3
<1> QED BY <1>1, <1>2 DEF Rows, Timed

LEMMA DueBatchesType == DueBatches \subseteq Seq(Tasks)
<1> DEFINE due == {t \in Tasks : Due(t)}
           len == IF Cardinality(due) < Batch THEN Cardinality(due) ELSE Batch
<1>1. IsFiniteSet(due)
  <2>1. IsFiniteSet(Tasks) /\ due \subseteq Tasks
    BY ScheduledTasksAssumption
  <2> QED BY <2>1, FS_Subset
<1>2. Cardinality(due) \in Nat
  BY <1>1, FS_CardinalityType
<1>3. len \in Nat
  BY <1>2, ScheduledTasksAssumption
<1>4. ASSUME NEW s \in [1..len -> due] PROVE s \in Seq(Tasks)
  <2>1. s \in [1..len -> Tasks]
    OBVIOUS
  <2> HIDE DEF len, due
  <2> QED BY <2>1, <1>3
<1> QED BY <1>4 DEF DueBatches

-----------------------------------------------------------------------------
(* The invariant holds initially and every step keeps it.                   *)

LEMMA InitHolds == Init => IInv
<1> SUFFICES ASSUME Init PROVE IInv
  OBVIOUS
<1>1. now \in 0..MaxTime /\ faults \in 0..MaxFaults
  BY ScheduledTasksAssumption DEF Init
<1>2. <<>> \in Seq(Tasks)
  OBVIOUS
<1>3. /\ row \in [Tasks -> Rows]
      /\ copy \in [Tasks -> Rows]
      /\ draft \in [Editors -> Rows]
  BY NoRowType DEF Init
<1>4. ran \in [Tasks -> 0..2] /\ editing \in [Editors -> Tasks \cup {None}]
  BY DEF Init
<1>5. TypeOK /\ AtWork
  BY <1>1, <1>2, <1>3, <1>4 DEF Init, TypeOK, AtWork
<1>6. RowsTimed /\ CopiesTimed /\ DraftsTimed
  BY NoRowType DEF Init, RowsTimed, CopiesTimed, DraftsTimed
<1> QED BY <1>5, <1>6 DEF IInv

\* A step that replaces one row by a sound one keeps the rows sound.
LEMMA OneRow ==
    ASSUME IInv, NEW t, NEW r \in Rows, Timed(r), row' = [row EXCEPT ![t] = r]
    PROVE  row' \in [Tasks -> Rows] /\ RowsTimed'
BY DEF IInv, TypeOK, RowsTimed

LEMMA SchedulerKeeps ==
    ASSUME IInv, Schedule
    PROVE  IInv'
<1> USE DEF IInv, TypeOK, AtWork, RowsTimed, CopiesTimed, DraftsTimed, schedulerVars, editorVars
<1>1. CASE Fetch
  <2>1. batch' \in Seq(Tasks)
    BY <1>1, DueBatchesType DEF Fetch
  <2>2. copy' \in [Tasks -> Rows] /\ CopiesTimed'
    BY <1>1 DEF Fetch
  <2> QED BY <1>1, <2>1, <2>2 DEF Fetch, Timed
<1>2. CASE StartRun
  BY <1>2 DEF StartRun, Timed
<1>3. CASE RunSucceeds
  <2>1. ran' \in [Tasks -> 0..2]
    <3>1. \A n \in 0..2 : (IF n < 2 THEN n + 1 ELSE n) \in 0..2
      OBVIOUS
    <3> QED BY <1>3, <3>1 DEF RunSucceeds
  <2> QED BY <1>3, <2>1 DEF RunSucceeds, Timed
<1>4. CASE RunFails
  BY <1>4 DEF RunFails, Timed
<1>5. CASE SaveTask
  <2> DEFINE t == Head(batch)
  <2>1. batch # <<>> /\ batch \in Seq(Tasks)
    BY <1>5 DEF SaveTask
  <2>2. t \in Tasks /\ Tail(batch) \in Seq(Tasks)
    BY <2>1
  <2>3. Outcome(t) \in Rows /\ Timed(Outcome(t))
    BY <2>2, OutcomeType
  <2>4. row' \in [Tasks -> Rows] /\ RowsTimed'
    <3>1. CASE expired
      BY <1>5, <3>1 DEF SaveTask, Timed
    <3>2. CASE ~expired
      BY <1>5, <3>2, <2>3, OneRow DEF SaveTask
    <3> QED BY <3>1, <3>2
  <2>5. copy' \in [Tasks -> Rows] /\ CopiesTimed'
    BY <1>5, NoRowType DEF SaveTask
  <2> QED BY <1>5, <2>2, <2>4, <2>5 DEF SaveTask, Timed
<1>6. CASE EndCheck
  BY <1>6 DEF EndCheck, Timed
<1> QED BY <1>1, <1>2, <1>3, <1>4, <1>5, <1>6 DEF Schedule

LEMMA EditKeeps ==
    ASSUME IInv, Edit
    PROVE  IInv'
<1> USE DEF IInv, TypeOK, AtWork, RowsTimed, CopiesTimed, DraftsTimed, schedulerVars, editorVars
<1>0. now \in Nat /\ MaxTime \in Nat
  BY ScheduledTasksAssumption
<1>1. ASSUME NEW t \in Tasks, CreateOnce(t) PROVE IInv'
  <2>1. PICK at \in now..MaxTime : row' = [row EXCEPT ![t] = NewRow(0, at)]
    BY <1>1 DEF CreateOnce
  <2>2. at \in Nat
    BY <1>0
  <2>3. NewRow(0, at) \in Rows /\ Timed(NewRow(0, at))
    BY <2>2, NewRowType
  <2>4. row' \in [Tasks -> Rows] /\ RowsTimed'
    BY <2>1, <2>3, OneRow
  <2> QED BY <1>1, <2>4 DEF CreateOnce, Timed
<1>2. ASSUME NEW t \in Tasks, CreateInterval(t) PROVE IInv'
  <2>1. PICK i \in Intervals : row' = [row EXCEPT ![t] = NewRow(i, now + i)]
    BY <1>2 DEF CreateInterval
  <2>2. now + i \in Nat
    BY <1>0, ScheduledTasksAssumption
  <2>3. row' \in [Tasks -> Rows] /\ RowsTimed'
    BY <2>1, <2>2, NewRowType, OneRow
  <2> QED BY <1>2, <2>3 DEF CreateInterval, Timed
<1>3. ASSUME NEW e \in Editors, GetTask(e) PROVE IInv'
  <2>1. PICK t \in Tasks : /\ editing' = [editing EXCEPT ![e] = t]
                           /\ draft' = [draft EXCEPT ![e] = row[t]]
    BY <1>3 DEF GetTask
  <2>2. draft' \in [Editors -> Rows] /\ DraftsTimed'
    BY <2>1
  <2>3. editing' \in [Editors -> Tasks \cup {None}]
    BY <2>1
  <2> QED BY <1>3, <2>2, <2>3 DEF GetTask, Timed
<1>4. ASSUME NEW e \in Editors, Release(e)
      PROVE  /\ editing' \in [Editors -> Tasks \cup {None}]
             /\ draft' \in [Editors -> Rows]
             /\ DraftsTimed'
  BY <1>4, NoRowType DEF Release
<1>5. ASSUME NEW e \in Editors, UpdateTask(e) PROVE IInv'
  <2> DEFINE t == editing[e]
             c == draft[e]
  <2>1. t \in Tasks /\ c \in Rows /\ Timed(c)
    BY <1>5 DEF UpdateTask
  <2>2. PICK new \in Changes(t, c) : row' = [row EXCEPT ![t] = new]
    BY <1>5 DEF UpdateTask
  <2>3. new \in Rows /\ Timed(new)
    BY <1>0, <2>1, <2>2, UpdateType
  <2>4. row' \in [Tasks -> Rows] /\ RowsTimed'
    BY <2>2, <2>3, OneRow
  <2> QED BY <1>4, <1>5, <2>4 DEF UpdateTask, Timed
<1>6. ASSUME NEW e \in Editors, DeleteTask(e) PROVE IInv'
  <2> DEFINE t == editing[e]
             r == [row[t] EXCEPT !.place = "deleted"]
  <2>0. t \in Tasks /\ row[t] \in Rows /\ Timed(row[t])
    BY <1>6 DEF DeleteTask
  <2>1. row' \in [Tasks -> Rows] /\ RowsTimed'
    <3>1. CASE Live(t)
      <4>1. r \in Rows /\ Timed(r)
        BY <2>0, <3>1 DEF Rows, Timed, Live
      <4>2. row' = [row EXCEPT ![t] = r]
        BY <1>6, <3>1 DEF DeleteTask
      <4> QED BY <4>1, <4>2, OneRow
    <3>2. CASE ~Live(t)
      BY <1>6, <3>2 DEF DeleteTask
    <3> QED BY <3>1, <3>2
  <2> QED BY <1>4, <1>6, <2>1 DEF DeleteTask, Timed
<1>7. CASE ResetAgentMemories
  <2>0. ASSUME NEW t \in Tasks PROVE row'[t] \in Rows /\ Timed(row'[t])
    <3> DEFINE r == [row[t] EXCEPT !.place = "deleted"]
    <3>1. row[t] \in Rows /\ Timed(row[t])
      OBVIOUS
    <3>2. row'[t] = IF row[t].place = "absent" THEN row[t] ELSE r
      BY <1>7 DEF ResetAgentMemories
    <3>3. row[t].place # "absent" => r \in Rows /\ Timed(r)
      BY <3>1 DEF Rows, Timed
    <3> QED BY <3>1, <3>2, <3>3
  <2>1. row' \in [Tasks -> Rows] /\ RowsTimed'
    <3>1. row' = [t \in Tasks |-> row'[t]]
      BY <1>7 DEF ResetAgentMemories
    <3> QED BY <2>0, <3>1
  <2> QED BY <1>7, <2>1 DEF ResetAgentMemories, Timed
<1> QED BY <1>1, <1>2, <1>3, <1>5, <1>6, <1>7 DEF Edit

LEMMA StepKeeps == IInv /\ [Next]_vars => IInv'
<1> SUFFICES ASSUME IInv, [Next]_vars PROVE IInv'
  OBVIOUS
<1> USE DEF IInv, TypeOK, AtWork, RowsTimed, CopiesTimed, DraftsTimed, schedulerVars, editorVars
<1>1. CASE Schedule
  BY <1>1, SchedulerKeeps
<1>2. CASE Edit
  BY <1>2, EditKeeps
<1>3. CASE Expire
  <2>1. faults' \in 0..MaxFaults
    BY <1>3, ScheduledTasksAssumption DEF Expire
  <2> QED BY <1>3, <2>1 DEF Expire, Timed
<1>4. CASE Restart
  <2>1. faults' \in 0..MaxFaults
    BY <1>4, ScheduledTasksAssumption DEF Restart
  <2>2. <<>> \in Seq(Tasks)
    OBVIOUS
  <2> QED BY <1>4, <2>1, <2>2, NoRowType DEF Restart, Timed
<1>5. CASE Clock
  <2>1. now' \in 0..MaxTime
    BY <1>5, ScheduledTasksAssumption DEF Clock
  <2> QED BY <1>5, <2>1 DEF Clock, Timed
<1>6. CASE UNCHANGED vars
  BY <1>6 DEF vars, Timed
<1> QED BY <1>1, <1>2, <1>3, <1>4, <1>5, <1>6 DEF Next

-----------------------------------------------------------------------------
LEMMA InvariantHolds == Spec => []IInv
BY InitHolds, StepKeeps, PTL DEF Spec

\* Every row, copy and draft is a row the code can store.
THEOREM TypeCorrect == Spec => []TypeOK
<1>1. IInv => TypeOK
  BY DEF IInv
<1> QED BY <1>1, InvariantHolds, PTL

\* Whatever edits, saves of stale copies, expired deadlines and restarts do to
\* one another, a task that is enabled and pending has a time to run at.
THEOREM PendingTasksHaveTime == Spec => []PendingHasTime
<1>1. IInv => PendingHasTime
  BY DEF IInv, RowsTimed, Timed, PendingHasTime, Live
<1> QED BY <1>1, InvariantHolds, PTL

-----------------------------------------------------------------------------
(* What is run, and how often, as long as no edit overlapped a check.  The  *)
(* fetched copies are then the rows themselves, and the editors' drafts have *)
(* the status of their rows, so that a save takes back no other.            *)

BatchIsDue ==
    \A i \in 1..Len(batch) : Due(batch[i]) /\ copy[batch[i]] = row[batch[i]]

BatchDistinct == \A i, j \in 1..Len(batch) : batch[i] = batch[j] => i = j

CheckAlone ==
    ~overlapped /\ phase # "idle" =>
        /\ \A e \in Editors : editing[e] = None
        /\ BatchIsDue
        /\ BatchDistinct

DraftOfRow(e) ==
    /\ draft[e].place = "live"
    /\ row[editing[e]].place # "absent"
    /\ draft[e].status = row[editing[e]].status

DraftsOfRows ==
    ~overlapped => \A e \in Editors : editing[e] # None => DraftOfRow(e)

\* What went wrong has a cause that was counted.
FailuresExplained ==
    /\ expired => faults > 0
    /\ phase = "failed" => expired \/ Head(batch) \in Failing

Over(t) == row[t].place # "absent" /\ row[t].status = "completed"

RanOnce(t) ==
    /\ ran[t] <= 1
    /\ ran[t] = 1 => Over(t) \/ (phase = "succeeded" /\ Head(batch) = t)

OnceInv == ~overlapped /\ faults = 0 => \A t \in OnceTasks : RanOnce(t)

\* A record of a repeating task comes due an interval after its last run.
IntervalAhead(r) ==
    r.last # None => /\ r.last <= now
                     /\ r.next # None
                     /\ r.last + r.interval <= r.next

Reliable == IntervalTasks \ Failing

RecordsSpaced ==
    faults = 0 =>
        /\ \A t \in Reliable : IntervalAhead(row[t]) /\ IntervalAhead(copy[t])
        /\ \A e \in Editors : editing[e] \in Reliable => IntervalAhead(draft[e])

CalmInv ==
    IInv /\ CheckAlone /\ DraftsOfRows /\ FailuresExplained /\ OnceInv /\ RecordsSpaced

LEMMA CalmInit == Init => CalmInv
<1> SUFFICES ASSUME Init PROVE CalmInv
  OBVIOUS
<1>1. IInv
  BY InitHolds
<1>2. CheckAlone /\ DraftsOfRows /\ FailuresExplained
  BY DEF Init, CheckAlone, DraftsOfRows, FailuresExplained
<1>3. OnceInv
  BY DEF Init, OnceInv, RanOnce, Tasks
<1>4. RecordsSpaced
  BY DEF Init, RecordsSpaced, Reliable, IntervalAhead, NoRow, Tasks
<1> QED BY <1>1, <1>2, <1>3, <1>4 DEF CalmInv

\* The head of a batch is its first task, and the tail keeps the others' order.
LEMMA BatchParts ==
    ASSUME batch \in Seq(Tasks), batch # <<>>
    PROVE  /\ Head(batch) = batch[1] /\ Head(batch) \in Tasks
           /\ 1 \in 1..Len(batch)
           /\ Tail(batch) \in Seq(Tasks)
           /\ \A i \in 1..Len(Tail(batch)) :
                 i + 1 \in 1..Len(batch) /\ Tail(batch)[i] = batch[i + 1]
  OBVIOUS

LEMMA DueFetched ==
    ASSUME NEW s \in DueBatches
    PROVE  /\ \A i \in 1..Len(s) : s[i] \in Tasks /\ Due(s[i])
           /\ \A i, j \in 1..Len(s) : s[i] = s[j] => i = j
<1> DEFINE due == {t \in Tasks : Due(t)}
           len == IF Cardinality(due) < Batch THEN Cardinality(due) ELSE Batch
           Earlier(t, u) == row[t].next <= row[u].next
<1>1. /\ s \in [1..len -> due]
      /\ \A i, j \in 1..len : i < j => s[i] # s[j] /\ Earlier(s[i], s[j])
  BY DEF DueBatches
<1>2. len \in Nat
  <2>1. IsFiniteSet(due)
    BY ScheduledTasksAssumption, FS_Subset
  <2> QED BY <2>1, FS_CardinalityType, ScheduledTasksAssumption
<1> HIDE DEF len, due
<1>3. Len(s) = len /\ \A i \in 1..len : s[i] \in due
  BY <1>1, <1>2
<1> QED BY <1>1, <1>2, <1>3 DEF due

LEMMA SavedRow ==
    ASSUME CalmInv, SaveTask, ~overlapped, ~expired
    PROVE  /\ batch # <<>> /\ batch \in Seq(Tasks)
           /\ Due(Head(batch)) /\ copy[Head(batch)] = row[Head(batch)]
           /\ row' = [row EXCEPT ![Head(batch)] = Outcome(Head(batch))]
           /\ Outcome(Head(batch)) \in Rows
<1>1. batch # <<>> /\ batch \in Seq(Tasks)
  BY DEF CalmInv, IInv, TypeOK, AtWork, SaveTask
<1>2. Due(Head(batch)) /\ copy[Head(batch)] = row[Head(batch)]
  BY <1>1, BatchParts DEF CalmInv, CheckAlone, BatchIsDue, SaveTask
<1>3. Outcome(Head(batch)) \in Rows
  BY <1>1, BatchParts, OutcomeType DEF CalmInv
<1> QED BY <1>1, <1>2, <1>3 DEF SaveTask

\* What a check works on stays as it was fetched while no edit overlaps it.
LEMMA AloneStep == CalmInv /\ [Next]_vars => CheckAlone'
<1> SUFFICES ASSUME CalmInv, [Next]_vars, ~overlapped', phase' # "idle"
             PROVE  /\ \A e \in Editors : editing'[e] = None
                    /\ BatchIsDue' /\ BatchDistinct'
  BY DEF CheckAlone
<1> USE DEF schedulerVars, editorVars
<1>0. /\ TypeOK /\ AtWork
      /\ now \in Nat /\ None \notin Nat
  BY ScheduledTasksAssumption DEF CalmInv, IInv, TypeOK
<1>1. ASSUME phase # "idle", ~overlapped
      PROVE  (\A e \in Editors : editing[e] = None) /\ BatchIsDue /\ BatchDistinct
  BY <1>1 DEF CalmInv, CheckAlone
\* Steps that leave the batch and the fetched rows alone.
<1>2. ASSUME phase # "idle", ~overlapped, UNCHANGED <<batch, copy, editing>>, now' \in Nat, now <= now',
             \A t \in Tasks : Due(t) => row'[t] = row[t]
      PROVE  (\A e \in Editors : editing'[e] = None) /\ BatchIsDue' /\ BatchDistinct'
  <2>1. (\A e \in Editors : editing'[e] = None) /\ BatchDistinct'
    BY <1>1, <1>2 DEF BatchDistinct
  <2>2. BatchIsDue'
    <3> SUFFICES ASSUME NEW i \in 1..Len(batch)
                 PROVE  Due(batch[i])' /\ copy'[batch[i]] = row'[batch[i]]
      BY <1>2 DEF BatchIsDue
    <3>1. Due(batch[i]) /\ copy[batch[i]] = row[batch[i]] /\ batch[i] \in Tasks
      BY <1>0, <1>1, <1>2 DEF BatchIsDue, TypeOK
    <3>2. row'[batch[i]] = row[batch[i]] /\ row[batch[i]].next \in Nat
      BY <1>0, <1>2, <3>1 DEF TypeOK, Rows, Times, Due
    <3> QED BY <1>0, <1>2, <3>1, <3>2 DEF Due, Live
  <2> QED BY <2>1, <2>2
<1>3. CASE Fetch
  <2>1. \A e \in Editors : editing'[e] = None
    BY <1>3 DEF Fetch
  <2>2. BatchDistinct'
    BY <1>3, DueFetched DEF Fetch, BatchDistinct
  <2>3. BatchIsDue'
    <3> SUFFICES ASSUME NEW i \in 1..Len(batch')
                 PROVE  (Due(batch[i]) /\ copy[batch[i]] = row[batch[i]])'
      BY DEF BatchIsDue
    <3>1. Due(batch'[i]) /\ batch'[i] \in Tasks
      BY <1>3, DueFetched DEF Fetch
    <3> QED BY <1>3, <3>1 DEF Fetch, Due, Live
  <2> QED BY <2>1, <2>2, <2>3
<1>4. CASE StartRun \/ RunSucceeds \/ RunFails \/ Expire \/ UNCHANGED vars
  <2>1. phase # "idle" /\ ~overlapped /\ UNCHANGED <<batch, copy, editing, row, now>>
    BY <1>4 DEF StartRun, RunSucceeds, RunFails, Expire, vars
  <2> QED BY <1>0, <1>2, <2>1
<1>5. CASE SaveTask
  <2>0. ~overlapped /\ phase # "idle" /\ UNCHANGED <<editing, now>>
    BY <1>5 DEF SaveTask
  <2>1. batch # <<>> /\ batch \in Seq(Tasks) /\ batch' = Tail(batch)
    BY <1>0, <1>5 DEF TypeOK, AtWork, SaveTask
  <2>2. BatchIsDue /\ BatchDistinct /\ \A e \in Editors : editing[e] = None
    BY <1>1, <2>0
  <2>3. ASSUME NEW i \in 1..Len(batch')
        PROVE  /\ batch'[i] = batch[i + 1] /\ i + 1 \in 1..Len(batch)
               /\ batch'[i] # Head(batch) /\ batch'[i] \in Tasks
    <3>1. batch'[i] = batch[i + 1] /\ i + 1 \in 1..Len(batch) /\ i + 1 # 1
      BY <2>1, <2>3, BatchParts
    <3>2. batch[i + 1] # batch[1]
      BY <2>1, <2>2, <3>1, BatchParts DEF BatchDistinct
    <3> QED BY <2>1, <3>1, <3>2, BatchParts
  <2>4. BatchDistinct'
    BY <2>1, <2>2, <2>3 DEF BatchDistinct
  <2>5. BatchIsDue'
    <3> SUFFICES ASSUME NEW i \in 1..Len(batch')
                 PROVE  (Due(batch[i]) /\ copy[batch[i]] = row[batch[i]])'
      BY DEF BatchIsDue
    <3> DEFINE t == batch'[i]
    <3>1. Due(t) /\ copy[t] = row[t] /\ t \in Tasks /\ t # Head(batch)
      BY <2>2, <2>3 DEF BatchIsDue
    <3> HIDE DEF t
    <3>2. row'[t] = row[t] /\ copy'[t] = copy[t]
      BY <1>0, <1>5, <3>1 DEF SaveTask, TypeOK
    <3> QED BY <1>0, <2>0, <3>1, <3>2 DEF Due, Live, t
  <2> QED BY <2>0, <2>2, <2>4, <2>5
<1>6. CASE EndCheck \/ Restart
  BY <1>6 DEF EndCheck, Restart
<1>7. CASE Clock
  BY <1>0, <1>2, <1>7 DEF Clock
<1>8. ASSUME NEW t \in Tasks, CreateOnce(t) \/ CreateInterval(t)
      PROVE  (\A e \in Editors : editing'[e] = None) /\ BatchIsDue' /\ BatchDistinct'
  <2>1. ASSUME NEW u \in Tasks, Due(u) PROVE row'[u] = row[u]
    BY <1>0, <1>8, <2>1 DEF CreateOnce, CreateInterval, Due, Live, TypeOK
  <2>2. phase # "idle" /\ ~overlapped /\ UNCHANGED <<batch, copy, editing, now>>
    BY <1>8 DEF CreateOnce, CreateInterval
  <2> QED BY <1>0, <1>2, <2>1, <2>2
<1>9. ASSUME NEW e \in Editors, GetTask(e) \/ UpdateTask(e) \/ DeleteTask(e)
      PROVE  FALSE
  BY <1>1, <1>9 DEF GetTask, UpdateTask, DeleteTask
<1>10. ResetAgentMemories => FALSE
  BY DEF ResetAgentMemories
<1> QED BY <1>3, <1>4, <1>5, <1>6, <1>7, <1>8, <1>9, <1>10 DEF Next, Schedule, Edit

\* An update never changes where its task stands, nor is a draft other than live.
LEMMA UpdatedFields ==
    ASSUME NEW t \in Tasks, NEW c \in Rows, NEW new \in Changes(t, c)
    PROVE  new.place = c.place /\ new.status = c.status /\ new.last = c.last
<1>1. PICK x \in {c} \cup MovedTo(t, c) \cup Spaced(t, c), on \in BOOLEAN :
         new = [x EXCEPT !.enabled = on]
  BY DEF Changes
<1>2. \/ x = c
      \/ \E at \in 0..MaxTime : x = [c EXCEPT !.next = at]
      \/ \E i \in Intervals : x = [c EXCEPT !.interval = i, !.next = now + i]
  BY <1>1 DEF MovedTo, Spaced
<1> QED BY <1>1, <1>2 DEF Rows

\* What a save writes of a task that was due.
LEMMA OutcomeFields ==
    ASSUME NEW t \in Tasks, NEW c \in Rows, c.place = "live"
    PROVE  /\ AfterSuccess(t, c).place = "live"
           /\ AfterFailure(t, c).place = "live"
           /\ t \in OnceTasks => AfterSuccess(t, c).status = "completed"
BY DEF AfterSuccess, AfterFailure, Ended, Rows

LEMMA FetchAlone == Fetch /\ ~overlapped' => ~overlapped
<1> SUFFICES ASSUME Fetch, overlapped PROVE overlapped'
  OBVIOUS
<1>1. overlapped' = (overlapped \/ \E e \in Editors : editing[e] # None)
  BY DEF Fetch
<1> QED BY <1>1, Zenon

LEMMA DraftsStep == CalmInv /\ [Next]_vars => DraftsOfRows'
<1> SUFFICES ASSUME CalmInv, [Next]_vars, ~overlapped', NEW e \in Editors,
                    editing'[e] # None
             PROVE  DraftOfRow(e)'
  BY DEF DraftsOfRows
<1> USE DEF schedulerVars, editorVars
<1>0. TypeOK /\ CheckAlone /\ DraftsOfRows
  BY DEF CalmInv, IInv
<1>1. ASSUME ~overlapped, editing[e] # None
      PROVE  DraftOfRow(e) /\ phase = "idle" /\ editing[e] \in Tasks
  BY <1>0, <1>1 DEF CheckAlone, DraftsOfRows, TypeOK
<1>2. ASSUME ~overlapped, editing[e] # None, editing'[e] = editing[e], draft'[e] = draft[e],
             row'[editing[e]].place = "absent" => row[editing[e]].place = "absent",
             row'[editing[e]].status = row[editing[e]].status
      PROVE  DraftOfRow(e)'
  BY <1>1, <1>2 DEF DraftOfRow
<1>3. CASE StartRun \/ RunSucceeds \/ RunFails \/ SaveTask \/ EndCheck \/ Expire
  <2>1. ~overlapped /\ editing[e] # None /\ phase # "idle"
    BY <1>3 DEF StartRun, RunSucceeds, RunFails, SaveTask, EndCheck, Expire
  <2> QED BY <1>1, <2>1
<1>4. CASE Fetch \/ Clock \/ UNCHANGED vars
  <2>1. ~overlapped /\ UNCHANGED <<editing, draft, row>>
    BY <1>4, FetchAlone DEF Fetch, Clock, vars
  <2> QED BY <1>2, <2>1
<1>5. CASE Restart
  BY <1>5 DEF Restart
<1>6. ASSUME NEW t \in Tasks, CreateOnce(t) \/ CreateInterval(t) PROVE DraftOfRow(e)'
  <2>1. ~overlapped /\ UNCHANGED <<editing, draft>> /\ row[t].place = "absent"
        /\ \A u \in Tasks \ {t} : row'[u] = row[u]
    BY <1>0, <1>6 DEF CreateOnce, CreateInterval, TypeOK
  <2>2. editing[e] # t
    BY <1>1, <2>1 DEF DraftOfRow
  <2> QED BY <1>1, <1>2, <2>1, <2>2
<1>7. ASSUME NEW d \in Editors, GetTask(d) PROVE DraftOfRow(e)'
  <2>1. PICK t \in Tasks : Live(t) /\ editing' = [editing EXCEPT ![d] = t]
                           /\ draft' = [draft EXCEPT ![d] = row[t]]
    BY <1>7 DEF GetTask
  <2>2. ~overlapped /\ row' = row
    BY <1>7 DEF GetTask
  <2>3. CASE d = e
    BY <1>0, <2>1, <2>2, <2>3 DEF TypeOK, DraftOfRow, Live
  <2>4. CASE d # e
    BY <1>0, <1>2, <2>1, <2>2, <2>4 DEF TypeOK
  <2> QED BY <2>3, <2>4
<1>8. ASSUME NEW d \in Editors, UpdateTask(d) \/ DeleteTask(d) PROVE DraftOfRow(e)'
  <2> DEFINE t == editing[d]
  <2>1. /\ ~overlapped /\ t # None /\ editing'[d] = None /\ d # e
        /\ editing'[e] = editing[e] /\ draft'[e] = draft[e]
    BY <1>0, <1>8 DEF UpdateTask, DeleteTask, Release, TypeOK
  <2>2. t \in Tasks /\ DraftOfRow(d) /\ draft[d] \in Rows
    BY <1>0, <2>1 DEF TypeOK, DraftsOfRows
  <2>3. /\ \A u \in Tasks \ {t} : row'[u] = row[u]
        /\ row'[t].status = row[t].status
        /\ row'[t].place # "absent"
    <3>1. CASE UpdateTask(d)
      <4>1. PICK new \in Changes(t, draft[d]) : row' = [row EXCEPT ![t] = new]
        BY <3>1 DEF UpdateTask
      <4> QED BY <1>0, <2>2, <4>1, UpdatedFields DEF TypeOK, DraftOfRow
    <3>2. CASE DeleteTask(d)
      BY <1>0, <2>2, <3>2 DEF DeleteTask, TypeOK, Rows, DraftOfRow
    <3> QED BY <1>8, <3>1, <3>2
  <2> QED BY <1>1, <1>2, <2>1, <2>3
<1>9. CASE ResetAgentMemories
  <2>1. ~overlapped /\ UNCHANGED <<editing, draft>>
    BY <1>9 DEF ResetAgentMemories
  <2>2. ASSUME NEW t \in Tasks
        PROVE  /\ row'[t].place = "absent" => row[t].place = "absent"
               /\ row'[t].status = row[t].status
    BY <1>0, <1>9 DEF ResetAgentMemories, TypeOK, Rows
  <2> QED BY <1>1, <1>2, <2>1, <2>2
<1> QED BY <1>3, <1>4, <1>5, <1>6, <1>7, <1>8, <1>9 DEF Next, Schedule, Edit

LEMMA FailuresStep == CalmInv /\ [Next]_vars => FailuresExplained'
<1> SUFFICES ASSUME FailuresExplained, TypeOK, [Next]_vars PROVE FailuresExplained'
  BY DEF CalmInv, IInv
<1> USE DEF schedulerVars, editorVars, FailuresExplained
<1>1. CASE Schedule
  BY <1>1 DEF Schedule, Fetch, StartRun, RunSucceeds, RunFails, SaveTask, EndCheck
<1>2. CASE Edit
  <2>1. UNCHANGED <<phase, batch, expired, faults>>
    BY <1>2 DEF Edit, CreateOnce, CreateInterval, GetTask, UpdateTask, DeleteTask,
       ResetAgentMemories
  <2> QED BY <2>1
<1>3. CASE Expire \/ Restart
  BY <1>3 DEF Expire, Restart, TypeOK
<1>4. CASE Clock \/ UNCHANGED vars
  BY <1>4 DEF Clock, vars
<1> QED BY <1>1, <1>2, <1>3, <1>4 DEF Next

\* A task that succeeded once is completed, or its outcome is about to be saved.
LEMMA OnceStep == CalmInv /\ [Next]_vars => OnceInv'
<1> SUFFICES ASSUME CalmInv, [Next]_vars, ~overlapped', faults' = 0, NEW t \in OnceTasks
             PROVE  RanOnce(t)'
  BY DEF OnceInv
<1> USE DEF schedulerVars, editorVars
<1>0. TypeOK /\ AtWork /\ CheckAlone /\ DraftsOfRows /\ FailuresExplained /\ t \in Tasks
  BY DEF CalmInv, IInv, Tasks
<1>1. ASSUME ~overlapped, faults = 0 PROVE RanOnce(t) /\ ~expired
  BY <1>0, <1>1 DEF CalmInv, OnceInv, FailuresExplained
<1>2. ASSUME ~overlapped, faults = 0, ran'[t] = ran[t], Over(t) => Over(t)',
             phase = "succeeded" /\ Head(batch) = t => \/ phase' = "succeeded" /\ Head(batch') = t
                                                       \/ Over(t)'
      PROVE  RanOnce(t)'
  BY <1>1, <1>2 DEF RanOnce
<1>3. CASE StartRun \/ RunFails \/ EndCheck \/ Fetch \/ Clock \/ UNCHANGED vars
  <2>1. ~overlapped /\ faults = 0 /\ UNCHANGED <<row, ran>>
    BY <1>3, FetchAlone DEF StartRun, RunFails, EndCheck, Fetch, Clock, vars
  <2>2. phase = "succeeded" => UNCHANGED <<phase, batch>>
    BY <1>3 DEF StartRun, RunFails, EndCheck, Fetch, Clock, vars
  <2> QED BY <1>2, <2>1, <2>2 DEF Over
<1>4. CASE RunSucceeds
  <2>1. /\ ~overlapped /\ faults = 0 /\ UNCHANGED <<row, batch>>
        /\ phase = "running" /\ phase' = "succeeded"
    BY <1>4 DEF RunSucceeds
  <2>2. CASE Head(batch) = t
    <3>1. batch # <<>> /\ batch \in Seq(Tasks)
      BY <1>0, <2>1 DEF AtWork, TypeOK
    <3>2. Due(t)
      BY <1>0, <2>1, <2>2, <3>1, BatchParts DEF CheckAlone, BatchIsDue
    <3>3. ran[t] = 0
      <4>1. ~Over(t)
        BY <3>2 DEF Due, Over
      <4>2. ran[t] \in 0..2
        BY <1>0 DEF TypeOK
      <4> QED BY <1>1, <2>1, <4>1, <4>2 DEF RanOnce
    <3>4. ran'[t] = 1
      BY <1>0, <1>4, <2>2, <3>3 DEF RunSucceeds, TypeOK
    <3> QED BY <2>1, <2>2, <3>4 DEF RanOnce
  <2>3. CASE Head(batch) # t
    <3>1. ran'[t] = ran[t]
      BY <1>0, <1>4, <2>3 DEF RunSucceeds, TypeOK
    <3> QED BY <1>2, <2>1, <2>3, <3>1 DEF Over
  <2> QED BY <2>2, <2>3
<1>5. CASE SaveTask
  <2> DEFINE h == Head(batch)
  <2>1. ~overlapped /\ faults = 0 /\ UNCHANGED ran
    BY <1>5 DEF SaveTask
  <2>2. /\ Due(h) /\ copy[h] = row[h] /\ h \in Tasks
        /\ row' = [row EXCEPT ![h] = Outcome(h)]
    BY <1>1, <1>5, <2>1, SavedRow, BatchParts
  <2> HIDE DEF h
  <2>3. CASE h # t
    <3>1. row'[t] = row[t]
      BY <1>0, <2>2, <2>3 DEF TypeOK
    <3> QED BY <1>2, <2>1, <2>3, <3>1 DEF Over, h
  <2>4. CASE h = t
    <3>1. row'[t] = Outcome(t) /\ copy[t].place = "live" /\ copy[t] \in Rows
      BY <1>0, <2>2, <2>4 DEF TypeOK, Due, Live
    <3>2. ~Over(t)
      BY <2>2, <2>4 DEF Due, Over
    <3>3. phase = "succeeded" => Over(t)'
      BY <1>0, <3>1, OutcomeFields DEF Outcome, Over
    <3> QED BY <1>2, <2>1, <3>2, <3>3
  <2> QED BY <2>3, <2>4
<1>6. CASE Expire \/ Restart
  BY <1>0, <1>6 DEF Expire, Restart, TypeOK
<1>7. ASSUME NEW u \in Tasks, CreateOnce(u) \/ CreateInterval(u) PROVE RanOnce(t)'
  <2>1. ~overlapped /\ faults = 0 /\ UNCHANGED <<ran, phase, batch>>
    BY <1>7 DEF CreateOnce, CreateInterval
  <2>2. Over(t) => Over(t)'
    BY <1>0, <1>7 DEF CreateOnce, CreateInterval, Over, TypeOK
  <2> QED BY <1>2, <2>1, <2>2
<1>8. ASSUME NEW d \in Editors, GetTask(d) PROVE RanOnce(t)'
  BY <1>2, <1>8 DEF GetTask, Over
<1>9. ASSUME NEW d \in Editors, UpdateTask(d) \/ DeleteTask(d) PROVE RanOnce(t)'
  <2> DEFINE u == editing[d]
  <2>1. ~overlapped /\ faults = 0 /\ UNCHANGED <<ran, phase, batch>> /\ u # None
    BY <1>9 DEF UpdateTask, DeleteTask
  <2>2. u \in Tasks /\ DraftOfRow(d) /\ draft[d] \in Rows
    BY <1>0, <2>1 DEF TypeOK, DraftsOfRows
  <2>3. Over(t) => Over(t)'
    <3>1. CASE UpdateTask(d)
      <4>1. PICK new \in Changes(u, draft[d]) : row' = [row EXCEPT ![u] = new]
        BY <3>1 DEF UpdateTask
      <4> QED BY <1>0, <2>2, <4>1, UpdatedFields DEF TypeOK, DraftOfRow, Over
    <3>2. CASE DeleteTask(d)
      BY <1>0, <2>2, <3>2 DEF DeleteTask, TypeOK, Rows, Over
    <3> QED BY <1>9, <3>1, <3>2
  <2> QED BY <1>2, <2>1, <2>3
<1>10. CASE ResetAgentMemories
  <2>1. ~overlapped /\ faults = 0 /\ UNCHANGED <<ran, phase, batch>>
    BY <1>10 DEF ResetAgentMemories
  <2>2. Over(t) => Over(t)'
    BY <1>0, <1>10 DEF ResetAgentMemories, TypeOK, Rows, Over
  <2> QED BY <1>2, <2>1, <2>2
<1> QED BY <1>3, <1>4, <1>5, <1>6, <1>7, <1>8, <1>9, <1>10 DEF Next, Schedule, Edit

LEMMA RowFields ==
    ASSUME NEW r \in Rows
    PROVE  r.interval \in Nat /\ r.last \in Times /\ r.next \in Times
<1>1. Intervals \cup {0} \subseteq Nat
  BY ScheduledTasksAssumption
<1> QED BY <1>1 DEF Rows

LEMMA NoRowAhead == IntervalAhead(NoRow)
BY DEF IntervalAhead, NoRow

\* A reliable task that was run comes due an interval later, and an edit gives
\* it a time an interval from now.
LEMMA SuccessAhead ==
    ASSUME NEW t \in Reliable, NEW c \in Rows, now \in Nat
    PROVE  IntervalAhead(AfterSuccess(t, c))
<1>0. c.interval \in Nat
  BY RowFields
<1>1. now + c.interval \in Nat /\ now + c.interval # None
  <2>1. now + c.interval \in Nat
    BY <1>0
  <2> QED BY <2>1, ScheduledTasksAssumption
<1>2. t \notin OnceTasks
  BY ScheduledTasksAssumption DEF Reliable
<1>3. AfterSuccess(t, c) = [c EXCEPT !.last = now, !.next = now + c.interval]
  BY <1>2 DEF AfterSuccess
<1>4. /\ AfterSuccess(t, c).last = now /\ AfterSuccess(t, c).next = now + c.interval
      /\ AfterSuccess(t, c).interval = c.interval
  BY <1>3 DEF Rows
<1> QED BY <1>0, <1>1, <1>4 DEF IntervalAhead

LEMMA UpdateAhead ==
    ASSUME NEW t \in Reliable, NEW c \in Rows, IntervalAhead(c), now \in Nat,
           NEW new \in Changes(t, c)
    PROVE  IntervalAhead(new)
<1>1. t \notin OnceTasks
  BY ScheduledTasksAssumption DEF Reliable
<1>2. PICK x \in {c} \cup Spaced(t, c), on \in BOOLEAN : new = [x EXCEPT !.enabled = on]
  BY <1>1 DEF Changes, MovedTo
<1>3. CASE x = c
  BY <1>2, <1>3 DEF IntervalAhead, Rows
<1>4. CASE x \in Spaced(t, c)
  <2>1. PICK i \in Intervals : x = [c EXCEPT !.interval = i, !.next = now + i]
    BY <1>4 DEF Spaced
  <2>2. i \in Nat /\ now + i \in Nat /\ now + i # None
    BY ScheduledTasksAssumption
  <2>3. new.last = c.last /\ new.interval = i /\ new.next = now + i
    BY <1>2, <2>1 DEF Rows
  <2>4. c.last # None => c.last \in Nat /\ c.last <= now
    BY DEF IntervalAhead, Rows, Times
  <2> QED BY <2>2, <2>3, <2>4 DEF IntervalAhead
<1> QED BY <1>2, <1>3, <1>4

LEMMA SpacedStep == CalmInv /\ [Next]_vars => RecordsSpaced'
<1> SUFFICES ASSUME CalmInv, [Next]_vars, faults' = 0 PROVE RecordsSpaced'
  BY DEF RecordsSpaced
<1> USE DEF schedulerVars, editorVars
<1>0. /\ TypeOK /\ AtWork /\ FailuresExplained /\ now \in Nat /\ None \notin Nat
      /\ Reliable \subseteq Tasks
  BY ScheduledTasksAssumption DEF CalmInv, IInv, TypeOK, Reliable, Tasks
<1>1. ASSUME faults = 0
      PROVE  /\ \A t \in Reliable : IntervalAhead(row[t]) /\ IntervalAhead(copy[t])
             /\ \A e \in Editors : editing[e] \in Reliable => IntervalAhead(draft[e])
             /\ ~expired
  BY <1>0, <1>1 DEF CalmInv, RecordsSpaced, FailuresExplained
<1>2. ASSUME faults = 0, now' = now,
             \A t \in Reliable : /\ row'[t] = row[t] \/ IntervalAhead(row'[t])
                                 /\ copy'[t] = copy[t] \/ copy'[t] = row[t] \/ copy'[t] = NoRow,
             \A e \in Editors : editing'[e] \in Reliable =>
                 \/ editing'[e] = editing[e] /\ draft'[e] = draft[e]
                 \/ draft'[e] = row[editing'[e]]
      PROVE  RecordsSpaced'
  BY <1>1, <1>2, NoRowAhead DEF RecordsSpaced, IntervalAhead
<1>3. CASE StartRun \/ RunSucceeds \/ RunFails \/ EndCheck \/ Expire \/ UNCHANGED vars
  <2>1. UNCHANGED <<now, row, copy, editing, draft>> /\ faults = 0
    BY <1>0, <1>3 DEF StartRun, RunSucceeds, RunFails, EndCheck, Expire, vars, TypeOK
  <2> QED BY <1>2, <2>1
<1>4. CASE Fetch
  <2>1. /\ UNCHANGED <<now, row, editing, draft>> /\ faults = 0
        /\ \A t \in Tasks : copy'[t] = copy[t] \/ copy'[t] = row[t]
    BY <1>4 DEF Fetch
  <2> QED BY <1>0, <1>2, <2>1
<1>5. CASE SaveTask
  <2> DEFINE h == Head(batch)
  <2>1. /\ UNCHANGED <<now, editing, draft>> /\ faults = 0
        /\ phase \in {"succeeded", "failed"}
        /\ row' = [row EXCEPT ![h] = Outcome(h)]
        /\ copy' = [copy EXCEPT ![h] = NoRow]
    BY <1>1, <1>5 DEF SaveTask
  <2>2. h \in Tasks /\ copy[h] \in Rows
    BY <1>0, <2>1, BatchParts DEF AtWork, TypeOK
  <2> HIDE DEF h
  <2>3. h \in Reliable => IntervalAhead(Outcome(h))
    <3> SUFFICES ASSUME h \in Reliable PROVE IntervalAhead(Outcome(h))
      OBVIOUS
    <3>1. phase = "succeeded"
      BY <1>0, <1>1, <2>1 DEF FailuresExplained, Reliable, h
    <3> QED BY <1>0, <2>2, <3>1, SuccessAhead DEF Outcome
  <2>4. ASSUME NEW t \in Reliable
        PROVE  /\ row'[t] = row[t] \/ IntervalAhead(row'[t])
               /\ copy'[t] = copy[t] \/ copy'[t] = NoRow
    BY <1>0, <2>1, <2>2, <2>3 DEF TypeOK
  <2> QED BY <1>2, <2>1, <2>4
<1>6. CASE Restart
  BY <1>0, <1>6 DEF Restart, TypeOK
<1>7. CASE Clock
  <2>1. UNCHANGED <<row, copy, editing, draft>> /\ faults = 0 /\ now' = now + 1
    BY <1>7 DEF Clock
  <2>2. ASSUME NEW r \in Rows, IntervalAhead(r) PROVE IntervalAhead(r)'
    BY <1>0, <2>1, <2>2 DEF IntervalAhead, Rows, Times
  <2>3. /\ \A t \in Reliable : IntervalAhead(row[t])' /\ IntervalAhead(copy[t])'
        /\ \A e \in Editors : editing[e] \in Reliable => IntervalAhead(draft[e])'
    BY <1>0, <1>1, <2>1, <2>2 DEF TypeOK, IntervalAhead
  <2> QED BY <2>1, <2>3 DEF RecordsSpaced
<1>8. ASSUME NEW u \in Tasks, CreateOnce(u) \/ CreateInterval(u) PROVE RecordsSpaced'
  <2>1. UNCHANGED <<now, copy, editing, draft>> /\ faults = 0
    BY <1>8 DEF CreateOnce, CreateInterval
  <2>2. PICK i, n : row' = [row EXCEPT ![u] = NewRow(i, n)]
    BY <1>8 DEF CreateOnce, CreateInterval
  <2>3. IntervalAhead(NewRow(i, n))
    BY DEF IntervalAhead, NewRow
  <2>4. \A t \in Reliable : row'[t] = row[t] \/ IntervalAhead(row'[t])
    BY <1>0, <2>2, <2>3 DEF TypeOK
  <2> QED BY <1>2, <2>1, <2>4
<1>9. ASSUME NEW d \in Editors, GetTask(d) PROVE RecordsSpaced'
  <2>1. UNCHANGED <<now, row, copy>> /\ faults = 0
    BY <1>9 DEF GetTask
  <2>2. PICK t \in Tasks : editing' = [editing EXCEPT ![d] = t]
                           /\ draft' = [draft EXCEPT ![d] = row[t]]
    BY <1>9 DEF GetTask
  <2> QED BY <1>0, <1>2, <2>1, <2>2 DEF TypeOK
<1>10. ASSUME NEW d \in Editors, UpdateTask(d) \/ DeleteTask(d) PROVE RecordsSpaced'
  <2> DEFINE u == editing[d]
  <2>1. /\ UNCHANGED <<now, copy>> /\ faults = 0 /\ u # None
        /\ editing' = [editing EXCEPT ![d] = None]
        /\ draft' = [draft EXCEPT ![d] = NoRow]
    BY <1>10 DEF UpdateTask, DeleteTask, Release
  <2>2. u \in Tasks /\ draft[d] \in Rows
    BY <1>0, <2>1 DEF TypeOK
  <2>3. \A e \in Editors : editing'[e] \in Reliable =>
            editing'[e] = editing[e] /\ draft'[e] = draft[e]
    BY <1>0, <2>1, ScheduledTasksAssumption DEF TypeOK
  <2>4. \A t \in Reliable : row'[t] = row[t] \/ IntervalAhead(row'[t])
    <3>1. CASE UpdateTask(d)
      <4>1. PICK new \in Changes(u, draft[d]) : row' = [row EXCEPT ![u] = new]
        BY <3>1 DEF UpdateTask
      <4>2. u \in Reliable => IntervalAhead(new)
        BY <1>0, <1>1, <2>1, <2>2, UpdateAhead
      <4> QED BY <1>0, <2>2, <4>1, <4>2 DEF TypeOK
    <3>2. CASE DeleteTask(d)
      <4>1. /\ \A t \in Tasks \ {u} : row'[t] = row[t]
            /\ row'[u].last = row[u].last /\ row'[u].next = row[u].next
            /\ row'[u].interval = row[u].interval
        BY <1>0, <2>2, <3>2 DEF DeleteTask, TypeOK, Rows
      <4>2. ASSUME IntervalAhead(row[u]) PROVE IntervalAhead(row'[u])
        BY <4>1, <4>2 DEF IntervalAhead
      <4> QED BY <1>0, <1>1, <2>1, <4>1, <4>2
    <3> QED BY <1>10, <3>1, <3>2
  <2> QED BY <1>2, <2>1, <2>3, <2>4
<1>11. CASE ResetAgentMemories
  <2>1. UNCHANGED <<now, copy, editing, draft>> /\ faults = 0
    BY <1>11 DEF ResetAgentMemories
  <2>2. ASSUME NEW t \in Tasks
        PROVE  /\ row'[t].last = row[t].last /\ row'[t].next = row[t].next
               /\ row'[t].interval = row[t].interval
    BY <1>0, <1>11 DEF ResetAgentMemories, TypeOK, Rows
  <2>3. ASSUME NEW t \in Reliable PROVE IntervalAhead(row'[t])
    BY <1>0, <1>1, <2>1, <2>2 DEF IntervalAhead
  <2> QED BY <1>2, <2>1, <2>3
<1> QED BY <1>3, <1>4, <1>5, <1>6, <1>7, <1>8, <1>9, <1>10, <1>11 DEF Next, Schedule, Edit

LEMMA CalmHolds == Spec => []CalmInv
<1>1. CalmInv /\ [Next]_vars => CalmInv'
  BY StepKeeps, AloneStep, DraftsStep, FailuresStep, OnceStep, SpacedStep DEF CalmInv
<1> QED BY CalmInit, <1>1, PTL DEF Spec

\* As long as no edit overlaps a check and no deadline or restart loses an
\* outcome, a one-time task succeeds once at most in all, whatever is created,
\* edited or reset between the checks.
THEOREM OnceTasksRunOnce == Spec => []OnceRunsOnce
<1>1. CalmInv => OnceRunsOnce
  <2> SUFFICES ASSUME CalmInv, ~overlapped, faults = 0, NEW t \in OnceTasks PROVE ran[t] <= 1
    BY DEF OnceRunsOnce
  <2> QED BY DEF CalmInv, OnceInv, RanOnce
<1> QED BY <1>1, CalmHolds, PTL

\* What a run begins with: its task is due, as it was fetched.
LEMMA StartedIsDue ==
    ASSUME CalmInv, StartRun, ~overlapped
    PROVE  Head(batch) \in Tasks /\ Due(Head(batch))
<1>1. batch # <<>> /\ batch \in Seq(Tasks) /\ phase # "idle"
  BY DEF CalmInv, IInv, TypeOK, StartRun
<1> QED BY <1>1, BatchParts DEF CalmInv, CheckAlone, BatchIsDue

\* As long as no edit overlaps a check, what is run is stored, not deleted, and
\* enabled, whatever deadlines expired and processes died before.
THEOREM RunsAreWanted == Spec => OnlyWantedRuns
<1>1. CalmInv => (StartRun /\ ~overlapped => Live(Head(batch)) /\ row[Head(batch)].enabled)
  BY StartedIsDue DEF Due
<1> QED BY <1>1, CalmHolds, PTL DEF OnlyWantedRuns

\* As long as no edit overlaps a check and no deadline or restart strikes, the
\* runs of a repeating task that does not fail are an interval apart, though the
\* interval and the time of the next run may be edited between the checks.
THEOREM IntervalsAreKept == Spec => IntervalKept
<1>1. CalmInv =>
        (StartRun /\ ~overlapped /\ faults = 0 =>
            \/ Head(batch) \in OnceTasks \cup Failing
            \/ row[Head(batch)].last = None
            \/ now >= row[Head(batch)].last + row[Head(batch)].interval)
  <2> SUFFICES ASSUME CalmInv, StartRun, ~overlapped, faults = 0, NEW t, t = Head(batch),
                      t \notin OnceTasks \cup Failing, row[t].last # None
               PROVE  now >= row[t].last + row[t].interval
    OBVIOUS
  <2>1. t \in Reliable /\ Due(t)
    BY StartedIsDue DEF Reliable, Tasks
  <2>2. /\ row[t].last \in Nat /\ row[t].next \in Nat /\ row[t].interval \in Nat
        /\ now \in Nat
    <3>1. row[t] \in Rows /\ now \in Nat
      BY StartedIsDue, ScheduledTasksAssumption DEF CalmInv, IInv, TypeOK
    <3> QED BY <2>1, <3>1, RowFields DEF Times, Due
  <2>3. row[t].last + row[t].interval <= row[t].next /\ row[t].next <= now
    BY <2>1 DEF CalmInv, RecordsSpaced, IntervalAhead, Due
  <2> QED BY <2>2, <2>3
<1> QED BY <1>1, CalmHolds, PTL DEF IntervalKept
=============================================================================
