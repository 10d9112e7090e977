------------------------- MODULE RoomsAndToolsProofs -------------------------
(***************************************************************************)
(* Two components that share no state: the rooms of an agent in Solar      *)
(* (SolarRooms, extended here) and client-side tool calls (ClientCalls,    *)
(* extended too, and ClientTools under the name Tools).                    *)
(*                                                                         *)
(* What the rooms promise needs an invariant of its own: which rooms a     *)
(* handler's conversation has had, what was filed in it, the cause of      *)
(* every window that is open or about to be saved, and, for a group, that  *)
(* whoever works for it holds the conversation it is bound to.             *)
(***************************************************************************)
EXTENDS SolarRooms, ClientCalls, FiniteSetTheorems, WellFoundedInduction, TLAPS

-----------------------------------------------------------------------------
(* Types.                                                                   *)

Texts == Seq(Rooms \cup Users \cup {"dm"})

\* What a goroutine has in hand where it is.
Sound(run) ==
    /\ run.pc = "find" => run.room \in Rooms
    /\ run.pc \in {"start", "read", "rounds", "mark", "save"} => run.thread \in Threads
    /\ run.pc \in {"mark", "save"} => run.to \in Rooms
    /\ run.pc = "save" => /\ run.row.thread \in Threads
                          /\ run.calls = 0 => run.row.thread = run.thread

RowsSound    == \A r \in Rooms : IsBound(r) => rows[r].thread \in Threads
RunnersSound == \A p \in Runners : Sound(runner[p])

TypeInv == TypeOK /\ accounts \in Seq(Texts) /\ RowsSound /\ RunnersSound

LEMMA Constants ==
    /\ Window \in Nat /\ Interval \in Nat /\ MaxTime \in Nat /\ MaxBatches \in Nat
    /\ MaxThreads \in Nat /\ MaxTriggers \in Nat /\ MaxCalls \in Nat
    /\ Waker \notin Handlers \cup Operators /\ Handlers \cap Operators = {}
    /\ Directs \subseteq Rooms /\ Known \subseteq Rooms
    /\ None \notin Rooms /\ None \notin Nat
BY SolarRoomsAssumption

LEMMA RoomsCounted ==
    /\ IsFiniteSet(Rooms) /\ Cardinality(Rooms) \in Nat
    /\ \A S \in SUBSET Rooms : /\ IsFiniteSet(S) /\ Cardinality(S) \in Nat
                               /\ Cardinality(S) <= Cardinality(Rooms)
<1>1. IsFiniteSet(Rooms)
  BY SolarRoomsAssumption
<1> QED
  BY <1>1, FS_Subset, FS_CardinalityType

LEMMA LessThanIsWellFounded ==
    \E R : IsWellFoundedOn(R, Nat) /\ \A x, y \in Nat : x < y => <<x, y>> \in R
<1>1. \A x, y \in Nat : x < y => <<x, y>> \in OpToRel(<, Nat)
  BY DEF OpToRel
<1> QED
  BY NatLessThanWellFounded, <1>1, Zenon

LEMMA LeastNatural ==
    ASSUME NEW S, S \subseteq Nat, S # {}
    PROVE  \E m \in S : \A n \in S : m <= n
<1>1. PICK R : IsWellFoundedOn(R, Nat) /\ \A x, y \in Nat : x < y => <<x, y>> \in R
  BY LessThanIsWellFounded
<1>2. IsWellFoundedOn(R, Nat)
  BY <1>1
<1>3. PICK x \in S : \A y \in S : ~ (<<y, x>> \in R)
  BY <1>2, WFMin, Zenon
<1>4. \A y \in S : ~(y < x)
  BY <1>1, <1>3
<1> QED BY <1>4

\* A conversation has a room or none.
LEMMA RoomOfThreadType ==
    ASSUME TypeInv, NEW t
    PROVE  RoomOfThread(t) \in Rooms \cup {None}
<1> DEFINE bound == {r \in Rooms : IsBound(r) /\ rows[r].thread = t}
           ids   == {rows[r].id : r \in bound}
<1>1. \A r \in Rooms : rows[r].id \in Nat
  BY RoomsCounted DEF TypeInv, TypeOK, Row
<1>2. CASE bound = {}
  BY <1>2 DEF RoomOfThread
<1>3. CASE bound # {}
  <2>1. ids \subseteq Nat /\ ids # {}
    BY <1>1, <1>3
  <2>2. PICK m \in ids : \A n \in ids : m <= n
    <3> HIDE DEF ids
    <3> QED BY <2>1, LeastNatural
  <2>3. PICK r \in bound : rows[r].id = m
    OBVIOUS
  <2>4. \A q \in bound : rows[r].id <= rows[q].id
    BY <2>2, <2>3
  <2>5. RoomOfThread(t) \in bound
    <3>1. RoomOfThread(t) = CHOOSE q \in bound : \A o \in bound : rows[q].id <= rows[o].id
      BY <1>3 DEF RoomOfThread
    <3> HIDE DEF bound
    <3> QED BY <2>4, <3>1
  <2> QED BY <2>5
<1> QED BY <1>2, <1>3

LEMMA RowParts ==
    ASSUME NEW row \in Row
    PROVE  /\ row.id \in 0..Cardinality(Rooms) /\ row.type \in {"unknown", "group", "direct"}
           /\ row.active \in BOOLEAN /\ row.until \in 0..(MaxTime + Window) \cup {None}
           /\ row.thread \in Threads \cup {None}
BY DEF Row

LEMMA NewRows ==
    ASSUME NEW t \in Threads
    PROVE  NewRow(t) \in Row /\ NewRow(t).id = 0 /\ NewRow(t).thread = t /\ NewRow(t).until = None
<1>1. 0 \in 0..Cardinality(Rooms)
  BY RoomsCounted
<1> QED BY <1>1 DEF NewRow, NoRow, Row

LEMMA ChangedRows ==
    ASSUME NEW row \in Row, NEW t \in Times
    PROVE  /\ Passive(row) \in Row /\ Passive(row).thread = row.thread
           /\ Engaged(row, t) \in Row /\ Engaged(row, t).thread = row.thread
           /\ \A mention \in BOOLEAN :
                 Heard(row, mention, t) \in Row /\ Heard(row, mention, t).thread = row.thread
<1>1. t + Window \in 0..(MaxTime + Window)
  BY Constants DEF Times
<1>2. Passive(row) \in Row /\ Passive(row).thread = row.thread
  BY DEF Passive, Row
<1>3. Engaged(row, t) \in Row /\ Engaged(row, t).thread = row.thread
  BY <1>1 DEF Engaged, Row
<1>4. \A mention \in BOOLEAN : Heard(row, mention, t) \in {Passive(row), Engaged(row, t), row}
  BY DEF Heard
<1> QED BY <1>2, <1>3, <1>4

\* A goroutine that goes on has a run of its types in hand.
LEMMA RunnerGoesOn ==
    ASSUME TypeInv, NEW p \in Runners, NEW run \in Run, Sound(run), Becomes(p, run)
    PROVE  runner' \in [Runners -> Run] /\ RunnersSound'
<1>1. runner \in [Runners -> Run] /\ runner' = [runner EXCEPT ![p] = run]
  BY DEF TypeInv, TypeOK, Becomes
<1>2. \A q \in Runners : Sound(runner'[q])
  BY <1>1 DEF TypeInv, RunnersSound
<1> QED BY <1>1, <1>2 DEF RunnersSound, Sound

LEMMA IdleRuns == Idle \in Run /\ Sound(Idle)
<1>1. 0 \in Times /\ 0 \in 0..MaxCalls /\ 0 \in 0..Cardinality(Rooms)
  BY Constants, RoomsCounted DEF Times
<1> QED BY <1>1 DEF Idle, Run, Row, NoRow, Sound


LEMMA SavingRuns ==
    ASSUME NEW run \in Run, NEW r \in Rooms, NEW row \in Row, row.thread \in Threads
    PROVE  Saving(run, r, row) \in Run /\ Sound(Saving(run, r, row))
BY DEF Saving, Run, Sound

LEMMA ConversationCreated ==
    ASSUME TypeInv, NEW account \in Texts, CreateConversation(account)
    PROVE  /\ accounts' \in Seq(Texts) /\ Len(accounts') <= MaxThreads
           /\ Len(accounts') \in Threads
<1>1. accounts \in Seq(Texts) /\ Len(accounts) < MaxThreads /\ accounts' = Append(accounts, account)
  BY DEF TypeInv, CreateConversation, MayCreate
<1>2. accounts' \in Seq(Texts) /\ Len(accounts') = Len(accounts) + 1 /\ Len(accounts) \in Nat
  BY <1>1
<1> QED
  BY <1>1, <1>2, Constants DEF Threads

LEMMA BatchArrivesTypes ==
    ASSUME TypeInv, NEW p \in Handlers, NEW r \in Rooms, NEW mention \in BOOLEAN,
           BatchArrives(p, r, mention)
    PROVE  TypeInv'
<1> DEFINE run == [Idle EXCEPT !.pc = "find", !.room = r, !.mention = mention, !.at = now]
<1>1. p \in Runners /\ now \in Times
  BY DEF Runners, TypeInv, TypeOK
<1>2. run \in Run /\ Sound(run)
  BY <1>1, IdleRuns DEF Idle, Run, Sound
<1>3. runner' \in [Runners -> Run] /\ RunnersSound'
  <2> HIDE DEF run
  <2>1. Becomes(p, run)
    BY DEF BatchArrives, run
  <2> QED BY <1>1, <1>2, <2>1, RunnerGoesOn
<1>4. asked' \in [batches : 0..MaxBatches, triggers : 0..MaxTriggers]
  BY Constants DEF TypeInv, TypeOK, BatchArrives
<1>5. involved' \in [Groups -> Times \cup {None}]
  BY <1>1 DEF TypeInv, TypeOK, BatchArrives, InvolvedIn
<1>6. UNCHANGED <<now, dbVars, wake>>
  BY DEF BatchArrives
<1> QED
  BY <1>3, <1>4, <1>5, <1>6 DEF TypeInv, TypeOK, RowsSound, IsBound, dbVars, bindings

LEMMA FindBindingTypes ==
    ASSUME TypeInv, NEW p \in Runners, FindBinding(p)
    PROVE  TypeInv'
<1> DEFINE run == runner[p]
           r   == run.room
           Taken(row) == Heard([row EXCEPT !.type = RoomType(r)], run.mention, run.at)
<1>1. run \in Run /\ run.pc = "find" /\ r \in Rooms /\ run.mention \in BOOLEAN /\ run.at \in Times
  BY DEF TypeInv, TypeOK, RunnersSound, Sound, FindBinding, Run
<1>2. ASSUME NEW row \in Row PROVE Taken(row) \in Row /\ Taken(row).thread = row.thread
  <2> DEFINE typed == [row EXCEPT !.type = RoomType(r)]
  <2>1. typed \in Row /\ typed.thread = row.thread
    BY DEF Row, RoomType
  <2> HIDE DEF typed, run
  <2>2. Heard(typed, run.mention, run.at) \in Row /\ Heard(typed, run.mention, run.at).thread = typed.thread
    BY <1>1, <2>1, ChangedRows
  <2> QED BY <2>1, <2>2 DEF typed
<1>3. /\ runner' \in [Runners -> Run] /\ RunnersSound'
      /\ accounts' \in Seq(Texts) /\ Len(accounts') <= MaxThreads
  <2>1. CASE /\ IsBound(r) /\ Becomes(p, Saving(run, r, Taken(rows[r]))) /\ UNCHANGED dbVars
    <3>1. rows[r] \in Row /\ rows[r].thread \in Threads
      BY <1>1, <2>1 DEF TypeInv, TypeOK, RowsSound
    <3>2. PICK row : row = Taken(rows[r])
      OBVIOUS
    <3>3. row \in Row /\ row.thread \in Threads
      <4> HIDE DEF Taken
      <4> QED BY <1>2, <3>1, <3>2
    <3>4. Becomes(p, Saving(run, r, row))
      BY <2>1, <3>2
    <3> HIDE DEF run, Taken
    <3>5. Saving(run, r, row) \in Run /\ Sound(Saving(run, r, row))
      BY <1>1, <3>3, SavingRuns
    <3> QED BY <2>1, <3>4, <3>5, RunnerGoesOn DEF TypeInv, TypeOK, dbVars
  <2>2. CASE /\ ~IsBound(r) /\ CreateConversation(<<r>>)
             /\ Becomes(p, Saving(run, r, Taken(NewRow(Len(accounts')))))
    <3>1. <<r>> \in Texts
      BY <1>1 DEF Texts
    <3>2. accounts' \in Seq(Texts) /\ Len(accounts') <= MaxThreads /\ Len(accounts') \in Threads
      BY <2>2, <3>1, ConversationCreated
    <3>3. PICK t : t = Len(accounts')
      OBVIOUS
    <3>4. NewRow(t) \in Row /\ NewRow(t).thread = t /\ t \in Threads
      BY <3>2, <3>3, NewRows
    <3>5. PICK row : row = Taken(NewRow(t))
      OBVIOUS
    <3>6. row \in Row /\ row.thread \in Threads
      <4> HIDE DEF Taken
      <4> QED BY <1>2, <3>4, <3>5
    <3>7. Becomes(p, Saving(run, r, row))
      BY <2>2, <3>3, <3>5
    <3> HIDE DEF run, Taken
    <3>8. Saving(run, r, row) \in Run /\ Sound(Saving(run, r, row))
      BY <1>1, <3>6, SavingRuns
    <3> QED BY <3>2, <3>7, <3>8, RunnerGoesOn
  <2> QED BY <2>1, <2>2 DEF FindBinding
<1>4. UNCHANGED <<now, rows, homes, heard, wake, asked, involved>>
  BY DEF FindBinding, Clock, dbVars, bindings
<1> QED
  BY <1>3, <1>4 DEF TypeInv, TypeOK, RowsSound, IsBound

\* A run that is started, or a binding that is to be saved first.
LEMMA StartedRuns ==
    ASSUME NEW t \in Threads, NEW r \in Rooms \cup {None}
    PROVE  LET run == [Idle EXCEPT !.pc = "start", !.thread = t, !.room = r]
           IN  run \in Run /\ Sound(run)
BY IdleRuns DEF Run, Sound, Idle

LEMMA TriggerTypes ==
    ASSUME TypeInv, NEW p \in Runners, Trigger(p)
    PROVE  TypeInv'
<1> DEFINE Done == /\ runner' \in [Runners -> Run] /\ RunnersSound'
                   /\ accounts' \in Seq(Texts) /\ Len(accounts') <= MaxThreads
<1>0. accounts \in Seq(Texts) /\ Len(accounts) <= MaxThreads
  BY DEF TypeInv, TypeOK
<1>1. \A t \in 1..Len(accounts) : t \in Threads
  BY <1>0, Constants DEF Threads
<1>2. ASSUME NEW t \in Threads, NEW r \in Rooms \cup {None},
             Becomes(p, [Idle EXCEPT !.pc = "start", !.thread = t, !.room = r])
      PROVE  runner' \in [Runners -> Run] /\ RunnersSound'
  BY <1>2, StartedRuns, RunnerGoesOn
<1>3. ASSUME NEW t \in 1..Len(accounts), TriggerByThread(p, t) PROVE Done
  <2>1. RoomOfThread(t) \in Rooms \cup {None}
    BY RoomOfThreadType
  <2> QED BY <1>0, <1>1, <1>2, <1>3, <2>1 DEF TriggerByThread
<1>4. ASSUME NEW r \in Rooms, TriggerByRoom(p, r) PROVE Done
  <2>1. CASE /\ IsBound(r) /\ UNCHANGED accounts
             /\ Becomes(p, [Idle EXCEPT !.pc = "start", !.thread = rows[r].thread, !.room = r])
    <3>1. rows[r].thread \in Threads
      BY <2>1 DEF TypeInv, RowsSound
    <3> QED BY <1>0, <1>2, <2>1, <3>1
  <2>2. CASE /\ CreateConversation(<<r>>)
             /\ Becomes(p, Saving([Idle EXCEPT !.room = r], r, NewRow(Len(accounts'))))
    <3>1. <<r>> \in Texts
      BY DEF Texts
    <3>2. accounts' \in Seq(Texts) /\ Len(accounts') <= MaxThreads /\ Len(accounts') \in Threads
      BY <2>2, <3>1, ConversationCreated
    <3>3. PICK run : run = [Idle EXCEPT !.room = r]
      OBVIOUS
    <3>4. run \in Run
      BY <3>3, IdleRuns DEF Run
    <3>5. PICK row : row = NewRow(Len(accounts'))
      OBVIOUS
    <3>6. row \in Row /\ row.thread \in Threads
      BY <3>2, <3>5, NewRows
    <3>7. Saving(run, r, row) \in Run /\ Sound(Saving(run, r, row)) /\ Becomes(p, Saving(run, r, row))
      BY <2>2, <3>3, <3>4, <3>5, <3>6, SavingRuns
    <3> QED BY <3>2, <3>7, RunnerGoesOn
  <2> QED BY <1>4, <2>1, <2>2 DEF TriggerByRoom
<1>5. ASSUME NEW account \in Texts, TriggerByAccount(p, account) PROVE Done
  <2>1. ASSUME NEW t \in 1..Len(accounts), UNCHANGED accounts,
               Becomes(p, [Idle EXCEPT !.pc = "start", !.thread = t])
        PROVE  Done
    <3>1. [Idle EXCEPT !.pc = "start", !.thread = t] \in Run /\ Sound([Idle EXCEPT !.pc = "start", !.thread = t])
      BY <1>1, IdleRuns DEF Run, Sound, Idle
    <3> QED BY <1>0, <2>1, <3>1, RunnerGoesOn
  <2>2. ASSUME CreateConversation(<<"dm">> \o account),
               Becomes(p, [Idle EXCEPT !.pc = "start", !.thread = Len(accounts')])
        PROVE  Done
    <3>1. <<"dm">> \o account \in Texts
      BY DEF Texts
    <3>2. accounts' \in Seq(Texts) /\ Len(accounts') <= MaxThreads /\ Len(accounts') \in Threads
      BY <2>2, <3>1, ConversationCreated
    <3>3. PICK t : t = Len(accounts')
      OBVIOUS
    <3>4. [Idle EXCEPT !.pc = "start", !.thread = t] \in Run /\ Sound([Idle EXCEPT !.pc = "start", !.thread = t])
      BY <3>2, <3>3, IdleRuns DEF Run, Sound, Idle
    <3> QED BY <2>2, <3>2, <3>3, <3>4, RunnerGoesOn
  <2> QED
    BY <1>5, <2>1, <2>2 DEF TriggerByAccount
<1>6. Done
  <2>1. \A u \in Users : <<u>> \in Texts
    BY DEF Texts
  <2>2. \A t \in 1..Len(accounts) : accounts[t] \in Texts
    BY <1>0
  <2> HIDE DEF Done
  <2> QED BY <1>3, <1>4, <1>5, <2>1, <2>2 DEF Trigger
<1>7. asked' \in [batches : 0..MaxBatches, triggers : 0..MaxTriggers]
  BY Constants DEF TypeInv, TypeOK, Trigger
<1>8. UNCHANGED <<now, rows, homes, heard, wake, involved>>
  BY DEF Trigger, bindings
<1> QED
  BY <1>6, <1>7, <1>8 DEF TypeInv, TypeOK, RowsSound, IsBound

LEMMA StoredRows ==
    ASSUME TypeInv, NEW row \in Row, NEW r \in Rooms, IsBound(r) => row.id # 0
    PROVE  /\ Stored(row) \in Row /\ Stored(row).thread = row.thread
           /\ Stored(row).until = row.until /\ Stored(row).id # 0
<1> DEFINE S == {q \in Rooms : IsBound(q)}
<1>1. CASE row.id # 0
  BY <1>1 DEF Stored
<1>2. CASE row.id = 0
  <2>1. S \in SUBSET Rooms /\ r \notin S /\ S \cup {r} \in SUBSET Rooms
    BY <1>2
  <2>2. IsFiniteSet(S) /\ Cardinality(S) \in Nat /\ Cardinality(S \cup {r}) <= Cardinality(Rooms)
    <3> HIDE DEF S
    <3> QED BY <2>1, RoomsCounted
  <2>3. Cardinality(S \cup {r}) = Cardinality(S) + 1
    <3> HIDE DEF S
    <3> QED BY <2>1, <2>2, FS_AddElement
  <2>4. Cardinality(S) + 1 \in 0..Cardinality(Rooms) /\ Cardinality(S) + 1 # 0
    BY <2>2, <2>3, RoomsCounted
  <2>5. Stored(row) = [row EXCEPT !.id = Cardinality(S) + 1]
    BY <1>2 DEF Stored
  <2> HIDE DEF S
  <2> QED BY <2>4, <2>5 DEF Row
<1> QED BY <1>1, <1>2

LEMMA SaveBindingTypes ==
    ASSUME TypeInv, NEW p \in Runners, SaveBinding(p)
    PROVE  TypeInv'
<1>1. PICK run : run = runner[p]
  OBVIOUS
<1>2. PICK r : r = run.to
  OBVIOUS
<1>3. run \in Run /\ run.pc = "save" /\ r \in Rooms /\ run.row \in Row
      /\ run.row.thread \in Threads /\ run.thread \in Threads
  BY <1>1, <1>2 DEF TypeInv, TypeOK, RunnersSound, Sound, SaveBinding, Run
<1>4. UNCHANGED <<now, accounts, heard, wake, asked, involved>>
  BY DEF SaveBinding, Clock
<1>5. CASE Ends(p) /\ UNCHANGED bindings
  <2>1. runner' \in [Runners -> Run] /\ RunnersSound'
    BY <1>5, IdleRuns, RunnerGoesOn DEF Ends
  <2> QED BY <1>4, <1>5, <2>1 DEF TypeInv, TypeOK, RowsSound, IsBound, bindings
<1>6. CASE /\ IsBound(r) => run.row.id # 0
           /\ rows' = [rows EXCEPT ![r] = Stored(run.row)]
           /\ homes' = [homes EXCEPT ![run.row.thread] = @ \cup {r}]
           /\ Becomes(p, [run EXCEPT !.pc = IF run.calls = 0 THEN "start" ELSE "rounds",
                                     !.row = NoRow, !.to = None, !.at = 0])
  <2>1. Stored(run.row) \in Row /\ Stored(run.row).thread \in Threads
    BY <1>3, <1>6, StoredRows
  <2>2. rows' \in [Rooms -> Row] /\ RowsSound'
    BY <1>6, <2>1 DEF TypeInv, TypeOK, RowsSound, IsBound
  <2>3. homes' \in [Threads -> SUBSET Rooms]
    BY <1>3, <1>6 DEF TypeInv, TypeOK
  <2>4. NoRow \in Row /\ 0 \in Times
    BY IdleRuns, Constants, RoomsCounted DEF NoRow, Row, Times
  <2>5. PICK next : next = [run EXCEPT !.pc = IF run.calls = 0 THEN "start" ELSE "rounds",
                                       !.row = NoRow, !.to = None, !.at = 0]
    OBVIOUS
  <2>6. next \in Run /\ Sound(next)
    BY <1>3, <2>4, <2>5 DEF Run, Sound
  <2>7. runner' \in [Runners -> Run] /\ RunnersSound'
    BY <1>6, <2>5, <2>6, RunnerGoesOn
  <2> QED BY <1>4, <2>2, <2>3, <2>7 DEF TypeInv, TypeOK
<1> QED BY <1>1, <1>2, <1>5, <1>6 DEF SaveBinding, Refused

\* What a step of a run at its place leaves to show.
LEMMA RunStepTypes ==
    ASSUME TypeInv, NEW p \in Runners, NEW run \in Run, Sound(run), Becomes(p, run),
           heard' \in [Threads -> {"none", "plain", "mention"}],
           involved' \in [Groups -> Times \cup {None}],
           UNCHANGED <<bindings, accounts>>, Clock
    PROVE  TypeInv'
<1>1. runner' \in [Runners -> Run] /\ RunnersSound'
  BY RunnerGoesOn
<1> QED
  BY <1>1 DEF TypeInv, TypeOK, RowsSound, IsBound, Clock, bindings

LEMMA RunTypes ==
    ASSUME TypeInv, NEW p \in Runners
    PROVE  /\ runner[p] \in Run /\ Sound(runner[p])
           /\ heard \in [Threads -> {"none", "plain", "mention"}]
           /\ involved \in [Groups -> Times \cup {None}]
           /\ now \in Times
BY DEF TypeInv, TypeOK, RunnersSound

LEMMA StartRunTypes ==
    ASSUME TypeInv, NEW p \in Runners, StartRun(p)
    PROVE  TypeInv'
<1>1. PICK run : run = [runner[p] EXCEPT !.pc = "read"]
  OBVIOUS
<1>2. run \in Run /\ Sound(run)
  BY <1>1, RunTypes DEF StartRun, Run, Sound
<1>3. Becomes(p, run)
  BY <1>1, RunTypes DEF StartRun, Moves, Becomes, TypeInv, TypeOK
<1>4. heard' \in [Threads -> {"none", "plain", "mention"}]
  BY RunTypes DEF StartRun, Filed
<1>5. UNCHANGED <<bindings, accounts, involved>> /\ Clock
  BY DEF StartRun
<1> QED
  BY <1>2, <1>3, <1>4, <1>5, RunTypes, RunStepTypes

LEMMA ReadReplyModeTypes ==
    ASSUME TypeInv, NEW p \in Runners, ReadReplyMode(p)
    PROVE  TypeInv'
<1>1. PICK mode : mode = ReplyMode(runner[p].thread, RoomOfThread(runner[p].thread))
  OBVIOUS
<1>2. mode \in {"force_allow", "allow", "suppress"}
  BY <1>1 DEF ReplyMode
<1>3. PICK run : run = [runner[p] EXCEPT !.pc = "rounds", !.mode = mode]
  OBVIOUS
<1>4. run \in Run /\ Sound(run) /\ Becomes(p, run)
  <2>1. run \in Run /\ Sound(run)
    BY <1>2, <1>3, RunTypes DEF ReadReplyMode, Run, Sound
  <2>2. Becomes(p, run)
    BY <1>1, <1>3 DEF ReadReplyMode
  <2> QED BY <2>1, <2>2
<1>5. UNCHANGED <<bindings, accounts, heard, involved>> /\ Clock
  BY DEF ReadReplyMode, dbVars
<1> QED
  BY <1>4, <1>5, RunTypes, RunStepTypes

LEMMA SendTypes ==
    ASSUME TypeInv, NEW p \in Runners, NEW r \in Rooms, Send(p, r)
    PROVE  TypeInv'
<1>1. PICK run : run = [Called(p) EXCEPT !.pc = "mark", !.to = r, !.at = now]
  OBVIOUS
<1>2. runner[p].calls + 1 \in 0..MaxCalls
  BY RunTypes, Constants DEF Send, MayCall, Run
<1>3. run \in Run /\ Sound(run)
  BY <1>1, <1>2, RunTypes DEF Send, MayCall, Called, Run, Sound
<1>4. Becomes(p, run)
  BY <1>1 DEF Send
<1>5. involved' \in [Groups -> Times \cup {None}]
  BY RunTypes DEF Send, InvolvedIn
<1>6. UNCHANGED <<bindings, accounts, heard>> /\ Clock
  BY DEF Send
<1> QED
  BY <1>3, <1>4, <1>5, <1>6, RunTypes, RunStepTypes

LEMMA MarkRoomTypes ==
    ASSUME TypeInv, NEW p \in Runners, MarkRoom(p)
    PROVE  TypeInv'
<1>1. PICK run : run = runner[p]
  OBVIOUS
<1>2. run \in Run /\ run.pc = "mark" /\ run.to \in Rooms /\ run.thread \in Threads /\ run.at \in Times
  BY <1>1, RunTypes DEF MarkRoom, Run, Sound
<1>3. PICK row : row = IF IsBound(run.to) THEN rows[run.to] ELSE NewRow(run.thread)
  OBVIOUS
<1>4. row \in Row
  BY <1>2, <1>3, NewRows DEF TypeInv, TypeOK
<1>5. PICK moved : moved = [row EXCEPT !.thread = run.thread]
  OBVIOUS
<1>6. moved \in Row /\ moved.thread = run.thread
  BY <1>2, <1>4, <1>5 DEF Row
<1>7. PICK marked : marked = Engaged(moved, run.at)
  OBVIOUS
<1>8. marked \in Row /\ marked.thread \in Threads
  BY <1>2, <1>6, <1>7, ChangedRows
<1>9. Saving(run, run.to, marked) \in Run /\ Sound(Saving(run, run.to, marked))
  BY <1>2, <1>8, SavingRuns
<1>10. Becomes(p, Saving(run, run.to, marked))
  BY <1>1, <1>3, <1>5, <1>7 DEF MarkRoom
<1>11. UNCHANGED <<bindings, accounts, heard, involved>> /\ Clock
  BY DEF MarkRoom, dbVars
<1> QED
  BY <1>9, <1>10, <1>11, RunTypes, RunStepTypes

LEMMA EndEngagementTypes ==
    ASSUME TypeInv, NEW p \in Runners, NEW r \in Rooms, EndEngagement(p, r)
    PROVE  TypeInv'
<1>1. rows[r] \in Row /\ rows[r].thread \in Threads
  BY DEF TypeInv, TypeOK, RowsSound, EndEngagement
<1>2. PICK row : row = Passive(rows[r])
  OBVIOUS
<1>3. row \in Row /\ row.thread \in Threads
  BY <1>1, <1>2 DEF Passive, Row
<1>4. runner[p].calls + 1 \in 1..MaxCalls
  BY RunTypes, Constants DEF EndEngagement, MayCall, Run
<1>5. PICK run : run = [Called(p) EXCEPT !.pc = "save", !.to = r, !.row = row]
  OBVIOUS
<1>6. run \in Run /\ Sound(run)
  <2>1. runner[p] \in Run /\ runner[p].thread \in Threads
    BY RunTypes DEF EndEngagement, MayCall, Sound
  <2>2. run = [runner[p] EXCEPT !.calls = runner[p].calls + 1, !.pc = "save", !.to = r, !.row = row]
    BY <1>5 DEF Called
  <2>3. PICK n : n = runner[p].calls + 1
    OBVIOUS
  <2>4. n \in 0..MaxCalls /\ n # 0
    BY <1>4, <2>3, Constants
  <2>5. run \in Run /\ run.calls = n
    BY <1>3, <2>1, <2>2, <2>3, <2>4 DEF Run
  <2>6. run.pc = "save" /\ run.to = r /\ run.row = row /\ run.thread = runner[p].thread
    BY <2>1, <2>2 DEF Run
  <2> QED
    BY <1>3, <2>1, <2>4, <2>5, <2>6 DEF Sound
<1>7. Becomes(p, run)
  BY <1>2, <1>5 DEF EndEngagement
<1>8. UNCHANGED <<bindings, accounts, heard, involved>> /\ Clock
  BY DEF EndEngagement
<1> QED
  BY <1>6, <1>7, <1>8, RunTypes, RunStepTypes

LEMMA RunOverTypes ==
    ASSUME TypeInv, NEW p \in Runners, RunEnds(p) \/ RunFails(p)
    PROVE  TypeInv'
<1>1. Becomes(p, Idle) /\ UNCHANGED <<bindings, accounts, heard, involved>> /\ Clock
  BY DEF RunEnds, RunFails, Ends, dbVars
<1> QED
  BY <1>1, IdleRuns, RunTypes, RunStepTypes

LEMMA WakeTypes ==
    ASSUME TypeInv, WakeStarts \/ WakeEnds \/ \E b \in wake.left : WakeRoom(b)
    PROVE  TypeInv'
<1>1. now \in Times /\ wake.left \subseteq Listed
  BY DEF TypeInv, TypeOK
<1>2. CASE WakeStarts
  <2>1. Bound \subseteq Listed
    <3>1. \A r \in Rooms : IsDirect(rows[r]) \in BOOLEAN
      BY DEF IsDirect
    <3>2. \A r \in Rooms : IsBound(r) =>
             [room |-> r, thread |-> rows[r].thread, direct |-> IsDirect(rows[r])] \in Listed
      BY <3>1 DEF TypeInv, RowsSound, Listed
    <3> QED BY <3>2 DEF Bound
  <2>2. wake' = [last |-> now, going |-> TRUE, left |-> Bound] \/ wake' = [wake EXCEPT !.last = now]
    BY <1>2 DEF WakeStarts
  <2>3. wake' \in [last : Times \cup {None}, going : BOOLEAN, left : SUBSET Listed]
    <3>1. wake \in [last : Times \cup {None}, going : BOOLEAN, left : SUBSET Listed]
      BY DEF TypeInv, TypeOK
    <3>2. CASE wake' = [last |-> now, going |-> TRUE, left |-> Bound]
      BY <1>1, <2>1, <3>2
    <3>3. CASE wake' = [wake EXCEPT !.last = now]
      BY <1>1, <3>1, <3>3
    <3> QED BY <2>2, <3>2, <3>3
  <2>4. UNCHANGED <<now, rows, homes, accounts, heard, runner, asked, involved>>
    BY <1>2 DEF WakeStarts, dbVars, bindings
  <2> QED BY <2>3, <2>4 DEF TypeInv, TypeOK, RowsSound, RunnersSound, IsBound
<1>3. CASE WakeEnds
  <2>1. UNCHANGED <<now, rows, homes, accounts, heard, runner, asked, involved>>
    BY <1>3 DEF WakeEnds, dbVars, bindings
  <2>2. wake' = [wake EXCEPT !.going = FALSE]
    BY <1>3 DEF WakeEnds
  <2> QED BY <2>1, <2>2 DEF TypeInv, TypeOK, RowsSound, RunnersSound, IsBound
<1>4. ASSUME NEW b \in wake.left, WakeRoom(b) PROVE TypeInv'
  <2>1. UNCHANGED <<now, rows, homes, accounts, heard, asked, involved>>
    BY <1>4 DEF WakeRoom, dbVars, bindings
  <2>2. wake' = [wake EXCEPT !.left = @ \ {b}] /\ b \in Listed
    BY <1>1, <1>4 DEF WakeRoom
  <2>3. runner' \in [Runners -> Run] /\ RunnersSound'
    <3>1. CASE UNCHANGED runner
      BY <3>1 DEF TypeInv, TypeOK, RunnersSound, Sound
    <3>2. CASE Becomes(Waker, [Idle EXCEPT !.pc = "start", !.room = b.room, !.thread = b.thread])
      <4>1. Waker \in Runners /\ b.room \in Rooms \cup {None} /\ b.thread \in Threads
        BY <2>2 DEF Runners, Listed
      <4>2. PICK run : run = [Idle EXCEPT !.pc = "start", !.room = b.room, !.thread = b.thread]
        OBVIOUS
      <4>3. run \in Run /\ Sound(run)
        BY <4>1, <4>2, IdleRuns DEF Run, Sound, Idle
      <4> QED BY <3>2, <4>1, <4>2, <4>3, RunnerGoesOn
    <3> QED BY <1>4, <3>1, <3>2 DEF WakeRoom
  <2> QED BY <2>1, <2>2, <2>3 DEF TypeInv, TypeOK, RowsSound, IsBound
<1> QED BY <1>2, <1>3, <1>4

LEMMA TickTypes ==
    ASSUME TypeInv, Tick
    PROVE  TypeInv'
<1>1. now' \in Times
  BY Constants DEF Tick, TypeInv, TypeOK, Times
<1>2. UNCHANGED <<rows, homes, accounts, heard, runner, wake, asked, involved>>
  BY DEF Tick, dbVars, bindings
<1> QED
  BY <1>1, <1>2 DEF TypeInv, TypeOK, RowsSound, RunnersSound, IsBound

LEMMA TypeStep == TypeInv /\ [Next]_vars => TypeInv'
<1> SUFFICES ASSUME TypeInv, [Next]_vars PROVE TypeInv'
  OBVIOUS
<1>1. CASE UNCHANGED vars
  BY <1>1 DEF vars, dbVars, bindings, TypeInv, TypeOK, RowsSound, RunnersSound, IsBound
<1>2. ASSUME NEW p \in Runners, RunnerStep(p) PROVE TypeInv'
  BY <1>2, FindBindingTypes, SaveBindingTypes, StartRunTypes, ReadReplyModeTypes, MarkRoomTypes,
     RunOverTypes, SendTypes, EndEngagementTypes DEF RunnerStep
<1>3. ASSUME NEW p \in Handlers, NEW r \in Rooms, NEW mention \in BOOLEAN, BatchArrives(p, r, mention)
      PROVE  TypeInv'
  BY <1>3, BatchArrivesTypes
<1> QED
  BY <1>1, <1>2, <1>3, TriggerTypes, WakeTypes, TickTypes DEF Next

-----------------------------------------------------------------------------
(* The invariant.                                                           *)

\* A handler that has saved the binding of its batch's room, and one that has
\* read its reply mode.
Housed(run) ==
    \/ run.pc \in {"start", "read", "rounds", "mark"}
    \/ run.pc = "save" /\ run.calls > 0

Answering(run) ==
    \/ run.pc \in {"rounds", "mark"}
    \/ run.pc = "save" /\ run.calls > 0

\* Its room is one of those of its conversation.
AtHome(run) ==
    /\ run.pc = "idle" => run.room = None
    /\ run.pc # "idle" => run.room \in Rooms
    /\ run.pc = "find" => run.calls = 0
    /\ run.pc = "mark" => run.calls > 0
    /\ Housed(run) => run.room \in homes[run.thread]
    /\ run.pc = "save" /\ run.calls = 0 => run.to = run.room

OneBatch ==
    OneAtATime =>
        \A p, q \in Handlers : p # q /\ runner[p].room # None => runner[p].room # runner[q].room

OnlyHome(run) == homes[run.thread] = {run.room}

\* In a conversation of one room only this room's batches are filed.
MentionKept(run) ==
    OneAtATime /\ run.mention /\ Housed(run) /\ OnlyHome(run) =>
        /\ run.pc = "read" => heard[run.thread] = "mention"
        /\ Answering(run) => run.mode # "suppress"

\* The cause of a window that is open, or will be when a row is saved.
Caused(row, r) ==
    row.until # None => involved[r] # None /\ row.until <= involved[r] + Window

Since(at, r) == involved[r] # None /\ at <= involved[r]

CausedRun(run) ==
    /\ run.pc = "find" /\ run.mention /\ run.room \in Groups => Since(run.at, run.room)
    /\ run.pc = "mark" /\ run.to \in Groups => Since(run.at, run.to)
    /\ run.pc = "save" /\ run.to \in Groups => Caused(run.row, run.to)

CausesPast == \A r \in Groups : involved[r] # None => involved[r] <= now

\* Who works for a group does so in the conversation the group is bound to, and
\* saves a row it has read with that conversation in it.
InGroup(g, t) == IsBound(g) /\ rows[g].thread = t

Placed(run) ==
    /\ run.pc = "find" => run.calls = 0
    /\ run.pc = "mark" => run.calls > 0
    /\ run.pc \in {"mark", "save"} /\ run.to \in Groups => run.to = run.room
    /\ run.pc = "save" /\ run.calls = 0 => run.to = run.room
    /\ Housed(run) /\ run.room \in Groups => InGroup(run.room, run.thread)
    /\ run.pc = "save" /\ run.to \in Groups /\ run.row.id # 0 => InGroup(run.to, run.row.thread)

RunsKept  == \A p \in Runners : Placed(runner[p])
HomesKept == \A g \in Groups : \A t \in Threads : g \in homes[t] => InGroup(g, t)
ListKept  == \A b \in wake.left : b.room \in Groups => InGroup(b.room, b.thread)

\* For runs that send into their own room.
KeptInv == RunsKept /\ HomesKept /\ ListKept

RoomsInv ==
    /\ TypeInv
    /\ \A p \in Handlers : AtHome(runner[p]) /\ MentionKept(runner[p])
    /\ OneBatch
    /\ CausesPast
    /\ \A r \in Groups : Caused(rows[r], r)
    /\ \A p \in Runners : CausedRun(runner[p])
    /\ OwnRoomOnly => KeptInv

LEMMA RoomsInit == Init => RoomsInv
<1> SUFFICES ASSUME Init PROVE RoomsInv
  OBVIOUS
<1> DEFINE Begins(bound, order, mentioned, n, place) ==
          /\ now = 0
          /\ rows = [r \in Rooms |-> IF r \in bound THEN KnownRow(r, place[r], mentioned) ELSE NoRow]
          /\ accounts = [i \in 1..n |-> <<order[i]>>]
          /\ heard = [t \in Threads |-> IF t > n THEN "none"
                                       ELSE IF order[t] \in mentioned THEN "mention" ELSE "plain"]
          /\ runner = [p \in Runners |-> Idle]
          /\ wake = [last |-> None, going |-> FALSE, left |-> {}]
          /\ asked = [batches |-> 0, triggers |-> 0]
          /\ involved = [r \in Groups |-> IF r \in mentioned THEN 0 ELSE None]
          /\ homes = [t \in Threads |-> IF t > n THEN {} ELSE {order[t]}]
           BeginsWith(bound) ==
               \E order \in Bijection(1..Cardinality(bound), bound), mentioned \in SUBSET (bound \ Directs) :
                   Begins(bound, order, mentioned, Cardinality(bound), AntiFunction(order))
<1>bound. PICK bound \in SUBSET Known : BeginsWith(bound)
  BY DEF Init
<1>0. PICK order \in Bijection(1..Cardinality(bound), bound), mentioned \in SUBSET (bound \ Directs) :
         Begins(bound, order, mentioned, Cardinality(bound), AntiFunction(order))
  BY <1>bound
<1>1. PICK n, place : /\ n = Cardinality(bound) /\ order \in Bijection(1..n, bound)
                      /\ place = AntiFunction(order)
                      /\ Begins(bound, order, mentioned, n, place)
  BY <1>0
<1>2. n \in Nat /\ n <= MaxThreads /\ n <= Cardinality(Rooms)
  <2>1. IsFiniteSet(Known) /\ Cardinality(Known) \in Nat /\ bound \in SUBSET Rooms
    BY <1>0, Constants, RoomsCounted
  <2>2. Cardinality(bound) <= Cardinality(Known)
    BY <1>0, <2>1, FS_Subset
  <2>3. n \in Nat /\ n <= Cardinality(Rooms)
    BY <1>1, <2>1, RoomsCounted
  <2> QED BY <1>1, <2>1, <2>2, <2>3, Constants, SolarRoomsAssumption
<1>3. order \in [1..n -> bound] /\ \A r \in bound : \E i \in 1..n : order[i] = r
  BY <1>1 DEF Bijection, Injection, Surjection
<1>4. \A r \in bound : place[r] \in 1..n
  <2>1. DOMAIN order = 1..n /\ Range(order) = bound
    BY <1>3 DEF Range
  <2>2. place = [r \in bound |-> CHOOSE i \in 1..n : r \in bound => order[i] = r]
    BY <1>1, <2>1 DEF AntiFunction, Inverse
  <2> QED BY <1>3, <2>2
<1>5. 0 \in Times /\ 0 \in 0..Cardinality(Rooms) /\ Window \in 0..(MaxTime + Window)
  BY Constants, RoomsCounted DEF Times
<1>6. \A r \in bound : place[r] \in Threads /\ place[r] \in 0..Cardinality(Rooms) /\ place[r] # 0
  BY <1>2, <1>4, RoomsCounted, Constants DEF Threads
<1>7. ASSUME NEW r \in bound
      PROVE  /\ KnownRow(r, place[r], mentioned) \in Row
             /\ KnownRow(r, place[r], mentioned).thread = place[r]
             /\ KnownRow(r, place[r], mentioned).until = IF r \in mentioned THEN Window ELSE None
  BY <1>5, <1>6, Constants DEF KnownRow, Row, RoomType
<1>8. NoRow \in Row /\ NoRow.until = None /\ NoRow.id = 0
  BY <1>5 DEF NoRow, Row
<1>9. rows \in [Rooms -> Row] /\ RowsSound
  <2>1. \A r \in Rooms : rows[r] \in Row
    BY <1>1, <1>7, <1>8
  <2>2. \A r \in Rooms : IsBound(r) => r \in bound
    BY <1>1, <1>8 DEF IsBound
  <2>3. RowsSound
    BY <1>1, <1>6, <1>7, <2>2, Constants DEF RowsSound
  <2> QED BY <1>1, <2>1, <2>3
<1>10. accounts \in Seq(Texts) /\ Len(accounts) <= MaxThreads
  <2>1. \A i \in 1..n : <<order[i]>> \in Texts
    BY <1>0, <1>3, Constants DEF Texts
  <2>2. accounts \in [1..n -> Texts]
    BY <1>1, <2>1
  <2>3. accounts \in Seq(Texts) /\ Len(accounts) = n
    BY <1>2, <2>2
  <2> QED BY <1>2, <2>3
<1>11. runner \in [Runners -> Run] /\ RunnersSound
  BY <1>1, IdleRuns DEF RunnersSound
<1>12. homes \in [Threads -> SUBSET Rooms]
  <2>1. ASSUME NEW t \in Threads, ~(t > n) PROVE order[t] \in Rooms
    <3>1. t \in 1..n
      BY <1>2, <2>1, Constants DEF Threads
    <3> QED BY <1>0, <1>3, <3>1, Constants
  <2> QED BY <1>1, <2>1
<1>13. TypeInv
  <2>1. heard \in [Threads -> {"none", "plain", "mention"}]
    BY <1>1
  <2>2. asked \in [batches : 0..MaxBatches, triggers : 0..MaxTriggers]
    BY <1>1, Constants
  <2>3. involved \in [Groups -> Times \cup {None}] /\ now \in Times
    BY <1>1, <1>5
  <2>4. wake \in [last : Times \cup {None}, going : BOOLEAN, left : SUBSET Listed]
    BY <1>1
  <2> QED BY <1>9, <1>10, <1>11, <1>12, <2>1, <2>2, <2>3, <2>4 DEF TypeInv, TypeOK
<1>14. \A p \in Runners : runner[p].pc = "idle" /\ runner[p].room = None
  BY <1>1 DEF Idle
<1>15. \A p \in Handlers : AtHome(runner[p]) /\ MentionKept(runner[p])
  BY <1>14 DEF AtHome, MentionKept, Housed, Answering, Runners
<1>16. OneBatch
  BY <1>14 DEF OneBatch, Runners
<1>17. CausesPast
  BY <1>1, Constants DEF CausesPast
<1>18. \A r \in Groups : Caused(rows[r], r)
  <2> SUFFICES ASSUME NEW r \in Groups, rows[r].until # None
               PROVE  involved[r] # None /\ rows[r].until <= involved[r] + Window
    BY DEF Caused
  <2>1. r \in Rooms
    BY DEF Groups
  <2>2. r \in mentioned /\ rows[r].until = Window
    BY <1>1, <1>7, <1>8, <2>1
  <2> QED BY <1>1, <2>2, Constants
<1>19. \A p \in Runners : CausedRun(runner[p])
  BY <1>14 DEF CausedRun
<1>20. KeptInv
  <2>1. RunsKept
    BY <1>14 DEF RunsKept, Placed, Housed
  <2>2. ASSUME NEW g \in Groups, NEW t \in Threads, g \in homes[t] PROVE InGroup(g, t)
    <3>1. t \in 1..n /\ g = order[t]
      BY <1>1, <1>2, <2>2, Constants DEF Threads
    <3>2. g \in bound /\ g \in Rooms /\ order[place[g]] = g /\ place[g] \in 1..n
      <4>1. DOMAIN order = 1..n /\ Range(order) = bound
        BY <1>3 DEF Range
      <4>2. place = [r \in bound |-> CHOOSE i \in 1..n : r \in bound => order[i] = r]
        BY <1>1, <4>1 DEF AntiFunction, Inverse
      <4>3. g \in bound
        BY <1>3, <3>1
      <4> QED BY <1>3, <4>2, <4>3 DEF Groups
    <3>3. place[g] = t
      BY <1>1, <3>1, <3>2 DEF Bijection, Injection, IsInjective
    <3>4. rows[g] = KnownRow(g, place[g], mentioned)
      BY <1>1, <3>2
    <3>5. rows[g].id = place[g] /\ rows[g].thread = place[g]
      BY <3>4 DEF KnownRow
    <3>6. place[g] # 0
      BY <1>6, <3>2
    <3> QED BY <3>3, <3>5, <3>6 DEF InGroup, IsBound
  <2>3. ListKept
    BY <1>1 DEF ListKept
  <2> QED BY <2>1, <2>2, <2>3 DEF KeptInv, HomesKept
<1> QED
  BY <1>13, <1>15, <1>16, <1>17, <1>18, <1>19, <1>20 DEF RoomsInv

-----------------------------------------------------------------------------
(* Handlers, and the conversations they file mentions in.                   *)

HandlersInv ==
    /\ \A p \in Handlers : AtHome(runner[p]) /\ MentionKept(runner[p])
    /\ OneBatch

HomesGrow ==
    /\ homes' \in [Threads -> SUBSET Rooms]
    /\ \A t \in Threads : homes[t] \subseteq homes'[t]

\* Whoever acts, a handler that does not keeps its place, if no other batch is
\* filed in a conversation that only its room has.
LEMMA Bystander ==
    ASSUME TypeInv, NEW q \in Handlers, AtHome(runner[q]), MentionKept(runner[q]),
           runner'[q] = runner[q], HomesGrow,
           OneAtATime /\ runner[q].pc = "read" /\ OnlyHome(runner[q])
              => heard'[runner[q].thread] = heard[runner[q].thread]
    PROVE  AtHome(runner[q])' /\ MentionKept(runner[q])'
<1>1. q \in Runners
  BY DEF Runners
<1>2. Sound(runner[q]) /\ runner[q] \in Run
  BY <1>1, RunTypes
<1>3. Housed(runner[q]) => runner[q].thread \in Threads
  BY <1>2 DEF Housed, Sound
<1>4. AtHome(runner[q])'
  BY <1>3 DEF AtHome, Housed, HomesGrow
<1>5. Housed(runner[q]) /\ OnlyHome(runner[q])' => OnlyHome(runner[q])
  BY <1>3 DEF OnlyHome, HomesGrow, AtHome
<1>6. MentionKept(runner[q])'
  BY <1>5 DEF MentionKept, Housed, Answering
<1> QED BY <1>4, <1>6

LEMMA HandlerActs ==
    ASSUME TypeInv, HandlersInv, NEW p \in Runners, NEW run, Becomes(p, run), HomesGrow,
           \A q \in Handlers \ {p} :
              OneAtATime /\ runner[q].pc = "read" /\ OnlyHome(runner[q])
                 => heard'[runner[q].thread] = heard[runner[q].thread],
           p \in Handlers => AtHome(run)' /\ MentionKept(run)',
           \/ run.room \in {runner[p].room, None}
           \/ OneAtATime => \A q \in Handlers : runner[q].room # run.room
           \/ p \notin Handlers
    PROVE  HandlersInv'
<1>1. runner \in [Runners -> Run] /\ runner' = [runner EXCEPT ![p] = run] /\ Handlers \subseteq Runners
  BY DEF TypeInv, TypeOK, Becomes, Runners
<1>2. ASSUME NEW q \in Handlers PROVE AtHome(runner[q])' /\ MentionKept(runner[q])'
  <2>1. CASE q = p
    <3>1. runner'[q] = run
      BY <1>1, <2>1
    <3> QED BY <2>1, <3>1 DEF AtHome, MentionKept, Housed, Answering, OnlyHome
  <2>2. CASE q # p
    <3>1. runner'[q] = runner[q]
      BY <1>1, <2>2
    <3>2. AtHome(runner[q]) /\ MentionKept(runner[q])
      BY DEF HandlersInv
    <3> QED BY <2>2, <3>1, <3>2, Bystander
  <2> QED BY <2>1, <2>2
<1>3. OneBatch'
  <2>1. \A q \in Handlers : runner'[q] = IF q = p THEN run ELSE runner[q]
    BY <1>1
  <2> QED BY <2>1 DEF HandlersInv, OneBatch
<1> QED BY <1>2, <1>3 DEF HandlersInv

LEMMA HomesStay ==
    ASSUME TypeInv, UNCHANGED homes
    PROVE  HomesGrow
BY DEF TypeInv, TypeOK, HomesGrow

LEMMA HandlerAtHome ==
    ASSUME HandlersInv, NEW p \in Handlers
    PROVE  AtHome(runner[p]) /\ MentionKept(runner[p])
BY DEF HandlersInv

LEMMA IdleAtHome == AtHome(Idle)' /\ MentionKept(Idle)'
BY DEF AtHome, MentionKept, Housed, Idle

\* A step that files nothing and moves no room.
LEMMA HandlerMoves ==
    ASSUME TypeInv, HandlersInv, NEW p \in Runners, NEW run, Becomes(p, run),
           UNCHANGED <<homes, heard>>, run.room \in {runner[p].room, None} \/ p \notin Handlers,
           p \in Handlers => AtHome(run)' /\ MentionKept(run)'
    PROVE  HandlersInv'
BY HomesStay, HandlerActs

LEMMA BatchArrivesHome ==
    ASSUME TypeInv, HandlersInv, NEW p \in Handlers, NEW r \in Rooms, NEW mention \in BOOLEAN,
           BatchArrives(p, r, mention)
    PROVE  HandlersInv'
<1>1. PICK run : run = [Idle EXCEPT !.pc = "find", !.room = r, !.mention = mention, !.at = now]
  OBVIOUS
<1>2. run.pc = "find" /\ run.room = r /\ run.calls = 0
  BY <1>1 DEF Idle
<1>3. AtHome(run)' /\ MentionKept(run)'
  BY <1>2 DEF AtHome, MentionKept, Housed
<1>4. Becomes(p, run) /\ UNCHANGED <<homes, heard>> /\ p \in Runners
  BY <1>1 DEF BatchArrives, dbVars, bindings, Runners
<1>5. OneAtATime => \A q \in Handlers : runner[q].room # run.room
  BY <1>2 DEF BatchArrives
<1>6. HomesGrow
  BY <1>4, HomesStay
<1> QED
  BY <1>3, <1>4, <1>5, <1>6, HandlerActs

LEMMA FindBindingHome ==
    ASSUME TypeInv, HandlersInv, NEW p \in Runners, FindBinding(p)
    PROVE  HandlersInv'
<1>1. PICK row : Becomes(p, Saving(runner[p], runner[p].room, row))
  BY DEF FindBinding
<1>2. PICK run : run = Saving(runner[p], runner[p].room, row)
  OBVIOUS
<1>3. runner[p] \in Run /\ runner[p].pc = "find"
  BY RunTypes DEF FindBinding
<1>4. run.pc = "save" /\ run.room = runner[p].room /\ run.to = runner[p].room
      /\ run.calls = runner[p].calls /\ run.thread = row.thread
  BY <1>2, <1>3 DEF Saving, Run
<1>5. ASSUME p \in Handlers PROVE AtHome(run)' /\ MentionKept(run)'
  <2>1. AtHome(runner[p])
    BY <1>5, HandlerAtHome
  <2> QED
    BY <1>3, <1>4, <2>1 DEF AtHome, MentionKept, Housed
<1>6. UNCHANGED <<homes, heard>>
  BY DEF FindBinding, dbVars, bindings
<1> QED
  BY <1>1, <1>2, <1>4, <1>5, <1>6, HandlerMoves

LEMMA TriggerHome ==
    ASSUME TypeInv, HandlersInv, NEW p \in Runners, Trigger(p)
    PROVE  HandlersInv'
<1>1. p \notin Handlers
  BY Constants DEF Trigger
<1>2. PICK run : Becomes(p, run)
  BY DEF Trigger, TriggerByThread, TriggerByRoom, TriggerByAccount
<1>3. UNCHANGED <<homes, heard>>
  BY DEF Trigger, bindings
<1> QED
  BY <1>1, <1>2, <1>3, HandlerMoves

LEMMA SaveBindingHome ==
    ASSUME TypeInv, HandlersInv, NEW p \in Runners, SaveBinding(p)
    PROVE  HandlersInv'
<1>1. PICK run : run = runner[p]
  OBVIOUS
<1>2. run \in Run /\ run.pc = "save" /\ run.to \in Rooms /\ run.row.thread \in Threads
      /\ run.thread \in Threads /\ (run.calls = 0 => run.row.thread = run.thread)
  BY <1>1, RunTypes DEF SaveBinding, Sound
<1>3. UNCHANGED heard
  BY DEF SaveBinding
<1>4. CASE Ends(p) /\ UNCHANGED bindings
  <2>1. Idle.room \in {runner[p].room, None}
    BY DEF Idle
  <2> QED BY <1>3, <1>4, <2>1, IdleAtHome, HandlerMoves DEF Ends, bindings
<1>5. CASE /\ homes' = [homes EXCEPT ![run.row.thread] = @ \cup {run.to}]
           /\ Becomes(p, [run EXCEPT !.pc = IF run.calls = 0 THEN "start" ELSE "rounds",
                                     !.row = NoRow, !.to = None, !.at = 0])
  <2>1. PICK next : next = [run EXCEPT !.pc = IF run.calls = 0 THEN "start" ELSE "rounds",
                                       !.row = NoRow, !.to = None, !.at = 0]
    OBVIOUS
  <2>2. /\ next.pc = IF run.calls = 0 THEN "start" ELSE "rounds"
        /\ next.room = run.room /\ next.thread = run.thread /\ next.calls = run.calls
        /\ next.mention = run.mention /\ next.mode = run.mode
    BY <1>2, <2>1 DEF Run
  <2>3. HomesGrow
    BY <1>2, <1>5 DEF TypeInv, TypeOK, HomesGrow
  <2>4. ASSUME p \in Handlers PROVE AtHome(next)' /\ MentionKept(next)'
    <3>1. AtHome(run) /\ MentionKept(run)
      BY <1>1, <2>4, HandlerAtHome
    <3>2. CASE run.calls = 0
      <4>1. run.to = run.room /\ run.room \in Rooms
        BY <1>2, <3>1, <3>2 DEF AtHome
      <4>2. run.to \in homes'[run.thread]
        BY <1>2, <1>5, <3>2 DEF TypeInv, TypeOK
      <4>3. next.pc = "start"
        BY <2>2, <3>2
      <4> QED BY <2>2, <4>1, <4>2, <4>3 DEF AtHome, MentionKept, Housed, Answering
    <3>3. CASE run.calls # 0
      <4>1. Housed(run) /\ Answering(run)
        BY <1>2, <3>3, Constants DEF Housed, Answering, Run
      <4>2. next.pc = "rounds" /\ run.room \in homes[run.thread] /\ run.room \in Rooms
        BY <1>2, <2>2, <3>1, <3>3, <4>1 DEF AtHome
      <4>3. run.room \in homes'[run.thread]
        BY <1>2, <2>3, <4>2 DEF HomesGrow
      <4>4. OnlyHome(next)' => OnlyHome(run)
        BY <1>2, <2>2, <2>3, <4>2 DEF OnlyHome, HomesGrow
      <4>5. AtHome(next)'
        BY <2>2, <4>2, <4>3 DEF AtHome, Housed
      <4>6. MentionKept(next)'
        BY <2>2, <3>1, <4>1, <4>2, <4>4 DEF MentionKept, Answering
      <4> QED BY <4>5, <4>6
    <3> QED BY <3>2, <3>3
  <2> QED
    BY <1>1, <1>3, <1>5, <2>1, <2>2, <2>3, <2>4, HandlerActs
<1> QED
  BY <1>1, <1>4, <1>5 DEF SaveBinding

\* Another handler's batch is filed in this handler's conversation only if its
\* room is one of that conversation's, too.
LEMMA StartRunHome ==
    ASSUME TypeInv, HandlersInv, NEW p \in Runners, StartRun(p)
    PROVE  HandlersInv'
<1>1. PICK run : run = [runner[p] EXCEPT !.pc = "read"]
  OBVIOUS
<1>2. runner[p] \in Run /\ runner[p].pc = "start" /\ runner[p].thread \in Threads
  BY RunTypes DEF StartRun, Sound
<1>3. /\ run.pc = "read" /\ run.room = runner[p].room /\ run.thread = runner[p].thread
      /\ run.mention = runner[p].mention
  BY <1>1, <1>2 DEF Run
<1>4. Becomes(p, run)
  BY <1>1, RunTypes DEF StartRun, Moves, Becomes, TypeInv, TypeOK
<1>5. UNCHANGED homes /\ heard' = Filed(p, runner[p].thread) /\ HomesGrow
  BY HomesStay DEF StartRun, bindings
<1>6. ASSUME NEW q \in Handlers \ {p}, OneAtATime, runner[q].pc = "read", OnlyHome(runner[q])
      PROVE  heard'[runner[q].thread] = heard[runner[q].thread]
  <2>1. CASE p \notin Handlers
    BY <1>5, <2>1 DEF Filed
  <2>2. CASE p \in Handlers
    <3>1. AtHome(runner[p]) /\ AtHome(runner[q])
      BY <2>2, HandlerAtHome
    <3>2. runner[p].room \in homes[runner[p].thread] /\ runner[p].room \in Rooms
      BY <1>2, <3>1 DEF AtHome, Housed
    <3>3. runner[p].room # runner[q].room
      BY <1>6, <2>2, <3>2, Constants DEF HandlersInv, OneBatch
    <3>4. runner[q].thread # runner[p].thread
      BY <1>6, <3>2, <3>3 DEF OnlyHome
    <3>5. q \in Runners
      BY DEF Runners
    <3> QED
      BY <1>5, <2>2, <3>4 DEF Filed, TypeInv, TypeOK
  <2> QED BY <2>1, <2>2
<1>7. ASSUME p \in Handlers PROVE AtHome(run)' /\ MentionKept(run)'
  <2>1. AtHome(runner[p])
    BY <1>7, HandlerAtHome
  <2>2. AtHome(run)'
    BY <1>2, <1>3, <1>5, <2>1 DEF AtHome, Housed
  <2>3. run.mention => heard'[run.thread] = "mention"
    BY <1>2, <1>3, <1>5, <1>7 DEF Filed, TypeInv, TypeOK
  <2> QED BY <1>3, <2>2, <2>3 DEF MentionKept, Answering
<1> QED
  BY <1>3, <1>4, <1>5, <1>6, <1>7, HandlerActs

LEMMA ReadReplyModeHome ==
    ASSUME TypeInv, HandlersInv, NEW p \in Runners, ReadReplyMode(p)
    PROVE  HandlersInv'
<1>1. PICK mode : mode = ReplyMode(runner[p].thread, RoomOfThread(runner[p].thread))
  OBVIOUS
<1>2. PICK run : run = [runner[p] EXCEPT !.pc = "rounds", !.mode = mode]
  OBVIOUS
<1>3. Becomes(p, run) /\ UNCHANGED <<homes, heard>>
  BY <1>1, <1>2 DEF ReadReplyMode, dbVars, bindings
<1>4. runner[p] \in Run /\ runner[p].pc = "read"
  BY RunTypes DEF ReadReplyMode
<1>5. /\ run.pc = "rounds" /\ run.room = runner[p].room /\ run.thread = runner[p].thread
      /\ run.mention = runner[p].mention /\ run.mode = mode
  BY <1>2, <1>4 DEF Run
<1>6. heard[runner[p].thread] = "mention" => mode # "suppress"
  BY <1>1 DEF ReplyMode
<1>7. ASSUME p \in Handlers PROVE AtHome(run)' /\ MentionKept(run)'
  <2>1. AtHome(runner[p]) /\ MentionKept(runner[p])
    BY <1>7, HandlerAtHome
  <2>2. AtHome(run)'
    BY <1>3, <1>4, <1>5, <2>1 DEF AtHome, Housed
  <2>3. MentionKept(run)'
    BY <1>3, <1>4, <1>5, <1>6, <2>1 DEF MentionKept, Housed, OnlyHome
  <2> QED BY <2>2, <2>3
<1> QED
  BY <1>3, <1>5, <1>7, HandlerMoves

\* A handler that answers goes on to answer.
LEMMA StillAnswering ==
    ASSUME HandlersInv, NEW p \in Handlers, Answering(runner[p]), NEW run, Answering(run),
           run.pc \in {"rounds", "mark", "save"},
           run.room = runner[p].room, run.thread = runner[p].thread, run.mode = runner[p].mode,
           run.mention = runner[p].mention, run.pc = "mark" => run.calls > 0, UNCHANGED homes
    PROVE  AtHome(run)' /\ MentionKept(run)'
<1>1. AtHome(runner[p]) /\ MentionKept(runner[p])
  BY HandlerAtHome
<1>2. Housed(runner[p]) /\ Housed(run) /\ runner[p].pc # "idle"
  BY DEF Housed, Answering
<1>3. AtHome(run)'
  BY <1>1, <1>2 DEF AtHome, Housed, Answering
<1>4. MentionKept(run)'
  BY <1>1, <1>2 DEF MentionKept, OnlyHome, Answering
<1> QED BY <1>3, <1>4

LEMMA SendHome ==
    ASSUME TypeInv, HandlersInv, NEW p \in Runners, NEW r \in Rooms, Send(p, r)
    PROVE  HandlersInv'
<1>1. PICK run : run = [Called(p) EXCEPT !.pc = "mark", !.to = r, !.at = now]
  OBVIOUS
<1>2. runner[p] \in Run /\ runner[p].pc = "rounds"
  BY RunTypes DEF Send, MayCall
<1>3. /\ run.pc = "mark" /\ run.room = runner[p].room /\ run.thread = runner[p].thread
      /\ run.mode = runner[p].mode /\ run.mention = runner[p].mention
      /\ run.calls = runner[p].calls + 1 /\ runner[p].calls \in 0..MaxCalls
  BY <1>1, <1>2 DEF Called, Run
<1>4. Becomes(p, run) /\ UNCHANGED <<homes, heard>>
  BY <1>1 DEF Send, bindings
<1>5. Answering(runner[p]) /\ Answering(run) /\ run.calls > 0
  BY <1>2, <1>3, Constants DEF Answering
<1> QED
  BY <1>3, <1>4, <1>5, StillAnswering, HandlerMoves

LEMMA MarkRoomHome ==
    ASSUME TypeInv, HandlersInv, NEW p \in Runners, MarkRoom(p)
    PROVE  HandlersInv'
<1>1. PICK row : /\ row = IF IsBound(runner[p].to) THEN rows[runner[p].to] ELSE NewRow(runner[p].thread)
  OBVIOUS
<1>2. PICK moved : moved = [row EXCEPT !.thread = runner[p].thread]
  OBVIOUS
<1>3. runner[p] \in Run /\ runner[p].pc = "mark" /\ runner[p].to \in Rooms
      /\ runner[p].thread \in Threads /\ runner[p].at \in Times
  BY RunTypes DEF MarkRoom, Sound, Run
<1>4. row \in Row
  BY <1>1, <1>3, NewRows DEF TypeInv, TypeOK
<1>5. moved \in Row /\ moved.thread = runner[p].thread
  BY <1>2, <1>3, <1>4 DEF Row
<1>6. PICK marked : marked = Engaged(moved, runner[p].at)
  OBVIOUS
<1>7. marked.thread = runner[p].thread
  BY <1>3, <1>5, <1>6, ChangedRows
<1>8. PICK run : run = Saving(runner[p], runner[p].to, marked)
  OBVIOUS
<1>9. Becomes(p, run) /\ UNCHANGED <<homes, heard>>
  BY <1>1, <1>2, <1>6, <1>8 DEF MarkRoom, dbVars, bindings
<1>10. /\ run.pc = "save" /\ run.room = runner[p].room /\ run.thread = runner[p].thread
       /\ run.mode = runner[p].mode /\ run.mention = runner[p].mention /\ run.calls = runner[p].calls
  BY <1>3, <1>7, <1>8 DEF Saving, Run
<1>11. ASSUME p \in Handlers PROVE AtHome(run)' /\ MentionKept(run)'
  <2>1. runner[p].calls > 0
    BY <1>3, <1>11, HandlerAtHome DEF AtHome
  <2>2. Answering(runner[p]) /\ Answering(run)
    BY <1>3, <1>10, <2>1 DEF Answering
  <2> QED BY <1>9, <1>10, <1>11, <2>2, StillAnswering
<1> QED
  BY <1>9, <1>10, <1>11, HandlerMoves

LEMMA EndEngagementHome ==
    ASSUME TypeInv, HandlersInv, NEW p \in Runners, NEW r \in Rooms, EndEngagement(p, r)
    PROVE  HandlersInv'
<1>1. PICK run : run = [Called(p) EXCEPT !.pc = "save", !.to = r, !.row = Passive(rows[r])]
  OBVIOUS
<1>2. runner[p] \in Run /\ runner[p].pc = "rounds"
  BY RunTypes DEF EndEngagement, MayCall
<1>3. /\ run.pc = "save" /\ run.room = runner[p].room /\ run.thread = runner[p].thread
      /\ run.mode = runner[p].mode /\ run.mention = runner[p].mention
      /\ run.calls = runner[p].calls + 1
  BY <1>1, <1>2 DEF Called, Run
<1>4. Becomes(p, run) /\ UNCHANGED <<homes, heard>>
  BY <1>1 DEF EndEngagement, bindings
<1>5. Answering(runner[p]) /\ Answering(run)
  BY <1>2, <1>3, Constants DEF Answering, Run
<1> QED
  BY <1>3, <1>4, <1>5, StillAnswering, HandlerMoves

LEMMA RunOverHome ==
    ASSUME TypeInv, HandlersInv, NEW p \in Runners, RunEnds(p) \/ RunFails(p)
    PROVE  HandlersInv'
<1>1. Becomes(p, Idle) /\ UNCHANGED <<homes, heard>>
  BY DEF RunEnds, RunFails, Ends, dbVars, bindings
<1>2. Idle.room = None
  BY DEF Idle
<1> QED
  BY <1>1, <1>2, IdleAtHome, HandlerMoves

LEMMA QuietHome ==
    ASSUME HandlersInv, UNCHANGED <<runner, homes, heard>>
    PROVE  HandlersInv'
BY DEF HandlersInv, AtHome, MentionKept, OneBatch, Housed, Answering, OnlyHome

LEMMA WakeHome ==
    ASSUME TypeInv, HandlersInv, WakeStarts \/ WakeEnds \/ Tick \/ \E b \in wake.left : WakeRoom(b)
    PROVE  HandlersInv'
<1>1. UNCHANGED <<homes, heard>>
  BY DEF WakeStarts, WakeEnds, Tick, WakeRoom, dbVars, bindings
<1>2. CASE UNCHANGED runner
  BY <1>1, <1>2, QuietHome
<1>3. ASSUME NEW run, Becomes(Waker, run) PROVE HandlersInv'
  <2>1. Waker \in Runners /\ Waker \notin Handlers
    BY Constants DEF Runners
  <2> QED BY <1>1, <1>3, <2>1, HandlerMoves
<1> QED
  BY <1>2, <1>3 DEF WakeStarts, WakeEnds, Tick, WakeRoom

LEMMA HandlersStep ==
    ASSUME TypeInv, HandlersInv, [Next]_vars
    PROVE  HandlersInv'
<1>1. CASE UNCHANGED vars
  BY <1>1, QuietHome DEF vars, dbVars, bindings
<1>2. ASSUME NEW p \in Runners, RunnerStep(p) PROVE HandlersInv'
  BY <1>2, FindBindingHome, SaveBindingHome, StartRunHome, ReadReplyModeHome, MarkRoomHome,
     RunOverHome, SendHome, EndEngagementHome DEF RunnerStep
<1>3. ASSUME NEW p \in Handlers, NEW r \in Rooms, NEW mention \in BOOLEAN, BatchArrives(p, r, mention)
      PROVE  HandlersInv'
  BY <1>3, BatchArrivesHome
<1> QED
  BY <1>1, <1>2, <1>3, TriggerHome, WakeHome DEF Next

-----------------------------------------------------------------------------
(* Windows and their causes.                                                *)

CausesInv ==
    /\ CausesPast
    /\ \A r \in Groups : Caused(rows[r], r)
    /\ \A p \in Runners : CausedRun(runner[p])

\* Causes are as many, and none is earlier.
Later ==
    /\ involved' \in [Groups -> Times \cup {None}]
    /\ \A r \in Groups : involved[r] # None => involved'[r] # None /\ involved[r] <= involved'[r]

LEMMA CauseStays ==
    ASSUME TypeInv, Later, NEW row \in Row, NEW r \in Groups, Caused(row, r)
    PROVE  Caused(row, r)'
<1> SUFFICES ASSUME row.until # None
             PROVE  involved'[r] # None /\ row.until <= involved'[r] + Window
  BY DEF Caused
<1>1. involved[r] # None /\ row.until <= involved[r] + Window
  BY DEF Caused
<1>2. involved[r] \in Nat /\ involved'[r] \in Nat /\ involved'[r] # None /\ involved[r] <= involved'[r]
  <2>1. involved[r] \in Times /\ involved'[r] \in Times /\ involved'[r] # None /\ involved[r] <= involved'[r]
    BY <1>1 DEF Later, TypeInv, TypeOK
  <2> QED BY <2>1, Constants DEF Times
<1>3. row.until \in Nat
  BY Constants DEF Row
<1> QED BY <1>1, <1>2, <1>3, Constants

LEMMA SinceStays ==
    ASSUME TypeInv, Later, NEW t \in Times, NEW r \in Groups, Since(t, r)
    PROVE  Since(t, r)'
<1>1. involved[r] \in Times /\ involved'[r] \in Times /\ involved'[r] # None
      /\ involved[r] <= involved'[r] /\ t <= involved[r]
  BY DEF Later, TypeInv, TypeOK, Since
<1>2. t <= involved'[r]
  BY <1>1, Constants DEF Times
<1> QED BY <1>1, <1>2 DEF Since

LEMMA RunCauseStays ==
    ASSUME TypeInv, Later, NEW run \in Run, CausedRun(run)
    PROVE  CausedRun(run)'
<1>1. run.at \in Times /\ run.row \in Row
  BY DEF Run
<1>2. run.pc = "find" /\ run.mention /\ run.room \in Groups => Since(run.at, run.room)'
  BY <1>1, SinceStays DEF CausedRun
<1>3. run.pc = "mark" /\ run.to \in Groups => Since(run.at, run.to)'
  BY <1>1, SinceStays DEF CausedRun
<1>4. run.pc = "save" /\ run.to \in Groups => Caused(run.row, run.to)'
  BY <1>1, CauseStays DEF CausedRun
<1> QED BY <1>2, <1>3, <1>4 DEF CausedRun

LEMMA CausesAct ==
    ASSUME TypeInv, CausesInv, NEW p \in Runners, NEW run, Becomes(p, run), Later, CausesPast',
           UNCHANGED rows, CausedRun(run)'
    PROVE  CausesInv'
<1>1. runner \in [Runners -> Run] /\ runner' = [runner EXCEPT ![p] = run]
  BY DEF TypeInv, TypeOK, Becomes
<1>2. ASSUME NEW r \in Groups PROVE Caused(rows[r], r)'
  <2>1. PICK row \in Row : row = rows[r]
    BY DEF TypeInv, TypeOK, Groups
  <2>2. Caused(row, r)'
    BY <2>1, CauseStays DEF CausesInv
  <2> QED BY <2>1, <2>2 DEF Caused
<1>3. ASSUME NEW q \in Runners PROVE CausedRun(runner[q])'
  <2>1. CASE q = p
    <3>1. runner'[q] = run
      BY <1>1, <2>1
    <3> QED BY <3>1 DEF CausedRun, Since, Caused
  <2>2. CASE q # p
    <3>1. PICK old \in Run : old = runner[q] /\ old = runner'[q]
      BY <1>1, <2>2
    <3>2. CausedRun(old)'
      BY <3>1, RunCauseStays DEF CausesInv
    <3> QED BY <3>1, <3>2 DEF CausedRun, Since, Caused
  <2> QED BY <2>1, <2>2
<1> QED BY <1>2, <1>3 DEF CausesInv

LEMMA SameCauses ==
    ASSUME TypeInv, CausesInv, UNCHANGED <<now, involved>>
    PROVE  Later /\ CausesPast'
<1>1. \A r \in Groups : involved[r] # None => involved[r] <= involved[r]
  BY Constants DEF TypeInv, TypeOK, Times
<1> QED BY <1>1 DEF Later, CausesPast, CausesInv, TypeInv, TypeOK

LEMMA NewCause ==
    ASSUME TypeInv, CausesInv, NEW r, now' = now, involved' = InvolvedIn(r)
    PROVE  Later /\ CausesPast' /\ (r \in Groups => Since(now, r)')
<1>1. now \in Times /\ \A g \in Groups : involved[g] \in Times \cup {None}
  BY DEF TypeInv, TypeOK
<1>2. \A g \in Groups : involved[g] # None => involved[g] <= now
  BY DEF CausesInv, CausesPast
<1>3. \A g \in Groups : involved'[g] = IF g = r THEN now ELSE involved[g]
  BY DEF InvolvedIn
<1>4. now # None /\ now <= now /\ \A g \in Groups : involved[g] # None => involved[g] <= involved[g]
  BY <1>1, Constants DEF Times
<1>5. involved' \in [Groups -> Times \cup {None}]
  BY <1>1, <1>3 DEF InvolvedIn
<1> QED BY <1>2, <1>3, <1>4, <1>5 DEF Later, CausesPast, Since

\* What a mention or a message of the agent makes of a row.
LEMMA EngagedHasCause ==
    ASSUME TypeInv, NEW row \in Row, NEW t \in Times, NEW r \in Groups, Since(t, r)
    PROVE  Caused(Engaged(row, t), r)
<1>1. Engaged(row, t).until \in {None, t + Window}
  BY DEF Engaged, Row
<1>2. involved[r] # None /\ involved[r] \in Times /\ t <= involved[r]
  BY DEF Since, TypeInv, TypeOK
<1>3. t + Window <= involved[r] + Window
  BY <1>2, Constants DEF Times
<1> QED BY <1>1, <1>2, <1>3 DEF Caused

LEMMA HeardHasCause ==
    ASSUME TypeInv, NEW row \in Row, NEW t \in Times, NEW r \in Groups, NEW mention \in BOOLEAN,
           row.type # "direct", Caused(row, r), mention => Since(t, r)
    PROVE  Caused(Heard(row, mention, t), r)
<1>1. CASE mention
  <2>1. Heard(row, mention, t) = Engaged(row, t)
    BY <1>1 DEF Heard
  <2> QED BY <1>1, <2>1, EngagedHasCause
<1>2. CASE ~mention
  <2>1. Heard(row, mention, t) \in {row, Passive(row)}
    BY <1>2 DEF Heard, IsDirect
  <2>2. Passive(row).until = None
    BY DEF Passive, Row
  <2>3. Caused(Passive(row), r)
    BY <2>2 DEF Caused
  <2> QED BY <2>1, <2>3
<1> QED BY <1>1, <1>2

LEMMA BatchArrivesCauses ==
    ASSUME TypeInv, CausesInv, NEW p \in Handlers, NEW r \in Rooms, NEW mention \in BOOLEAN,
           BatchArrives(p, r, mention)
    PROVE  CausesInv'
<1>1. PICK run : run = [Idle EXCEPT !.pc = "find", !.room = r, !.mention = mention, !.at = now]
  OBVIOUS
<1>2. run.pc = "find" /\ run.room = r /\ run.mention = mention /\ run.at = now
  BY <1>1 DEF Idle
<1>3. Becomes(p, run) /\ UNCHANGED <<now, rows>> /\ p \in Runners
  BY <1>1 DEF BatchArrives, dbVars, bindings, Runners
<1>4. CASE mention
  <2>1. involved' = InvolvedIn(r)
    BY <1>4 DEF BatchArrives
  <2>2. Later /\ CausesPast' /\ (r \in Groups => Since(now, r)')
    BY <1>3, <2>1, NewCause
  <2>3. CausedRun(run)'
    BY <1>2, <1>3, <2>2 DEF CausedRun, Since
  <2> QED BY <1>3, <2>2, <2>3, CausesAct
<1>5. CASE ~mention
  <2>1. involved' = involved
    BY <1>5 DEF BatchArrives
  <2>2. CausedRun(run)'
    BY <1>2, <1>5 DEF CausedRun
  <2> QED BY <1>3, <2>1, <2>2, SameCauses, CausesAct
<1> QED BY <1>4, <1>5

\* A step that is no cause, and leaves a run with none to show.
LEMMA RunOnlyMoves ==
    ASSUME TypeInv, CausesInv, NEW p \in Runners, NEW run, Becomes(p, run),
           UNCHANGED <<now, involved, rows>>,
           \/ run.pc \notin {"find", "mark", "save"}
           \/ run.pc = "save" /\ (run.to \in Groups => Caused(run.row, run.to))
    PROVE  CausesInv'
<1>1. CausedRun(run)'
  BY DEF CausedRun, Caused
<1> QED BY <1>1, SameCauses, CausesAct

LEMMA FindBindingCauses ==
    ASSUME TypeInv, CausesInv, NEW p \in Runners, FindBinding(p)
    PROVE  CausesInv'
<1>1. PICK run : run = runner[p]
  OBVIOUS
<1>2. PICK r : r = run.room
  OBVIOUS
<1>3. run \in Run /\ run.pc = "find" /\ r \in Rooms /\ run.mention \in BOOLEAN /\ run.at \in Times
  BY <1>1, <1>2, RunTypes DEF FindBinding, Sound, Run
<1>4. r \in Groups /\ run.mention => Since(run.at, r)
  BY <1>1, <1>2, <1>3 DEF CausesInv, CausedRun
<1>5. ASSUME NEW row \in Row, r \in Groups => Caused(row, r),
             Becomes(p, Saving(run, r, Heard([row EXCEPT !.type = RoomType(r)], run.mention, run.at)))
      PROVE  CausesInv'
  <2>1. PICK typed : typed = [row EXCEPT !.type = RoomType(r)]
    OBVIOUS
  <2>2. typed \in Row /\ typed.until = row.until /\ (r \in Groups => typed.type # "direct")
    BY <2>1 DEF Row, RoomType, Groups
  <2>3. PICK taken : taken = Heard(typed, run.mention, run.at)
    OBVIOUS
  <2>4. r \in Groups => Caused(taken, r)
    <3>1. r \in Groups => Caused(typed, r)
      BY <1>5, <2>2 DEF Caused
    <3> QED BY <1>3, <1>4, <2>2, <2>3, <3>1, HeardHasCause
  <2>5. PICK next : next = Saving(run, r, taken)
    OBVIOUS
  <2>6. next.pc = "save" /\ next.to = r /\ next.row = taken
    BY <1>3, <2>5 DEF Saving, Run
  <2>7. Becomes(p, next) /\ UNCHANGED <<now, involved, rows>>
    BY <1>5, <2>1, <2>3, <2>5 DEF FindBinding, Clock, dbVars, bindings
  <2> QED BY <2>4, <2>6, <2>7, RunOnlyMoves
<1>6. CASE IsBound(r) /\ Becomes(p, Saving(run, r, Heard([rows[r] EXCEPT !.type = RoomType(r)], run.mention, run.at)))
  <2>1. PICK row : row = rows[r]
    OBVIOUS
  <2>2. row \in Row /\ (r \in Groups => Caused(row, r))
    BY <1>3, <2>1 DEF TypeInv, TypeOK, CausesInv
  <2> QED BY <1>5, <1>6, <2>1, <2>2
<1>7. CASE /\ CreateConversation(<<r>>)
           /\ Becomes(p, Saving(run, r, Heard([NewRow(Len(accounts')) EXCEPT !.type = RoomType(r)],
                                              run.mention, run.at)))
  <2>1. <<r>> \in Texts
    BY <1>3 DEF Texts
  <2>2. Len(accounts') \in Threads
    BY <1>7, <2>1, ConversationCreated
  <2>3. PICK row : row = NewRow(Len(accounts'))
    OBVIOUS
  <2>4. row \in Row /\ Caused(row, r)
    BY <2>2, <2>3, NewRows DEF Caused
  <2> QED BY <1>5, <1>7, <2>3, <2>4
<1> QED BY <1>1, <1>2, <1>6, <1>7 DEF FindBinding

LEMMA TriggerCauses ==
    ASSUME TypeInv, CausesInv, NEW p \in Runners, Trigger(p)
    PROVE  CausesInv'
<1>1. UNCHANGED <<now, involved, rows>>
  BY DEF Trigger, bindings
<1>2. ASSUME NEW run, Becomes(p, run), run.pc = "start" PROVE CausesInv'
  BY <1>1, <1>2, RunOnlyMoves
<1>3. ASSUME NEW t, TriggerByThread(p, t) PROVE CausesInv'
  <2>1. PICK run : run = [Idle EXCEPT !.pc = "start", !.thread = t, !.room = RoomOfThread(t)]
    OBVIOUS
  <2> QED BY <1>2, <1>3, <2>1 DEF TriggerByThread, Idle
<1>4. ASSUME NEW r \in Rooms, TriggerByRoom(p, r) PROVE CausesInv'
  <2>1. CASE Becomes(p, [Idle EXCEPT !.pc = "start", !.thread = rows[r].thread, !.room = r])
    <3>1. PICK run : run = [Idle EXCEPT !.pc = "start", !.thread = rows[r].thread, !.room = r]
      OBVIOUS
    <3> QED BY <1>2, <2>1, <3>1 DEF Idle
  <2>2. CASE /\ CreateConversation(<<r>>)
             /\ Becomes(p, Saving([Idle EXCEPT !.room = r], r, NewRow(Len(accounts'))))
    <3>1. PICK row : row = NewRow(Len(accounts'))
      OBVIOUS
    <3>2. row.until = None
      BY <3>1 DEF NewRow, NoRow
    <3>3. PICK run : run = Saving([Idle EXCEPT !.room = r], r, row)
      OBVIOUS
    <3>4. run.pc = "save" /\ run.to = r /\ run.row = row
      BY <3>3 DEF Saving, Idle
    <3>5. Caused(run.row, run.to)
      BY <3>2, <3>4 DEF Caused
    <3> QED BY <1>1, <2>2, <3>1, <3>3, <3>4, <3>5, RunOnlyMoves
  <2> QED BY <1>4, <2>1, <2>2 DEF TriggerByRoom
<1>5. ASSUME NEW account, TriggerByAccount(p, account) PROVE CausesInv'
  <2>1. PICK t : Becomes(p, [Idle EXCEPT !.pc = "start", !.thread = t])
    BY <1>5 DEF TriggerByAccount
  <2>2. PICK run : run = [Idle EXCEPT !.pc = "start", !.thread = t]
    OBVIOUS
  <2> QED BY <1>2, <2>1, <2>2 DEF Idle
<1> QED BY <1>3, <1>4, <1>5 DEF Trigger

LEMMA SaveBindingCauses ==
    ASSUME TypeInv, CausesInv, NEW p \in Runners, SaveBinding(p)
    PROVE  CausesInv'
<1>1. PICK run : run = runner[p]
  OBVIOUS
<1>2. PICK r : r = run.to
  OBVIOUS
<1>3. run \in Run /\ run.pc = "save" /\ r \in Rooms /\ run.row \in Row
  BY <1>1, <1>2, RunTypes DEF SaveBinding, Sound, Run
<1>4. r \in Groups => Caused(run.row, r)
  BY <1>1, <1>2, <1>3 DEF CausesInv, CausedRun
<1>5. UNCHANGED <<now, involved>>
  BY DEF SaveBinding, Clock
<1>6. CASE Ends(p) /\ UNCHANGED bindings
  BY <1>5, <1>6, RunOnlyMoves DEF Ends, Idle, bindings
<1>7. CASE /\ IsBound(r) => run.row.id # 0
           /\ rows' = [rows EXCEPT ![r] = Stored(run.row)]
           /\ Becomes(p, [run EXCEPT !.pc = IF run.calls = 0 THEN "start" ELSE "rounds",
                                     !.row = NoRow, !.to = None, !.at = 0])
  <2>1. Stored(run.row).until = run.row.until
    BY <1>3, <1>7, StoredRows
  <2>2. \A g \in Groups : Caused(rows[g], g)'
    <3> SUFFICES ASSUME NEW g \in Groups, rows'[g].until # None
                 PROVE  involved[g] # None /\ rows'[g].until <= involved[g] + Window
      BY <1>5 DEF Caused
    <3>1. CASE g = r
      <4>1. rows'[g].until = run.row.until
        BY <1>3, <1>7, <2>1, <3>1 DEF TypeInv, TypeOK
      <4> QED BY <1>4, <3>1, <4>1 DEF Caused
    <3>2. CASE g # r
      <4>1. rows'[g] = rows[g]
        BY <1>3, <1>7, <3>2 DEF TypeInv, TypeOK, Groups
      <4> QED BY <4>1 DEF CausesInv, Caused
    <3> QED BY <3>1, <3>2
  <2>3. \A q \in Runners : CausedRun(runner[q])'
    <3>1. PICK next : next = [run EXCEPT !.pc = IF run.calls = 0 THEN "start" ELSE "rounds",
                                         !.row = NoRow, !.to = None, !.at = 0]
      OBVIOUS
    <3>2. next.pc \in {"start", "rounds"}
      BY <1>3, <3>1 DEF Run
    <3>3. \A q \in Runners : runner'[q] = IF q = p THEN next ELSE runner[q]
      BY <1>7, <3>1 DEF Becomes, TypeInv, TypeOK
    <3>4. \A q \in Runners : CausedRun(runner[q])
      BY DEF CausesInv
    <3> QED BY <1>5, <3>2, <3>3, <3>4 DEF CausedRun, Since, Caused
  <2> QED BY <1>5, <2>2, <2>3, SameCauses DEF CausesInv
<1> QED BY <1>1, <1>2, <1>6, <1>7 DEF SaveBinding, Refused

LEMMA SendCauses ==
    ASSUME TypeInv, CausesInv, NEW p \in Runners, NEW r \in Rooms, Send(p, r)
    PROVE  CausesInv'
<1>1. PICK run : run = [Called(p) EXCEPT !.pc = "mark", !.to = r, !.at = now]
  OBVIOUS
<1>2. run.pc = "mark" /\ run.to = r /\ run.at = now
  BY <1>1, RunTypes DEF Called, Run
<1>3. Becomes(p, run) /\ UNCHANGED <<now, rows>> /\ involved' = InvolvedIn(r)
  BY <1>1 DEF Send, bindings, Clock
<1>4. Later /\ CausesPast' /\ (r \in Groups => Since(now, r)')
  BY <1>3, NewCause
<1>5. CausedRun(run)'
  BY <1>2, <1>3, <1>4 DEF CausedRun, Since
<1> QED BY <1>3, <1>4, <1>5, CausesAct

LEMMA MarkRoomCauses ==
    ASSUME TypeInv, CausesInv, NEW p \in Runners, MarkRoom(p)
    PROVE  CausesInv'
<1>1. PICK run : run = runner[p]
  OBVIOUS
<1>2. run \in Run /\ run.pc = "mark" /\ run.to \in Rooms /\ run.thread \in Threads /\ run.at \in Times
  BY <1>1, RunTypes DEF MarkRoom, Run, Sound
<1>3. PICK row : row = IF IsBound(run.to) THEN rows[run.to] ELSE NewRow(run.thread)
  OBVIOUS
<1>4. PICK moved : moved = [row EXCEPT !.thread = run.thread]
  OBVIOUS
<1>5. moved \in Row
  <2>1. row \in Row
    BY <1>2, <1>3, NewRows DEF TypeInv, TypeOK
  <2> QED BY <1>2, <1>4, <2>1 DEF Row
<1>6. PICK marked : marked = Engaged(moved, run.at)
  OBVIOUS
<1>7. run.to \in Groups => Caused(marked, run.to)
  <2>1. run.to \in Groups => Since(run.at, run.to)
    BY <1>1, <1>2 DEF CausesInv, CausedRun
  <2> QED BY <1>2, <1>5, <1>6, <2>1, EngagedHasCause
<1>8. PICK next : next = Saving(run, run.to, marked)
  OBVIOUS
<1>9. next.pc = "save" /\ next.to = run.to /\ next.row = marked
  BY <1>2, <1>8 DEF Saving, Run
<1>10. Becomes(p, next) /\ UNCHANGED <<now, involved, rows>>
  BY <1>1, <1>3, <1>4, <1>6, <1>8 DEF MarkRoom, Clock, dbVars, bindings
<1> QED BY <1>7, <1>9, <1>10, RunOnlyMoves

LEMMA EndEngagementCauses ==
    ASSUME TypeInv, CausesInv, NEW p \in Runners, NEW r \in Rooms, EndEngagement(p, r)
    PROVE  CausesInv'
<1>1. PICK run : run = [Called(p) EXCEPT !.pc = "save", !.to = r, !.row = Passive(rows[r])]
  OBVIOUS
<1>2. run.pc = "save" /\ run.to = r /\ run.row = Passive(rows[r])
  BY <1>1, RunTypes DEF Called, Run
<1>3. Caused(run.row, run.to)
  <2>1. rows[r] \in Row
    BY DEF TypeInv, TypeOK
  <2>2. run.row.until = None
    BY <1>2, <2>1 DEF Passive, Row
  <2> QED BY <2>2 DEF Caused
<1>4. Becomes(p, run) /\ UNCHANGED <<now, involved, rows>>
  BY <1>1 DEF EndEngagement, bindings, Clock
<1> QED BY <1>2, <1>3, <1>4, RunOnlyMoves

LEMMA RunOverCauses ==
    ASSUME TypeInv, CausesInv, NEW p \in Runners, RunEnds(p) \/ RunFails(p)
    PROVE  CausesInv'
<1>1. Becomes(p, Idle) /\ UNCHANGED <<now, involved, rows>>
  BY DEF RunEnds, RunFails, Ends, Clock, dbVars, bindings
<1> QED
  BY <1>1, RunOnlyMoves DEF Idle

\* A step that moves a run on to what needs no cause.
LEMMA RunMovesOn ==
    ASSUME TypeInv, CausesInv, NEW p \in Runners, StartRun(p) \/ ReadReplyMode(p)
    PROVE  CausesInv'
<1>1. UNCHANGED <<now, involved, rows>>
  BY DEF StartRun, ReadReplyMode, Clock, dbVars, bindings
<1>2. runner[p] \in Run
  BY RunTypes
<1>3. CASE StartRun(p)
  <2>1. PICK run : run = [runner[p] EXCEPT !.pc = "read"]
    OBVIOUS
  <2>2. run.pc = "read"
    BY <1>2, <2>1 DEF Run
  <2>3. Becomes(p, run)
    BY <1>3, <2>1 DEF StartRun, Moves, Becomes
  <2> QED BY <1>1, <2>2, <2>3, RunOnlyMoves
<1>4. CASE ReadReplyMode(p)
  <2>1. PICK mode : Becomes(p, [runner[p] EXCEPT !.pc = "rounds", !.mode = mode])
    BY <1>4 DEF ReadReplyMode
  <2>2. PICK run : run = [runner[p] EXCEPT !.pc = "rounds", !.mode = mode]
    OBVIOUS
  <2>3. run.pc = "rounds"
    BY <1>2, <2>2 DEF Run
  <2> QED BY <1>1, <2>1, <2>2, <2>3, RunOnlyMoves
<1> QED BY <1>3, <1>4

LEMMA QuietCauses ==
    ASSUME CausesInv, UNCHANGED <<now, involved, rows, runner>>
    PROVE  CausesInv'
BY DEF CausesInv, CausesPast, Caused, CausedRun, Since

LEMMA WakeCauses ==
    ASSUME TypeInv, CausesInv, WakeStarts \/ WakeEnds \/ \E b \in wake.left : WakeRoom(b)
    PROVE  CausesInv'
<1>1. UNCHANGED <<now, involved, rows>>
  BY DEF WakeStarts, WakeEnds, WakeRoom, dbVars, bindings
<1>2. CASE UNCHANGED runner
  BY <1>1, <1>2, QuietCauses
<1>3. ASSUME NEW b, Becomes(Waker, [Idle EXCEPT !.pc = "start", !.room = b.room, !.thread = b.thread])
      PROVE  CausesInv'
  <2>1. PICK run : run = [Idle EXCEPT !.pc = "start", !.room = b.room, !.thread = b.thread]
    OBVIOUS
  <2>2. run.pc = "start"
    BY <2>1 DEF Idle
  <2>3. Waker \in Runners
    BY DEF Runners
  <2> QED BY <1>1, <1>3, <2>1, <2>2, <2>3, RunOnlyMoves
<1> QED
  BY <1>2, <1>3 DEF WakeStarts, WakeEnds, WakeRoom

LEMMA TickCauses ==
    ASSUME TypeInv, CausesInv, Tick
    PROVE  CausesInv'
<1>1. now' = now + 1 /\ UNCHANGED <<involved, rows, runner>>
  BY DEF Tick, dbVars, bindings
<1>2. now \in Nat /\ \A r \in Groups : involved[r] # None => involved[r] \in Nat
  BY Constants DEF TypeInv, TypeOK, Times
<1>3. CausesPast'
  BY <1>1, <1>2 DEF CausesInv, CausesPast
<1> QED
  BY <1>1, <1>3 DEF CausesInv, Caused, CausedRun, Since

LEMMA CausesStep ==
    ASSUME TypeInv, CausesInv, [Next]_vars
    PROVE  CausesInv'
<1>1. CASE UNCHANGED vars
  BY <1>1, QuietCauses DEF vars, dbVars, bindings
<1>2. ASSUME NEW p \in Runners, RunnerStep(p) PROVE CausesInv'
  BY <1>2, FindBindingCauses, SaveBindingCauses, RunMovesOn, MarkRoomCauses, RunOverCauses,
     SendCauses, EndEngagementCauses DEF RunnerStep
<1>3. ASSUME NEW p \in Handlers, NEW r \in Rooms, NEW mention \in BOOLEAN, BatchArrives(p, r, mention)
      PROVE  CausesInv'
  BY <1>3, BatchArrivesCauses
<1> QED
  BY <1>1, <1>2, <1>3, TriggerCauses, WakeCauses, TickCauses DEF Next

-----------------------------------------------------------------------------
(* Groups, and the conversations they are bound to.                         *)

\* A group that is bound stays bound to its conversation.
GroupsStay == \A g \in Groups : \A t \in Threads : InGroup(g, t) => InGroup(g, t)'

LEMMA SameGroups ==
    ASSUME UNCHANGED rows
    PROVE  GroupsStay
BY DEF GroupsStay, InGroup, IsBound

LEMMA PlaceStays ==
    ASSUME GroupsStay, NEW run \in Run, Sound(run), Placed(run)
    PROVE  Placed(run)'
<1>1. Housed(run) /\ run.room \in Groups => InGroup(run.room, run.thread)'
  <2>1. Housed(run) => run.thread \in Threads
    BY DEF Housed, Sound
  <2> QED BY <2>1 DEF Placed, GroupsStay
<1>2. run.pc = "save" /\ run.to \in Groups /\ run.row.id # 0 => InGroup(run.to, run.row.thread)'
  <2>1. run.pc = "save" => run.row.thread \in Threads
    BY DEF Sound
  <2> QED BY <2>1 DEF Placed, GroupsStay
<1> QED BY <1>1, <1>2 DEF Placed, Housed

LEMMA RunPlaced ==
    ASSUME TypeInv, KeptInv, NEW p \in Runners
    PROVE  Placed(runner[p])
BY DEF KeptInv, RunsKept

LEMMA RunnersPlaced ==
    ASSUME TypeInv, KeptInv, GroupsStay, NEW p \in Runners, NEW run, Becomes(p, run), Placed(run)'
    PROVE  RunsKept'
<1>1. runner' = [runner EXCEPT ![p] = run] /\ runner \in [Runners -> Run]
  BY DEF Becomes, TypeInv, TypeOK
<1>2. ASSUME NEW q \in Runners PROVE Placed(runner[q])'
  <2>1. CASE q = p
    <3>1. runner'[q] = run
      BY <1>1, <2>1
    <3> QED BY <3>1 DEF Placed, Housed, InGroup, IsBound
  <2>2. CASE q # p
    <3>1. PICK old \in Run : old = runner[q] /\ old = runner'[q]
      BY <1>1, <2>2
    <3>2. Sound(old) /\ Placed(old)
      BY <3>1, RunTypes, RunPlaced
    <3>3. Placed(old)'
      BY <3>2, PlaceStays
    <3> QED BY <3>1, <3>3 DEF Placed, Housed, InGroup, IsBound
  <2> QED BY <2>1, <2>2
<1> QED BY <1>2 DEF RunsKept

LEMMA ListStays ==
    ASSUME TypeInv, KeptInv, GroupsStay, wake'.left \subseteq wake.left
    PROVE  ListKept'
<1> SUFFICES ASSUME NEW b \in wake'.left, b.room \in Groups
             PROVE  InGroup(b.room, b.thread)'
  BY DEF ListKept, InGroup, IsBound
<1>1. b \in wake.left /\ b \in Listed
  BY DEF TypeInv, TypeOK
<1>2. InGroup(b.room, b.thread) /\ b.thread \in Threads
  BY <1>1 DEF KeptInv, ListKept, Listed
<1> QED BY <1>2 DEF GroupsStay

\* A step of a run that leaves the bindings alone.
LEMMA RunKeeps ==
    ASSUME TypeInv, KeptInv, UNCHANGED bindings, wake'.left \subseteq wake.left,
           NEW p \in Runners, NEW run, Becomes(p, run), Placed(run)
    PROVE  KeptInv'
<1>1. GroupsStay
  BY SameGroups DEF bindings
<1>2. Placed(run)'
  BY DEF Placed, Housed, InGroup, IsBound, bindings
<1>3. HomesKept'
  BY DEF KeptInv, HomesKept, InGroup, IsBound, bindings
<1> QED
  BY <1>1, <1>2, <1>3, RunnersPlaced, ListStays DEF KeptInv

LEMMA QuietKept ==
    ASSUME KeptInv, UNCHANGED <<rows, homes, runner>>, wake'.left \subseteq wake.left
    PROVE  KeptInv'
BY DEF KeptInv, RunsKept, HomesKept, ListKept, Placed, Housed, InGroup, IsBound

LEMMA IdlePlaced == Placed(Idle)
BY DEF Placed, Housed, Idle

LEMMA BatchArrivesKept ==
    ASSUME TypeInv, KeptInv, NEW p \in Handlers, NEW r \in Rooms, NEW mention \in BOOLEAN,
           BatchArrives(p, r, mention)
    PROVE  KeptInv'
<1>1. PICK run : run = [Idle EXCEPT !.pc = "find", !.room = r, !.mention = mention, !.at = now]
  OBVIOUS
<1>2. run.pc = "find" /\ run.calls = 0
  BY <1>1 DEF Idle
<1>3. Placed(run)
  BY <1>2 DEF Placed, Housed
<1>4. Becomes(p, run) /\ p \in Runners /\ UNCHANGED <<bindings, wake>>
  BY <1>1 DEF BatchArrives, dbVars, Runners
<1> QED BY <1>3, <1>4, RunKeeps

\* A batch that finds its group bound saves it with the conversation it has;
\* one that does not saves a row that is new.
LEMMA FindBindingKept ==
    ASSUME TypeInv, KeptInv, NEW p \in Runners, FindBinding(p)
    PROVE  KeptInv'
<1>1. PICK run : run = runner[p]
  OBVIOUS
<1>2. PICK r : r = run.room
  OBVIOUS
<1>3. run \in Run /\ run.pc = "find" /\ r \in Rooms /\ run.mention \in BOOLEAN /\ run.at \in Times
      /\ run.calls = 0
  BY <1>1, <1>2, RunTypes, RunPlaced DEF FindBinding, Sound, Run, Placed
<1>4. UNCHANGED <<bindings, wake>>
  BY DEF FindBinding, Clock, dbVars
<1>5. ASSUME NEW row \in Row, (r \in Groups /\ row.id # 0) => InGroup(r, row.thread),
             Becomes(p, Saving(run, r, Heard([row EXCEPT !.type = RoomType(r)], run.mention, run.at)))
      PROVE  KeptInv'
  <2>1. PICK typed : typed = [row EXCEPT !.type = RoomType(r)]
    OBVIOUS
  <2>2. typed \in Row /\ typed.thread = row.thread /\ typed.id = row.id
    BY <2>1 DEF Row, RoomType
  <2>3. PICK taken : taken = Heard(typed, run.mention, run.at)
    OBVIOUS
  <2>4. taken.thread = row.thread /\ taken.id = row.id
    <3>1. taken \in {Passive(typed), Engaged(typed, run.at), typed}
      BY <2>3 DEF Heard
    <3> QED BY <2>2, <3>1 DEF Passive, Engaged, Row
  <2>5. PICK next : next = Saving(run, r, taken)
    OBVIOUS
  <2>6. next.pc = "save" /\ next.to = r /\ next.row = taken /\ next.calls = 0 /\ next.room = r
    BY <1>2, <1>3, <2>5 DEF Saving, Run
  <2>7. Placed(next)
    BY <1>5, <2>4, <2>6 DEF Placed, Housed
  <2> QED BY <1>4, <1>5, <2>1, <2>3, <2>5, <2>7, RunKeeps
<1>6. CASE /\ IsBound(r)
           /\ Becomes(p, Saving(run, r, Heard([rows[r] EXCEPT !.type = RoomType(r)], run.mention, run.at)))
  <2>1. rows[r] \in Row /\ InGroup(r, rows[r].thread)
    BY <1>3, <1>6 DEF TypeInv, TypeOK, InGroup
  <2> QED BY <1>5, <1>6, <2>1
<1>7. CASE /\ CreateConversation(<<r>>)
           /\ Becomes(p, Saving(run, r, Heard([NewRow(Len(accounts')) EXCEPT !.type = RoomType(r)],
                                              run.mention, run.at)))
  <2>1. <<r>> \in Texts
    BY <1>3 DEF Texts
  <2>2. Len(accounts') \in Threads
    BY <1>7, <2>1, ConversationCreated
  <2>3. NewRow(Len(accounts')) \in Row /\ NewRow(Len(accounts')).id = 0
    BY <2>2, NewRows
  <2> QED BY <1>5, <1>7, <2>3
<1> QED BY <1>1, <1>2, <1>6, <1>7 DEF FindBinding

\* A run that is started for a room is in the room's conversation.
LEMMA StartedKept ==
    ASSUME TypeInv, KeptInv, UNCHANGED <<bindings, wake>>, NEW p \in Runners, NEW t, NEW r,
           r \in Groups => InGroup(r, t),
           Becomes(p, [Idle EXCEPT !.pc = "start", !.thread = t, !.room = r])
    PROVE  KeptInv'
<1>1. PICK run : run = [Idle EXCEPT !.pc = "start", !.thread = t, !.room = r]
  OBVIOUS
<1>2. run.pc = "start" /\ run.thread = t /\ run.room = r
  BY <1>1 DEF Idle
<1>3. Placed(run)
  BY <1>2 DEF Placed
<1> QED BY <1>1, <1>3, RunKeeps

\* The room of a conversation is bound to it.
LEMMA RoomIsOfThread ==
    ASSUME TypeInv, NEW t, RoomOfThread(t) \in Groups
    PROVE  InGroup(RoomOfThread(t), t)
<1> DEFINE bound == {r \in Rooms : IsBound(r) /\ rows[r].thread = t}
           ids   == {rows[r].id : r \in bound}
<1>1. \A r \in Rooms : rows[r].id \in Nat
  BY RoomsCounted DEF TypeInv, TypeOK, Row
<1>2. bound # {}
  <2>1. RoomOfThread(t) # None
    BY Constants DEF Groups
  <2> QED BY <2>1 DEF RoomOfThread
<1>3. ids \subseteq Nat /\ ids # {}
  BY <1>1, <1>2
<1>4. PICK m \in ids : \A n \in ids : m <= n
  <2> HIDE DEF ids
  <2> QED BY <1>3, LeastNatural
<1>5. PICK r \in bound : rows[r].id = m
  OBVIOUS
<1>6. \A q \in bound : rows[r].id <= rows[q].id
  BY <1>4, <1>5
<1>7. RoomOfThread(t) \in bound
  <2>1. RoomOfThread(t) = CHOOSE q \in bound : \A o \in bound : rows[q].id <= rows[o].id
    BY <1>2 DEF RoomOfThread
  <2> HIDE DEF bound
  <2> QED BY <1>6, <2>1
<1> QED BY <1>7 DEF InGroup

LEMMA TriggerKept ==
    ASSUME TypeInv, KeptInv, NEW p \in Runners, Trigger(p)
    PROVE  KeptInv'
<1>1. UNCHANGED <<bindings, wake>>
  BY DEF Trigger
<1>2. ASSUME NEW t, TriggerByThread(p, t) PROVE KeptInv'
  BY <1>1, <1>2, RoomIsOfThread, StartedKept DEF TriggerByThread
<1>3. ASSUME NEW r \in Rooms, TriggerByRoom(p, r) PROVE KeptInv'
  <2>1. CASE /\ IsBound(r)
             /\ Becomes(p, [Idle EXCEPT !.pc = "start", !.thread = rows[r].thread, !.room = r])
    <3>1. InGroup(r, rows[r].thread)
      BY <2>1 DEF InGroup
    <3> QED BY <1>1, <2>1, <3>1, StartedKept
  <2>2. CASE Becomes(p, Saving([Idle EXCEPT !.room = r], r, NewRow(Len(accounts'))))
    <3>1. PICK next : next = Saving([Idle EXCEPT !.room = r], r, NewRow(Len(accounts')))
      OBVIOUS
    <3>2. /\ next.pc = "save" /\ next.to = r /\ next.room = r /\ next.calls = 0
          /\ next.row = NewRow(Len(accounts'))
      BY <3>1 DEF Saving, Idle
    <3>3. next.row.id = 0
      BY <3>2 DEF NewRow, NoRow
    <3>4. Placed(next)
      BY <3>2, <3>3 DEF Placed, Housed
    <3> QED BY <1>1, <2>2, <3>1, <3>4, RunKeeps
  <2> QED BY <1>3, <2>1, <2>2 DEF TriggerByRoom
<1>4. ASSUME NEW t, Becomes(p, [Idle EXCEPT !.pc = "start", !.thread = t]) PROVE KeptInv'
  <2>1. PICK run : run = [Idle EXCEPT !.pc = "start", !.thread = t]
    OBVIOUS
  <2>2. run.pc = "start" /\ run.room = None
    BY <2>1 DEF Idle
  <2>3. Placed(run)
    BY <2>2, Constants DEF Placed, Groups
  <2> QED BY <1>1, <1>4, <2>1, <2>3, RunKeeps
<1>5. ASSUME NEW account, TriggerByAccount(p, account) PROVE KeptInv'
  BY <1>4, <1>5 DEF TriggerByAccount
<1> QED BY <1>2, <1>3, <1>5 DEF Trigger

\* The row that is saved has the conversation the group is bound to, or is the
\* first of the group: one that is new to a group that is bound is refused.
LEMMA SaveBindingKept ==
    ASSUME TypeInv, KeptInv, NEW p \in Runners, SaveBinding(p)
    PROVE  KeptInv'
<1>1. PICK run : run = runner[p]
  OBVIOUS
<1>2. PICK r : r = run.to
  OBVIOUS
<1>3. /\ run \in Run /\ run.pc = "save" /\ r \in Rooms /\ run.row \in Row
      /\ run.row.thread \in Threads /\ run.thread \in Threads
      /\ run.calls = 0 => run.row.thread = run.thread
  BY <1>1, <1>2, RunTypes DEF SaveBinding, Sound, Run
<1>4. Placed(run)
  BY <1>1, RunPlaced
<1>5. UNCHANGED wake
  BY DEF SaveBinding, Clock
<1>6. CASE Ends(p) /\ UNCHANGED bindings
  BY <1>5, <1>6, IdlePlaced, RunKeeps DEF Ends
<1>7. CASE /\ ~Refused(run)
           /\ rows' = [rows EXCEPT ![r] = Stored(run.row)]
           /\ homes' = [homes EXCEPT ![run.row.thread] = @ \cup {r}]
           /\ Becomes(p, [run EXCEPT !.pc = IF run.calls = 0 THEN "start" ELSE "rounds",
                                     !.row = NoRow, !.to = None, !.at = 0])
  <2>1. Stored(run.row).thread = run.row.thread /\ Stored(run.row).id # 0
    BY <1>2, <1>3, <1>7, StoredRows DEF Refused
  <2>2. InGroup(r, run.row.thread)'
    BY <1>3, <1>7, <2>1 DEF InGroup, IsBound, TypeInv, TypeOK
  <2>3. GroupsStay
    <3> SUFFICES ASSUME NEW g \in Groups, NEW t \in Threads, InGroup(g, t) PROVE InGroup(g, t)'
      BY DEF GroupsStay
    <3>1. CASE g # r
      BY <1>7, <3>1 DEF InGroup, IsBound, TypeInv, TypeOK
    <3>2. CASE g = r
      <4>1. run.row.id # 0
        BY <1>2, <1>7, <3>2 DEF Refused, InGroup
      <4>2. run.row.thread = t
        BY <1>2, <1>3, <1>4, <3>2, <4>1 DEF Placed, InGroup
      <4> QED BY <2>2, <3>2, <4>2
    <3> QED BY <3>1, <3>2
  <2>4. HomesKept'
    <3> SUFFICES ASSUME NEW g \in Groups, NEW t \in Threads, g \in homes'[t] PROVE InGroup(g, t)'
      BY DEF HomesKept, InGroup, IsBound
    <3>1. g \in homes[t] \/ (g = r /\ t = run.row.thread)
      BY <1>3, <1>7 DEF TypeInv, TypeOK
    <3> QED BY <2>2, <2>3, <3>1 DEF KeptInv, HomesKept, GroupsStay
  <2>5. PICK next : next = [run EXCEPT !.pc = IF run.calls = 0 THEN "start" ELSE "rounds",
                                       !.row = NoRow, !.to = None, !.at = 0]
    OBVIOUS
  <2>6. next.pc \in {"start", "rounds"} /\ next.room = run.room /\ next.thread = run.thread
    BY <1>3, <2>5 DEF Run
  <2>7. ASSUME run.room \in Groups PROVE InGroup(run.room, run.thread)'
    <3>1. CASE run.calls = 0
      BY <1>2, <1>3, <1>4, <2>2, <3>1 DEF Placed
    <3>2. CASE run.calls # 0
      <4>1. Housed(run)
        BY <1>3, <3>2, Constants DEF Housed, Run
      <4> QED BY <1>3, <1>4, <2>3, <2>7, <4>1 DEF Placed, GroupsStay
    <3> QED BY <3>1, <3>2
  <2>8. Placed(next)'
    BY <2>6, <2>7 DEF Placed, InGroup, IsBound
  <2>9. RunsKept'
    BY <1>7, <2>3, <2>5, <2>8, RunnersPlaced
  <2>10. ListKept'
    BY <1>5, <2>3, ListStays
  <2> QED BY <2>4, <2>9, <2>10 DEF KeptInv
<1> QED BY <1>1, <1>2, <1>6, <1>7 DEF SaveBinding, Refused

LEMMA RunMovesKept ==
    ASSUME TypeInv, KeptInv, NEW p \in Runners, StartRun(p) \/ ReadReplyMode(p)
    PROVE  KeptInv'
<1>1. UNCHANGED <<bindings, wake>>
  BY DEF StartRun, ReadReplyMode, Clock, dbVars
<1>2. runner[p] \in Run /\ Placed(runner[p])
  BY RunTypes, RunPlaced
<1>3. CASE StartRun(p)
  <2>1. PICK run : run = [runner[p] EXCEPT !.pc = "read"]
    OBVIOUS
  <2>2. run.pc = "read" /\ run.room = runner[p].room /\ run.thread = runner[p].thread
    BY <1>2, <2>1 DEF Run
  <2>3. Becomes(p, run)
    BY <1>3, <2>1 DEF StartRun, Moves, Becomes
  <2>4. Placed(run)
    BY <1>2, <1>3, <2>2 DEF StartRun, Placed, Housed
  <2> QED BY <1>1, <2>3, <2>4, RunKeeps
<1>4. CASE ReadReplyMode(p)
  <2>1. PICK mode : Becomes(p, [runner[p] EXCEPT !.pc = "rounds", !.mode = mode])
    BY <1>4 DEF ReadReplyMode
  <2>2. PICK run : run = [runner[p] EXCEPT !.pc = "rounds", !.mode = mode]
    OBVIOUS
  <2>3. run.pc = "rounds" /\ run.room = runner[p].room /\ run.thread = runner[p].thread
    BY <1>2, <2>2 DEF Run
  <2>4. Placed(run)
    BY <1>2, <1>4, <2>3 DEF ReadReplyMode, Placed, Housed
  <2> QED BY <1>1, <2>1, <2>2, <2>4, RunKeeps
<1> QED BY <1>3, <1>4

\* A run names its own room, or a direct message when it has none.
LEMMA OwnGroup ==
    ASSUME OwnRoomOnly, NEW p \in Runners, NEW r \in MaySendTo(p), r \in Groups
    PROVE  r = runner[p].room
BY DEF MaySendTo, Groups

LEMMA SendKept ==
    ASSUME OwnRoomOnly, TypeInv, KeptInv, NEW p \in Runners, NEW r \in Rooms, Send(p, r)
    PROVE  KeptInv'
<1>1. PICK run : run = [Called(p) EXCEPT !.pc = "mark", !.to = r, !.at = now]
  OBVIOUS
<1>2. runner[p] \in Run /\ runner[p].pc = "rounds" /\ Placed(runner[p])
  BY RunTypes, RunPlaced DEF Send, MayCall
<1>3. /\ run.pc = "mark" /\ run.room = runner[p].room /\ run.thread = runner[p].thread /\ run.to = r
      /\ run.calls = runner[p].calls + 1 /\ runner[p].calls \in 0..MaxCalls
  BY <1>1, <1>2 DEF Called, Run
<1>4. r \in Groups => r = run.room
  BY <1>3, OwnGroup DEF Send
<1>5. Placed(run)
  BY <1>2, <1>3, <1>4, Constants DEF Placed, Housed
<1> QED BY <1>1, <1>5, RunKeeps DEF Send, Clock

LEMMA MarkRoomKept ==
    ASSUME TypeInv, KeptInv, NEW p \in Runners, MarkRoom(p)
    PROVE  KeptInv'
<1>1. PICK run : run = runner[p]
  OBVIOUS
<1>2. run \in Run /\ run.pc = "mark" /\ run.to \in Rooms /\ run.thread \in Threads /\ run.at \in Times
      /\ Placed(run)
  BY <1>1, RunTypes, RunPlaced DEF MarkRoom, Run, Sound
<1>3. PICK row : row = IF IsBound(run.to) THEN rows[run.to] ELSE NewRow(run.thread)
  OBVIOUS
<1>4. row \in Row
  BY <1>2, <1>3, NewRows DEF TypeInv, TypeOK
<1>5. PICK moved : moved = [row EXCEPT !.thread = run.thread]
  OBVIOUS
<1>6. moved \in Row /\ moved.thread = run.thread
  BY <1>2, <1>4, <1>5 DEF Row
<1>7. PICK marked : marked = Engaged(moved, run.at)
  OBVIOUS
<1>8. marked.thread = run.thread
  BY <1>2, <1>6, <1>7, ChangedRows
<1>9. PICK next : next = Saving(run, run.to, marked)
  OBVIOUS
<1>10. /\ next.pc = "save" /\ next.to = run.to /\ next.row = marked /\ next.room = run.room
       /\ next.calls = run.calls /\ next.thread = run.thread
  BY <1>2, <1>8, <1>9 DEF Saving, Run
<1>11. run.calls > 0 /\ (run.to \in Groups => run.to = run.room /\ InGroup(run.room, run.thread))
       /\ (run.room \in Groups => InGroup(run.room, run.thread))
  BY <1>2 DEF Placed, Housed
<1>12. next.calls # 0
  BY <1>2, <1>10, <1>11, Constants DEF Run
<1>13. Placed(next)
  BY <1>8, <1>10, <1>11, <1>12 DEF Placed
<1>14. Becomes(p, next) /\ UNCHANGED <<bindings, wake>>
  BY <1>1, <1>3, <1>5, <1>7, <1>9 DEF MarkRoom, Clock, dbVars
<1> QED BY <1>13, <1>14, RunKeeps

LEMMA EndEngagementKept ==
    ASSUME OwnRoomOnly, TypeInv, KeptInv, NEW p \in Runners, NEW r \in Rooms, EndEngagement(p, r)
    PROVE  KeptInv'
<1>1. PICK row : row = Passive(rows[r])
  OBVIOUS
<1>2. PICK run : run = [Called(p) EXCEPT !.pc = "save", !.to = r, !.row = row]
  OBVIOUS
<1>3. runner[p] \in Run /\ runner[p].pc = "rounds" /\ Placed(runner[p]) /\ rows[r] \in Row /\ IsBound(r)
  BY RunTypes, RunPlaced DEF EndEngagement, MayCall, TypeInv, TypeOK
<1>4. /\ run.pc = "save" /\ run.room = runner[p].room /\ run.thread = runner[p].thread /\ run.to = r
      /\ run.row = row /\ run.calls = runner[p].calls + 1 /\ runner[p].calls \in 0..MaxCalls
  BY <1>2, <1>3 DEF Called, Run
<1>5. r \in Groups => r = run.room
  BY <1>4, OwnGroup DEF EndEngagement
<1>6. row.thread = rows[r].thread
  BY <1>1, <1>3 DEF Passive, Row
<1>7. InGroup(r, run.row.thread)
  BY <1>3, <1>4, <1>6 DEF InGroup
<1>8. run.calls # 0
  BY <1>4, Constants
<1>9. Placed(run)
  BY <1>3, <1>4, <1>5, <1>7, <1>8 DEF Placed, Housed
<1> QED BY <1>1, <1>2, <1>9, RunKeeps DEF EndEngagement, Clock

LEMMA RunOverKept ==
    ASSUME TypeInv, KeptInv, NEW p \in Runners, RunEnds(p) \/ RunFails(p)
    PROVE  KeptInv'
BY IdlePlaced, RunKeeps DEF RunEnds, RunFails, Ends, Clock, dbVars

\* A wake reads the bindings at once, and works through them while others save
\* theirs.
LEMMA WakeKept ==
    ASSUME TypeInv, KeptInv, WakeStarts \/ WakeEnds \/ \E b \in wake.left : WakeRoom(b)
    PROVE  KeptInv'
<1>1. UNCHANGED <<rows, homes>>
  BY DEF WakeStarts, WakeEnds, WakeRoom, dbVars, bindings
<1>2. wake \in [last : Times \cup {None}, going : BOOLEAN, left : SUBSET Listed]
  BY DEF TypeInv, TypeOK
<1>3. CASE WakeStarts
  <2>1. CASE wake' = [last |-> now, going |-> TRUE, left |-> Bound]
    <3>1. ListKept'
      BY <1>1, <2>1 DEF Bound, ListKept, InGroup, IsBound
    <3> QED BY <1>1, <1>3, <3>1 DEF WakeStarts, KeptInv, RunsKept, HomesKept, Placed, InGroup, IsBound, Housed
  <2>2. CASE wake' = [wake EXCEPT !.last = now]
    BY <1>1, <1>2, <1>3, <2>2, QuietKept DEF WakeStarts
  <2> QED BY <1>3, <2>1, <2>2 DEF WakeStarts
<1>4. CASE WakeEnds
  BY <1>1, <1>2, <1>4, QuietKept DEF WakeEnds
<1>5. ASSUME NEW b \in wake.left, WakeRoom(b) PROVE KeptInv'
  <2>1. wake'.left = wake.left \ {b} /\ b \in Listed
    BY <1>2, <1>5 DEF WakeRoom
  <2>2. CASE UNCHANGED runner
    BY <1>1, <2>1, <2>2, QuietKept
  <2>3. CASE Becomes(Waker, [Idle EXCEPT !.pc = "start", !.room = b.room, !.thread = b.thread])
    <3>1. PICK run : run = [Idle EXCEPT !.pc = "start", !.room = b.room, !.thread = b.thread]
      OBVIOUS
    <3>2. run.pc = "start" /\ run.room = b.room /\ run.thread = b.thread
      BY <3>1 DEF Idle
    <3>3. Placed(run)
      BY <3>2 DEF Placed, KeptInv, ListKept
    <3>4. Waker \in Runners
      BY DEF Runners
    <3> QED BY <1>1, <2>1, <2>3, <3>1, <3>3, <3>4, RunKeeps DEF bindings
  <2> QED BY <1>5, <2>2, <2>3 DEF WakeRoom
<1> QED BY <1>3, <1>4, <1>5

LEMMA KeptStep ==
    ASSUME OwnRoomOnly, TypeInv, KeptInv, [Next]_vars
    PROVE  KeptInv'
<1>1. CASE UNCHANGED vars \/ Tick
  BY <1>1, QuietKept DEF vars, dbVars, bindings, Tick
<1>2. ASSUME NEW p \in Runners, RunnerStep(p) PROVE KeptInv'
  BY <1>2, FindBindingKept, SaveBindingKept, RunMovesKept, MarkRoomKept, RunOverKept, SendKept,
     EndEngagementKept DEF RunnerStep
<1>3. ASSUME NEW p \in Handlers, NEW r \in Rooms, NEW mention \in BOOLEAN, BatchArrives(p, r, mention)
      PROVE  KeptInv'
  BY <1>3, BatchArrivesKept
<1> QED
  BY <1>1, <1>2, <1>3, TriggerKept, WakeKept DEF Next

-----------------------------------------------------------------------------
LEMMA RoomsStep == RoomsInv /\ [Next]_vars => RoomsInv'
<1> SUFFICES ASSUME RoomsInv, [Next]_vars PROVE RoomsInv'
  OBVIOUS
<1>1. TypeInv /\ HandlersInv /\ CausesInv /\ (OwnRoomOnly => KeptInv)
  BY DEF RoomsInv, HandlersInv, CausesInv
<1>2. TypeInv' /\ HandlersInv' /\ CausesInv' /\ (OwnRoomOnly => KeptInv')
  BY <1>1, TypeStep, HandlersStep, CausesStep, KeptStep
<1> QED
  BY <1>2 DEF RoomsInv, HandlersInv, CausesInv

\* Whatever wakes, sends, stale saves and failures do, bindings, runs, wakes and
\* conversations keep their types.
THEOREM RoomsTypeOK == Spec => []TypeOK
<1>1. RoomsInv => TypeOK
  BY DEF RoomsInv, TypeInv
<1> QED
  BY <1>1, RoomsInit, RoomsStep, PTL DEF Spec

\* With one batch of a room at a time, for any rooms, goroutines and wakes: an
\* answer to a batch that mentions the agent is not suppressed, as long as the
\* room's conversation has had no other room.
THEOREM SpecMentionHeard == OneAtATime => (Spec => []MentionHeard)
<1> SUFFICES ASSUME OneAtATime PROVE Spec => []MentionHeard
  OBVIOUS
<1>1. RoomsInv => MentionHeard
  <2> SUFFICES ASSUME RoomsInv, NEW p \in Handlers, runner[p].pc = "rounds",
                      runner[p].mention, homes[runner[p].thread] = {runner[p].room}
               PROVE  runner[p].mode # "suppress"
    BY DEF MentionHeard
  <2>1. MentionKept(runner[p])
    BY DEF RoomsInv
  <2> QED
    BY <2>1 DEF MentionKept, Housed, Answering, OnlyHome
<1> QED
  BY <1>1, RoomsInit, RoomsStep, PTL DEF Spec

\* However many batches, wakes and operators: a group's follow-up window goes
\* back to a mention in the group or a message of the agent to it, and ends no
\* later than Window after that.
THEOREM SpecWindowHasCause == Spec => []WindowHasCause
<1>1. RoomsInv => WindowHasCause
  BY DEF RoomsInv, Caused, WindowHasCause
<1> QED
  BY <1>1, RoomsInit, RoomsStep, PTL DEF Spec

\* As long as a run sends into its own room, and however batches, wakes and
\* operators find and open bindings at once: a group that was ever bound to a
\* conversation is never bound to another.
THEOREM SpecGroupKeepsConversation == Spec => []GroupKeepsConversation
<1>1. RoomsInv => GroupKeepsConversation
  <2> SUFFICES ASSUME RoomsInv, OwnRoomOnly, NEW g \in Groups, NEW s \in Threads, NEW t \in Threads,
                      g \in homes[s], g \in homes[t]
               PROVE  s = t
    BY DEF GroupKeepsConversation
  <2>1. HomesKept
    BY DEF RoomsInv, KeptInv
  <2> QED BY <2>1 DEF HomesKept, InGroup
<1> QED
  BY <1>1, RoomsInit, RoomsStep, PTL DEF Spec

-----------------------------------------------------------------------------
(* Client-side tool calls.  Calls are settled by their own results only,   *)
(* and leave no waiter, for any number of runs, rounds and posts.          *)
(* CallsSettled alone is not inductive: a run stores what it received      *)
(* earlier, and a channel was filled earlier still.  The invariant follows *)
(* a result back to its post.                                              *)

Tools == INSTANCE ClientTools

\* A run that is not with the model is at a call.
AtACall == \A r \in Runs : pc[r] \notin {"model", "completed", "failed"} => round[r] > 0

\* A channel holds a post for the call whose waiter it is.
ChannelOwn == \A c \in Tools!Calls : channel[c] # NoResult => channel[c][1] = c

\* What a run has received is for the call it is at, and it has something in
\* hand only between the wait and the row it stores.
GotOwn ==
    \A r \in Runs :
        /\ got[r] # NoResult => pc[r] \in {"leaving", "store"}
        /\ got[r] \in Tools!Posts => got[r][1] = Tools!Current(r)

SettledInv == Tools!TypeOK /\ AtACall /\ ChannelOwn /\ GotOwn /\ Tools!CallsSettled

-----------------------------------------------------------------------------
LEMMA RoundsNat == Rounds \in Nat /\ Rounds > 0
BY ClientToolsAssumption

LEMMA PostsAreResults ==
    /\ TimedOut \in Tools!Results /\ TimedOut \notin Tools!Posts
    /\ NoResult \notin Tools!Results
    /\ TimedOut # NoResult /\ NoResult \notin Tools!Posts
BY ResultsDiffer DEF Posts, Calls, Tools!Results, Tools!Posts, Tools!Calls

LEMMA CurrentIsCall ==
    ASSUME SettledInv, NEW r \in Runs, pc[r] \notin {"model", "completed", "failed"}
    PROVE  Tools!Current(r) \in Tools!Calls /\ Tools!Current(r)[1] = r
<1>1. round[r] \in 0..Rounds /\ round[r] > 0
  BY DEF SettledInv, Tools!TypeOK, AtACall
<1>2. round[r] \in 1..Rounds
  BY <1>1
<1> QED
  BY <1>2 DEF Tools!Current, Tools!Calls

LEMMA PostIsForACall ==
    ASSUME NEW p \in Tools!Posts
    PROVE  p[1] \in Tools!Calls
BY DEF Tools!Posts

LEMMA InitSettled == Tools!Init => SettledInv
<1> SUFFICES ASSUME Tools!Init PROVE SettledInv
  OBVIOUS
<1>1. Tools!TypeOK
  <2>1. /\ pc \in [Runs -> {"model", "handoff", "register", "waiting", "leaving",
                            "store", "completed", "failed"}]
        /\ got \in [Runs -> Tools!Results \cup {NoResult}]
        /\ channel \in [Tools!Calls -> Tools!Posts \cup {NoResult}]
        /\ stored \in [Tools!Calls -> Tools!Results \cup {NoResult}]
    BY DEF Tools!Init
  <2>2. round \in [Runs -> 0..Rounds]
    <3>1. 0 \in 0..Rounds
      BY RoundsNat
    <3> QED BY <3>1 DEF Tools!Init
  <2>3. waiters \subseteq Tools!Calls /\ seen \subseteq Tools!Calls /\ inFlight \subseteq Tools!Posts
    BY DEF Tools!Init
  <2>4. replies \in [{"ok", "not found"} -> SUBSET Tools!Posts]
    BY DEF Tools!Init
  <2> QED
    BY <2>1, <2>2, <2>3, <2>4 DEF Tools!TypeOK
<1>2. AtACall /\ ChannelOwn
  BY DEF Tools!Init, AtACall, ChannelOwn
<1>3. GotOwn /\ Tools!CallsSettled
  BY PostsAreResults DEF Tools!Init, GotOwn, Tools!CallsSettled, Tools!ResultAnswersItsCall,
     Tools!NoWaiterLeft
<1> QED
  BY <1>1, <1>2, <1>3 DEF SettledInv

-----------------------------------------------------------------------------
(* The run's own steps.  Each leaves the other runs where they are.        *)

LEMMA ModelKeeps ==
    ASSUME SettledInv, NEW r \in Runs, Tools!ModelCallsClientTool(r) \/ Tools!ModelAnswers(r)
    PROVE  SettledInv'
<1>1. Tools!TypeOK' /\ AtACall'
  <2>1. CASE Tools!ModelCallsClientTool(r)
    <3>1. round[r] + 1 \in 0..Rounds /\ round[r] + 1 > 0
      <4>1. round[r] \in 0..Rounds /\ round[r] < Rounds
        BY <2>1 DEF SettledInv, Tools!TypeOK, Tools!ModelCallsClientTool
      <4> QED BY <4>1, RoundsNat
    <3>2. round' \in [Runs -> 0..Rounds]
      BY <2>1, <3>1 DEF SettledInv, Tools!TypeOK, Tools!ModelCallsClientTool
    <3>3. Tools!TypeOK'
      BY <2>1, <3>2 DEF SettledInv, Tools!TypeOK, Tools!ModelCallsClientTool, Tools!Goto,
         Tools!client
    <3>4. AtACall'
      BY <2>1, <3>1 DEF SettledInv, Tools!TypeOK, AtACall, Tools!ModelCallsClientTool, Tools!Goto
    <3> QED BY <3>3, <3>4
  <2>2. CASE Tools!ModelAnswers(r)
    BY <2>2 DEF SettledInv, Tools!TypeOK, AtACall, Tools!ModelAnswers, Tools!Goto, Tools!client
  <2> QED BY <2>1, <2>2
<1>3. ChannelOwn'
  BY DEF SettledInv, ChannelOwn, Tools!ModelCallsClientTool, Tools!ModelAnswers
<1>4. GotOwn'
  <2>1. got[r] = NoResult
    BY DEF SettledInv, GotOwn, Tools!ModelCallsClientTool, Tools!ModelAnswers
  <2> QED
    BY <2>1, PostsAreResults DEF SettledInv, Tools!TypeOK, GotOwn, Tools!Current,
       Tools!ModelCallsClientTool, Tools!ModelAnswers, Tools!Goto
<1>5. Tools!CallsSettled'
  <2>1. \A c \in waiters : c[1] # r
    BY DEF SettledInv, Tools!CallsSettled, Tools!NoWaiterLeft, Tools!ModelCallsClientTool,
       Tools!ModelAnswers
  <2>2. waiters' = waiters /\ stored' = stored
    BY DEF Tools!ModelCallsClientTool, Tools!ModelAnswers
  <2>3. \A q \in Runs : q # r => pc'[q] = pc[q] /\ round'[q] = round[q]
    BY DEF SettledInv, Tools!TypeOK, Tools!ModelCallsClientTool, Tools!ModelAnswers, Tools!Goto
  <2>4. \A c \in waiters : c[1] \in Runs
    BY DEF SettledInv, Tools!TypeOK, Tools!Calls
  <2> QED
    BY <2>1, <2>2, <2>3, <2>4 DEF SettledInv, Tools!CallsSettled, Tools!ResultAnswersItsCall,
       Tools!NoWaiterLeft, Tools!Current
<1> QED
  BY <1>1, <1>3, <1>4, <1>5 DEF SettledInv

LEMMA EmitKeeps ==
    ASSUME SettledInv, NEW r \in Runs, Tools!EmitCall(r)
    PROVE  SettledInv'
<1>1. Tools!Current(r) \in Tools!Calls
  BY CurrentIsCall DEF Tools!EmitCall
<1>2. Tools!TypeOK'
  BY <1>1 DEF SettledInv, Tools!TypeOK, Tools!EmitCall, Tools!Goto
<1>3. AtACall' /\ ChannelOwn'
  BY DEF SettledInv, Tools!TypeOK, AtACall, ChannelOwn, Tools!EmitCall, Tools!Goto
<1>4. GotOwn'
  BY DEF SettledInv, Tools!TypeOK, GotOwn, Tools!Current, Tools!EmitCall, Tools!Goto
<1>5. Tools!CallsSettled'
  <2>1. \A c \in waiters : c[1] \in Runs /\ c[1] # r
    BY DEF SettledInv, Tools!TypeOK, Tools!CallsSettled, Tools!NoWaiterLeft, Tools!EmitCall,
       Tools!Calls
  <2> QED
    BY <2>1 DEF SettledInv, Tools!TypeOK, Tools!CallsSettled, Tools!ResultAnswersItsCall,
       Tools!NoWaiterLeft, Tools!Current, Tools!EmitCall, Tools!Goto
<1> QED
  BY <1>2, <1>3, <1>4, <1>5 DEF SettledInv

LEMMA RegisterKeeps ==
    ASSUME SettledInv, NEW r \in Runs, Tools!Register(r)
    PROVE  SettledInv'
<1>1. Tools!Current(r) \in Tools!Calls /\ Tools!Current(r)[1] = r
  BY CurrentIsCall DEF Tools!Register
<1>2. Tools!TypeOK'
  BY <1>1 DEF SettledInv, Tools!TypeOK, Tools!Register, Tools!Goto, Tools!Key, Tools!client
<1>3. AtACall' /\ ChannelOwn'
  BY <1>1 DEF SettledInv, Tools!TypeOK, AtACall, ChannelOwn, Tools!Register, Tools!Goto, Tools!Key
<1>4. GotOwn'
  BY DEF SettledInv, Tools!TypeOK, GotOwn, Tools!Current, Tools!Register, Tools!Goto
<1>5. Tools!CallsSettled'
  <2>1. \A c \in waiters : c[1] # r /\ c[1] \in Runs
    BY DEF SettledInv, Tools!TypeOK, Tools!CallsSettled, Tools!NoWaiterLeft, Tools!Register,
       Tools!Calls
  <2>2. Tools!ResultAnswersItsCall'
    BY DEF SettledInv, Tools!CallsSettled, Tools!ResultAnswersItsCall, Tools!Register
  <2>3. \A c \in waiters : pc'[c[1]] = pc[c[1]] /\ Tools!Current(c[1])' = Tools!Current(c[1])
    BY <2>1 DEF SettledInv, Tools!TypeOK, Tools!Current, Tools!Register, Tools!Goto
  <2>4. pc'[r] = "waiting" /\ Tools!Current(r)' = Tools!Current(r)
    BY DEF SettledInv, Tools!TypeOK, Tools!Current, Tools!Register, Tools!Goto
  <2>5. waiters' = waiters \cup {Tools!Current(r)}
    BY DEF Tools!Register, Tools!Key
  <2>6. Tools!NoWaiterLeft'
    BY <1>1, <2>3, <2>4, <2>5 DEF SettledInv, Tools!CallsSettled, Tools!NoWaiterLeft
  <2> QED
    BY <2>2, <2>6 DEF Tools!CallsSettled
<1> QED
  BY <1>2, <1>3, <1>4, <1>5 DEF SettledInv

LEMMA WaitEndsKeeps ==
    ASSUME SettledInv, NEW r \in Runs, Tools!Receive(r) \/ Tools!Timeout(r) \/ Tools!Cancel(r)
    PROVE  SettledInv'
<1>1. Tools!Current(r) \in Tools!Calls /\ Tools!Current(r)[1] = r
  BY CurrentIsCall DEF Tools!Receive, Tools!Timeout, Tools!Cancel
<1>2. pc[r] = "waiting" /\ pc' = [pc EXCEPT ![r] = "leaving"]
      /\ UNCHANGED <<round, waiters, stored, seen, inFlight, replies>>
  BY DEF Tools!Receive, Tools!Timeout, Tools!Cancel, Tools!Goto, Tools!client
<1>3. /\ channel' = channel \/ channel' = [channel EXCEPT ![Tools!Current(r)] = NoResult]
      /\ \E x \in Tools!Results \cup {NoResult} :
            /\ got' = [got EXCEPT ![r] = x]
            /\ x \in Tools!Posts => x[1] = Tools!Current(r)
  <2>1. CASE Tools!Receive(r)
    BY <1>1, <2>1 DEF SettledInv, Tools!TypeOK, ChannelOwn, Tools!Receive, Tools!Key,
       Tools!Results
  <2>2. CASE Tools!Timeout(r)
    BY <2>2, PostsAreResults DEF Tools!Timeout
  <2>3. CASE Tools!Cancel(r)
    BY <2>3, PostsAreResults DEF Tools!Cancel
  <2> QED BY <2>1, <2>2, <2>3
<1>4. Tools!TypeOK'
  <2>1. pc' \in [Runs -> {"model", "handoff", "register", "waiting", "leaving",
                          "store", "completed", "failed"}]
    BY <1>2 DEF SettledInv, Tools!TypeOK
  <2>2. got' \in [Runs -> Tools!Results \cup {NoResult}]
    BY <1>3 DEF SettledInv, Tools!TypeOK
  <2>3. channel' \in [Tools!Calls -> Tools!Posts \cup {NoResult}]
    BY <1>1, <1>3 DEF SettledInv, Tools!TypeOK
  <2>4. stored' = stored
    BY DEF Tools!Receive, Tools!Timeout, Tools!Cancel
  <2> QED
    BY <1>2, <2>1, <2>2, <2>3, <2>4 DEF SettledInv, Tools!TypeOK
<1>5. AtACall' /\ ChannelOwn'
  BY <1>1, <1>2, <1>3 DEF SettledInv, Tools!TypeOK, AtACall, ChannelOwn
<1>6. GotOwn'
  BY <1>2, <1>3 DEF SettledInv, Tools!TypeOK, GotOwn, Tools!Current
<1>7. Tools!CallsSettled'
  BY <1>2 DEF SettledInv, Tools!TypeOK, Tools!CallsSettled, Tools!ResultAnswersItsCall,
     Tools!NoWaiterLeft, Tools!Current, Tools!Calls
<1> QED
  BY <1>4, <1>5, <1>6, <1>7 DEF SettledInv

LEMMA LeaveKeeps ==
    ASSUME SettledInv, NEW r \in Runs, Tools!Leave(r)
    PROVE  SettledInv'
<1>1. Tools!Current(r) \in Tools!Calls /\ Tools!Current(r)[1] = r
  BY CurrentIsCall DEF Tools!Leave
<1>2. Tools!TypeOK'
  BY <1>1 DEF SettledInv, Tools!TypeOK, Tools!Leave, Tools!Goto, Tools!Key, Tools!client
<1>3. AtACall' /\ ChannelOwn'
  BY <1>1 DEF SettledInv, Tools!TypeOK, AtACall, ChannelOwn, Tools!Leave, Tools!Goto, Tools!Key
<1>4. GotOwn'
  BY DEF SettledInv, Tools!TypeOK, GotOwn, Tools!Current, Tools!Leave, Tools!Goto
<1>5. Tools!CallsSettled'
  <2>1. \A c \in waiters : c[1] \in Runs /\ (c[1] = r => c = Tools!Current(r))
    BY DEF SettledInv, Tools!TypeOK, Tools!CallsSettled, Tools!NoWaiterLeft, Tools!Calls
  <2>2. \A c \in waiters' : c \in waiters /\ c[1] \in Runs /\ c[1] # r
    BY <2>1 DEF Tools!Leave, Tools!Key
  <2> QED
    BY <2>2 DEF SettledInv, Tools!TypeOK, Tools!CallsSettled, Tools!ResultAnswersItsCall,
       Tools!NoWaiterLeft, Tools!Current, Tools!Leave, Tools!Goto
<1> QED
  BY <1>2, <1>3, <1>4, <1>5 DEF SettledInv

LEMMA StoreKeeps ==
    ASSUME SettledInv, NEW r \in Runs, Tools!StoreResult(r)
    PROVE  SettledInv'
<1>1. Tools!Current(r) \in Tools!Calls
  BY CurrentIsCall DEF Tools!StoreResult
<1>2. Tools!TypeOK'
  BY <1>1 DEF SettledInv, Tools!TypeOK, Tools!StoreResult, Tools!Goto, Tools!client
<1>3. AtACall' /\ ChannelOwn'
  BY DEF SettledInv, Tools!TypeOK, AtACall, ChannelOwn, Tools!StoreResult, Tools!Goto
<1>4. GotOwn'
  BY PostsAreResults DEF SettledInv, Tools!TypeOK, GotOwn, Tools!Current, Tools!StoreResult,
     Tools!Goto
<1>5. Tools!ResultAnswersItsCall'
  BY <1>1 DEF SettledInv, Tools!TypeOK, GotOwn, Tools!CallsSettled, Tools!ResultAnswersItsCall,
     Tools!StoreResult
<1>6. Tools!NoWaiterLeft'
  BY DEF SettledInv, Tools!TypeOK, Tools!CallsSettled, Tools!NoWaiterLeft, Tools!Current,
     Tools!StoreResult, Tools!Goto, Tools!Calls
<1> QED
  BY <1>2, <1>3, <1>4, <1>5, <1>6 DEF SettledInv, Tools!CallsSettled

LEMMA FailKeeps ==
    ASSUME SettledInv, NEW r \in Runs, Tools!Fail(r)
    PROVE  SettledInv'
<1>1. Tools!TypeOK'
  BY DEF SettledInv, Tools!TypeOK, Tools!Fail, Tools!Goto, Tools!client
<1>2. AtACall' /\ ChannelOwn'
  BY DEF SettledInv, Tools!TypeOK, AtACall, ChannelOwn, Tools!Fail, Tools!Goto
<1>3. GotOwn'
  BY PostsAreResults DEF SettledInv, Tools!TypeOK, GotOwn, Tools!Current, Tools!Fail, Tools!Goto
<1>4. Tools!CallsSettled'
  BY DEF SettledInv, Tools!TypeOK, Tools!CallsSettled, Tools!ResultAnswersItsCall,
     Tools!NoWaiterLeft, Tools!Current, Tools!Fail, Tools!Goto, Tools!Calls
<1> QED
  BY <1>1, <1>2, <1>3, <1>4 DEF SettledInv

-----------------------------------------------------------------------------
(* The client's posts.                                                     *)

LEMMA PostKeeps ==
    ASSUME SettledInv, NEW p \in Tools!Posts, Tools!Post(p) \/ Tools!Submit(p)
    PROVE  SettledInv'
<1>1. UNCHANGED <<pc, round, got, waiters, stored, seen>>
  BY DEF Tools!Post, Tools!Submit, Tools!service
<1>2. channel' = channel \/ channel' = [channel EXCEPT ![p[1]] = p]
  BY DEF Tools!Post, Tools!Submit, Tools!service, Tools!Key
<1>3. p[1] \in Tools!Calls
  BY PostIsForACall
<1>4. inFlight' \subseteq Tools!Posts /\ replies' \in [{"ok", "not found"} -> SUBSET Tools!Posts]
  <2>1. CASE Tools!Post(p)
    BY <2>1 DEF SettledInv, Tools!TypeOK, Tools!Post
  <2>2. CASE Tools!Submit(p)
    <3>1. Tools!Reply(p, "ok") \/ Tools!Reply(p, "not found")
      BY <2>2 DEF Tools!Submit
    <3>2. inFlight \subseteq Tools!Posts /\ replies \in [{"ok",
       "not found"} -> SUBSET Tools!Posts]
      BY DEF SettledInv, Tools!TypeOK
    <3> QED
      BY <3>1, <3>2 DEF Tools!Reply
  <2> QED BY <2>1, <2>2
<1>5. Tools!TypeOK'
  BY <1>1, <1>2, <1>3, <1>4 DEF SettledInv, Tools!TypeOK
<1>6. ChannelOwn'
  BY <1>2, <1>3 DEF SettledInv, Tools!TypeOK, ChannelOwn
<1>7. AtACall' /\ GotOwn' /\ Tools!CallsSettled'
  BY <1>1 DEF SettledInv, AtACall, GotOwn, Tools!CallsSettled, Tools!ResultAnswersItsCall,
     Tools!NoWaiterLeft, Tools!Current
<1> QED
  BY <1>5, <1>6, <1>7 DEF SettledInv

LEMMA StepSettled == SettledInv /\ [Tools!Next]_(Tools!vars) => SettledInv'
<1> SUFFICES ASSUME SettledInv, [Tools!Next]_(Tools!vars) PROVE SettledInv'
  OBVIOUS
<1>1. CASE UNCHANGED Tools!vars
  BY <1>1 DEF Tools!vars, Tools!service, Tools!client, SettledInv, Tools!TypeOK, AtACall,
     ChannelOwn, GotOwn, Tools!CallsSettled,
              Tools!ResultAnswersItsCall, Tools!NoWaiterLeft, Tools!Current
<1>2. ASSUME NEW r \in Runs,
   Tools!ServiceStep(r) \/ Tools!ModelStep(r) \/ Tools!Cancel(r) \/ Tools!Fail(r)
      PROVE  SettledInv'
  BY <1>2, ModelKeeps, EmitKeeps, RegisterKeeps, WaitEndsKeeps, LeaveKeeps, StoreKeeps, FailKeeps
     DEF Tools!ServiceStep, Tools!ModelStep
<1>3. ASSUME NEW p \in Tools!Posts, Tools!Post(p) \/ Tools!Submit(p)
      PROVE  SettledInv'
  BY <1>3, PostKeeps
<1> QED
  BY <1>1, <1>2, <1>3 DEF Tools!Next

-----------------------------------------------------------------------------
\* Whatever is delayed, repeated, reordered, timed out or cancelled, the state
\* of calls, waiters and posts keeps its types.
THEOREM ToolsTypeOK == Tools!Spec => []Tools!TypeOK
<1>1. SettledInv => Tools!TypeOK
  BY DEF SettledInv
<1> QED
  BY <1>1, InitSettled, StepSettled, PTL DEF Tools!Spec

\* For any number of runs, rounds and posts: a call is stored with a result
\* posted for that very call or with the timeout, and no waiter stays in the
\* process-wide map when its wait is over.
THEOREM ToolsCallsSettled == Tools!Spec => []CallsSettled
<1>1. SettledInv => CallsSettled
  <2>1. Tools!CallsSettled => CallsSettled
    BY DEF CallsSettled, ResultAnswersItsCall, NoWaiterLeft, Calls, Posts, Current,
           Tools!CallsSettled, Tools!ResultAnswersItsCall, Tools!NoWaiterLeft, Tools!Calls,
           Tools!Posts, Tools!Current
  <2> QED BY <2>1 DEF SettledInv
<1> QED
  BY <1>1, InitSettled, StepSettled, PTL DEF Tools!Spec

=============================================================================
