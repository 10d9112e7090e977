----------------------------- MODULE SolarRooms -----------------------------
(***************************************************************************)
(* The rooms of one agent in Solar: which conversation a room is bound to, *)
(* when the agent is engaged in a group, and the runs that may send into   *)
(* them: answers to a batch of messages, periodic wakes, and wakes asked   *)
(* for by an operator or by the surf scheduler.                            *)
(*                                                                         *)
(* A binding is read, changed and saved as a whole row, in statements of   *)
(* their own.  Left out: what is said, who is in a room, and tools that    *)
(* neither send nor touch a binding.                                       *)
(***************************************************************************)
EXTENDS Naturals, FiniteSets, Sequences, Functions

CONSTANTS
    Rooms,
    Directs,      \* rooms that are direct messages; the others are groups
    Known,        \* rooms that may be bound at first
    Users,        \* accounts an operator may name as a target
    Handlers,     \* goroutines that handle a batch
    Waker,        \* the goroutine of the periodic wakes
    Operators,    \* callers of the endpoints, and the surf scheduler
    Window,       \* snRoomActiveWindow
    Interval,     \* wake_interval
    OneAtATime,   \* TRUE: a room's batch waits for the one before it
    OwnRoomOnly,  \* TRUE: a run sends into the room it was started for
    MaxTime,      \* bound on the clock
    MaxBatches,   \* bound on the batches
    MaxThreads,   \* bound on the conversations
    MaxTriggers,  \* bound on wakes asked for
    MaxCalls,     \* bound on the calls of a run that send or end engagement
    None

ASSUME SolarRoomsAssumption ==
    /\ IsFiniteSet(Rooms) /\ Directs \subseteq Rooms /\ Known \subseteq Rooms
    /\ {OneAtATime, OwnRoomOnly} \subseteq BOOLEAN
    /\ {Window, Interval, MaxTime, MaxBatches, MaxThreads, MaxTriggers, MaxCalls} \subseteq Nat
    /\ Waker \notin Handlers \cup Operators
    /\ Handlers \cap Operators = {}
    /\ Cardinality(Known) <= MaxThreads
    /\ None \notin Rooms \cup Nat

Groups  == Rooms \ Directs
Runners == Handlers \cup Operators \cup {Waker}
Threads == 1..MaxThreads
Times   == 0..MaxTime

VARIABLES
    now,
    rows,       \* the binding of each room
    accounts,   \* the account of each conversation, in order of creation
    heard,      \* the newest message from Solar in each conversation
    runner,     \* what each goroutine is at
    wake,       \* the periodic wake: its noted time and what is left to do
    asked,      \* batches and wakes so far
    involved,   \* an observer: when the agent was last mentioned in a group or wrote to it
    homes       \* an observer: the rooms that were ever bound to each conversation

bindings == <<rows, homes>>
dbVars   == <<bindings, accounts, heard>>
vars     == <<now, dbVars, runner, wake, asked, involved>>

NoRow == [id |-> 0, type |-> "unknown", active |-> FALSE, until |-> None, thread |-> None]

Row == [id : 0..Cardinality(Rooms), type : {"unknown", "group", "direct"},
        active : BOOLEAN, until : 0..(MaxTime + Window) \cup {None},
        thread : Threads \cup {None}]

Idle == [pc |-> "idle", room |-> None, mention |-> FALSE, at |-> 0, row |-> NoRow,
         to |-> None, thread |-> None, mode |-> "allow", calls |-> 0]

Run == [pc : {"idle", "find", "start", "read", "rounds", "mark", "save"},
        room : Rooms \cup {None}, mention : BOOLEAN, at : Times, row : Row,
        to : Rooms \cup {None}, thread : Threads \cup {None},
        mode : {"force_allow", "allow", "suppress"}, calls : 0..MaxCalls]

Listed == [room : Rooms, thread : Threads, direct : BOOLEAN]

TypeOK ==
    /\ now \in Times
    /\ rows \in [Rooms -> Row]
    /\ Len(accounts) <= MaxThreads
    /\ heard \in [Threads -> {"none", "plain", "mention"}]
    /\ runner \in [Runners -> Run]
    /\ wake \in [last : Times \cup {None}, going : BOOLEAN, left : SUBSET Listed]
    /\ asked \in [batches : 0..MaxBatches, triggers : 0..MaxTriggers]
    /\ involved \in [Groups -> Times \cup {None}]
    /\ homes \in [Threads -> SUBSET Rooms]

RoomType(r) == IF r \in Directs THEN "direct" ELSE "group"

\* Some of the known rooms were bound, one after the other, each to a conversation that
\* was opened for it; some groups were mentioned in a moment ago.
KnownRow(r, place, mentioned) ==
    [id |-> place, type |-> RoomType(r), active |-> r \in Directs \cup mentioned,
     until |-> IF r \in mentioned THEN Window ELSE None, thread |-> place]

Init ==
    \E bound \in SUBSET Known :
    \E order \in Bijection(1..Cardinality(bound), bound), mentioned \in SUBSET (bound \ Directs) :
        LET place == AntiFunction(order)
            n     == Cardinality(bound)
        IN  /\ now = 0
            /\ rows = [r \in Rooms |->
                         IF r \in bound THEN KnownRow(r, place[r], mentioned) ELSE NoRow]
            /\ accounts = [i \in 1..n |-> <<order[i]>>]
            /\ heard = [t \in Threads |-> IF t > n THEN "none"
                                         ELSE IF order[t] \in mentioned THEN "mention" ELSE "plain"]
            /\ runner = [p \in Runners |-> Idle]
            /\ wake = [last |-> None, going |-> FALSE, left |-> {}]
            /\ asked = [batches |-> 0, triggers |-> 0]
            /\ involved = [r \in Groups |-> IF r \in mentioned THEN 0 ELSE None]
            /\ homes = [t \in Threads |-> IF t > n THEN {} ELSE {order[t]}]

-----------------------------------------------------------------------------
(* Engagement.                                                             *)

IsBound(r) == rows[r].id # 0

IsDirect(row) == row.type = "direct"

IsActive(row, t) ==
    \/ IsDirect(row)
    \/ row.active /\ row.until # None /\ row.until > t

Passive(row) == [row EXCEPT !.active = FALSE, !.until = None]

Engaged(row, t) ==
    [row EXCEPT !.active = TRUE, !.until = IF IsDirect(row) THEN None ELSE t + Window]

\* Mutant: whatever is said in an engaged room extends the window.
Extended(row, mention, t) ==
    IF mention \/ IsActive(row, t) THEN Engaged(row, t) ELSE Passive(row)

\* What a message does to the binding of its room.
Heard(row, mention, t) ==
    CASE mention \/ IsDirect(row) -> Engaged(row, t)
      [] ~(mention \/ IsDirect(row)) /\ IsActive(row, t) -> row
      [] OTHER -> Passive(row)

\* First takes the lowest id, and ids are in order of creation.
RoomOfThread(t) ==
    LET bound == {r \in Rooms : IsBound(r) /\ rows[r].thread = t}
    IN  IF bound = {} THEN None
        ELSE CHOOSE r \in bound : \A q \in bound : rows[r].id <= rows[q].id

NewRow(t) == [NoRow EXCEPT !.thread = t]

\* The row as the database has it once it is stored.
Stored(row) ==
    IF row.id # 0 THEN row
    ELSE [row EXCEPT !.id = Cardinality({r \in Rooms : IsBound(r)}) + 1]

ReplyMode(t, r) ==
    IF r = None THEN "allow"
    ELSE IF IsDirect(rows[r]) THEN "allow"
    ELSE IF heard[t] = "mention" THEN "force_allow"
    ELSE IF IsActive(rows[r], now) THEN "allow"
    ELSE "suppress"

-----------------------------------------------------------------------------
(* From a batch or a wake to a run in a conversation.                      *)

Moves(p, pc)  == runner' = [runner EXCEPT ![p].pc = pc]
Becomes(p, r) == runner' = [runner EXCEPT ![p] = r]
Ends(p)       == Becomes(p, Idle)

Clock == UNCHANGED <<now, wake, asked>>

\* About to save row as the binding of room r.
Saving(run, r, row) == [run EXCEPT !.pc = "save", !.to = r, !.row = row, !.thread = row.thread]

MayCreate == Len(accounts) < MaxThreads

\* A conversation is a row of its own, and so is the binding that follows.
CreateConversation(account) ==
    /\ MayCreate
    /\ accounts' = Append(accounts, account)

\* For the observer: the agent is mentioned in r, or writes to it.
InvolvedIn(r) == [g \in Groups |-> IF g = r THEN now ELSE involved[g]]

\* A debounced batch reaches its goroutine, some time after its last message.
BatchArrives(p, r, mention) ==
    /\ p \in Handlers /\ runner[p].pc = "idle"
    /\ asked.batches < MaxBatches
    /\ OneAtATime => \A q \in Handlers : runner[q].room # r
    /\ asked' = [asked EXCEPT !.batches = @ + 1]
    /\ involved' = IF mention THEN InvolvedIn(r) ELSE involved
    /\ Becomes(p, [Idle EXCEPT !.pc = "find", !.room = r, !.mention = mention, !.at = now])
    /\ UNCHANGED <<now, dbVars, wake>>

\* The binding a batch finds, or the conversation it opens for its room.
FindBinding(p) ==
    LET run == runner[p]
        r   == run.room
        Taken(row) == Heard([row EXCEPT !.type = RoomType(r)], run.mention, run.at)
    IN  /\ run.pc = "find"
        /\ \/ /\ IsBound(r)
              /\ Becomes(p, Saving(run, r, Taken(rows[r])))
              /\ UNCHANGED dbVars
           \/ /\ ~IsBound(r)
              /\ CreateConversation(<<r>>)
              /\ Becomes(p, Saving(run, r, Taken(NewRow(Len(accounts')))))
              /\ UNCHANGED <<bindings, heard>>
        /\ UNCHANGED involved
        /\ Clock

\* An operator names a conversation, a room, or an account.
TriggerByThread(p, t) ==
    /\ Becomes(p, [Idle EXCEPT !.pc = "start", !.thread = t, !.room = RoomOfThread(t)])
    /\ UNCHANGED accounts

TriggerByRoom(p, r) ==
    \/ /\ IsBound(r)
       /\ Becomes(p, [Idle EXCEPT !.pc = "start", !.thread = rows[r].thread, !.room = r])
       /\ UNCHANGED accounts
    \/ /\ ~IsBound(r)
       /\ CreateConversation(<<r>>)
       /\ Becomes(p, Saving([Idle EXCEPT !.room = r], r, NewRow(Len(accounts'))))

TriggerByAccount(p, account) ==
    LET theirs == {t \in 1..Len(accounts) : accounts[t] = <<"dm">> \o account}
        started(t) == [Idle EXCEPT !.pc = "start", !.thread = t]
    IN  \/ \E t \in theirs : Becomes(p, started(t)) /\ UNCHANGED accounts
        \/ /\ theirs = {}
           /\ CreateConversation(<<"dm">> \o account)
           /\ Becomes(p, started(Len(accounts')))

\* A surf wake is meant for the account of the newest conversation, which may
\* be any here.
Trigger(p) ==
    /\ p \in Operators /\ runner[p].pc = "idle"
    /\ asked.triggers < MaxTriggers
    /\ \/ \E t \in 1..Len(accounts) : TriggerByThread(p, t)
       \/ \E r \in Rooms : TriggerByRoom(p, r)
       \/ \E u \in Users : TriggerByAccount(p, <<u>>)
       \/ \E t \in 1..Len(accounts) : TriggerByAccount(p, accounts[t])
    /\ asked' = [asked EXCEPT !.triggers = @ + 1]
    /\ UNCHANGED <<now, bindings, heard, wake, involved>>

\* Mutant: the agent and the room of a binding are not unique.
NeverRefused(run) == FALSE

\* There is one binding per agent and room: a run that found none is refused
\* when there is one by now.
Refused(run) == IsBound(run.to) /\ run.row.id = 0

\* The row goes in whole.  What a refused run had to say goes with it, and the
\* conversation it opened is left over.
SaveBinding(p) ==
    LET run == runner[p]
        r   == run.to
    IN  /\ run.pc = "save"
        /\ \/ /\ Refused(run)
              /\ Ends(p)
              /\ UNCHANGED bindings
           \/ /\ ~Refused(run)
              /\ rows' = [rows EXCEPT ![r] = Stored(run.row)]
              /\ homes' = [homes EXCEPT ![run.row.thread] = @ \cup {r}]
              /\ Becomes(p, [run EXCEPT !.pc = IF run.calls = 0 THEN "start" ELSE "rounds",
                                        !.row = NoRow, !.to = None, !.at = 0])
        /\ UNCHANGED <<accounts, heard, involved>>
        /\ Clock

\* Mutant: the request of a wake counts as a message from Solar.
FiledAlways(p, t) ==
    [heard EXCEPT ![t] = IF p \in Handlers /\ runner[p].mention THEN "mention" ELSE "plain"]

\* Only a message from Solar is filed under role user.
Filed(p, t) ==
    IF p \in Handlers
    THEN [heard EXCEPT ![t] = IF runner[p].mention THEN "mention" ELSE "plain"]
    ELSE heard

StartRun(p) ==
    LET t == runner[p].thread
    IN  /\ runner[p].pc = "start"
        /\ heard' = Filed(p, t)
        /\ Moves(p, "read")
        /\ UNCHANGED <<bindings, accounts, involved>>
        /\ Clock

\* The mode of the whole run, by the binding of its conversation.
ReadReplyMode(p) ==
    LET run == runner[p]
        r   == RoomOfThread(run.thread)
    IN  /\ run.pc = "read"
        /\ Becomes(p, [run EXCEPT !.pc = "rounds", !.mode = ReplyMode(run.thread, r)])
        /\ UNCHANGED <<dbVars, involved>>
        /\ Clock

-----------------------------------------------------------------------------
(* The rounds of a run.                                                    *)

\* The rooms a model may name; a run that has none names a direct message.
MaySendTo(p) ==
    IF ~OwnRoomOnly THEN Rooms
    ELSE IF runner[p].room = None THEN Directs
    ELSE {runner[p].room}

MayCall(p) == runner[p].pc = "rounds" /\ runner[p].calls < MaxCalls

Called(p) == [runner[p] EXCEPT !.calls = @ + 1]

Suppressed(p) == runner[p].mode = "suppress"

\* A message, or the last of several, is in the room.
Send(p, r) ==
    /\ MayCall(p) /\ ~Suppressed(p)
    /\ r \in MaySendTo(p)
    /\ involved' = InvolvedIn(r)
    /\ Becomes(p, [Called(p) EXCEPT !.pc = "mark", !.to = r, !.at = now])
    /\ UNCHANGED <<bindings, accounts, heard>>
    /\ Clock

\* The room the agent wrote to is bound to the conversation that wrote.
MarkRoom(p) ==
    LET run == runner[p]
        row == IF IsBound(run.to) THEN rows[run.to] ELSE NewRow(run.thread)
    IN  /\ run.pc = "mark"
        /\ Becomes(p, Saving(run, run.to, Engaged([row EXCEPT !.thread = run.thread], run.at)))
        /\ UNCHANGED <<dbVars, involved>>
        /\ Clock

EndEngagement(p, r) ==
    /\ MayCall(p)
    /\ r \in MaySendTo(p) /\ IsBound(r)
    /\ Becomes(p, [Called(p) EXCEPT !.pc = "save", !.to = r, !.row = Passive(rows[r])])
    /\ UNCHANGED <<bindings, accounts, heard, involved>>
    /\ Clock

\* The model calls nothing more; what it says besides is dropped.
RunEnds(p) ==
    /\ runner[p].pc = "rounds"
    /\ Ends(p)
    /\ UNCHANGED <<bindings, accounts, heard, involved>>
    /\ Clock

\* The database, the model, or a send fails, one after others of a batch too.
RunFails(p) ==
    /\ runner[p].pc # "idle"
    /\ Ends(p)
    /\ UNCHANGED <<dbVars, involved>>
    /\ Clock

-----------------------------------------------------------------------------
(* The periodic wake: one conversation after the other.                    *)

Resting == runner[Waker].pc = "idle"

Bound == {[room |-> r, thread |-> rows[r].thread, direct |-> IsDirect(rows[r])] :
              r \in {q \in Rooms : IsBound(q)}}

\* Its time is noted before the bindings are read: when that fails, the wake is
\* over until the next is due.
WakeStarts ==
    /\ ~wake.going
    /\ wake.last # None => now - wake.last >= Interval
    /\ \/ wake' = [last |-> now, going |-> TRUE, left |-> Bound]
       \/ wake' = [wake EXCEPT !.last = now]
    /\ UNCHANGED <<now, dbVars, runner, asked, involved>>

\* Old messages of a group are only picked up when the newest is a mention.
MayPickUp(b) == b.direct \/ heard[b.thread] = "mention"

\* The room is passed over, too, when its conversation or its newest message
\* cannot be read.
WakeRoom(b) ==
    /\ Resting /\ b \in wake.left
    /\ wake' = [wake EXCEPT !.left = @ \ {b}]
    /\ \/ /\ MayPickUp(b)
          /\ Becomes(Waker, [Idle EXCEPT !.pc = "start", !.room = b.room, !.thread = b.thread])
       \/ UNCHANGED runner
    /\ UNCHANGED <<now, dbVars, asked, involved>>

WakeEnds ==
    /\ wake.going /\ Resting
    /\ wake.left = {}
    /\ wake' = [wake EXCEPT !.going = FALSE]
    /\ UNCHANGED <<now, dbVars, runner, asked, involved>>

Tick ==
    /\ now < MaxTime
    /\ now' = now + 1
    /\ UNCHANGED <<dbVars, runner, wake, asked, involved>>

RunnerStep(p) ==
    \/ FindBinding(p) \/ SaveBinding(p) \/ StartRun(p) \/ ReadReplyMode(p)
    \/ MarkRoom(p) \/ RunEnds(p) \/ RunFails(p)
    \/ \E r \in Rooms : Send(p, r) \/ EndEngagement(p, r)

Next ==
    \/ \E p \in Runners : RunnerStep(p) \/ Trigger(p)
    \/ \E p \in Handlers, r \in Rooms, mention \in BOOLEAN : BatchArrives(p, r, mention)
    \/ WakeStarts \/ WakeEnds
    \/ \E b \in wake.left : WakeRoom(b)
    \/ Tick

Spec == Init /\ [][Next]_vars

-----------------------------------------------------------------------------
(* What the rooms promise.                                                 *)

\* A run whose batch mentions the agent is one that may answer, whatever wakes
\* and other runs did to the room and its conversation in between: a mention
\* is never suppressed.  (With one batch of a room at a time, and unless a send
\* from elsewhere ever bound another room to the conversation.)
MentionHeard ==
    \A p \in Handlers :
        runner[p].pc = "rounds" /\ runner[p].mention /\ homes[runner[p].thread] = {runner[p].room}
            => runner[p].mode # "suppress"

\* The follow-up window of a group was opened by a mention in that room or a
\* message of the agent to it, and is open no longer than Window after that:
\* neither other messages nor rows saved late keep an agent engaged.
WindowHasCause ==
    \A r \in Groups :
        rows[r].until # None => involved[r] # None /\ rows[r].until <= involved[r] + Window

\* A group that was ever bound to a conversation is never bound to another,
\* although batches, wakes asked for and sends each look for its binding, open
\* a conversation when there is none, and save the row whole some time later.
\* (As long as a run sends into its own room.)
GroupKeepsConversation ==
    OwnRoomOnly => \A g \in Groups : \A s, t \in Threads : g \in homes[s] /\ g \in homes[t] => s = t

=============================================================================
