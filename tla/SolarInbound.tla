--------------------------- MODULE SolarInbound ---------------------------
(***************************************************************************)
(* Solar chat messages on their way to an agent: pushed over a websocket   *)
(* or replayed from the room's history after a reconnect, gathered per     *)
(* room until the room has been quiet for a while, and handed to a run in  *)
(* one piece, on a goroutine of its own.                                   *)
(*                                                                         *)
(* A message is named by its place in Solar's history, which is also its   *)
(* time.  Left out: pages of the history, what a message says and who it   *)
(* mentions, and what a run does besides sending messages.                 *)
(***************************************************************************)
EXTENDS Naturals, FiniteSets, Sequences

CONSTANTS
    Rooms,
    Known,        \* rooms the database has a binding for at first
    Flushers,     \* goroutines that handle a batch: bound on those at once
    Stopper,      \* the goroutine that stops the process
    RunsSend,     \* TRUE: a run may send a message into its room
    CallsFail,    \* TRUE: reading a history, the database and a run may fail
    MaxPosts,     \* bound on the messages in Solar
    MaxDrops,     \* bound on the connections that break
    MaxCrashes,   \* bound on crashes and stops of the process
    None

ASSUME SolarInboundAssumption ==
    /\ Known \subseteq Rooms
    /\ {RunsSend, CallsFail} \subseteq BOOLEAN
    /\ {MaxPosts, MaxDrops, MaxCrashes} \subseteq Nat
    /\ None \notin Rooms \cup Nat
    /\ Stopper \notin Flushers

Ids == 1..MaxPosts
Goroutines == Flushers \cup {Stopper}

VARIABLES
    posted,     \* Solar's history: the room and author of each message
    link,       \* what the agent's connection loop is at
    cut,        \* the websocket broke and the loop does not know yet
    socket,     \* pushes not yet read
    view,       \* boundaries of the rooms this catch-up has yet to read
    replay,     \* messages of the room it is replaying, oldest first
    seen,       \* trackedRooms: the boundary of each tracked room
    bound,      \* the bindings in the database: last_message_at of each
    batch,      \* the debouncer's batch of each room
    armed,      \* seq of the timer that is running for each room
    fired,      \* timers that went off and wait for the lock
    flusher,    \* what each goroutine is at
    handled,    \* completed runs each message was part of
    taken,      \* an observer: times each message was given to the debouncer
    lost,       \* an observer: messages of batches nobody will handle again
    stop,       \* how far a stop of the process is, and the rooms left to flush
    faults      \* connections that broke, and restarts

solarVars   == <<posted>>
linkVars    == <<link, cut, socket, view, replay>>
batchVars   == <<batch, armed, fired>>
fates       == <<handled, taken, lost>>
vars == <<posted, linkVars, seen, bound, batchVars, flusher, fates, stop, faults>>

Times  == 0..MaxPosts \cup {None}
Timers == Rooms \X Nat

NoBatch == [seq |-> 0, items |-> <<>>]
Free    == [at |-> "free", room |-> None, items |-> <<>>]

Running == [at |-> "no", keys |-> {}, pending |-> {}, failed |-> FALSE]

TypeOK ==
    /\ posted \in Seq([room : Rooms, bot : BOOLEAN]) /\ Len(posted) <= MaxPosts
    /\ link \in {"down", "catching up", "live"}
    /\ cut \in BOOLEAN
    /\ socket \in Seq(Ids)
    /\ view \in [Rooms -> Times]
    /\ replay \subseteq Ids
    /\ seen \in [Rooms -> Times]
    /\ bound \in [Rooms -> Times]
    /\ batch \in [Rooms -> [seq : Nat, items : Seq(Ids)]]
    /\ armed \in [Rooms -> Nat]
    /\ fired \subseteq Timers
    /\ flusher \in [Goroutines -> [at : {"free", "binding", "creating", "running", "sent"},
                                 room : Rooms \cup {None}, items : Seq(Ids)]]
    /\ {handled, taken} \subseteq [Ids -> Nat]
    /\ lost \subseteq Ids
    /\ stop \in [at : {"no", "flushing", "closed"}, keys : SUBSET Rooms,
                pending : SUBSET Ids, failed : BOOLEAN]
    /\ faults \in [drops : 0..MaxDrops, crashes : 0..MaxCrashes]

Init ==
    /\ posted = <<>>
    /\ link = "down"
    /\ cut = FALSE
    /\ socket = <<>>
    /\ view = [r \in Rooms |-> None]
    /\ replay = {}
    /\ bound = [r \in Rooms |-> IF r \in Known THEN 0 ELSE None]
    /\ seen = bound
    /\ batch = [r \in Rooms |-> NoBatch]
    /\ armed = [r \in Rooms |-> 0]
    /\ fired = {}
    /\ flusher = [f \in Goroutines |-> Free]
    /\ handled = [i \in Ids |-> 0]
    /\ taken = handled
    /\ lost = {}
    /\ stop = Running
    /\ faults = [drops |-> 0, crashes |-> 0]

RoomOf(i) == posted[i].room
IsBot(i)  == posted[i].bot

Elements(s) == {s[k] : k \in 1..Len(s)}

-----------------------------------------------------------------------------
(* Solar.                                                                  *)

Push(i) == socket' = IF link = "down" \/ cut THEN socket ELSE Append(socket, i)

\* A connected bot is sent the messages of its rooms.
UserPosts(r) ==
    /\ Len(posted) < MaxPosts
    /\ posted' = Append(posted, [room |-> r, bot |-> FALSE])
    /\ Push(Len(posted'))
    /\ UNCHANGED <<link, cut, view, replay, seen, bound, batchVars, flusher, fates, stop, faults>>

-----------------------------------------------------------------------------
(* The debouncer.                                                          *)

\* Mutant: the newest message replaces the batch.
Replaced(b, i) == [seq |-> b.seq + 1, items |-> <<i>>]

Enqueued(b, i) == [seq |-> b.seq + 1, items |-> Append(b.items, i)]

\* Mutant: the timer is only started with a new batch.
ArmedOnce(r) == armed' = [armed EXCEPT ![r] = IF @ = 0 THEN batch'[r].seq ELSE @]

\* The timer is started anew with the batch's new seq.
Rearmed(r) == armed' = [armed EXCEPT ![r] = batch'[r].seq]

Enqueue(i) ==
    LET r == RoomOf(i)
    IN  /\ batch' = [batch EXCEPT ![r] = Enqueued(@, i)]
        /\ Rearmed(r)
        /\ taken' = [taken EXCEPT ![i] = @ + 1]
        /\ UNCHANGED fired

Ignore == UNCHANGED <<batchVars, taken>>

\* The goroutine of time.AfterFunc starts; Stop no longer reaches it.
Fire(r) ==
    /\ armed[r] # 0
    /\ fired' = fired \cup {<<r, armed[r]>>}
    /\ armed' = [armed EXCEPT ![r] = 0]
    /\ UNCHANGED <<solarVars, linkVars, seen, bound, batch, flusher, fates, stop, faults>>

\* The batch is gone, or took another message while the timer went off.
FlushStale(r, seq) ==
    /\ <<r, seq>> \in fired
    /\ batch[r].seq # seq
    /\ fired' = fired \ {<<r, seq>>}
    /\ UNCHANGED <<solarVars, linkVars, seen, bound, batch, armed, flusher, fates, stop, faults>>

\* Mutant: the batch is handled and kept.
Kept(r) == batch' = batch

Taken(r) == batch' = [batch EXCEPT ![r] = NoBatch]

FlushBatch(r, seq, f) ==
    /\ <<r, seq>> \in fired
    /\ batch[r].seq = seq
    /\ flusher[f].at = "free"
    /\ fired' = fired \ {<<r, seq>>}
    /\ Taken(r)
    /\ armed' = [armed EXCEPT ![r] = 0]
    /\ flusher' = [flusher EXCEPT ![f] = [at |-> "binding", room |-> r, items |-> batch[r].items]]
    /\ UNCHANGED <<solarVars, linkVars, seen, bound, fates, stop, faults>>

-----------------------------------------------------------------------------
(* The connection loop.                                                     *)

\* Subscribes to every tracked room and takes note of where each was left.
Connect ==
    /\ link = "down"
    /\ link' = "catching up"
    /\ view' = seen
    /\ UNCHANGED <<posted, cut, socket, replay, seen, bound, batchVars, flusher, fates, stop, faults>>

Unread(r) == {i \in 1..Len(posted) : RoomOf(i) = r /\ i > view[r]}

ReadHistory(r) ==
    /\ link = "catching up"
    /\ replay = {}
    /\ view[r] # None
    /\ replay' = Unread(r)
    /\ view' = [view EXCEPT ![r] = None]
    /\ UNCHANGED <<posted, link, cut, socket, seen, bound, batchVars, flusher, fates, stop, faults>>

\* The room is left as it is; the next catch-up reads it again.
HistoryFails(r) ==
    /\ CallsFail
    /\ link = "catching up"
    /\ replay = {}
    /\ view[r] # None
    /\ view' = [view EXCEPT ![r] = None]
    /\ UNCHANGED <<posted, link, cut, socket, replay, seen, bound, batchVars, flusher, fates, stop, faults>>

\* The debouncer takes the message, and then its room is marked as seen up to it.
\* The bot's own messages only move the mark.
ReplayMessage ==
    \E i \in replay :
        /\ \A j \in replay : i <= j
        /\ IF IsBot(i) THEN Ignore ELSE Enqueue(i)
        /\ seen' = [seen EXCEPT ![RoomOf(i)] = i]
        /\ replay' = replay \ {i}
        /\ UNCHANGED <<posted, link, cut, socket, view, bound, flusher, handled, lost, stop, faults>>

EndCatchUp ==
    /\ link = "catching up"
    /\ replay = {}
    /\ \A r \in Rooms : view[r] = None
    /\ link' = "live"
    /\ UNCHANGED <<posted, cut, socket, view, replay, seen, bound, batchVars, flusher, fates, stop, faults>>

\* A message that is pushed does not move the mark of its room.
HandlePacket ==
    LET i == Head(socket)
    IN  /\ link = "live"
        /\ socket # <<>>
        /\ IF IsBot(i) THEN Ignore ELSE Enqueue(i)
        /\ socket' = Tail(socket)
        /\ UNCHANGED <<posted, link, cut, view, replay, seen, bound, flusher, handled, lost, stop, faults>>

\* The websocket breaks.  The catch-up goes on, over requests of its own.
Cut ==
    /\ link # "down"
    /\ ~cut
    /\ faults.drops < MaxDrops /\ stop.at = "no"
    /\ cut' = TRUE
    /\ faults' = [faults EXCEPT !.drops = @ + 1]
    /\ UNCHANGED <<posted, link, socket, view, replay, seen, bound, batchVars, flusher, fates, stop>>

\* serveLoop returns the error of the read; what was not read is gone.
Disconnect ==
    /\ link = "live"
    /\ cut
    /\ link' = "down"
    /\ cut' = FALSE
    /\ socket' = <<>>
    /\ UNCHANGED <<posted, view, replay, seen, bound, batchVars, flusher, fates, stop, faults>>

-----------------------------------------------------------------------------
(* A batch in the hands of a goroutine.                                     *)

Latest(items) == CHOOSE i \in Elements(items) : \A j \in Elements(items) : j <= i

\* The batch is handed on as one message, as old as its last.
Bind(f) == bound' = [bound EXCEPT ![flusher[f].room] = Latest(flusher[f].items)]

TrackRoom(r) == seen' = [seen EXCEPT ![r] = IF @ = None THEN 0 ELSE @]

At(f, step) == flusher' = [flusher EXCEPT ![f].at = step]

FindBinding(f) ==
    LET r == flusher[f].room
    IN  /\ flusher[f].at = "binding"
        /\ \/ bound[r] # None /\ Bind(f) /\ TrackRoom(r) /\ At(f, "running")
           \/ bound[r] = None /\ At(f, "creating") /\ UNCHANGED <<bound, seen>>
        /\ UNCHANGED <<posted, linkVars, batchVars, fates, stop, faults>>

\* An error is logged and the batch is dropped; a stop flushes no more.
Lose(f) ==
    /\ flusher' = [flusher EXCEPT ![f] = Free]
    /\ lost' = lost \cup Elements(flusher[f].items)
    /\ stop' = IF f = Stopper THEN [stop EXCEPT !.keys = {}, !.failed = TRUE] ELSE stop

\* The index on agent and room refuses a second binding, and the batch with it.
CreateBinding(f) ==
    LET r == flusher[f].room
    IN  /\ flusher[f].at = "creating"
        /\ \/ bound[r] = None /\ Bind(f) /\ TrackRoom(r) /\ At(f, "running") /\ UNCHANGED <<lost, stop>>
           \/ bound[r] # None /\ Lose(f) /\ UNCHANGED <<bound, seen>>
        /\ UNCHANGED <<posted, linkVars, batchVars, handled, taken, faults>>

\* The agent answers into the room: what it sent is the new mark.
SendBotMessage(f) ==
    LET r == flusher[f].room
    IN  /\ RunsSend
        /\ flusher[f].at = "running"
        /\ Len(posted) < MaxPosts
        /\ posted' = Append(posted, [room |-> r, bot |-> TRUE])
        /\ Push(Len(posted'))
        /\ seen' = [seen EXCEPT ![r] = Len(posted')]
        /\ At(f, "sent")
        /\ UNCHANGED <<link, cut, view, replay, bound, batchVars, fates, stop, faults>>

\* ensureSolarRoomBinding, at the time it is by then.
BindSent(f) ==
    /\ flusher[f].at = "sent"
    /\ bound' = [bound EXCEPT ![flusher[f].room] = Len(posted)]
    /\ At(f, "running")
    /\ UNCHANGED <<posted, linkVars, seen, batchVars, fates, stop, faults>>

Spots(i, items)  == {k \in 1..Len(items) : items[k] = i}
Copies(i, items) == Cardinality(Spots(i, items))

RunEnds(f) ==
    /\ flusher[f].at = "running"
    /\ handled' = [i \in Ids |-> handled[i] + Copies(i, flusher[f].items)]
    /\ flusher' = [flusher EXCEPT ![f] = Free]
    /\ UNCHANGED <<posted, linkVars, seen, bound, batchVars, taken, lost, stop, faults>>

RunFails(f) ==
    /\ CallsFail
    /\ flusher[f].at # "free"
    /\ Lose(f)
    /\ UNCHANGED <<posted, linkVars, seen, bound, batchVars, handled, taken, faults>>

-----------------------------------------------------------------------------
(* The end of the process.                                                 *)

\* The batches there are will be flushed; Solar goes on pushing meanwhile.
\* Bound: a stop is tried before anything else went wrong, and nothing breaks
\* during it.
Stop ==
    /\ stop.at = "no" /\ faults.drops = 0
    /\ faults.crashes < MaxCrashes
    /\ faults' = [faults EXCEPT !.crashes = @ + 1]
    /\ LET keys == {r \in Rooms : batch[r] # NoBatch}
       IN  stop' = [at |-> "flushing", keys |-> keys, failed |-> FALSE,
                    pending |-> UNION {Elements(batch[r].items) : r \in keys}]
    /\ UNCHANGED <<posted, linkVars, seen, bound, batchVars, flusher, fates>>

MayFlush(r) == stop.at = "flushing" /\ flusher[Stopper].at = "free" /\ r \in stop.keys

Skip(r) ==
    /\ stop' = [stop EXCEPT !.keys = @ \ {r}]
    /\ UNCHANGED <<posted, linkVars, seen, bound, batchVars, flusher, fates, faults>>

TakeNow(r) ==
    /\ Taken(r)
    /\ armed' = [armed EXCEPT ![r] = 0]
    /\ flusher' = [flusher EXCEPT ![Stopper] = [at |-> "binding", room |-> r, items |-> batch[r].items]]
    /\ stop' = [stop EXCEPT !.keys = @ \ {r}]
    /\ UNCHANGED <<posted, linkVars, seen, bound, fired, fates, faults>>

\* Mutant: a batch whose timer went off is left to its goroutine.
LeaveFired(r) ==
    /\ MayFlush(r)
    /\ IF armed[r] # 0 THEN TakeNow(r) ELSE Skip(r)

\* One batch after the other, whatever its seq, in the goroutine of the stop.
FlushAll(r) ==
    /\ MayFlush(r)
    /\ IF batch[r] # NoBatch THEN TakeNow(r) ELSE Skip(r)

\* The connections are closed and their loops waited for; goroutines that
\* handle a batch are not.
StopLinks ==
    /\ stop.at = "flushing" /\ stop.keys = {} /\ flusher[Stopper].at = "free"
    /\ stop' = [stop EXCEPT !.at = "closed"]
    /\ link' = "down"
    /\ cut' = FALSE
    /\ socket' = <<>>
    /\ view' = [r \in Rooms |-> None]
    /\ replay' = {}
    /\ UNCHANGED <<posted, seen, bound, batchVars, flusher, fates, faults>>

\* The process crashes and comes back with the marks of the database, as it does
\* when it is started again after a stop.
Restart ==
    /\ stop.at = "no"
    /\ faults.crashes < MaxCrashes
    /\ faults' = [faults EXCEPT !.crashes = @ + 1]
    /\ UNCHANGED stop
    /\ link' = "down"
    /\ cut' = FALSE
    /\ socket' = <<>>
    /\ view' = [r \in Rooms |-> None]
    /\ replay' = {}
    /\ seen' = bound
    /\ batch' = [r \in Rooms |-> NoBatch]
    /\ armed' = [r \in Rooms |-> 0]
    /\ fired' = {}
    /\ flusher' = [f \in Goroutines |-> Free]
    /\ lost' = lost \cup UNION {Elements(flusher[f].items) : f \in Goroutines}
    /\ UNCHANGED <<posted, bound, handled, taken>>

Loop ==
    \/ Connect \/ ReplayMessage \/ EndCatchUp \/ HandlePacket \/ Disconnect
    \/ \E r \in Rooms : ReadHistory(r)

Flush(r) ==
    \E q \in {t[2] : t \in fired} :
        FlushStale(r, q) \/ \E f \in Flushers : FlushBatch(r, q, f)

Handle(f) == FindBinding(f) \/ CreateBinding(f) \/ BindSent(f) \/ RunEnds(f)

Next ==
    /\ stop.at # "closed"
    /\ \/ Loop
       \/ \E r \in Rooms : UserPosts(r) \/ HistoryFails(r) \/ Fire(r) \/ Flush(r) \/ FlushAll(r)
       \/ \E f \in Goroutines : Handle(f) \/ SendBotMessage(f) \/ RunFails(f)
       \/ Cut
       \/ Stop \/ StopLinks \/ Restart

Spec == Init /\ [][Next]_vars

-----------------------------------------------------------------------------
\* Messages the process has in its hands, or is about to read.
InHand ==
    Elements(socket) \cup replay
    \cup (UNION {Elements(batch[r].items) : r \in Rooms})
    \cup (UNION {Elements(flusher[f].items) : f \in Goroutines})
    \cup {i \in 1..Len(posted) : view[RoomOf(i)] # None /\ i > view[RoomOf(i)]}

UserMessages == {i \in 1..Len(posted) : ~IsBot(i)}

\* The copies of a message that rooms or goroutines hold.
Held(i, holders) ==
    UNION {{h} \X Spots(i, holders[h].items) : h \in DOMAIN holders}

\* Copies of a message in batches that gather or are being handled.
Waiting(i) == Cardinality(Held(i, batch)) + Cardinality(Held(i, flusher))

\* A batch never sits there with nobody to flush it: the timer that runs, or that
\* went off, carries the batch's own seq.
BatchHasTimer ==
    \A r \in Rooms : batch[r].items # <<>> =>
        armed[r] = batch[r].seq \/ <<r, batch[r].seq>> \in fired

\* A message is in no more batches, waiting or handled, than it was taken from
\* Solar times: timers, stale flushes and messages that join a batch while it is
\* flushed may lose it, and do not multiply it.
DeliveredOnce ==
    \A i \in UserMessages : handled[i] + Waiting(i) <= taken[i]

\* With an agent that only listens, a message that the next catch-up will
\* not read again was handled, is in hand, or was in a batch that
\* failed: broken connections, histories that cannot be read and messages that
\* come meanwhile leave no other gap.  (A restart does: it takes the mark of the
\* last batch that was bound.)
NoneSkipped ==
    UserMessages = 1..Len(posted) /\ faults.crashes = 0 =>
        \A i \in UserMessages :
            seen[RoomOf(i)] # None /\ i <= seen[RoomOf(i)] =>
                handled[i] > 0 \/ i \in lost \cup InHand

\* A stop none of whose flushes fails leaves no message behind that was waiting
\* in a batch when it began: it was handled, or was in a batch that failed, or
\* is with a goroutine whose timer took it first.
StopFlushes ==
    stop.at = "closed" /\ ~stop.failed =>
        \A i \in stop.pending :
            \/ handled[i] > 0 \/ i \in lost
            \/ \E f \in Flushers : i \in Elements(flusher[f].items)

\* No message waits in a batch in vain: a batch has the timer that flushes it,
\* or the stop that ends the timers flushes it itself.
BatchesFlushed == BatchHasTimer /\ StopFlushes

=============================================================================
