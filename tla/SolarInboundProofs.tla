------------------------ MODULE SolarInboundProofs ------------------------
(***************************************************************************)
(* What becomes of a message, for any rooms, messages, timers, goroutines  *)
(* and faults: none waits in a batch in vain, none is multiplied, and an   *)
(* agent that only listens skips none.  A stop is the part of the first    *)
(* that is not inductive by itself: while it flushes, each message that    *)
(* was waiting when it began is followed from its batch to a goroutine,    *)
(* and on to a run or a loss.                                              *)
(***************************************************************************)
EXTENDS SolarInbound, SequenceTheorems, FiniteSetTheorems, TLAPS

Steps == {"free", "binding", "creating", "running", "sent"}
Hand  == [at : Steps, room : Rooms \cup {None}, items : Seq(Ids)]
Batch == [seq : Nat, items : Seq(Ids)]
Posted == 1..Len(posted)

\* The part of the types that the argument needs: messages on their way are
\* messages of Solar's history.
SolarTyped ==
    /\ posted \in Seq([room : Rooms, bot : BOOLEAN])
    /\ Len(posted) <= MaxPosts
    /\ socket \in Seq(Posted)
    /\ replay \subseteq Posted

HandsTyped ==
    /\ batch \in [Rooms -> Batch]
    /\ armed \in [Rooms -> Nat]
    /\ flusher \in [Goroutines -> Hand]
    /\ handled \in [Ids -> Nat]
    /\ stop \in [at : {"no", "flushing", "closed"}, keys : SUBSET Rooms,
                 pending : SUBSET Ids, failed : BOOLEAN]

\* A free hand holds nothing, any other the batch of a room.
HandsSound ==
    \A f \in Goroutines :
        IF flusher[f].at = "free" THEN flusher[f].items = <<>> ELSE flusher[f].room \in Rooms

\* Where a message can be that waited in a batch when the stop began.
InAHand(i)  == \E f \in Goroutines : i \in Elements(flusher[f].items)
InABatch(i) == \E r \in stop.keys : i \in Elements(batch[r].items)
Accounted(i) == handled[i] > 0 \/ i \in lost \/ InAHand(i) \/ InABatch(i)

PendingAccounted ==
    stop.at = "flushing" /\ ~stop.failed => \A i \in stop.pending : Accounted(i)

FlushInv == SolarTyped /\ HandsTyped /\ HandsSound /\ BatchesFlushed /\ PendingAccounted

-----------------------------------------------------------------------------
(* Sequences of messages.                                                  *)

LEMMA Bounds == MaxPosts \in Nat
BY SolarInboundAssumption

LEMMA ElementsOfNone == Elements(<<>>) = {}
BY DEF Elements

LEMMA ElementsTyped ==
    ASSUME NEW s \in Seq(Ids)
    PROVE  Elements(s) \subseteq Ids
BY ElementOfSeq DEF Elements

LEMMA ElementsOfAppend ==
    ASSUME NEW s \in Seq(Ids), NEW i \in Ids
    PROVE  /\ Append(s, i) \in Seq(Ids) /\ Append(s, i) # <<>>
           /\ Elements(s) \subseteq Elements(Append(s, i))
<1>1. /\ Append(s, i) \in Seq(Ids)
      /\ Len(Append(s, i)) = Len(s) + 1
      /\ \A k \in 1..Len(s) : Append(s, i)[k] = s[k]
  OBVIOUS
<1>2. Len(s) \in Nat
  BY LenProperties
<1>3. Append(s, i) # <<>>
  BY <1>1, <1>2, EmptySeq
<1>4. \A k \in 1..Len(s) : k \in 1..Len(Append(s, i))
  BY <1>1, <1>2
<1> QED
  BY <1>1, <1>3, <1>4 DEF Elements

\* A message of a batch counts for something when its run is done.
LEMMA CopiesCount ==
    ASSUME NEW s \in Seq(Ids), NEW i
    PROVE  Copies(i, s) \in Nat /\ (i \in Elements(s) => Copies(i, s) > 0)
<1> DEFINE places == Spots(i, s)
<1>1. Len(s) \in Nat
  BY LenProperties
<1>2. IsFiniteSet(1..Len(s))
  BY <1>1, FS_Interval
<1>3. IsFiniteSet(places)
  BY <1>2, FS_Subset DEF Spots
<1>4. Cardinality(places) \in Nat /\ (Cardinality(places) = 0 <=> places = {})
  BY <1>3, FS_CardinalityType, FS_EmptySet
<1>5. i \in Elements(s) => places # {}
  BY DEF Elements, Spots
<1>6. Copies(i, s) = Cardinality(places)
  BY DEF Copies
<1> HIDE DEF places
<1> QED
  BY <1>4, <1>5, <1>6

LEMMA PostedTyped ==
    ASSUME SolarTyped, NEW i \in Posted
    PROVE  i \in Ids /\ RoomOf(i) \in Rooms
<1>1. Len(posted) \in Nat
  BY LenProperties DEF SolarTyped
<1>2. i \in Ids
  BY <1>1, Bounds DEF SolarTyped, Posted, Ids
<1>3. posted[i] \in [room : Rooms, bot : BOOLEAN]
  BY ElementOfSeq DEF SolarTyped, Posted
<1> QED
  BY <1>2, <1>3 DEF RoomOf

LEMMA PostKeepsTyped ==
    ASSUME SolarTyped, Len(posted) < MaxPosts, replay' = replay,
           NEW m \in [room : Rooms, bot : BOOLEAN],
           posted' = Append(posted, m), Push(Len(posted'))
    PROVE  SolarTyped'
<1>1. Len(posted) \in Nat
  BY LenProperties DEF SolarTyped
<1>2. posted' \in Seq([room : Rooms, bot : BOOLEAN]) /\ Len(posted') = Len(posted) + 1
  BY DEF SolarTyped
<1>3. Posted \subseteq Posted' /\ Len(posted') \in Posted' /\ Len(posted') <= MaxPosts
  BY <1>1, <1>2, Bounds DEF Posted
<1>4. socket \in Seq(Posted')
  BY <1>3, SeqMonotonic DEF SolarTyped
<1>5. socket' \in Seq(Posted')
  BY <1>3, <1>4 DEF Push
<1>6. replay' \subseteq Posted'
  BY <1>3 DEF SolarTyped
<1> QED
  BY <1>2, <1>3, <1>5, <1>6 DEF SolarTyped

-----------------------------------------------------------------------------
THEOREM InitFlush == Init => FlushInv
<1> SUFFICES ASSUME Init PROVE FlushInv
  OBVIOUS
<1>1. SolarTyped
  BY Bounds, EmptySeq DEF Init, SolarTyped
<1>2. HandsTyped
  <2>1. <<>> \in Seq(Ids)
    BY EmptySeq
  <2>2. NoBatch \in Batch /\ Free \in Hand
    BY <2>1 DEF NoBatch, Batch, Free, Hand, Steps
  <2>3. stop \in [at : {"no", "flushing", "closed"}, keys : SUBSET Rooms,
                  pending : SUBSET Ids, failed : BOOLEAN]
    BY DEF Init, Running
  <2> QED
    BY <2>2, <2>3 DEF Init, HandsTyped
<1>3. HandsSound
  BY DEF Init, HandsSound, Free
<1>4. BatchesFlushed /\ PendingAccounted
  BY DEF Init, BatchesFlushed, BatchHasTimer, StopFlushes, PendingAccounted, NoBatch, Running
<1> QED
  BY <1>1, <1>2, <1>3, <1>4 DEF FlushInv

-----------------------------------------------------------------------------
(* Steps that touch neither a batch nor a hand.                            *)

LEMMA StillHands ==
    ASSUME FlushInv, SolarTyped',
           UNCHANGED <<batch, armed, fired, flusher, handled, lost, stop>>
    PROVE  FlushInv'
<1>1. HandsTyped' /\ HandsSound'
  BY DEF FlushInv, HandsTyped, HandsSound
<1>2. BatchesFlushed'
  BY DEF FlushInv, BatchesFlushed, BatchHasTimer, StopFlushes
<1>3. PendingAccounted'
  BY DEF FlushInv, PendingAccounted, Accounted, InAHand, InABatch
<1> QED
  BY <1>1, <1>2, <1>3 DEF FlushInv

LEMMA LinkKeeps ==
    ASSUME FlushInv, Connect \/ EndCatchUp \/ Disconnect \/ Cut
    PROVE  FlushInv'
<1>1. UNCHANGED <<batch, armed, fired, flusher, handled, lost, stop>>
  BY DEF Connect, EndCatchUp, Disconnect, Cut, batchVars, fates
<1>2. SolarTyped'
  BY EmptySeq DEF FlushInv, SolarTyped, Posted, Connect, EndCatchUp, Disconnect, Cut
<1> QED
  BY <1>1, <1>2, StillHands

LEMMA RoomKeeps ==
    ASSUME FlushInv, NEW r \in Rooms, ReadHistory(r) \/ HistoryFails(r) \/ UserPosts(r)
    PROVE  FlushInv'
<1>1. UNCHANGED <<batch, armed, fired, flusher, handled, lost, stop>>
  BY DEF ReadHistory, HistoryFails, UserPosts, batchVars, fates
<1>2. SolarTyped'
  <2>1. CASE UserPosts(r)
    BY <2>1, PostKeepsTyped DEF FlushInv, UserPosts
  <2>2. CASE ReadHistory(r)
    <3>1. Unread(r) \subseteq Posted
      BY DEF Unread, Posted
    <3> QED
      BY <2>2, <3>1 DEF FlushInv, SolarTyped, Posted, ReadHistory
  <2>3. CASE HistoryFails(r)
    BY <2>3 DEF FlushInv, SolarTyped, Posted, HistoryFails
  <2> QED BY <2>1, <2>2, <2>3
<1> QED
  BY <1>1, <1>2, StillHands

-----------------------------------------------------------------------------
(* The debouncer.                                                          *)

LEMMA EnqueueKeeps ==
    ASSUME FlushInv, SolarTyped', NEW i \in Posted, Enqueue(i),
           UNCHANGED <<flusher, handled, lost, stop>>
    PROVE  FlushInv'
<1> DEFINE room == RoomOf(i)
<1>1. i \in Ids /\ room \in Rooms
  BY PostedTyped DEF FlushInv
<1>2. batch[room] \in Batch
  BY <1>1 DEF FlushInv, HandsTyped
<1>3. Enqueued(batch[room], i) \in Batch
  BY <1>1, <1>2, ElementsOfAppend DEF Batch, Enqueued
<1>4. /\ batch' = [batch EXCEPT ![room] = Enqueued(batch[room], i)]
      /\ armed' = [armed EXCEPT ![room] = batch'[room].seq]
      /\ fired' = fired
  BY DEF Enqueue, Rearmed
<1>5. HandsTyped'
  <2>1. batch' \in [Rooms -> Batch]
    BY <1>3, <1>4 DEF FlushInv, HandsTyped
  <2>2. armed' \in [Rooms -> Nat]
    BY <1>1, <1>4, <2>1 DEF FlushInv, HandsTyped, Batch
  <2> QED
    BY <2>1, <2>2 DEF FlushInv, HandsTyped
<1>6. BatchesFlushed'
  <2>1. BatchHasTimer'
    BY <1>1, <1>4 DEF FlushInv, HandsTyped, BatchesFlushed, BatchHasTimer
  <2>2. StopFlushes'
    BY DEF FlushInv, BatchesFlushed, StopFlushes
  <2> QED BY <2>1, <2>2 DEF BatchesFlushed
<1>7. PendingAccounted'
  <2>1. \A r \in Rooms : Elements(batch[r].items) \subseteq Elements(batch'[r].items)
    <3>1. Elements(batch[room].items) \subseteq Elements(Enqueued(batch[room], i).items)
      BY <1>1, <1>2, ElementsOfAppend DEF Batch, Enqueued
    <3> QED
      BY <1>4, <3>1 DEF FlushInv, HandsTyped
  <2>2. stop.keys \subseteq Rooms
    BY DEF FlushInv, HandsTyped
  <2> QED
    BY <2>1, <2>2 DEF FlushInv, PendingAccounted, Accounted, InAHand, InABatch
<1>8. HandsSound'
  BY DEF FlushInv, HandsSound
<1> QED
  BY <1>5, <1>6, <1>7, <1>8 DEF FlushInv

LEMMA ReplayKeeps ==
    ASSUME FlushInv, ReplayMessage
    PROVE  FlushInv'
<1>1. PICK i \in replay :
        /\ IF IsBot(i) THEN Ignore ELSE Enqueue(i)
        /\ replay' = replay \ {i}
        /\ UNCHANGED <<posted, socket, flusher, handled, lost, stop>>
  BY DEF ReplayMessage
<1>2. SolarTyped' /\ i \in Posted
  BY <1>1 DEF FlushInv, SolarTyped, Posted
<1>3. CASE Ignore
  BY <1>1, <1>2, <1>3, StillHands DEF Ignore, batchVars
<1>4. CASE Enqueue(i)
  BY <1>1, <1>2, <1>4, EnqueueKeeps
<1> QED
  BY <1>1, <1>3, <1>4

LEMMA PacketKeeps ==
    ASSUME FlushInv, HandlePacket
    PROVE  FlushInv'
<1> DEFINE i == Head(socket)
<1>1. /\ socket # <<>>
      /\ IF IsBot(i) THEN Ignore ELSE Enqueue(i)
      /\ socket' = Tail(socket)
      /\ UNCHANGED <<posted, replay, flusher, handled, lost, stop>>
  BY DEF HandlePacket
<1>2. i \in Posted /\ Tail(socket) \in Seq(Posted)
  BY <1>1, HeadTailProperties DEF FlushInv, SolarTyped
<1>3. SolarTyped'
  BY <1>1, <1>2 DEF FlushInv, SolarTyped, Posted
<1> HIDE DEF i
<1>4. CASE Ignore
  BY <1>1, <1>3, <1>4, StillHands DEF Ignore, batchVars
<1>5. CASE Enqueue(i)
  BY <1>1, <1>2, <1>3, <1>5, EnqueueKeeps
<1> QED
  BY <1>1, <1>4, <1>5

LEMMA TimerKeeps ==
    ASSUME FlushInv, NEW r \in Rooms, NEW q, Fire(r) \/ FlushStale(r, q)
    PROVE  FlushInv'
<1>1. UNCHANGED <<posted, socket, replay, batch, flusher, handled, lost, stop>>
  BY DEF Fire, FlushStale, solarVars, linkVars, fates
<1>2. SolarTyped' /\ HandsSound' /\ PendingAccounted' /\ StopFlushes'
  BY <1>1 DEF FlushInv, SolarTyped, Posted, HandsSound, PendingAccounted, Accounted, InAHand, InABatch,
              BatchesFlushed, StopFlushes
<1>3. HandsTyped'
  BY <1>1 DEF FlushInv, HandsTyped, Fire, FlushStale
<1>4. BatchHasTimer'
  BY <1>1 DEF FlushInv, HandsTyped, BatchesFlushed, BatchHasTimer, Fire, FlushStale
<1> QED
  BY <1>2, <1>3, <1>4 DEF FlushInv, BatchesFlushed

\* A batch goes whole into a free hand.
LEMMA TakeKeeps ==
    ASSUME FlushInv, NEW r \in Rooms, NEW f \in Goroutines,
           stop.at # "closed",
           flusher[f].at = "free",
           Taken(r), armed' = [armed EXCEPT ![r] = 0],
           flusher' = [flusher EXCEPT ![f] = [at |-> "binding", room |-> r, items |-> batch[r].items]],
           \A t \in Rooms \ {r} : <<t, batch[t].seq>> \in fired => <<t, batch[t].seq>> \in fired',
           UNCHANGED <<posted, socket, replay, handled, lost>>,
           stop' = stop \/ stop' = [stop EXCEPT !.keys = @ \ {r}]
    PROVE  FlushInv'
<1>1. SolarTyped'
  BY DEF FlushInv, SolarTyped, Posted
<1>2. batch[r] \in Batch
  BY DEF FlushInv, HandsTyped
<1>3. NoBatch \in Batch /\ NoBatch.items = <<>>
  BY EmptySeq DEF NoBatch, Batch
<1>4. HandsTyped'
  <2>1. batch' \in [Rooms -> Batch]
    BY <1>3 DEF FlushInv, HandsTyped, Taken
  <2>2. flusher' \in [Goroutines -> Hand]
    BY <1>2 DEF FlushInv, HandsTyped, Hand, Steps, Batch
  <2>3. armed' \in [Rooms -> Nat]
    BY DEF FlushInv, HandsTyped
  <2>4. stop' \in [at : {"no", "flushing", "closed"}, keys : SUBSET Rooms,
                   pending : SUBSET Ids, failed : BOOLEAN]
    BY DEF FlushInv, HandsTyped
  <2> QED
    BY <2>1, <2>2, <2>3, <2>4 DEF FlushInv, HandsTyped
<1>5. HandsSound'
  BY DEF FlushInv, HandsTyped, HandsSound
<1>6. BatchHasTimer'
  BY <1>3 DEF FlushInv, HandsTyped, BatchesFlushed, BatchHasTimer, Taken
<1>7. StopFlushes'
  BY DEF FlushInv, HandsTyped, StopFlushes
<1>8. PendingAccounted'
  <2>1. \A i : InAHand(i) => InAHand(i)'
    <3>1. flusher[f].items = <<>>
      BY DEF FlushInv, HandsSound
    <3>2. \A g \in Goroutines : g # f => flusher'[g] = flusher[g]
      BY DEF FlushInv, HandsTyped
    <3> QED
      BY <3>1, <3>2, ElementsOfNone DEF InAHand
  <2>2. \A i : i \in Elements(batch[r].items) => InAHand(i)'
    <3>1. flusher'[f].items = batch[r].items
      BY DEF FlushInv, HandsTyped
    <3> QED
      BY <3>1 DEF InAHand
  <2>3. \A i : InABatch(i) => InABatch(i)' \/ i \in Elements(batch[r].items)
    <3>1. \A t \in Rooms : t # r => batch'[t] = batch[t]
      BY DEF FlushInv, HandsTyped, Taken
    <3>2. stop.keys \subseteq Rooms /\ stop.keys \ {r} \subseteq stop'.keys
      BY DEF FlushInv, HandsTyped
    <3> QED
      BY <3>1, <3>2 DEF InABatch
  <2>4. stop'.at = stop.at /\ stop'.failed = stop.failed /\ stop'.pending = stop.pending
    BY DEF FlushInv, HandsTyped
  <2> QED
    BY <2>1, <2>2, <2>3, <2>4 DEF FlushInv, PendingAccounted, Accounted
<1> QED
  BY <1>1, <1>4, <1>5, <1>6, <1>7, <1>8 DEF FlushInv, BatchesFlushed

LEMMA FlushKeeps ==
    ASSUME FlushInv, stop.at # "closed", NEW r \in Rooms, NEW q, NEW f \in Flushers, FlushBatch(r, q, f)
    PROVE  FlushInv'
<1>1. f \in Goroutines
  BY DEF Goroutines
<1> QED
  BY <1>1, TakeKeeps DEF FlushBatch, solarVars, linkVars, fates

-----------------------------------------------------------------------------
(* A batch in the hands of a goroutine.                                    *)

LEMMA HandsOnKeeps ==
    ASSUME FlushInv, SolarTyped', NEW f \in Goroutines,
           \E step \in Steps \ {"free"} : At(f, step),
           flusher[f].at # "free",
           UNCHANGED <<batch, armed, fired, handled, lost, stop>>
    PROVE  FlushInv'
<1>1. \A g \in Goroutines :
         /\ flusher'[g].items = flusher[g].items /\ flusher'[g].room = flusher[g].room
         /\ flusher'[g].at = "free" <=> flusher[g].at = "free"
  BY DEF FlushInv, HandsTyped, At, Hand
<1>2. HandsTyped'
  <2>1. PICK step \in Steps : flusher' = [flusher EXCEPT ![f].at = step]
    BY DEF At
  <2>2. flusher' \in [Goroutines -> Hand]
    BY <2>1 DEF FlushInv, HandsTyped, Hand
  <2> QED
    BY <2>2 DEF FlushInv, HandsTyped
<1>3. HandsSound'
  BY <1>1 DEF FlushInv, HandsSound
<1>4. Flushers \subseteq Goroutines
  BY DEF Goroutines
<1>5. BatchesFlushed'
  BY <1>1, <1>4 DEF FlushInv, BatchesFlushed, BatchHasTimer, StopFlushes
<1>6. PendingAccounted'
  BY <1>1 DEF FlushInv, PendingAccounted, Accounted, InAHand, InABatch
<1> QED
  BY <1>2, <1>3, <1>5, <1>6 DEF FlushInv

\* What a hand lets go of was handled or is lost.
LEMMA LetGoKeeps ==
    ASSUME FlushInv, stop.at # "closed", NEW f \in Goroutines,
           UNCHANGED <<posted, socket, replay, batch, armed, fired>>,
           flusher' = [flusher EXCEPT ![f] = Free],
           handled' \in [Ids -> Nat], lost \subseteq lost',
           \A i \in Ids : handled[i] > 0 => handled'[i] > 0,
           \A i \in Ids : i \in Elements(flusher[f].items) => handled'[i] > 0 \/ i \in lost',
           stop' = stop \/ stop' = [stop EXCEPT !.keys = {}, !.failed = TRUE]
    PROVE  FlushInv'
<1>1. SolarTyped'
  BY DEF FlushInv, SolarTyped, Posted
<1>2. Free \in Hand
  BY EmptySeq DEF Free, Hand, Steps
<1>3. HandsTyped'
  <2>1. flusher' \in [Goroutines -> Hand]
    BY <1>2 DEF FlushInv, HandsTyped
  <2>2. stop' \in [at : {"no", "flushing", "closed"}, keys : SUBSET Rooms,
                   pending : SUBSET Ids, failed : BOOLEAN]
    BY DEF FlushInv, HandsTyped
  <2> QED
    BY <2>1, <2>2 DEF FlushInv, HandsTyped
<1>4. \A g \in Goroutines : g # f => flusher'[g] = flusher[g]
  BY DEF FlushInv, HandsTyped
<1>5. HandsSound'
  BY <1>4 DEF FlushInv, HandsTyped, HandsSound, Free
<1>6. BatchHasTimer'
  BY DEF FlushInv, BatchesFlushed, BatchHasTimer
<1>7. StopFlushes'
  BY DEF FlushInv, HandsTyped, StopFlushes
<1>8. PendingAccounted'
  <2> SUFFICES ASSUME stop' = stop, stop.at = "flushing", ~stop.failed, NEW i \in stop.pending
               PROVE  Accounted(i)'
    BY DEF FlushInv, HandsTyped, PendingAccounted
  <2>1. i \in Ids /\ Accounted(i)
    BY DEF FlushInv, HandsTyped, PendingAccounted
  <2>2. InAHand(i) => InAHand(i)' \/ i \in Elements(flusher[f].items)
    BY <1>4 DEF InAHand
  <2>3. InABatch(i) => InABatch(i)'
    BY DEF InABatch
  <2> QED
    BY <2>1, <2>2, <2>3 DEF Accounted
<1> QED
  BY <1>1, <1>3, <1>5, <1>6, <1>7, <1>8 DEF FlushInv, BatchesFlushed

LEMMA LoseKeeps ==
    ASSUME FlushInv, stop.at # "closed", NEW f \in Goroutines, Lose(f),
           UNCHANGED <<posted, socket, replay, batch, armed, fired, handled>>
    PROVE  FlushInv'
<1>1. handled' \in [Ids -> Nat]
  BY DEF FlushInv, HandsTyped
<1>2. /\ flusher' = [flusher EXCEPT ![f] = Free]
      /\ lost' = lost \cup Elements(flusher[f].items)
      /\ stop' = stop \/ stop' = [stop EXCEPT !.keys = {}, !.failed = TRUE]
  BY DEF Lose
<1> QED
  BY <1>1, <1>2, LetGoKeeps

LEMMA RunEndsKeeps ==
    ASSUME FlushInv, stop.at # "closed", NEW f \in Goroutines, RunEnds(f)
    PROVE  FlushInv'
<1>1. flusher[f].items \in Seq(Ids)
  BY DEF FlushInv, HandsTyped, Hand
<1>2. \A i \in Ids : handled[i] \in Nat
  BY DEF FlushInv, HandsTyped
<1>3. \A i \in Ids :
        /\ handled'[i] \in Nat
        /\ handled[i] > 0 => handled'[i] > 0
        /\ i \in Elements(flusher[f].items) => handled'[i] > 0
  BY <1>1, <1>2, CopiesCount DEF RunEnds
<1>4. handled' \in [Ids -> Nat]
  BY <1>3 DEF RunEnds
<1>5. /\ flusher' = [flusher EXCEPT ![f] = Free]
      /\ UNCHANGED <<posted, socket, replay, batch, armed, fired, lost, stop>>
  BY DEF RunEnds, linkVars, batchVars
<1> QED
  BY <1>3, <1>4, <1>5, LetGoKeeps

LEMMA HandleKeeps ==
    ASSUME FlushInv, stop.at # "closed", NEW f \in Goroutines,
           Handle(f) \/ SendBotMessage(f) \/ RunFails(f)
    PROVE  FlushInv'
<1>1. CASE FindBinding(f)
  <2>1. SolarTyped'
    BY <1>1 DEF FlushInv, SolarTyped, Posted, FindBinding, linkVars
  <2>2. At(f, "running") \/ At(f, "creating")
    BY <1>1 DEF FindBinding
  <2>3. \E step \in Steps \ {"free"} : At(f, step)
    BY <2>2 DEF Steps
  <2> QED
    BY <1>1, <2>1, <2>3, HandsOnKeeps DEF FindBinding, batchVars, fates
<1>2. CASE CreateBinding(f)
  <2>1. UNCHANGED <<posted, socket, replay, batch, armed, fired, handled>>
    BY <1>2 DEF CreateBinding, linkVars, batchVars
  <2>2. SolarTyped'
    BY <2>1 DEF FlushInv, SolarTyped, Posted
  <2>3. CASE At(f, "running") /\ UNCHANGED <<lost, stop>>
    <3>1. \E step \in Steps \ {"free"} : At(f, step)
      BY <2>3 DEF Steps
    <3> QED
      BY <1>2, <2>1, <2>2, <2>3, <3>1, HandsOnKeeps DEF CreateBinding
  <2>4. CASE Lose(f)
    BY <2>1, <2>4, LoseKeeps
  <2> QED
    BY <1>2, <2>3, <2>4 DEF CreateBinding
<1>3. CASE BindSent(f)
  <2>1. SolarTyped'
    BY <1>3 DEF FlushInv, SolarTyped, Posted, BindSent, linkVars
  <2>2. \E step \in Steps \ {"free"} : At(f, step)
    BY <1>3 DEF BindSent, Steps
  <2> QED
    BY <1>3, <2>1, <2>2, HandsOnKeeps DEF BindSent, batchVars, fates
<1>4. CASE SendBotMessage(f)
  <2>1. flusher[f].room \in Rooms
    BY <1>4 DEF FlushInv, HandsSound, SendBotMessage
  <2>2. [room |-> flusher[f].room, bot |-> TRUE] \in [room : Rooms, bot : BOOLEAN]
    BY <2>1
  <2>3. SolarTyped'
    BY <1>4, <2>2, PostKeepsTyped DEF FlushInv, SendBotMessage
  <2>4. \E step \in Steps \ {"free"} : At(f, step)
    BY <1>4 DEF SendBotMessage, Steps
  <2> QED
    BY <1>4, <2>3, <2>4, HandsOnKeeps DEF SendBotMessage, batchVars, fates
<1>5. CASE RunEnds(f)
  BY <1>5, RunEndsKeeps
<1>6. CASE RunFails(f)
  BY <1>6, LoseKeeps DEF RunFails, linkVars, batchVars
<1> QED
  BY <1>1, <1>2, <1>3, <1>4, <1>5, <1>6 DEF Handle

-----------------------------------------------------------------------------
(* The end of the process.                                                 *)

LEMMA FlushAllKeeps ==
    ASSUME FlushInv, NEW r \in Rooms, FlushAll(r)
    PROVE  FlushInv'
<1>1. stop.at = "flushing" /\ flusher[Stopper].at = "free" /\ Stopper \in Goroutines
  BY DEF FlushAll, MayFlush, Goroutines
<1>2. CASE TakeNow(r)
  BY <1>1, <1>2, TakeKeeps DEF TakeNow, linkVars, fates
<1>3. CASE batch[r] = NoBatch /\ Skip(r)
  <2>1. UNCHANGED <<posted, socket, replay, batch, armed, fired, flusher, handled, lost>>
    BY <1>3 DEF Skip, linkVars, batchVars, fates
  <2>2. stop' = [stop EXCEPT !.keys = @ \ {r}]
    BY <1>3 DEF Skip
  <2>3. SolarTyped' /\ HandsTyped' /\ HandsSound'
    BY <2>1, <2>2 DEF FlushInv, SolarTyped, Posted, HandsTyped, HandsSound
  <2>4. BatchesFlushed'
    BY <1>1, <2>1, <2>2 DEF FlushInv, HandsTyped, BatchesFlushed, BatchHasTimer, StopFlushes
  <2>5. \A i : InABatch(i) => InABatch(i)'
    BY <1>3, <2>1, <2>2, ElementsOfNone DEF FlushInv, HandsTyped, InABatch, NoBatch
  <2>6. PendingAccounted'
    BY <2>1, <2>2, <2>5 DEF FlushInv, HandsTyped, PendingAccounted, Accounted, InAHand
  <2> QED
    BY <2>3, <2>4, <2>6 DEF FlushInv
<1> QED
  BY <1>2, <1>3 DEF FlushAll

LEMMA StopKeeps ==
    ASSUME FlushInv, Stop
    PROVE  FlushInv'
<1> DEFINE keys == {r \in Rooms : batch[r] # NoBatch}
           pending == UNION {Elements(batch[r].items) : r \in keys}
<1>1. UNCHANGED <<posted, socket, replay, batch, armed, fired, flusher, handled, lost>>
  BY DEF Stop, linkVars, batchVars, fates
<1>2. stop' = [at |-> "flushing", keys |-> keys, failed |-> FALSE, pending |-> pending]
  BY DEF Stop
<1>3. pending \subseteq Ids
  BY ElementsTyped DEF FlushInv, HandsTyped, Batch
<1>4. SolarTyped' /\ HandsSound'
  BY <1>1 DEF FlushInv, SolarTyped, Posted, HandsSound
<1>5. HandsTyped'
  BY <1>1, <1>2, <1>3 DEF FlushInv, HandsTyped
<1>6. BatchesFlushed'
  BY <1>1, <1>2 DEF FlushInv, BatchesFlushed, BatchHasTimer, StopFlushes
<1>7. PendingAccounted'
  BY <1>1, <1>2 DEF PendingAccounted, Accounted, InABatch
<1> QED
  BY <1>4, <1>5, <1>6, <1>7 DEF FlushInv

LEMMA StopLinksKeeps ==
    ASSUME FlushInv, StopLinks
    PROVE  FlushInv'
<1>1. /\ stop.at = "flushing" /\ stop.keys = {} /\ flusher[Stopper].at = "free"
      /\ stop' = [stop EXCEPT !.at = "closed"]
      /\ UNCHANGED <<posted, batch, armed, fired, flusher, handled, lost>>
      /\ socket' = <<>> /\ replay' = {}
  BY DEF StopLinks, batchVars, fates
<1>2. SolarTyped' /\ HandsTyped' /\ HandsSound'
  BY <1>1, EmptySeq DEF FlushInv, SolarTyped, Posted, HandsTyped, HandsSound
<1>3. PendingAccounted' /\ BatchHasTimer'
  BY <1>1 DEF FlushInv, HandsTyped, PendingAccounted, BatchesFlushed, BatchHasTimer
<1>4. StopFlushes'
  <2> SUFFICES ASSUME ~stop.failed, NEW i \in stop.pending
               PROVE  handled[i] > 0 \/ i \in lost \/ \E f \in Flushers : i \in Elements(flusher[f].items)
    BY <1>1 DEF FlushInv, HandsTyped, StopFlushes
  <2>1. Accounted(i) /\ ~InABatch(i)
    BY <1>1 DEF FlushInv, PendingAccounted, InABatch
  <2>2. flusher[Stopper].items = <<>>
    BY <1>1 DEF FlushInv, HandsSound, Goroutines
  <2> QED
    BY <2>1, <2>2, ElementsOfNone DEF Accounted, InAHand, Goroutines
<1> QED
  BY <1>2, <1>3, <1>4 DEF FlushInv, BatchesFlushed

LEMMA RestartKeeps ==
    ASSUME FlushInv, Restart
    PROVE  FlushInv'
<1>1. /\ stop.at = "no" /\ stop' = stop
      /\ UNCHANGED <<posted, handled>>
      /\ socket' = <<>> /\ replay' = {}
      /\ batch' = [r \in Rooms |-> NoBatch]
      /\ armed' = [r \in Rooms |-> 0]
      /\ flusher' = [f \in Goroutines |-> Free]
  BY DEF Restart
<1>2. NoBatch \in Batch /\ Free \in Hand
  BY EmptySeq DEF NoBatch, Batch, Free, Hand, Steps
<1>3. SolarTyped' /\ HandsTyped'
  BY <1>1, <1>2, EmptySeq DEF FlushInv, SolarTyped, Posted, HandsTyped
<1>4. HandsSound' /\ BatchesFlushed' /\ PendingAccounted'
  BY <1>1 DEF HandsSound, Free, BatchesFlushed, BatchHasTimer, NoBatch, StopFlushes, PendingAccounted
<1> QED
  BY <1>3, <1>4 DEF FlushInv

-----------------------------------------------------------------------------
THEOREM StepFlush == FlushInv /\ [Next]_vars => FlushInv'
<1> SUFFICES ASSUME FlushInv, [Next]_vars PROVE FlushInv'
  OBVIOUS
<1>1. CASE UNCHANGED vars
  <2>1. UNCHANGED <<posted, socket, replay, batch, armed, fired, flusher, handled, lost, stop>>
    BY <1>1 DEF vars, linkVars, batchVars, fates
  <2>2. SolarTyped'
    BY <2>1 DEF FlushInv, SolarTyped, Posted
  <2> QED
    BY <2>1, <2>2, StillHands
<1>2. CASE Next
  <2>1. stop.at # "closed"
    BY <1>2 DEF Next
  <2>2. CASE Loop
    BY <2>2, LinkKeeps, RoomKeeps, ReplayKeeps, PacketKeeps DEF Loop
  <2>3. ASSUME NEW r \in Rooms, UserPosts(r) \/ HistoryFails(r) \/ Fire(r) \/ Flush(r) \/ FlushAll(r)
        PROVE  FlushInv'
    BY <2>1, <2>3, RoomKeeps, TimerKeeps, FlushKeeps, FlushAllKeeps DEF Flush
  <2>4. ASSUME NEW f \in Goroutines, Handle(f) \/ SendBotMessage(f) \/ RunFails(f)
        PROVE  FlushInv'
    BY <2>1, <2>4, HandleKeeps
  <2>5. CASE Cut \/ Stop \/ StopLinks \/ Restart
    BY <2>5, LinkKeeps, StopKeeps, StopLinksKeeps, RestartKeeps
  <2> QED
    BY <1>2, <2>2, <2>3, <2>4, <2>5 DEF Next
<1> QED
  BY <1>1, <1>2

-----------------------------------------------------------------------------
\* For any rooms, messages, timers, goroutines, restarts and broken
\* connections: a batch always has the timer that flushes it, and what waited
\* in a batch when the process was stopped is handled, lost in a batch that
\* failed, or with a goroutine whose timer took it first.
THEOREM SpecBatchesFlushed == Spec => []BatchesFlushed
<1>1. FlushInv => BatchesFlushed
  BY DEF FlushInv
<1> QED
  BY <1>1, InitFlush, StepFlush, PTL DEF Spec

-----------------------------------------------------------------------------
(* How often a message is held.                                            *)

LEMMA Disjoint ==
    ASSUME NEW S, NEW T, IsFiniteSet(S), IsFiniteSet(T), S \cap T = {}
    PROVE  IsFiniteSet(S \cup T) /\ Cardinality(S \cup T) = Cardinality(S) + Cardinality(T)
<1>1. /\ IsFiniteSet(S \cup T)
      /\ Cardinality(S \cup T) = Cardinality(S) + Cardinality(T) - Cardinality(S \cap T)
  BY FS_Union
<1>2. Cardinality(S \cap T) = 0 /\ Cardinality(S) \in Nat /\ Cardinality(T) \in Nat
  BY FS_EmptySet, FS_CardinalityType
<1> QED
  BY <1>1, <1>2

LEMMA SpotsCounted ==
    ASSUME NEW s \in Seq(Ids), NEW i, NEW h
    PROVE  /\ IsFiniteSet(Spots(i, s)) /\ Copies(i, s) \in Nat
           /\ IsFiniteSet({h} \X Spots(i, s))
           /\ Cardinality({h} \X Spots(i, s)) = Copies(i, s)
<1>1. IsFiniteSet(Spots(i, s))
  <2>1. Len(s) \in Nat /\ 1 \in Int
    BY LenProperties
  <2>2. IsFiniteSet(1..Len(s))
    BY <2>1, FS_Interval
  <2> QED
    BY <2>2, FS_Subset DEF Spots
<1>2. IsFiniteSet({h}) /\ Cardinality({h}) = 1
  BY FS_Singleton, Zenon
<1>3. Copies(i, s) \in Nat
  BY <1>1, FS_CardinalityType DEF Copies
<1>4. /\ IsFiniteSet({h} \X Spots(i, s))
      /\ Cardinality({h} \X Spots(i, s)) = Cardinality({h}) * Cardinality(Spots(i, s))
  BY <1>1, <1>2, FS_Product, Zenon
<1> QED
  BY <1>1, <1>2, <1>3, <1>4 DEF Copies

\* Of the holders in S only h changes what it holds.
OnlyHolder(S, h, old, new) ==
    /\ h \in S /\ DOMAIN old = S /\ DOMAIN new = S
    /\ old[h].items \in Seq(Ids) /\ new[h].items \in Seq(Ids)
    /\ \A g \in S : g # h => new[g].items = old[g].items

Recounted(i, h, old, new) ==
    /\ IsFiniteSet(Held(i, new))
    /\ Cardinality(Held(i, new)) + Copies(i, old[h].items)
         = Cardinality(Held(i, old)) + Copies(i, new[h].items)

\* A holder that takes or lets go of a batch changes the count by what it holds.
LEMMA HeldByOther ==
    ASSUME NEW i, NEW S, NEW h, NEW old, NEW new,
           OnlyHolder(S, h, old, new), IsFiniteSet(Held(i, old))
    PROVE  Recounted(i, h, old, new)
<1> USE DEF OnlyHolder
<1> DEFINE Part(holders) == {h} \X Spots(i, holders[h].items)
           Rest == UNION {{g} \X Spots(i, old[g].items) : g \in S \ {h}}
<1>1. Held(i, old) = Rest \cup Part(old)
  BY DEF Held
<1>2. Held(i, new) = Rest \cup Part(new)
  BY DEF Held
<1>3. Rest \cap Part(old) = {} /\ Rest \cap Part(new) = {}
  OBVIOUS
<1>4. IsFiniteSet(Part(old)) /\ Cardinality(Part(old)) = Copies(i, old[h].items)
  BY SpotsCounted
<1>5. IsFiniteSet(Part(new)) /\ Cardinality(Part(new)) = Copies(i, new[h].items)
  BY SpotsCounted
<1> HIDE DEF Part, Rest
<1>6. IsFiniteSet(Rest)
  <2>1. Rest \subseteq Held(i, old)
    BY <1>1
  <2> QED
    BY <2>1, FS_Subset
<1>7. Cardinality(Held(i, old)) = Cardinality(Rest) + Cardinality(Part(old))
  BY <1>1, <1>3, <1>4, <1>6, Disjoint
<1>8. /\ IsFiniteSet(Held(i, new))
      /\ Cardinality(Held(i, new)) = Cardinality(Rest) + Cardinality(Part(new))
  BY <1>2, <1>3, <1>5, <1>6, Disjoint
<1>9. Cardinality(Rest) \in Nat /\ Cardinality(Part(old)) \in Nat /\ Cardinality(Part(new)) \in Nat
  BY <1>4, <1>5, <1>6, FS_CardinalityType
<1> QED
  BY <1>4, <1>5, <1>7, <1>8, <1>9 DEF Recounted

LEMMA HeldAlike ==
    ASSUME NEW i, NEW old, NEW new, DOMAIN new = DOMAIN old,
           \A g \in DOMAIN old : new[g].items = old[g].items
    PROVE  Held(i, new) = Held(i, old)
BY DEF Held

LEMMA HeldNowhere ==
    ASSUME NEW i, NEW holders, \A h \in DOMAIN holders : holders[h].items = <<>>
    PROVE  Held(i, holders) = {} /\ IsFiniteSet(Held(i, holders)) /\ Cardinality(Held(i, holders)) = 0
<1>1. Spots(i, <<>>) = {}
  BY DEF Spots
<1>2. Held(i, holders) = {}
  BY <1>1 DEF Held
<1> QED
  BY <1>2, FS_EmptySet

LEMMA CopiesOfAppend ==
    ASSUME NEW s \in Seq(Ids), NEW i \in Ids, NEW m \in Ids
    PROVE  Copies(i, Append(s, m)) = Copies(i, s) + (IF i = m THEN 1 ELSE 0)
<1> DEFINE t == Append(s, m)
<1>1. Len(s) \in Nat
  BY LenProperties
<1>2. /\ t \in Seq(Ids) /\ Len(t) = Len(s) + 1 /\ t[Len(s) + 1] = m
      /\ \A k \in 1..Len(s) : t[k] = s[k]
  OBVIOUS
<1>3. 1..Len(t) = 1..Len(s) \cup {Len(s) + 1} /\ Len(s) + 1 \notin 1..Len(s)
  BY <1>1, <1>2
<1>4. CASE i = m
  <2>1. Spots(i, t) = Spots(i, s) \cup {Len(s) + 1} /\ Len(s) + 1 \notin Spots(i, s)
    BY <1>2, <1>3, <1>4 DEF Spots
  <2>2. IsFiniteSet(Spots(i, s))
    BY SpotsCounted
  <2>3. Cardinality(Spots(i, t)) = Cardinality(Spots(i, s)) + 1
    BY <2>1, <2>2, FS_AddElement
  <2> QED
    BY <1>4, <2>3 DEF Copies
<1>5. CASE i # m
  <2>1. Spots(i, t) = Spots(i, s)
    BY <1>2, <1>3, <1>5 DEF Spots
  <2>2. Copies(i, s) \in Nat
    BY SpotsCounted
  <2> QED
    BY <1>5, <2>1, <2>2 DEF Copies
<1> QED
  BY <1>4, <1>5

-----------------------------------------------------------------------------
(* No message is multiplied: a message is held and was handled at most as  *)
(* often as it was taken.  It is counted for the messages to come as well. *)

Delivered(i) ==
    /\ IsFiniteSet(Held(i, batch)) /\ IsFiniteSet(Held(i, flusher))
    /\ handled[i] + Waiting(i) <= taken[i]

DeliveredInv == taken \in [Ids -> Nat] /\ \A i \in Ids : Delivered(i)

LEMMA DeliveredInit == Init => DeliveredInv
<1> SUFFICES ASSUME Init PROVE DeliveredInv
  OBVIOUS
<1>1. (\A r \in DOMAIN batch : batch[r].items = <<>>) /\ (\A f \in DOMAIN flusher : flusher[f].items = <<>>)
  BY DEF Init, NoBatch, Free
<1>2. taken = [i \in Ids |-> 0] /\ handled = [i \in Ids |-> 0]
  BY DEF Init
<1>3. ASSUME NEW i \in Ids PROVE Delivered(i)
  BY <1>1, <1>2, HeldNowhere DEF Delivered, Waiting
<1> QED
  BY <1>2, <1>3 DEF DeliveredInv

LEMMA SizesTyped ==
    ASSUME FlushInv, DeliveredInv, NEW i \in Ids
    PROVE  /\ handled[i] \in Nat /\ taken[i] \in Nat
           /\ Cardinality(Held(i, batch)) \in Nat /\ Cardinality(Held(i, flusher)) \in Nat
           /\ \A r \in Rooms : batch[r].items \in Seq(Ids)
           /\ \A f \in Goroutines : flusher[f].items \in Seq(Ids)
BY FS_CardinalityType DEF FlushInv, HandsTyped, Batch, Hand, DeliveredInv, Delivered

LEMMA DeliveredStill ==
    ASSUME FlushInv, DeliveredInv, UNCHANGED <<batch, handled, taken>>,
           DOMAIN flusher' = DOMAIN flusher,
           \A f \in DOMAIN flusher : flusher'[f].items = flusher[f].items
    PROVE  DeliveredInv'
<1>1. ASSUME NEW i \in Ids PROVE Held(i, flusher') = Held(i, flusher)
  BY HeldAlike
<1>2. ASSUME NEW i \in Ids PROVE Delivered(i)'
  BY <1>1, <1>2 DEF DeliveredInv, Delivered, Waiting
<1> QED
  BY <1>2 DEF DeliveredInv

LEMMA DeliveredEnqueue ==
    ASSUME FlushInv, DeliveredInv, NEW m \in Posted, Enqueue(m), UNCHANGED <<flusher, handled>>
    PROVE  DeliveredInv'
<1> DEFINE room == RoomOf(m)
<1>1. m \in Ids /\ room \in Rooms
  BY PostedTyped DEF FlushInv
<1>2. /\ batch' = [batch EXCEPT ![room] = Enqueued(batch[room], m)]
      /\ taken' = [taken EXCEPT ![m] = @ + 1]
  BY DEF Enqueue
<1>3. DOMAIN batch = Rooms /\ DOMAIN batch' = Rooms
  BY <1>2 DEF FlushInv, HandsTyped
<1>4. /\ batch'[room].items = Append(batch[room].items, m)
      /\ \A g \in Rooms : g # room => batch'[g].items = batch[g].items
      /\ batch[room].items \in Seq(Ids)
  BY <1>1, <1>2, <1>3 DEF Enqueued, FlushInv, HandsTyped, Batch
<1>5. taken' \in [Ids -> Nat]
  BY <1>1, <1>2 DEF DeliveredInv
<1> HIDE DEF room
<1>6. ASSUME NEW i \in Ids PROVE Delivered(i)'
  <2>1. batch'[room].items \in Seq(Ids)
    BY <1>1, <1>4
  <2>2. /\ IsFiniteSet(Held(i, batch'))
        /\ Cardinality(Held(i, batch')) + Copies(i, batch[room].items)
             = Cardinality(Held(i, batch)) + Copies(i, batch'[room].items)
    <3>1. IsFiniteSet(Held(i, batch))
      BY <1>6 DEF DeliveredInv, Delivered
    <3>2. OnlyHolder(Rooms, room, batch, batch')
      BY <1>1, <1>3, <1>4, <2>1 DEF OnlyHolder
    <3> QED
      BY <3>1, <3>2, HeldByOther DEF Recounted
  <2>3. Copies(i, batch'[room].items) = Copies(i, batch[room].items) + (IF i = m THEN 1 ELSE 0)
    BY <1>1, <1>4, <1>6, CopiesOfAppend
  <2>4. Copies(i, batch[room].items) \in Nat /\ Cardinality(Held(i, batch')) \in Nat
    BY <1>4, <2>2, SpotsCounted, FS_CardinalityType
  <2>5. taken'[i] = taken[i] + (IF i = m THEN 1 ELSE 0)
    BY <1>1, <1>2, <1>6 DEF DeliveredInv
  <2>6. handled[i] + (Cardinality(Held(i, batch)) + Cardinality(Held(i, flusher))) <= taken[i]
    BY <1>6 DEF DeliveredInv, Delivered, Waiting
  <2>7. handled[i] + (Cardinality(Held(i, batch')) + Cardinality(Held(i, flusher))) <= taken'[i]
    BY <1>6, <2>2, <2>3, <2>4, <2>5, <2>6, SizesTyped
  <2> QED
    BY <1>6, <2>2, <2>7 DEF DeliveredInv, Delivered, Waiting
<1> QED
  BY <1>5, <1>6 DEF DeliveredInv

LEMMA DeliveredTake ==
    ASSUME FlushInv, DeliveredInv, NEW r \in Rooms, NEW f \in Goroutines,
           flusher[f].at = "free", Taken(r),
           flusher' = [flusher EXCEPT ![f] = [at |-> "binding", room |-> r, items |-> batch[r].items]],
           UNCHANGED <<handled, taken>>
    PROVE  DeliveredInv'
<1>1. /\ DOMAIN batch = Rooms /\ DOMAIN batch' = Rooms
      /\ DOMAIN flusher = Goroutines /\ DOMAIN flusher' = Goroutines
  BY DEF FlushInv, HandsTyped, Taken
<1>2. /\ batch'[r].items = <<>> /\ \A g \in Rooms : g # r => batch'[g].items = batch[g].items
      /\ flusher'[f].items = batch[r].items
      /\ \A g \in Goroutines : g # f => flusher'[g].items = flusher[g].items
      /\ flusher[f].items = <<>>
  BY <1>1 DEF Taken, NoBatch, FlushInv, HandsSound
<1>3. batch[r].items \in Seq(Ids) /\ <<>> \in Seq(Ids)
  BY EmptySeq DEF FlushInv, HandsTyped, Batch
<1>4. ASSUME NEW i \in Ids PROVE Delivered(i)'
  <2>1. IsFiniteSet(Held(i, batch)) /\ IsFiniteSet(Held(i, flusher))
    BY <1>4 DEF DeliveredInv, Delivered
  <2>2. /\ IsFiniteSet(Held(i, batch'))
        /\ Cardinality(Held(i, batch')) + Copies(i, batch[r].items)
             = Cardinality(Held(i, batch)) + Copies(i, <<>>)
    <3>1. OnlyHolder(Rooms, r, batch, batch')
      BY <1>1, <1>2, <1>3 DEF OnlyHolder
    <3>2. Recounted(i, r, batch, batch')
      BY <2>1, <3>1, HeldByOther
    <3> QED
      BY <1>2, <3>2 DEF Recounted
  <2>3. /\ IsFiniteSet(Held(i, flusher'))
        /\ Cardinality(Held(i, flusher')) + Copies(i, <<>>)
             = Cardinality(Held(i, flusher)) + Copies(i, batch[r].items)
    <3>1. OnlyHolder(Goroutines, f, flusher, flusher')
      BY <1>1, <1>2, <1>3 DEF OnlyHolder
    <3>2. Recounted(i, f, flusher, flusher')
      BY <2>1, <3>1, HeldByOther
    <3> QED
      BY <1>2, <3>2 DEF Recounted
  <2>4. /\ Copies(i, batch[r].items) \in Nat /\ Copies(i, <<>>) \in Nat
        /\ Cardinality(Held(i, batch')) \in Nat /\ Cardinality(Held(i, flusher')) \in Nat
    BY <1>3, <2>2, <2>3, SpotsCounted, FS_CardinalityType
  <2>5. handled[i] + (Cardinality(Held(i, batch)) + Cardinality(Held(i, flusher))) <= taken[i]
    BY <1>4 DEF DeliveredInv, Delivered, Waiting
  <2>6. /\ handled[i] \in Nat /\ taken[i] \in Nat
        /\ Cardinality(Held(i, batch)) \in Nat /\ Cardinality(Held(i, flusher)) \in Nat
    BY <1>4, SizesTyped
  <2>7. handled[i] + (Cardinality(Held(i, batch')) + Cardinality(Held(i, flusher'))) <= taken[i]
    BY <2>2, <2>3, <2>4, <2>5, <2>6
  <2> QED
    BY <2>2, <2>3, <2>7 DEF Delivered, Waiting
<1> QED
  BY <1>4 DEF DeliveredInv

\* A hand that is emptied has handled each of its copies at most once.
LEMMA DeliveredLetGo ==
    ASSUME FlushInv, DeliveredInv, NEW f \in Goroutines,
           flusher' = [flusher EXCEPT ![f] = Free], UNCHANGED <<batch, taken>>,
           \A i \in Ids : \/ handled'[i] = handled[i]
                          \/ handled'[i] = handled[i] + Copies(i, flusher[f].items)
    PROVE  DeliveredInv'
<1>1. DOMAIN flusher = Goroutines /\ DOMAIN flusher' = Goroutines
  BY DEF FlushInv, HandsTyped
<1>2. /\ flusher'[f].items = <<>>
      /\ \A g \in Goroutines : g # f => flusher'[g].items = flusher[g].items
  BY <1>1 DEF Free
<1>3. flusher[f].items \in Seq(Ids) /\ <<>> \in Seq(Ids)
  BY EmptySeq DEF FlushInv, HandsTyped, Hand
<1>4. ASSUME NEW i \in Ids PROVE Delivered(i)'
  <2>1. IsFiniteSet(Held(i, batch)) /\ IsFiniteSet(Held(i, flusher))
    BY <1>4 DEF DeliveredInv, Delivered
  <2>2. /\ IsFiniteSet(Held(i, flusher'))
        /\ Cardinality(Held(i, flusher')) + Copies(i, flusher[f].items)
             = Cardinality(Held(i, flusher)) + Copies(i, <<>>)
    <3>1. OnlyHolder(Goroutines, f, flusher, flusher')
      BY <1>1, <1>2, <1>3 DEF OnlyHolder
    <3>2. Recounted(i, f, flusher, flusher')
      BY <2>1, <3>1, HeldByOther
    <3> QED
      BY <1>2, <3>2 DEF Recounted
  <2>3. Copies(i, <<>>) = 0
    <3>1. Spots(i, <<>>) = {}
      BY DEF Spots
    <3> QED
      BY <3>1, FS_EmptySet DEF Copies
  <2>4. Copies(i, flusher[f].items) \in Nat /\ Cardinality(Held(i, flusher')) \in Nat
    BY <1>3, <2>2, SpotsCounted, FS_CardinalityType
  <2>5. handled[i] + (Cardinality(Held(i, batch)) + Cardinality(Held(i, flusher))) <= taken[i]
    BY <1>4 DEF DeliveredInv, Delivered, Waiting
  <2>6. handled'[i] + (Cardinality(Held(i, batch)) + Cardinality(Held(i, flusher'))) <= taken[i]
    BY <1>4, <2>2, <2>3, <2>4, <2>5, SizesTyped
  <2> QED
    BY <2>1, <2>2, <2>6 DEF Delivered, Waiting
<1> QED
  BY <1>4 DEF DeliveredInv

LEMMA DeliveredLoop ==
    ASSUME FlushInv, DeliveredInv, ReplayMessage \/ HandlePacket
    PROVE  DeliveredInv'
<1>1. PICK m \in Posted : (IF IsBot(m) THEN Ignore ELSE Enqueue(m)) /\ UNCHANGED <<flusher, handled>>
  <2>1. CASE ReplayMessage
    <3>1. replay \subseteq Posted
      BY DEF FlushInv, SolarTyped
    <3> QED
      BY <2>1, <3>1 DEF ReplayMessage
  <2>2. CASE HandlePacket
    <3>1. Head(socket) \in Posted
      BY <2>2, HeadTailProperties DEF FlushInv, SolarTyped, HandlePacket
    <3> QED
      BY <2>2, <3>1 DEF HandlePacket
  <2> QED
    BY <2>1, <2>2
<1>2. CASE Ignore
  BY <1>1, <1>2, DeliveredStill DEF Ignore, batchVars
<1>3. CASE Enqueue(m)
  BY <1>1, <1>3, DeliveredEnqueue
<1> QED
  BY <1>1, <1>2, <1>3

LEMMA DeliveredHandle ==
    ASSUME FlushInv, DeliveredInv, NEW f \in Goroutines,
           Handle(f) \/ SendBotMessage(f) \/ RunFails(f)
    PROVE  DeliveredInv'
<1>1. ASSUME NEW step, At(f, step), UNCHANGED <<batch, handled, taken>> PROVE DeliveredInv'
  <2>1. /\ DOMAIN flusher' = DOMAIN flusher
        /\ \A g \in DOMAIN flusher : flusher'[g].items = flusher[g].items
    BY <1>1 DEF FlushInv, HandsTyped, Hand, At
  <2> QED
    BY <1>1, <2>1, DeliveredStill
<1>2. ASSUME Lose(f), UNCHANGED <<batch, handled, taken>> PROVE DeliveredInv'
  BY <1>2, DeliveredLetGo DEF Lose
<1>3. CASE FindBinding(f)
  BY <1>1, <1>3 DEF FindBinding, batchVars, fates
<1>4. CASE CreateBinding(f)
  BY <1>1, <1>2, <1>4 DEF CreateBinding, batchVars
<1>5. CASE BindSent(f) \/ SendBotMessage(f)
  BY <1>1, <1>5 DEF BindSent, SendBotMessage, batchVars, fates
<1>6. CASE RunEnds(f)
  <2>1. /\ flusher' = [flusher EXCEPT ![f] = Free] /\ UNCHANGED <<batch, taken>>
        /\ handled' = [i \in Ids |-> handled[i] + Copies(i, flusher[f].items)]
    BY <1>6 DEF RunEnds, batchVars
  <2> QED
    BY <2>1, DeliveredLetGo
<1>7. CASE RunFails(f)
  BY <1>2, <1>7 DEF RunFails, batchVars
<1> QED
  BY <1>3, <1>4, <1>5, <1>6, <1>7 DEF Handle

LEMMA DeliveredRestart ==
    ASSUME FlushInv, DeliveredInv, Restart
    PROVE  DeliveredInv'
<1>1. (\A r \in DOMAIN batch' : batch'[r].items = <<>>) /\ (\A f \in DOMAIN flusher' : flusher'[f].items = <<>>)
  BY DEF Restart, NoBatch, Free
<1>2. UNCHANGED <<handled, taken>>
  BY DEF Restart
<1>3. ASSUME NEW i \in Ids PROVE Delivered(i)'
  <2>1. /\ IsFiniteSet(Held(i, batch')) /\ Cardinality(Held(i, batch')) = 0
        /\ IsFiniteSet(Held(i, flusher')) /\ Cardinality(Held(i, flusher')) = 0
    BY <1>1, HeldNowhere
  <2>2. handled[i] + (Cardinality(Held(i, batch)) + Cardinality(Held(i, flusher))) <= taken[i]
    BY <1>3 DEF DeliveredInv, Delivered, Waiting
  <2>3. handled[i] + (0 + 0) <= taken[i]
    BY <1>3, <2>2, SizesTyped
  <2> QED
    BY <1>2, <2>1, <2>3 DEF Delivered, Waiting
<1> QED
  BY <1>2, <1>3 DEF DeliveredInv

LEMMA DeliveredStep == FlushInv /\ DeliveredInv /\ [Next]_vars => DeliveredInv'
<1> SUFFICES ASSUME FlushInv, DeliveredInv, [Next]_vars PROVE DeliveredInv'
  OBVIOUS
<1>1. ASSUME UNCHANGED <<batch, flusher, handled, taken>> PROVE DeliveredInv'
  BY <1>1, DeliveredStill
<1>2. CASE Connect \/ EndCatchUp \/ Disconnect \/ Cut \/ Stop \/ StopLinks \/ UNCHANGED vars
  BY <1>1, <1>2 DEF Connect, EndCatchUp, Disconnect, Cut, Stop, StopLinks, vars, batchVars, fates
<1>3. ASSUME NEW r \in Rooms,
             ReadHistory(r) \/ UserPosts(r) \/ HistoryFails(r) \/ Fire(r) \/ Flush(r) \/ FlushAll(r)
      PROVE  DeliveredInv'
  <2>1. CASE ReadHistory(r) \/ UserPosts(r) \/ HistoryFails(r) \/ Fire(r)
    BY <1>1, <2>1 DEF ReadHistory, UserPosts, HistoryFails, Fire, batchVars, fates
  <2>2. ASSUME NEW q, FlushStale(r, q) PROVE DeliveredInv'
    BY <1>1, <2>2 DEF FlushStale, fates
  <2>3. ASSUME NEW q, NEW f \in Flushers, FlushBatch(r, q, f) PROVE DeliveredInv'
    BY <2>3, DeliveredTake DEF FlushBatch, Goroutines, fates
  <2>4. CASE FlushAll(r)
    BY <1>1, <2>4, DeliveredTake DEF FlushAll, MayFlush, TakeNow, Skip, Goroutines, batchVars, fates
  <2> QED
    BY <1>3, <2>1, <2>2, <2>3, <2>4 DEF Flush
<1>4. CASE ReplayMessage \/ HandlePacket
  BY <1>4, DeliveredLoop
<1>5. ASSUME NEW f \in Goroutines, Handle(f) \/ SendBotMessage(f) \/ RunFails(f) PROVE DeliveredInv'
  BY <1>5, DeliveredHandle
<1>6. CASE Restart
  BY <1>6, DeliveredRestart
<1> QED
  BY <1>2, <1>3, <1>4, <1>5, <1>6 DEF Next, Loop

\* Timers, stale flushes, messages that join a batch while it is flushed, stops
\* and restarts may lose a message: none of them multiplies it.  It waits and was
\* handled no more often than Solar delivered it (solar_debounce.go:32-115).
THEOREM SpecDeliveredOnce == Spec => []DeliveredOnce
<1>1. FlushInv /\ DeliveredInv => DeliveredOnce
  <2> SUFFICES ASSUME FlushInv, DeliveredInv, NEW i \in UserMessages
               PROVE  handled[i] + Waiting(i) <= taken[i]
    BY DEF DeliveredOnce
  <2>1. i \in Ids
    BY PostedTyped DEF FlushInv, UserMessages, Posted
  <2> QED
    BY <2>1 DEF DeliveredInv, Delivered
<1> QED
  BY <1>1, InitFlush, StepFlush, DeliveredInit, DeliveredStep, PTL DEF Spec

-----------------------------------------------------------------------------
(* No message is skipped by an agent that only listens.  The mark of a room *)
(* moves with the replay alone, and the replay holds every message between  *)
(* the mark and its own newest.  The argument counts neither the socket nor *)
(* the replay as a place a message may be: what waits there is not below    *)
(* the mark, unless it was taken once before.                               *)

Listens == \A i \in Posted : ~IsBot(i)
Below(i, mark) == mark # None /\ i <= mark

InSomeBatch(i) == \E r \in Rooms : i \in Elements(batch[r].items)
Reached(i) == handled[i] > 0 \/ i \in lost \/ InSomeBatch(i) \/ InAHand(i)

Replaying   == \A i \in replay : link = "catching up" /\ view[RoomOf(i)] = None
MarkPosted  == \A r \in Rooms : seen[r] # None => seen[r] <= Len(posted)
ViewIsMark  == \A r \in Rooms : view[r] # None => view[r] = seen[r]
ReplayWhole ==
    \A i \in replay :
        /\ ~Below(i, seen[RoomOf(i)])
        /\ \A j \in Posted :
             RoomOf(j) = RoomOf(i) /\ j <= i => j \in replay \/ Below(j, seen[RoomOf(j)])
MarkReached == \A i \in Posted : Below(i, seen[RoomOf(i)]) => Reached(i)

Marks ==
    /\ seen \in [Rooms -> Times] /\ view \in [Rooms -> Times]
    /\ Replaying /\ MarkPosted /\ ViewIsMark /\ ReplayWhole /\ MarkReached

SkipInv ==
    /\ faults \in [drops : Nat, crashes : Nat]
    /\ Listens /\ faults.crashes = 0 => Marks

LEMMA SkipInit == Init => SkipInv
<1> SUFFICES ASSUME Init PROVE SkipInv
  OBVIOUS
<1>1. faults \in [drops : Nat, crashes : Nat]
  BY DEF Init
<1>2. Len(posted) = 0 /\ Posted = {}
  BY DEF Init, Posted
<1>3. seen \in [Rooms -> Times] /\ view \in [Rooms -> Times]
  BY Bounds DEF Init, Times
<1>4. MarkPosted
  BY <1>2 DEF Init, MarkPosted
<1> QED
  BY <1>1, <1>2, <1>3, <1>4 DEF Init, SkipInv, Marks, Replaying, ViewIsMark, ReplayWhole, MarkReached

\* Steps that leave the history, the marks and the replay alone, and reach no
\* less than before.
LEMMA MarksStand ==
    ASSUME Marks, UNCHANGED <<posted, seen, view, replay>>,
           replay # {} => link' = link,
           \A i \in Ids : Reached(i) => Reached(i)', FlushInv
    PROVE  Marks'
<1>1. Posted \subseteq Ids
  BY PostedTyped DEF FlushInv
<1>2. Replaying' /\ MarkPosted' /\ ViewIsMark' /\ ReplayWhole'
  BY DEF Marks, Replaying, MarkPosted, ViewIsMark, ReplayWhole, Below, RoomOf, Posted
<1>3. MarkReached'
  BY <1>1 DEF Marks, MarkReached, Below, RoomOf, Posted
<1> QED
  BY <1>2, <1>3 DEF Marks

LEMMA ReachedStill ==
    ASSUME FlushInv, UNCHANGED <<batch, handled, lost>>,
           \A f \in Goroutines : flusher'[f].items = flusher[f].items, NEW i, Reached(i)
    PROVE  Reached(i)'
BY DEF Reached, InSomeBatch, InAHand

LEMMA ReachedEnqueue ==
    ASSUME FlushInv, NEW m \in Posted, Enqueue(m), UNCHANGED <<flusher, handled, lost>>
    PROVE  /\ \A i \in Ids : Reached(i) => Reached(i)'
           /\ Reached(m)'
<1> DEFINE room == RoomOf(m)
<1>1. m \in Ids /\ room \in Rooms
  BY PostedTyped DEF FlushInv
<1>2. batch[room].items \in Seq(Ids)
  BY <1>1 DEF FlushInv, HandsTyped, Batch
<1>3. /\ batch'[room].items = Append(batch[room].items, m)
      /\ \A r \in Rooms : r # room => batch'[r] = batch[r]
  BY <1>1 DEF Enqueue, Enqueued, FlushInv, HandsTyped
<1>4. m \in Elements(Append(batch[room].items, m))
  <2>1. Len(batch[room].items) \in Nat
    BY <1>2, LenProperties
  <2>2. /\ Len(Append(batch[room].items, m)) = Len(batch[room].items) + 1
        /\ Append(batch[room].items, m)[Len(batch[room].items) + 1] = m
    BY <1>1, <1>2
  <2> QED
    BY <2>1, <2>2 DEF Elements
<1>5. \A r \in Rooms : Elements(batch[r].items) \subseteq Elements(batch'[r].items)
  <2>1. Elements(batch[room].items) \subseteq Elements(Append(batch[room].items, m))
    BY <1>1, <1>2, ElementsOfAppend
  <2> QED
    BY <1>3, <2>1
<1> HIDE DEF room
<1>6. \A i \in Ids : Reached(i) => Reached(i)'
  BY <1>5 DEF Reached, InSomeBatch, InAHand
<1>7. Reached(m)'
  BY <1>1, <1>3, <1>4 DEF Reached, InSomeBatch
<1> QED
  BY <1>6, <1>7

LEMMA ReachedTake ==
    ASSUME FlushInv, NEW r \in Rooms, NEW f \in Goroutines,
           flusher[f].at = "free", Taken(r),
           flusher' = [flusher EXCEPT ![f] = [at |-> "binding", room |-> r, items |-> batch[r].items]],
           UNCHANGED <<handled, lost>>, NEW i, Reached(i)
    PROVE  Reached(i)'
<1>1. flusher[f].items = <<>> /\ Elements(<<>>) = {}
  BY ElementsOfNone DEF FlushInv, HandsSound
<1>2. /\ flusher'[f].items = batch[r].items
      /\ \A g \in Goroutines : g # f => flusher'[g] = flusher[g]
      /\ \A t \in Rooms : t # r => batch'[t] = batch[t]
  BY DEF FlushInv, HandsTyped, Taken
<1>3. InAHand(i) => InAHand(i)'
  BY <1>1, <1>2 DEF InAHand
<1>4. InSomeBatch(i) => InSomeBatch(i)' \/ InAHand(i)'
  BY <1>2 DEF InSomeBatch, InAHand
<1> QED
  BY <1>3, <1>4 DEF Reached

LEMMA ReachedLetGo ==
    ASSUME FlushInv, NEW f \in Goroutines, UNCHANGED batch,
           flusher' = [flusher EXCEPT ![f] = Free], lost \subseteq lost',
           \A i \in Ids : handled[i] > 0 => handled'[i] > 0,
           \A i \in Ids : i \in Elements(flusher[f].items) => handled'[i] > 0 \/ i \in lost',
           NEW i \in Ids, Reached(i)
    PROVE  Reached(i)'
<1>1. \A g \in Goroutines : g # f => flusher'[g] = flusher[g]
  BY DEF FlushInv, HandsTyped
<1>2. InAHand(i) => InAHand(i)' \/ i \in Elements(flusher[f].items)
  BY <1>1 DEF InAHand
<1> QED
  BY <1>2 DEF Reached, InSomeBatch

LEMMA MarksTracked ==
    ASSUME FlushInv, Marks, NEW r \in Rooms, TrackRoom(r),
           UNCHANGED <<posted, link, view, replay>>,
           \A i \in Ids : Reached(i) => Reached(i)'
    PROVE  Marks'
<1>1. CASE seen[r] # None
  <2>1. UNCHANGED seen
    BY <1>1 DEF TrackRoom, Marks
  <2> QED
    BY <2>1, MarksStand
<1>2. CASE seen[r] = None
  <2>1. seen' = [seen EXCEPT ![r] = 0] /\ view[r] = None
    BY <1>2 DEF TrackRoom, Marks, ViewIsMark
  <2>2. Len(posted) \in Nat /\ Posted \subseteq Ids /\ 0 \in Times
    BY PostedTyped, LenProperties, Bounds DEF FlushInv, SolarTyped, Times
  <2>3. seen' \in [Rooms -> Times] /\ (\A t \in Rooms : t # r => seen'[t] = seen[t]) /\ seen'[r] = 0
    BY <2>1, <2>2 DEF Marks
  <2>4. Replaying' /\ ViewIsMark'
    BY <2>1, <2>3 DEF Marks, Replaying, ViewIsMark, RoomOf
  <2>5. MarkPosted'
    BY <2>2, <2>3 DEF Marks, MarkPosted
  <2>6. \A j \in Posted : Below(j, seen'[RoomOf(j)]) <=> Below(j, seen[RoomOf(j)])
    <3>1. \A j \in Posted : RoomOf(j) \in Rooms /\ ~(j <= 0)
      BY <2>2, PostedTyped DEF FlushInv, Posted
    <3> QED
      BY <1>2, <2>3, <3>1 DEF Below
  <2>7. ReplayWhole'
    BY <2>6 DEF Marks, ReplayWhole, RoomOf, Posted, FlushInv, SolarTyped
  <2>8. MarkReached'
    BY <2>2, <2>6 DEF Marks, MarkReached, RoomOf, Posted
  <2> QED
    BY <2>3, <2>4, <2>5, <2>7, <2>8 DEF Marks
<1> QED
  BY <1>1, <1>2

LEMMA MarksHandle ==
    ASSUME FlushInv, Marks, NEW f \in Goroutines, Handle(f) \/ RunFails(f)
    PROVE  Marks'
<1>0. UNCHANGED <<posted, link, view, replay>>
  BY DEF Handle, RunFails, FindBinding, CreateBinding, BindSent, RunEnds, linkVars
<1>1. ASSUME NEW step, At(f, step), UNCHANGED <<batch, handled, lost>>, NEW i, Reached(i)
      PROVE  Reached(i)'
  <2>1. \A g \in Goroutines : flusher'[g].items = flusher[g].items
    BY <1>1 DEF FlushInv, HandsTyped, Hand, At
  <2> QED
    BY <1>1, <2>1, ReachedStill
<1>2. ASSUME Lose(f), UNCHANGED <<batch, handled>>, NEW i \in Ids, Reached(i)
      PROVE  Reached(i)'
  <2>1. /\ flusher' = [flusher EXCEPT ![f] = Free]
        /\ lost' = lost \cup Elements(flusher[f].items)
    BY <1>2 DEF Lose
  <2> QED
    BY <1>2, <2>1, ReachedLetGo
<1>3. ASSUME TrackRoom(flusher[f].room), flusher[f].at # "free", At(f, "running"),
             UNCHANGED <<batch, handled, lost>>
      PROVE  Marks'
  <2>1. flusher[f].room \in Rooms
    BY <1>3 DEF FlushInv, HandsSound
  <2> QED
    BY <1>0, <1>1, <1>3, <2>1, MarksTracked
<1>4. CASE FindBinding(f)
  <2>1. UNCHANGED <<batch, handled, lost>> /\ flusher[f].at # "free"
    BY <1>4 DEF FindBinding, batchVars, fates
  <2>2. \/ TrackRoom(flusher[f].room) /\ At(f, "running")
        \/ At(f, "creating") /\ UNCHANGED seen
    BY <1>4 DEF FindBinding
  <2> QED
    BY <1>0, <1>1, <1>3, <2>1, <2>2, MarksStand
<1>5. CASE CreateBinding(f)
  <2>1. UNCHANGED <<batch, handled>> /\ flusher[f].at # "free"
    BY <1>5 DEF CreateBinding, batchVars
  <2>2. \/ TrackRoom(flusher[f].room) /\ At(f, "running") /\ UNCHANGED lost
        \/ Lose(f) /\ UNCHANGED seen
    BY <1>5 DEF CreateBinding
  <2> QED
    BY <1>0, <1>2, <1>3, <2>1, <2>2, MarksStand
<1>6. CASE BindSent(f)
  <2>1. UNCHANGED <<batch, handled, lost, seen>> /\ At(f, "running")
    BY <1>6 DEF BindSent, batchVars, fates
  <2> QED
    BY <1>0, <1>1, <2>1, MarksStand
<1>7. CASE RunEnds(f)
  <2>1. /\ flusher' = [flusher EXCEPT ![f] = Free] /\ UNCHANGED <<batch, lost, seen>>
        /\ handled' = [i \in Ids |-> handled[i] + Copies(i, flusher[f].items)]
    BY <1>7 DEF RunEnds, batchVars
  <2>2. flusher[f].items \in Seq(Ids) /\ \A i \in Ids : handled[i] \in Nat
    BY DEF FlushInv, HandsTyped, Hand
  <2>3. \A i \in Ids : /\ handled[i] > 0 => handled'[i] > 0
                       /\ i \in Elements(flusher[f].items) => handled'[i] > 0
    BY <2>1, <2>2, CopiesCount
  <2>4. \A i \in Ids : Reached(i) => Reached(i)'
    BY <2>1, <2>3, ReachedLetGo
  <2> QED
    BY <1>0, <2>1, <2>4, MarksStand
<1>8. CASE RunFails(f)
  <2>1. UNCHANGED <<batch, handled, seen>> /\ Lose(f)
    BY <1>8 DEF RunFails, batchVars
  <2> QED
    BY <1>0, <1>2, <2>1, MarksStand
<1> QED
  BY <1>4, <1>5, <1>6, <1>7, <1>8 DEF Handle

\* The batch takes the message before its room is marked as seen up to it.
LEMMA MarksReplay ==
    ASSUME FlushInv, Marks, Listens, ReplayMessage
    PROVE  Marks'
<1>1. PICK m \in replay :
        /\ \A j \in replay : m <= j
        /\ IF IsBot(m) THEN Ignore ELSE Enqueue(m)
        /\ seen' = [seen EXCEPT ![RoomOf(m)] = m]
        /\ replay' = replay \ {m}
        /\ UNCHANGED <<posted, link, view, flusher, handled, lost>>
  BY DEF ReplayMessage
<1> DEFINE room == RoomOf(m)
<1>2. m \in Posted /\ replay \subseteq Posted
  BY DEF FlushInv, SolarTyped, Posted
<1>3. Enqueue(m)
  BY <1>1, <1>2 DEF Listens
<1>4. m \in Ids /\ room \in Rooms /\ Len(posted) \in Nat /\ Posted \subseteq Ids
  BY <1>2, PostedTyped, LenProperties DEF FlushInv, SolarTyped
<1>5. view[room] = None
  BY DEF Marks, Replaying
<1>6. /\ m \in Times /\ m # None
  BY <1>4, SolarInboundAssumption DEF Times, Ids
<1>7. seen' \in [Rooms -> Times] /\ (\A t \in Rooms : t # room => seen'[t] = seen[t]) /\ seen'[room] = m
  BY <1>1, <1>4, <1>6 DEF Marks
<1>8. (\A i \in Ids : Reached(i) => Reached(i)') /\ Reached(m)'
  BY <1>1, <1>2, <1>3, ReachedEnqueue
<1>9. Replaying' /\ MarkPosted' /\ ViewIsMark'
  <2>1. m <= Len(posted)
    BY <1>2 DEF Posted
  <2> QED
    BY <1>1, <1>5, <1>7, <2>1 DEF Marks, Replaying, MarkPosted, ViewIsMark, RoomOf
<1> HIDE DEF room
<1>10. \A j \in Posted : RoomOf(j) = room => (Below(j, seen'[RoomOf(j)]) <=> j <= m)
  BY <1>6, <1>7 DEF Below
<1>11. \A j \in Posted : RoomOf(j) # room => seen'[RoomOf(j)] = seen[RoomOf(j)]
  BY <1>7, PostedTyped DEF FlushInv
<1>12. \A j \in Posted : RoomOf(j) = room /\ Below(j, seen[RoomOf(j)]) => j <= m
  <2> SUFFICES ASSUME NEW j \in Posted, RoomOf(j) = room, seen[room] # None, j <= seen[room]
               PROVE  j <= m
    BY DEF Below
  <2>1. ~(m <= seen[room])
    BY DEF Marks, ReplayWhole, Below, room
  <2>2. seen[room] \in Nat
    BY <1>4 DEF Marks, Times
  <2> QED
    BY <1>4, <2>1, <2>2 DEF Ids
<1>13. ReplayWhole'
  <2>1. ASSUME NEW i \in replay' PROVE ~Below(i, seen'[RoomOf(i)])
    <3>1. i \in replay /\ i # m /\ m <= i /\ i \in Posted /\ i \in Ids
      BY <1>1, <1>2, <1>4, <2>1
    <3>2. ~Below(i, seen[RoomOf(i)])
      BY <3>1 DEF Marks, ReplayWhole
    <3> QED
      BY <1>4, <1>10, <1>11, <3>1, <3>2 DEF Ids
  <2>2. ASSUME NEW i \in replay', NEW j \in Posted, RoomOf(j) = RoomOf(i), j <= i
        PROVE  j \in replay' \/ Below(j, seen'[RoomOf(j)])
    <3>1. j \in replay \/ Below(j, seen[RoomOf(j)])
      BY <1>1, <2>2 DEF Marks, ReplayWhole
    <3>2. CASE RoomOf(j) = room
      <4>1. j = m => j <= m
        BY <1>4 DEF Ids
      <4> QED
        BY <1>1, <1>10, <1>12, <3>1, <3>2, <4>1
    <3>3. CASE RoomOf(j) # room
      BY <1>1, <1>11, <3>1, <3>3 DEF room
    <3> QED
      BY <3>2, <3>3
  <2> QED
    BY <1>1, <2>1, <2>2 DEF ReplayWhole, RoomOf, Posted
<1>14. MarkReached'
  <2> SUFFICES ASSUME NEW j \in Posted, Below(j, seen'[RoomOf(j)]) PROVE Reached(j)'
    BY <1>1 DEF MarkReached, RoomOf, Posted
  <2>1. CASE RoomOf(j) # room
    BY <1>4, <1>8, <1>11, <2>1 DEF Marks, MarkReached
  <2>2. CASE RoomOf(j) = room
    <3>1. j <= m
      BY <1>10, <2>2
    <3>2. j \in replay \/ Below(j, seen[RoomOf(j)])
      BY <2>2, <3>1 DEF Marks, ReplayWhole, room
    <3>3. j \in replay => j = m
      BY <1>1, <1>2, <1>4, <3>1 DEF Ids
    <3> QED
      BY <1>4, <1>8, <3>2, <3>3 DEF Marks, MarkReached
  <2> QED
    BY <2>1, <2>2
<1> QED
  BY <1>1, <1>7, <1>9, <1>13, <1>14 DEF Marks

LEMMA MarksRead ==
    ASSUME FlushInv, Marks, NEW r \in Rooms, ReadHistory(r) \/ HistoryFails(r)
    PROVE  Marks'
<1>1. /\ link = "catching up" /\ replay = {} /\ view[r] # None
      /\ view' = [view EXCEPT ![r] = None]
      /\ UNCHANGED <<posted, link, seen, batch, flusher, handled, lost>>
      /\ replay' = {} \/ replay' = Unread(r)
  BY DEF ReadHistory, HistoryFails, batchVars, fates
<1>2. view[r] = seen[r] /\ seen[r] \in Nat
  <2>1. view[r] # None
    BY DEF ReadHistory, HistoryFails
  <2>2. view[r] = seen[r] /\ seen[r] \in Times
    BY <2>1 DEF Marks, ViewIsMark
  <2> QED
    BY <2>1, <2>2 DEF Times
<1>3. view' \in [Rooms -> Times] /\ (\A t \in Rooms : t # r => view'[t] = view[t]) /\ view'[r] = None
  BY <1>1 DEF Marks, Times
<1>4. Replaying' /\ MarkPosted' /\ ViewIsMark'
  BY <1>1, <1>3 DEF Marks, Replaying, MarkPosted, ViewIsMark, Unread, RoomOf
<1>5. Len(posted) \in Nat
  BY LenProperties DEF FlushInv, SolarTyped
<1>6. ReplayWhole'
  <2> SUFFICES ASSUME NEW i \in Unread(r)
               PROVE  /\ ~Below(i, seen[RoomOf(i)])
                      /\ \A j \in Posted : RoomOf(j) = RoomOf(i) /\ j <= i
                           => j \in Unread(r) \/ Below(j, seen[RoomOf(j)])
    BY <1>1 DEF ReplayWhole, RoomOf, Posted, Unread
  <2>1. i \in Nat /\ i > view[r] /\ RoomOf(i) = r
    BY <1>5 DEF Unread
  <2>2. ~Below(i, seen[r])
    BY <1>2, <2>1 DEF Below
  <2>3. ASSUME NEW j \in Posted, RoomOf(j) = r, j \notin Unread(r) PROVE Below(j, seen[r])
    <3>1. j \in Nat /\ ~(j > view[r])
      BY <1>5, <2>3 DEF Unread, Posted
    <3>2. seen[r] # None
      BY <1>1, <1>2
    <3> QED
      BY <1>2, <3>1, <3>2 DEF Below
  <2> QED
    BY <2>1, <2>2, <2>3
<1>7. MarkReached'
  BY <1>1 DEF Marks, MarkReached, Reached, InSomeBatch, InAHand, RoomOf, Posted
<1> QED
  BY <1>1, <1>3, <1>4, <1>6, <1>7 DEF Marks

LEMMA MarksPost ==
    ASSUME FlushInv, Marks, NEW r \in Rooms, UserPosts(r)
    PROVE  Marks'
<1>1. /\ posted' = Append(posted, [room |-> r, bot |-> FALSE])
      /\ UNCHANGED <<link, view, replay, seen, batch, flusher, handled, lost>>
  BY DEF UserPosts, batchVars, fates
<1>2. Len(posted) \in Nat /\ replay \subseteq Posted
  BY LenProperties DEF FlushInv, SolarTyped
<1>3. Len(posted') = Len(posted) + 1 /\ posted'[Len(posted) + 1].room = r
  BY <1>1 DEF FlushInv, SolarTyped
<1>4. \A j \in Posted : posted'[j] = posted[j]
  BY <1>1 DEF FlushInv, SolarTyped, Posted
<1>5. \A j \in Posted' : j \in Posted \/ j = Len(posted) + 1
  BY <1>2, <1>3 DEF Posted
<1>6. \A t \in Rooms : seen[t] # None => seen[t] \in Nat /\ seen[t] <= Len(posted)
  BY DEF Marks, MarkPosted, Times
<1>7. Replaying' /\ ViewIsMark'
  BY <1>1, <1>2, <1>4 DEF Marks, Replaying, ViewIsMark, RoomOf
<1>8. MarkPosted'
  BY <1>1, <1>2, <1>3, <1>6 DEF MarkPosted
<1>9. ReplayWhole'
  <2>1. \A i \in replay : ~(Len(posted) + 1 <= i)
    BY <1>2 DEF Posted
  <2> QED
    BY <1>1, <1>2, <1>4, <1>5, <2>1 DEF Marks, ReplayWhole, RoomOf
<1>10. MarkReached'
  <2> SUFFICES ASSUME NEW j \in Posted', Below(j, seen[posted'[j].room])
               PROVE  Reached(j)
    BY <1>1 DEF MarkReached, Reached, InSomeBatch, InAHand, RoomOf
  <2>1. j \in Posted
    BY <1>2, <1>3, <1>5, <1>6 DEF Below
  <2> QED
    BY <1>4, <2>1 DEF Marks, MarkReached, RoomOf
<1> QED
  BY <1>1, <1>7, <1>8, <1>9, <1>10 DEF Marks

LEMMA MarksConnect ==
    ASSUME FlushInv, Marks, Connect
    PROVE  Marks'
<1>1. /\ link = "down" /\ link' = "catching up" /\ view' = seen
      /\ UNCHANGED <<posted, replay, seen, batch, flusher, handled, lost>>
  BY DEF Connect, batchVars, fates
<1>2. replay = {}
  BY <1>1 DEF Marks, Replaying
<1> QED
  BY <1>1, <1>2 DEF Marks, Replaying, MarkPosted, ViewIsMark, ReplayWhole, MarkReached,
     Reached, InSomeBatch, InAHand, RoomOf, Posted, Below

LEMMA MarksPacket ==
    ASSUME FlushInv, Marks, Listens, HandlePacket
    PROVE  Marks'
<1>1. Head(socket) \in Posted
  BY HeadTailProperties DEF FlushInv, SolarTyped, HandlePacket
<1>2. Enqueue(Head(socket)) /\ UNCHANGED <<posted, link, seen, view, replay, flusher, handled, lost>>
  BY <1>1 DEF HandlePacket, Listens
<1> QED
  BY <1>1, <1>2, ReachedEnqueue, MarksStand

LEMMA SkipStep == FlushInv /\ SkipInv /\ [Next]_vars => SkipInv'
<1> SUFFICES ASSUME FlushInv, SkipInv, [Next]_vars PROVE SkipInv'
  OBVIOUS
<1> DEFINE Quiet == UNCHANGED <<faults, posted>>
           Posts == UNCHANGED faults /\ \E m \in [room : Rooms, bot : BOOLEAN] : posted' = Append(posted, m)
           Ends  == faults' = [faults EXCEPT !.crashes = @ + 1] /\ UNCHANGED posted
           Cuts  == faults' = [faults EXCEPT !.drops = @ + 1] /\ UNCHANGED posted
<1>1. Quiet \/ Posts \/ Ends \/ Cuts
  <2>1. ASSUME Stop \/ Restart PROVE Ends
    BY <2>1 DEF Stop, Restart
  <2>2. ASSUME UNCHANGED vars PROVE Quiet
    BY <2>2 DEF vars
  <2>3. ASSUME Loop \/ StopLinks PROVE Quiet
    BY <2>3 DEF Loop, Connect, ReplayMessage, EndCatchUp, HandlePacket, Disconnect,
       ReadHistory, StopLinks
  <2>4. ASSUME NEW r \in Rooms, HistoryFails(r) \/ Fire(r) \/ Flush(r) \/ FlushAll(r)
        PROVE  Quiet
    BY <2>4 DEF HistoryFails, Fire, Flush, FlushStale, FlushBatch, FlushAll, TakeNow, Skip, solarVars
  <2>5. ASSUME NEW r \in Rooms, UserPosts(r) PROVE Posts
    BY <2>5 DEF UserPosts
  <2>6. ASSUME NEW f \in Goroutines, Handle(f) \/ RunFails(f) PROVE Quiet
    BY <2>6 DEF Handle, FindBinding, CreateBinding, BindSent, RunEnds, RunFails
  <2>7. ASSUME NEW f \in Goroutines, SendBotMessage(f) PROVE Posts
    <3>1. flusher[f].room \in Rooms
      BY <2>7 DEF FlushInv, HandsSound, SendBotMessage
    <3> QED
      BY <2>7, <3>1 DEF SendBotMessage
  <2>8. ASSUME Cut PROVE Cuts
    BY <2>8 DEF Cut
  <2> HIDE DEF Quiet, Posts, Ends, Cuts
  <2> QED
    BY <2>1, <2>2, <2>3, <2>4, <2>5, <2>6, <2>7, <2>8 DEF Next
<1>2. /\ faults' \in [drops : Nat, crashes : Nat]
      /\ faults'.crashes = faults.crashes \/ faults'.crashes = faults.crashes + 1
      /\ faults.crashes \in Nat
  BY <1>1 DEF SkipInv
<1>3. Posted \subseteq Posted' /\ \A j \in Posted : posted'[j] = posted[j]
  <2>1. posted' = posted \/ \E m \in [room : Rooms, bot : BOOLEAN] : posted' = Append(posted, m)
    BY <1>1
  <2>2. posted \in Seq([room : Rooms, bot : BOOLEAN])
    BY DEF FlushInv, SolarTyped
  <2>3. ASSUME NEW m \in [room : Rooms, bot : BOOLEAN], posted' = Append(posted, m)
        PROVE  Len(posted') = Len(posted) + 1 /\ \A j \in Posted : posted'[j] = posted[j]
    BY <2>2, <2>3 DEF Posted
  <2>4. Len(posted) \in Nat
    BY <2>2, LenProperties
  <2> QED
    BY <2>1, <2>3, <2>4 DEF Posted
<1> HIDE DEF Quiet, Posts, Ends, Cuts
<1> SUFFICES ASSUME Listens', faults'.crashes = 0 PROVE Marks'
  BY <1>2 DEF SkipInv
<1>4. Marks /\ Listens /\ ~Stop /\ ~Restart
  <2>1. faults.crashes = 0
    BY <1>2
  <2>2. ~Stop /\ ~Restart
    <3>1. faults'.crashes # faults.crashes + 1
      BY <2>1
    <3>2. Stop \/ Restart => faults'.crashes = faults.crashes + 1
      BY DEF Stop, Restart, SkipInv
    <3> QED
      BY <3>1, <3>2
  <2>3. Listens
    BY <1>3 DEF Listens, IsBot
  <2> QED
    BY <2>1, <2>2, <2>3 DEF SkipInv
<1>5. ASSUME UNCHANGED <<posted, seen, view, replay, batch, flusher, handled, lost>>,
             replay # {} => link' = link
      PROVE  Marks'
  BY <1>4, <1>5, MarksStand DEF Reached, InSomeBatch, InAHand
<1>6. CASE EndCatchUp \/ Disconnect \/ Cut \/ UNCHANGED vars
  BY <1>4, <1>5, <1>6 DEF EndCatchUp, Disconnect, Cut, Marks, Replaying, vars, linkVars, batchVars, fates
<1>7. CASE StopLinks
  <2>1. /\ view' = [r \in Rooms |-> None] /\ replay' = {}
        /\ UNCHANGED <<posted, seen, batch, flusher, handled, lost>>
    BY <1>7 DEF StopLinks, batchVars, fates
  <2> QED
    BY <1>4, <2>1 DEF Marks, Times, Replaying, MarkPosted, ViewIsMark, ReplayWhole, MarkReached,
       Reached, InSomeBatch, InAHand, RoomOf, Posted
<1>8. ASSUME NEW r \in Rooms, Fire(r) \/ Flush(r) \/ FlushAll(r) PROVE Marks'
  <2>1. CASE Fire(r)
    BY <1>5, <2>1 DEF Fire, solarVars, linkVars, fates
  <2>2. ASSUME NEW q, FlushStale(r, q) PROVE Marks'
    BY <1>5, <2>2 DEF FlushStale, solarVars, linkVars, fates
  <2>3. ASSUME NEW q, NEW f \in Flushers, FlushBatch(r, q, f) PROVE Marks'
    <3>1. UNCHANGED <<posted, link, seen, view, replay, handled, lost>> /\ f \in Goroutines
      BY <2>3 DEF FlushBatch, Goroutines, solarVars, linkVars, fates
    <3>2. \A i \in Ids : Reached(i) => Reached(i)'
      BY <2>3, <3>1, ReachedTake DEF FlushBatch
    <3> QED
      BY <1>4, <3>1, <3>2, MarksStand
  <2>4. CASE FlushAll(r)
    <3>1. UNCHANGED <<posted, link, seen, view, replay, handled, lost>> /\ Stopper \in Goroutines
      BY <2>4 DEF FlushAll, TakeNow, Skip, Goroutines, linkVars, fates
    <3>2. CASE Skip(r)
      BY <1>5, <3>1, <3>2 DEF Skip, batchVars
    <3>3. CASE TakeNow(r)
      <4>1. flusher[Stopper].at = "free"
        BY <2>4 DEF FlushAll, MayFlush
      <4>2. \A i \in Ids : Reached(i) => Reached(i)'
        BY <3>1, <3>3, <4>1, ReachedTake DEF TakeNow
      <4> QED
        BY <1>4, <3>1, <4>2, MarksStand
    <3> QED
      BY <2>4, <3>2, <3>3 DEF FlushAll
  <2> QED
    BY <1>8, <2>1, <2>2, <2>3, <2>4 DEF Flush
<1>9. ASSUME NEW f \in Goroutines, SendBotMessage(f) PROVE FALSE
  <2>1. posted' = Append(posted, [room |-> flusher[f].room, bot |-> TRUE])
    BY <1>9 DEF SendBotMessage
  <2>2. Len(posted') \in Posted' /\ posted'[Len(posted')].bot
    BY <2>1, LenProperties DEF FlushInv, SolarTyped, Posted
  <2> QED
    BY <2>2 DEF Listens, IsBot
<1> QED
  BY <1>4, <1>6, <1>7, <1>8, <1>9, MarksHandle, MarksReplay, MarksPacket, MarksConnect, MarksRead, MarksPost
  DEF Next, Loop

\* With an agent that only listens, no message of a room lies below the room's
\* mark without having been handled, being in a batch or hand, or having been in
\* a batch that failed: whatever breaks, or comes while a history is replayed, the
\* next catch-up reads again what was not reached (solar_network/manager.go).
THEOREM SpecNoneSkipped == Spec => []NoneSkipped
<1>1. FlushInv /\ SkipInv => NoneSkipped
  <2> SUFFICES ASSUME FlushInv, SkipInv, UserMessages = 1..Len(posted), faults.crashes = 0,
                      NEW i \in UserMessages, seen[RoomOf(i)] # None, i <= seen[RoomOf(i)]
               PROVE  handled[i] > 0 \/ i \in lost \cup InHand
    BY DEF NoneSkipped
  <2>1. Listens
    BY DEF Listens, UserMessages, Posted
  <2>2. Reached(i)
    BY <2>1 DEF SkipInv, Marks, MarkReached, Below, Posted
  <2>3. InSomeBatch(i) \/ InAHand(i) => i \in InHand
    <3> DEFINE Batched == UNION {Elements(batch[r].items) : r \in Rooms}
               Hands   == UNION {Elements(flusher[f].items) : f \in Goroutines}
               Coming  == {j \in 1..Len(posted) : view[RoomOf(j)] # None /\ j > view[RoomOf(j)]}
    <3>1. InHand = Elements(socket) \cup replay \cup Batched \cup Hands \cup Coming
      BY DEF InHand
    <3>2. (InSomeBatch(i) => i \in Batched) /\ (InAHand(i) => i \in Hands)
      BY DEF InSomeBatch, InAHand
    <3> HIDE DEF Batched, Hands, Coming
    <3> QED
      BY <3>1, <3>2
  <2> QED
    BY <2>2, <2>3 DEF Reached
<1> QED
  BY <1>1, InitFlush, StepFlush, SkipInit, SkipStep, PTL DEF Spec

=============================================================================
