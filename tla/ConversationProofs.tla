------------------------ MODULE ConversationProofs ------------------------
(***************************************************************************)
(* What holds of a conversation for any number of requests, tool rounds,   *)
(* groups and windows.  However requests overlap: no run is left running   *)
(* unless a fault took its last writes, and a prompt pairs every result    *)
(* with its call.  While requests do not overlap: a summary has passed     *)
(* over nothing that was said, what tools wrote into the row stays, the    *)
(* thread is not filed under a group that is gone, a prompt holds all that *)
(* stands behind the summary, results follow their calls in one row, and   *)
(* the conversation keeps the log ConversationLog promises.                *)
(***************************************************************************)
EXTENDS Conversation, FiniteSetTheorems, WellFoundedInduction, TLAPS

Labels == {"idle", "sequence", "create", "save", "start", "build",
           "count", "latest", "read", "summarized", "select", "loop",
           "model", "tools", "complete", "finish", "fail", "done"}

Storing == {"sequence", "create", "save"}

PromptRec == [window: Seq(Message), summary: SUBSET Message]

\* A round that goes on has calls to execute, and a request at rest no variables.
Sound(p, at, l) ==
    /\ at = "tools" \/ (at \in Storing /\ l.draft.role = "call") => l.pending # {}
    /\ at \in {"idle", "done"} => l = Fresh(p)

LocalsSound == \A p \in Procs : Sound(p, pc[p], local[p])

Bounded == \E b \in Nat : \A m \in messages : m.seq <= b

TypeInv == TypeOK /\ LocalsSound /\ IsFiniteSet(messages) /\ Bounded

-----------------------------------------------------------------------------
(* Numbers.                                                                 *)

LEMMA LessThanIsWellFounded ==
    \E R : IsWellFoundedOn(R, Nat) /\ \A x, y \in Nat : x < y => <<x, y>> \in R
<1>1. \A x, y \in Nat : x < y => <<x, y>> \in OpToRel(<, Nat)
  BY DEF OpToRel
<1> QED
  BY NatLessThanWellFounded, <1>1, Zenon

LEMMA LeastNatural ==
    ASSUME NEW S, S \subseteq Nat, S # {}
    PROVE  \E m \in S : \A n \in S : m <= n
<1>1. PICK R : IsWellFoundedOn(R, Nat) /\ \A x, y \in Nat : x < y => <<x, y>> \in R
  BY LessThanIsWellFounded
<1>2. IsWellFoundedOn(R, Nat)
  BY <1>1
<1>3. \E x \in S : \A y \in S : ~ (<<y, x>> \in R)
  BY <1>2, WFMin, Zenon
<1>4. PICK x \in S : \A y \in S : ~ (<<y, x>> \in R)
  BY <1>3
<1>5. \A y \in S : ~(y < x)
  BY <1>1, <1>4
<1>6. \A n \in S : x <= n
  BY <1>5
<1> QED BY <1>6

\* The highest sequence is one: a set of messages below some bound has a last.
LEMMA LastIsLast ==
    ASSUME NEW S \in SUBSET Message, NEW b \in Nat, \A m \in S : m.seq <= b
    PROVE  /\ LastSequence(S) \in Nat
           /\ \A m \in S : m.seq <= LastSequence(S)
           /\ S = {} => LastSequence(S) = 0
           /\ S # {} => \E m \in S : m.seq = LastSequence(S)
<1>1. CASE S = {}
  BY <1>1 DEF LastSequence
<1>2. CASE S # {}
  <2> DEFINE bounds == {n \in Nat : \A m \in S : m.seq <= n}
  <2>1. \A m \in S : m.seq \in Nat
    BY DEF Message
  <2>2. PICK n \in bounds : \A k \in bounds : n <= k
    <3>1. b \in bounds
      OBVIOUS
    <3>2. bounds \subseteq Nat
      OBVIOUS
    <3> HIDE DEF bounds
    <3> QED
      BY <3>1, <3>2, LeastNatural
  <2>3. n \in Nat /\ \A m \in S : m.seq <= n
    BY <2>2
  <2>4. \E m \in S : m.seq = n
    <3> SUFFICES ASSUME \A m \in S : m.seq # n PROVE FALSE
      OBVIOUS
    <3>1. \A m \in S : m.seq <= n - 1
      BY <2>1, <2>3
    <3>2. n - 1 \in Nat
      BY <1>2, <2>1, <3>1
    <3>3. n - 1 \in bounds
      BY <3>1, <3>2
    <3> QED
      BY <2>2, <2>3, <3>3
  <2>5. LastSequence(S) = CHOOSE k \in {m.seq : m \in S} : \A m \in S : m.seq <= k
    BY <1>2 DEF LastSequence
  <2>6. n \in {m.seq : m \in S}
    BY <2>4
  <2>7. \E k \in {m.seq : m \in S} : \A m \in S : m.seq <= k
    BY <2>3, <2>6
  <2>8. /\ LastSequence(S) \in {m.seq : m \in S}
        /\ \A m \in S : m.seq <= LastSequence(S)
    BY <2>5, <2>7
  <2> QED
    BY <1>2, <2>1, <2>8
<1> QED BY <1>1, <1>2

LEMMA Last ==
    ASSUME TypeInv
    PROVE  /\ LastSequence(messages) \in Nat
           /\ \A m \in messages : m.seq <= LastSequence(messages)
           /\ messages = {} => LastSequence(messages) = 0
           /\ messages # {} => \E m \in messages : m.seq = LastSequence(messages)
<1>1. PICK b \in Nat : \A m \in messages : m.seq <= b
  BY DEF TypeInv, Bounded
<1> QED
  BY <1>1, LastIsLast DEF TypeInv, TypeOK

-----------------------------------------------------------------------------
(* Types.                                                                   *)

LEMMA Constants ==
    /\ Runs \subseteq Procs /\ Limits \subseteq Nat /\ MaxRounds \in Nat /\ MaxCalls \in Nat /\ MaxFaults \in Nat
    /\ 1 \in 1..MaxCalls
BY ConversationAssumption DEF Procs

LEMMA LimitTyped ==
    ASSUME TypeInv, NEW p \in Procs
    PROVE  local[p].limit \in Nat
<1>1. local[p].limit \in Limits \cup {0}
  BY DEF TypeInv, TypeOK, Local
<1>2. Limits \subseteq Nat
  BY Constants
<1>3. \A l \in Limits \cup {0} : l \in Nat
  BY <1>2
<1> QED
  BY <1>1, <1>3

LEMMA Blank ==
    /\ NewThread \in Row
    /\ \A p \in Procs : Fresh(p) \in Local
    /\ NoPrompt \in PromptRec
<1>1. NewThread \in Row
  BY DEF NewThread, Row
<1>2. \A p \in Procs : Draft(p, "user", {}, None) \in Message
  BY DEF Draft, Message, Roles
<1>3. \A p \in Procs : Fresh(p) \in Local
  BY <1>2, Constants DEF Fresh, Local
<1>4. NoPrompt \in PromptRec
  BY DEF NoPrompt, PromptRec
<1> QED
  BY <1>1, <1>3, <1>4

LEMMA GotoTyped ==
    ASSUME TypeOK, NEW p \in Procs, NEW l \in Labels, Goto(p, l)
    PROVE  pc' \in [Procs -> Labels] /\ \A q \in Procs : pc'[q] = IF q = p THEN l ELSE pc[q]
BY DEF TypeOK, Goto, Labels

LEMMA SetTyped ==
    ASSUME TypeOK, NEW p \in Procs, NEW l \in Local, Set(p, l)
    PROVE  local' \in [Procs -> Local] /\ \A q \in Procs : local'[q] = IF q = p THEN l ELSE local[q]
BY DEF TypeOK, Set

LEMMA ReturnTyped ==
    ASSUME TypeOK, NEW p \in Procs, Return(p)
    PROVE  /\ pc' \in [Procs -> Labels] /\ copy' \in [Procs -> Row]
           /\ local' \in [Procs -> Local] /\ prompt' \in [Runs -> PromptRec]
           /\ \A q \in Procs : /\ pc'[q] = IF q = p THEN "done" ELSE pc[q]
                               /\ copy'[q] = IF q = p THEN NewThread ELSE copy[q]
                               /\ local'[q] = IF q = p THEN Fresh(p) ELSE local[q]
<1>1. pc' \in [Procs -> Labels] /\ \A q \in Procs : pc'[q] = IF q = p THEN "done" ELSE pc[q]
  BY GotoTyped DEF Return, Labels
<1>2. local' \in [Procs -> Local] /\ \A q \in Procs : local'[q] = IF q = p THEN Fresh(p) ELSE local[q]
  BY Blank, SetTyped DEF Return
<1>3. copy' \in [Procs -> Row] /\ \A q \in Procs : copy'[q] = IF q = p THEN NewThread ELSE copy[q]
  BY Blank DEF Return, TypeOK
<1>4. prompt' \in [Runs -> PromptRec]
  BY Blank DEF Return, TypeOK, PromptRec
<1> QED
  BY <1>1, <1>2, <1>3, <1>4

LEMMA TitledTyped ==
    ASSUME NEW r \in Row
    PROVE  /\ Titled(r) \in Row
           /\ Titled(r).alive = r.alive /\ Titled(r).group = r.group /\ Titled(r).skills = r.skills
           /\ Titled(r).summary = r.summary /\ Titled(r).summarySeq = r.summarySeq
           /\ r.title \in Runs => Titled(r).title \in Runs
BY ConversationAssumption DEF Titled, Row

\* The call that is executed is the first one that is left.
LEMMA NextCallPending ==
    ASSUME NEW r \in Procs, local[r] \in Local, local[r].pending # {}
    PROVE  NextCall(r) \in local[r].pending /\ NextCall(r) \in Calls
<1>1. local[r].pending \subseteq Calls
  BY DEF Local
<1>2. \A c \in local[r].pending : c[3] \in Nat
  BY <1>1, Constants DEF Calls
<1> DEFINE places == {c[3] : c \in local[r].pending}
<1>3. places \subseteq Nat /\ places # {}
  BY <1>2
<1>4. PICK n \in places : \A k \in places : n <= k
  <2> HIDE DEF places
  <2> QED
    BY <1>3, LeastNatural
<1>5. \E c \in local[r].pending : \A d \in local[r].pending : c[3] <= d[3]
  BY <1>4
<1>6. NextCall(r) \in local[r].pending
  BY <1>5 DEF NextCall
<1> QED
  BY <1>1, <1>6

LEMMA TypeInit == Init => TypeInv
<1> SUFFICES ASSUME Init PROVE TypeInv
  OBVIOUS
<1>1. TypeOK
  BY Blank, Constants DEF Init, TypeOK, RunRow, PromptRec
<1>2. LocalsSound
  BY DEF Init, LocalsSound, Sound, Storing
<1>3. IsFiniteSet(messages) /\ Bounded
  BY FS_EmptySet DEF Init, Bounded
<1> QED
  BY <1>1, <1>2, <1>3 DEF TypeInv

\* What a row, a draft and a call to execute become.
LEMMA SaveThreadTyped ==
    ASSUME TypeInv, NEW p \in Procs, SaveThread(p)
    PROVE  TypeOK'
<1>1. copy[p] \in Row /\ Titled(copy[p]) \in Row
  BY TitledTyped DEF TypeInv, TypeOK
<1>2. thread' \in Row /\ UNCHANGED <<messages, run, groups, faults>>
  BY <1>1 DEF SaveThread, Save
<1>3. CASE p \in Runs /\ copy' = [copy EXCEPT ![p] = Titled(@)] /\ Goto(p, AfterMessage(p)) /\ UNCHANGED <<local, prompt>>
  <2>1. copy' \in [Procs -> Row]
    BY <1>1, <1>3 DEF TypeInv, TypeOK
  <2>2. AfterMessage(p) \in Labels
    <3>1. local[p].draft.role \in Roles
      BY DEF TypeInv, TypeOK, Local, Message
    <3> QED
      BY <3>1 DEF AfterMessage, Labels, Roles
  <2>3. pc' \in [Procs -> Labels]
    BY <1>3, <2>2, GotoTyped DEF TypeInv
  <2> QED
    BY <1>2, <1>3, <2>1, <2>3 DEF TypeInv, TypeOK, Labels
<1>4. CASE Return(p)
  <2>1. /\ pc' \in [Procs -> Labels] /\ copy' \in [Procs -> Row]
        /\ local' \in [Procs -> Local] /\ prompt' \in [Runs -> PromptRec]
    BY <1>4, ReturnTyped DEF TypeInv
  <2> QED
    BY <1>2, <2>1 DEF TypeInv, TypeOK, Labels, PromptRec
<1> QED
  BY <1>3, <1>4 DEF SaveThread

LEMMA MessageTyped ==
    ASSUME TypeInv, NEW p \in Procs, ReadSequence(p) \/ CreateMessage(p)
    PROVE  TypeOK'
<1>1. local[p] \in Local /\ local[p].draft \in Message
  BY DEF TypeInv, TypeOK, Local
<1>2. CASE ReadSequence(p)
  <2>1. NextSequence \in Nat
    BY Last DEF NextSequence
  <2>2. [local[p] EXCEPT !.draft.seq = NextSequence] \in Local
    BY <1>1, <2>1 DEF Local, Message
  <2>3. local' \in [Procs -> Local]
    BY <1>2, <2>2, SetTyped DEF ReadSequence, TypeInv
  <2>4. pc' \in [Procs -> Labels]
    BY <1>2, GotoTyped DEF ReadSequence, TypeInv, Labels
  <2> QED
    BY <1>2, <2>3, <2>4 DEF ReadSequence, TypeInv, TypeOK, Labels, db
<1>3. CASE CreateMessage(p)
  <2>1. pc' \in [Procs -> Labels]
    BY <1>3, GotoTyped DEF CreateMessage, TypeInv, Labels
  <2> QED
    BY <1>1, <1>3, <2>1 DEF CreateMessage, TypeInv, TypeOK, Labels, locals
<1> QED
  BY <1>2, <1>3

LEMMA StartTyped ==
    ASSUME TypeInv, NEW p \in Procs, CreateRun(p) \/ CompactConversation(p)
    PROVE  TypeOK'
<1>1. UNCHANGED <<db, faults>>
  BY DEF CreateRun, CompactConversation
<1>2. CASE Return(p)
  <2>1. /\ pc' \in [Procs -> Labels] /\ copy' \in [Procs -> Row]
        /\ local' \in [Procs -> Local] /\ prompt' \in [Runs -> PromptRec]
    BY <1>2, ReturnTyped DEF TypeInv
  <2> QED
    BY <1>1, <2>1 DEF TypeInv, TypeOK, Labels, PromptRec, db
<1>3. ASSUME NEW l \in Local, NEW n \in Labels,
             GetConversation(p), Set(p, l), Goto(p, n), UNCHANGED prompt
      PROVE  TypeOK'
  <2>1. copy' \in [Procs -> Row]
    BY <1>3 DEF GetConversation, TypeInv, TypeOK
  <2>2. local' \in [Procs -> Local] /\ pc' \in [Procs -> Labels]
    BY <1>3, SetTyped, GotoTyped DEF TypeInv
  <2> QED
    BY <1>1, <1>3, <2>1, <2>2 DEF TypeInv, TypeOK, Labels, db
<1>4. local[p] \in Local /\ thread.skills \subseteq Skills
  BY DEF TypeInv, TypeOK, Row
<1>5. CASE CreateRun(p) /\ ~Return(p)
  <2>1. [local[p] EXCEPT !.active = IF p \in Runs THEN thread.skills ELSE {}] \in Local
    BY <1>4 DEF Local
  <2> QED
    BY <1>3, <1>5, <2>1 DEF CreateRun, Labels
<1>6. CASE CompactConversation(p) /\ ~Return(p)
  <2>1. \A limit \in Limits : [local[p] EXCEPT !.limit = limit] \in Local
    BY <1>4 DEF Local
  <2> QED
    BY <1>3, <1>6, <2>1 DEF CompactConversation, Labels
<1> QED
  BY <1>2, <1>5, <1>6

LEMMA CompactedTyped ==
    ASSUME TypeInv, NEW p \in Procs, Compacted(p)
    PROVE  /\ pc' \in [Procs -> Labels] /\ copy' \in [Procs -> Row]
           /\ local' \in [Procs -> Local] /\ prompt' \in [Runs -> PromptRec]
<1>1. CASE p \in Runs /\ Goto(p, "select") /\ UNCHANGED locals
  BY <1>1, GotoTyped DEF TypeInv, TypeOK, Labels, PromptRec, locals
<1>2. CASE Return(p)
  BY <1>2, ReturnTyped DEF TypeInv
<1> QED
  BY <1>1, <1>2 DEF Compacted

LEMMA CompactionTyped ==
    ASSUME TypeInv, NEW p \in Procs, CompactionStep(p)
    PROVE  TypeOK'
<1>1. local[p] \in Local /\ copy[p] \in Row
  BY DEF TypeInv, TypeOK
<1> DEFINE LocalsTyped == /\ pc' \in [Procs -> Labels] /\ copy' \in [Procs -> Row]
                          /\ local' \in [Procs -> Local] /\ prompt' \in [Runs -> PromptRec]
<1>2. ASSUME NEW n \in Labels, Goto(p, n), UNCHANGED locals
      PROVE  LocalsTyped
  BY <1>2, GotoTyped DEF TypeInv, TypeOK, PromptRec, locals
<1>3. CASE CountMessages(p)
  <2>1. LocalsTyped
    BY <1>2, <1>3, CompactedTyped DEF CountMessages, Labels
  <2> QED
    BY <1>3, <2>1 DEF CountMessages, TypeInv, TypeOK, Labels, PromptRec, db
<1>4. CASE FindCutoff(p)
  <2>1. ASSUME Set(p, [local[p] EXCEPT !.cutoff = Cutoff(p)]), Goto(p, "read"), UNCHANGED <<copy, prompt>>
        PROVE  LocalsTyped
    <3>1. Cutoff(p) \in Int
      BY Last, LimitTyped DEF Cutoff
    <3>2. [local[p] EXCEPT !.cutoff = Cutoff(p)] \in Local
      BY <1>1, <3>1 DEF Local
    <3>3. local' \in [Procs -> Local] /\ pc' \in [Procs -> Labels]
      BY <2>1, <3>2, SetTyped, GotoTyped DEF TypeInv, Labels
    <3> QED
      BY <2>1, <3>3 DEF TypeInv, TypeOK, PromptRec
  <2>2. ASSUME Return(p) PROVE LocalsTyped
    BY <2>2, ReturnTyped DEF TypeInv
  <2>3. LocalsTyped
    BY <1>2, <1>4, <2>1, <2>2, CompactedTyped DEF FindCutoff, Labels
  <2> QED
    BY <1>4, <2>3 DEF FindCutoff, TypeInv, TypeOK, Labels, PromptRec, db
<1>5. CASE Summarize(p)
  <2>1. PICK new \in Summaries(ToSummarize(p)) :
            copy' = [copy EXCEPT ![p].summary = @ \cup new, ![p].summarySeq = local[p].cutoff]
    BY <1>5 DEF Summarize
  <2>2. new \subseteq Message
    BY <2>1 DEF Summaries, ToSummarize, Transcript, TypeInv, TypeOK
  <2>3. copy' \in [Procs -> Row]
    BY <1>1, <2>1, <2>2 DEF TypeInv, TypeOK, Row, Local
  <2>4. pc' \in [Procs -> Labels]
    BY <1>5, GotoTyped DEF Summarize, TypeInv, Labels
  <2> QED
    BY <1>5, <2>3, <2>4 DEF Summarize, TypeInv, TypeOK, Labels, db
<1>6. CASE SaveSummary(p)
  <2>1. LocalsTyped
    BY <1>6, CompactedTyped DEF SaveSummary
  <2> QED
    BY <1>1, <1>6, <2>1 DEF SaveSummary, Save, TypeInv, TypeOK, Labels, PromptRec
<1> QED
  BY <1>3, <1>4, <1>5, <1>6 DEF CompactionStep

\* A window is a sequence of stored messages.
LEMMA WindowTyped ==
    ASSUME TypeInv, NEW limit \in Nat, NEW w \in Windows(limit)
    PROVE  w \in Seq(Message)
<1>1. Cardinality(messages) \in Nat
  BY FS_CardinalityType DEF TypeInv
<1>2. PICK n \in Nat : w \in [1..n -> messages]
  BY <1>1 DEF Windows
<1> QED
  BY <1>2 DEF TypeInv, TypeOK

LEMMA RunTyped ==
    ASSUME TypeInv, NEW r \in Runs,
           StartRun(r) \/ BuildModelMessages(r) \/ SelectWindow(r) \/ EnterToolLoop(r)
               \/ ModelCallsTools(r) \/ ModelAnswers(r) \/ GenerationFails(r)
    PROVE  TypeOK'
<1>0. r \in Procs
  BY Constants
<1>1. r \in Procs /\ local[r] \in Local /\ copy[r] \in Row /\ local[r].limit \in Nat
  BY <1>0, LimitTyped DEF TypeInv, TypeOK
<1>2. ASSUME NEW n \in Labels, Goto(r, n) PROVE pc' \in [Procs -> Labels]
  BY <1>1, <1>2, GotoTyped DEF TypeInv
<1>3. CASE StartRun(r)
  <2>1. pc' \in [Procs -> Labels]
    BY <1>2, <1>3 DEF StartRun, Labels
  <2>2. run' \in [Runs -> RunRow]
    BY <1>3 DEF StartRun, TypeInv, TypeOK, RunRow
  <2> QED
    BY <1>3, <2>1, <2>2 DEF StartRun, TypeInv, TypeOK, Labels, locals
<1>4. CASE BuildModelMessages(r)
  <2>1. pc' \in [Procs -> Labels]
    BY <1>2, <1>4 DEF BuildModelMessages, Labels
  <2>2. copy' \in [Procs -> Row]
    BY <1>4 DEF BuildModelMessages, GetConversation, TypeInv, TypeOK
  <2>3. \A limit \in Limits : [local[r] EXCEPT !.limit = limit] \in Local
    BY <1>1 DEF Local
  <2>4. local' \in [Procs -> Local]
    BY <1>1, <1>4, <2>3, SetTyped DEF BuildModelMessages, TypeInv, TypeOK
  <2> QED
    BY <1>4, <2>1, <2>2, <2>4 DEF BuildModelMessages, TypeInv, TypeOK, Labels, db
<1>5. CASE SelectWindow(r)
  <2>1. PICK w \in Windows(local[r].limit) :
            prompt' = [prompt EXCEPT ![r] = [window |-> w, summary |-> copy[r].summary]]
    BY <1>5 DEF SelectWindow
  <2>2. w \in Seq(Message)
    BY <1>1, WindowTyped
  <2>3. prompt' \in [Runs -> PromptRec]
    BY <1>1, <2>1, <2>2 DEF TypeInv, TypeOK, Row, PromptRec
  <2>4. pc' \in [Procs -> Labels]
    BY <1>2, <1>5 DEF SelectWindow, Labels
  <2>5. [local[r] EXCEPT !.rounds = MaxRounds] \in Local
    BY <1>1, Constants DEF Local
  <2>6. local' \in [Procs -> Local]
    BY <1>1, <1>5, <2>5, SetTyped DEF SelectWindow, TypeInv, TypeOK
  <2> QED
    BY <1>5, <2>3, <2>4, <2>6 DEF SelectWindow, TypeInv, TypeOK, Labels, PromptRec, db
<1>6. CASE EnterToolLoop(r)
  <2>1. pc' \in [Procs -> Labels]
    BY <1>2, <1>6 DEF EnterToolLoop, Labels
  <2>2. copy' \in [Procs -> Row]
    BY <1>6 DEF EnterToolLoop, GetConversation, TypeInv, TypeOK
  <2> QED
    BY <1>6, <2>1, <2>2 DEF EnterToolLoop, TypeInv, TypeOK, Labels, db
<1>7. CASE ModelCallsTools(r)
  <2>1. PICK n \in 1..MaxCalls :
            LET calls == {<<r, local[r].rounds, i>> : i \in 1..n}
            IN  Set(r, [local[r] EXCEPT !.draft = Draft(r, "call", calls, None),
                                        !.pending = calls,
                                        !.rounds = @ - 1])
    BY <1>7 DEF ModelCallsTools
  <2> DEFINE calls == {<<r, local[r].rounds, i>> : i \in 1..n}
             l == [local[r] EXCEPT !.draft = Draft(r, "call", calls, None),
                                   !.pending = calls, !.rounds = @ - 1]
  <2>2. local[r].rounds \in 1..MaxRounds /\ local[r].rounds - 1 \in 0..MaxRounds
    <3>1. local[r].rounds \in 0..MaxRounds /\ local[r].rounds > 0
      BY <1>1, <1>7 DEF ModelCallsTools, Local
    <3> QED
      BY <3>1, Constants
  <2>3. calls \subseteq Calls
    BY <2>2, Constants DEF Calls
  <2> HIDE DEF calls
  <2>4. Draft(r, "call", calls, None) \in Message
    BY <1>1, <2>3 DEF Draft, Message, Roles
  <2>5. l \in Local
    BY <1>1, <2>2, <2>3, <2>4 DEF Local
  <2>6. Set(r, l)
    BY <2>1 DEF calls
  <2> HIDE DEF l
  <2>7. local' \in [Procs -> Local]
    BY <1>1, <2>5, <2>6, SetTyped DEF TypeInv
  <2>8. pc' \in [Procs -> Labels]
    BY <1>2, <1>7 DEF ModelCallsTools, Labels
  <2> QED
    BY <1>7, <2>7, <2>8 DEF ModelCallsTools, TypeInv, TypeOK, Labels, db
<1>8. CASE ModelAnswers(r) \/ GenerationFails(r)
  <2>1. pc' \in [Procs -> Labels]
    BY <1>2, <1>8 DEF ModelAnswers, GenerationFails, Labels
  <2> QED
    BY <1>8, <2>1 DEF ModelAnswers, GenerationFails, TypeInv, TypeOK, Labels, db, locals
<1> QED
  BY <1>3, <1>4, <1>5, <1>6, <1>7, <1>8

LEMMA ExecuteTyped ==
    ASSUME TypeInv, NEW r \in Runs, pc[r] = "tools", NEW active \in SUBSET Skills,
           ExecuteTool(r, NextCall(r), active), thread' \in Row, copy' \in [Procs -> Row]
    PROVE  TypeOK'
<1>0. r \in Procs
  BY Constants
<1>1. local[r] \in Local /\ local[r].pending # {}
  BY <1>0 DEF TypeInv, TypeOK, LocalsSound, Sound
<1>2. NextCall(r) \in Calls
  BY <1>0, <1>1, NextCallPending
<1>3. Draft(r, "tool", {}, NextCall(r)) \in Message
  BY <1>0, <1>2 DEF Draft, Message, Roles
<1>4. [local[r] EXCEPT !.draft = Draft(r, "tool", {}, NextCall(r)),
                       !.pending = @ \ {NextCall(r)}, !.active = active] \in Local
  BY <1>1, <1>3 DEF Local
<1>5. local' \in [Procs -> Local] /\ pc' \in [Procs -> Labels]
  BY <1>0, <1>4, SetTyped, GotoTyped DEF ExecuteTool, TypeInv, Labels
<1> QED
  BY <1>5 DEF ExecuteTool, TypeInv, TypeOK, Labels

LEMMA ToolTyped ==
    ASSUME TypeInv, NEW r \in Runs, ToolStep(r)
    PROVE  TypeOK'
<1>0. r \in Procs
  BY Constants
<1>1. thread \in Row /\ copy[r] \in Row /\ local[r] \in Local /\ local[r].active \subseteq Skills
  BY <1>0 DEF TypeInv, TypeOK, Local
<1>2. CASE ToolReturns(r)
  BY <1>1, <1>2, ExecuteTyped DEF ToolReturns, TypeInv, TypeOK
<1>3. CASE SetConversationTitle(r)
  <2>1. thread' \in Row /\ copy' \in [Procs -> Row]
    BY <1>1, <1>3 DEF SetConversationTitle, SetTitle, TypeInv, TypeOK, Row
  <2> QED
    BY <1>1, <1>3, <2>1, ExecuteTyped DEF SetConversationTitle
<1>4. CASE ActivateSkill(r)
  <2>1. PICK skill \in Skills :
            /\ PersistSkills(r, local[r].active \cup {skill})
            /\ ExecuteTool(r, NextCall(r), local[r].active \cup {skill})
    BY <1>4 DEF ActivateSkill
  <2> DEFINE active == local[r].active \cup {skill}
  <2>2. active \in SUBSET Skills
    BY <1>1, <2>1
  <2>3. PersistSkills(r, active) /\ ExecuteTool(r, NextCall(r), active) /\ pc[r] = "tools"
    BY <1>4, <2>1 DEF ActivateSkill
  <2> HIDE DEF active
  <2>4. CASE copy[r].skills = active
    <3>1. thread' \in Row /\ copy' \in [Procs -> Row]
      BY <2>3, <2>4 DEF PersistSkills, TypeInv, TypeOK
    <3> QED
      BY <2>2, <2>3, <3>1, ExecuteTyped
  <2>5. CASE copy[r].skills # active
    <3>1. /\ thread' = IF thread.alive THEN [thread EXCEPT !.skills = active] ELSE thread
          /\ copy' = [copy EXCEPT ![r].skills = active]
      BY <2>3, <2>5 DEF PersistSkills
    <3>2. [thread EXCEPT !.skills = active] \in Row /\ [copy[r] EXCEPT !.skills = active] \in Row
      BY <1>1, <2>2 DEF Row
    <3>3. thread' \in Row
      BY <1>1, <3>1, <3>2
    <3>4. copy' \in [Procs -> Row]
      BY <1>0, <3>1, <3>2 DEF TypeInv, TypeOK
    <3> QED
      BY <2>2, <2>3, <3>3, <3>4, ExecuteTyped
  <2> QED
    BY <2>4, <2>5
<1> QED
  BY <1>2, <1>3, <1>4 DEF ToolStep

LEMMA EndTyped ==
    ASSUME TypeInv, NEW r \in Runs, CompleteRun(r) \/ FinishRun(r) \/ FailRun(r)
    PROVE  TypeOK'
<1>0. r \in Procs
  BY Constants
<1>1. ASSUME Return(r) PROVE /\ pc' \in [Procs -> Labels] /\ copy' \in [Procs -> Row]
                             /\ local' \in [Procs -> Local] /\ prompt' \in [Runs -> PromptRec]
  BY <1>0, <1>1, ReturnTyped DEF TypeInv
<1>2. CASE CompleteRun(r) /\ ~Return(r)
  <2>1. Draft(r, "assistant", {}, None) \in Message
    BY <1>0 DEF Draft, Message, Roles
  <2>2. [local[r] EXCEPT !.draft = Draft(r, "assistant", {}, None)] \in Local
    BY <1>0, <2>1 DEF TypeInv, TypeOK, Local
  <2>3. local' \in [Procs -> Local] /\ pc' \in [Procs -> Labels]
    BY <1>0, <1>2, <2>2, SetTyped, GotoTyped DEF CompleteRun, TypeInv, Labels
  <2>4. copy' \in [Procs -> Row]
    BY <1>2 DEF CompleteRun, GetConversation, TypeInv, TypeOK
  <2> QED
    BY <1>2, <2>3, <2>4 DEF CompleteRun, TypeInv, TypeOK, Labels, db
<1>3. CASE CompleteRun(r) /\ Return(r)
  BY <1>1, <1>3 DEF CompleteRun, TypeInv, TypeOK, Labels, PromptRec, db
<1>4. CASE FinishRun(r) \/ FailRun(r)
  <2>1. PICK status \in {"completed", "failed"} : EndRun(r, status)
    BY <1>4 DEF FinishRun, FailRun
  <2>2. run' \in [Runs -> RunRow]
    BY <2>1 DEF EndRun, TypeInv, TypeOK, RunRow
  <2> QED
    BY <1>1, <2>1, <2>2 DEF EndRun, TypeInv, TypeOK, Labels, PromptRec
<1> QED
  BY <1>2, <1>3, <1>4

LEMMA OutsideTyped ==
    ASSUME TypeInv, AccountStep \/ Crash \/ (\E p \in Procs : Cancelled(p))
    PROVE  TypeOK'
<1>0. thread \in Row /\ messages \subseteq Message /\ groups \subseteq Groups /\ run \in [Runs -> RunRow]
  BY DEF TypeInv, TypeOK
<1>1. CASE AccountStep
  <2>1. CASE DeleteConversation
    <3>1. thread' \in Row /\ messages' \subseteq Message /\ groups' \subseteq Groups
      BY <1>0, <2>1 DEF DeleteConversation, SoftDeleteThreads, Row
    <3>2. \A r \in Runs : [run[r] EXCEPT !.live = FALSE] \in RunRow
      BY <1>0 DEF RunRow
    <3>3. run' \in [Runs -> RunRow]
      BY <2>1, <3>2 DEF DeleteConversation, SoftDeleteThreads
    <3> QED
      BY <2>1, <3>1, <3>3 DEF DeleteConversation, TypeInv, TypeOK, locals
  <2>2. CASE SetConversationGroup
    <3>1. thread' \in Row
      <4>1. PICK g \in groups \cup {None} : thread' = [thread EXCEPT !.group = g]
        BY <2>2 DEF SetConversationGroup
      <4> QED
        BY <1>0, <4>1 DEF Row
    <3> QED
      BY <2>2, <3>1 DEF SetConversationGroup, TypeInv, TypeOK, locals
  <2>3. CASE DeleteConversationGroup
    <3>1. thread' \in Row /\ groups' \subseteq Groups
      <4>1. PICK g \in groups : /\ groups' = groups \ {g}
                                 /\ thread' = IF thread.alive /\ thread.group = g
                                                THEN [thread EXCEPT !.group = None] ELSE thread
        BY <2>3 DEF DeleteConversationGroup
      <4> QED
        BY <1>0, <4>1 DEF Row
    <3> QED
      BY <2>3, <3>1 DEF DeleteConversationGroup, TypeInv, TypeOK, locals
  <2> QED
    BY <1>1, <2>1, <2>2, <2>3 DEF AccountStep
<1>2. ASSUME Fault PROVE faults' \in 0..MaxFaults
  BY <1>2, Constants DEF Fault, TypeInv, TypeOK
<1>3. CASE Crash
  <2>1. pc' \in [Procs -> Labels]
    BY <1>3 DEF Crash, Labels
  <2>2. copy' \in [Procs -> Row] /\ local' \in [Procs -> Local] /\ prompt' \in [Runs -> PromptRec]
    BY <1>3, Blank DEF Crash
  <2> QED
    BY <1>2, <1>3, <2>1, <2>2 DEF Crash, TypeInv, TypeOK, Labels, PromptRec, db
<1>4. ASSUME NEW p \in Procs, Cancelled(p)
      PROVE  TypeOK'
  <2>1. /\ pc' \in [Procs -> Labels] /\ copy' \in [Procs -> Row]
        /\ local' \in [Procs -> Local] /\ prompt' \in [Runs -> PromptRec]
    BY <1>4, ReturnTyped DEF Cancelled, TypeInv
  <2> QED
    BY <1>2, <1>4, <2>1 DEF Cancelled, TypeInv, TypeOK, Labels, PromptRec, db
<1> QED
  BY <1>1, <1>3, <1>4

LEMMA TypeStep == TypeInv /\ [Next]_vars => TypeOK'
<1> SUFFICES ASSUME TypeInv, [Next]_vars PROVE TypeOK'
  OBVIOUS
<1>1. ASSUME NEW p \in Procs, CreateRun(p) \/ CompactConversation(p) \/ Working(p)
      PROVE  TypeOK'
  BY <1>1, StartTyped, MessageTyped, SaveThreadTyped, CompactionTyped, RunTyped, ToolTyped, EndTyped
     DEF Working, MessageStep, RunStep
<1>2. CASE AccountStep \/ Crash \/ \E p \in Procs : Cancelled(p)
  BY <1>2, OutsideTyped
<1>3. CASE UNCHANGED vars
  BY <1>3 DEF vars, db, locals, TypeInv, TypeOK
<1> QED
  BY <1>1, <1>2, <1>3 DEF Next

-----------------------------------------------------------------------------
(* A request moves alone, and keeps its variables sound.                    *)

Acts(p) == CreateRun(p) \/ CompactConversation(p) \/ Working(p) \/ Cancelled(p)

LEMMA OthersWait ==
    ASSUME TypeOK, NEW p \in Procs, Acts(p), NEW q \in Procs, q # p
    PROVE  pc'[q] = pc[q] /\ local'[q] = local[q] /\ copy'[q] = copy[q]
<1>1. ASSUME NEW l, Goto(p, l) PROVE pc'[q] = pc[q]
  BY <1>1 DEF Goto, TypeOK
<1>2. ASSUME NEW l, Set(p, l) PROVE local'[q] = local[q]
  BY <1>2 DEF Set, TypeOK
<1>3. ASSUME Return(p) PROVE pc'[q] = pc[q] /\ local'[q] = local[q] /\ copy'[q] = copy[q]
  BY <1>1, <1>2, <1>3 DEF Return, TypeOK
<1>4. ASSUME GetConversation(p) PROVE copy'[q] = copy[q]
  BY <1>4 DEF GetConversation, TypeOK
<1>5. CASE CreateRun(p) \/ CompactConversation(p) \/ Cancelled(p)
  BY <1>1, <1>2, <1>3, <1>4, <1>5 DEF CreateRun, CompactConversation, Cancelled
<1>6. CASE MessageStep(p)
  BY <1>1, <1>2, <1>3, <1>6 DEF MessageStep, ReadSequence, CreateMessage, SaveThread, TypeOK, locals
<1>7. CASE CompactionStep(p)
  BY <1>1, <1>2, <1>3, <1>7
     DEF CompactionStep, CountMessages, FindCutoff, Summarize, SaveSummary, Compacted, TypeOK, locals
<1>8. ASSUME NEW call, NEW active, ExecuteTool(p, call, active)
      PROVE  pc'[q] = pc[q] /\ local'[q] = local[q]
  BY <1>1, <1>2, <1>8 DEF ExecuteTool
<1>9. CASE p \in Runs /\ ToolStep(p)
  BY <1>8, <1>9 DEF ToolStep, ToolReturns, SetConversationTitle, SetTitle, ActivateSkill, PersistSkills, TypeOK
<1>10. CASE p \in Runs /\ RunStep(p) /\ ~ToolStep(p)
  BY <1>1, <1>2, <1>3, <1>4, <1>10
     DEF RunStep, StartRun, BuildModelMessages, SelectWindow, EnterToolLoop, ModelCallsTools, ModelAnswers,
         GenerationFails, CompleteRun, FinishRun, FailRun, EndRun, locals
<1> QED
  BY <1>5, <1>6, <1>7, <1>9, <1>10 DEF Acts, Working

LEMMA SoundStep ==
    ASSUME TypeInv, NEW p \in Procs, Acts(p)
    PROVE  Sound(p, pc'[p], local'[p])
<1>0. TypeOK /\ Sound(p, pc[p], local[p]) /\ local[p] \in Local
  BY DEF TypeInv, TypeOK, LocalsSound
<1>1. ASSUME NEW l \in Labels, Goto(p, l) PROVE pc'[p] = l
  BY <1>0, <1>1, GotoTyped
<1>2. ASSUME NEW l, Set(p, l) PROVE local'[p] = l
  BY <1>0, <1>2 DEF Set, TypeOK
<1>3. ASSUME Return(p) PROVE Sound(p, pc'[p], local'[p])
  BY <1>0, <1>3, ReturnTyped DEF Sound, Storing
<1>4. CASE CreateRun(p) \/ CompactConversation(p) \/ Cancelled(p)
  <2>1. CASE Return(p)
    BY <1>3, <2>1
  <2>2. CASE CreateRun(p) /\ ~Return(p)
    <3>1. local[p].draft.role = "user"
      BY <1>0, <2>2 DEF CreateRun, Sound, Fresh, Draft
    <3>2. pc'[p] = "sequence" /\ local'[p] = [local[p] EXCEPT !.active = IF p \in Runs THEN thread.skills ELSE {}]
      BY <1>1, <1>2, <2>2 DEF CreateRun, Labels
    <3>3. local'[p].draft.role = "user"
      BY <1>0, <3>1, <3>2 DEF Local
    <3> QED
      BY <3>2, <3>3 DEF Sound
  <2>3. CASE CompactConversation(p) /\ ~Return(p)
    <3>1. pc'[p] = "count"
      BY <1>1, <2>3 DEF CompactConversation, Labels
    <3> QED
      BY <3>1 DEF Sound, Storing
  <2> QED
    BY <1>4, <2>1, <2>2, <2>3 DEF Cancelled
<1>5. CASE ReadSequence(p)
  <2>1. pc'[p] = "create" /\ local'[p] = [local[p] EXCEPT !.draft.seq = NextSequence] /\ pc[p] = "sequence"
    BY <1>1, <1>2, <1>5 DEF ReadSequence, Labels
  <2>2. local'[p].pending = local[p].pending /\ local'[p].draft.role = local[p].draft.role
    BY <1>0, <2>1 DEF Local, Message
  <2> QED
    BY <1>0, <2>1, <2>2 DEF Sound, Storing
<1>6. CASE CreateMessage(p)
  BY <1>0, <1>1, <1>6 DEF CreateMessage, locals, Sound, Storing, Labels
<1>7. CASE SaveThread(p)
  <2>1. CASE Return(p)
    BY <1>3, <2>1
  <2>2. CASE ~Return(p)
    <3>1. Goto(p, AfterMessage(p)) /\ local' = local /\ pc[p] = "save"
      BY <1>7, <2>2 DEF SaveThread
    <3>2. local[p].draft.role \in Roles
      BY <1>0 DEF Local, Message
    <3>3. AfterMessage(p) \in {"start", "tools", "model", "finish"}
      BY <3>2 DEF AfterMessage, Roles
    <3>4. AfterMessage(p) = "tools" => local[p].pending # {}
      BY <1>0, <3>1, <3>2 DEF AfterMessage, Roles, Sound, Storing
    <3>5. pc'[p] = AfterMessage(p)
      BY <1>1, <3>1, <3>3 DEF Labels
    <3> QED
      BY <3>1, <3>3, <3>4, <3>5 DEF Sound, Storing
  <2> QED
    BY <2>1, <2>2
<1>8. CASE CompactionStep(p)
  <2>1. CASE Return(p)
    BY <1>3, <2>1
  <2>2. CASE ~Return(p)
    <3>1. pc'[p] \in {"select", "latest", "fail", "read", "summarized"}
      BY <1>1, <1>8, <2>2
         DEF CompactionStep, CountMessages, FindCutoff, Summarize, SaveSummary, Compacted, Labels
    <3> QED
      BY <3>1 DEF Sound, Storing
  <2> QED
    BY <2>1, <2>2
<1>9. CASE p \in Runs /\ ToolStep(p)
  <2>1. PICK call, active : ExecuteTool(p, call, active)
    BY <1>9 DEF ToolStep, ToolReturns, SetConversationTitle, ActivateSkill
  <2>2. pc'[p] = "sequence" /\ local'[p] = [local[p] EXCEPT !.draft = Draft(p, "tool", {}, call),
                                                             !.pending = @ \ {call}, !.active = active]
    BY <1>1, <1>2, <2>1 DEF ExecuteTool, Labels
  <2>3. local'[p].draft.role = "tool"
    BY <1>0, <2>2 DEF Local, Draft
  <2> QED
    BY <2>2, <2>3 DEF Sound
<1>10. CASE p \in Runs /\ ModelCallsTools(p)
  <2>1. PICK n \in 1..MaxCalls :
            Set(p, [local[p] EXCEPT !.draft = Draft(p, "call", {<<p, local[p].rounds, i>> : i \in 1..n}, None),
                                    !.pending = {<<p, local[p].rounds, i>> : i \in 1..n},
                                    !.rounds = @ - 1])
    BY <1>10 DEF ModelCallsTools
  <2>2. {<<p, local[p].rounds, i>> : i \in 1..n} # {}
    <3>1. <<p, local[p].rounds, 1>> \in {<<p, local[p].rounds, i>> : i \in 1..n}
      BY Constants
    <3> QED
      BY <3>1
  <2>3. local'[p].pending # {}
    BY <1>0, <1>2, <2>1, <2>2 DEF Local
  <2>4. pc'[p] = "sequence"
    BY <1>1, <1>10 DEF ModelCallsTools, Labels
  <2> QED
    BY <2>3, <2>4 DEF Sound
<1>11. CASE p \in Runs /\ CompleteRun(p) /\ ~Return(p)
  <2>1. pc'[p] = "sequence" /\ local'[p] = [local[p] EXCEPT !.draft = Draft(p, "assistant", {}, None)]
    BY <1>1, <1>2, <1>11 DEF CompleteRun, Labels
  <2>2. local'[p].draft.role = "assistant"
    BY <1>0, <2>1 DEF Local, Draft
  <2> QED
    BY <2>1, <2>2 DEF Sound
<1>12. CASE /\ p \in Runs
            /\ \/ StartRun(p) \/ BuildModelMessages(p) \/ SelectWindow(p) \/ EnterToolLoop(p)
               \/ ModelAnswers(p) \/ GenerationFails(p)
  <2>1. pc'[p] \in {"build", "count", "fail", "loop", "model", "complete"}
    BY <1>1, <1>12 DEF StartRun, BuildModelMessages, SelectWindow, EnterToolLoop, ModelAnswers, GenerationFails, Labels
  <2> QED
    BY <2>1 DEF Sound, Storing
<1>13. CASE p \in Runs /\ (FinishRun(p) \/ FailRun(p) \/ Return(p))
  BY <1>3, <1>13 DEF FinishRun, FailRun, EndRun
<1> QED
  BY <1>4, <1>5, <1>6, <1>7, <1>8, <1>9, <1>10, <1>11, <1>12, <1>13 DEF Acts, Working, MessageStep, RunStep

LEMMA MessagesGrow ==
    ASSUME TypeInv, [Next]_vars
    PROVE  IsFiniteSet(messages)' /\ Bounded'
<1>1. \/ messages' = messages \/ messages' = {}
      \/ \E p \in Procs : messages' = messages \cup {local[p].draft}
  BY DEF Next, Working, MessageStep, CompactionStep, RunStep, ToolStep, AccountStep, CreateRun, CompactConversation,
         ReadSequence, CreateMessage, SaveThread, CountMessages, FindCutoff, Summarize, SaveSummary,
         StartRun, BuildModelMessages, SelectWindow, EnterToolLoop, ModelCallsTools, ModelAnswers, GenerationFails,
         ToolReturns, SetConversationTitle, ActivateSkill, ExecuteTool, CompleteRun, FinishRun, FailRun, EndRun,
         DeleteConversation, SoftDeleteThreads, SetConversationGroup, DeleteConversationGroup, Crash, Cancelled, db, vars
<1>2. PICK b \in Nat : \A m \in messages : m.seq <= b
  BY DEF TypeInv, Bounded
<1>3. CASE messages' = messages
  BY <1>3 DEF TypeInv, Bounded
<1>4. CASE messages' = {}
  BY <1>4, FS_EmptySet DEF Bounded
<1>5. ASSUME NEW p \in Procs, messages' = messages \cup {local[p].draft}
      PROVE  IsFiniteSet(messages)' /\ Bounded'
  <2>1. local[p].draft.seq \in Nat /\ \A m \in messages : m.seq \in Nat
    BY DEF TypeInv, TypeOK, Local, Message
  <2>2. \A m \in messages' : m.seq <= b + local[p].draft.seq
    BY <1>2, <1>5, <2>1
  <2>3. b + local[p].draft.seq \in Nat
    BY <2>1
  <2> QED
    BY <1>5, <2>2, <2>3, FS_AddElement DEF TypeInv, Bounded
<1> QED
  BY <1>1, <1>3, <1>4, <1>5

LEMMA TypeInvStep == TypeInv /\ [Next]_vars => TypeInv'
<1> SUFFICES ASSUME TypeInv, [Next]_vars PROVE TypeInv'
  OBVIOUS
<1>1. TypeOK' /\ IsFiniteSet(messages)' /\ Bounded'
  BY TypeStep, MessagesGrow
<1>2. LocalsSound'
  <2>1. ASSUME NEW p \in Procs, Acts(p) PROVE LocalsSound'
    <3>1. Sound(p, pc'[p], local'[p])
      BY <2>1, SoundStep
    <3>2. ASSUME NEW q \in Procs, q # p PROVE Sound(q, pc'[q], local'[q])
      BY <2>1, <3>2, OthersWait DEF TypeInv, LocalsSound
    <3> QED
      BY <3>1, <3>2 DEF LocalsSound
  <2>2. CASE Crash
    <3>1. \A q \in Procs : local'[q] = Fresh(q) /\ pc'[q] \in {"idle", "done"}
      BY <2>2 DEF Crash
    <3> QED
      BY <3>1 DEF LocalsSound, Sound, Storing
  <2>3. CASE AccountStep \/ UNCHANGED vars
    BY <2>3 DEF AccountStep, DeleteConversation, SetConversationGroup, DeleteConversationGroup, locals, vars,
                TypeInv, LocalsSound
  <2> QED
    BY <2>1, <2>2, <2>3 DEF Next, Acts
<1> QED
  BY <1>1, <1>2 DEF TypeInv

\* Whatever requests, deletions and faults do to a conversation, every row and
\* every variable stays what its code takes it for.
THEOREM SpecTypeInv == Spec => []TypeInv
<1>1. Init => TypeInv
  BY TypeInit
<1> QED
  BY <1>1, TypeInvStep, PTL DEF Spec

\* The type invariant of conversations, for every set of requests.
THEOREM SpecTypeOK == Spec => []TypeOK
BY SpecTypeInv, PTL DEF TypeInv

-----------------------------------------------------------------------------
(* No run is left running.                                                  *)

\* The first message of a run is stored before the run has a row.
Before(r) == pc[r] \in {"idle", "start"} \/ (pc[r] \in Storing /\ local[r].draft.role = "user")

\* From the build on, a run has seen its conversation after its row was there.
Late(r) ==
    \/ pc[r] \in {"count", "latest", "read", "summarized", "select", "loop", "model", "tools",
                  "complete", "finish"}
    \/ pc[r] \in Storing /\ local[r].draft.role # "user"

Tracked(r) ==
    /\ Before(r) => run[r].status = "absent"
    /\ faults = 0 /\ run[r].live /\ run[r].status = "running" => pc[r] # "done"
    /\ Late(r) /\ ~thread.alive => ~run[r].live

CopiesAlive == \A p \in Procs : copy[p].alive

TrackInv == TypeInv /\ CopiesAlive /\ \A r \in Runs : Tracked(r)

LEMMA OnlyDeletionKills ==
    ASSUME TypeOK, CopiesAlive, NEW p \in Procs, Acts(p)
    PROVE  /\ ~thread'.alive => ~thread.alive
           /\ copy'[p].alive
           /\ \A q \in Runs \ {p} : run'[q] = run[q]
<1>0. copy[p].alive /\ copy \in [Procs -> Row] /\ copy[p] \in Row /\ thread \in Row
  BY DEF CopiesAlive, TypeOK
<1>1. ASSUME Return(p) PROVE copy'[p].alive
  BY <1>1, ReturnTyped DEF NewThread
<1>2. ASSUME GetConversation(p) PROVE copy'[p].alive
  BY <1>0, <1>2 DEF GetConversation
<1>3. Titled(copy[p]).alive
  BY <1>0 DEF Titled, Row
<1>4. CASE CreateRun(p) \/ CompactConversation(p) \/ Cancelled(p)
  BY <1>1, <1>2, <1>4 DEF CreateRun, CompactConversation, Cancelled, db
<1>5. CASE ReadSequence(p) \/ CreateMessage(p)
  BY <1>0, <1>5 DEF ReadSequence, CreateMessage, db, locals
<1>6. CASE SaveThread(p)
  <2>1. thread'.alive /\ run' = run
    BY <1>3, <1>6 DEF SaveThread, Save
  <2>2. CASE Return(p)
    BY <1>1, <2>1, <2>2
  <2>3. CASE copy' = [copy EXCEPT ![p] = Titled(@)]
    BY <1>0, <1>3, <2>1, <2>3
  <2> QED
    BY <1>6, <2>2, <2>3 DEF SaveThread
<1>7. CASE CountMessages(p) \/ FindCutoff(p)
  BY <1>0, <1>1, <1>7 DEF CountMessages, FindCutoff, Compacted, db, locals
<1>8. CASE Summarize(p)
  <2>1. PICK new : copy' = [copy EXCEPT ![p].summary = @ \cup new, ![p].summarySeq = local[p].cutoff]
    BY <1>8 DEF Summarize
  <2>2. copy'[p].alive
    BY <1>0, <2>1 DEF Row
  <2> QED
    BY <1>8, <2>2 DEF Summarize, db
<1>9. CASE SaveSummary(p)
  BY <1>0, <1>1, <1>9 DEF SaveSummary, Save, Compacted, locals
<1>10. CASE p \in Runs /\ ToolStep(p)
  <2>1. run' = run
    BY <1>10 DEF ToolStep, ToolReturns, SetConversationTitle, ActivateSkill, ExecuteTool
  <2>2. CASE ToolReturns(p)
    BY <1>0, <2>1, <2>2 DEF ToolReturns
  <2>3. CASE SetConversationTitle(p)
    BY <1>0, <2>1, <2>3 DEF SetConversationTitle, SetTitle, Row
  <2>4. CASE ActivateSkill(p)
    <3>1. PICK active : PersistSkills(p, active)
      BY <2>4 DEF ActivateSkill
    <3>2. CASE UNCHANGED <<thread, copy>>
      BY <1>0, <2>1, <3>2
    <3>3. CASE /\ thread' = IF thread.alive THEN [thread EXCEPT !.skills = active] ELSE thread
               /\ copy' = [copy EXCEPT ![p].skills = active]
      BY <1>0, <2>1, <3>3 DEF Row
    <3> QED
      BY <3>1, <3>2, <3>3 DEF PersistSkills
  <2> QED
    BY <1>10, <2>2, <2>3, <2>4 DEF ToolStep
<1>11. CASE p \in Runs /\ (FinishRun(p) \/ FailRun(p) \/ StartRun(p))
  BY <1>0, <1>1, <1>11 DEF FinishRun, FailRun, StartRun, EndRun, TypeOK, locals
<1>12. CASE p \in Runs /\ (BuildModelMessages(p) \/ EnterToolLoop(p) \/ CompleteRun(p))
  BY <1>0, <1>1, <1>2, <1>12 DEF BuildModelMessages, EnterToolLoop, CompleteRun, db
<1>13. CASE p \in Runs /\ (SelectWindow(p) \/ ModelCallsTools(p) \/ ModelAnswers(p) \/ GenerationFails(p))
  BY <1>0, <1>13 DEF SelectWindow, ModelCallsTools, ModelAnswers, GenerationFails, db, locals
<1> QED
  BY <1>4, <1>5, <1>6, <1>7, <1>8, <1>9, <1>10, <1>11, <1>12, <1>13
     DEF Acts, Working, MessageStep, CompactionStep, RunStep

LEMMA ActorTracked ==
    ASSUME TrackInv, NEW r \in Runs, Acts(r)
    PROVE  Tracked(r)'
<1>0. r \in Procs /\ TypeOK /\ Sound(r, pc[r], local[r]) /\ local[r] \in Local /\ Tracked(r) /\ run \in [Runs -> RunRow]
  BY Constants DEF TrackInv, TypeInv, TypeOK, LocalsSound
<1>1. ASSUME NEW l \in Labels, Goto(r, l) PROVE pc'[r] = l
  BY <1>0, <1>1, GotoTyped
<1>2. ASSUME NEW l, Set(r, l) PROVE local'[r] = l
  BY <1>0, <1>2 DEF Set, TypeOK
<1>3. ~thread'.alive => ~thread.alive
  BY <1>0, OnlyDeletionKills DEF TrackInv
<1>4. r \notin Compactors /\ r \notin Notes
  BY ConversationAssumption
<1>5. ASSUME Return(r), run'[r].live => run'[r].status # "running" \/ faults' # 0
      PROVE  Tracked(r)'
  BY <1>0, <1>5, ReturnTyped DEF Tracked, Before, Late, Storing
<1>6. ASSUME run'[r] = run[r], Before(r)' => Before(r), Late(r)' => Late(r) \/ thread'.alive, pc'[r] # "done"
      PROVE  Tracked(r)'
  BY <1>0, <1>3, <1>6 DEF Tracked
<1>7. CASE Cancelled(r)
  BY <1>5, <1>7 DEF Cancelled, Fault, TrackInv, TypeInv, TypeOK
<1>8. CASE CreateRun(r)
  <2>1. CASE Return(r)
    BY <1>0, <1>5, <1>8, <2>1 DEF CreateRun, db, Tracked, Before
  <2>2. CASE ~Return(r)
    <3>1. local[r].draft.role = "user" /\ Before(r)
      BY <1>0, <1>8, <2>2 DEF CreateRun, Sound, Fresh, Draft, Before
    <3>2. pc'[r] = "sequence" /\ local'[r] = [local[r] EXCEPT !.active = IF r \in Runs THEN thread.skills ELSE {}]
      BY <1>1, <1>2, <1>8, <2>2 DEF CreateRun, Labels
    <3>3. local'[r].draft.role = "user"
      BY <1>0, <3>1, <3>2 DEF Local
    <3> QED
      BY <1>6, <1>8, <3>1, <3>2, <3>3 DEF CreateRun, db, Before, Late
  <2> QED
    BY <2>1, <2>2
<1>9. CASE ReadSequence(r)
  <2>1. pc'[r] = "create" /\ local'[r] = [local[r] EXCEPT !.draft.seq = NextSequence] /\ pc[r] = "sequence"
    BY <1>1, <1>2, <1>9 DEF ReadSequence, Labels
  <2>2. local'[r].draft.role = local[r].draft.role
    BY <1>0, <2>1 DEF Local, Message
  <2> QED
    BY <1>6, <1>9, <2>1, <2>2 DEF ReadSequence, db, Before, Late, Storing
<1>10. CASE CreateMessage(r)
  BY <1>1, <1>6, <1>10 DEF CreateMessage, locals, Before, Late, Storing, Labels
<1>11. CASE SaveThread(r)
  <2>1. Goto(r, AfterMessage(r)) /\ local' = local /\ pc[r] = "save"
    BY <1>11 DEF SaveThread
  <2>2. local[r].draft.role \in Roles
    BY <1>0 DEF Local, Message
  <2>3. AfterMessage(r) \in {"start", "tools", "model", "finish"}
    BY <2>2 DEF AfterMessage, Roles
  <2>4. AfterMessage(r) = "start" <=> local[r].draft.role = "user"
    BY <2>2 DEF AfterMessage, Roles
  <2>5. pc'[r] = AfterMessage(r)
    BY <1>1, <2>1, <2>3 DEF Labels
  <2> QED
    BY <1>6, <1>11, <2>1, <2>3, <2>4, <2>5 DEF SaveThread, Before, Late, Storing
<1>12. CASE CompactionStep(r)
  <2>1. Late(r) /\ ~Return(r) /\ run' = run
    <3>1. pc[r] \in {"count", "latest", "read", "summarized"}
      BY <1>12 DEF CompactionStep, CountMessages, FindCutoff, Summarize, SaveSummary
    <3>2. run' = run
      BY <1>12 DEF CompactionStep, CountMessages, FindCutoff, Summarize, SaveSummary, db
    <3>3. pc'[r] \in {"select", "latest", "fail", "read", "summarized"}
      BY <1>1, <1>12 DEF CompactionStep, CountMessages, FindCutoff, Summarize, SaveSummary, Compacted, Labels
    <3>4. ~Return(r)
      BY <1>0, <3>3, ReturnTyped
    <3> QED
      BY <3>1, <3>2, <3>4 DEF Late
  <2>2. pc'[r] \in {"select", "latest", "fail", "read", "summarized"}
    BY <1>1, <1>12 DEF CompactionStep, CountMessages, FindCutoff, Summarize, SaveSummary, Compacted, Labels
  <2> QED
    BY <1>6, <2>1, <2>2 DEF Before, Storing
<1>13. CASE StartRun(r)
  <2>1. pc'[r] = "build" /\ run'[r] = [status |-> "running", live |-> TRUE]
    BY <1>0, <1>1, <1>13 DEF StartRun, Labels
  <2> QED
    BY <2>1 DEF Tracked, Before, Late, Storing
<1>14. CASE BuildModelMessages(r)
  <2>1. pc'[r] \in {"count", "fail"} /\ run' = run /\ thread' = thread
    BY <1>1, <1>14 DEF BuildModelMessages, db, Labels
  <2>2. pc'[r] = "count" => thread'.alive
    BY <1>1, <1>14, <2>1 DEF BuildModelMessages, GetConversation, Labels
  <2> QED
    BY <1>6, <2>1, <2>2 DEF Before, Late, Storing
<1>15. CASE SelectWindow(r) \/ EnterToolLoop(r) \/ ModelAnswers(r) \/ GenerationFails(r)
  <2>1. pc'[r] \in {"loop", "model", "fail", "complete"} /\ run' = run
    BY <1>1, <1>15 DEF SelectWindow, EnterToolLoop, ModelAnswers, GenerationFails, db, Labels
  <2>2. Late(r)
    BY <1>15 DEF SelectWindow, EnterToolLoop, ModelAnswers, GenerationFails, Late
  <2> QED
    BY <1>6, <2>1, <2>2 DEF Before, Storing
<1>16. CASE ModelCallsTools(r)
  <2>1. PICK n \in 1..MaxCalls :
            Set(r, [local[r] EXCEPT !.draft = Draft(r, "call", {<<r, local[r].rounds, i>> : i \in 1..n}, None),
                                    !.pending = {<<r, local[r].rounds, i>> : i \in 1..n},
                                    !.rounds = @ - 1])
    BY <1>16 DEF ModelCallsTools
  <2>2. local'[r].draft.role = "call"
    <3> DEFINE calls == {<<r, local[r].rounds, i>> : i \in 1..n}
    <3>1. local'[r] = [local[r] EXCEPT !.draft = Draft(r, "call", calls, None), !.pending = calls, !.rounds = @ - 1]
      BY <1>2, <2>1
    <3> HIDE DEF calls
    <3>2. local'[r].draft = Draft(r, "call", calls, None)
      BY <1>0, <3>1 DEF Local
    <3> QED
      BY <3>2 DEF Draft
  <2>3. pc'[r] = "sequence" /\ run' = run /\ Late(r)
    BY <1>1, <1>16 DEF ModelCallsTools, db, Labels, Late
  <2> QED
    BY <1>6, <2>2, <2>3 DEF Before
<1>17. CASE ToolStep(r)
  <2>1. PICK call, active : ExecuteTool(r, call, active)
    BY <1>17 DEF ToolStep, ToolReturns, SetConversationTitle, ActivateSkill
  <2>2. pc'[r] = "sequence" /\ run' = run
        /\ local'[r] = [local[r] EXCEPT !.draft = Draft(r, "tool", {}, call),
                                        !.pending = @ \ {call}, !.active = active]
    BY <1>1, <1>2, <2>1 DEF ExecuteTool, Labels
  <2>3. local'[r].draft.role = "tool"
    BY <1>0, <2>2 DEF Local, Draft
  <2>4. Late(r)
    BY <1>17 DEF ToolStep, ToolReturns, SetConversationTitle, ActivateSkill, Late
  <2> QED
    BY <1>6, <2>2, <2>3, <2>4 DEF Before
<1>18. CASE CompleteRun(r)
  <2>1. CASE Return(r) /\ ~thread.alive
    BY <1>0, <1>5, <1>18, <2>1 DEF CompleteRun, db, Tracked, Late
  <2>2. CASE Set(r, [local[r] EXCEPT !.draft = Draft(r, "assistant", {}, None)]) /\ Goto(r, "sequence")
    <3>1. local'[r].draft.role = "assistant"
      BY <1>0, <1>2, <2>2 DEF Local, Draft
    <3>2. pc'[r] = "sequence"
      BY <1>1, <2>2 DEF Labels
    <3> QED
      BY <1>6, <1>18, <3>1, <3>2 DEF CompleteRun, db, Before, Late
  <2> QED
    BY <1>18, <2>1, <2>2 DEF CompleteRun
<1>19. CASE FinishRun(r) \/ FailRun(r)
  <2>1. PICK status \in {"completed", "failed"} : EndRun(r, status)
    BY <1>19 DEF FinishRun, FailRun
  <2> QED
    BY <1>0, <1>5, <2>1 DEF EndRun
<1> QED
  BY <1>4, <1>7, <1>8, <1>9, <1>10, <1>11, <1>12, <1>13, <1>14, <1>15, <1>16, <1>17, <1>18, <1>19
     DEF Acts, Working, MessageStep, RunStep, CompactConversation

LEMMA TrackStep == TrackInv /\ [Next]_vars => TrackInv'
<1> SUFFICES ASSUME TrackInv, [Next]_vars PROVE TrackInv'
  OBVIOUS
<1>0. TypeInv' /\ TypeOK /\ Runs \subseteq Procs
  BY TypeInvStep, Constants DEF TrackInv, TypeInv
<1>1. ASSUME NEW p \in Procs, Acts(p) PROVE TrackInv'
  <2>1. CopiesAlive'
    BY <1>0, <1>1, OnlyDeletionKills, OthersWait DEF TrackInv, CopiesAlive
  <2>2. ASSUME NEW r \in Runs, r # p PROVE Tracked(r)'
    <3>1. pc'[r] = pc[r] /\ local'[r] = local[r] /\ run'[r] = run[r] /\ (~thread'.alive => ~thread.alive)
      BY <1>0, <1>1, <2>2, OnlyDeletionKills, OthersWait DEF TrackInv
    <3>2. faults' = faults \/ Cancelled(p)
      BY <1>1 DEF Acts, CreateRun, CompactConversation, Working, MessageStep, CompactionStep, RunStep,
         ToolStep, ReadSequence, CreateMessage, SaveThread, CountMessages, FindCutoff, Summarize, SaveSummary,
         StartRun, BuildModelMessages, SelectWindow, EnterToolLoop, ModelCallsTools, ModelAnswers, GenerationFails,
         ToolReturns, SetConversationTitle, ActivateSkill, ExecuteTool, CompleteRun, FinishRun, FailRun, EndRun
    <3>3. faults' = 0 => faults = 0
      BY <1>0, <3>2 DEF Cancelled, Fault, TypeOK
    <3> QED
      BY <3>1, <3>3 DEF TrackInv, Tracked, Before, Late
  <2>3. \A r \in Runs : Tracked(r)'
    BY <1>1, <2>2, ActorTracked
  <2> QED
    BY <1>0, <2>1, <2>3 DEF TrackInv
<1>2. CASE Crash
  <2>1. CopiesAlive'
    BY <1>2 DEF Crash, CopiesAlive, NewThread
  <2>2. faults' # 0
    BY <1>0, <1>2 DEF Crash, Fault, TypeOK
  <2>3. ASSUME NEW r \in Runs PROVE Tracked(r)'
    <3>1. pc'[r] = IF pc[r] = "idle" THEN "idle" ELSE "done"
      BY <1>0, <1>2 DEF Crash
    <3> QED
      BY <1>2, <2>2, <3>1 DEF Crash, db, TrackInv, Tracked, Before, Late, Storing
  <2> QED
    BY <1>0, <2>1, <2>3 DEF TrackInv
<1>3. CASE DeleteConversation
  <2>1. \A r \in Runs : run'[r].live = FALSE /\ run'[r].status = run[r].status
    BY <1>0, <1>3 DEF DeleteConversation, SoftDeleteThreads, TypeOK, RunRow
  <2> QED
    BY <1>0, <1>3, <2>1 DEF DeleteConversation, locals, TrackInv, CopiesAlive, Tracked, Before, Late
<1>4. CASE SetConversationGroup \/ DeleteConversationGroup
  <2>1. thread'.alive = thread.alive
    BY <1>0, <1>4 DEF SetConversationGroup, DeleteConversationGroup, TypeOK, Row
  <2> QED
    BY <1>0, <1>4, <2>1 DEF SetConversationGroup, DeleteConversationGroup, locals,
                            TrackInv, CopiesAlive, Tracked, Before, Late
<1>5. CASE UNCHANGED vars
  BY <1>0, <1>5 DEF vars, db, locals, TrackInv, CopiesAlive, Tracked, Before, Late
<1> QED
  BY <1>1, <1>2, <1>3, <1>4, <1>5 DEF Next, AccountStep, Acts

LEMMA TrackInit == Init => TrackInv
<1>1. ASSUME Init PROVE TypeInv
  BY <1>1, TypeInit
<1>2. ASSUME Init PROVE CopiesAlive /\ \A r \in Runs : Tracked(r)
  BY <1>2, Constants DEF Init, CopiesAlive, NewThread, Tracked, Before, Late, Storing
<1> QED
  BY <1>1, <1>2 DEF TrackInv

\* However requests, deletions and stale saves overlap: a request that is over has
\* left no live run that says it is running, as long as no fault took its writes.
THEOREM SpecNoRunLeftRunning == Spec => []NoRunLeftRunning
<1>1. TrackInv => NoRunLeftRunning
  BY DEF TrackInv, Tracked, NoRunLeftRunning
<1> QED
  BY <1>1, TrackInit, TrackStep, PTL DEF Spec

-----------------------------------------------------------------------------
(* Requests that do not overlap.  The one that is working holds the row as  *)
(* it is, but for a summary it has not saved yet.                           *)

Alone == \A p, q \in Procs : ~Idle(p) /\ ~Idle(q) => p = q

\* A summary is not ahead of the messages, and has what was said before its end.
Honest(row) ==
    /\ row.summarySeq <= LastSequence(messages)
    /\ \A m \in Spoken(messages) : m.seq <= row.summarySeq => m \in row.summary

Holds(p) ==
    /\ thread.alive
    /\ pc[p] # "summarized" => copy[p] = thread
    /\ copy[p].alive
    /\ copy[p].group = thread.group /\ copy[p].title = thread.title /\ copy[p].skills = thread.skills
    /\ p \in Runs => thread.skills \subseteq local[p].active
    /\ pc[p] = "create" => local[p].draft.seq > LastSequence(messages)
    /\ pc[p] = "read" => local[p].cutoff <= LastSequence(messages)
    /\ pc[p] = "summarized" => Honest(copy[p])

RowSound == FiledUnderLiveGroup /\ (thread.alive => Honest(thread))

SerialInv == TypeInv /\ Alone /\ RowSound /\ \A p \in Procs : ~Idle(p) => Holds(p)

\* What a step of the one request that works leaves to show.
Worked(p) == RowSound' /\ (~Idle(p)' => Holds(p)')

LEMMA NothingMoved ==
    ASSUME RowSound, UNCHANGED <<thread, messages, groups>>
    PROVE  RowSound'
BY DEF RowSound, FiledUnderLiveGroup, Honest

LEMMA HoldsTheRow ==
    ASSUME NEW p \in Procs, RowSound', thread'.alive, copy'[p] = thread',
           p \in Runs => thread'.skills \subseteq local'[p].active,
           pc'[p] \notin {"create", "read", "summarized"}
    PROVE  Worked(p)
BY DEF Worked, Holds

LEMMA Gone ==
    ASSUME TypeOK, NEW p \in Procs, Return(p), RowSound'
    PROVE  Worked(p)
BY ReturnTyped DEF Worked, Idle

LEMMA BeginsSerial ==
    ASSUME SerialInv, NEW p \in Procs, CreateRun(p) \/ CompactConversation(p)
    PROVE  Worked(p)
<1>0. TypeOK /\ local[p] \in Local
  BY DEF SerialInv, TypeInv, TypeOK
<1>1. RowSound' /\ thread' = thread
  BY NothingMoved DEF SerialInv, CreateRun, CompactConversation, db
<1>2. CASE Return(p)
  BY <1>0, <1>1, <1>2, Gone
<1>3. CASE GetConversation(p) /\ CreateRun(p) /\ ~Return(p)
  <2>1. thread'.alive /\ copy'[p] = thread'
    BY <1>0, <1>1, <1>3 DEF GetConversation, TypeOK
  <2>2. pc'[p] = "sequence"
    BY <1>0, <1>3, GotoTyped DEF CreateRun, Labels
  <2>3. local'[p] = [local[p] EXCEPT !.active = IF p \in Runs THEN thread.skills ELSE {}]
    BY <1>0, <1>3 DEF CreateRun, Set, TypeOK
  <2>4. p \in Runs => local'[p].active = thread'.skills
    BY <1>0, <1>1, <2>3 DEF Local
  <2> QED
    BY <1>1, <2>1, <2>2, <2>4, HoldsTheRow
<1>4. CASE GetConversation(p) /\ CompactConversation(p) /\ ~Return(p)
  <2>1. thread'.alive /\ copy'[p] = thread'
    BY <1>0, <1>1, <1>4 DEF GetConversation, TypeOK
  <2>2. pc'[p] = "count"
    BY <1>0, <1>4, GotoTyped DEF CompactConversation, Labels
  <2>3. p \notin Runs
    BY <1>4, ConversationAssumption DEF CompactConversation
  <2> QED
    BY <1>1, <2>1, <2>2, <2>3, HoldsTheRow
<1> QED
  BY <1>2, <1>3, <1>4 DEF CreateRun, CompactConversation

LEMMA MessageSerial ==
    ASSUME SerialInv, NEW p \in Procs, MessageStep(p)
    PROVE  Worked(p)
<1>0. TypeOK /\ TypeInv /\ local[p] \in Local /\ thread \in Row
  BY DEF SerialInv, TypeInv, TypeOK
<1>1. Holds(p) /\ RowSound
  BY DEF SerialInv, MessageStep, ReadSequence, CreateMessage, SaveThread, Idle
<1>2. LastSequence(messages) \in Nat /\ \A m \in messages : m.seq \in Nat /\ m.seq <= LastSequence(messages)
  BY <1>0, Last DEF TypeOK, Message
<1>3. CASE ReadSequence(p)
  <2>1. RowSound' /\ thread' = thread /\ messages' = messages /\ copy' = copy
    BY <1>1, <1>3, NothingMoved DEF ReadSequence, db
  <2>2. pc'[p] = "create" /\ pc[p] = "sequence"
    BY <1>0, <1>3, GotoTyped DEF ReadSequence, Labels
  <2>3. local'[p] = [local[p] EXCEPT !.draft.seq = NextSequence]
    BY <1>0, <1>3 DEF ReadSequence, Set, TypeOK
  <2>4. local'[p].draft.seq = NextSequence /\ local'[p].active = local[p].active
    BY <1>0, <2>3 DEF Local, Message
  <2>5. NextSequence > LastSequence(messages)
    BY <1>2 DEF NextSequence
  <2> QED
    BY <1>1, <2>1, <2>2, <2>4, <2>5 DEF Worked, Holds
<1>4. CASE CreateMessage(p)
  <2>1. /\ messages' = messages \cup {local[p].draft} /\ pc[p] = "create"
        /\ UNCHANGED <<thread, groups, copy, local>>
    BY <1>4 DEF CreateMessage, locals
  <2>2. pc'[p] = "save"
    BY <1>0, <1>4, GotoTyped DEF CreateMessage, Labels
  <2>3. local[p].draft.seq > LastSequence(messages) /\ local[p].draft.seq \in Nat
    BY <1>0, <1>1, <2>1 DEF Holds, Local, Message
  <2>4. LastSequence(messages') \in Nat /\ local[p].draft.seq <= LastSequence(messages')
    <3>1. messages' \in SUBSET Message
      BY <1>0, <2>1 DEF TypeOK, Local
    <3>2. \A m \in messages' : m.seq <= local[p].draft.seq
      BY <1>2, <2>1, <2>3
    <3>3. local[p].draft \in messages'
      BY <2>1
    <3> QED
      BY <2>3, <3>1, <3>2, <3>3, LastIsLast
  <2>5. thread.alive /\ Honest(thread) /\ thread.summarySeq \in Int
    BY <1>0, <1>1 DEF Holds, RowSound, Row
  <2>6. Honest(thread)'
    <3>1. thread'.summarySeq <= LastSequence(messages')
      BY <1>2, <2>1, <2>3, <2>4, <2>5 DEF Honest
    <3>2. ASSUME NEW m \in Spoken(messages'), m.seq <= thread.summarySeq PROVE m \in thread.summary
      <4>1. m # local[p].draft
        BY <1>2, <2>3, <2>5, <3>2 DEF Honest
      <4>2. m \in Spoken(messages)
        BY <2>1, <4>1 DEF Spoken
      <4> QED
        BY <2>5, <3>2, <4>2 DEF Honest
    <3> QED
      BY <2>1, <3>1, <3>2 DEF Honest
  <2>7. RowSound'
    BY <1>1, <2>1, <2>6 DEF RowSound, FiledUnderLiveGroup
  <2> QED
    BY <1>1, <2>1, <2>2, <2>7, HoldsTheRow DEF Holds
<1>5. CASE SaveThread(p)
  <2>1. copy[p] = thread /\ thread.alive
    BY <1>1, <1>5 DEF SaveThread, Holds
  <2>2. thread' = Titled(thread) /\ messages' = messages /\ groups' = groups
    BY <1>5, <2>1 DEF SaveThread, Save
  <2>3. /\ thread'.alive /\ thread'.group = thread.group /\ thread'.skills = thread.skills
        /\ thread'.summary = thread.summary /\ thread'.summarySeq = thread.summarySeq
    BY <1>0, <2>1, <2>2 DEF Titled, Row
  <2>4. RowSound'
    BY <1>1, <2>1, <2>2, <2>3 DEF RowSound, FiledUnderLiveGroup, Honest
  <2>5. CASE Return(p)
    BY <1>0, <2>4, <2>5, Gone
  <2>6. CASE p \in Runs /\ copy' = [copy EXCEPT ![p] = Titled(@)] /\ Goto(p, AfterMessage(p)) /\ local' = local
    <3>1. copy'[p] = thread'
      BY <1>0, <2>1, <2>2, <2>6 DEF TypeOK
    <3>2. local[p].draft.role \in Roles
      BY <1>0 DEF Local, Message
    <3>3. AfterMessage(p) \in {"start", "tools", "model", "finish"}
      BY <3>2 DEF AfterMessage, Roles
    <3>4. pc'[p] \in {"start", "tools", "model", "finish"}
      BY <1>0, <2>6, <3>3, GotoTyped DEF Labels
    <3> QED
      BY <1>1, <2>3, <2>4, <2>6, <3>1, <3>4, HoldsTheRow DEF Holds
  <2> QED
    BY <1>5, <2>5, <2>6 DEF SaveThread
<1> QED
  BY <1>3, <1>4, <1>5 DEF MessageStep

LEMMA CompactionSerial ==
    ASSUME SerialInv, NEW p \in Procs, CompactionStep(p)
    PROVE  Worked(p)
<1>0. TypeOK /\ TypeInv /\ local[p] \in Local /\ thread \in Row /\ copy[p] \in Row
  BY DEF SerialInv, TypeInv, TypeOK
<1>1. Holds(p) /\ RowSound
  BY DEF SerialInv, CompactionStep, CountMessages, FindCutoff, Summarize, SaveSummary, Idle
<1>2. LastSequence(messages) \in Nat /\ \A m \in messages : m.seq \in Nat /\ m.seq <= LastSequence(messages)
  BY <1>0, Last DEF TypeOK, Message
<1>3. CASE CountMessages(p) \/ FindCutoff(p)
  <2>1. RowSound' /\ thread' = thread /\ messages' = messages /\ copy[p] = thread /\ thread.alive
    BY <1>1, <1>3, NothingMoved DEF CountMessages, FindCutoff, db, Holds
  <2>2. CASE Return(p)
    BY <1>0, <2>1, <2>2, Gone
  <2>3. CASE FindCutoff(p) /\ ~Return(p) /\ Set(p, [local[p] EXCEPT !.cutoff = Cutoff(p)])
             /\ Goto(p, "read") /\ copy' = copy
    <3>1. local'[p].cutoff = Cutoff(p) /\ local'[p].active = local[p].active
      BY <1>0, <2>3 DEF Set, Local, TypeOK
    <3>2. Cutoff(p) <= LastSequence(messages)
      BY <1>0, <1>2, LimitTyped DEF Cutoff
    <3>3. pc'[p] = "read"
      BY <1>0, <2>3, GotoTyped DEF Labels
    <3> QED
      BY <1>1, <2>1, <2>3, <3>1, <3>2, <3>3 DEF Worked, Holds
  <2>4. CASE ~Return(p) /\ UNCHANGED locals /\ (Goto(p, "latest") \/ Goto(p, "select") \/ Goto(p, "fail"))
    <3>1. pc'[p] \in {"latest", "select", "fail"}
      BY <1>0, <2>4, GotoTyped DEF Labels
    <3> QED
      BY <1>1, <2>1, <2>4, <3>1, HoldsTheRow DEF locals, Holds
  <2> QED
    BY <1>3, <2>2, <2>3, <2>4 DEF CountMessages, FindCutoff, Compacted
<1>4. CASE Summarize(p)
  <2>1. RowSound' /\ thread' = thread /\ messages' = messages /\ copy[p] = thread /\ thread.alive /\ Honest(thread)
        /\ local' = local /\ local[p].cutoff <= LastSequence(messages)
    BY <1>1, <1>4, NothingMoved DEF Summarize, db, Holds, RowSound
  <2>2. PICK new \in Summaries(ToSummarize(p)) :
            copy' = [copy EXCEPT ![p].summary = @ \cup new, ![p].summarySeq = local[p].cutoff]
    BY <1>4 DEF Summarize
  <2>3. /\ copy'[p].alive
        /\ copy'[p].group = thread.group /\ copy'[p].title = thread.title /\ copy'[p].skills = thread.skills
        /\ copy'[p].summary = thread.summary \cup new /\ copy'[p].summarySeq = local[p].cutoff
    BY <1>0, <2>1, <2>2 DEF TypeOK, Row
  <2>4. pc'[p] = "summarized"
    BY <1>0, <1>4, GotoTyped DEF Summarize, Labels
  <2>5. ASSUME NEW m \in Spoken(messages), m.seq <= local[p].cutoff PROVE m \in thread.summary \cup new
    <3>1. CASE m.seq <= thread.summarySeq
      BY <2>1, <3>1 DEF Honest
    <3>2. CASE ~(m.seq <= thread.summarySeq)
      <4>1. m \in messages /\ m.role # "tool"
        BY DEF Spoken, SpokenRoles
      <4>2. thread.summarySeq < m.seq
        BY <1>0, <1>2, <3>2, <4>1 DEF Row
      <4>3. m \in ToSummarize(p) /\ m \in Transcript(ToSummarize(p))
        BY <2>1, <2>5, <4>1, <4>2 DEF ToSummarize, Transcript
      <4> QED
        BY <2>2, <4>3 DEF Summaries
    <3> QED
      BY <3>1, <3>2
  <2>6. Honest(copy[p])'
    BY <2>1, <2>3, <2>5 DEF Honest
  <2> QED
    BY <1>1, <2>1, <2>3, <2>4, <2>6 DEF Worked, Holds
<1>5. CASE SaveSummary(p)
  <2>1. thread' = copy[p] /\ messages' = messages /\ groups' = groups /\ pc[p] = "summarized" /\ Honest(copy[p])
    BY <1>1, <1>5 DEF SaveSummary, Save, Holds
  <2>2. thread'.group = thread.group /\ thread'.skills = thread.skills /\ thread'.group = thread.group
    BY <1>1, <2>1 DEF Holds
  <2>3. thread'.alive => Honest(thread)'
    BY <2>1 DEF Honest
  <2>4. RowSound'
    BY <1>1, <2>1, <2>2, <2>3 DEF RowSound, FiledUnderLiveGroup, Holds
  <2>5. CASE Return(p)
    BY <1>0, <2>4, <2>5, Gone
  <2>6. CASE p \in Runs /\ Goto(p, "select") /\ UNCHANGED locals
    <3>1. pc'[p] = "select"
      BY <1>0, <2>6, GotoTyped DEF Labels
    <3>2. copy[p].alive
      BY <1>1 DEF Holds
    <3> QED
      BY <1>1, <2>1, <2>2, <2>4, <2>6, <3>1, <3>2, HoldsTheRow DEF locals, Holds
  <2> QED
    BY <1>5, <2>5, <2>6 DEF SaveSummary, Compacted
<1> QED
  BY <1>3, <1>4, <1>5 DEF CompactionStep

LEMMA ToolSerial ==
    ASSUME SerialInv, NEW p \in Runs, ToolStep(p)
    PROVE  Worked(p) /\ (thread'.title # thread.title => thread'.title = p) /\ thread.skills \subseteq thread'.skills
<1>0. p \in Procs /\ TypeOK /\ local[p] \in Local /\ thread \in Row
  BY Constants DEF SerialInv, TypeInv, TypeOK
<1>1. Holds(p) /\ RowSound /\ copy[p] = thread /\ thread.alive /\ Honest(thread) /\ thread.skills \subseteq local[p].active
  BY <1>0 DEF SerialInv, ToolStep, ToolReturns, SetConversationTitle, ActivateSkill, Idle, Holds, RowSound
<1>2. ASSUME NEW call, NEW active, ExecuteTool(p, call, active)
      PROVE  /\ pc'[p] = "sequence" /\ local'[p].active = active
             /\ messages' = messages /\ groups' = groups
  <2>1. pc'[p] = "sequence"
    BY <1>0, <1>2, GotoTyped DEF ExecuteTool, Labels
  <2>2. local'[p] = [local[p] EXCEPT !.draft = Draft(p, "tool", {}, call), !.pending = @ \ {call}, !.active = active]
    BY <1>0, <1>2 DEF ExecuteTool, Set, TypeOK
  <2> QED
    BY <1>0, <1>2, <2>1, <2>2 DEF ExecuteTool, Local
<1>3. ASSUME messages' = messages, groups' = groups, thread'.alive, thread'.group = thread.group,
             thread'.summary = thread.summary, thread'.summarySeq = thread.summarySeq
      PROVE  RowSound'
  BY <1>1, <1>3 DEF RowSound, FiledUnderLiveGroup, Honest
<1>4. CASE ToolReturns(p)
  <2>1. thread' = thread /\ copy' = copy /\ ExecuteTool(p, NextCall(p), local[p].active)
    BY <1>4 DEF ToolReturns
  <2>2. RowSound'
    BY <1>1, <1>2, <1>3, <2>1
  <2> QED
    BY <1>0, <1>1, <1>2, <2>1, <2>2, HoldsTheRow
<1>5. CASE SetConversationTitle(p)
  <2>1. /\ thread' = [thread EXCEPT !.title = p] /\ copy' = [copy EXCEPT ![p].title = p]
        /\ ExecuteTool(p, NextCall(p), local[p].active)
    BY <1>1, <1>5 DEF SetConversationTitle, SetTitle
  <2>2. copy'[p] = thread'
    BY <1>0, <1>1, <2>1 DEF TypeOK
  <2>3. /\ thread'.alive /\ thread'.group = thread.group /\ thread'.title = p /\ thread'.skills = thread.skills
        /\ thread'.summary = thread.summary /\ thread'.summarySeq = thread.summarySeq
    BY <1>0, <1>1, <2>1 DEF Row
  <2>4. RowSound'
    BY <1>2, <1>3, <2>1, <2>3
  <2> QED
    BY <1>0, <1>1, <1>2, <2>1, <2>2, <2>3, <2>4, HoldsTheRow
<1>6. CASE ActivateSkill(p)
  <2>1. PICK skill \in Skills : /\ PersistSkills(p, local[p].active \cup {skill})
                               /\ ExecuteTool(p, NextCall(p), local[p].active \cup {skill})
    BY <1>6 DEF ActivateSkill
  <2> DEFINE active == local[p].active \cup {skill}
  <2>2. PersistSkills(p, active) /\ ExecuteTool(p, NextCall(p), active) /\ thread.skills \subseteq active
    BY <1>1, <2>1
  <2> HIDE DEF active
  <2>3. CASE copy[p].skills = active
    <3>1. thread' = thread /\ copy' = copy
      BY <2>2, <2>3 DEF PersistSkills
    <3>2. RowSound'
      BY <1>1, <1>2, <1>3, <2>2, <3>1
    <3> QED
      BY <1>0, <1>1, <1>2, <2>2, <2>3, <3>1, <3>2, HoldsTheRow
  <2>4. CASE copy[p].skills # active
    <3>1. thread' = [thread EXCEPT !.skills = active] /\ copy' = [copy EXCEPT ![p].skills = active]
      BY <1>1, <2>2, <2>4 DEF PersistSkills
    <3>2. copy'[p] = thread'
      BY <1>0, <1>1, <3>1 DEF TypeOK
    <3>3. /\ thread'.alive /\ thread'.group = thread.group /\ thread'.title = thread.title /\ thread'.skills = active
          /\ thread'.summary = thread.summary /\ thread'.summarySeq = thread.summarySeq
      BY <1>0, <1>1, <3>1 DEF Row
    <3>4. RowSound'
      BY <1>2, <1>3, <2>2, <3>3
    <3> QED
      BY <1>0, <1>2, <2>2, <3>2, <3>3, <3>4, HoldsTheRow
  <2> QED
    BY <2>3, <2>4
<1> QED
  BY <1>4, <1>5, <1>6 DEF ToolStep

LEMMA RunSerial ==
    ASSUME SerialInv, NEW p \in Runs, RunStep(p), ~ToolStep(p)
    PROVE  Worked(p)
<1>0. p \in Procs /\ TypeOK /\ local[p] \in Local
  BY Constants DEF SerialInv, TypeInv, TypeOK
<1>1. RowSound' /\ thread' = thread
  BY NothingMoved
     DEF SerialInv, RunStep, StartRun, BuildModelMessages, SelectWindow, EnterToolLoop, ModelCallsTools, ModelAnswers,
         GenerationFails, CompleteRun, FinishRun, FailRun, EndRun, db
<1>2. CASE Return(p)
  BY <1>0, <1>1, <1>2, Gone
<1>3. CASE ~Return(p)
  <2>1. Holds(p)
    BY <1>0 DEF SerialInv, RunStep, StartRun, BuildModelMessages, SelectWindow, EnterToolLoop, ModelCallsTools,
                ModelAnswers, GenerationFails, CompleteRun, FinishRun, FailRun, Idle, ToolStep
  <2>2. pc[p] # "summarized"
    BY <1>3 DEF RunStep, StartRun, BuildModelMessages, SelectWindow, EnterToolLoop, ModelCallsTools, ModelAnswers,
                GenerationFails, CompleteRun, FinishRun, FailRun, ToolStep
  <2>3. copy'[p] = thread'
    BY <1>0, <1>1, <1>3, <2>1, <2>2
       DEF RunStep, StartRun, BuildModelMessages, SelectWindow, EnterToolLoop, ModelCallsTools, ModelAnswers,
           GenerationFails, CompleteRun, FinishRun, FailRun, EndRun, GetConversation, Holds, locals, TypeOK, ToolStep
  <2>4. pc'[p] \notin {"create", "read", "summarized"}
    BY <1>0, <1>3, GotoTyped
       DEF RunStep, StartRun, BuildModelMessages, SelectWindow, EnterToolLoop, ModelCallsTools, ModelAnswers,
           GenerationFails, CompleteRun, FinishRun, FailRun, EndRun, Labels
  <2>5. local'[p].active = local[p].active
    <3>1. CASE ModelCallsTools(p)
      <4>1. PICK n \in 1..MaxCalls :
                Set(p, [local[p] EXCEPT !.draft = Draft(p, "call", {<<p, local[p].rounds, i>> : i \in 1..n}, None),
                                        !.pending = {<<p, local[p].rounds, i>> : i \in 1..n},
                                        !.rounds = @ - 1])
        BY <3>1 DEF ModelCallsTools
      <4> DEFINE calls == {<<p, local[p].rounds, i>> : i \in 1..n}
      <4>2. local'[p] = [local[p] EXCEPT !.draft = Draft(p, "call", calls, None), !.pending = calls, !.rounds = @ - 1]
        BY <1>0, <4>1 DEF Set, TypeOK
      <4> HIDE DEF calls
      <4> QED
        BY <1>0, <4>2 DEF Local
    <3>2. CASE BuildModelMessages(p) \/ SelectWindow(p) \/ CompleteRun(p)
      BY <1>0, <1>3, <3>2 DEF BuildModelMessages, SelectWindow, CompleteRun, Set, TypeOK, Local
    <3>3. CASE StartRun(p) \/ EnterToolLoop(p) \/ ModelAnswers(p) \/ GenerationFails(p)
      BY <3>3 DEF StartRun, EnterToolLoop, ModelAnswers, GenerationFails, locals
    <3> QED
      BY <1>3, <3>1, <3>2, <3>3 DEF RunStep, FinishRun, FailRun, EndRun
  <2> QED
    BY <1>0, <1>1, <2>1, <2>3, <2>4, <2>5, HoldsTheRow DEF Holds
<1> QED
  BY <1>2, <1>3

LEMMA ActorSerial ==
    ASSUME SerialInv, NEW p \in Procs, Acts(p)
    PROVE  Worked(p)
<1>1. CASE Cancelled(p)
  <2>1. RowSound'
    BY <1>1, NothingMoved DEF SerialInv, Cancelled, db
  <2> QED
    BY <1>1, <2>1, Gone DEF SerialInv, TypeInv, Cancelled
<1> QED
  BY <1>1, BeginsSerial, MessageSerial, CompactionSerial, ToolSerial, RunSerial DEF Acts, Working

\* Nothing that waits is disturbed: there is nothing else that works.
LEMMA AloneAtWork ==
    ASSUME SerialRequests, SerialInv, NEW p \in Procs, Acts(p), NEW q \in Procs, q # p
    PROVE  Idle(q) /\ Idle(q)'
<1>1. Idle(q)
  <2>1. CASE CreateRun(p) \/ CompactConversation(p)
    BY <2>1 DEF CreateRun, CompactConversation, MayStart
  <2>2. CASE Working(p) \/ Cancelled(p)
    <3>1. ~Idle(p)
      BY <2>2 DEF Working, MessageStep, CompactionStep, RunStep, ToolStep, Cancelled,
         ReadSequence, CreateMessage, SaveThread, CountMessages, FindCutoff, Summarize, SaveSummary,
         StartRun, BuildModelMessages, SelectWindow, EnterToolLoop, ModelCallsTools, ModelAnswers, GenerationFails,
         ToolReturns, SetConversationTitle, ActivateSkill, CompleteRun, FinishRun, FailRun, Idle
    <3> QED
      BY <3>1 DEF SerialInv, Alone
  <2> QED
    BY <2>1, <2>2 DEF Acts
<1>2. pc'[q] = pc[q]
  BY OthersWait DEF SerialInv, TypeInv
<1> QED
  BY <1>1, <1>2 DEF Idle

LEMMA SerialStep == SerialRequests /\ SerialInv /\ [Next]_vars => SerialInv'
<1> SUFFICES ASSUME SerialRequests, SerialInv, [Next]_vars PROVE SerialInv'
  OBVIOUS
<1>0. TypeInv' /\ TypeOK
  BY TypeInvStep DEF SerialInv, TypeInv
<1>1. ASSUME NEW p \in Procs, Acts(p) PROVE SerialInv'
  <2>1. RowSound' /\ (~Idle(p)' => Holds(p)')
    BY <1>1, ActorSerial DEF Worked
  <2>2. \A q \in Procs \ {p} : Idle(q)'
    BY <1>1, AloneAtWork
  <2>3. Alone'
    BY <2>2 DEF Alone
  <2>4. \A q \in Procs : ~Idle(q)' => Holds(q)'
    BY <2>1, <2>2
  <2> QED
    BY <1>0, <2>1, <2>3, <2>4 DEF SerialInv
<1>2. ASSUME RowSound', \A p \in Procs : Idle(p)' PROVE SerialInv'
  BY <1>0, <1>2 DEF SerialInv, Alone
<1>3. CASE Crash
  <2>1. \A p \in Procs : Idle(p)'
    BY <1>3 DEF Crash, Idle
  <2>2. RowSound'
    BY <1>3, NothingMoved DEF SerialInv, Crash, db
  <2> QED
    BY <1>2, <2>1, <2>2
<1>4. CASE AccountStep
  <2>1. \A p \in Procs : Idle(p)'
    BY <1>4 DEF AccountStep, DeleteConversation, SetConversationGroup, DeleteConversationGroup, NobodyWorks, Idle
  <2>2. RowSound'
    <3>0. RowSound /\ thread \in Row
      BY <1>0 DEF SerialInv, TypeOK
    <3>1. CASE DeleteConversation
      BY <3>0, <3>1 DEF DeleteConversation, SoftDeleteThreads, RowSound, FiledUnderLiveGroup, Row
    <3>2. CASE SetConversationGroup
      <4>1. PICK g \in groups \cup {None} : thread' = [thread EXCEPT !.group = g]
        BY <3>2 DEF SetConversationGroup
      <4>2. thread'.group = g /\ thread'.summary = thread.summary /\ thread'.summarySeq = thread.summarySeq
        BY <3>0, <4>1 DEF Row
      <4> QED
        BY <3>0, <3>2, <4>2 DEF SetConversationGroup, RowSound, FiledUnderLiveGroup, Honest
    <3>3. CASE DeleteConversationGroup
      <4>1. PICK g \in groups : /\ groups' = groups \ {g}
                                 /\ thread' = IF thread.alive /\ thread.group = g
                                                THEN [thread EXCEPT !.group = None] ELSE thread
        BY <3>3 DEF DeleteConversationGroup
      <4>2. /\ thread'.alive = thread.alive
            /\ thread'.summary = thread.summary /\ thread'.summarySeq = thread.summarySeq
            /\ thread.alive => thread'.group = IF thread.group = g THEN None ELSE thread.group
        BY <3>0, <4>1 DEF Row
      <4> QED
        BY <3>0, <3>3, <4>1, <4>2 DEF DeleteConversationGroup, RowSound, FiledUnderLiveGroup, Honest
    <3> QED
      BY <1>4, <3>1, <3>2, <3>3 DEF AccountStep
  <2> QED
    BY <1>2, <2>1, <2>2
<1>5. CASE UNCHANGED vars
  BY <1>0, <1>5 DEF vars, db, locals, SerialInv, Alone, RowSound, FiledUnderLiveGroup, Honest, Idle, Holds
<1> QED
  BY <1>1, <1>3, <1>4, <1>5 DEF Next, Acts

LEMMA SerialInit == Init => SerialInv
<1> SUFFICES ASSUME Init PROVE SerialInv
  OBVIOUS
<1>1. TypeInv
  BY TypeInit
<1>2. \A p \in Procs : Idle(p)
  BY DEF Init, Idle
<1>3. RowSound
  BY DEF Init, NewThread, RowSound, FiledUnderLiveGroup, Honest, Spoken, LastSequence
<1> QED
  BY <1>1, <1>2, <1>3 DEF SerialInv, Alone

\* For any number of requests that do not overlap, through crashes and cancelled
\* requests: what the summary has passed over of what was said is in it.
THEOREM SpecSummaryHonest == SerialRequests /\ Spec => []SummaryHonest
<1> SUFFICES ASSUME SerialRequests PROVE Spec => []SummaryHonest
  OBVIOUS
<1>1. SerialInv /\ [Next]_vars => SerialInv'
  BY SerialStep
<1>2. SerialInv => SummaryHonest
  BY DEF SerialInv, RowSound, Honest, SummaryHonest
<1> QED
  BY SerialInit, <1>1, <1>2, PTL DEF Spec

\* Under the same condition the thread is in no group that is gone.
THEOREM SpecFiledUnderLiveGroup == SerialRequests /\ Spec => []FiledUnderLiveGroup
<1> SUFFICES ASSUME SerialRequests PROVE Spec => []FiledUnderLiveGroup
  OBVIOUS
<1>1. SerialInv /\ [Next]_vars => SerialInv'
  BY SerialStep
<1>2. SerialInv => FiledUnderLiveGroup
  BY DEF SerialInv, RowSound
<1> QED
  BY SerialInit, <1>1, <1>2, PTL DEF Spec

\* What a step does to the title and the skills of a thread.
Keeps == thread.alive /\ thread'.alive =>
            /\ thread.title \in Runs => thread'.title \in Runs
            /\ thread.skills \subseteq thread'.skills

LEMMA KeepsStep == SerialRequests /\ SerialInv /\ [Next]_vars => Keeps
<1> SUFFICES ASSUME SerialRequests, SerialInv, [Next]_vars, thread' # thread PROVE Keeps
  BY DEF Keeps
<1>0. thread \in Row
  BY DEF SerialInv, TypeInv, TypeOK
<1>1. ASSUME NEW p \in Procs, p \in Runs, ToolStep(p) PROVE Keeps
  BY <1>1, ToolSerial DEF Keeps
<1>2. ASSUME NEW p \in Procs, SaveThread(p) PROVE Keeps
  <2>1. copy[p] = thread
    BY <1>2 DEF SaveThread, SerialInv, Holds, Idle
  <2>2. thread' = Titled(thread)
    BY <1>2, <2>1 DEF SaveThread, Save
  <2>3. None \notin Runs
    BY ConversationAssumption
  <2> QED
    BY <1>0, <2>2, <2>3 DEF Titled, Keeps, Row
<1>3. ASSUME NEW p \in Procs, SaveSummary(p) PROVE Keeps
  <2>1. Holds(p) /\ thread' = copy[p]
    BY <1>3 DEF SaveSummary, Save, SerialInv, Idle
  <2> QED
    BY <2>1 DEF Holds, Keeps
<1>4. CASE DeleteConversation
  BY <1>0, <1>4 DEF DeleteConversation, SoftDeleteThreads, Keeps, Row
<1>5. CASE SetConversationGroup \/ DeleteConversationGroup
  <2>1. PICK g : thread' = [thread EXCEPT !.group = g]
    BY <1>5 DEF SetConversationGroup, DeleteConversationGroup
  <2>2. thread'.title = thread.title /\ thread'.skills = thread.skills
    BY <1>0, <2>1 DEF Row
  <2> QED
    BY <2>2 DEF Keeps
<1>6. \/ \E p \in Procs : (p \in Runs /\ ToolStep(p)) \/ SaveThread(p) \/ SaveSummary(p)
      \/ AccountStep
  BY DEF Next, Working, MessageStep, CompactionStep, RunStep, CreateRun, CompactConversation,
         ReadSequence, CreateMessage, CountMessages, FindCutoff, Summarize,
         StartRun, BuildModelMessages, SelectWindow, EnterToolLoop, ModelCallsTools, ModelAnswers, GenerationFails,
         CompleteRun, FinishRun, FailRun, EndRun, Crash, Cancelled, db, vars
<1> QED
  BY <1>1, <1>2, <1>3, <1>4, <1>5, <1>6 DEF AccountStep

\* Under the same condition no row that is saved takes back the title a tool gave
\* or a skill a tool switched on.
THEOREM SpecToolWritesKept == SerialRequests /\ Spec => ToolWritesKept
<1> SUFFICES ASSUME SerialRequests PROVE Spec => ToolWritesKept
  OBVIOUS
<1>1. SerialInv /\ [Next]_vars => SerialInv'
  BY SerialStep
<1>2. SerialInv /\ [Next]_vars => [Keeps]_vars
  BY KeepsStep
<1>3. Spec => [][Keeps]_vars
  BY SerialInit, <1>1, <1>2, PTL DEF Spec
<1> QED
  BY <1>3 DEF Keeps, ToolWritesKept
-----------------------------------------------------------------------------
(* Calls and results, whatever overlaps.  A call is in one message, and so  *)
(* is its result, which comes later: a run uses a call once, and numbers a  *)
(* result after it stored the call.                                         *)

Shaped(m) ==
    /\ m.calls # {} => m.role = "call"
    /\ m.role = "tool" <=> m.answers # None

Paired(S) ==
    /\ \A m \in S : Shaped(m)
    /\ \A m, n \in S : m.calls \cap n.calls # {} => m = n
    /\ \A m, n \in S : m.answers # None /\ m.answers = n.answers => m = n
    /\ \A m, n \in S : n.answers \in m.calls => m.seq < n.seq

Owned(p) == {c \in Calls : c[1] = p}

\* Until its prompt is made, a run has called nothing.
Early(p) ==
    \/ pc[p] \in {"idle", "start", "build", "count", "latest", "read", "summarized", "select"}
    \/ pc[p] \in Storing /\ local[p].draft.role = "user"

\* Calls the run may still make, and calls it made whose result is not stored.
Unused(p) == {c \in Owned(p) : Early(p) \/ c[2] <= local[p].rounds}

Answers(p) == pc[p] \in {"sequence", "create"} /\ local[p].draft.role = "tool"
Calling(p) == pc[p] \in {"sequence", "create"} /\ local[p].draft.role = "call"

Made(p) ==
    /\ local[p].pending \subseteq Owned(p) \ Unused(p)
    /\ local[p].draft.calls \subseteq Owned(p) \ Unused(p)
    /\ Shaped(local[p].draft)
    /\ Answers(p) => local[p].draft.answers \in Owned(p) \ (Unused(p) \cup local[p].pending)
    /\ Calling(p) => local[p].draft.calls \subseteq local[p].pending

Untold(p) ==
    Unused(p) \cup local[p].pending
    \cup (IF Answers(p) THEN {local[p].draft.answers} ELSE {})

Unsaid(p) ==
    Unused(p) \cup (IF Calling(p) THEN local[p].draft.calls ELSE {})

\* What a run has yet to say is not in the conversation.
Ahead(p) ==
    \A m \in messages :
        /\ m.calls \cap Unsaid(p) = {}
        /\ m.answers \notin Untold(p)
        /\ pc[p] = "create" /\ local[p].draft.answers \in m.calls => m.seq < local[p].draft.seq

GoodWindow(w) ==
    /\ \A i, j \in DOMAIN w : i < j => w[i] # w[j] /\ w[i].seq <= w[j].seq
    /\ Paired({w[i] : i \in DOMAIN w})

PairInv ==
    /\ TypeInv
    /\ Paired(messages)
    /\ \A p \in Procs : pc[p] # "done" => Made(p) /\ Ahead(p)
    /\ \A r \in Runs : GoodWindow(prompt[r].window)

LEMMA PairedSubset ==
    ASSUME NEW S, NEW T, Paired(S), T \subseteq S
    PROVE  Paired(T)
BY DEF Paired

LEMMA NothingSaid == Paired({}) /\ GoodWindow(NoPrompt.window)
BY DEF Paired, GoodWindow, NoPrompt

LEMMA PairInit == Init => PairInv
<1> SUFFICES ASSUME Init PROVE PairInv
  OBVIOUS
<1>1. TypeInv
  BY TypeInit
<1>2. ASSUME NEW p \in Procs PROVE Made(p) /\ Ahead(p)
  <2>1. pc[p] = "idle" /\ local[p] = Fresh(p) /\ messages = {}
    BY DEF Init
  <2>2. local[p].pending = {} /\ local[p].draft = Draft(p, "user", {}, None)
    BY <2>1 DEF Fresh
  <2> QED
    BY <2>1, <2>2 DEF Made, Ahead, Draft, Shaped, Answers, Calling
<1>3. Paired(messages) /\ \A r \in Runs : GoodWindow(prompt[r].window)
  BY NothingSaid DEF Init
<1> QED
  BY <1>1, <1>2, <1>3 DEF PairInv

LEMMA NoneIsNoCall == \A p : None \notin Owned(p)
BY ConversationAssumption DEF Owned

\* A step of p that says nothing new and promises no more.
LEMMA PairQuiet ==
    ASSUME PairInv, NEW p \in Procs, pc[p] # "done", messages' = messages,
           local'[p].pending = local[p].pending, local'[p].draft = local[p].draft,
           Unused(p)' \subseteq Unused(p), Answers(p)' => Answers(p), Calling(p)' => Calling(p),
           pc'[p] # "create"
    PROVE  Made(p)' /\ Ahead(p)'
<1>1. Made(p) /\ Ahead(p)
  BY DEF PairInv
<1>2. Made(p)'
  BY <1>1 DEF Made
<1>3. Untold(p)' \subseteq Untold(p) /\ Unsaid(p)' \subseteq Unsaid(p)
  BY DEF Untold, Unsaid
<1> QED
  BY <1>1, <1>2, <1>3 DEF Ahead

LEMMA EarlyEnds ==
    ASSUME NEW p, Early(p)' => Early(p), Early(p) \/ local'[p].rounds = local[p].rounds
    PROVE  Unused(p)' \subseteq Unused(p)
BY DEF Unused

LEMMA PairBegins ==
    ASSUME PairInv, NEW p \in Procs, CreateRun(p) \/ CompactConversation(p), ~Return(p)
    PROVE  Made(p)' /\ Ahead(p)'
<1>0. TypeOK /\ local[p] \in Local /\ pc[p] = "idle" /\ messages' = messages
  BY DEF PairInv, TypeInv, TypeOK, CreateRun, CompactConversation, db
<1>1. local[p].draft.role = "user"
  <2>1. Sound(p, pc[p], local[p])
    BY DEF PairInv, TypeInv, LocalsSound
  <2>2. local[p] = Fresh(p)
    BY <1>0, <2>1 DEF Sound
  <2> QED
    BY <2>2 DEF Fresh, Draft
<1>2. \/ \E s : pc'[p] = "sequence" /\ local'[p] = [local[p] EXCEPT !.active = s]
      \/ \E n : pc'[p] = "count" /\ local'[p] = [local[p] EXCEPT !.limit = n]
  <2>1. CASE CreateRun(p)
    <3>1. pc'[p] = "sequence"
      BY <1>0, <2>1, GotoTyped DEF CreateRun, Labels
    <3>2. local'[p] = [local[p] EXCEPT !.active = IF p \in Runs THEN thread.skills ELSE {}]
      BY <1>0, <2>1 DEF CreateRun, Set, TypeOK
    <3> QED
      BY <3>1, <3>2
  <2>2. CASE CompactConversation(p)
    <3>1. pc'[p] = "count"
      BY <1>0, <2>2, GotoTyped DEF CompactConversation, Labels
    <3>2. PICK limit \in Limits : Set(p, [local[p] EXCEPT !.limit = limit])
      BY <2>2 DEF CompactConversation
    <3>3. local'[p] = [local[p] EXCEPT !.limit = limit]
      BY <1>0, <3>2 DEF Set, TypeOK
    <3> QED
      BY <3>1, <3>3
  <2> QED
    BY <2>1, <2>2
<1>3. /\ local'[p].draft = local[p].draft /\ local'[p].pending = local[p].pending
      /\ local'[p].rounds = local[p].rounds
  BY <1>0, <1>2 DEF Local
<1>4. Early(p) /\ ~Answers(p)' /\ ~Calling(p)'
  BY <1>0, <1>1, <1>3 DEF Early, Answers, Calling
<1>5. Unused(p)' \subseteq Unused(p)
  BY <1>3, <1>4, EarlyEnds
<1> QED
  BY <1>0, <1>2, <1>3, <1>4, <1>5, PairQuiet

LEMMA PairMessage ==
    ASSUME PairInv, NEW p \in Procs, MessageStep(p), ~Return(p)
    PROVE  Made(p)' /\ Ahead(p)' /\ Paired(messages)'
<1>0. TypeOK /\ TypeInv /\ local[p] \in Local /\ local[p].draft \in Message
  BY DEF PairInv, TypeInv, TypeOK, Local
<1>1. Made(p) /\ Ahead(p) /\ Paired(messages)
  BY DEF PairInv, MessageStep, ReadSequence, CreateMessage, SaveThread
<1>2. CASE ReadSequence(p)
  <2>1. pc'[p] = "create" /\ pc[p] = "sequence" /\ messages' = messages
    BY <1>0, <1>2, GotoTyped DEF ReadSequence, Labels, db
  <2>2. local'[p] = [local[p] EXCEPT !.draft.seq = NextSequence]
    BY <1>0, <1>2 DEF ReadSequence, Set, TypeOK
  <2>3. /\ local'[p].draft.role = local[p].draft.role /\ local'[p].draft.calls = local[p].draft.calls
        /\ local'[p].draft.answers = local[p].draft.answers /\ local'[p].draft.seq = NextSequence
        /\ local'[p].pending = local[p].pending /\ local'[p].rounds = local[p].rounds
    BY <1>0, <2>2 DEF Local, Message
  <2>4. (Early(p)' <=> Early(p)) /\ (Answers(p)' <=> Answers(p)) /\ (Calling(p)' <=> Calling(p))
    BY <2>1, <2>3 DEF Early, Answers, Calling, Storing
  <2>5. Unused(p)' = Unused(p)
    BY <2>3, <2>4 DEF Unused
  <2>6. Untold(p)' = Untold(p) /\ Unsaid(p)' = Unsaid(p)
    BY <2>3, <2>4, <2>5 DEF Untold, Unsaid
  <2>7. \A m \in messages : m.seq < NextSequence
    <3>1. \A m \in messages : m.seq \in Nat /\ m.seq <= LastSequence(messages)
      BY <1>0, Last DEF TypeOK, Message
    <3>2. LastSequence(messages) \in Nat
      BY <1>0, Last
    <3> QED
      BY <3>1, <3>2 DEF NextSequence
  <2>8. Made(p)'
    BY <1>1, <2>3, <2>4, <2>5 DEF Made, Shaped
  <2>9. Ahead(p)'
    BY <1>1, <2>1, <2>3, <2>6, <2>7 DEF Ahead
  <2> QED
    BY <1>1, <2>1, <2>8, <2>9
<1>3. CASE CreateMessage(p)
  <2> DEFINE d == local[p].draft
  <2>1. messages' = messages \cup {d} /\ pc[p] = "create" /\ local' = local
    BY <1>3 DEF CreateMessage, locals
  <2>2. pc'[p] = "save"
    BY <1>0, <1>3, GotoTyped DEF CreateMessage, Labels
  <2>3. /\ Shaped(d) /\ d.calls \subseteq Owned(p) \ Unused(p)
        /\ d.calls # {} => Calling(p) /\ d.calls \subseteq local[p].pending
        /\ d.answers # None => Answers(p) /\ d.answers \in Owned(p) \ (Unused(p) \cup local[p].pending)
    BY <1>1, <2>1 DEF Made, Shaped, Calling, Answers
  <2>4. \A m \in messages : m.calls \cap d.calls = {}
    BY <1>1, <2>3 DEF Ahead, Unsaid
  <2>5. \A m \in messages : d.answers # None => m.answers # d.answers
    BY <1>1, <2>3 DEF Ahead, Untold
  <2>6. \A m \in messages : m.answers \notin d.calls
    BY <1>1, <2>3 DEF Ahead, Untold
  <2>7. \A m \in messages : d.answers \in m.calls => m.seq < d.seq
    BY <1>1, <2>1 DEF Ahead
  <2>8. d.answers \notin d.calls
    BY <2>3, NoneIsNoCall DEF Shaped
  <2>9. (Early(p)' <=> Early(p)) /\ ~Answers(p)' /\ ~Calling(p)' /\ Unused(p)' = Unused(p)
    BY <2>1, <2>2 DEF Early, Answers, Calling, Storing, Unused
  <2>10. Untold(p)' = Unused(p) \cup local[p].pending /\ Unsaid(p)' = Unused(p)
    BY <2>1, <2>9 DEF Untold, Unsaid
  <2>11. Made(p)'
    BY <1>1, <2>1, <2>9 DEF Made
  <2>12. d.answers \notin Unused(p) \cup local[p].pending
    <3>1. Unused(p) \subseteq Owned(p) /\ local[p].pending \subseteq Owned(p)
      BY <1>1 DEF Made, Unused
    <3> QED
      BY <2>3, <3>1, NoneIsNoCall
  <2> HIDE DEF d
  <2>13. Paired(messages)'
    <3>1. \A m \in messages' : Shaped(m)
      BY <1>1, <2>1, <2>3 DEF Paired
    <3>2. \A m, n \in messages' : m.calls \cap n.calls # {} => m = n
      BY <1>1, <2>1, <2>4 DEF Paired
    <3>3. \A m, n \in messages' : m.answers # None /\ m.answers = n.answers => m = n
      BY <1>1, <2>1, <2>5 DEF Paired
    <3>4. \A m, n \in messages' : n.answers \in m.calls => m.seq < n.seq
      BY <1>1, <2>1, <2>6, <2>7, <2>8 DEF Paired
    <3> QED
      BY <3>1, <3>2, <3>3, <3>4 DEF Paired
  <2>14. Ahead(p)'
    <3>1. \A m \in messages' : m.calls \cap Unused(p) = {} /\ m.answers \notin Unused(p) \cup local[p].pending
      BY <1>1, <2>1, <2>3, <2>12 DEF Ahead, Untold, Unsaid
    <3> QED
      BY <2>2, <2>10, <3>1 DEF Ahead
  <2> QED
    BY <2>11, <2>13, <2>14
<1>4. CASE SaveThread(p)
  <2>1. Goto(p, AfterMessage(p)) /\ local' = local /\ pc[p] = "save" /\ messages' = messages
    BY <1>4 DEF SaveThread
  <2>2. local[p].draft.role \in Roles
    BY <1>0 DEF Message
  <2>3. /\ AfterMessage(p) \in {"start", "tools", "model", "finish"}
        /\ AfterMessage(p) = "start" => local[p].draft.role = "user"
    BY <2>2 DEF AfterMessage, Roles
  <2>4. pc'[p] = AfterMessage(p)
    BY <1>0, <2>1, <2>3, GotoTyped DEF Labels
  <2>5. (Early(p)' => Early(p)) /\ ~Answers(p)' /\ ~Calling(p)'
    BY <2>1, <2>3, <2>4 DEF Early, Answers, Calling, Storing
  <2>6. Unused(p)' \subseteq Unused(p)
    BY <2>1, <2>5, EarlyEnds
  <2> QED
    BY <1>1, <2>1, <2>3, <2>4, <2>5, <2>6, PairQuiet
<1> QED
  BY <1>2, <1>3, <1>4 DEF MessageStep

LEMMA PairCompacts ==
    ASSUME PairInv, NEW p \in Procs, CompactionStep(p), ~Return(p)
    PROVE  Made(p)' /\ Ahead(p)'
<1>0. /\ TypeOK /\ local[p] \in Local /\ messages' = messages
      /\ pc[p] \in {"count", "latest", "read", "summarized"}
  BY DEF PairInv, TypeInv, TypeOK, CompactionStep, CountMessages, FindCutoff, Summarize, SaveSummary, db
<1>1. pc'[p] \in {"select", "latest", "fail", "read", "summarized"}
  <2>1. ASSUME NEW l \in Labels, Goto(p, l) PROVE pc'[p] = l
    BY <1>0, <2>1, GotoTyped
  <2> QED
    BY <2>1 DEF CompactionStep, CountMessages, FindCutoff, Summarize, SaveSummary, Compacted, Labels
<1>2. \/ local' = local
      \/ local'[p] = [local[p] EXCEPT !.cutoff = Cutoff(p)]
  BY <1>0 DEF CompactionStep, CountMessages, FindCutoff, Summarize, SaveSummary, Compacted, locals, Set, TypeOK
<1>3. /\ local'[p].draft = local[p].draft /\ local'[p].pending = local[p].pending
      /\ local'[p].rounds = local[p].rounds
  BY <1>0, <1>2 DEF Local
<1>4. Early(p) /\ ~Answers(p)' /\ ~Calling(p)'
  BY <1>0, <1>1 DEF Early, Answers, Calling
<1>5. Unused(p)' \subseteq Unused(p)
  BY <1>3, <1>4, EarlyEnds
<1> QED
  BY <1>0, <1>1, <1>3, <1>4, <1>5, PairQuiet

LEMMA PairExecutes ==
    ASSUME PairInv, NEW p \in Runs, ToolStep(p)
    PROVE  Made(p)' /\ Ahead(p)'
<1>0. p \in Procs /\ TypeOK /\ TypeInv /\ local[p] \in Local /\ pc[p] = "tools" /\ messages' = messages
  BY Constants DEF PairInv, TypeInv, TypeOK, ToolStep, ToolReturns, SetConversationTitle, ActivateSkill, ExecuteTool
<1>1. PICK active : ExecuteTool(p, NextCall(p), active)
  BY DEF ToolStep, ToolReturns, SetConversationTitle, ActivateSkill
<1> DEFINE c == NextCall(p)
<1>2. pc'[p] = "sequence"
  BY <1>0, <1>1, GotoTyped DEF ExecuteTool, Labels
<1>3. c \in local[p].pending
  BY <1>0, NextCallPending DEF TypeInv, LocalsSound, Sound
<1> HIDE DEF c
<1>4. local'[p] = [local[p] EXCEPT !.draft = Draft(p, "tool", {}, c), !.pending = @ \ {c}, !.active = active]
  BY <1>0, <1>1 DEF ExecuteTool, Set, TypeOK, c
<1>5. /\ local'[p].draft = Draft(p, "tool", {}, c) /\ local'[p].pending = local[p].pending \ {c}
      /\ local'[p].rounds = local[p].rounds
  BY <1>0, <1>4 DEF Local
<1>6. /\ local'[p].draft.role = "tool" /\ local'[p].draft.calls = {} /\ local'[p].draft.answers = c
  BY <1>5 DEF Draft
<1>7. ~Early(p) /\ ~Early(p)' /\ Answers(p)' /\ ~Calling(p)' /\ ~Answers(p) /\ ~Calling(p)
  BY <1>0, <1>2, <1>6 DEF Early, Answers, Calling, Storing
<1>8. Unused(p)' = Unused(p)
  BY <1>5, <1>7 DEF Unused
<1>9. Made(p) /\ Ahead(p)
  BY <1>0 DEF PairInv
<1>10. Untold(p)' = Untold(p) /\ Unsaid(p)' = Unsaid(p)
  BY <1>3, <1>5, <1>6, <1>7, <1>8 DEF Untold, Unsaid
<1>11. Made(p)'
  <2>1. c \in Owned(p) /\ c \notin Unused(p) /\ c # None
    BY <1>3, <1>9, NoneIsNoCall DEF Made
  <2>2. Shaped(local[p].draft)'
    BY <1>6, <2>1 DEF Shaped
  <2> QED
    BY <1>5, <1>6, <1>7, <1>8, <1>9, <2>1, <2>2 DEF Made
<1>12. Ahead(p)'
  BY <1>0, <1>2, <1>9, <1>10 DEF Ahead
<1> QED
  BY <1>11, <1>12

LEMMA PairCalls ==
    ASSUME PairInv, NEW p \in Runs, ModelCallsTools(p)
    PROVE  Made(p)' /\ Ahead(p)'
<1>0. p \in Procs /\ TypeOK /\ local[p] \in Local /\ pc[p] = "model" /\ messages' = messages /\ local[p].rounds > 0
  BY Constants DEF PairInv, TypeInv, TypeOK, ModelCallsTools, db
<1> DEFINE k == local[p].rounds
<1>1. PICK n \in 1..MaxCalls :
          Set(p, [local[p] EXCEPT !.draft = Draft(p, "call", {<<p, k, i>> : i \in 1..n}, None),
                                  !.pending = {<<p, k, i>> : i \in 1..n},
                                  !.rounds = @ - 1])
  BY DEF ModelCallsTools
<1> DEFINE calls == {<<p, k, i>> : i \in 1..n}
<1>2. pc'[p] = "sequence"
  BY <1>0, GotoTyped DEF ModelCallsTools, Labels
<1>3. k \in 1..MaxRounds
  <2>1. k \in 0..MaxRounds
    BY <1>0 DEF Local
  <2> QED
    BY <1>0, <2>1
<1>4. calls \subseteq Owned(p) /\ \A c \in calls : c[2] = k
  BY <1>1, <1>3, Constants DEF Owned, Calls
<1>5. local'[p] = [local[p] EXCEPT !.draft = Draft(p, "call", calls, None), !.pending = calls, !.rounds = @ - 1]
  BY <1>0, <1>1 DEF Set, TypeOK
<1> HIDE DEF calls
<1>6. /\ local'[p].draft = Draft(p, "call", calls, None) /\ local'[p].pending = calls
      /\ local'[p].rounds = k - 1
  BY <1>0, <1>5 DEF Local
<1>7. /\ local'[p].draft.role = "call" /\ local'[p].draft.calls = calls /\ local'[p].draft.answers = None
  BY <1>6 DEF Draft
<1>8. ~Early(p) /\ ~Early(p)' /\ ~Answers(p)' /\ Calling(p)' /\ ~Answers(p) /\ ~Calling(p)
  BY <1>0, <1>2, <1>7 DEF Early, Answers, Calling, Storing
<1>9. Unused(p)' \subseteq Unused(p) /\ calls \subseteq Unused(p) /\ calls \cap Unused(p)' = {}
  <2>1. Unused(p) = {c \in Owned(p) : c[2] <= k}
    BY <1>8 DEF Unused
  <2>2. Unused(p)' = {c \in Owned(p) : c[2] <= k - 1}
    BY <1>6, <1>8 DEF Unused
  <2>3. \A c \in Owned(p) : c[2] \in 1..MaxRounds
    BY DEF Owned, Calls
  <2>4. \A c \in Owned(p) : c[2] <= k - 1 => c[2] <= k
    BY <1>3, <2>3, Constants
  <2>5. \A c \in calls : c[2] <= k /\ ~(c[2] <= k - 1)
    BY <1>3, <1>4, Constants
  <2> QED
    BY <1>4, <2>1, <2>2, <2>4, <2>5
<1> HIDE DEF k
<1>10. Made(p) /\ Ahead(p)
  BY <1>0 DEF PairInv
<1>11. Made(p)'
  <2>1. Shaped(local[p].draft)'
    BY <1>7 DEF Shaped
  <2> QED
    BY <1>4, <1>6, <1>7, <1>8, <1>9, <2>1 DEF Made
<1>12. Untold(p)' \subseteq Untold(p) /\ Unsaid(p)' \subseteq Unsaid(p)
  BY <1>6, <1>7, <1>8, <1>9 DEF Untold, Unsaid
<1>13. Ahead(p)'
  BY <1>0, <1>2, <1>10, <1>12 DEF Ahead
<1> QED
  BY <1>11, <1>13

LEMMA PairRuns ==
    ASSUME PairInv, NEW p \in Runs, RunStep(p), ~ToolStep(p), ~ModelCallsTools(p), ~Return(p)
    PROVE  Made(p)' /\ Ahead(p)'
<1>0. p \in Procs /\ TypeOK /\ local[p] \in Local /\ messages' = messages
  BY Constants DEF PairInv, TypeInv, TypeOK, RunStep, StartRun, BuildModelMessages, SelectWindow, EnterToolLoop,
     ModelAnswers, GenerationFails, CompleteRun, FinishRun, FailRun, EndRun, db, ToolStep
<1>1. ASSUME NEW l \in Labels, Goto(p, l) PROVE pc'[p] = l
  BY <1>0, <1>1, GotoTyped
<1>2. ASSUME NEW l, Set(p, l) PROVE local'[p] = l
  BY <1>0, <1>2 DEF Set, TypeOK
<1>3. ASSUME pc[p] # "done", pc'[p] \in {"build", "count", "fail", "loop", "model", "complete"},
             Early(p)' => Early(p), Early(p) \/ local'[p].rounds = local[p].rounds,
             local'[p].draft = local[p].draft, local'[p].pending = local[p].pending
      PROVE  Made(p)' /\ Ahead(p)'
  <2>1. ~Answers(p)' /\ ~Calling(p)'
    BY <1>3 DEF Answers, Calling
  <2>2. Unused(p)' \subseteq Unused(p)
    BY <1>3, EarlyEnds
  <2> QED
    BY <1>0, <1>3, <2>1, <2>2, PairQuiet
<1>4. CASE StartRun(p)
  <2>1. pc[p] = "start" /\ pc'[p] = "build" /\ local' = local
    BY <1>1, <1>4 DEF StartRun, Labels, locals
  <2>2. Early(p)
    BY <2>1 DEF Early
  <2> QED
    BY <1>3, <2>1, <2>2
<1>5. CASE BuildModelMessages(p)
  <2>1. pc[p] = "build" /\ pc'[p] \in {"count", "fail"}
    BY <1>1, <1>5 DEF BuildModelMessages, Labels
  <2>2. local' = local \/ \E n : local'[p] = [local[p] EXCEPT !.limit = n]
    BY <1>2, <1>5 DEF BuildModelMessages
  <2>3. Early(p)
    BY <2>1 DEF Early
  <2>4. local'[p].draft = local[p].draft /\ local'[p].pending = local[p].pending
    BY <1>0, <2>2 DEF Local
  <2> QED
    BY <1>3, <2>1, <2>3, <2>4
<1>6. CASE SelectWindow(p)
  <2>1. pc[p] = "select" /\ pc'[p] \in {"loop", "model"}
    BY <1>1, <1>6 DEF SelectWindow, Labels
  <2>2. local' = local \/ local'[p] = [local[p] EXCEPT !.rounds = MaxRounds]
    BY <1>2, <1>6 DEF SelectWindow
  <2>3. Early(p)
    BY <2>1 DEF Early
  <2>4. local'[p].draft = local[p].draft /\ local'[p].pending = local[p].pending
    BY <1>0, <2>2 DEF Local
  <2> QED
    BY <1>3, <2>1, <2>3, <2>4
<1>7. CASE EnterToolLoop(p) \/ ModelAnswers(p) \/ GenerationFails(p)
  <2>1. pc[p] \in {"loop", "model", "tools"} /\ pc'[p] \in {"model", "fail", "complete"} /\ local' = local
    BY <1>1, <1>7 DEF EnterToolLoop, ModelAnswers, GenerationFails, Labels, locals
  <2>2. ~Early(p)'
    BY <2>1 DEF Early, Storing
  <2> QED
    BY <1>3, <2>1, <2>2
<1>8. CASE CompleteRun(p)
  <2>1. pc[p] = "complete" /\ pc'[p] = "sequence"
    BY <1>1, <1>8 DEF CompleteRun, Labels
  <2>2. local'[p] = [local[p] EXCEPT !.draft = Draft(p, "assistant", {}, None)]
    BY <1>2, <1>8 DEF CompleteRun
  <2>3. /\ local'[p].draft = Draft(p, "assistant", {}, None) /\ local'[p].pending = local[p].pending
        /\ local'[p].rounds = local[p].rounds
    BY <1>0, <2>2 DEF Local
  <2>4. /\ local'[p].draft.role = "assistant" /\ local'[p].draft.calls = {} /\ local'[p].draft.answers = None
    BY <2>3 DEF Draft
  <2>5. ~Early(p) /\ ~Early(p)' /\ ~Answers(p)' /\ ~Calling(p)'
    BY <2>1, <2>4 DEF Early, Answers, Calling, Storing
  <2>6. Unused(p)' = Unused(p)
    BY <2>3, <2>5 DEF Unused
  <2>7. Made(p) /\ Ahead(p)
    BY <1>0, <2>1 DEF PairInv
  <2>8. Made(p)'
    BY <2>3, <2>4, <2>5, <2>6, <2>7 DEF Made, Shaped
  <2>9. Untold(p)' \subseteq Untold(p) /\ Unsaid(p)' \subseteq Unsaid(p)
    BY <2>3, <2>5, <2>6 DEF Untold, Unsaid
  <2> QED
    BY <1>0, <2>1, <2>7, <2>8, <2>9 DEF Ahead
<1> QED
  BY <1>4, <1>5, <1>6, <1>7, <1>8 DEF RunStep, FinishRun, FailRun, EndRun

LEMMA OnlyCreateTells ==
    ASSUME NEW p \in Procs, Acts(p)
    PROVE  messages' = messages \/ CreateMessage(p)
BY DEF Acts, Working, MessageStep, CompactionStep, RunStep, ToolStep, CreateRun, CompactConversation,
       ReadSequence, SaveThread, CountMessages, FindCutoff, Summarize, SaveSummary,
       StartRun, BuildModelMessages, SelectWindow, EnterToolLoop, ModelCallsTools, ModelAnswers, GenerationFails,
       ToolReturns, SetConversationTitle, ActivateSkill, ExecuteTool, CompleteRun, FinishRun, FailRun, EndRun,
       Cancelled, db

\* The request that moves: it is over, or it still says each thing once.
LEMMA PairActor ==
    ASSUME PairInv, NEW p \in Procs, Acts(p)
    PROVE  (pc'[p] # "done" => Made(p)' /\ Ahead(p)') /\ Paired(messages)'
<1>0. TypeOK /\ Paired(messages)
  BY DEF PairInv, TypeInv
<1>1. CASE Return(p)
  <2>1. pc'[p] = "done"
    BY <1>0, <1>1, ReturnTyped
  <2>2. ~CreateMessage(p)
    <3>1. CreateMessage(p) => pc'[p] = "save"
      BY <1>0, GotoTyped DEF CreateMessage, Labels
    <3> QED
      BY <2>1, <3>1
  <2>3. messages' = messages
    BY <2>2, OnlyCreateTells
  <2> QED
    BY <1>0, <2>1, <2>3
<1>2. CASE ~Return(p) /\ MessageStep(p)
  BY <1>2, PairMessage
<1>3. CASE ~Return(p) /\ ~MessageStep(p)
  <2>1. messages' = messages
    BY <1>3, OnlyCreateTells DEF MessageStep
  <2>2. Paired(messages)'
    BY <1>0, <2>1
  <2>3. CASE CreateRun(p) \/ CompactConversation(p)
    BY <1>3, <2>2, <2>3, PairBegins
  <2>4. CASE CompactionStep(p)
    BY <1>3, <2>2, <2>4, PairCompacts
  <2>5. CASE p \in Runs /\ ToolStep(p)
    BY <2>2, <2>5, PairExecutes
  <2>6. CASE p \in Runs /\ ModelCallsTools(p)
    BY <2>2, <2>6, PairCalls
  <2>7. CASE p \in Runs /\ RunStep(p) /\ ~ToolStep(p) /\ ~ModelCallsTools(p)
    BY <1>3, <2>2, <2>7, PairRuns
  <2> QED
    BY <1>3, <2>3, <2>4, <2>5, <2>6, <2>7 DEF Acts, Working, Cancelled
<1> QED
  BY <1>1, <1>2, <1>3

\* The others have their own calls yet to say.
LEMMA PairOthers ==
    ASSUME PairInv, NEW p \in Procs, Acts(p), NEW q \in Procs, q # p, pc'[q] # "done"
    PROVE  Made(q)' /\ Ahead(q)'
<1>1. pc'[q] = pc[q] /\ local'[q] = local[q]
  BY OthersWait DEF PairInv, TypeInv
<1>2. Made(q) /\ Ahead(q)
  BY <1>1 DEF PairInv
<1>3. /\ Unused(q)' = Unused(q) /\ (Answers(q)' <=> Answers(q)) /\ (Calling(q)' <=> Calling(q))
      /\ Untold(q)' = Untold(q) /\ Unsaid(q)' = Unsaid(q)
  BY <1>1 DEF Unused, Early, Answers, Calling, Untold, Unsaid
<1>4. Made(q)'
  BY <1>1, <1>2, <1>3 DEF Made
<1>5. CASE messages' = messages
  BY <1>1, <1>2, <1>3, <1>4, <1>5 DEF Ahead
<1>6. CASE CreateMessage(p)
  <2> DEFINE d == local[p].draft
             e == local[q].draft
  <2>1. messages' = messages \cup {d} /\ pc[p] = "create"
    BY <1>6 DEF CreateMessage
  <2>2. Made(p)
    BY <2>1 DEF PairInv
  <2>3. d.calls \subseteq Owned(p) /\ d.answers \in Owned(p) \cup {None}
    BY <2>1, <2>2 DEF Made, Shaped, Answers
  <2>4. Untold(q) \subseteq Owned(q) /\ Unsaid(q) \subseteq Owned(q)
    BY <1>2 DEF Made, Untold, Unsaid, Unused, Answers, Calling
  <2>5. pc[q] = "create" => e.answers \in Owned(q) \cup {None}
    BY <1>2 DEF Made, Shaped, Answers
  <2>6. Owned(p) \cap Owned(q) = {}
    BY DEF Owned
  <2> HIDE DEF d
  <2>7. d.calls \cap Unsaid(q) = {} /\ d.answers \notin Untold(q)
    BY <2>3, <2>4, <2>6, NoneIsNoCall
  <2>8. pc[q] = "create" => e.answers \notin d.calls
    BY <2>3, <2>5, <2>6, NoneIsNoCall
  <2>9. Ahead(q)'
    BY <1>1, <1>2, <1>3, <2>1, <2>7, <2>8 DEF Ahead
  <2> QED
    BY <1>4, <2>9
<1> QED
  BY <1>5, <1>6, OnlyCreateTells

LEMMA WindowsAreGood ==
    ASSUME Paired(messages), NEW limit \in Nat, NEW w \in Windows(limit), IsFiniteSet(messages)
    PROVE  GoodWindow(w)
<1> DEFINE n == IF Cardinality(messages) < limit THEN Cardinality(messages) ELSE limit
<1>1. w \in [1..n -> messages] /\ \A i, j \in 1..n : i < j => w[i] # w[j] /\ w[i].seq <= w[j].seq
  BY DEF Windows
<1> HIDE DEF n
<1>2. DOMAIN w = 1..n /\ {w[i] : i \in DOMAIN w} \subseteq messages
  BY <1>1
<1>3. Paired({w[i] : i \in DOMAIN w})
  BY <1>2, PairedSubset
<1> QED
  BY <1>1, <1>2, <1>3 DEF GoodWindow

\* A prompt in the making stays, is emptied, or is made from a window.
LEMMA PromptsMove ==
    ASSUME PairInv, NEW p \in Procs, Acts(p), NEW r \in Runs
    PROVE  GoodWindow(prompt'[r].window)
<1>0. GoodWindow(prompt[r].window) /\ TypeOK
  BY DEF PairInv, TypeInv
<1>1. CASE Return(p)
  <2>1. prompt'[r] \in {NoPrompt, prompt[r]}
    BY <1>1 DEF Return
  <2> QED
    BY <1>0, <2>1, NothingSaid
<1>2. CASE p \in Runs /\ SelectWindow(p)
  <2>1. PICK w \in Windows(local[p].limit) :
            prompt' = [prompt EXCEPT ![p] = [window |-> w, summary |-> copy[p].summary]]
    BY <1>2 DEF SelectWindow
  <2>2. local[p].limit \in Nat
    BY LimitTyped DEF PairInv
  <2>3. GoodWindow(w)
    BY <2>2, WindowsAreGood DEF PairInv, TypeInv
  <2>4. prompt'[r] = IF r = p THEN [window |-> w, summary |-> copy[p].summary] ELSE prompt[r]
    BY <1>0, <2>1 DEF TypeOK
  <2>5. CASE r = p
    BY <2>3, <2>4, <2>5
  <2>6. CASE r # p
    BY <1>0, <2>4, <2>6
  <2> QED
    BY <2>5, <2>6
<1>3. CASE ~Return(p) /\ ~(p \in Runs /\ SelectWindow(p))
  <2>1. prompt' = prompt
    BY <1>3 DEF Acts, Working, MessageStep, CompactionStep, RunStep, ToolStep, CreateRun, CompactConversation,
       ReadSequence, CreateMessage, SaveThread, CountMessages, FindCutoff, Summarize, SaveSummary, Compacted,
       StartRun, BuildModelMessages, EnterToolLoop, ModelCallsTools, ModelAnswers, GenerationFails,
       ToolReturns, SetConversationTitle, ActivateSkill, ExecuteTool, CompleteRun, FinishRun, FailRun, EndRun,
       Cancelled, locals
  <2> QED
    BY <1>0, <2>1
<1> QED
  BY <1>1, <1>2, <1>3

LEMMA PairOutside ==
    ASSUME PairInv, AccountStep \/ Crash \/ UNCHANGED vars
    PROVE  /\ Paired(messages)'
           /\ \A p \in Procs : pc'[p] # "done" => Made(p)' /\ Ahead(p)'
           /\ \A r \in Runs : GoodWindow(prompt[r].window)'
<1>1. CASE AccountStep \/ UNCHANGED vars
  <2>1. UNCHANGED <<pc, locals>> /\ (messages' = messages \/ messages' = {})
    BY <1>1 DEF AccountStep, DeleteConversation, SoftDeleteThreads, SetConversationGroup, DeleteConversationGroup,
                vars, db
  <2>2. messages' \subseteq messages
    BY <2>1
  <2>3. Paired(messages')
    BY <2>2, PairedSubset DEF PairInv
  <2>4. ASSUME NEW p \in Procs, pc'[p] # "done" PROVE Made(p)' /\ Ahead(p)'
    <3>1. Made(p) /\ Ahead(p)
      BY <2>1, <2>4 DEF PairInv
    <3>2. Made(p)'
      BY <2>1, <3>1 DEF Made, Unused, Early, Answers, Calling, Shaped, locals
    <3>3. Untold(p)' = Untold(p) /\ Unsaid(p)' = Unsaid(p)
      BY <2>1 DEF Untold, Unsaid, Unused, Early, Answers, Calling, locals
    <3>4. Ahead(p)'
      BY <2>1, <2>2, <3>1, <3>3 DEF Ahead, locals
    <3> QED
      BY <3>2, <3>4
  <2>5. \A r \in Runs : GoodWindow(prompt[r].window)'
    BY <2>1 DEF PairInv, locals
  <2> QED
    BY <2>3, <2>4, <2>5
<1>2. CASE Crash
  <2>1. ASSUME NEW p \in Procs, pc'[p] # "done" PROVE Made(p)' /\ Ahead(p)'
    <3>1. pc[p] = "idle" /\ pc'[p] = "idle" /\ local'[p] = Fresh(p) /\ messages' = messages
      BY <1>2, <2>1 DEF Crash, db
    <3>2. local[p] = Fresh(p)
      BY <3>1 DEF PairInv, TypeInv, LocalsSound, Sound
    <3>3. ~Answers(p)' /\ ~Calling(p)' /\ Unused(p)' = Unused(p)
      BY <3>1, <3>2 DEF Answers, Calling, Unused, Early
    <3> QED
      BY <3>1, <3>2, <3>3, PairQuiet
  <2>2. messages' = messages /\ \A r \in Runs : prompt'[r] = NoPrompt
    BY <1>2 DEF Crash, db
  <2>3. Paired(messages)'
    BY <2>2 DEF PairInv
  <2>4. \A r \in Runs : GoodWindow(prompt[r].window)'
    BY <2>2, NothingSaid
  <2> QED
    BY <2>1, <2>3, <2>4
<1> QED
  BY <1>1, <1>2

LEMMA PairStep == PairInv /\ [Next]_vars => PairInv'
<1> SUFFICES ASSUME PairInv, [Next]_vars PROVE PairInv'
  OBVIOUS
<1>1. TypeInv'
  BY TypeInvStep DEF PairInv
<1>2. ASSUME NEW p \in Procs, Acts(p) PROVE PairInv'
  <2>1. \A q \in Procs : pc'[q] # "done" => Made(q)' /\ Ahead(q)'
    BY <1>2, PairActor, PairOthers
  <2>2. \A r \in Runs : GoodWindow(prompt'[r].window)
    BY <1>2, PromptsMove
  <2>3. Paired(messages)'
    BY <1>2, PairActor
  <2> QED
    BY <1>1, <2>1, <2>2, <2>3 DEF PairInv
<1>3. CASE AccountStep \/ Crash \/ UNCHANGED vars
  BY <1>1, <1>3, PairOutside DEF PairInv
<1> QED
  BY <1>2, <1>3 DEF Next, Acts

\* How a good window is rendered: a kept call has its result after it, a kept
\* result its call before it, and no result comes twice.
LEMMA GoodWindowsPair ==
    ASSUME NEW w \in Seq(Message), GoodWindow(w)
    PROVE  /\ \A i \in Rendered(w) : w[i].role = "call" =>
                 \A c \in KeptCalls(w, i) :
                    \E j \in Rendered(w) : j > i /\ w[j].answers = c
           /\ \A i, j \in Rendered(w) :
                 i # j /\ w[i].role = "tool" /\ w[j].role = "tool"
                   => w[i].answers # w[j].answers
           /\ \A j \in Rendered(w) : w[j].role = "tool" =>
                 \E i \in Rendered(w) : i < j /\ w[j].answers \in KeptCalls(w, i)
<1> DEFINE S == {w[i] : i \in DOMAIN w}
<1>1. \A i \in DOMAIN w : i \in Nat /\ i >= 1 /\ w[i] \in S /\ w[i] \in Message /\ 1..i \subseteq DOMAIN w
  OBVIOUS
<1>2. \A i, j \in DOMAIN w : w[i] = w[j] => i = j
  <2>1. \A i, j \in DOMAIN w : i < j \/ j < i \/ i = j
    BY <1>1
  <2> QED
    BY <2>1 DEF GoodWindow
<1>3. \A i, j \in DOMAIN w : w[i].seq < w[j].seq => i < j
  <2>1. \A i, j \in DOMAIN w : i < j \/ j < i \/ i = j
    BY <1>1
  <2>2. \A i \in DOMAIN w : w[i].seq \in Nat
    BY <1>1 DEF Message
  <2>3. \A i, j \in DOMAIN w : j < i => w[j].seq <= w[i].seq
    BY DEF GoodWindow
  <2> QED
    BY <2>1, <2>2, <2>3
<1>4. Paired(S)
  BY DEF GoodWindow
<1> HIDE DEF S
<1>5. ASSUME NEW i \in DOMAIN w, NEW j \in DOMAIN w, w[j].answers \in w[i].calls PROVE i < j
  BY <1>1, <1>3, <1>4, <1>5 DEF Paired
<1>6. \A i, j \in DOMAIN w : w[i].answers # None /\ w[i].answers = w[j].answers => i = j
  BY <1>1, <1>2, <1>4 DEF Paired
<1>7. \A i \in DOMAIN w : w[i].role = "tool" <=> w[i].answers # None
  BY <1>1, <1>4 DEF Paired, Shaped
<1>8. \A i \in Rendered(w) : i \in DOMAIN w
  BY DEF Rendered
<1>9. ASSUME NEW i \in Rendered(w), w[i].role = "call", NEW c \in KeptCalls(w, i)
      PROVE  \E j \in Rendered(w) : j > i /\ w[j].answers = c
  <2>1. c \in w[i].calls
    BY <1>9 DEF KeptCalls
  <2>2. PICK j \in DOMAIN w : w[j].role = "tool" /\ w[j].answers = c
    BY <1>9 DEF KeptCalls, Answered
  <2>3. i < j
    BY <1>5, <1>8, <2>1, <2>2
  <2>4. \A k \in (i + 1)..(j - 1) : w[k].answers # w[j].answers
    <3>1. ASSUME NEW k \in (i + 1)..(j - 1) PROVE k \in DOMAIN w /\ k # j
      <4>1. i \in Nat /\ j \in Nat /\ 1..j \subseteq DOMAIN w
        BY <1>1, <1>8
      <4> QED
        BY <4>1
    <3> QED
      BY <1>6, <1>7, <2>2, <3>1
  <2>5. i \in 1..(j - 1)
    BY <1>1, <1>8, <2>3
  <2>6. w[j].answers \in KeptCalls(w, i)
    BY <1>9, <2>2
  <2>7. WaitedFor(w, j)
    BY <2>4, <2>5, <2>6 DEF WaitedFor
  <2>8. j \in Rendered(w)
    BY <2>2, <2>7 DEF Rendered, Kept
  <2> QED
    BY <1>1, <1>8, <2>2, <2>3, <2>8
<1>10. ASSUME NEW i \in Rendered(w), NEW j \in Rendered(w), i # j, w[i].role = "tool", w[j].role = "tool"
       PROVE  w[i].answers # w[j].answers
  BY <1>6, <1>7, <1>8, <1>10
<1>11. ASSUME NEW j \in Rendered(w), w[j].role = "tool"
       PROVE  \E i \in Rendered(w) : i < j /\ w[j].answers \in KeptCalls(w, i)
  <2>1. WaitedFor(w, j)
    BY <1>11 DEF Rendered, Kept
  <2>2. PICK i \in 1..(j - 1) : w[j].answers \in KeptCalls(w, i)
    BY <2>1 DEF WaitedFor
  <2>3. i \in DOMAIN w /\ i < j
    <3>1. j \in Nat /\ 1..j \subseteq DOMAIN w
      BY <1>1, <1>8
    <3> QED
      BY <2>2, <3>1
  <2>4. w[i].role = "call"
    <3>1. w[i].calls # {}
      BY <2>2 DEF KeptCalls
    <3> QED
      BY <1>1, <1>4, <2>3, <3>1 DEF Paired, Shaped
  <2>5. Kept(w, i)
    BY <2>2, <2>4 DEF Kept
  <2> QED
    BY <2>2, <2>3, <2>5 DEF Rendered
<1> QED
  BY <1>9, <1>10, <1>11

\* In every prompt, whatever overlaps or crashed before it and however the
\* thread was deleted meanwhile, a tool call that is shown to the model is
\* followed by exactly one result, and a result is preceded by its call.
THEOREM SpecPromptPairsCalls == Spec => []PromptPairsCalls
<1>1. PairInv => PromptPairsCalls
  <2> SUFFICES ASSUME PairInv, NEW r \in Runs
               PROVE  LET w == prompt[r].window IN
                      /\ \A i \in Rendered(w) : w[i].role = "call" =>
                            \A c \in KeptCalls(w, i) :
                               \E j \in Rendered(w) : j > i /\ w[j].answers = c
                      /\ \A i, j \in Rendered(w) :
                            i # j /\ w[i].role = "tool" /\ w[j].role = "tool"
                              => w[i].answers # w[j].answers
                      /\ \A j \in Rendered(w) : w[j].role = "tool" =>
                            \E i \in Rendered(w) : i < j /\ w[j].answers \in KeptCalls(w, i)
    BY DEF PromptPairsCalls
  <2>1. prompt[r].window \in Seq(Message) /\ GoodWindow(prompt[r].window)
    BY DEF PairInv, TypeInv, TypeOK
  <2> QED
    BY <2>1, GoodWindowsPair
<1> QED
  BY <1>1, PairInit, PairStep, PTL DEF Spec

-----------------------------------------------------------------------------
(* Requests that do not overlap number the messages one after the other.    *)

Numbered ==
    /\ \A m, n \in messages : m.seq = n.seq => m = n
    /\ \A m \in messages : m.seq >= 1
    /\ \A k \in 1..Cardinality(messages) : \E m \in messages : m.seq = k
    /\ LastSequence(messages) = Cardinality(messages)

Known(row) == row.summary \subseteq messages

\* A run whose request is stored.
Asked(p) == pc[p] \notin {"idle", "sequence", "create"} \/ local[p].draft.role # "user"

\* What fits the window is not summarized, and all before it is.
Near(p) ==
    /\ Known(copy[p])
    /\ local[p].draft.by = p
    /\ pc[p] = "create" => local[p].draft.seq = Cardinality(messages) + 1
    /\ pc[p] \in {"count", "latest", "read", "summarized", "select"} => local[p].limit \in Limits
    /\ pc[p] = "read" => local[p].cutoff = Cardinality(messages) - local[p].limit
    /\ pc[p] \in {"summarized", "select"} =>
          \/ Cardinality(messages) <= local[p].limit
          \/ Cardinality(messages) - local[p].limit <= copy[p].summarySeq
    /\ p \in Runs /\ Asked(p) => \E m \in messages : m.by = p

NumberInv ==
    /\ SerialInv
    /\ Numbered
    /\ thread.alive => Known(thread)
    /\ \A p \in Procs : ~Idle(p) => Near(p)

\* What a step of the one request that works leaves to show.
Counted(p) == Numbered' /\ (thread'.alive => Known(thread)') /\ (~Idle(p)' => Near(p)')

Compacting == {"count", "latest", "read", "summarized", "select"}

LEMMA NumberInit == Init => NumberInv
<1> SUFFICES ASSUME Init PROVE NumberInv
  OBVIOUS
<1>1. SerialInv
  BY SerialInit
<1>2. messages = {} /\ Cardinality({}) = 0
  BY FS_EmptySet DEF Init
<1>3. Numbered
  BY <1>2 DEF Numbered, LastSequence
<1>4. Known(thread)
  BY DEF Init, NewThread, Known
<1>5. \A p \in Procs : Idle(p)
  BY DEF Init, Idle
<1> QED
  BY <1>1, <1>3, <1>4, <1>5 DEF NumberInv

LEMMA NumberedGrows ==
    ASSUME TypeInv, Numbered, NEW d \in Message, d.seq = Cardinality(messages) + 1,
           messages' = messages \cup {d}
    PROVE  /\ Numbered'
           /\ Cardinality(messages') = Cardinality(messages) + 1
           /\ d \notin messages
<1> DEFINE N == Cardinality(messages)
<1>1. messages \subseteq Message /\ IsFiniteSet(messages) /\ N \in Nat /\ LastSequence(messages) = N
  BY FS_CardinalityType DEF TypeInv, TypeOK, Numbered
<1>2. \A m \in messages : m.seq \in Nat /\ m.seq <= N
  BY <1>1, Last DEF Message
<1>3. d \notin messages
  BY <1>1, <1>2
<1>4. Cardinality(messages') = N + 1
  BY <1>1, <1>3, FS_AddElement
<1>5. \A m, n \in messages' : m.seq = n.seq => m = n
  BY <1>1, <1>2 DEF Numbered
<1>6. \A m \in messages' : m.seq >= 1
  BY <1>1 DEF Numbered
<1>7. \A k \in 1..(N + 1) : \E m \in messages' : m.seq = k
  <2>1. \A k \in 1..N : \E m \in messages' : m.seq = k
    BY DEF Numbered
  <2>2. \A k \in 1..(N + 1) : k \in 1..N \/ k = N + 1
    BY <1>1
  <2> QED
    BY <2>1, <2>2
<1>8. LastSequence(messages') = N + 1
  <2>1. messages' \in SUBSET Message /\ N + 1 \in Nat /\ \A m \in messages' : m.seq <= N + 1
    BY <1>1, <1>2
  <2>2. /\ LastSequence(messages') \in Nat /\ \A m \in messages' : m.seq <= LastSequence(messages')
        /\ \E m \in messages' : m.seq = LastSequence(messages')
    BY <2>1, LastIsLast
  <2> QED
    BY <1>1, <2>1, <2>2
<1> QED
  BY <1>3, <1>4, <1>5, <1>6, <1>7, <1>8 DEF Numbered

\* A step that adds no message and promises nothing of the window.
LEMMA CountQuiet ==
    ASSUME NumberInv, NEW p \in Procs, messages' = messages,
           thread'.alive => Known(thread)', Known(copy[p])', local'[p].draft.by = p,
           pc'[p] \notin Compacting \cup {"create"},
           p \in Runs /\ Asked(p)' => \E m \in messages : m.by = p
    PROVE  Counted(p)
<1>1. Numbered'
  BY DEF NumberInv, Numbered
<1>2. Near(p)'
  BY DEF Near, Compacting
<1> QED
  BY <1>1, <1>2 DEF Counted

LEMMA CountGone ==
    ASSUME NumberInv, NEW p \in Procs, Return(p), messages' = messages, thread'.alive => Known(thread)'
    PROVE  Counted(p)
<1>1. pc'[p] = "done"
  BY ReturnTyped DEF NumberInv, SerialInv, TypeInv
<1>2. Numbered'
  BY DEF NumberInv, Numbered
<1> QED
  BY <1>1, <1>2 DEF Counted, Idle

LEMMA CountBegins ==
    ASSUME NumberInv, NEW p \in Procs, CreateRun(p) \/ CompactConversation(p)
    PROVE  Counted(p)
<1>0. TypeOK /\ local[p] \in Local /\ pc[p] = "idle" /\ messages' = messages /\ thread' = thread
  BY DEF NumberInv, SerialInv, TypeInv, TypeOK, CreateRun, CompactConversation, db
<1>1. local[p].draft = Draft(p, "user", {}, None)
  <2>1. local[p] = Fresh(p)
    BY <1>0 DEF NumberInv, SerialInv, TypeInv, LocalsSound, Sound
  <2> QED
    BY <2>1 DEF Fresh
<1>2. local[p].draft.role = "user" /\ local[p].draft.by = p
  BY <1>1 DEF Draft
<1>3. thread'.alive => Known(thread)'
  BY <1>0 DEF NumberInv, Known
<1>4. CASE Return(p)
  BY <1>0, <1>3, <1>4, CountGone
<1>5. CASE GetConversation(p)
  <2>1. Known(copy[p])' /\ Known(thread)
    BY <1>0, <1>5 DEF GetConversation, NumberInv, Known, TypeOK
  <2>2. CASE CreateRun(p) /\ Goto(p, "sequence")
    <3>1. pc'[p] = "sequence"
      BY <1>0, <2>2, GotoTyped DEF Labels
    <3>2. local' = [local EXCEPT ![p] = [local[p] EXCEPT !.active = IF p \in Runs THEN thread.skills ELSE {}]]
          \/ Return(p)
      BY <2>2 DEF CreateRun, Set
    <3>3. ~Return(p)
      BY <1>0, <3>1, ReturnTyped
    <3>4. local'[p].draft = local[p].draft
      BY <1>0, <3>2, <3>3 DEF TypeOK, Local
    <3>5. ~Asked(p)'
      BY <1>2, <3>1, <3>4 DEF Asked
    <3> QED
      BY <1>0, <1>2, <1>3, <2>1, <3>1, <3>4, <3>5, CountQuiet DEF Compacting
  <2>3. CASE CompactConversation(p) /\ Goto(p, "count")
    <3>1. pc'[p] = "count"
      BY <1>0, <2>3, GotoTyped DEF Labels
    <3>2. ~Return(p)
      BY <1>0, <3>1, ReturnTyped
    <3>3. PICK limit \in Limits : Set(p, [local[p] EXCEPT !.limit = limit])
      BY <2>3, <3>2 DEF CompactConversation
    <3>4. local'[p].draft = local[p].draft /\ local'[p].limit = limit
      BY <1>0, <3>3 DEF Set, TypeOK, Local
    <3>5. p \notin Runs
      BY <2>3, ConversationAssumption DEF CompactConversation
    <3>6. Near(p)'
      BY <1>2, <2>1, <3>1, <3>4, <3>5 DEF Near
    <3>7. Numbered'
      BY <1>0 DEF NumberInv, Numbered
    <3> QED
      BY <1>3, <3>6, <3>7 DEF Counted
  <2> QED
    BY <1>4, <1>5, <2>2, <2>3 DEF CreateRun, CompactConversation
<1> QED
  BY <1>4, <1>5 DEF CreateRun, CompactConversation

LEMMA CountMessage ==
    ASSUME NumberInv, NEW p \in Procs, MessageStep(p)
    PROVE  Counted(p)
<1>0. /\ TypeInv /\ TypeOK /\ local[p] \in Local /\ local[p].draft \in Message /\ copy[p] \in Row
      /\ Numbered /\ Near(p) /\ Holds(p) /\ Known(thread) /\ thread.alive
  BY DEF NumberInv, SerialInv, TypeInv, TypeOK, Local, MessageStep, ReadSequence, CreateMessage, SaveThread, Idle, Holds
<1>1. Cardinality(messages) \in Nat
  BY <1>0, FS_CardinalityType DEF TypeInv
<1>2. CASE ReadSequence(p)
  <2>1. /\ pc'[p] = "create" /\ pc[p] = "sequence" /\ messages' = messages /\ thread' = thread /\ copy' = copy
    BY <1>0, <1>2, GotoTyped DEF ReadSequence, Labels, db
  <2>2. local'[p] = [local[p] EXCEPT !.draft.seq = NextSequence]
    BY <1>0, <1>2 DEF ReadSequence, Set, TypeOK
  <2>3. /\ local'[p].draft.seq = Cardinality(messages) + 1 /\ local'[p].draft.by = local[p].draft.by
        /\ local'[p].draft.role = local[p].draft.role
    BY <1>0, <2>2 DEF Local, Message, NextSequence, Numbered
  <2>4. Near(p)'
    BY <1>0, <2>1, <2>3 DEF Near, Known, Asked
  <2>5. Numbered' /\ Known(thread)'
    BY <1>0, <2>1 DEF Numbered, Known
  <2> QED
    BY <2>4, <2>5 DEF Counted
<1>3. CASE CreateMessage(p)
  <2> DEFINE d == local[p].draft
  <2>1. /\ pc[p] = "create" /\ messages' = messages \cup {d} /\ thread' = thread /\ copy' = copy /\ local' = local
    BY <1>3 DEF CreateMessage, locals
  <2>2. pc'[p] = "save"
    BY <1>0, <1>3, GotoTyped DEF CreateMessage, Labels
  <2>3. d.seq = Cardinality(messages) + 1 /\ d.by = p /\ d \in Message
    BY <1>0, <2>1 DEF Near
  <2> HIDE DEF d
  <2>4. Numbered'
    BY <1>0, <2>1, <2>3, NumberedGrows
  <2>5. Known(thread)' /\ Known(copy[p])'
    BY <1>0, <2>1 DEF Known, Near
  <2>6. \E m \in messages' : m.by = p
    BY <2>1, <2>3
  <2>7. local'[p].draft.by = p
    BY <2>1, <2>3 DEF d
  <2>8. Near(p)'
    BY <2>2, <2>5, <2>6, <2>7 DEF Near
  <2> QED
    BY <2>4, <2>5, <2>8 DEF Counted
<1>4. CASE SaveThread(p)
  <2>1. pc[p] = "save" /\ messages' = messages /\ thread' = Titled(copy[p])
    BY <1>4 DEF SaveThread, Save
  <2>2. Titled(copy[p]).summary = copy[p].summary
    BY <1>0, TitledTyped
  <2>3. Known(thread)'
    BY <1>0, <2>1, <2>2 DEF Near, Known
  <2>4. CASE Return(p)
    BY <2>1, <2>3, <2>4, CountGone
  <2>5. CASE p \in Runs /\ copy' = [copy EXCEPT ![p] = Titled(@)] /\ Goto(p, AfterMessage(p)) /\ local' = local
    <3>1. copy'[p] = Titled(copy[p])
      BY <1>0, <2>5 DEF TypeOK
    <3>2. Known(copy[p])'
      BY <2>1, <2>3, <3>1 DEF Known
    <3>3. local[p].draft.role \in Roles
      BY <1>0 DEF Message
    <3>4. AfterMessage(p) \in {"start", "tools", "model", "finish"}
      BY <3>3 DEF AfterMessage, Roles
    <3>5. pc'[p] \in {"start", "tools", "model", "finish"}
      BY <1>0, <2>5, <3>4, GotoTyped DEF Labels
    <3>6. Asked(p)
      BY <2>1 DEF Asked
    <3> QED
      BY <1>0, <2>1, <2>3, <2>5, <3>2, <3>5, <3>6, CountQuiet DEF Near, Compacting
  <2> QED
    BY <1>4, <2>4, <2>5 DEF SaveThread
<1> QED
  BY <1>2, <1>3, <1>4 DEF MessageStep

LEMMA CountCompacts ==
    ASSUME NumberInv, NEW p \in Procs, CompactionStep(p)
    PROVE  Counted(p)
<1>0. /\ TypeInv /\ TypeOK /\ local[p] \in Local /\ copy[p] \in Row /\ messages' = messages
      /\ Numbered /\ Near(p) /\ Holds(p) /\ Known(thread) /\ thread.alive
      /\ pc[p] \in {"count", "latest", "read", "summarized"}
  BY DEF NumberInv, SerialInv, TypeInv, TypeOK, CompactionStep, CountMessages, FindCutoff, Summarize, SaveSummary, Idle,
         Holds, db
<1>1. Cardinality(messages) \in Nat /\ local[p].limit \in Nat
  BY <1>0, FS_CardinalityType, LimitTyped DEF TypeInv
<1>2. Numbered'
  BY <1>0 DEF Numbered
<1>3. /\ Known(copy[p]) /\ local[p].limit \in Limits /\ local[p].draft.by = p
      /\ p \in Runs => \E m \in messages : m.by = p
  BY <1>0 DEF Near, Asked
\* The copy that is held on is the same, and so is all the local state.
<1>4. ASSUME thread'.alive => Known(thread)', copy'[p] = copy[p], local'[p] = local[p],
             pc'[p] \in {"latest", "select", "fail"},
             pc'[p] = "select" => \/ Cardinality(messages) <= local[p].limit
                                  \/ Cardinality(messages) - local[p].limit <= copy[p].summarySeq
      PROVE  Counted(p)
  <2>1. Near(p)'
    BY <1>0, <1>3, <1>4 DEF Near, Known
  <2> QED
    BY <1>2, <1>4, <2>1 DEF Counted
<1>5. CASE CountMessages(p) \/ FindCutoff(p)
  <2>1. thread' = thread /\ Known(thread)'
    BY <1>0, <1>5 DEF CountMessages, FindCutoff, db, Known
  <2>2. CASE Return(p)
    BY <1>0, <2>1, <2>2, CountGone
  <2>3. CASE FindCutoff(p) /\ pc'[p] = "read"
    <3>0. ~Return(p) /\ ~Goto(p, "select") /\ ~Goto(p, "fail")
      BY <1>0, <2>3, GotoTyped, ReturnTyped DEF Labels
    <3>1. copy' = copy /\ Set(p, [local[p] EXCEPT !.cutoff = Cutoff(p)])
      BY <2>3, <3>0 DEF FindCutoff, Compacted
    <3>2. /\ local'[p].cutoff = Cutoff(p) /\ local'[p].limit = local[p].limit
          /\ local'[p].draft = local[p].draft
      BY <1>0, <3>1 DEF Set, TypeOK, Local
    <3>3. Cutoff(p) = Cardinality(messages) - local[p].limit
      BY <1>0 DEF Cutoff, Numbered
    <3>4. Near(p)'
      BY <1>0, <1>3, <2>3, <3>1, <3>2, <3>3 DEF Near, Known
    <3> QED
      BY <1>2, <2>1, <3>4 DEF Counted
  <2>4. CASE CountMessages(p) /\ ~Return(p)
    <3>1. \/ pc'[p] = "latest"
          \/ pc'[p] = "select" /\ Cardinality(messages) <= local[p].limit
      BY <1>0, <2>4, GotoTyped DEF CountMessages, Compacted, Labels
    <3>2. copy' = copy /\ local' = local
      BY <2>4 DEF CountMessages, Compacted, locals
    <3> QED
      BY <1>4, <2>1, <3>1, <3>2
  <2>5. CASE FindCutoff(p) /\ ~Return(p) /\ pc'[p] # "read"
    <3>0. ~Goto(p, "read")
      BY <1>0, <2>5, GotoTyped DEF Labels
    <3>1. \/ pc'[p] = "fail"
          \/ pc'[p] = "select" /\ Cutoff(p) <= copy[p].summarySeq
      BY <1>0, <2>5, <3>0, GotoTyped DEF FindCutoff, Compacted, Labels
    <3>2. copy' = copy /\ local' = local
      BY <2>5, <3>0 DEF FindCutoff, Compacted, locals
    <3>3. Cutoff(p) = Cardinality(messages) - local[p].limit
      BY <1>0 DEF Cutoff, Numbered
    <3> QED
      BY <1>4, <2>1, <3>1, <3>2, <3>3
  <2> QED
    BY <1>5, <2>2, <2>3, <2>4, <2>5
<1>6. CASE Summarize(p)
  <2>1. thread' = thread /\ Known(thread)' /\ local' = local /\ pc[p] = "read"
    BY <1>0, <1>6 DEF Summarize, db, Known
  <2>2. PICK new \in Summaries(ToSummarize(p)) :
            copy' = [copy EXCEPT ![p].summary = @ \cup new, ![p].summarySeq = local[p].cutoff]
    BY <1>6 DEF Summarize
  <2>3. copy'[p].summary = copy[p].summary \cup new /\ copy'[p].summarySeq = local[p].cutoff
    BY <1>0, <2>2 DEF TypeOK, Row
  <2>4. new \subseteq messages
    <3>1. new \in {ToSummarize(p), Transcript(ToSummarize(p))}
      BY <2>2 DEF Summaries
    <3>2. ToSummarize(p) \subseteq messages /\ Transcript(ToSummarize(p)) \subseteq ToSummarize(p)
      BY DEF ToSummarize, Transcript
    <3> QED
      BY <3>1, <3>2
  <2>5. pc'[p] = "summarized"
    BY <1>0, <1>6, GotoTyped DEF Summarize, Labels
  <2>6. local[p].cutoff = Cardinality(messages) - local[p].limit
    BY <1>0, <2>1 DEF Near
  <2>7. Known(copy[p])'
    BY <1>0, <1>3, <2>3, <2>4 DEF Known
  <2>8. Cardinality(messages) - local[p].limit <= copy'[p].summarySeq
    BY <1>1, <2>3, <2>6
  <2>9. Near(p)'
    BY <1>0, <1>3, <2>1, <2>5, <2>7, <2>8 DEF Near
  <2> QED
    BY <1>2, <2>1, <2>9 DEF Counted
<1>7. CASE SaveSummary(p)
  <2>1. thread' = copy[p] /\ pc[p] = "summarized" /\ Compacted(p)
    BY <1>7 DEF SaveSummary, Save
  <2>2. Known(thread)'
    BY <1>0, <1>3, <2>1 DEF Known
  <2>3. CASE Return(p)
    BY <1>0, <2>2, <2>3, CountGone
  <2>4. CASE Goto(p, "select") /\ UNCHANGED locals
    <3>1. pc'[p] = "select"
      BY <1>0, <2>4, GotoTyped DEF Labels
    <3>2. \/ Cardinality(messages) <= local[p].limit
          \/ Cardinality(messages) - local[p].limit <= copy[p].summarySeq
      BY <1>0, <2>1 DEF Near
    <3> QED
      BY <1>4, <2>2, <2>4, <3>1, <3>2 DEF locals
  <2> QED
    BY <2>1, <2>3, <2>4 DEF Compacted
<1> QED
  BY <1>0, <1>5, <1>6, <1>7 DEF CompactionStep

\* A run whose request is stored and whose window is made, or not yet looked for.
LEMMA CountRuns ==
    ASSUME NumberInv, NEW p \in Runs, RunStep(p)
    PROVE  Counted(p)
<1>0. /\ p \in Procs /\ TypeInv /\ TypeOK /\ local[p] \in Local /\ copy[p] \in Row /\ messages' = messages
      /\ Numbered /\ Near(p) /\ Holds(p) /\ Known(thread) /\ thread.alive /\ thread \in Row
      /\ pc[p] \in {"start", "build", "select", "loop", "model", "tools", "complete", "finish", "fail"}
  BY Constants
     DEF NumberInv, SerialInv, TypeInv, TypeOK, RunStep, StartRun, BuildModelMessages, SelectWindow, EnterToolLoop,
         ModelCallsTools, ModelAnswers, GenerationFails, ToolStep, ToolReturns, SetConversationTitle, ActivateSkill,
         ExecuteTool, CompleteRun, FinishRun, FailRun, EndRun, Idle, Holds, db
<1>1. Known(copy[p]) /\ local[p].draft.by = p /\ \E m \in messages : m.by = p
  BY <1>0 DEF Near, Asked
<1>2. thread'.summary = thread.summary
  BY <1>0
     DEF RunStep, StartRun, BuildModelMessages, SelectWindow, EnterToolLoop, ModelCallsTools, ModelAnswers,
         GenerationFails, ToolStep, ToolReturns, SetConversationTitle, SetTitle, ActivateSkill, PersistSkills,
         CompleteRun, FinishRun, FailRun, EndRun, db, Row
<1>3. Known(thread)'
  BY <1>0, <1>2 DEF Known
<1>4. CASE Return(p)
  BY <1>0, <1>3, <1>4, CountGone
<1>5. CASE ~Return(p)
  <2>0. /\ \A l \in Labels : Goto(p, l) => pc'[p] = l
        /\ \A l : Set(p, l) => local'[p] = l
    BY <1>0, GotoTyped DEF Set, TypeOK
  <2>1. Known(copy[p])'
    <3>1. CASE ToolStep(p)
      <4>1. \/ copy' = copy
            \/ \E title : copy' = [copy EXCEPT ![p].title = title]
            \/ \E skills : copy' = [copy EXCEPT ![p].skills = skills]
        BY <3>1 DEF ToolStep, ToolReturns, SetConversationTitle, SetTitle, ActivateSkill, PersistSkills
      <4>2. copy'[p].summary = copy[p].summary
        BY <1>0, <4>1 DEF TypeOK, Row
      <4> QED
        BY <1>0, <1>1, <4>2 DEF Known
    <3>2. CASE GetConversation(p)
      <4>1. copy'[p] = thread
        BY <1>0, <3>2 DEF GetConversation, TypeOK
      <4> QED
        BY <1>0, <4>1 DEF Known
    <3>3. CASE copy' = copy
      BY <1>0, <1>1, <3>3 DEF Known
    <3> QED
      BY <1>5, <3>1, <3>2, <3>3
         DEF RunStep, StartRun, BuildModelMessages, SelectWindow, EnterToolLoop, ModelCallsTools, ModelAnswers,
             GenerationFails, CompleteRun, FinishRun, FailRun, EndRun, locals
  <2>2. local'[p].draft.by = p
    <3>1. \A role, calls, answers : Draft(p, role, calls, answers).by = p
      BY DEF Draft
    <3>2. CASE ToolStep(p)
      <4>1. PICK call, active : Set(p, [local[p] EXCEPT !.draft = Draft(p, "tool", {}, call), !.pending = @ \ {call},
                                                        !.active = active])
        BY <3>2 DEF ToolStep, ToolReturns, SetConversationTitle, ActivateSkill, ExecuteTool
      <4>2. local'[p].draft = Draft(p, "tool", {}, call)
        BY <1>0, <2>0, <4>1 DEF Local
      <4> QED
        BY <3>1, <4>2
    <3>3. CASE ModelCallsTools(p)
      <4>1. PICK n \in 1..MaxCalls :
                Set(p, [local[p] EXCEPT !.draft = Draft(p, "call", {<<p, local[p].rounds, i>> : i \in 1..n}, None),
                                        !.pending = {<<p, local[p].rounds, i>> : i \in 1..n},
                                        !.rounds = @ - 1])
        BY <3>3 DEF ModelCallsTools
      <4> DEFINE calls == {<<p, local[p].rounds, i>> : i \in 1..n}
      <4>2. Set(p, [local[p] EXCEPT !.draft = Draft(p, "call", calls, None), !.pending = calls, !.rounds = @ - 1])
        BY <4>1
      <4> HIDE DEF calls
      <4>3. local'[p].draft = Draft(p, "call", calls, None)
        BY <1>0, <2>0, <4>2 DEF Local
      <4> QED
        BY <3>1, <4>3
    <3>4. CASE CompleteRun(p)
      <4>1. local'[p].draft = Draft(p, "assistant", {}, None)
        BY <1>0, <1>5, <2>0, <3>4 DEF CompleteRun, Local
      <4> QED
        BY <3>1, <4>1
    <3>5. CASE BuildModelMessages(p) \/ SelectWindow(p)
      <4>1. local'[p].draft = local[p].draft
        BY <1>0, <2>0, <3>5 DEF BuildModelMessages, SelectWindow, Local
      <4> QED
        BY <1>1, <4>1
    <3>6. CASE StartRun(p) \/ EnterToolLoop(p) \/ ModelAnswers(p) \/ GenerationFails(p)
      BY <1>1, <3>6 DEF StartRun, EnterToolLoop, ModelAnswers, GenerationFails, locals
    <3> QED
      BY <1>5, <3>2, <3>3, <3>4, <3>5, <3>6 DEF RunStep, FinishRun, FailRun, EndRun
  <2>3. \/ pc'[p] \in {"build", "fail", "loop", "model", "sequence", "complete"}
        \/ BuildModelMessages(p) /\ pc'[p] = "count"
    <3>1. CASE ToolStep(p)
      <4>1. Goto(p, "sequence")
        BY <3>1 DEF ToolStep, ToolReturns, SetConversationTitle, ActivateSkill, ExecuteTool
      <4> QED
        BY <2>0, <4>1 DEF Labels
    <3> QED
      BY <1>5, <2>0, <3>1
         DEF RunStep, StartRun, BuildModelMessages, SelectWindow, EnterToolLoop, ModelCallsTools, ModelAnswers,
             GenerationFails, CompleteRun, FinishRun, FailRun, EndRun, Labels
  <2>4. CASE pc'[p] \in {"build", "fail", "loop", "model", "sequence", "complete"}
    BY <1>0, <1>1, <1>3, <2>1, <2>2, <2>4, CountQuiet DEF Compacting
  <2>5. CASE BuildModelMessages(p) /\ pc'[p] = "count"
    <3>1. ~Goto(p, "fail")
      <4>1. Goto(p, "fail") => pc'[p] = "fail"
        BY <1>0, GotoTyped DEF Labels
      <4> QED
        BY <2>5, <4>1
    <3>2. PICK limit \in Limits : Set(p, [local[p] EXCEPT !.limit = limit])
      BY <2>5, <3>1 DEF BuildModelMessages
    <3>3. local'[p].limit = limit
      BY <1>0, <3>2 DEF Set, TypeOK, Local
    <3>4. Near(p)'
      BY <1>0, <1>1, <2>1, <2>2, <2>5, <3>3 DEF Near
    <3>5. Numbered'
      BY <1>0 DEF Numbered
    <3> QED
      BY <1>3, <3>4, <3>5 DEF Counted
  <2> QED
    BY <2>3, <2>4, <2>5
<1> QED
  BY <1>4, <1>5

LEMMA CountOutside ==
    ASSUME SerialRequests, NumberInv, AccountStep \/ Crash \/ UNCHANGED vars
    PROVE  Numbered' /\ (thread'.alive => Known(thread)') /\ \A p \in Procs : ~Idle(p)' => Near(p)'
<1>0. Numbered /\ thread \in Row
  BY DEF NumberInv, SerialInv, TypeInv, TypeOK
<1>1. CASE UNCHANGED vars
  BY <1>1 DEF vars, db, locals, NumberInv, Numbered, Near, Known, Idle, Asked
<1>2. CASE DeleteConversation
  <2>1. \A p \in Procs : Idle(p)'
    BY <1>2 DEF DeleteConversation, NobodyWorks, Idle
  <2>2. messages' = {} /\ ~thread'.alive
    BY <1>0, <1>2 DEF DeleteConversation, SoftDeleteThreads, Row
  <2>3. Cardinality(messages') = 0 /\ LastSequence(messages') = 0
    BY <2>2, FS_EmptySet DEF LastSequence
  <2>4. Numbered'
    BY <2>2, <2>3 DEF Numbered
  <2> QED
    BY <2>1, <2>2, <2>4
<1>3. CASE Crash \/ SetConversationGroup \/ DeleteConversationGroup
  <2>1. \A p \in Procs : Idle(p)'
    BY <1>3 DEF Crash, SetConversationGroup, DeleteConversationGroup, NobodyWorks, Idle
  <2>2. messages' = messages /\ thread'.alive = thread.alive /\ thread'.summary = thread.summary
    BY <1>0, <1>3 DEF Crash, SetConversationGroup, DeleteConversationGroup, db, Row
  <2>3. Numbered' /\ (thread'.alive => Known(thread)')
    BY <2>2 DEF NumberInv, Numbered, Known
  <2> QED
    BY <2>1, <2>3
<1> QED
  BY <1>1, <1>2, <1>3 DEF AccountStep

LEMMA ActorCounted ==
    ASSUME NumberInv, NEW p \in Procs, Acts(p)
    PROVE  Counted(p)
<1>1. CASE Cancelled(p)
  <2>1. messages' = messages /\ thread' = thread /\ Return(p)
    BY <1>1 DEF Cancelled, db
  <2>2. thread'.alive => Known(thread)'
    BY <2>1 DEF NumberInv, Known
  <2> QED
    BY <2>1, <2>2, CountGone
<1> QED
  BY <1>1, CountBegins, CountMessage, CountCompacts, CountRuns DEF Acts, Working

LEMMA NumberStep == SerialRequests /\ NumberInv /\ [Next]_vars => NumberInv'
<1> SUFFICES ASSUME SerialRequests, NumberInv, [Next]_vars PROVE NumberInv'
  OBVIOUS
<1>1. SerialInv'
  BY SerialStep DEF NumberInv
<1>2. ASSUME NEW p \in Procs, Acts(p) PROVE NumberInv'
  <2>1. Counted(p)
    BY <1>2, ActorCounted
  <2>2. \A q \in Procs : q # p => Idle(q)'
    BY <1>2, AloneAtWork DEF NumberInv
  <2> QED
    BY <1>1, <2>1, <2>2 DEF NumberInv, Counted
<1>3. CASE AccountStep \/ Crash \/ UNCHANGED vars
  BY <1>1, <1>3, CountOutside DEF NumberInv
<1> QED
  BY <1>2, <1>3 DEF Next, Acts

\* Where the messages are numbered one after the other, the window is the end of
\* them: whoever is not in it comes before it.
LEMMA WindowIsTheEnd ==
    ASSUME TypeInv, Numbered, NEW limit \in Nat \ {0}, NEW w \in Windows(limit),
           NEW m \in messages, \A i \in DOMAIN w : w[i] # m
    PROVE  /\ m.seq <= Cardinality(messages) - limit
           /\ \A i \in DOMAIN w : m.seq < w[i].seq
<1> DEFINE N == Cardinality(messages)
           n == IF N < limit THEN N ELSE limit
<1>0. N \in Nat /\ n \in Nat /\ messages \subseteq Message
  BY FS_CardinalityType DEF TypeInv, TypeOK
<1>1. /\ w \in [1..n -> messages]
      /\ \A i, j \in 1..n : i < j => w[i] # w[j] /\ w[i].seq <= w[j].seq
      /\ n > 0 => m.seq <= w[1].seq
  BY DEF Windows
<1>2. /\ \A x \in messages : x.seq \in Nat /\ 1 <= x.seq /\ x.seq <= N
      /\ \A x, y \in messages : x.seq = y.seq => x = y
  <2>1. \A x \in messages : x.seq <= LastSequence(messages)
    BY Last
  <2> QED
    BY <1>0, <2>1 DEF Numbered, Message
<1> HIDE DEF N
<1>3. n > 0
  <2>1. N # 0
    BY <1>0, <1>2
  <2> QED
    BY <1>0, <2>1
<1> HIDE DEF n
<1>4. \A i \in 1..n : w[i] \in messages /\ w[i].seq \in Nat
  BY <1>1, <1>2
<1>5. \A i, j \in 1..n : i < j => w[i].seq < w[j].seq
  BY <1>1, <1>2, <1>4
<1> DEFINE bad == {i \in 1..n : w[i].seq < m.seq + i}
<1>6. bad = {}
  <2> SUFFICES ASSUME bad # {} PROVE FALSE
    OBVIOUS
  <2>1. bad \subseteq Nat
    OBVIOUS
  <2>2. PICK i \in bad : \A j \in bad : i <= j
    <3> HIDE DEF bad
    <3> QED
      BY <2>1, LeastNatural
  <2>3. i \in 1..n /\ w[i].seq < m.seq + i
    OBVIOUS
  <2>4. CASE i = 1
    <3>1. w[1] # m /\ w[1] \in messages
      BY <1>0, <1>1, <1>3
    <3> QED
      BY <1>1, <1>2, <1>3, <1>4, <2>3, <2>4, <3>1
  <2>5. CASE i # 1
    <3>1. i - 1 \in 1..n /\ i - 1 < i
      BY <1>0, <2>3, <2>5
    <3>2. i - 1 \notin bad
      BY <2>2, <2>3, <3>1
    <3>3. w[i - 1].seq >= m.seq + (i - 1)
      BY <1>2, <1>4, <3>1, <3>2
    <3> QED
      BY <1>2, <1>4, <1>5, <2>3, <3>1, <3>3
  <2> QED
    BY <2>4, <2>5
<1>7. \A i \in 1..n : m.seq + i <= w[i].seq
  BY <1>2, <1>4, <1>6
<1> HIDE DEF bad
<1>8. m.seq + n <= N
  <2>1. n \in 1..n
    BY <1>0, <1>3
  <2> QED
    BY <1>0, <1>2, <1>4, <1>7, <2>1
<1>9. n = limit
  <2>1. m.seq >= 1
    BY <1>2
  <2> QED
    BY <1>0, <1>2, <1>8, <2>1 DEF n
<1>10. DOMAIN w = 1..n
  BY <1>1
<1> QED
  BY <1>0, <1>2, <1>4, <1>7, <1>8, <1>9, <1>10 DEF N

\* A prompt that is made lacks nothing that was said.
LEMMA PromptIsWhole ==
    ASSUME NumberInv, NEW r \in Runs, SelectWindow(r)
    PROVE  /\ \A q \in Runs \ {r} : prompt'[q] = prompt[q]
           /\ messages' = messages /\ thread' = thread /\ thread.alive
           /\ WindowSet(r)' \subseteq messages
           /\ prompt'[r].summary = thread.summary
           /\ Spoken(messages) \subseteq WindowSet(r)' \cup prompt'[r].summary
<1>0. /\ r \in Procs /\ TypeInv /\ TypeOK /\ Near(r) /\ Holds(r) /\ pc[r] = "select" /\ Numbered
      /\ messages' = messages /\ thread' = thread /\ RowSound
  BY Constants DEF NumberInv, SerialInv, TypeInv, SelectWindow, Idle, db
<1>1. PICK w \in Windows(local[r].limit) :
          prompt' = [prompt EXCEPT ![r] = [window |-> w, summary |-> copy[r].summary]]
  BY DEF SelectWindow
<1>2. /\ prompt'[r].window = w /\ prompt'[r].summary = copy[r].summary
      /\ \A q \in Runs \ {r} : prompt'[q] = prompt[q]
  BY <1>0, <1>1 DEF TypeOK
<1>3. copy[r] = thread /\ thread.alive /\ Honest(thread) /\ thread \in Row
  BY <1>0 DEF Holds, RowSound, TypeOK
<1>4. local[r].limit \in Nat \ {0} /\ Cardinality(messages) \in Nat
  BY <1>0, FS_CardinalityType, ConversationAssumption DEF Near, TypeInv
<1>5. WindowSet(r)' = {w[i] : i \in DOMAIN w}
  BY <1>2 DEF WindowSet
<1>6. {w[i] : i \in DOMAIN w} \subseteq messages
  BY DEF Windows
<1>7. ASSUME NEW m \in Spoken(messages), m \notin {w[i] : i \in DOMAIN w} PROVE m \in thread.summary
  <2>1. m \in messages /\ m.seq \in Nat /\ m.seq >= 1
    BY <1>0 DEF Spoken, TypeOK, Message, Numbered
  <2>2. m.seq <= Cardinality(messages) - local[r].limit
    BY <1>0, <1>4, <1>7, <2>1, WindowIsTheEnd
  <2>3. Cardinality(messages) - local[r].limit <= thread.summarySeq
    BY <1>0, <1>3, <1>4, <2>1, <2>2 DEF Near
  <2>4. m.seq <= thread.summarySeq
    BY <1>3, <1>4, <2>1, <2>2, <2>3 DEF Row
  <2> QED
    BY <1>3, <2>4 DEF Honest
<1> QED
  BY <1>0, <1>2, <1>3, <1>5, <1>6, <1>7

\* A prompt changes only where it is made or given up.
LEMMA PromptsChange ==
    ASSUME TypeOK, NEW r \in Runs, [Next]_vars
    PROVE  prompt'[r] \in {prompt[r], NoPrompt} \/ SelectWindow(r)
<1>1. ASSUME NEW p \in Procs, Return(p) PROVE prompt'[r] \in {prompt[r], NoPrompt}
  BY <1>1 DEF Return
<1>2. ASSUME NEW p \in Runs, SelectWindow(p), p # r PROVE prompt'[r] = prompt[r]
  <2>1. PICK w \in Windows(local[p].limit) :
            prompt' = [prompt EXCEPT ![p] = [window |-> w, summary |-> copy[p].summary]]
    BY <1>2 DEF SelectWindow
  <2> QED
    BY <1>2, <2>1 DEF TypeOK
<1>3. ASSUME NEW p \in Procs, Acts(p) PROVE prompt' = prompt \/ Return(p) \/ (p \in Runs /\ SelectWindow(p))
  BY <1>3 DEF Acts, Working, MessageStep, CompactionStep, RunStep, ToolStep, CreateRun, CompactConversation,
     ReadSequence, CreateMessage, SaveThread, CountMessages, FindCutoff, Summarize, SaveSummary, Compacted,
     StartRun, BuildModelMessages, EnterToolLoop, ModelCallsTools, ModelAnswers, GenerationFails,
     ToolReturns, SetConversationTitle, ActivateSkill, ExecuteTool, CompleteRun, FinishRun, FailRun, EndRun,
     Cancelled, locals
<1>4. CASE AccountStep \/ Crash \/ UNCHANGED vars
  <2>1. prompt' = prompt \/ prompt'[r] = NoPrompt
    BY <1>4 DEF AccountStep, DeleteConversation, SetConversationGroup, DeleteConversationGroup, Crash, vars, locals
  <2> QED
    BY <2>1
<1> QED
  BY <1>1, <1>2, <1>3, <1>4 DEF Next, Acts

\* What a step does to the prompts.
LEMMA WholeStep ==
    ASSUME NumberInv, [Next]_vars
    PROVE  \A r \in Runs : prompt'[r] \notin {prompt[r], NoPrompt} =>
              Spoken(messages) \subseteq (WindowSet(r)' \cup prompt'[r].summary)
<1> SUFFICES ASSUME NEW r \in Runs, prompt'[r] \notin {prompt[r], NoPrompt}
             PROVE  Spoken(messages) \subseteq (WindowSet(r)' \cup prompt'[r].summary)
  OBVIOUS
<1>1. SelectWindow(r)
  BY PromptsChange DEF NumberInv, SerialInv, TypeInv
<1> QED
  BY <1>1, PromptIsWhole

Whole == \A r \in Runs : prompt'[r] \notin {prompt[r], NoPrompt} =>
            Spoken(messages) \subseteq (WindowSet(r)' \cup prompt'[r].summary)

\* For any number of requests that do not overlap, any history window and any
\* compactions, crashes and cancelled requests before it: what was said is in
\* the window of a prompt or in the summary it is given.
THEOREM SpecContextComplete == SerialRequests /\ Spec => ContextComplete
<1> SUFFICES ASSUME SerialRequests PROVE Spec => ContextComplete
  OBVIOUS
<1>1. NumberInv /\ [Next]_vars => NumberInv'
  BY NumberStep
<1>2. NumberInv /\ [Next]_vars => [Whole]_vars
  BY WholeStep DEF Whole
<1>3. Spec => [][Whole]_vars
  BY NumberInit, <1>1, <1>2, PTL DEF Spec
<1> QED
  BY <1>3 DEF Whole, ContextComplete

-----------------------------------------------------------------------------
(* Such requests keep the log of the person having the conversation.        *)

Entries == {Entry(m) : m \in messages}

Heard == [r \in Runs |-> {Entry(m) : m \in Spoken(WindowSet(r) \cup prompt[r].summary)}]

LEMMA AliveStays ==
    ASSUME SerialInv, CopiesAlive, NEW p \in Procs, Acts(p)
    PROVE  thread'.alive = thread.alive
<1>0. TypeOK /\ TypeOK' /\ thread.alive \in BOOLEAN /\ thread'.alive \in BOOLEAN
  <2>1. TypeOK /\ TypeOK'
    BY TypeStep DEF SerialInv, TypeInv, Next, Acts
  <2> QED
    BY <2>1 DEF TypeOK, Row
<1>1. CASE thread.alive
  BY <1>0, <1>1, OnlyDeletionKills
<1>2. CASE ~thread.alive
  <2>1. Idle(p)
    BY <1>2 DEF SerialInv, Holds
  <2>2. CreateRun(p) \/ CompactConversation(p)
    BY <2>1 DEF Acts, Working, MessageStep, CompactionStep, RunStep, ToolStep, Cancelled,
       ReadSequence, CreateMessage, SaveThread, CountMessages, FindCutoff, Summarize, SaveSummary,
       StartRun, BuildModelMessages, SelectWindow, EnterToolLoop, ModelCallsTools, ModelAnswers, GenerationFails,
       ToolReturns, SetConversationTitle, ActivateSkill, CompleteRun, FinishRun, FailRun, Idle
  <2> QED
    BY <2>2 DEF CreateRun, CompactConversation, db
<1> QED
  BY <1>1, <1>2

\* Nothing was said, and nobody has another prompt.
LEMMA NothingHeard ==
    ASSUME messages' = messages, prompt' = prompt
    PROVE  Entries' = Entries /\ Heard' = Heard
BY DEF Entries, Heard, WindowSet

LEMMA LogForgets ==
    ASSUME messages' = messages, thread'.alive = thread.alive,
           \A r \in Runs : prompt'[r] \in {prompt[r], NoPrompt}
    PROVE  Log!Forget
<1> DEFINE over == {r \in Runs : prompt'[r] # prompt[r]}
<1>1. Entries' = Entries
  BY DEF Entries
<1>2. ASSUME NEW r \in Runs PROVE Heard'[r] = IF r \in over THEN {} ELSE Heard[r]
  <2>1. CASE r \in over
    <3>1. prompt'[r] = NoPrompt
      BY <2>1
    <3>2. WindowSet(r)' = {} /\ prompt'[r].summary = {}
      BY <3>1 DEF WindowSet, NoPrompt
    <3> QED
      BY <2>1, <3>2 DEF Heard, Spoken
  <2>2. CASE r \notin over
    BY <2>2 DEF Heard, WindowSet
  <2> QED
    BY <2>1, <2>2
<1>3. over \in SUBSET Runs
  OBVIOUS
<1> HIDE DEF over
<1>4. Heard' = [r \in Runs |-> IF r \in over THEN {} ELSE Heard[r]]
  BY <1>2 DEF Heard
<1> QED
  BY <1>1, <1>3, <1>4 DEF Log!Forget, Entries, Heard

LEMMA LogSays ==
    ASSUME TrackInv, NumberInv, NEW p \in Procs, CreateMessage(p)
    PROVE  Log!Say
<1> DEFINE d == local[p].draft
<1>1. /\ TypeInv /\ Numbered /\ Near(p) /\ thread.alive /\ pc[p] = "create" /\ d \in Message
  BY DEF NumberInv, SerialInv, TypeInv, TypeOK, Local, CreateMessage, Idle, Holds
<1>2. messages' = messages \cup {d} /\ prompt' = prompt /\ thread' = thread
  BY DEF CreateMessage, locals
<1>3. d.seq = Cardinality(messages) + 1 /\ d.by = p /\ d.role \in Roles
  BY <1>1 DEF Near, Message
<1> HIDE DEF d
<1>4. {e.pos : e \in Entries} = 1..(d.seq - 1)
  <2>1. \A m : Entry(m).pos = m.seq
    BY DEF Entry
  <2>2. {e.pos : e \in Entries} = {m.seq : m \in messages}
    BY <2>1 DEF Entries
  <2>3. Cardinality(messages) \in Nat /\ LastSequence(messages) = Cardinality(messages)
    BY <1>1, FS_CardinalityType DEF TypeInv, Numbered
  <2>4. \A m \in messages : m.seq \in 1..Cardinality(messages)
    <3>1. \A m \in messages : m.seq <= LastSequence(messages)
      BY <1>1, Last
    <3>2. \A m \in messages : m.seq \in Nat /\ m.seq >= 1
      BY <1>1 DEF Numbered, TypeInv, TypeOK, Message
    <3> QED
      BY <2>3, <3>1, <3>2
  <2>5. \A k \in 1..Cardinality(messages) : \E m \in messages : m.seq = k
    BY <1>1 DEF Numbered
  <2>6. {m.seq : m \in messages} = 1..Cardinality(messages)
    BY <2>4, <2>5
  <2>7. d.seq - 1 = Cardinality(messages)
    BY <1>3, <2>3
  <2> QED
    BY <2>2, <2>6, <2>7
<1>5. Entries' = Entries \cup {Entry(d)}
  BY <1>2 DEF Entries
<1>6. Entry(d).pos = d.seq /\ Entry(d) \in [pos: Nat \ {0}, by: Procs, role: Roles]
  <2>1. d.seq \in Nat /\ d.seq # 0
    BY <1>1, <1>3, FS_CardinalityType DEF TypeInv
  <2> QED
    BY <1>3, <2>1 DEF Entry
<1>7. Heard' = Heard
  BY <1>2 DEF Heard, WindowSet
<1>8. \E e \in Entries' : /\ e \in [pos: Nat \ {0}, by: Procs, role: Roles]
                           /\ {x.pos : x \in Entries} = 1..(e.pos - 1)
                           /\ Entries' = Entries \cup {e}
  <2>1. Entry(d) \in Entries'
    BY <1>5
  <2> QED
    BY <1>4, <1>5, <1>6, <2>1
<1> QED
  BY <1>1, <1>2, <1>7, <1>8 DEF Log!Say, Log!Entry, Entries, Heard

LEMMA LogRecalls ==
    ASSUME NumberInv, NEW r \in Runs, SelectWindow(r)
    PROVE  Log!Recall(r)
<1> DEFINE seen == WindowSet(r)' \cup prompt'[r].summary
           all  == {e \in Entries : e.role \in SpokenRoles}
<1>0. /\ r \in Procs /\ TypeOK /\ Near(r) /\ pc[r] = "select" /\ Known(thread)
  BY Constants DEF NumberInv, SerialInv, TypeInv, SelectWindow, Idle, Holds
<1>1. /\ messages' = messages /\ thread' = thread /\ thread.alive
      /\ seen \subseteq messages /\ Spoken(messages) \subseteq seen
      /\ \A q \in Runs \ {r} : prompt'[q] = prompt[q]
  BY <1>0, PromptIsWhole DEF Known
<1> HIDE DEF seen
<1>2. Spoken(seen) = Spoken(messages)
  BY <1>1 DEF Spoken
<1>3. {Entry(m) : m \in Spoken(messages)} = all
  <2>1. \A m : Entry(m).role = m.role
    BY DEF Entry
  <2> QED
    BY <2>1 DEF Entries, Spoken
<1>4. Heard'[r] = all
  BY <1>2, <1>3 DEF Heard, seen
<1>5. \A q \in Runs \ {r} : Heard'[q] = Heard[q]
  BY <1>1 DEF Heard, WindowSet
<1> HIDE DEF all
<1>6. Heard' = [Heard EXCEPT ![r] = all]
  BY <1>4, <1>5 DEF Heard
<1>7. Entries' = Entries
  BY <1>1 DEF Entries
<1>8. \E e \in Entries : e.by = r
  <2>1. PICK m \in messages : m.by = r
    BY <1>0 DEF Near, Asked
  <2>2. Entry(m) \in Entries /\ Entry(m).by = r
    BY <2>1 DEF Entry, Entries
  <2> QED
    BY <2>2
<1> QED
  BY <1>1, <1>6, <1>7, <1>8 DEF Log!Recall, Entries, Heard, all

LEMMA LogDeletes ==
    ASSUME NumberInv, DeleteConversation
    PROVE  Log!Delete
<1>1. messages' = {} /\ thread'.alive = FALSE /\ prompt' = prompt
  BY DEF NumberInv, SerialInv, TypeInv, TypeOK, Row, DeleteConversation, SoftDeleteThreads, locals
<1>2. Entries' = {} /\ Heard' = Heard
  BY <1>1 DEF Entries, Heard, WindowSet
<1> QED
  BY <1>1, <1>2 DEF Log!Delete, Entries, Heard

LEMMA LogStep ==
    ASSUME TrackInv, NumberInv, [Next]_vars
    PROVE  [Log!Next]_<<Entries, Heard, thread.alive>>
<1>0. TypeOK
  BY DEF NumberInv, SerialInv, TypeInv
<1>1. ASSUME NEW p \in Procs, Acts(p) PROVE [Log!Next]_<<Entries, Heard, thread.alive>>
  <2>1. thread'.alive = thread.alive
    BY <1>1, AliveStays DEF TrackInv, NumberInv
  <2>2. CASE CreateMessage(p)
    BY <2>2, LogSays DEF Log!Next
  <2>3. CASE p \in Runs /\ SelectWindow(p)
    BY <2>3, LogRecalls DEF Log!Next
  <2>4. CASE ~CreateMessage(p) /\ ~\E r \in Runs : SelectWindow(r)
    <3>1. messages' = messages
      BY <1>1, <2>4, OnlyCreateTells
    <3>2. \A r \in Runs : prompt'[r] \in {prompt[r], NoPrompt}
      BY <1>0, <2>4, PromptsChange
    <3> QED
      BY <2>1, <3>1, <3>2, LogForgets DEF Log!Next
  <2>5. CASE \E r \in Runs : SelectWindow(r)
    BY <2>5, LogRecalls DEF Log!Next
  <2> QED
    BY <2>2, <2>3, <2>4, <2>5
<1>2. CASE Crash
  <2>1. messages' = messages /\ thread' = thread /\ \A r \in Runs : prompt'[r] \in {prompt[r], NoPrompt}
    BY <1>2 DEF Crash, db
  <2> QED
    BY <2>1, LogForgets DEF Log!Next
<1>3. CASE DeleteConversation
  BY <1>3, LogDeletes DEF Log!Next
<1>4. CASE SetConversationGroup \/ DeleteConversationGroup \/ UNCHANGED vars
  <2>1. messages' = messages /\ prompt' = prompt /\ thread'.alive = thread.alive
    BY <1>0, <1>4 DEF SetConversationGroup, DeleteConversationGroup, vars, db, locals, TypeOK, Row
  <2> QED
    BY <2>1, NothingHeard
<1> QED
  BY <1>1, <1>2, <1>3, <1>4 DEF Next, Acts, AccountStep

LEMMA LogInit == Init => Log!Init
<1> SUFFICES ASSUME Init PROVE Log!Init
  OBVIOUS
<1>1. {Entry(m) : m \in messages} = {} /\ thread.alive = TRUE
  BY DEF Init, NewThread
<1>2. \A r \in Runs : WindowSet(r) \cup prompt[r].summary = {}
  BY DEF Init, NoPrompt, WindowSet
<1>3. \A r \in Runs : {Entry(m) : m \in Spoken(WindowSet(r) \cup prompt[r].summary)} = {}
  BY <1>2 DEF Spoken
<1> QED
  BY <1>1, <1>3 DEF Log!Init

\* Requests that do not overlap, however many and whatever crashes or is
\* cancelled, keep a log: one numbered entry after the other until it is deleted
\* for good, and an agent that knows all that was said when it answers.
THEOREM SpecKeepsLog == SerialRequests /\ Spec => KeepsLog
<1> SUFFICES ASSUME SerialRequests PROVE Spec => KeepsLog
  OBVIOUS
<1>1. NumberInv /\ [Next]_vars => NumberInv'
  BY NumberStep
<1>2. TrackInv /\ NumberInv /\ [Next]_vars
        => [Log!Next]_<<{Entry(m) : m \in messages},
                        [r \in Runs |-> {Entry(m) : m \in Spoken(WindowSet(r) \cup prompt[r].summary)}],
                        thread.alive>>
  BY LogStep DEF Entries, Heard
<1> QED
  BY NumberInit, TrackInit, LogInit, TrackStep, <1>1, <1>2, PTL DEF Spec, KeepsLog, Log!Spec

-----------------------------------------------------------------------------
(* Rounds of tools that nothing interrupts but their end.                   *)

\* The calls of a message are the first ones of one round.
Round(calls) ==
    /\ \A c \in calls : \A j \in 1..c[3] : <<c[1], c[2], j>> \in calls
    /\ \A c, d \in calls : c[1] = d[1] /\ c[2] = d[2]

\* The results that came are those of the first calls, one after the other.
Follows(S) ==
    \A m, t \in S : t.answers \in m.calls =>
        \A j \in 1..t.answers[3] :
            \E x \in S : x.seq = m.seq + j /\ x.answers = <<t.answers[1], t.answers[2], j>>

\* The n calls of a round but the first a.
Batch(p, k, a, n) == {<<p, k, i>> : i \in (a + 1)..n}

\* The last a messages are the results of the first a of the n calls of m.
InRound(p, m, k, n, a) ==
    /\ m.calls = Batch(p, k, 0, n)
    /\ Cardinality(messages) = m.seq + a
    /\ \A j \in 1..a : \E x \in messages : x.seq = m.seq + j /\ x.answers = <<p, k, j>>

AtWork(p) == pc[p] = "tools" \/ (pc[p] = "save" /\ local[p].draft.role \in {"call", "tool"})

InTurn(p) ==
    /\ AtWork(p) =>
          \E m \in messages, k \in 1..MaxRounds, n \in 1..MaxCalls, a \in 0..MaxCalls :
             InRound(p, m, k, n, a) /\ local[p].pending = Batch(p, k, a, n)
    /\ Answers(p) =>
          \E m \in messages, k \in 1..MaxRounds, n \in 1..MaxCalls, a \in 0..MaxCalls :
             /\ InRound(p, m, k, n, a)
             /\ a < n
             /\ local[p].draft.answers = <<p, k, a + 1>>
             /\ local[p].pending = Batch(p, k, a + 1, n)
    /\ Calling(p) =>
          \E k \in 1..MaxRounds, n \in 1..MaxCalls :
             local[p].draft.calls = Batch(p, k, 0, n) /\ local[p].pending = local[p].draft.calls

\* A window misses nothing between its first message and its last, and has the
\* results of a call message right after it.
WellLaid(w) ==
    /\ \A i \in DOMAIN w : Round(w[i].calls)
    /\ \A i, j \in DOMAIN w : j = i + 1 => w[j].seq = w[i].seq + 1
    /\ \A i, j \in DOMAIN w : w[j].answers \in w[i].calls =>
          /\ w[j].seq = w[i].seq + w[j].answers[3]
          /\ \A k \in 1..w[j].answers[3] :
                \E x \in DOMAIN w :
                   w[x].role = "tool" /\ w[x].answers = <<w[j].answers[1], w[j].answers[2], k>>

RoundInv ==
    /\ PairInv
    /\ NumberInv
    /\ \A m \in messages : Round(m.calls)
    /\ Follows(messages)
    /\ \A p \in Procs : InTurn(p)
    /\ \A r \in Runs : WellLaid(prompt[r].window)

\* What a step of the one request that works leaves to show.
Turned(p) == InTurn(p)' /\ Follows(messages)' /\ \A m \in messages' : Round(m.calls)

LEMMA FollowsGrows ==
    ASSUME NEW S \in SUBSET Message, NEW d \in Message, Follows(S), Paired(S \cup {d}),
           \A m \in S : m.seq < d.seq,
           \A m \in S : d.answers \in m.calls =>
              \A j \in 1..d.answers[3] :
                 \E x \in S \cup {d} :
                    x.seq = m.seq + j /\ x.answers = <<d.answers[1], d.answers[2], j>>
    PROVE  Follows(S \cup {d})
<1>1. \A m \in S \cup {d} : m.seq \in Nat
  BY DEF Message
<1> SUFFICES ASSUME NEW m \in S \cup {d}, NEW t \in S \cup {d}, t.answers \in m.calls, NEW j \in 1..t.answers[3]
             PROVE  \E x \in S \cup {d} : x.seq = m.seq + j /\ x.answers = <<t.answers[1], t.answers[2], j>>
  BY DEF Follows
<1>2. m.seq < t.seq
  BY DEF Paired
<1>3. m \in S
  <2>1. m # d
    BY <1>1, <1>2
  <2> QED
    BY <2>1
<1>4. CASE t \in S
  BY <1>3, <1>4 DEF Follows
<1>5. CASE t = d
  BY <1>3, <1>5
<1> QED
  BY <1>4, <1>5

LEMMA RoundQuiet ==
    ASSUME RoundInv, NEW p \in Procs, messages' = messages, ~AtWork(p)', ~Answers(p)', ~Calling(p)'
    PROVE  Turned(p)
<1>1. InTurn(p)'
  BY DEF InTurn
<1> QED
  BY <1>1 DEF Turned, RoundInv

\* The next call of a round is the one after the results that came.
LEMMA NextInTurn ==
    ASSUME NEW p \in Procs, local[p] \in Local, NEW k \in Nat, NEW n \in Nat, NEW a \in Nat,
           local[p].pending = Batch(p, k, a, n), local[p].pending # {}
    PROVE  /\ a < n
           /\ NextCall(p) = <<p, k, a + 1>>
           /\ local[p].pending \ {NextCall(p)} = Batch(p, k, a + 1, n)
<1>1. a < n
  <2>1. \E i \in (a + 1)..n : TRUE
    BY DEF Batch
  <2> QED
    BY <2>1
<1>2. <<p, k, a + 1>> \in local[p].pending /\ <<p, k, a + 1>>[3] = a + 1
  BY <1>1 DEF Batch
<1>3. \A d \in local[p].pending : d[3] \in Nat /\ a + 1 <= d[3]
  BY DEF Batch
<1>4. \E c \in local[p].pending : \A d \in local[p].pending : c[3] <= d[3]
  BY <1>2, <1>3
<1>5. NextCall(p) \in local[p].pending /\ \A d \in local[p].pending : NextCall(p)[3] <= d[3]
  BY <1>4 DEF NextCall
<1>6. PICK i \in (a + 1)..n : NextCall(p) = <<p, k, i>>
  BY <1>5 DEF Batch
<1>7. i <= a + 1
  <2>1. NextCall(p)[3] = i
    BY <1>6
  <2> QED
    BY <1>2, <1>5, <2>1
<1>8. NextCall(p) = <<p, k, a + 1>>
  BY <1>6, <1>7
<1>9. \A i1 \in Int : i1 \in (a + 1)..n /\ i1 # a + 1 <=> i1 \in (a + 1 + 1)..n
  OBVIOUS
<1>10. local[p].pending \ {<<p, k, a + 1>>} = Batch(p, k, a + 1, n)
  BY <1>9 DEF Batch
<1> QED
  BY <1>1, <1>8, <1>10

LEMMA RoundTools ==
    ASSUME RoundInv, NEW p \in Runs, ToolStep(p)
    PROVE  Turned(p)
<1>0. /\ p \in Procs /\ TypeOK /\ TypeInv /\ local[p] \in Local /\ pc[p] = "tools" /\ messages' = messages
      /\ local[p].pending # {}
  BY Constants DEF RoundInv, PairInv, TypeInv, TypeOK, LocalsSound, Sound,
     ToolStep, ToolReturns, SetConversationTitle, ActivateSkill, ExecuteTool
<1>1. PICK active : ExecuteTool(p, NextCall(p), active)
  BY DEF ToolStep, ToolReturns, SetConversationTitle, ActivateSkill
<1> DEFINE c == NextCall(p)
<1>2. PICK m \in messages, k \in 1..MaxRounds, n \in 1..MaxCalls, a \in 0..MaxCalls :
          InRound(p, m, k, n, a) /\ local[p].pending = Batch(p, k, a, n)
  BY <1>0 DEF RoundInv, InTurn, AtWork
<1>3. k \in Nat /\ n \in Nat /\ a \in Nat
  BY Constants
<1>4. a < n /\ c = <<p, k, a + 1>> /\ local[p].pending \ {c} = Batch(p, k, a + 1, n)
  BY <1>0, <1>2, <1>3, NextInTurn
<1> HIDE DEF c
<1>5. pc'[p] = "sequence"
  BY <1>0, <1>1, GotoTyped DEF ExecuteTool, Labels
<1>6. local'[p] = [local[p] EXCEPT !.draft = Draft(p, "tool", {}, c), !.pending = @ \ {c}, !.active = active]
  BY <1>0, <1>1 DEF ExecuteTool, Set, TypeOK, c
<1>7. local'[p].draft = Draft(p, "tool", {}, c) /\ local'[p].pending = local[p].pending \ {c}
  BY <1>0, <1>6 DEF Local
<1>8. local'[p].draft.role = "tool" /\ local'[p].draft.answers = c
  BY <1>7 DEF Draft
<1>9. InRound(p, m, k, n, a)'
  BY <1>0, <1>2 DEF InRound
<1>10. ~AtWork(p)' /\ ~Calling(p)'
  BY <1>5, <1>8 DEF AtWork, Calling
<1>11. InTurn(p)'
  BY <1>0, <1>4, <1>7, <1>8, <1>9, <1>10 DEF InTurn
<1> QED
  BY <1>0, <1>11 DEF Turned, RoundInv

LEMMA RoundCalls ==
    ASSUME RoundInv, NEW p \in Runs, ModelCallsTools(p)
    PROVE  Turned(p)
<1>0. p \in Procs /\ TypeOK /\ local[p] \in Local /\ pc[p] = "model" /\ messages' = messages /\ local[p].rounds > 0
  BY Constants DEF RoundInv, PairInv, TypeInv, TypeOK, ModelCallsTools, db
<1> DEFINE k == local[p].rounds
<1>1. PICK n \in 1..MaxCalls :
          Set(p, [local[p] EXCEPT !.draft = Draft(p, "call", {<<p, k, i>> : i \in 1..n}, None),
                                  !.pending = {<<p, k, i>> : i \in 1..n},
                                  !.rounds = @ - 1])
  BY DEF ModelCallsTools
<1> DEFINE calls == {<<p, k, i>> : i \in 1..n}
<1>2. pc'[p] = "sequence"
  BY <1>0, GotoTyped DEF ModelCallsTools, Labels
<1>3. k \in 1..MaxRounds
  <2>1. k \in 0..MaxRounds
    BY <1>0 DEF Local
  <2> QED
    BY <1>0, <2>1
<1>4. local'[p] = [local[p] EXCEPT !.draft = Draft(p, "call", calls, None), !.pending = calls, !.rounds = @ - 1]
  BY <1>0, <1>1 DEF Set, TypeOK
<1> HIDE DEF calls
<1>5. local'[p].draft = Draft(p, "call", calls, None) /\ local'[p].pending = calls
  BY <1>0, <1>4 DEF Local
<1>6. local'[p].draft.role = "call" /\ local'[p].draft.calls = calls
  BY <1>5 DEF Draft
<1>7. ~AtWork(p)' /\ ~Answers(p)'
  BY <1>2, <1>6 DEF AtWork, Answers
<1>8. \E k1 \in 1..MaxRounds, n1 \in 1..MaxCalls :
          local'[p].draft.calls = Batch(p, k1, 0, n1) /\ local'[p].pending = local'[p].draft.calls
  <2>1. calls = Batch(p, k, 0, n)
    BY DEF calls, Batch
  <2> QED
    BY <1>3, <1>5, <1>6, <2>1
<1>9. InTurn(p)'
  BY <1>7, <1>8 DEF InTurn
<1> QED
  BY <1>0, <1>9 DEF Turned, RoundInv

LEMMA RoundSends ==
    ASSUME RoundInv, Paired(messages)', NEW p \in Procs, CreateMessage(p)
    PROVE  Turned(p)
<1> DEFINE N == Cardinality(messages)
<1> PICK d : d = local[p].draft
  OBVIOUS
<1>0. /\ TypeOK /\ TypeInv /\ local[p] \in Local /\ d \in Message /\ pc[p] = "create" /\ Numbered /\ Near(p)
      /\ messages \subseteq Message /\ Paired(messages) /\ Made(p) /\ InTurn(p) /\ Follows(messages)
  BY DEF RoundInv, NumberInv, SerialInv, PairInv, TypeInv, TypeOK, Local, CreateMessage, Idle
<1>1. messages' = messages \cup {d} /\ local' = local
  BY DEF CreateMessage, locals
<1>2. pc'[p] = "save"
  BY <1>0, GotoTyped DEF CreateMessage, Labels
<1>3. d.seq = N + 1 /\ N \in Nat
  BY <1>0, FS_CardinalityType DEF Near, TypeInv
<1>4. Cardinality(messages') = N + 1
  BY <1>0, <1>1, <1>3, NumberedGrows
<1>5. \A m \in messages : m.seq < d.seq
  <2>1. \A m \in messages : m.seq \in Nat /\ m.seq <= LastSequence(messages)
    BY <1>0, Last DEF Message
  <2> QED
    BY <1>0, <1>3, <2>1 DEF Numbered
<1>6. Shaped(d) /\ d.role \in Roles
  BY <1>0 DEF Made, Message
<1>7. ~Answers(p)' /\ ~Calling(p)'
  BY <1>2 DEF Answers, Calling
<1>8. \A m \in messages : Round(m.calls)
  BY DEF RoundInv
<1> HIDE DEF N
<1>9. CASE d.role = "call"
  <2>1. PICK k \in 1..MaxRounds, n \in 1..MaxCalls :
            d.calls = Batch(p, k, 0, n) /\ local[p].pending = d.calls
    BY <1>0, <1>9 DEF InTurn, Calling
  <2>2. d.answers = None
    BY <1>6, <1>9 DEF Shaped
  <2>3. \A m \in messages : d.answers \notin m.calls
    BY <1>0, <2>2, ConversationAssumption DEF Message
  <2>4. Follows(messages')
    BY <1>0, <1>1, <1>5, <2>3, FollowsGrows
  <2>5. Round(d.calls)
    <3>1. \A c \in d.calls : \E i \in 1..n : c = <<p, k, i>>
      BY <2>1 DEF Batch
    <3>2. \A c \in d.calls : c[1] = p /\ c[2] = k /\ c[3] \in 1..n
      BY <3>1
    <3>3. \A c \in d.calls : \A j \in 1..c[3] : <<c[1], c[2], j>> \in d.calls
      BY <2>1, <3>2, Constants DEF Batch
    <3> QED
      BY <3>2, <3>3 DEF Round
  <2>6. InRound(p, d, k, n, 0)'
    <3>1. Cardinality(messages') = d.seq + 0
      BY <1>3, <1>4
    <3> QED
      BY <2>1, <3>1 DEF InRound
  <2>7. InTurn(p)'
    <3>1. local'[p].pending = Batch(p, k, 0, n)
      BY <1>1, <2>1
    <3>2. 0 \in 0..MaxCalls /\ d \in messages'
      BY <1>1, Constants
    <3> QED
      BY <1>7, <2>6, <3>1, <3>2 DEF InTurn
  <2> QED
    BY <1>1, <1>8, <2>4, <2>5, <2>7 DEF Turned
<1>10. CASE d.role = "tool"
  <2>1. PICK m \in messages, k \in 1..MaxRounds, n \in 1..MaxCalls, a \in 0..MaxCalls :
            /\ InRound(p, m, k, n, a)
            /\ a < n
            /\ d.answers = <<p, k, a + 1>>
            /\ local[p].pending = Batch(p, k, a + 1, n)
    BY <1>0, <1>10 DEF InTurn, Answers
  <2>2. k \in Nat /\ n \in Nat /\ a \in Nat /\ m.seq \in Nat /\ a + 1 \in 0..MaxCalls /\ a + 1 \in 1..n
    BY <1>0, <2>1, Constants DEF Message
  <2>3. d.calls = {}
    BY <1>6, <1>10 DEF Shaped
  <2>4. d.seq = m.seq + (a + 1) /\ Cardinality(messages') = m.seq + (a + 1)
    BY <1>3, <1>4, <2>1, <2>2 DEF InRound, N
  <2>5. \A j \in 1..(a + 1) : \E x \in messages \cup {d} : x.seq = m.seq + j /\ x.answers = <<p, k, j>>
    <3>1. \A j \in 1..a : \E x \in messages : x.seq = m.seq + j /\ x.answers = <<p, k, j>>
      BY <2>1 DEF InRound
    <3>2. \A j \in 1..(a + 1) : j \in 1..a \/ j = a + 1
      BY <2>2
    <3> QED
      BY <2>1, <2>4, <3>1, <3>2
  <2>6. ASSUME NEW m1 \in messages, d.answers \in m1.calls PROVE m1 = m
    <3>1. d.answers \in m.calls
      BY <2>1, <2>2 DEF InRound, Batch
    <3> QED
      BY <1>0, <2>6, <3>1 DEF Paired
  <2>7. d.answers[1] = p /\ d.answers[2] = k /\ d.answers[3] = a + 1
    BY <2>1
  <2>8. Follows(messages')
    <3>1. \A m1 \in messages : d.answers \in m1.calls =>
             \A j \in 1..d.answers[3] :
                \E x \in messages \cup {d} :
                   x.seq = m1.seq + j /\ x.answers = <<d.answers[1], d.answers[2], j>>
      BY <2>5, <2>6, <2>7
    <3> QED
      BY <1>0, <1>1, <1>5, <3>1, FollowsGrows
  <2>9. Round(d.calls)
    BY <2>3 DEF Round
  <2>10. InRound(p, m, k, n, a + 1)'
    BY <1>1, <2>1, <2>4, <2>5 DEF InRound
  <2>11. InTurn(p)'
    <3>1. local'[p].pending = Batch(p, k, a + 1, n)
      BY <1>1, <2>1, <2>2
    <3>2. m \in messages'
      BY <1>1
    <3> QED
      BY <1>7, <2>2, <2>10, <3>1, <3>2 DEF InTurn
  <2> QED
    BY <1>1, <1>8, <2>8, <2>9, <2>11 DEF Turned
<1>11. CASE d.role \in {"user", "assistant"}
  <2>1. d.calls = {} /\ d.answers = None
    BY <1>6, <1>11 DEF Shaped
  <2>2. \A m \in messages : d.answers \notin m.calls
    BY <1>0, <2>1, ConversationAssumption DEF Message
  <2>3. ~AtWork(p)'
    BY <1>1, <1>2, <1>11 DEF AtWork
  <2>4. Follows(messages')
    BY <1>0, <1>1, <1>5, <2>2, FollowsGrows
  <2>5. Round(d.calls)
    BY <2>1 DEF Round
  <2>6. InTurn(p)'
    BY <1>7, <2>3 DEF InTurn
  <2> QED
    BY <1>1, <1>8, <2>4, <2>5, <2>6 DEF Turned
<1> QED
  BY <1>6, <1>9, <1>10, <1>11 DEF Roles

LEMMA RoundActs ==
    ASSUME RoundInv, NEW p \in Procs, Acts(p), ~Return(p), ~CreateMessage(p),
           ~(p \in Runs /\ (ToolStep(p) \/ ModelCallsTools(p)))
    PROVE  Turned(p)
<1>0. /\ TypeOK /\ local[p] \in Local /\ messages' = messages /\ InTurn(p) /\ Sound(p, pc[p], local[p])
  BY OnlyCreateTells DEF RoundInv, PairInv, TypeInv, TypeOK, LocalsSound
<1>1. \A l \in Labels : Goto(p, l) => pc'[p] = l
  BY <1>0, GotoTyped
<1>2. \A l : Set(p, l) => local'[p] = l
  BY <1>0 DEF Set, TypeOK
<1>3. ASSUME pc'[p] \notin {"tools", "save", "sequence", "create"} PROVE Turned(p)
  <2>1. ~AtWork(p)' /\ ~Answers(p)' /\ ~Calling(p)'
    BY <1>3 DEF AtWork, Answers, Calling
  <2> QED
    BY <1>0, <2>1, RoundQuiet
<1>4. ASSUME pc'[p] = "sequence", local'[p].draft.role \in {"user", "assistant"} PROVE Turned(p)
  <2>1. ~AtWork(p)' /\ ~Answers(p)' /\ ~Calling(p)'
    BY <1>4 DEF AtWork, Answers, Calling
  <2> QED
    BY <1>0, <2>1, RoundQuiet
<1>5. CASE ReadSequence(p)
  <2>1. pc'[p] = "create" /\ pc[p] = "sequence" /\ local'[p] = [local[p] EXCEPT !.draft.seq = NextSequence]
    BY <1>1, <1>2, <1>5 DEF ReadSequence, Labels
  <2>2. /\ local'[p].draft.role = local[p].draft.role /\ local'[p].draft.calls = local[p].draft.calls
        /\ local'[p].draft.answers = local[p].draft.answers /\ local'[p].pending = local[p].pending
    BY <1>0, <2>1 DEF Local, Message
  <2>3. ~AtWork(p)' /\ (Answers(p)' <=> Answers(p)) /\ (Calling(p)' <=> Calling(p))
    BY <2>1, <2>2 DEF AtWork, Answers, Calling
  <2>4. \A m, k, n, a : InRound(p, m, k, n, a)' <=> InRound(p, m, k, n, a)
    BY <1>0 DEF InRound
  <2>5. InTurn(p)'
    BY <1>0, <2>2, <2>3, <2>4 DEF InTurn
  <2> QED
    BY <1>0, <2>5 DEF Turned, RoundInv
<1>6. CASE SaveThread(p)
  <2>1. Goto(p, AfterMessage(p)) /\ local' = local /\ pc[p] = "save"
    BY <1>6 DEF SaveThread
  <2>2. local[p].draft.role \in Roles
    BY <1>0 DEF Local, Message
  <2>3. /\ AfterMessage(p) \in {"start", "tools", "model", "finish"}
        /\ AfterMessage(p) = "tools" => local[p].draft.role \in {"call", "tool"}
    BY <2>2 DEF AfterMessage, Roles
  <2>4. pc'[p] = AfterMessage(p)
    BY <1>1, <2>1, <2>3 DEF Labels
  <2>5. CASE AfterMessage(p) # "tools"
    BY <1>3, <2>3, <2>4, <2>5
  <2>6. CASE AfterMessage(p) = "tools"
    <3>1. AtWork(p) /\ ~Answers(p)' /\ ~Calling(p)'
      BY <2>1, <2>3, <2>4, <2>6 DEF AtWork, Answers, Calling
    <3>2. \A m, k, n, a : InRound(p, m, k, n, a)' <=> InRound(p, m, k, n, a)
      BY <1>0 DEF InRound
    <3>3. InTurn(p)'
      BY <1>0, <2>1, <3>1, <3>2 DEF InTurn
    <3> QED
      BY <1>0, <3>3 DEF Turned, RoundInv
  <2> QED
    BY <2>5, <2>6
<1>7. CASE CreateRun(p)
  <2>1. pc[p] = "idle" /\ pc'[p] = "sequence"
    BY <1>1, <1>7 DEF CreateRun, Labels
  <2>2. local'[p] = [local[p] EXCEPT !.active = IF p \in Runs THEN thread.skills ELSE {}]
    BY <1>2, <1>7 DEF CreateRun
  <2>3. local'[p].draft = local[p].draft
    BY <1>0, <2>2 DEF Local
  <2>4. local[p] = Fresh(p)
    BY <1>0, <2>1 DEF Sound
  <2>5. local'[p].draft.role = "user"
    BY <2>3, <2>4 DEF Fresh, Draft
  <2> QED
    BY <1>4, <2>1, <2>5
<1>8. CASE p \in Runs /\ CompleteRun(p)
  <2>1. pc'[p] = "sequence"
    BY <1>1, <1>8 DEF CompleteRun, Labels
  <2>2. local'[p] = [local[p] EXCEPT !.draft = Draft(p, "assistant", {}, None)]
    BY <1>2, <1>8 DEF CompleteRun
  <2>3. local'[p].draft.role = "assistant"
    BY <1>0, <2>2 DEF Local, Draft
  <2> QED
    BY <1>4, <2>1, <2>3
<1>9. CASE CompactConversation(p) \/ CompactionStep(p)
  <2>1. pc'[p] \in {"count", "latest", "select", "fail", "read", "summarized"}
    BY <1>1, <1>9 DEF CompactConversation, CompactionStep, CountMessages, FindCutoff, Summarize, SaveSummary,
                      Compacted, Labels
  <2> QED
    BY <1>3, <2>1
<1>10. CASE /\ p \in Runs
            /\ \/ StartRun(p) \/ BuildModelMessages(p) \/ SelectWindow(p) \/ EnterToolLoop(p) \/ ModelAnswers(p)
               \/ GenerationFails(p)
  <2>1. pc'[p] \in {"build", "count", "fail", "loop", "model", "complete"}
    BY <1>1, <1>10 DEF StartRun, BuildModelMessages, SelectWindow, EnterToolLoop, ModelAnswers, GenerationFails, Labels
  <2> QED
    BY <1>3, <2>1
<1> QED
  BY <1>5, <1>6, <1>7, <1>8, <1>9, <1>10
     DEF Acts, Working, MessageStep, RunStep, FinishRun, FailRun, EndRun, Cancelled

LEMMA ActorInTurn ==
    ASSUME RoundInv, PairInv', NEW p \in Procs, Acts(p)
    PROVE  Turned(p)
<1>1. CASE Return(p)
  <2>0. TypeOK
    BY DEF RoundInv, PairInv, TypeInv
  <2>1. pc'[p] = "done"
    BY <1>1, <2>0, ReturnTyped
  <2>2. ~CreateMessage(p)
    <3>1. CreateMessage(p) => pc'[p] = "save"
      BY <2>0, GotoTyped DEF CreateMessage, Labels
    <3> QED
      BY <2>1, <3>1
  <2>3. ~AtWork(p)' /\ ~Answers(p)' /\ ~Calling(p)'
    BY <2>1 DEF AtWork, Answers, Calling
  <2> QED
    BY <2>2, <2>3, OnlyCreateTells, RoundQuiet
<1>2. CASE CreateMessage(p)
  BY <1>2, RoundSends DEF PairInv
<1> QED
  BY <1>1, <1>2, RoundTools, RoundCalls, RoundActs

\* The window of a conversation whose rounds are never cut into.
LEMMA WindowsAreWellLaid ==
    ASSUME TypeInv, Numbered, Paired(messages), Follows(messages), \A m \in messages : Round(m.calls),
           NEW limit \in Nat \ {0}, NEW w \in Windows(limit)
    PROVE  WellLaid(w)
<1> DEFINE N == Cardinality(messages)
           n == IF N < limit THEN N ELSE limit
<1>0. N \in Nat /\ n \in Nat /\ messages \subseteq Message
  BY FS_CardinalityType DEF TypeInv, TypeOK
<1>1. /\ DOMAIN w = 1..n /\ \A i \in DOMAIN w : w[i] \in messages
      /\ \A i, j \in DOMAIN w : i < j => w[i] # w[j] /\ w[i].seq <= w[j].seq
  BY DEF Windows
<1>2. \A x \in messages : x.seq \in 1..N
  <2>1. \A x \in messages : x.seq \in Nat /\ x.seq <= LastSequence(messages)
    BY <1>0, Last DEF Message
  <2> QED
    BY <1>0, <2>1 DEF Numbered
<1>3. /\ \A s \in 1..N : \E x \in messages : x.seq = s
      /\ \A x, y \in messages : x.seq = y.seq => x = y
  BY DEF Numbered
<1> HIDE DEF N
<1>4. \A i \in DOMAIN w : i \in Nat
  BY <1>0, <1>1
<1> HIDE DEF n
<1>5. \A i, j \in DOMAIN w : w[i].seq < w[j].seq => i < j
  <2>1. \A i, j \in DOMAIN w : i < j \/ j < i \/ i = j
    BY <1>4
  <2>2. \A i \in DOMAIN w : w[i].seq \in Nat
    BY <1>0, <1>1, <1>2
  <2> QED
    BY <1>1, <2>1, <2>2
\* What comes after a message of the window is in the window.
<1>6. ASSUME NEW i \in DOMAIN w, NEW x \in messages, w[i].seq < x.seq PROVE \E y \in DOMAIN w : w[y] = x
  <2> SUFFICES ASSUME \A y \in DOMAIN w : w[y] # x PROVE FALSE
    OBVIOUS
  <2>1. x.seq < w[i].seq
    BY WindowIsTheEnd
  <2> QED
    BY <1>0, <1>1, <1>2, <1>6, <2>1
<1>7. ASSUME NEW i \in DOMAIN w, NEW j \in DOMAIN w, j = i + 1 PROVE w[j].seq = w[i].seq + 1
  <2>1. w[i] \in messages /\ w[j] \in messages /\ w[i].seq \in 1..N /\ w[j].seq \in 1..N
    BY <1>1, <1>2
  <2>2. w[i].seq < w[j].seq
    <3>1. i < j
      BY <1>4, <1>7
    <3>2. w[i].seq # w[j].seq
      BY <1>1, <1>3, <2>1, <3>1
    <3> QED
      BY <1>0, <1>1, <2>1, <3>1, <3>2
  <2> SUFFICES ASSUME w[i].seq + 1 < w[j].seq PROVE FALSE
    BY <1>0, <2>1, <2>2
  <2>3. w[i].seq + 1 \in 1..N
    BY <1>0, <2>1
  <2>4. PICK x \in messages : x.seq = w[i].seq + 1
    BY <1>3, <2>3
  <2>5. PICK y \in DOMAIN w : w[y] = x
    BY <1>0, <1>6, <2>1, <2>4
  <2>6. i < y /\ y < j
    BY <1>0, <1>5, <2>1, <2>4, <2>5
  <2> QED
    BY <1>4, <1>7, <2>6
<1>8. ASSUME NEW i \in DOMAIN w, NEW j \in DOMAIN w, w[j].answers \in w[i].calls
      PROVE  /\ w[j].seq = w[i].seq + w[j].answers[3]
             /\ \A k \in 1..w[j].answers[3] :
                   \E x \in DOMAIN w : w[x].role = "tool" /\ w[x].answers = <<w[j].answers[1], w[j].answers[2], k>>
  <2> PICK m : m = w[i]
    OBVIOUS
  <2> PICK c : c = w[j].answers
    OBVIOUS
  <2>1. m \in messages /\ w[j] \in messages /\ m.seq \in 1..N /\ c \in m.calls /\ m.calls \subseteq Calls
    BY <1>0, <1>1, <1>2, <1>8 DEF Message
  <2>2. c \in Calls /\ c[3] \in Nat /\ c[3] >= 1 /\ c = <<c[1], c[2], c[3]>>
    BY <2>1, Constants DEF Calls
  <2>3. \A k \in 1..c[3] : \E x \in messages : x.seq = m.seq + k /\ x.answers = <<c[1], c[2], k>>
    BY <1>8, <2>1 DEF Follows
  <2>4. w[j].seq = m.seq + c[3]
    <3>1. c[3] \in 1..c[3]
      BY <2>2
    <3>2. PICK x \in messages : x.seq = m.seq + c[3] /\ x.answers = <<c[1], c[2], c[3]>>
      BY <2>3, <3>1
    <3>3. x.answers = w[j].answers /\ x.answers # None
      BY <2>2, <3>2, ConversationAssumption
    <3>4. x = w[j]
      BY <2>1, <3>3 DEF Paired
    <3> QED
      BY <3>2, <3>4
  <2>5. ASSUME NEW k \in 1..c[3]
        PROVE  \E x \in DOMAIN w : w[x].role = "tool" /\ w[x].answers = <<c[1], c[2], k>>
    <3>1. PICK x \in messages : x.seq = m.seq + k /\ x.answers = <<c[1], c[2], k>>
      BY <2>3, <2>5
    <3>2. k \in Nat /\ k >= 1
      BY <2>2
    <3>3. w[i].seq < x.seq
      BY <1>0, <2>1, <3>1, <3>2
    <3>4. PICK y \in DOMAIN w : w[y] = x
      BY <1>6, <3>3
    <3>5. <<c[1], c[2], k>> \in m.calls
      BY <2>1, <2>5 DEF Round
    <3>6. x.answers # None
      BY <2>1, <3>1, <3>5, ConversationAssumption
    <3>7. x.role = "tool"
      BY <3>6 DEF Paired, Shaped
    <3> QED
      BY <3>1, <3>4, <3>7
  <2> QED
    BY <2>4, <2>5
<1>9. \A i \in DOMAIN w : Round(w[i].calls)
  BY <1>1
<1> QED
  BY <1>7, <1>8, <1>9 DEF WellLaid

LEMMA LaidWindows ==
    ASSUME RoundInv, [Next]_vars, NEW r \in Runs
    PROVE  WellLaid(prompt'[r].window)
<1>0. WellLaid(prompt[r].window) /\ TypeOK /\ TypeInv /\ r \in Procs
  BY Constants DEF RoundInv, PairInv, TypeInv
<1>1. CASE prompt'[r] \in {prompt[r], NoPrompt}
  <2>1. WellLaid(<<>>)
    BY DEF WellLaid
  <2> QED
    BY <1>0, <1>1, <2>1 DEF NoPrompt
<1>2. CASE SelectWindow(r)
  <2>1. PICK w \in Windows(local[r].limit) :
            prompt' = [prompt EXCEPT ![r] = [window |-> w, summary |-> copy[r].summary]]
    BY <1>2 DEF SelectWindow
  <2>2. prompt'[r].window = w
    BY <1>0, <2>1 DEF TypeOK
  <2>3. pc[r] = "select" /\ Near(r) /\ Numbered
    BY <1>0, <1>2 DEF SelectWindow, RoundInv, NumberInv, Idle
  <2>4. local[r].limit \in Nat \ {0}
    BY <2>3, ConversationAssumption DEF Near
  <2>5. WellLaid(w)
    BY <1>0, <2>3, <2>4, WindowsAreWellLaid DEF RoundInv, PairInv
  <2> QED
    BY <2>2, <2>5
<1> QED
  BY <1>0, <1>1, <1>2, PromptsChange

LEMMA RoundStep == SerialRequests /\ RoundInv /\ [Next]_vars => RoundInv'
<1> SUFFICES ASSUME SerialRequests, RoundInv, [Next]_vars PROVE RoundInv'
  OBVIOUS
<1>1. PairInv' /\ NumberInv'
  BY PairStep, NumberStep DEF RoundInv
<1>2. \A r \in Runs : WellLaid(prompt'[r].window)
  BY LaidWindows
<1>3. ASSUME NEW q \in Procs, pc'[q] \in {"idle", "done"} PROVE InTurn(q)'
  BY <1>3 DEF InTurn, AtWork, Answers, Calling
<1>4. ASSUME NEW p \in Procs, Acts(p) PROVE RoundInv'
  <2>1. Turned(p)
    BY <1>1, <1>4, ActorInTurn
  <2>2. ASSUME NEW q \in Procs, q # p PROVE InTurn(q)'
    <3>1. pc'[q] \in {"idle", "done"}
      BY <1>4, <2>2, AloneAtWork DEF Idle, RoundInv, NumberInv
    <3> QED
      BY <1>3, <3>1
  <2> QED
    BY <1>1, <1>2, <2>1, <2>2 DEF RoundInv, Turned
<1>5. CASE AccountStep \/ Crash
  <2>1. \A q \in Procs : pc'[q] \in {"idle", "done"}
    BY <1>5 DEF AccountStep, DeleteConversation, SetConversationGroup, DeleteConversationGroup, NobodyWorks, Idle, Crash
  <2>2. messages' = messages \/ messages' = {}
    BY <1>5 DEF AccountStep, DeleteConversation, SoftDeleteThreads, SetConversationGroup, DeleteConversationGroup,
                Crash, db
  <2>3. Follows(messages') /\ \A m \in messages' : Round(m.calls)
    BY <2>2 DEF RoundInv, Follows
  <2> QED
    BY <1>1, <1>2, <1>3, <2>1, <2>3 DEF RoundInv
<1>6. CASE UNCHANGED vars
  <2>1. messages' = messages /\ pc' = pc /\ local' = local
    BY <1>6 DEF vars, db, locals
  <2>2. \A p \in Procs : InTurn(p)'
    <3>1. \A p, m, k, n, a : InRound(p, m, k, n, a)' <=> InRound(p, m, k, n, a)
      BY <2>1 DEF InRound
    <3> QED
      BY <2>1, <3>1 DEF RoundInv, InTurn, AtWork, Answers, Calling
  <2> QED
    BY <1>1, <1>2, <2>1, <2>2 DEF RoundInv
<1> QED
  BY <1>4, <1>5, <1>6 DEF Next, Acts

LEMMA RoundInit == Init => RoundInv
<1> SUFFICES ASSUME Init PROVE RoundInv
  OBVIOUS
<1>1. PairInv /\ NumberInv
  BY PairInit, NumberInit
<1>2. messages = {} /\ \A p \in Procs : pc[p] = "idle"
  BY DEF Init
<1>3. \A r \in Runs : WellLaid(prompt[r].window)
  BY DEF Init, NoPrompt, WellLaid
<1> QED
  BY <1>1, <1>2, <1>3 DEF RoundInv, Follows, InTurn, AtWork, Answers, Calling

LEMMA LaidInARow ==
    ASSUME NEW w \in Seq(Message), WellLaid(w), NEW i \in DOMAIN w, NEW j \in DOMAIN w, i <= j
    PROVE  w[j].seq = w[i].seq + (j - i)
<1> DEFINE bad == {l \in DOMAIN w : i <= l /\ w[l].seq # w[i].seq + (l - i)}
<1>0. \A l \in DOMAIN w : l \in Nat /\ l >= 1 /\ 1..l \subseteq DOMAIN w /\ w[l].seq \in Nat
  <2>1. \A l \in DOMAIN w : l \in Nat /\ l >= 1 /\ 1..l \subseteq DOMAIN w /\ w[l] \in Message
    OBVIOUS
  <2>2. \A m \in Message : m.seq \in Nat
    BY DEF Message
  <2> QED
    BY <2>1, <2>2
<1>1. bad = {}
  <2> SUFFICES ASSUME bad # {} PROVE FALSE
    OBVIOUS
  <2>1. bad \subseteq Nat
    BY <1>0
  <2>2. PICK l \in bad : \A k \in bad : l <= k
    <3> HIDE DEF bad
    <3> QED
      BY <2>1, LeastNatural
  <2>3. l \in DOMAIN w /\ i <= l /\ w[l].seq # w[i].seq + (l - i)
    OBVIOUS
  <2>4. l # i
    BY <1>0, <2>3
  <2>5. l - 1 \in DOMAIN w /\ i <= l - 1
    <3>1. i \in Nat /\ l \in Nat /\ i >= 1 /\ 1..l \subseteq DOMAIN w
      BY <1>0, <2>3
    <3> QED
      BY <2>3, <2>4, <3>1
  <2>6. l - 1 \notin bad
    <3>1. l \in Nat
      BY <1>0, <2>3
    <3> QED
      BY <2>2, <3>1
  <2>7. w[l - 1].seq = w[i].seq + ((l - 1) - i)
    BY <2>5, <2>6
  <2>8. w[l].seq = w[l - 1].seq + 1
    <3>1. l = (l - 1) + 1
      BY <1>0, <2>3
    <3> QED
      BY <2>3, <2>5, <3>1 DEF WellLaid
  <2> QED
    <3>1. l \in Nat /\ i \in Nat /\ w[i].seq \in Nat
      BY <1>0, <2>3
    <3> HIDE DEF bad
    <3> QED
      BY <2>3, <2>7, <2>8, <3>1
<1> QED
  BY <1>1

\* k kept calls of one round: one of them is in place k of it or later.
LEMMA KeptFar ==
    ASSUME NEW K \in SUBSET Calls, \A c, d \in K : c[1] = d[1] /\ c[2] = d[2],
           NEW k \in 1..Cardinality(K)
    PROVE  \E c \in K : k <= c[3]
<1> DEFINE f == [c \in K |-> c[3]]
<1>2. \A c \in K : c[3] \in 1..MaxCalls /\ c = <<c[1], c[2], c[3]>>
  BY DEF Calls
<1>3. \A c, d \in K : c[3] = d[3] => c = d
  BY <1>2
<1>4. ASSUME NEW b \in Nat, \A c \in K : c[3] <= b
      PROVE  IsFiniteSet(K) /\ Cardinality(K) <= b
  <2>1. \A c \in K : c[3] \in 1..b
    BY <1>2, <1>4, Constants
  <2>2. f \in [K -> 1..b] /\ \A c, d \in K : f[c] = f[d] => c = d
    BY <1>3, <2>1
  <2> HIDE DEF f
  <2>3. f \in Injection(K, 1..b)
    BY <2>2 DEF Injection, IsInjective
  <2>4. IsFiniteSet(1..b) /\ Cardinality(1..b) = b
    <3>1. 1 \in Int /\ b \in Int
      OBVIOUS
    <3>2. IsFiniteSet(1..b) /\ Cardinality(1..b) = IF 1 > b THEN 0 ELSE b - 1 + 1
      BY <3>1, FS_Interval, Zenon
    <3> QED
      BY <3>2
  <2> QED
    BY <2>3, <2>4, FS_Injection
<1> SUFFICES ASSUME \A c \in K : c[3] < k PROVE FALSE
  <2>1. \A c \in K : c[3] \in Nat
    BY <1>2, Constants
  <2>2. k \in Int
    OBVIOUS
  <2> QED
    BY <2>1, <2>2
<1>5. IsFiniteSet(K)
  BY <1>2, <1>4, Constants
<1>6. Cardinality(K) \in Nat /\ k \in Nat /\ k >= 1 /\ k <= Cardinality(K)
  <2>1. Cardinality(K) \in Nat
    BY <1>5, FS_CardinalityType
  <2> QED
    BY <2>1
<1>7. \A c \in K : c[3] <= k - 1
  BY <1>2, <1>6, Constants
<1>8. Cardinality(K) <= k - 1
  BY <1>4, <1>6, <1>7
<1> QED
  BY <1>6, <1>8

LEMMA SamePlace ==
    ASSUME NEW s \in Nat, NEW t \in Nat, NEW x \in Nat, NEW y \in Nat, NEW z \in Nat,
           t = s + z, t = s + (y - x)
    PROVE  y = x + z
OBVIOUS

LEMMA LaidWindowsFollow ==
    ASSUME NEW w \in Seq(Message), GoodWindow(w), WellLaid(w),
           NEW i \in Rendered(w), w[i].role = "call", NEW k \in 1..Cardinality(KeptCalls(w, i))
    PROVE  i + k \in Rendered(w) /\ w[i + k].answers \in KeptCalls(w, i)
<1> PICK K : K = KeptCalls(w, i)
  OBVIOUS
<1>0. \A l \in DOMAIN w : l \in Nat /\ w[l] \in Message /\ w[l].seq \in Nat
  <2>1. \A l \in DOMAIN w : l \in Nat /\ w[l] \in Message
    OBVIOUS
  <2>2. \A m \in Message : m.seq \in Nat
    BY DEF Message
  <2> QED
    BY <2>1, <2>2
<1>1. i \in DOMAIN w /\ w[i].calls \subseteq Calls /\ Round(w[i].calls) /\ K \subseteq w[i].calls
  BY <1>0 DEF Rendered, Message, WellLaid, KeptCalls
<1>2. K \in SUBSET Calls /\ \A c, d \in K : c[1] = d[1] /\ c[2] = d[2]
  BY <1>1 DEF Round
<1>3. PICK c \in K : k <= c[3]
  BY <1>2, KeptFar
<1>4. PICK j0 \in DOMAIN w : w[j0].role = "tool" /\ w[j0].answers = c
  BY <1>3 DEF KeptCalls, Answered
<1>5. c \in Calls /\ c[3] \in Nat /\ k \in 1..c[3]
  <2>1. c \in Calls /\ c[3] \in Nat
    BY <1>2, Constants DEF Calls
  <2>2. k \in Int /\ 1 <= k
    OBVIOUS
  <2> QED
    BY <1>3, <2>1, <2>2
<1> PICK e : e = <<c[1], c[2], k>>
  OBVIOUS
<1>6. e \in K
  <2>1. e \in w[i].calls
    BY <1>1, <1>3, <1>5 DEF Round
  <2>2. \E x \in DOMAIN w : w[x].role = "tool" /\ w[x].answers = e
    BY <1>1, <1>3, <1>4, <1>5 DEF WellLaid
  <2> QED
    BY <2>1, <2>2 DEF KeptCalls, Answered
<1>7. PICK j \in Rendered(w) : j > i /\ w[j].answers = e
  BY <1>6, GoodWindowsPair
<1>8. j \in DOMAIN w
  BY <1>7 DEF Rendered
<1>9. w[j].seq = w[i].seq + k
  <2>1. w[j].answers \in w[i].calls /\ w[j].answers[3] = k
    BY <1>1, <1>6, <1>7
  <2> QED
    BY <1>1, <1>8, <2>1 DEF WellLaid
<1>10. w[j].seq = w[i].seq + (j - i)
  BY <1>0, <1>1, <1>7, <1>8, LaidInARow
<1>11. j = i + k
  <2>1. i \in Nat /\ j \in Nat /\ k \in Nat /\ w[i].seq \in Nat
    BY <1>0, <1>1, <1>5, <1>8
  <2>2. w[j].seq \in Nat
    BY <1>0, <1>8
  <2>3. PICK s : s = w[i].seq
    OBVIOUS
  <2>4. PICK t : t = w[j].seq
    OBVIOUS
  <2>5. s \in Nat /\ t \in Nat
    BY <2>1, <2>2, <2>3, <2>4
  <2>6. t = s + k
    BY <1>9, <2>3, <2>4, Zenon
  <2>7. t = s + (j - i)
    BY <1>10, <2>3, <2>4, Zenon
  <2>8. i \in Nat /\ j \in Nat /\ k \in Nat
    BY <2>1
  <2> QED
    BY <2>5, <2>6, <2>7, <2>8
<1> QED
  BY <1>6, <1>7, <1>11

\* For any number of requests that do not overlap, rounds and calls: in every
\* prompt the results of a call message follow it with nothing in between, also
\* when a crash cut the round short or the window begins in the middle of it.
THEOREM SpecResultsFollowCalls == SerialRequests /\ Spec => []ResultsFollowCalls
<1> SUFFICES ASSUME SerialRequests PROVE Spec => []ResultsFollowCalls
  OBVIOUS
<1>1. RoundInv /\ [Next]_vars => RoundInv'
  BY RoundStep
<1>2. RoundInv => ResultsFollowCalls
  <2> SUFFICES ASSUME RoundInv, NEW r \in Runs, NEW i \in Rendered(prompt[r].window),
                      prompt[r].window[i].role = "call",
                      NEW k \in 1..Cardinality(KeptCalls(prompt[r].window, i))
               PROVE  /\ i + k \in Rendered(prompt[r].window)
                      /\ prompt[r].window[i + k].answers \in KeptCalls(prompt[r].window, i)
    BY DEF ResultsFollowCalls
  <2>1. prompt[r].window \in Seq(Message) /\ GoodWindow(prompt[r].window) /\ WellLaid(prompt[r].window)
    BY DEF RoundInv, PairInv, TypeInv, TypeOK
  <2> QED
    BY <2>1, LaidWindowsFollow
<1> QED
  BY RoundInit, <1>1, <1>2, PTL DEF Spec

=============================================================================
