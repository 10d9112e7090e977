------------------------------- MODULE Memory -------------------------------
(***************************************************************************)
(* What an agent remembers of one account: the rows of agent_memories, and *)
(* the row of agent_human_states that keeps a second, unstructured copy of *)
(* the facts.                                                              *)
(*                                                                         *)
(* A fact is written by a look-up and one or two saves of whole rows       *)
(* without a transaction; the account meanwhile forgets memories, files    *)
(* its conversation under groups, deletes groups or resets the agent.  A   *)
(* prompt that finds no long-term row writes the unstructured facts back.  *)
(*                                                                         *)
(* A key stands for a category and key; Notes are the keys of the agent's  *)
(* own notes.  One conversation is filed or not; facts extracted from its  *)
(* messages carry their source.  The budgets (12 facts, 12 and 24 rows of  *)
(* a prompt) are larger than the instances.                                *)
(***************************************************************************)
EXTENDS Integers, FiniteSets

CONSTANTS
    Keys, Notes, Contents, Groups,
    Jobs,        \* requests and runs at work
    MaxRows,     \* bound on the rows ever created
    MaxUpsets,   \* bound on the account's own edits, the failures and the crashes
    None

ASSUME MemoryAssumption ==
    /\ Notes \subseteq Keys
    /\ MaxRows \in Nat
    /\ MaxUpsets \in Nat
    /\ None \notin Contents \cup Groups

VARIABLES
    row,         \* the active rows of agent_memories by id, None for every other
    made,        \* ids given out
    human,       \* the facts of agent_human_states, None when there is no row
    live, filed, \* the groups there are, and the conversation's
    job,
    upsets,
    kept,        \* observer: keys with a completed save and no forgetting since
    overlapped,  \* observer: a save met an edit or a save of the same key
    retained,    \* and, until then: keys whose fact a group retains,
    told,        \* what was told since the last reset,
    forgotten    \* what was forgotten and not told again

observers == <<kept, overlapped, retained, told, forgotten>>
vars == <<row, made, human, live, filed, job, upsets, observers>>

Ids   == 1..MaxRows
Facts == Keys \X Contents

Rows == [key       : Keys,
         content   : Contents,
         pinned    : BOOLEAN,
         group     : Groups \cup {None},
         sourced   : BOOLEAN]

ASSUME NoneIsNoRow == None \notin Rows

Items == [Keys -> Contents \cup {None}]
NoItems == [k \in Keys |-> None]

\* What a job holds: its fact, the retention it read, the row it looked up,
\* the human state it read, and the facts it has still to write back.
Stages == {"idle", "state", "lookup", "write", "create", "finish", "list", "refill"}

Idle == [at |-> "idle", kind |-> "save", key |-> None, content |-> None, group |-> None,
         old |-> None, copy |-> None, items |-> NoItems, rest |-> {}]

TypeOK ==
    /\ row \in [Ids -> Rows \cup {None}]
    /\ made \in 0..MaxRows
    /\ human \in Items \cup {None}
    /\ live \subseteq Groups
    /\ filed \in Groups \cup {None}
    /\ job \in [Jobs -> [at        : Stages,
                         kind      : {"save", "observe", "prompt"},
                         key       : Keys \cup {None},
                         content   : Contents \cup {None},
                         group     : Groups \cup {None},
                         old       : Ids \cup {None},
                         copy      : Rows \cup {None},
                         items     : Items,
                         rest      : SUBSET Keys]]
    /\ upsets \in 0..MaxUpsets
    /\ kept \subseteq Keys
    /\ retained \subseteq Keys
    /\ told \subseteq Facts
    /\ forgotten \subseteq Facts
    /\ overlapped \in BOOLEAN

Init ==
    /\ row = [i \in Ids |-> None]
    /\ made = 0
    /\ human = None
    /\ live = Groups
    /\ filed \in Groups \cup {None}
    /\ job = [j \in Jobs |-> Idle]
    /\ upsets = 0
    /\ kept = {}
    /\ retained = {}
    /\ told = {}
    /\ forgotten = {}
    /\ overlapped = FALSE

Active(i) == row[i] # None
ActiveOf(k) == {i \in Ids : Active(i) /\ row[i].key = k}

\* A prompt may write any fact of the state it read.
Busy(j) == job[j].at # "idle"
BusyOn(j, k) == Busy(j) /\ (job[j].kind = "prompt" \/ job[j].key = k)

At(j, stage) == job[j].at = stage

\* The last three observers stop at the first overlap.
Observe(r, t, f) ==
    /\ retained'  = IF overlapped' THEN {} ELSE r
    /\ told'      = IF overlapped' THEN {} ELSE t
    /\ forgotten' = IF overlapped' THEN {} ELSE f

-----------------------------------------------------------------------------
(* Jobs begin: an explicit save, the end of a run, a prompt.                *)

Begin(j, kind, k, c, group) ==
    /\ At(j, "idle")
    /\ job' = [job EXCEPT ![j] = [Idle EXCEPT
                  !.at = IF kind = "observe" THEN "state" ELSE "lookup",
                  !.kind = kind, !.key = k, !.content = c, !.group = group]]
    /\ overlapped' = (overlapped \/ \E q \in Jobs : BusyOn(q, k))
    /\ Observe(retained, told \cup {<<k, c>>}, forgotten \ {<<k, c>>})
    /\ UNCHANGED <<row, made, human, live, filed, upsets, kept>>

\* The retention is that of the conversation as the job read it; notes have
\* none, and a fact posted by the account has none either.
RetentionFor(k) == IF k \in Notes THEN None ELSE filed

CallMemorySave(j, k, c) == Begin(j, "save", k, c, RetentionFor(k))
PostMemory(j, k, c) == Begin(j, "save", k, c, None)

\* What the message of a run may teach; one fact of it at most.
ExtractMemoryFacts == (Keys \ Notes) \X Contents

ObserveInteraction(j) ==
    \E f \in ExtractMemoryFacts : Begin(j, "observe", f[1], f[2], filed)

\* getOrCreateState, and the fact merged into the copy of the state.
MergeMemoryFacts(items, k, c) == [items EXCEPT ![k] = c]

ReadState(j) ==
    /\ At(j, "state")
    /\ human' = IF human = None THEN NoItems ELSE human
    /\ job' = [job EXCEPT ![j].items = MergeMemoryFacts(human', job[j].key, job[j].content),
                          ![j].at = "lookup"]
    /\ UNCHANGED <<row, made, live, filed, upsets, observers>>

-----------------------------------------------------------------------------
(* The write of one fact.                                                   *)

\* What follows the write of a fact.
After(j) ==
    CASE job[j].kind = "save"    -> Idle
      [] job[j].kind = "observe" -> [Idle EXCEPT !.at = "finish", !.kind = "observe",
                                                 !.key = job[j].key, !.items = job[j].items]
      [] job[j].kind = "prompt"  -> [Idle EXCEPT !.at = "refill", !.kind = "prompt",
                                                 !.items = job[j].items, !.rest = job[j].rest]

Saved(j) ==
    LET k == job[j].key IN
    /\ kept' = kept \cup {k}
    /\ UNCHANGED overlapped
    /\ Observe(IF job[j].group # None THEN retained \cup {k} ELSE retained, told, forgotten)

FindExisting(j) ==
    /\ At(j, "lookup")
    /\ LET found == ActiveOf(job[j].key)
           first == CHOOSE i \in found : \A n \in found : i <= n
       IN  job' = [job EXCEPT ![j].old  = IF found = {} THEN None ELSE first,
                              ![j].copy = IF found = {} THEN None ELSE row[first],
                              ![j].at   = IF found = {} THEN "create" ELSE "write"]
    /\ UNCHANGED <<row, made, human, live, filed, upsets, observers>>

\* The row of a fact that was told again; it keeps the retention it has.
Reobserved(old, j) ==
    [old EXCEPT !.pinned  = old.pinned \/ job[j].group # None,
                !.group   = IF job[j].group # None THEN job[j].group ELSE old.group,
                !.sourced = old.sourced \/ job[j].kind = "observe"]

\* Mutant: the row is updated where it still is, not saved.
ReobserveIfThere(j) ==
    /\ At(j, "write")
    /\ job[j].copy.content = job[j].content
    /\ row' = IF Active(job[j].old) THEN [row EXCEPT ![job[j].old] = Reobserved(job[j].copy, j)] ELSE row
    /\ job' = [job EXCEPT ![j] = After(j)]
    /\ Saved(j)
    /\ UNCHANGED <<made, human, live, filed, upsets>>

\* gorm's Save inserts the row again when it is gone.
ReobserveFact(j) ==
    /\ At(j, "write")
    /\ job[j].copy.content = job[j].content
    /\ row' = [row EXCEPT ![job[j].old] = Reobserved(job[j].copy, j)]
    /\ job' = [job EXCEPT ![j] = After(j)]
    /\ Saved(j)
    /\ UNCHANGED <<made, human, live, filed, upsets>>

\* Mutant: the superseded row is not saved.
SupersedeUnsaved(j) ==
    /\ At(j, "write")
    /\ job[j].copy.content # job[j].content
    /\ job' = [job EXCEPT ![j].at = "create"]
    /\ UNCHANGED <<row, made, human, live, filed, upsets, observers>>

SupersedeFact(j) ==
    /\ At(j, "write")
    /\ job[j].copy.content # job[j].content
    /\ row' = [row EXCEPT ![job[j].old] = None]
    /\ job' = [job EXCEPT ![j].at = "create"]
    /\ UNCHANGED <<made, human, live, filed, upsets, observers>>

\* Mutant: a correction starts with the retention of its own conversation.
NewRowForgetful(j) ==
    [key |-> job[j].key, content |-> job[j].content,
     pinned |-> job[j].group # None, group |-> job[j].group,
     sourced |-> job[j].kind = "observe"]

\* A superseded row hands its retention on.
NewRow(j) ==
    LET old == job[j].copy IN
    [key       |-> job[j].key,
     content   |-> job[j].content,
     pinned    |-> job[j].group # None \/ (old # None /\ old.pinned),
     group     |-> IF job[j].group = None /\ old # None THEN old.group ELSE job[j].group,
     sourced   |-> job[j].kind = "observe"]

CreateFact(j) ==
    /\ At(j, "create")
    /\ made < MaxRows
    /\ made' = made + 1
    /\ row' = [row EXCEPT ![made'] = NewRow(j)]
    /\ job' = [job EXCEPT ![j] = After(j)]
    /\ Saved(j)
    /\ UNCHANGED <<human, live, filed, upsets>>

\* The end of ObserveInteraction: the copy of the state is saved whole, and
\* inserted again when the row is gone.
SaveState(j) ==
    /\ At(j, "finish")
    /\ human' = job[j].items
    /\ job' = [job EXCEPT ![j] = Idle]
    /\ UNCHANGED <<row, made, live, filed, upsets, observers>>

-----------------------------------------------------------------------------
(* A prompt reads the state and the long-term rows, and writes the facts of  *)
(* the state back when there is no such row.                                 *)

BuildPromptState(j) ==
    /\ At(j, "idle")
    /\ human' = IF human = None THEN NoItems ELSE human
    /\ job' = [job EXCEPT ![j] = [Idle EXCEPT !.at = "list", !.kind = "prompt", !.items = human']]
    /\ overlapped' = (overlapped \/ \E q \in Jobs : Busy(q))
    /\ Observe(retained, told, forgotten)
    /\ UNCHANGED <<row, made, live, filed, upsets, kept>>

LongTerm == {i \in Ids : Active(i) /\ row[i].key \notin Notes /\ ~row[i].pinned}

ListLongTerm(j) ==
    /\ At(j, "list")
    /\ LET facts == {k \in Keys : job[j].items[k] # None}
       IN  job' = [job EXCEPT ![j] = IF LongTerm # {} \/ facts = {} THEN Idle
                                     ELSE [@ EXCEPT !.at = "refill", !.rest = facts]]
    /\ UNCHANGED <<row, made, human, live, filed, upsets, observers>>

RefillFact(j) ==
    /\ At(j, "refill")
    /\ \/ \E k \in job[j].rest :
             job' = [job EXCEPT ![j].at = "lookup", ![j].key = k,
                                ![j].content = job[j].items[k], ![j].rest = @ \ {k}]
       \/ /\ job[j].rest = {}
          /\ job' = [job EXCEPT ![j] = Idle]
    /\ UNCHANGED <<row, made, human, live, filed, upsets, observers>>

-----------------------------------------------------------------------------
(* The account's own edits, each one statement or one transaction.          *)

Edit ==
    /\ upsets < MaxUpsets
    /\ upsets' = upsets + 1
    /\ overlapped' = (overlapped \/ \E j \in Jobs : Busy(j))
    /\ UNCHANGED <<made, job>>

ForgetMemory(i) ==
    /\ Active(i)
    /\ Edit
    /\ row' = [row EXCEPT ![i] = None]
    /\ kept' = kept \ {row[i].key}
    /\ Observe(retained \ {row[i].key}, told, forgotten \cup {<<row[i].key, row[i].content>>})
    /\ UNCHANGED <<human, live, filed>>

\* Facts learned from the conversation and not yet pinned join the group's
\* retention.
Joins(i) == Active(i) /\ row[i].sourced /\ ~row[i].pinned

SetConversationGroup(g) ==
    /\ g \in live \cup {None}
    /\ g # filed
    /\ Edit
    /\ filed' = g
    /\ row' = [i \in Ids |-> IF g # None /\ Joins(i)
                             THEN [row[i] EXCEPT !.pinned = TRUE, !.group = g] ELSE row[i]]
    /\ Observe(IF g = None THEN retained
               ELSE retained \cup {row[i].key : i \in {n \in Ids : Joins(n)}}, told, forgotten)
    /\ UNCHANGED <<human, live, kept>>

\* The rows a deleted group gives up.
Released(i, g) == Active(i) /\ row[i].group = g

DeleteConversationGroup(g) ==
    /\ g \in live
    /\ Edit
    /\ live' = live \ {g}
    /\ filed' = IF filed = g THEN None ELSE filed
    /\ row' = [i \in Ids |-> IF Released(i, g)
                             THEN [row[i] EXCEPT !.pinned = FALSE, !.group = None] ELSE row[i]]
    /\ Observe(retained \ {row[i].key : i \in {n \in Ids : Released(n, g)}}, told, forgotten)
    /\ UNCHANGED <<human, kept>>

\* Mutant: the reset leaves the humanizer state.
ResetKeepingState ==
    /\ Edit
    /\ row' = [i \in Ids |-> None]
    /\ filed' = None
    /\ kept' = {}
    /\ Observe({}, {}, forgotten)
    /\ UNCHANGED <<human, live>>

\* Everything is deleted for good, the conversation and its messages included.
ResetAgentMemories ==
    /\ Edit
    /\ row' = [i \in Ids |-> None]
    /\ human' = None
    /\ filed' = None
    /\ kept' = {}
    /\ Observe({}, {}, forgotten)
    /\ UNCHANGED live

\* Jobs end where they are; a fact that one of them has superseded and not yet
\* replaced is gone.
Abandon(S) ==
    /\ upsets < MaxUpsets
    /\ upsets' = upsets + 1
    /\ UNCHANGED overlapped
    /\ LET torn == {job[j].key : j \in {q \in S : At(q, "create")}}
       IN  kept' = kept \ torn /\ Observe(retained \ torn, told, forgotten)
    /\ job' = [j \in Jobs |-> IF j \in S THEN Idle ELSE job[j]]
    /\ UNCHANGED <<row, made, human, live, filed>>

\* A statement fails, as under a cancelled context, and its error ends the job.
JobFails(j) == Busy(j) /\ Abandon({j})

\* The process stops.
Crash == Abandon(Jobs)

-----------------------------------------------------------------------------
JobStep(j) ==
    \/ \E k \in Keys, c \in Contents : CallMemorySave(j, k, c) \/ PostMemory(j, k, c)
    \/ ObserveInteraction(j)
    \/ ReadState(j) \/ FindExisting(j) \/ ReobserveFact(j) \/ SupersedeFact(j) \/ CreateFact(j)
    \/ SaveState(j) \/ BuildPromptState(j) \/ ListLongTerm(j) \/ RefillFact(j)

Next ==
    \/ \E j \in Jobs : JobStep(j)
    \/ \E i \in Ids : ForgetMemory(i)
    \/ \E g \in Groups \cup {None} : SetConversationGroup(g)
    \/ \E g \in Groups : DeleteConversationGroup(g)
    \/ ResetAgentMemories
    \/ \E j \in Jobs : JobFails(j)
    \/ Crash

Spec == Init /\ [][Next]_vars

-----------------------------------------------------------------------------
(* Properties.                                                              *)

\* However saves overlap, a key whose save has completed has an active fact
\* until the account forgets it: two corrections may both stay, but they do
\* not supersede each other away.  Between the two writes of a save, and after
\* a crash or a failed Create there, the key has none.
KeysKept ==
    \A k \in kept : ActiveOf(k) # {} \/ \E j \in Jobs : job[j].key = k /\ At(j, "create")

\* A fact is corrected, not contradicted: one active row per key, as long as
\* no two saves of the key overlap.
OneFactPerKey ==
    ~overlapped => \A k \in Keys : Cardinality(ActiveOf(k)) <= 1

\* Retention follows the fact, and dies with its group only: what a group
\* retains stays pinned through repetitions and corrections made elsewhere,
\* and nothing is pinned under a group that is gone.
RetentionFollowsFact ==
    ~overlapped =>
       \A i \in Ids : Active(i) =>
          /\ row[i].key \in retained => row[i].pinned
          /\ row[i].pinned => row[i].group \in live

\* A reset forgets: whatever is stored was told after it, in either store.
ResetForgets ==
    ~overlapped =>
       /\ \A i \in Ids : Active(i) => <<row[i].key, row[i].content>> \in told
       /\ human # None => \A k \in Keys : human[k] # None => <<k, human[k]>> \in told

\* What the account forgot is not remembered until it is told again.
ForgottenStaysForgotten ==
    ~overlapped =>
       \A i \in Ids : Active(i) => <<row[i].key, row[i].content>> \notin forgotten
=============================================================================
