--------------------------- MODULE MemoryProofs ---------------------------
(***************************************************************************)
(* A saved key keeps a fact, for any number of jobs that save, supersede   *)
(* and write back whole stale rows at once.  A save trusts the row it      *)
(* looked up earlier, so the invariant says what others may have made of   *)
(* it: rows are never given another key, and all who hold a row hold it    *)
(* for the same key.                                                       *)
(*                                                                         *)
(* While no two jobs meet on a key and no edit meets a job, more is true:  *)
(* one fact per key, a retention that follows its fact, and a reset that   *)
(* forgets.  That invariant is conditional: as long as nothing overlapped, *)
(* what a job has read is still so when it writes.                         *)
(***************************************************************************)
EXTENDS Memory, FiniteSetTheorems, WellFoundedInduction, TLAPS

JobRecords ==
    [at      : Stages,
     kind    : {"save", "observe", "prompt"},
     key     : Keys \cup {None},
     content : Contents \cup {None},
     group   : Groups \cup {None},
     old     : Ids \cup {None},
     copy    : Rows \cup {None},
     items   : Items,
     rest    : SUBSET Keys]

\* A job that is to write a fact has one, and one that is to write a row again
\* holds it for its own key.
Sound(job_) ==
    /\ job_.at \in {"state", "lookup", "write", "create"} => job_.key \in Keys /\ job_.content \in Contents
    /\ job_.at = "finish" => job_.key \in Keys
    /\ job_.at = "write" => /\ job_.old \in Ids /\ job_.old <= made
                            /\ job_.copy \in Rows /\ job_.copy.key = job_.key
    /\ \A k \in job_.rest : job_.items[k] # None
    /\ job_.at = "state" => job_.rest = {}

JobsSound == \A j \in Jobs : Sound(job[j])

RowsFresh == \A i \in Ids : i > made => row[i] = None

HeldForKey ==
    \A j \in Jobs : At(j, "write") /\ Active(job[j].old) => row[job[j].old].key = job[j].key

HoldersAgree ==
    \A j, q \in Jobs : At(j, "write") /\ At(q, "write") /\ job[j].old = job[q].old => job[j].key = job[q].key

MemoryInv == TypeOK /\ JobsSound /\ RowsFresh /\ HeldForKey /\ HoldersAgree /\ KeysKept

-----------------------------------------------------------------------------
LEMMA Limits == MaxRows \in Nat /\ MaxUpsets \in Nat /\ Ids \subseteq Nat
BY MemoryAssumption DEF Ids

LEMMA LessThanIsWellFounded ==
    \E R : IsWellFoundedOn(R, Nat) /\ \A x, y \in Nat : x < y => <<x, y>> \in R
<1>1. \A x, y \in Nat : x < y => <<x, y>> \in OpToRel(<, Nat)
  BY DEF OpToRel
<1> QED
  BY NatLessThanWellFounded, <1>1, Zenon

LEMMA LeastNatural ==
    ASSUME NEW S, S \subseteq Nat, S # {}
    PROVE  \E m \in S : \A n \in S : m <= n
<1>1. PICK R : IsWellFoundedOn(R, Nat) /\ \A x, y \in Nat : x < y => <<x, y>> \in R
  BY LessThanIsWellFounded
<1>2. IsWellFoundedOn(R, Nat)
  BY <1>1
<1>3. \E x \in S : \A y \in S : ~ (<<y, x>> \in R)
  BY <1>2, WFMin, Zenon
<1>4. PICK x \in S : \A y \in S : ~ (<<y, x>> \in R)
  BY <1>3
<1>5. \A y \in S : ~(y < x)
  BY <1>1, <1>4
<1>6. \A n \in S : x <= n
  BY <1>5
<1> QED BY <1>6

\* The look-up finds the oldest active row of the key.
LEMMA FirstFound ==
    ASSUME NEW k, ActiveOf(k) # {}
    PROVE  (CHOOSE i \in ActiveOf(k) : \A n \in ActiveOf(k) : i <= n) \in ActiveOf(k)
<1>1. ActiveOf(k) \subseteq Nat
  BY Limits DEF ActiveOf
<1>2. \E i \in ActiveOf(k) : \A n \in ActiveOf(k) : i <= n
  BY <1>1, LeastNatural
<1> QED
  BY <1>2

LEMMA IdleTyped ==
    /\ NoItems \in Items
    /\ Idle \in JobRecords /\ Sound(Idle) /\ Idle.at = "idle"
<1>1. NoItems \in Items
  BY DEF NoItems, Items
<1> QED
  BY <1>1 DEF Idle, JobRecords, Stages, Sound

\* What follows the write of a fact is a job in order, and writes no row yet.
LEMMA AfterTyped ==
    ASSUME TypeOK, JobsSound, NEW j \in Jobs, job[j].at \in {"write", "create"}
    PROVE  After(j) \in JobRecords /\ Sound(After(j)) /\ After(j).at \notin {"write", "create"}
<1>1. job[j] \in JobRecords /\ Sound(job[j])
  BY DEF TypeOK, JobsSound, JobRecords
<1>2. job[j].kind \in {"save", "observe", "prompt"}
  BY <1>1 DEF JobRecords
<1>3. CASE job[j].kind = "save"
  BY <1>3, IdleTyped DEF After
<1>4. CASE job[j].kind = "observe"
  BY <1>1, <1>4 DEF After, Idle, JobRecords, Sound, Stages
<1>5. CASE job[j].kind = "prompt"
  BY <1>1, <1>5 DEF After, Idle, JobRecords, Sound, Stages
<1> QED
  BY <1>2, <1>3, <1>4, <1>5

\* The observers keep their types whatever an action does to them.
LEMMA ObserveTyped ==
    ASSUME NEW r, NEW t, NEW f, r \subseteq Keys, t \subseteq Facts, f \subseteq Facts, Observe(r, t, f)
    PROVE  retained' \subseteq Keys /\ told' \subseteq Facts /\ forgotten' \subseteq Facts
BY DEF Observe

-----------------------------------------------------------------------------
THEOREM InitMemory == Init => MemoryInv
<1> SUFFICES ASSUME Init PROVE MemoryInv
  OBVIOUS
<1>1. TypeOK
  <2>1. \A j \in Jobs : job[j] \in JobRecords
    BY IdleTyped DEF Init
  <2>2. job \in [Jobs -> JobRecords]
    BY <2>1 DEF Init
  <2>3. made \in 0..MaxRows /\ upsets \in 0..MaxUpsets
    BY Limits DEF Init
  <2>4. row \in [Ids -> Rows \cup {None}]
    BY DEF Init
  <2> QED
    BY <2>2, <2>3, <2>4 DEF Init, TypeOK, JobRecords
<1>2. JobsSound /\ HeldForKey /\ HoldersAgree
  BY IdleTyped DEF Init, JobsSound, HeldForKey, HoldersAgree, At
<1>3. RowsFresh /\ KeysKept
  BY DEF Init, RowsFresh, KeysKept
<1> QED
  BY <1>1, <1>2, <1>3 DEF MemoryInv

-----------------------------------------------------------------------------
(* Steps of a job that leave the rows alone.                               *)

LEMMA JobTyped ==
    ASSUME TypeOK, NEW j \in Jobs, NEW x \in JobRecords, job' = [job EXCEPT ![j] = x]
    PROVE  job' \in [Jobs -> JobRecords]
BY DEF TypeOK, JobRecords

LEMMA QuietKeeps ==
    ASSUME MemoryInv, TypeOK', NEW j \in Jobs, NEW x \in JobRecords,
           job' = [job EXCEPT ![j] = x], Sound(x),
           x.at \notin {"write", "create"}, ~At(j, "create"),
           UNCHANGED <<row, made, kept>>
    PROVE  MemoryInv'
<1>1. \A q \in Jobs : job'[q] = IF q = j THEN x ELSE job[q]
  BY DEF MemoryInv, TypeOK
<1>2. JobsSound'
  BY <1>1 DEF MemoryInv, JobsSound, Sound
<1>3. RowsFresh'
  BY DEF MemoryInv, RowsFresh
<1>4. HeldForKey' /\ HoldersAgree'
  BY <1>1 DEF MemoryInv, HeldForKey, HoldersAgree, At, Active
<1>5. KeysKept'
  BY <1>1 DEF MemoryInv, KeysKept, ActiveOf, Active, At
<1> QED
  BY <1>2, <1>3, <1>4, <1>5 DEF MemoryInv

LEMMA BeginKeeps ==
    ASSUME MemoryInv, NEW j \in Jobs, NEW kind \in {"save", "observe"}, NEW k \in Keys, NEW c \in Contents,
           NEW group \in Groups \cup {None}, Begin(j, kind, k, c, group)
    PROVE  MemoryInv'
<1> DEFINE x == [Idle EXCEPT !.at = IF kind = "observe" THEN "state" ELSE "lookup",
                             !.kind = kind, !.key = k, !.content = c, !.group = group]
<1>1. x \in JobRecords /\ Sound(x) /\ x.at \notin {"write", "create"}
  BY IdleTyped DEF Idle, JobRecords, Stages, Sound
<1>2. job' = [job EXCEPT ![j] = x] /\ ~At(j, "create") /\ UNCHANGED <<row, made, human, live, filed, upsets, kept>>
  BY DEF Begin, At
<1>3. retained' \subseteq Keys /\ told' \subseteq Facts /\ forgotten' \subseteq Facts
  <2>1. told \cup {<<k, c>>} \subseteq Facts /\ forgotten \ {<<k, c>>} \subseteq Facts /\ retained \subseteq Keys
    BY DEF MemoryInv, TypeOK, Facts
  <2> QED
    BY <2>1, ObserveTyped DEF Begin
<1>4. overlapped' \in BOOLEAN
  BY DEF MemoryInv, TypeOK, Begin
<1> HIDE DEF x
<1>5. job' \in [Jobs -> JobRecords]
  BY <1>1, <1>2, JobTyped DEF MemoryInv
<1>6. TypeOK'
  BY <1>2, <1>3, <1>4, <1>5 DEF MemoryInv, TypeOK, JobRecords
<1> QED
  BY <1>1, <1>2, <1>6, QuietKeeps

LEMMA ReadStateKeeps ==
    ASSUME MemoryInv, NEW j \in Jobs, ReadState(j)
    PROVE  MemoryInv'
<1>1. job[j] \in JobRecords /\ Sound(job[j]) /\ job[j].at = "state"
  BY DEF MemoryInv, TypeOK, JobsSound, JobRecords, ReadState, At
<1>2. human' \in Items
  BY IdleTyped DEF MemoryInv, TypeOK, ReadState
<1> DEFINE merged == MergeMemoryFacts(human', job[j].key, job[j].content)
           x == [job[j] EXCEPT !.items = merged, !.at = "lookup"]
<1>3. merged \in Items
  BY <1>1, <1>2 DEF MergeMemoryFacts, Items, Sound
<1>4. x \in JobRecords /\ Sound(x) /\ x.at \notin {"write", "create"}
  BY <1>1, <1>3 DEF JobRecords, Stages, Sound
<1>5. job' = [job EXCEPT ![j] = x] /\ ~At(j, "create") /\ UNCHANGED <<row, made, live, filed, upsets, observers>>
  BY <1>1 DEF ReadState, At, MemoryInv, TypeOK
<1> HIDE DEF x
<1>6. job' \in [Jobs -> JobRecords]
  BY <1>4, <1>5, JobTyped DEF MemoryInv
<1>7. TypeOK'
  BY <1>2, <1>5, <1>6 DEF MemoryInv, TypeOK, JobRecords, observers
<1> QED
  BY <1>4, <1>5, <1>7, QuietKeeps DEF observers

LEMMA SaveStateKeeps ==
    ASSUME MemoryInv, NEW j \in Jobs, SaveState(j)
    PROVE  MemoryInv'
<1>1. job[j].items \in Items
  BY DEF MemoryInv, TypeOK
<1>2. job' = [job EXCEPT ![j] = Idle] /\ human' = job[j].items /\ ~At(j, "create")
      /\ UNCHANGED <<row, made, live, filed, upsets, observers>>
  BY DEF SaveState, At
<1>3. job' \in [Jobs -> JobRecords]
  BY <1>2, IdleTyped, JobTyped DEF MemoryInv
<1>4. TypeOK'
  BY <1>1, <1>2, <1>3 DEF MemoryInv, TypeOK, JobRecords, observers
<1> QED
  BY <1>2, <1>4, IdleTyped, QuietKeeps DEF observers

LEMMA PromptKeeps ==
    ASSUME MemoryInv, NEW j \in Jobs, BuildPromptState(j)
    PROVE  MemoryInv'
<1>1. human' \in Items
  BY IdleTyped DEF MemoryInv, TypeOK, BuildPromptState
<1> DEFINE x == [Idle EXCEPT !.at = "list", !.kind = "prompt", !.items = human']
<1>2. x \in JobRecords /\ Sound(x) /\ x.at \notin {"write", "create"}
  BY <1>1, IdleTyped DEF Idle, JobRecords, Stages, Sound
<1>3. job' = [job EXCEPT ![j] = x] /\ ~At(j, "create") /\ UNCHANGED <<row, made, live, filed, upsets, kept>>
  BY DEF BuildPromptState, At
<1>4. retained' \subseteq Keys /\ told' \subseteq Facts /\ forgotten' \subseteq Facts
  <2>1. retained \subseteq Keys /\ told \subseteq Facts /\ forgotten \subseteq Facts
    BY DEF MemoryInv, TypeOK
  <2> QED
    BY <2>1, ObserveTyped DEF BuildPromptState
<1>5. overlapped' \in BOOLEAN
  BY DEF MemoryInv, TypeOK, BuildPromptState
<1> HIDE DEF x
<1>6. job' \in [Jobs -> JobRecords]
  BY <1>2, <1>3, JobTyped DEF MemoryInv
<1>7. TypeOK'
  BY <1>1, <1>3, <1>4, <1>5, <1>6 DEF MemoryInv, TypeOK, JobRecords
<1> QED
  BY <1>2, <1>3, <1>7, QuietKeeps

LEMMA RefillKeeps ==
    ASSUME MemoryInv, NEW j \in Jobs, ListLongTerm(j) \/ RefillFact(j)
    PROVE  MemoryInv'
<1>1. job[j] \in JobRecords /\ Sound(job[j]) /\ job \in [Jobs -> JobRecords]
  BY DEF MemoryInv, TypeOK, JobsSound, JobRecords
<1>2. PICK x \in JobRecords :
        job' = [job EXCEPT ![j] = x] /\ Sound(x) /\ x.at \notin {"write", "create"}
  <2>1. CASE ListLongTerm(j)
    <3> DEFINE facts == {k \in Keys : job[j].items[k] # None}
               y == [job[j] EXCEPT !.at = "refill", !.rest = facts]
    <3>1. y \in JobRecords /\ Sound(y) /\ y.at = "refill"
      BY <1>1 DEF JobRecords, Stages, Sound
    <3>2. job' = [job EXCEPT ![j] = Idle] \/ job' = [job EXCEPT ![j] = y]
      BY <1>1, <2>1 DEF ListLongTerm
    <3> HIDE DEF y
    <3> QED
      BY <3>1, <3>2, IdleTyped
  <2>2. CASE RefillFact(j) /\ job' = [job EXCEPT ![j] = Idle]
    BY <2>2, IdleTyped
  <2>3. ASSUME NEW k \in job[j].rest,
               job' = [job EXCEPT ![j].at = "lookup", ![j].key = k,
                                  ![j].content = job[j].items[k], ![j].rest = @ \ {k}]
        PROVE  \E y \in JobRecords :
                  job' = [job EXCEPT ![j] = y] /\ Sound(y) /\ y.at \notin {"write", "create"}
    <3> DEFINE y == [job[j] EXCEPT !.at = "lookup", !.key = k, !.content = job[j].items[k], !.rest = @ \ {k}]
    <3>1. k \in Keys /\ job[j].items[k] \in Contents
      BY <1>1 DEF JobRecords, Items, Sound
    <3>2. y \in JobRecords /\ Sound(y) /\ y.at = "lookup"
      BY <1>1, <3>1 DEF JobRecords, Stages, Sound
    <3>3. job' = [job EXCEPT ![j] = y]
      BY <1>1, <2>3
    <3> HIDE DEF y
    <3> QED
      BY <3>2, <3>3
  <2> QED
    BY <2>1, <2>2, <2>3 DEF RefillFact
<1>3. ~At(j, "create") /\ UNCHANGED <<row, made, human, live, filed, upsets, observers>>
  BY DEF ListLongTerm, RefillFact, At
<1>4. job' \in [Jobs -> JobRecords]
  BY <1>2, JobTyped DEF MemoryInv
<1>5. TypeOK'
  BY <1>3, <1>4 DEF MemoryInv, TypeOK, JobRecords, observers
<1> QED
  BY <1>2, <1>3, <1>5, QuietKeeps DEF observers

LEMMA FindKeeps ==
    ASSUME MemoryInv, NEW j \in Jobs, FindExisting(j)
    PROVE  MemoryInv'
<1> DEFINE found == ActiveOf(job[j].key)
           first == CHOOSE i \in found : \A n \in found : i <= n
           x == [job[j] EXCEPT !.old  = IF found = {} THEN None ELSE first,
                               !.copy = IF found = {} THEN None ELSE row[first],
                               !.at   = IF found = {} THEN "create" ELSE "write"]
<1>1. job[j] \in JobRecords /\ Sound(job[j]) /\ job[j].at = "lookup" /\ job \in [Jobs -> JobRecords]
  BY DEF MemoryInv, TypeOK, JobsSound, JobRecords, FindExisting, At
<1>2. found # {} => /\ first \in Ids /\ first <= made
                    /\ row[first] \in Rows /\ row[first].key = job[j].key
  <2>1. found # {} => first \in found
    BY FirstFound
  <2>2. \A i \in found : i \in Ids /\ row[i] # None /\ row[i].key = job[j].key
    BY DEF ActiveOf, Active
  <2>3. \A i \in Ids : row[i] # None => row[i] \in Rows /\ i <= made
    BY Limits DEF MemoryInv, TypeOK, RowsFresh
  <2> HIDE DEF found, first
  <2> QED
    BY <2>1, <2>2, <2>3
<1>3. job' = [job EXCEPT ![j] = x] /\ UNCHANGED <<row, made, human, live, filed, upsets, observers>>
  <2>1. job' = [job EXCEPT ![j].old  = IF found = {} THEN None ELSE first,
                           ![j].copy = IF found = {} THEN None ELSE row[first],
                           ![j].at   = IF found = {} THEN "create" ELSE "write"]
    BY DEF FindExisting
  <2>2. UNCHANGED <<row, made, human, live, filed, upsets, observers>>
    BY DEF FindExisting
  <2> HIDE DEF found, first
  <2> QED
    BY <1>1, <2>1, <2>2 DEF JobRecords
<1> HIDE DEF found, first
<1>4. x \in JobRecords /\ Sound(x)
  BY <1>1, <1>2 DEF JobRecords, Stages, Sound
<1>5. /\ x.key = job[j].key
      /\ x.at = "write" => row[x.old].key = x.key /\ Active(x.old)
      /\ x.at \in {"write", "create"}
  <2>1. CASE found = {}
    BY <1>1, <2>1 DEF JobRecords
  <2>2. CASE found # {}
    <3>1. x.old = first /\ x.at = "write" /\ x.key = job[j].key
      BY <1>1, <2>2 DEF JobRecords
    <3>2. row[first].key = job[j].key /\ row[first] # None
      BY <1>2, <2>2, NoneIsNoRow
    <3> HIDE DEF x
    <3> QED
      BY <3>1, <3>2 DEF Active
  <2> QED BY <2>1, <2>2
<1> HIDE DEF x
<1>6. TypeOK'
  <2>1. job' \in [Jobs -> JobRecords]
    BY <1>3, <1>4, JobTyped DEF MemoryInv
  <2> QED
    BY <1>3, <2>1 DEF MemoryInv, TypeOK, JobRecords, observers
<1>7. \A q \in Jobs : job'[q] = IF q = j THEN x ELSE job[q]
  BY <1>1, <1>3
<1>8. JobsSound' /\ RowsFresh'
  BY <1>3, <1>4, <1>7 DEF MemoryInv, JobsSound, RowsFresh, Sound
<1>9. HeldForKey'
  BY <1>3, <1>5, <1>7 DEF MemoryInv, HeldForKey, At, Active
<1>10. HoldersAgree'
  BY <1>3, <1>5, <1>7 DEF MemoryInv, HoldersAgree, HeldForKey, At, Active
<1>11. KeysKept'
  BY <1>1, <1>3, <1>7 DEF MemoryInv, KeysKept, ActiveOf, Active, At, observers
<1> QED
  BY <1>6, <1>8, <1>9, <1>10, <1>11 DEF MemoryInv

-----------------------------------------------------------------------------
(* Steps that write a row.                                                 *)

LEMMA SavedTyped ==
    ASSUME MemoryInv, NEW j \in Jobs, job[j].key \in Keys, Saved(j)
    PROVE  /\ kept' = kept \cup {job[j].key} /\ kept' \subseteq Keys
           /\ retained' \subseteq Keys /\ told' \subseteq Facts /\ forgotten' \subseteq Facts
           /\ overlapped' \in BOOLEAN
<1>1. /\ (IF job[j].group # None THEN retained \cup {job[j].key} ELSE retained) \subseteq Keys
      /\ told \subseteq Facts /\ forgotten \subseteq Facts
  BY DEF MemoryInv, TypeOK
<1> QED
  BY <1>1, ObserveTyped DEF MemoryInv, TypeOK, Saved

\* A row is written for the key of its job, which has then been saved.
LEMMA WriteKeeps ==
    ASSUME MemoryInv, NEW j \in Jobs, job[j].at \in {"write", "create"},
           NEW i \in Ids, NEW r \in Rows, r.key = job[j].key,
           \A q \in Jobs : At(q, "write") /\ job[q].old = i => job[q].key = job[j].key,
           Active(i) => row[i].key = job[j].key,
           row' = [row EXCEPT ![i] = r],
           job' = [job EXCEPT ![j] = After(j)],
           made' \in 0..MaxRows, made <= made', i <= made',
           Saved(j), UNCHANGED <<human, live, filed, upsets>>
    PROVE  MemoryInv'
<1>1. job[j] \in JobRecords /\ Sound(job[j]) /\ job \in [Jobs -> JobRecords]
  BY DEF MemoryInv, TypeOK, JobsSound, JobRecords
<1>2. job[j].key \in Keys
  BY <1>1 DEF Sound
<1>3. After(j) \in JobRecords /\ Sound(After(j)) /\ After(j).at \notin {"write", "create"}
  BY AfterTyped DEF MemoryInv
<1>4. \A q \in Jobs : job'[q] = IF q = j THEN After(j) ELSE job[q]
  BY <1>1
<1>5. \A n \in Ids : row'[n] = IF n = i THEN r ELSE row[n]
  BY DEF MemoryInv, TypeOK
<1>6. r # None
  BY NoneIsNoRow
<1>7. TypeOK'
  <2>1. job' \in [Jobs -> JobRecords]
    BY <1>3, JobTyped DEF MemoryInv
  <2>2. row' \in [Ids -> Rows \cup {None}]
    BY DEF MemoryInv, TypeOK
  <2>3. /\ kept' \subseteq Keys /\ retained' \subseteq Keys /\ told' \subseteq Facts
        /\ forgotten' \subseteq Facts /\ overlapped' \in BOOLEAN
    BY <1>2, SavedTyped
  <2> QED
    BY <2>1, <2>2, <2>3 DEF MemoryInv, TypeOK, JobRecords
<1>8. JobsSound'
  <2>1. made \in Nat /\ made' \in Nat
    BY Limits DEF MemoryInv, TypeOK
  <2>2. \A q \in Jobs : job[q].at = "write" => job[q].old \in Nat
    BY Limits DEF MemoryInv, JobsSound, Sound
  <2>3. \A q \in Jobs : job[q].at = "write" => job[q].old <= made'
    BY <2>1, <2>2 DEF MemoryInv, JobsSound, Sound
  <2> QED
    BY <1>3, <1>4, <2>3 DEF MemoryInv, JobsSound, Sound
<1>9. RowsFresh'
  BY <1>5, Limits DEF MemoryInv, TypeOK, RowsFresh
<1>10. HeldForKey'
  BY <1>3, <1>4, <1>5 DEF MemoryInv, HeldForKey, At, Active, JobsSound, Sound
<1>11. HoldersAgree'
  BY <1>3, <1>4 DEF MemoryInv, HoldersAgree, At
<1>12. KeysKept'
  <2>1. \A k : k = job[j].key => ActiveOf(k)' # {}
    BY <1>5, <1>6 DEF ActiveOf, Active
  <2>2. \A k \in kept : k # job[j].key =>
            ActiveOf(k)' # {} \/ \E q \in Jobs : job'[q].key = k /\ At(q, "create")'
    <3> SUFFICES ASSUME NEW k \in kept, k # job[j].key
                 PROVE  ActiveOf(k)' # {} \/ \E q \in Jobs : job'[q].key = k /\ At(q, "create")'
      OBVIOUS
    <3>1. CASE ActiveOf(k) # {}
      <4>1. PICK n \in ActiveOf(k) : TRUE
        BY <3>1
      <4>2. CASE n # i
        BY <1>5, <4>1, <4>2 DEF ActiveOf, Active
      <4>3. CASE n = i
        <5>1. row[i] # None /\ row[i].key = k
          BY <4>1, <4>3 DEF ActiveOf, Active
        <5> QED
          BY <5>1 DEF Active
      <4> QED BY <4>2, <4>3
    <3>2. CASE \E q \in Jobs : job[q].key = k /\ At(q, "create")
      BY <1>4, <3>2 DEF At
    <3> QED
      BY <3>1, <3>2 DEF MemoryInv, KeysKept
  <2>3. kept' = kept \cup {job[j].key}
    BY <1>2, SavedTyped
  <2>4. \A k \in kept' : ActiveOf(k)' # {} \/ \E q \in Jobs : job'[q].key = k /\ At(q, "create")'
    BY <2>1, <2>2, <2>3
  <2> QED
    BY <2>4 DEF KeysKept
<1> QED
  BY <1>7, <1>8, <1>9, <1>10, <1>11, <1>12 DEF MemoryInv

LEMMA ReobserveKeeps ==
    ASSUME MemoryInv, NEW j \in Jobs, ReobserveFact(j)
    PROVE  MemoryInv'
<1> DEFINE r == Reobserved(job[j].copy, j)
<1>1. job[j] \in JobRecords /\ Sound(job[j]) /\ job[j].at = "write"
  BY DEF MemoryInv, TypeOK, JobsSound, JobRecords, ReobserveFact, At
<1>2. job[j].old \in Ids /\ job[j].copy \in Rows /\ job[j].copy.key = job[j].key
  BY <1>1 DEF Sound
<1>3. r \in Rows /\ r.key = job[j].key
  BY <1>1, <1>2 DEF Reobserved, Rows, JobRecords
<1>4. /\ \A q \in Jobs : At(q, "write") /\ job[q].old = job[j].old => job[q].key = job[j].key
      /\ Active(job[j].old) => row[job[j].old].key = job[j].key
  BY <1>1 DEF MemoryInv, HoldersAgree, HeldForKey, At
<1>5. /\ row' = [row EXCEPT ![job[j].old] = r]
      /\ job' = [job EXCEPT ![j] = After(j)]
      /\ Saved(j) /\ UNCHANGED <<made, human, live, filed, upsets>>
  BY DEF ReobserveFact
<1>6. made' \in 0..MaxRows /\ made <= made' /\ job[j].old <= made'
  BY <1>1, <1>5, Limits DEF MemoryInv, TypeOK, Sound
<1> HIDE DEF r
<1> QED
  BY <1>1, <1>2, <1>3, <1>4, <1>5, <1>6, WriteKeeps

LEMMA CreateKeeps ==
    ASSUME MemoryInv, NEW j \in Jobs, CreateFact(j)
    PROVE  MemoryInv'
<1> DEFINE r == NewRow(j)
<1>1. job[j] \in JobRecords /\ Sound(job[j]) /\ job[j].at = "create"
  BY DEF MemoryInv, TypeOK, JobsSound, JobRecords, CreateFact, At
<1>2. r \in Rows /\ r.key = job[j].key
  <2>1. job[j].copy \in Rows \/ job[j].copy = None
    BY <1>1 DEF JobRecords
  <2>2. job[j].key \in Keys /\ job[j].content \in Contents /\ job[j].group \in Groups \cup {None}
    BY <1>1 DEF Sound, JobRecords
  <2> QED
    BY <2>1, <2>2 DEF NewRow, Rows
<1>3. made' = made + 1 /\ made' \in Ids /\ made' \in 0..MaxRows /\ made <= made'
  BY Limits DEF MemoryInv, TypeOK, CreateFact, Ids
<1>4. row[made'] = None
  BY <1>3, Limits DEF MemoryInv, TypeOK, RowsFresh
<1>5. \A q \in Jobs : ~(At(q, "write") /\ job[q].old = made')
  BY <1>3, Limits DEF MemoryInv, TypeOK, JobsSound, Sound, At
<1>6. /\ row' = [row EXCEPT ![made'] = r]
      /\ job' = [job EXCEPT ![j] = After(j)]
      /\ Saved(j) /\ UNCHANGED <<human, live, filed, upsets>>
  BY DEF CreateFact
<1>7. ~Active(made')
  BY <1>4 DEF Active
<1> HIDE DEF r
<1>8. PICK i \in Ids : i = made' /\ i <= made'
  BY <1>3, Limits
<1> QED
  BY <1>1, <1>2, <1>3, <1>5, <1>6, <1>7, <1>8, WriteKeeps

LEMMA SupersedeKeeps ==
    ASSUME MemoryInv, NEW j \in Jobs, SupersedeFact(j)
    PROVE  MemoryInv'
<1> DEFINE x == [job[j] EXCEPT !.at = "create"]
<1>1. job[j] \in JobRecords /\ Sound(job[j]) /\ job[j].at = "write" /\ job \in [Jobs -> JobRecords]
  BY DEF MemoryInv, TypeOK, JobsSound, JobRecords, SupersedeFact, At
<1>2. x \in JobRecords /\ Sound(x) /\ x.at = "create" /\ x.key = job[j].key
  BY <1>1 DEF JobRecords, Stages, Sound
<1>3. job' = [job EXCEPT ![j] = x]
  BY <1>1 DEF SupersedeFact
<1>4. /\ row' = [row EXCEPT ![job[j].old] = None]
      /\ UNCHANGED <<made, human, live, filed, upsets, observers>>
  BY DEF SupersedeFact
<1> HIDE DEF x
<1>5. \A q \in Jobs : job'[q] = IF q = j THEN x ELSE job[q]
  BY <1>1, <1>3
<1>6. \A n \in Ids : row'[n] = IF n = job[j].old THEN None ELSE row[n]
  BY <1>4 DEF MemoryInv, TypeOK
<1>7. TypeOK'
  <2>1. job' \in [Jobs -> JobRecords]
    BY <1>2, <1>3, JobTyped DEF MemoryInv
  <2>2. row' \in [Ids -> Rows \cup {None}]
    BY <1>4 DEF MemoryInv, TypeOK
  <2> QED
    BY <1>4, <2>1, <2>2 DEF MemoryInv, TypeOK, JobRecords, observers
<1>8. JobsSound' /\ RowsFresh'
  BY <1>2, <1>4, <1>5, <1>6 DEF MemoryInv, JobsSound, RowsFresh, Sound
<1>9. HeldForKey' /\ HoldersAgree'
  BY <1>2, <1>5, <1>6 DEF MemoryInv, HeldForKey, HoldersAgree, At, Active, JobsSound, Sound
<1>10. KeysKept'
  <2>1. kept' = kept
    BY <1>4 DEF observers
  <2> SUFFICES ASSUME NEW k \in kept
               PROVE  ActiveOf(k)' # {} \/ \E q \in Jobs : job'[q].key = k /\ At(q, "create")'
    BY <2>1 DEF KeysKept
  <2>2. CASE \E q \in Jobs : job[q].key = k /\ At(q, "create")
    BY <1>1, <1>5, <2>2 DEF At
  <2>3. CASE k = job[j].key
    BY <1>2, <1>5, <2>3 DEF At
  <2>4. CASE k # job[j].key /\ ActiveOf(k) # {}
    <3>1. PICK n \in Ids : Active(n) /\ row[n].key = k
      BY <2>4 DEF ActiveOf
    <3>2. n # job[j].old
      BY <1>1, <2>4, <3>1 DEF MemoryInv, HeldForKey, At
    <3> QED
      BY <1>6, <3>1, <3>2 DEF ActiveOf, Active
  <2> QED
    BY <2>2, <2>3, <2>4 DEF MemoryInv, KeysKept
<1> QED
  BY <1>7, <1>8, <1>9, <1>10 DEF MemoryInv

-----------------------------------------------------------------------------
(* The account's own edits, and the failures.                              *)

\* An edit takes rows away or changes them under their own key, and does not
\* count on the keys of those it takes.
LEMMA EditKeeps ==
    ASSUME MemoryInv, Edit,
           row' \in [Ids -> Rows \cup {None}], human' \in Items \cup {None},
           live' \subseteq Groups, filed' \in Groups \cup {None},
           retained' \subseteq Keys, told' \subseteq Facts, forgotten' \subseteq Facts,
           kept' \subseteq kept,
           \A i \in Ids : row'[i] # None => row[i] # None /\ row'[i].key = row[i].key,
           \A i \in Ids : row[i] # None /\ row[i].key \in kept' => row'[i] # None
    PROVE  MemoryInv'
<1>1. /\ UNCHANGED <<made, job>> /\ upsets' = upsets + 1 /\ upsets < MaxUpsets
      /\ overlapped' = (overlapped \/ \E j \in Jobs : Busy(j))
  BY DEF Edit
<1>2. TypeOK'
  <2>1. upsets' \in 0..MaxUpsets
    BY <1>1, Limits DEF MemoryInv, TypeOK
  <2>2. overlapped' \in BOOLEAN
    BY <1>1 DEF MemoryInv, TypeOK
  <2>3. kept' \subseteq Keys
    BY DEF MemoryInv, TypeOK
  <2> QED
    BY <1>1, <2>1, <2>2, <2>3 DEF MemoryInv, TypeOK
<1>3. JobsSound' /\ RowsFresh' /\ HoldersAgree'
  BY <1>1 DEF MemoryInv, JobsSound, Sound, RowsFresh, HoldersAgree, At
<1>4. HeldForKey'
  BY <1>1 DEF MemoryInv, HeldForKey, At, Active, JobsSound, Sound
<1>5. KeysKept'
  <2> SUFFICES ASSUME NEW k \in kept'
               PROVE  ActiveOf(k)' # {} \/ \E q \in Jobs : job'[q].key = k /\ At(q, "create")'
    BY DEF KeysKept
  <2>1. k \in kept
    OBVIOUS
  <2>2. CASE ActiveOf(k) # {}
    BY <2>2 DEF ActiveOf, Active
  <2>3. CASE \E q \in Jobs : job[q].key = k /\ At(q, "create")
    BY <1>1, <2>3 DEF At
  <2> QED
    BY <2>1, <2>2, <2>3 DEF MemoryInv, KeysKept
<1> QED
  BY <1>2, <1>3, <1>4, <1>5 DEF MemoryInv

LEMMA ForgetKeeps ==
    ASSUME MemoryInv, NEW i \in Ids, ForgetMemory(i)
    PROVE  MemoryInv'
<1>1. row[i] \in Rows
  BY DEF MemoryInv, TypeOK, ForgetMemory, Active
<1>2. /\ row' = [row EXCEPT ![i] = None] /\ Edit
      /\ kept' = kept \ {row[i].key} /\ UNCHANGED <<human, live, filed>>
  BY DEF ForgetMemory
<1>3. \A n \in Ids : row'[n] = IF n = i THEN None ELSE row[n]
  BY <1>2 DEF MemoryInv, TypeOK
<1>4. retained' \subseteq Keys /\ told' \subseteq Facts /\ forgotten' \subseteq Facts
  <2>1. /\ retained \ {row[i].key} \subseteq Keys /\ told \subseteq Facts
        /\ forgotten \cup {<<row[i].key, row[i].content>>} \subseteq Facts
    BY <1>1 DEF MemoryInv, TypeOK, Facts, Rows
  <2> QED
    BY <2>1, ObserveTyped DEF ForgetMemory
<1>5. row' \in [Ids -> Rows \cup {None}]
  BY <1>2 DEF MemoryInv, TypeOK
<1>6. /\ human' \in Items \cup {None} /\ live' \subseteq Groups /\ filed' \in Groups \cup {None}
      /\ kept' \subseteq kept
  BY <1>2 DEF MemoryInv, TypeOK
<1>7. \A n \in Ids : row[n] # None /\ row[n].key \in kept' => row'[n] # None
  BY <1>2, <1>3
<1> QED
  BY <1>2, <1>3, <1>4, <1>5, <1>6, <1>7, EditKeeps

\* Pinning and releasing change neither what there is nor its key.
LEMMA GroupKeeps ==
    ASSUME MemoryInv, NEW g \in Groups \cup {None},
           SetConversationGroup(g) \/ (g \in Groups /\ DeleteConversationGroup(g))
    PROVE  MemoryInv'
<1>1. row \in [Ids -> Rows \cup {None}] /\ live \subseteq Groups /\ filed \in Groups \cup {None}
      /\ human \in Items \cup {None} /\ retained \subseteq Keys /\ told \subseteq Facts /\ forgotten \subseteq Facts
  BY DEF MemoryInv, TypeOK
<1>2. Edit /\ UNCHANGED <<human, kept>> /\ live' \subseteq Groups /\ filed' \in Groups \cup {None}
  BY <1>1 DEF SetConversationGroup, DeleteConversationGroup
<1>3. \A i \in Ids :
        \/ row'[i] = row[i]
        \/ /\ row[i] \in Rows
           /\ \/ g \in Groups /\ row'[i] = [row[i] EXCEPT !.pinned = TRUE, !.group = g]
              \/ row'[i] = [row[i] EXCEPT !.pinned = FALSE, !.group = None]
  BY <1>1 DEF SetConversationGroup, DeleteConversationGroup, Joins, Released, Active
<1>4. \A i \in Ids :
        /\ row'[i] \in Rows \cup {None}
        /\ row'[i] # None <=> row[i] # None
        /\ row[i] # None => row'[i].key = row[i].key
  <2> SUFFICES ASSUME NEW i \in Ids, row'[i] # row[i]
               PROVE  row[i] \in Rows /\ row'[i] \in Rows /\ row'[i].key = row[i].key
    BY <1>1, NoneIsNoRow
  <2> QED
    BY <1>3 DEF Rows
<1>5. row' \in [Ids -> Rows \cup {None}]
  <2>1. row' = [i \in Ids |-> row'[i]]
    <3>1. CASE SetConversationGroup(g)
      BY <3>1 DEF SetConversationGroup
    <3>2. CASE DeleteConversationGroup(g)
      BY <3>2 DEF DeleteConversationGroup
    <3> QED BY <3>1, <3>2
  <2>2. \A i \in Ids : row'[i] \in Rows \cup {None}
    BY <1>4
  <2> QED
    BY <2>1, <2>2
<1>6. retained' \subseteq Keys /\ told' \subseteq Facts /\ forgotten' \subseteq Facts
  <2>1. \A i \in Ids : Active(i) => row[i].key \in Keys
    BY <1>1 DEF Active, Rows
  <2>2. CASE SetConversationGroup(g)
    <3>1. (IF g = None THEN retained ELSE retained \cup {row[i].key : i \in {n \in Ids : Joins(n)}}) \subseteq Keys
      BY <1>1, <2>1 DEF Joins
    <3> QED
      BY <1>1, <2>2, <3>1, ObserveTyped DEF SetConversationGroup
  <2>3. CASE g \in Groups /\ DeleteConversationGroup(g)
    <3>1. retained \ {row[i].key : i \in {n \in Ids : Released(n, g)}} \subseteq Keys
      BY <1>1
    <3> QED
      BY <1>1, <2>3, <3>1, ObserveTyped DEF DeleteConversationGroup
  <2> QED BY <2>2, <2>3
<1>7. /\ \A i \in Ids : row'[i] # None => row[i] # None /\ row'[i].key = row[i].key
      /\ \A i \in Ids : row[i] # None /\ row[i].key \in kept' => row'[i] # None
  BY <1>4
<1>8. human' \in Items \cup {None} /\ kept' \subseteq kept
  BY <1>1, <1>2
<1> QED
  BY <1>2, <1>5, <1>6, <1>7, <1>8, EditKeeps

LEMMA ResetKeeps ==
    ASSUME MemoryInv, ResetAgentMemories
    PROVE  MemoryInv'
<1>1. /\ Edit /\ row' = [i \in Ids |-> None] /\ human' = None /\ filed' = None
      /\ kept' = {} /\ live' = live
  BY DEF ResetAgentMemories
<1>2. retained' \subseteq Keys /\ told' \subseteq Facts /\ forgotten' \subseteq Facts
  <2>1. forgotten \subseteq Facts
    BY DEF MemoryInv, TypeOK
  <2> QED
    BY <2>1, ObserveTyped DEF ResetAgentMemories
<1>3. row' \in [Ids -> Rows \cup {None}] /\ live' \subseteq Groups /\ human' \in Items \cup {None}
      /\ filed' \in Groups \cup {None} /\ kept' \subseteq kept
  BY <1>1 DEF MemoryInv, TypeOK
<1>4. /\ \A i \in Ids : row'[i] # None => row[i] # None /\ row'[i].key = row[i].key
      /\ \A i \in Ids : row[i] # None /\ row[i].key \in kept' => row'[i] # None
  BY <1>1
<1> QED
  BY <1>1, <1>2, <1>3, <1>4, EditKeeps

\* Jobs that end where they are tear the saves that have superseded a row and not
\* yet replaced it.
LEMMA AbandonKeeps ==
    ASSUME MemoryInv, NEW S \in SUBSET Jobs, Abandon(S)
    PROVE  MemoryInv'
<1> DEFINE torn == {job[j].key : j \in {q \in S : At(q, "create")}}
<1>1. /\ upsets < MaxUpsets /\ upsets' = upsets + 1
      /\ kept' = kept \ torn
      /\ Observe(retained \ torn, told, forgotten)
      /\ job' = [j \in Jobs |-> IF j \in S THEN Idle ELSE job[j]]
      /\ UNCHANGED <<overlapped, row, made, human, live, filed>>
  BY DEF Abandon
<1>2. retained' \subseteq Keys /\ told' \subseteq Facts /\ forgotten' \subseteq Facts
  <2>1. retained \ torn \subseteq Keys /\ told \subseteq Facts /\ forgotten \subseteq Facts
    BY DEF MemoryInv, TypeOK
  <2> QED
    BY <1>1, <2>1, ObserveTyped
<1>3. TypeOK'
  <2>1. job' \in [Jobs -> JobRecords]
    BY <1>1, IdleTyped DEF MemoryInv, TypeOK, JobRecords
  <2>2. upsets' \in 0..MaxUpsets
    BY <1>1, Limits DEF MemoryInv, TypeOK
  <2> QED
    BY <1>1, <1>2, <2>1, <2>2 DEF MemoryInv, TypeOK, JobRecords
<1>4. \A j \in Jobs : job'[j] = Idle \/ (j \notin S /\ job'[j] = job[j])
  BY <1>1
<1>5. JobsSound' /\ RowsFresh' /\ HeldForKey' /\ HoldersAgree'
  BY <1>1, <1>4, IdleTyped DEF MemoryInv, JobsSound, Sound, RowsFresh, HeldForKey, HoldersAgree, At, Active
<1>6. KeysKept'
  <2> SUFFICES ASSUME NEW k \in kept'
               PROVE  ActiveOf(k)' # {} \/ \E q \in Jobs : job'[q].key = k /\ At(q, "create")'
    BY DEF KeysKept
  <2>1. k \in kept /\ ~\E q \in S : job[q].key = k /\ At(q, "create")
    BY <1>1
  <2>2. ActiveOf(k) # {} \/ \E q \in Jobs \ S : job[q].key = k /\ At(q, "create")
    BY <2>1 DEF MemoryInv, KeysKept
  <2> QED
    BY <1>1, <2>2 DEF ActiveOf, Active, At
<1> QED
  BY <1>3, <1>5, <1>6 DEF MemoryInv

-----------------------------------------------------------------------------
LEMMA SamenessKeeps ==
    ASSUME MemoryInv, UNCHANGED vars
    PROVE  MemoryInv'
<1>1. TypeOK' /\ JobsSound' /\ RowsFresh'
  BY DEF vars, observers, MemoryInv, TypeOK, JobsSound, Sound, RowsFresh
<1>2. HeldForKey' /\ HoldersAgree' /\ KeysKept'
  BY DEF vars, observers, MemoryInv, HeldForKey, HoldersAgree, KeysKept, At, Active, ActiveOf
<1> QED
  BY <1>1, <1>2 DEF MemoryInv

LEMMA JobStepKeeps ==
    ASSUME MemoryInv, NEW j \in Jobs, JobStep(j)
    PROVE  MemoryInv'
<1>1. filed \in Groups \cup {None}
  BY DEF MemoryInv, TypeOK
<1>2. ASSUME NEW k \in Keys, NEW c \in Contents, CallMemorySave(j, k, c) \/ PostMemory(j, k, c)
      PROVE  MemoryInv'
  <2>1. RetentionFor(k) \in Groups \cup {None}
    BY <1>1 DEF RetentionFor
  <2> QED
    BY <1>2, <2>1, BeginKeeps DEF CallMemorySave, PostMemory
<1>3. CASE ObserveInteraction(j)
  <2>1. PICK f \in ExtractMemoryFacts : Begin(j, "observe", f[1], f[2], filed)
    BY <1>3 DEF ObserveInteraction
  <2>2. f[1] \in Keys /\ f[2] \in Contents
    BY DEF ExtractMemoryFacts
  <2> QED
    BY <1>1, <2>1, <2>2, BeginKeeps
<1> QED
  BY <1>2, <1>3, ReadStateKeeps, FindKeeps, ReobserveKeeps, SupersedeKeeps, CreateKeeps, SaveStateKeeps,
     PromptKeeps, RefillKeeps DEF JobStep

THEOREM StepMemory == MemoryInv /\ [Next]_vars => MemoryInv'
<1> SUFFICES ASSUME MemoryInv, [Next]_vars PROVE MemoryInv'
  OBVIOUS
<1>1. ASSUME NEW j \in Jobs, JobStep(j) PROVE MemoryInv'
  BY <1>1, JobStepKeeps
<1>2. ASSUME NEW i \in Ids, ForgetMemory(i) PROVE MemoryInv'
  BY <1>2, ForgetKeeps
<1>3. ASSUME NEW g \in Groups \cup {None}, SetConversationGroup(g) PROVE MemoryInv'
  BY <1>3, GroupKeeps
<1>4. ASSUME NEW g \in Groups, DeleteConversationGroup(g) PROVE MemoryInv'
  BY <1>4, GroupKeeps
<1>5. CASE ResetAgentMemories \/ Crash \/ \E j \in Jobs : JobFails(j)
  BY <1>5, ResetKeeps, AbandonKeeps DEF Crash, JobFails
<1>6. CASE UNCHANGED vars
  BY <1>6, SamenessKeeps
<1> QED
  BY <1>1, <1>2, <1>3, <1>4, <1>5, <1>6 DEF Next

-----------------------------------------------------------------------------
\* Whatever saves, prompts, edits, resets, failed statements and crashes are
\* interleaved, rows, jobs and observers keep their types.
THEOREM SpecTypeOK == Spec => []TypeOK
<1>1. MemoryInv => TypeOK
  BY DEF MemoryInv
<1> QED
  BY <1>1, InitMemory, StepMemory, PTL DEF Spec

\* For any keys, contents, groups and any number of jobs at once: a key whose
\* save has completed has an active fact until the account forgets it, or a
\* failed statement or the end of the process stops a correction in the middle.
THEOREM SpecKeysKept == Spec => []KeysKept
<1>1. MemoryInv => KeysKept
  BY DEF MemoryInv
<1> QED
  BY <1>1, InitMemory, StepMemory, PTL DEF Spec

-----------------------------------------------------------------------------
(* While no two jobs meet on a key.                                       *)

Apart == \A j, q \in Jobs, k \in Keys : BusyOn(j, k) /\ BusyOn(q, k) => j = q

\* A job that is to write holds the only row of its key as it is, or there is none.
ReadsHold ==
    \A j \in Jobs :
        /\ At(j, "write") => /\ row[job[j].old] = job[j].copy
                             /\ ActiveOf(job[j].key) \subseteq {job[j].old}
        /\ At(j, "create") => ActiveOf(job[j].key) = {}

OneRow == \A i, n \in Ids : Active(i) /\ Active(n) /\ row[i].key = row[n].key => i = n

RowsTold  == \A i \in Ids : Active(i) => <<row[i].key, row[i].content>> \in told
StateTold == human # None => \A k \in Keys : human[k] # None => <<k, human[k]>> \in told
JobsTold ==
    \A j \in Jobs :
        /\ job[j].at \in {"state", "lookup", "write", "create"} => <<job[j].key, job[j].content>> \in told
        /\ \A k \in Keys : job[j].items[k] # None => <<k, job[j].items[k]>> \in told

RowsRetained ==
    \A i \in Ids : Active(i) =>
        /\ row[i].key \in retained => row[i].pinned
        /\ row[i].pinned => row[i].group \in live

\* A superseded row hands its retention on to the row that is to come.
HeirsRetained ==
    \A j \in Jobs : At(j, "create") =>
        /\ job[j].copy # None => (job[j].copy.pinned => job[j].copy.group \in live)
        /\ job[j].key \in retained => job[j].copy # None /\ job[j].copy.pinned

RetainedThere == \A k \in retained : ActiveOf(k) # {} \/ \E q \in Jobs : job[q].key = k /\ At(q, "create")

GroupsLive == \A j \in Jobs : job[j].group \in live \cup {None}

Calm ==
    /\ Apart /\ ReadsHold /\ OneRow
    /\ RowsTold /\ StateTold /\ JobsTold
    /\ RowsRetained /\ HeirsRetained /\ RetainedThere /\ GroupsLive

StagesSound ==
    \A j \in Jobs : /\ job[j].at \in {"list", "refill"} => job[j].kind = "prompt"
                    /\ job[j].at = "idle" => job[j] = Idle

CalmInv == MemoryInv /\ StagesSound /\ filed \in live \cup {None} /\ (~overlapped => Calm)

-----------------------------------------------------------------------------
\* The observers go on as long as nothing overlaps.
LEMMA Observed ==
    ASSUME NEW r, NEW t, NEW f, Observe(r, t, f), ~overlapped'
    PROVE  retained' = r /\ told' = t /\ forgotten' = f
BY DEF Observe

LEMMA KeyOfBusy ==
    ASSUME MemoryInv, NEW j \in Jobs, job[j].at \in {"state", "lookup", "write", "create", "finish"}
    PROVE  job[j].key \in Keys /\ BusyOn(j, job[j].key)
BY DEF MemoryInv, JobsSound, Sound, BusyOn, Busy

\* A job that is busy on the key another is to write is that other.
LEMMA AloneOnKey ==
    ASSUME MemoryInv, Apart, NEW j \in Jobs, NEW q \in Jobs,
           job[j].at \in {"state", "lookup", "write", "create", "finish"}, BusyOn(q, job[j].key)
    PROVE  q = j
BY KeyOfBusy DEF Apart

THEOREM InitCalm == Init => CalmInv
<1> SUFFICES ASSUME Init PROVE CalmInv
  OBVIOUS
<1>1. MemoryInv
  BY InitMemory
<1>2. \A j \in Jobs : job[j] = Idle
  BY DEF Init
<1>3. Idle.at = "idle" /\ Idle.group = None /\ \A k \in Keys : Idle.items[k] = None
  BY DEF Idle, NoItems
<1>4. Apart /\ ReadsHold /\ HeirsRetained /\ GroupsLive
  BY <1>2, <1>3 DEF Apart, BusyOn, Busy, ReadsHold, HeirsRetained, GroupsLive, At
<1>5. OneRow /\ RowsTold /\ RowsRetained /\ RetainedThere
  BY DEF Init, OneRow, RowsTold, RowsRetained, RetainedThere, Active
<1>6. StateTold /\ JobsTold
  BY <1>2, <1>3 DEF Init, StateTold, JobsTold
<1>7. StagesSound /\ filed \in live \cup {None}
  BY <1>2, <1>3 DEF Init, StagesSound
<1> QED
  BY <1>1, <1>4, <1>5, <1>6, <1>7 DEF CalmInv, Calm

-----------------------------------------------------------------------------
(* Steps of a job that leave the rows alone.                               *)

\* What such a step must see to: it takes no key another is busy on, and what
\* it holds is told and of a group there is.
LEMMA QuietCalm ==
    ASSUME MemoryInv, Calm, NEW j \in Jobs, NEW x \in JobRecords,
           job' = [job EXCEPT ![j] = x], x.at \notin {"write", "create"}, ~At(j, "create"),
           UNCHANGED <<row, live, retained>>, told \subseteq told', StateTold',
           x.at \in {"state", "lookup"} => <<x.key, x.content>> \in told',
           \A k \in Keys : x.items[k] # None => <<k, x.items[k]>> \in told',
           x.group \in live \cup {None},
           x.at # "idle" => \A k \in Keys : x.kind = "prompt" \/ x.key = k =>
                                \A q \in Jobs : BusyOn(q, k) => q = j
    PROVE  Calm'
<1>1. \A q \in Jobs : job'[q] = IF q = j THEN x ELSE job[q]
  BY DEF MemoryInv, TypeOK
<1>2. Apart'
  BY <1>1 DEF Calm, Apart, BusyOn, Busy
<1>3. ReadsHold' /\ OneRow'
  BY <1>1 DEF Calm, ReadsHold, OneRow, ActiveOf, Active, At
<1>4. RowsTold' /\ JobsTold'
  BY <1>1 DEF Calm, RowsTold, JobsTold, Active
<1>5. RowsRetained' /\ HeirsRetained' /\ GroupsLive'
  BY <1>1 DEF Calm, RowsRetained, HeirsRetained, GroupsLive, Active, At
<1>6. RetainedThere'
  BY <1>1 DEF Calm, RetainedThere, ActiveOf, Active, At
<1> QED
  BY <1>2, <1>3, <1>4, <1>5, <1>6 DEF Calm

LEMMA BeginCalm ==
    ASSUME CalmInv, NEW j \in Jobs, NEW kind \in {"save", "observe"}, NEW k \in Keys, NEW c \in Contents,
           NEW group \in live \cup {None}, Begin(j, kind, k, c, group)
    PROVE  CalmInv'
<1> DEFINE x == [Idle EXCEPT !.at = IF kind = "observe" THEN "state" ELSE "lookup",
                             !.kind = kind, !.key = k, !.content = c, !.group = group]
<1>1. live \subseteq Groups
  BY DEF CalmInv, MemoryInv, TypeOK
<1>2. /\ x \in JobRecords /\ x.at \in {"state", "lookup"} /\ x.kind # "prompt" /\ x.key = k
      /\ x.content = c /\ x.group = group /\ x.items = NoItems
  BY <1>1, IdleTyped DEF Idle, JobRecords, Stages
<1>3. job' = [job EXCEPT ![j] = x] /\ ~At(j, "create") /\ UNCHANGED <<row, made, human, live, filed, upsets, kept>>
  BY DEF Begin, At
<1>4. Observe(retained, told \cup {<<k, c>>}, forgotten \ {<<k, c>>})
      /\ overlapped' = (overlapped \/ \E q \in Jobs : BusyOn(q, k))
  BY DEF Begin
<1> HIDE DEF x
<1>5. MemoryInv'
  BY <1>1, BeginKeeps DEF CalmInv
<1>6. StagesSound'
  BY <1>2, <1>3 DEF CalmInv, MemoryInv, TypeOK, StagesSound
<1>7. ASSUME ~overlapped' PROVE Calm'
  <2>1. Calm /\ \A q \in Jobs : ~BusyOn(q, k)
    BY <1>4, <1>7 DEF CalmInv
  <2>2. retained' = retained /\ told' = told \cup {<<k, c>>}
    BY <1>4, <1>7, Observed
  <2>3. StateTold'
    BY <1>3, <2>1, <2>2 DEF Calm, StateTold
  <2>4. \A n \in Keys : x.items[n] = None
    BY <1>2 DEF NoItems
  <2> QED
    BY <1>2, <1>3, <2>1, <2>2, <2>3, <2>4, QuietCalm DEF CalmInv
<1> QED
  BY <1>3, <1>5, <1>6, <1>7 DEF CalmInv

LEMMA ReadStateCalm ==
    ASSUME CalmInv, NEW j \in Jobs, ReadState(j)
    PROVE  CalmInv'
<1>1. job[j] \in JobRecords /\ Sound(job[j]) /\ job[j].at = "state"
  BY DEF CalmInv, MemoryInv, TypeOK, JobsSound, JobRecords, ReadState, At
<1>2. human' \in Items /\ ((human # None /\ human' = human) \/ human' = NoItems)
  BY IdleTyped DEF CalmInv, MemoryInv, TypeOK, ReadState
<1> DEFINE merged == MergeMemoryFacts(human', job[j].key, job[j].content)
           x == [job[j] EXCEPT !.items = merged, !.at = "lookup"]
<1>3. merged \in Items /\ \A k \in Keys : merged[k] = IF k = job[j].key THEN job[j].content ELSE human'[k]
  BY <1>1, <1>2 DEF MergeMemoryFacts, Items, Sound
<1> HIDE DEF merged
<1>4. /\ x \in JobRecords /\ x.at = "lookup" /\ x.kind = job[j].kind /\ x.key = job[j].key
      /\ x.content = job[j].content /\ x.group = job[j].group /\ x.items = merged
  BY <1>1, <1>3 DEF JobRecords, Stages
<1>5. job' = [job EXCEPT ![j] = x] /\ ~At(j, "create") /\ UNCHANGED <<row, made, live, filed, upsets, observers>>
  BY <1>1 DEF ReadState, At, CalmInv, MemoryInv, TypeOK, merged
<1> HIDE DEF x
<1>6. MemoryInv'
  BY ReadStateKeeps DEF CalmInv
<1>7. StagesSound'
  BY <1>4, <1>5 DEF CalmInv, MemoryInv, TypeOK, StagesSound
<1>8. ASSUME ~overlapped' PROVE Calm'
  <2>1. Calm
    BY <1>5, <1>8 DEF CalmInv, observers
  <2>2. StateTold'
    BY <1>2, <1>5, <2>1 DEF Calm, StateTold, NoItems, observers
  <2>3. \A k \in Keys : x.items[k] # None => <<k, x.items[k]>> \in told
    <3>1. \A k \in Keys : human'[k] # None => <<k, human'[k]>> \in told
      BY <1>2, <2>1 DEF Calm, StateTold, NoItems
    <3>2. <<job[j].key, job[j].content>> \in told
      BY <1>1, <2>1 DEF Calm, JobsTold
    <3> QED
      BY <1>3, <1>4, <3>1, <3>2
  <2>4. \A k \in Keys : x.kind = "prompt" \/ x.key = k => \A q \in Jobs : BusyOn(q, k) => q = j
    BY <1>1, <1>4, <2>1 DEF Calm, Apart, BusyOn, Busy
  <2>5. <<x.key, x.content>> \in told /\ x.group \in live \cup {None}
    BY <1>1, <1>4, <2>1 DEF Calm, JobsTold, GroupsLive
  <2> QED
    BY <1>4, <1>5, <2>1, <2>2, <2>3, <2>4, <2>5, QuietCalm DEF CalmInv, observers
<1> QED
  BY <1>5, <1>6, <1>7, <1>8 DEF CalmInv

LEMMA SaveStateCalm ==
    ASSUME CalmInv, NEW j \in Jobs, SaveState(j)
    PROVE  CalmInv'
<1>1. job' = [job EXCEPT ![j] = Idle] /\ human' = job[j].items /\ ~At(j, "create")
      /\ UNCHANGED <<row, made, live, filed, upsets, observers>>
  BY DEF SaveState, At
<1>2. Idle \in JobRecords /\ Idle.at = "idle" /\ Idle.group = None /\ \A k \in Keys : Idle.items[k] = None
  BY IdleTyped DEF Idle, NoItems
<1>3. MemoryInv'
  BY SaveStateKeeps DEF CalmInv
<1>4. StagesSound'
  BY <1>1, <1>2 DEF CalmInv, MemoryInv, TypeOK, StagesSound
<1>5. ASSUME ~overlapped' PROVE Calm'
  <2>1. Calm
    BY <1>1, <1>5 DEF CalmInv, observers
  <2>2. StateTold'
    BY <1>1, <2>1 DEF Calm, JobsTold, StateTold, observers
  <2> QED
    BY <1>1, <1>2, <2>1, <2>2, QuietCalm DEF CalmInv, observers
<1> QED
  BY <1>1, <1>3, <1>4, <1>5 DEF CalmInv

LEMMA PromptCalm ==
    ASSUME CalmInv, NEW j \in Jobs, BuildPromptState(j)
    PROVE  CalmInv'
<1>1. human' \in Items /\ ((human # None /\ human' = human) \/ human' = NoItems)
  BY IdleTyped DEF CalmInv, MemoryInv, TypeOK, BuildPromptState
<1> DEFINE x == [Idle EXCEPT !.at = "list", !.kind = "prompt", !.items = human']
<1>2. /\ x \in JobRecords /\ x.at = "list" /\ x.kind = "prompt" /\ x.group = None /\ x.items = human'
  BY <1>1, IdleTyped DEF Idle, JobRecords, Stages
<1>3. /\ job' = [job EXCEPT ![j] = x] /\ ~At(j, "create") /\ UNCHANGED <<row, made, live, filed, upsets, kept>>
      /\ Observe(retained, told, forgotten) /\ overlapped' = (overlapped \/ \E q \in Jobs : Busy(q))
  BY DEF BuildPromptState, At
<1> HIDE DEF x
<1>4. MemoryInv'
  BY PromptKeeps DEF CalmInv
<1>5. StagesSound'
  BY <1>2, <1>3 DEF CalmInv, MemoryInv, TypeOK, StagesSound
<1>6. ASSUME ~overlapped' PROVE Calm'
  <2>1. Calm /\ \A q \in Jobs : ~Busy(q)
    BY <1>3, <1>6 DEF CalmInv
  <2>2. retained' = retained /\ told' = told
    BY <1>3, <1>6, Observed
  <2>3. StateTold'
    BY <1>1, <2>1, <2>2 DEF Calm, StateTold, NoItems
  <2>4. \A k \in Keys : x.items[k] # None => <<k, x.items[k]>> \in told'
    BY <1>1, <1>2, <2>1, <2>2 DEF Calm, StateTold, NoItems
  <2> QED
    BY <1>2, <1>3, <2>1, <2>2, <2>3, <2>4, QuietCalm DEF CalmInv, BusyOn
<1> QED
  BY <1>3, <1>4, <1>5, <1>6 DEF CalmInv

LEMMA RefillCalm ==
    ASSUME CalmInv, NEW j \in Jobs, ListLongTerm(j) \/ RefillFact(j)
    PROVE  CalmInv'
<1>1. /\ job[j] \in JobRecords /\ Sound(job[j]) /\ job[j].at \in {"list", "refill"} /\ job[j].kind = "prompt"
      /\ job \in [Jobs -> JobRecords]
  BY DEF CalmInv, MemoryInv, TypeOK, JobsSound, JobRecords, StagesSound, ListLongTerm, RefillFact, At
<1>2. PICK x \in JobRecords :
        /\ job' = [job EXCEPT ![j] = x] /\ x.at \in {"idle", "refill", "lookup"}
        /\ x = Idle \/ (x.kind = "prompt" /\ x.group = job[j].group /\ x.items = job[j].items)
        /\ x.at = "lookup" => x.key \in Keys /\ x.content = x.items[x.key] /\ x.content # None
        /\ x.at = "idle" => x = Idle
  <2>1. CASE ListLongTerm(j)
    <3> DEFINE facts == {k \in Keys : job[j].items[k] # None}
               y == [job[j] EXCEPT !.at = "refill", !.rest = facts]
    <3>1. /\ y \in JobRecords /\ y.at = "refill" /\ y.kind = "prompt"
          /\ y.group = job[j].group /\ y.items = job[j].items
      BY <1>1 DEF JobRecords, Stages
    <3>2. job' = [job EXCEPT ![j] = Idle] \/ job' = [job EXCEPT ![j] = y]
      BY <1>1, <2>1 DEF ListLongTerm
    <3> HIDE DEF y
    <3> QED
      BY <3>1, <3>2, IdleTyped
  <2>2. CASE RefillFact(j) /\ job' = [job EXCEPT ![j] = Idle]
    BY <2>2, IdleTyped
  <2>3. ASSUME NEW k \in job[j].rest,
               job' = [job EXCEPT ![j].at = "lookup", ![j].key = k,
                                  ![j].content = job[j].items[k], ![j].rest = @ \ {k}]
        PROVE  \E y \in JobRecords :
                 /\ job' = [job EXCEPT ![j] = y] /\ y.at = "lookup" /\ y.kind = "prompt"
                 /\ y.group = job[j].group /\ y.items = job[j].items
                 /\ y.key \in Keys /\ y.content = y.items[y.key] /\ y.content # None
    <3> DEFINE y == [job[j] EXCEPT !.at = "lookup", !.key = k, !.content = job[j].items[k], !.rest = @ \ {k}]
    <3>1. k \in Keys /\ job[j].items[k] \in Contents /\ job[j].items[k] # None
      BY <1>1 DEF JobRecords, Items, Sound
    <3>2. /\ y \in JobRecords /\ y.at = "lookup" /\ y.kind = "prompt"
          /\ y.group = job[j].group /\ y.items = job[j].items
          /\ y.key = k /\ y.content = job[j].items[k]
      BY <1>1, <3>1 DEF JobRecords, Stages
    <3>3. job' = [job EXCEPT ![j] = y]
      BY <1>1, <2>3
    <3> HIDE DEF y
    <3> QED
      BY <3>1, <3>2, <3>3
  <2> QED
    BY <2>1, <2>2, <2>3 DEF RefillFact
<1>3. ~At(j, "create") /\ UNCHANGED <<row, made, human, live, filed, upsets, observers>>
  BY DEF ListLongTerm, RefillFact, At
<1>4. /\ \A k \in Keys : Idle.items[k] = None
      /\ Idle.group = None /\ Idle.at = "idle"
  BY DEF Idle, NoItems
<1>5. MemoryInv'
  BY RefillKeeps DEF CalmInv
<1>6. StagesSound'
  BY <1>1, <1>2, <1>4 DEF CalmInv, StagesSound
<1>7. ASSUME ~overlapped' PROVE Calm'
  <2>1. Calm
    BY <1>3, <1>7 DEF CalmInv, observers
  <2>2. StateTold'
    BY <1>3, <2>1 DEF Calm, StateTold, observers
  <2>3. \A k \in Keys : x.items[k] # None => <<k, x.items[k]>> \in told
    BY <1>2, <1>4, <2>1 DEF Calm, JobsTold
  <2>4. x.at = "lookup" => <<x.key, x.content>> \in told
    BY <1>2, <2>3
  <2>5. \A k \in Keys : \A q \in Jobs : BusyOn(q, k) => q = j
    BY <1>1, <2>1 DEF Calm, Apart, BusyOn, Busy
  <2>6. x.group \in live \cup {None} /\ x.at \notin {"write", "create", "state"}
    BY <1>2, <1>4, <2>1 DEF Calm, GroupsLive
  <2> QED
    BY <1>2, <1>3, <2>1, <2>2, <2>3, <2>4, <2>5, <2>6, QuietCalm DEF CalmInv, observers
<1> QED
  BY <1>3, <1>5, <1>6, <1>7 DEF CalmInv

LEMMA FindCalm ==
    ASSUME CalmInv, NEW j \in Jobs, FindExisting(j)
    PROVE  CalmInv'
<1> DEFINE found == ActiveOf(job[j].key)
           first == CHOOSE i \in found : \A n \in found : i <= n
           x == [job[j] EXCEPT !.old  = IF found = {} THEN None ELSE first,
                               !.copy = IF found = {} THEN None ELSE row[first],
                               !.at   = IF found = {} THEN "create" ELSE "write"]
<1>1. job[j] \in JobRecords /\ job[j].at = "lookup" /\ job \in [Jobs -> JobRecords]
  BY DEF CalmInv, MemoryInv, TypeOK, JobRecords, FindExisting, At
<1>2. found # {} => first \in found
  BY FirstFound
<1>3. job' = [job EXCEPT ![j] = x] /\ UNCHANGED <<row, made, human, live, filed, upsets, observers>>
  <2>1. job' = [job EXCEPT ![j].old  = IF found = {} THEN None ELSE first,
                           ![j].copy = IF found = {} THEN None ELSE row[first],
                           ![j].at   = IF found = {} THEN "create" ELSE "write"]
    BY DEF FindExisting
  <2>2. UNCHANGED <<row, made, human, live, filed, upsets, observers>>
    BY DEF FindExisting
  <2> HIDE DEF found, first
  <2> QED
    BY <1>1, <2>1, <2>2 DEF JobRecords
<1>4. /\ x.kind = job[j].kind /\ x.key = job[j].key /\ x.content = job[j].content
      /\ x.group = job[j].group /\ x.items = job[j].items
      /\ found = {} => x.at = "create" /\ x.copy = None
      /\ found # {} => x.at = "write" /\ x.old = first /\ x.copy = row[first]
  <2> HIDE DEF found, first
  <2> QED
    BY <1>1 DEF JobRecords
<1> HIDE DEF x, first
<1>5. \A q \in Jobs : job'[q] = IF q = j THEN x ELSE job[q]
  BY <1>1, <1>3
<1>6. MemoryInv' /\ StagesSound'
  BY <1>4, <1>5, FindKeeps DEF CalmInv, StagesSound
<1>7. ASSUME ~overlapped' PROVE Calm'
  <2>1. Calm
    BY <1>3, <1>7 DEF CalmInv, observers
  <2>2. \A q \in Jobs, k \in Keys : BusyOn(q, k)' <=> BusyOn(q, k)
    BY <1>1, <1>4, <1>5 DEF BusyOn, Busy
  <2>3. Apart'
    BY <2>1, <2>2 DEF Calm, Apart
  <2>4. found # {} => found \subseteq {first}
    <3>1. \A i \in found : i \in Ids /\ Active(i) /\ row[i].key = job[j].key
      BY DEF ActiveOf
    <3> QED
      BY <1>2, <2>1, <3>1 DEF Calm, OneRow
  <2>5. ReadsHold'
    <3>1. \A k : ActiveOf(k)' = ActiveOf(k)
      BY <1>3 DEF ActiveOf, Active
    <3>2. x.at = "write" => row[x.old] = x.copy /\ ActiveOf(x.key) \subseteq {x.old}
      BY <1>4, <2>4
    <3>3. x.at = "create" => ActiveOf(x.key) = {}
      BY <1>4
    <3> QED
      BY <1>3, <1>5, <2>1, <3>1, <3>2, <3>3 DEF Calm, ReadsHold, At
  <2>6. OneRow' /\ RowsTold' /\ StateTold' /\ RowsRetained'
    BY <1>3, <2>1 DEF Calm, OneRow, RowsTold, StateTold, RowsRetained, Active, observers
  <2>7. JobsTold' /\ GroupsLive'
    BY <1>1, <1>3, <1>4, <1>5, <2>1 DEF Calm, JobsTold, GroupsLive, observers
  <2>8. HeirsRetained'
    <3>1. ASSUME found = {}, job[j].key \in retained
          PROVE  FALSE
      <4>1. PICK q \in Jobs : job[q].key = job[j].key /\ At(q, "create")
        BY <2>1, <3>1 DEF Calm, RetainedThere
      <4>2. BusyOn(q, job[j].key)
        BY <4>1 DEF BusyOn, Busy, At
      <4>3. q = j
        BY <1>1, <2>1, <4>2, AloneOnKey DEF CalmInv, Calm
      <4> QED
        BY <1>1, <4>1, <4>3 DEF At
    <3>2. x.at = "create" => x.copy = None /\ x.key \notin retained
      BY <1>4, <3>1
    <3> QED
      BY <1>3, <1>5, <2>1, <3>2 DEF Calm, HeirsRetained, At, observers
  <2>9. RetainedThere'
    BY <1>1, <1>3, <1>5, <2>1 DEF Calm, RetainedThere, ActiveOf, Active, At, observers
  <2> QED
    BY <2>3, <2>5, <2>6, <2>7, <2>8, <2>9 DEF Calm
<1> QED
  BY <1>3, <1>6, <1>7 DEF CalmInv

-----------------------------------------------------------------------------
(* Steps that write a row.                                                 *)

\* The row of a job's key is written: the job was alone on the key and held
\* its only row, so no other row and no other job is concerned.
LEMMA WriteCalm ==
    ASSUME CalmInv, MemoryInv', NEW j \in Jobs, job[j].at \in {"write", "create"},
           NEW i \in Ids, NEW r \in Rows, r.key = job[j].key, r.content = job[j].content,
           job[j].group # None => r.pinned /\ r.group = job[j].group,
           r.pinned /\ job[j].group = None =>
               /\ job[j].copy # None /\ job[j].copy.pinned
               /\ r.group = job[j].copy.group,
           job[j].copy # None /\ job[j].copy.pinned => r.pinned,
           job[j].at = "write" => i = job[j].old,
           job[j].at = "create" => ~Active(i),
           ~overlapped => \A q \in Jobs : At(q, "write") /\ job[q].old = i => q = j,
           row' = [row EXCEPT ![i] = r],
           job' = [job EXCEPT ![j] = After(j)],
           Saved(j), UNCHANGED <<human, live, filed>>
    PROVE  CalmInv'
<1>1. job[j] \in JobRecords /\ Sound(job[j]) /\ job \in [Jobs -> JobRecords] /\ r # None
  BY NoneIsNoRow DEF CalmInv, MemoryInv, TypeOK, JobsSound, JobRecords
<1>2. /\ After(j).at \in {"idle", "finish", "refill"} /\ After(j).group = None
      /\ After(j).at = "finish" => After(j).key = job[j].key /\ After(j).kind = job[j].kind
      /\ After(j).at = "refill" => After(j).kind = "prompt" /\ job[j].kind = "prompt"
      /\ After(j).at = "idle" => After(j) = Idle
      /\ \A k \in Keys : After(j).items[k] # None => After(j).items[k] = job[j].items[k]
  BY <1>1 DEF After, Idle, NoItems, JobRecords
<1>3. \A q \in Jobs : job'[q] = IF q = j THEN After(j) ELSE job[q]
  BY <1>1
<1>4. \A n \in Ids : row'[n] = IF n = i THEN r ELSE row[n]
  BY DEF CalmInv, MemoryInv, TypeOK
<1>5. StagesSound'
  BY <1>2, <1>3 DEF CalmInv, StagesSound
<1>6. ASSUME ~overlapped' PROVE Calm'
  <2>1. Calm
    BY <1>6 DEF CalmInv, Saved
  <2>2. /\ retained' = IF job[j].group # None THEN retained \cup {job[j].key} ELSE retained
        /\ told' = told
    BY <1>6, Observed DEF Saved
  <2>3. ActiveOf(job[j].key) \subseteq {i}
    BY <2>1 DEF Calm, ReadsHold, At
  <2>4. \A n \in Ids : Active(n) /\ row[n].key = job[j].key => n = i
    BY <2>3 DEF ActiveOf
  <2>5. Active(i) => row[i].key = job[j].key
    BY DEF CalmInv, MemoryInv, HeldForKey, At
  <2>6. \A k : k # job[j].key => ActiveOf(k)' = ActiveOf(k)
    BY <1>1, <1>4, <2>5 DEF ActiveOf, Active
  <2>7. \A q \in Jobs : q # j /\ job[q].at \in {"write", "create"} => job[q].key # job[j].key
    <3> SUFFICES ASSUME NEW q \in Jobs, job[q].at \in {"write", "create"}, job[q].key = job[j].key
                 PROVE  q = j
      OBVIOUS
    <3>1. BusyOn(q, job[j].key)
      BY DEF BusyOn, Busy
    <3> QED
      BY <2>1, <3>1, AloneOnKey DEF CalmInv, Calm
  <2>8. Apart'
    <3>1. \A q \in Jobs, k \in Keys : BusyOn(q, k)' => BusyOn(q, k)
      BY <1>1, <1>2, <1>3 DEF BusyOn, Busy
    <3> QED
      BY <2>1, <3>1 DEF Calm, Apart
  <2>9. ReadsHold'
    <3> SUFFICES ASSUME NEW q \in Jobs, q # j, job[q].at \in {"write", "create"}
                 PROVE  /\ At(q, "write") => /\ row'[job[q].old] = job[q].copy
                                             /\ ActiveOf(job[q].key)' \subseteq {job[q].old}
                        /\ At(q, "create") => ActiveOf(job[q].key)' = {}
      BY <1>2, <1>3 DEF ReadsHold, At
    <3>1. At(q, "write") => job[q].old \in Ids /\ job[q].old # i
      BY <1>6 DEF CalmInv, MemoryInv, JobsSound, Sound, At, Saved
    <3> QED
      BY <1>4, <2>1, <2>6, <2>7, <3>1 DEF Calm, ReadsHold
  <2>10. OneRow'
    BY <1>1, <1>4, <2>1, <2>4 DEF Calm, OneRow, Active
  <2>11. RowsTold' /\ StateTold'
    <3>1. <<job[j].key, job[j].content>> \in told
      BY <2>1 DEF Calm, JobsTold
    <3> QED
      BY <1>4, <2>1, <2>2, <3>1 DEF Calm, RowsTold, StateTold, Active
  <2>12. JobsTold' /\ GroupsLive'
    <3>1. GroupsLive'
      BY <1>2, <1>3, <2>1 DEF Calm, GroupsLive
    <3>2. \A k \in Keys : After(j).items[k] # None => <<k, After(j).items[k]>> \in told
      BY <1>2, <2>1 DEF Calm, JobsTold
    <3>3. JobsTold'
      BY <1>2, <1>3, <2>1, <2>2, <3>2 DEF Calm, JobsTold
    <3> QED
      BY <3>1, <3>3
  <2>13. RowsRetained'
    <3>1. r.pinned => r.group \in live
      <4>1. job[j].group \in live \cup {None}
        BY <2>1 DEF Calm, GroupsLive
      <4>2. CASE job[j].at = "create"
        BY <2>1, <4>1, <4>2 DEF Calm, HeirsRetained, At
      <4>3. CASE job[j].at = "write"
        <5>1. job[j].copy = row[i] /\ job[j].copy \in Rows /\ i \in Ids /\ Active(i)
          BY <1>1, <2>1, <4>3, NoneIsNoRow DEF Calm, ReadsHold, At, Sound, Active
        <5> QED
          BY <2>1, <4>1, <5>1 DEF Calm, RowsRetained
      <4> QED BY <4>2, <4>3
    <3>2. job[j].key \in retained' => r.pinned
      <4>1. CASE job[j].group # None
        BY <4>1
      <4>2. CASE job[j].group = None /\ job[j].at = "create"
        BY <2>1, <2>2, <4>2 DEF Calm, HeirsRetained, At
      <4>3. CASE job[j].group = None /\ job[j].at = "write"
        <5>1. job[j].copy = row[i] /\ job[j].copy \in Rows /\ Active(i)
          BY <1>1, <2>1, <4>3, NoneIsNoRow DEF Calm, ReadsHold, At, Sound, Active
        <5> QED
          BY <2>1, <2>2, <2>5, <4>3, <5>1, NoneIsNoRow DEF Calm, RowsRetained
      <4> QED BY <4>1, <4>2, <4>3
    <3>3. \A n \in Ids : n # i /\ Active(n) => row[n].key # job[j].key
      BY <2>4
    <3> QED
      BY <1>4, <2>1, <2>2, <3>1, <3>2, <3>3 DEF Calm, RowsRetained, Active
  <2>14. HeirsRetained'
    BY <1>2, <1>3, <2>1, <2>2, <2>7 DEF Calm, HeirsRetained, At
  <2>15. RetainedThere'
    <3>1. \A k : k = job[j].key => ActiveOf(k)' # {}
      BY <1>1, <1>4 DEF ActiveOf, Active
    <3>2. ASSUME NEW k \in retained, k # job[j].key
          PROVE  ActiveOf(k)' # {} \/ \E q \in Jobs : job'[q].key = k /\ At(q, "create")'
      BY <1>3, <2>1, <2>6, <3>2 DEF Calm, RetainedThere, At
    <3>3. \A k \in retained' : k = job[j].key \/ k \in retained
      BY <2>2
    <3>4. \A k \in retained' : ActiveOf(k)' # {} \/ \E q \in Jobs : job'[q].key = k /\ At(q, "create")'
      BY <3>1, <3>2, <3>3
    <3> QED
      BY <3>4 DEF RetainedThere
  <2> QED
    BY <2>8, <2>9, <2>10, <2>11, <2>12, <2>13, <2>14, <2>15 DEF Calm
<1> QED
  BY <1>5, <1>6 DEF CalmInv

LEMMA ReobserveCalm ==
    ASSUME CalmInv, NEW j \in Jobs, ReobserveFact(j)
    PROVE  CalmInv'
<1> DEFINE r == Reobserved(job[j].copy, j)
           i == job[j].old
<1>1. job[j] \in JobRecords /\ Sound(job[j]) /\ job[j].at = "write"
  BY DEF CalmInv, MemoryInv, TypeOK, JobsSound, JobRecords, ReobserveFact, At
<1>2. i \in Ids /\ job[j].copy \in Rows /\ job[j].copy.key = job[j].key /\ job[j].copy # None
  BY <1>1, NoneIsNoRow DEF Sound
<1>3. /\ r \in Rows /\ r.key = job[j].key /\ r.content = job[j].copy.content
      /\ r.pinned = (job[j].copy.pinned \/ job[j].group # None)
      /\ r.group = IF job[j].group # None THEN job[j].group ELSE job[j].copy.group
  BY <1>1, <1>2 DEF Reobserved, Rows, JobRecords
<1>4. /\ job[j].copy.content = job[j].content
      /\ row' = [row EXCEPT ![i] = r]
      /\ job' = [job EXCEPT ![j] = After(j)]
      /\ Saved(j) /\ UNCHANGED <<made, human, live, filed, upsets>>
  BY DEF ReobserveFact
<1>5. MemoryInv'
  BY ReobserveKeeps DEF CalmInv
<1>6. ASSUME ~overlapped, NEW q \in Jobs, At(q, "write"), job[q].old = i
      PROVE  q = j
  <2>1. job[q].key = job[j].key
    BY <1>1, <1>6 DEF CalmInv, MemoryInv, HoldersAgree, At
  <2>2. BusyOn(q, job[j].key)
    BY <1>6, <2>1 DEF BusyOn, Busy, At
  <2> QED
    BY <1>1, <1>6, <2>2, AloneOnKey DEF CalmInv, Calm
<1> HIDE DEF r
<1>7. /\ job[j].group # None => r.pinned /\ r.group = job[j].group
      /\ r.pinned /\ job[j].group = None =>
               job[j].copy # None /\ job[j].copy.pinned /\ r.group = job[j].copy.group
      /\ job[j].copy # None /\ job[j].copy.pinned => r.pinned
  BY <1>2, <1>3
<1> HIDE DEF i
<1> QED
  BY <1>1, <1>2, <1>3, <1>4, <1>5, <1>6, <1>7, WriteCalm DEF i

LEMMA CreateCalm ==
    ASSUME CalmInv, NEW j \in Jobs, CreateFact(j)
    PROVE  CalmInv'
<1> DEFINE r == NewRow(j)
<1>1. job[j] \in JobRecords /\ Sound(job[j]) /\ job[j].at = "create"
  BY DEF CalmInv, MemoryInv, TypeOK, JobsSound, JobRecords, CreateFact, At
<1>2. job[j].copy \in Rows \/ job[j].copy = None
  BY <1>1 DEF JobRecords
<1>3. /\ r \in Rows /\ r.key = job[j].key /\ r.content = job[j].content
      /\ r.pinned = (job[j].group # None \/ (job[j].copy # None /\ job[j].copy.pinned))
      /\ r.group = IF job[j].group = None /\ job[j].copy # None THEN job[j].copy.group ELSE job[j].group
  <2>1. job[j].key \in Keys /\ job[j].content \in Contents /\ job[j].group \in Groups \cup {None}
    BY <1>1 DEF Sound, JobRecords
  <2> QED
    BY <1>2, <2>1 DEF NewRow, Rows
<1>4. made' = made + 1 /\ made' \in Ids
  BY Limits DEF CalmInv, MemoryInv, TypeOK, CreateFact, Ids
<1>5. row[made'] = None
  BY <1>4, Limits DEF CalmInv, MemoryInv, TypeOK, RowsFresh
<1>6. \A q \in Jobs : ~(At(q, "write") /\ job[q].old = made')
  BY <1>4, Limits DEF CalmInv, MemoryInv, TypeOK, JobsSound, Sound, At
<1>7. /\ row' = [row EXCEPT ![made'] = r]
      /\ job' = [job EXCEPT ![j] = After(j)]
      /\ Saved(j) /\ UNCHANGED <<human, live, filed, upsets>>
  BY DEF CreateFact
<1>8. MemoryInv'
  BY CreateKeeps DEF CalmInv
<1> HIDE DEF r
<1>9. /\ job[j].group # None => r.pinned /\ r.group = job[j].group
      /\ r.pinned /\ job[j].group = None =>
               job[j].copy # None /\ job[j].copy.pinned /\ r.group = job[j].copy.group
      /\ job[j].copy # None /\ job[j].copy.pinned => r.pinned
  BY <1>3
<1>10. PICK i \in Ids : i = made'
  BY <1>4
<1>11. ~Active(i)
  BY <1>5, <1>10 DEF Active
<1> QED
  BY <1>1, <1>3, <1>6, <1>7, <1>8, <1>9, <1>10, <1>11, WriteCalm

LEMMA SupersedeCalm ==
    ASSUME CalmInv, NEW j \in Jobs, SupersedeFact(j)
    PROVE  CalmInv'
<1> DEFINE x == [job[j] EXCEPT !.at = "create"]
           i == job[j].old
<1>1. /\ job[j] \in JobRecords /\ Sound(job[j]) /\ job[j].at = "write" /\ job \in [Jobs -> JobRecords]
  BY DEF CalmInv, MemoryInv, TypeOK, JobsSound, JobRecords, SupersedeFact, At
<1>2. /\ x.at = "create" /\ x.kind = job[j].kind /\ x.key = job[j].key /\ x.content = job[j].content
      /\ x.group = job[j].group /\ x.items = job[j].items /\ x.copy = job[j].copy
  BY <1>1 DEF JobRecords
<1>3. /\ job' = [job EXCEPT ![j] = x] /\ row' = [row EXCEPT ![i] = None]
      /\ UNCHANGED <<made, human, live, filed, upsets, observers>>
  BY <1>1 DEF SupersedeFact
<1> HIDE DEF x
<1>4. \A q \in Jobs : job'[q] = IF q = j THEN x ELSE job[q]
  BY <1>1, <1>3
<1>5. \A n \in Ids : row'[n] = IF n = i THEN None ELSE row[n]
  BY <1>3 DEF CalmInv, MemoryInv, TypeOK
<1>6. MemoryInv' /\ StagesSound'
  BY <1>2, <1>4, SupersedeKeeps DEF CalmInv, StagesSound
<1>7. ASSUME ~overlapped' PROVE Calm'
  <2>1. Calm
    BY <1>3, <1>7 DEF CalmInv, observers
  <2>2. job[j].copy = row[i] /\ job[j].copy \in Rows /\ i \in Ids /\ Active(i) /\ row[i].key = job[j].key
    BY <1>1, <2>1, NoneIsNoRow DEF Calm, ReadsHold, At, Sound, Active
  <2>3. \A k : ActiveOf(k)' = ActiveOf(k) \ {i}
    BY <1>5 DEF ActiveOf, Active
  <2>4. \A k : k # job[j].key => ActiveOf(k)' = ActiveOf(k)
    BY <2>2, <2>3 DEF ActiveOf
  <2>5. \A k : k = job[j].key => ActiveOf(k)' = {}
    BY <1>1, <2>1, <2>3 DEF Calm, ReadsHold, At
  <2>6. \A q \in Jobs : q # j /\ job[q].at \in {"write", "create"} => job[q].key # job[j].key
    <3> SUFFICES ASSUME NEW q \in Jobs, job[q].at \in {"write", "create"}, job[q].key = job[j].key
                 PROVE  q = j
      OBVIOUS
    <3>1. BusyOn(q, job[j].key)
      BY DEF BusyOn, Busy
    <3> QED
      BY <1>1, <2>1, <3>1, AloneOnKey DEF CalmInv, Calm
  <2>7. Apart'
    <3>1. \A q \in Jobs, k \in Keys : BusyOn(q, k)' => BusyOn(q, k)
      BY <1>1, <1>2, <1>4 DEF BusyOn, Busy
    <3> QED
      BY <2>1, <3>1 DEF Calm, Apart
  <2>8. ReadsHold'
    <3>1. ASSUME NEW q \in Jobs, q # j, job[q].at \in {"write", "create"}
          PROVE  /\ At(q, "write") => /\ row'[job[q].old] = job[q].copy
                                      /\ ActiveOf(job[q].key)' \subseteq {job[q].old}
                 /\ At(q, "create") => ActiveOf(job[q].key)' = {}
      <4>1. At(q, "write") => /\ job[q].old \in Ids /\ row[job[q].old] = job[q].copy
                              /\ job[q].copy.key = job[q].key
        BY <2>1 DEF Calm, ReadsHold, CalmInv, MemoryInv, JobsSound, Sound, At
      <4>2. At(q, "write") => job[q].old # i
        BY <2>2, <2>6, <3>1, <4>1
      <4>3. \A k : k = job[q].key => ActiveOf(k)' = ActiveOf(k)
        BY <2>4, <2>6, <3>1
      <4>4. /\ At(q, "write") => ActiveOf(job[q].key) \subseteq {job[q].old}
            /\ At(q, "create") => ActiveOf(job[q].key) = {}
        BY <2>1 DEF Calm, ReadsHold
      <4>5. job'[q] = job[q]
        BY <1>4, <3>1
      <4> QED
        BY <1>5, <4>1, <4>2, <4>3, <4>4, <4>5
    <3> QED
      BY <1>2, <1>4, <2>5, <3>1 DEF ReadsHold, At
  <2>9. OneRow' /\ RowsTold' /\ StateTold' /\ RowsRetained'
    BY <1>3, <1>5, <2>1 DEF Calm, OneRow, RowsTold, StateTold, RowsRetained, Active, observers
  <2>10. JobsTold' /\ GroupsLive'
    BY <1>1, <1>2, <1>3, <1>4, <2>1 DEF Calm, JobsTold, GroupsLive, observers
  <2>11. HeirsRetained'
    <3>1. /\ x.copy # None /\ (x.copy.pinned => x.copy.group \in live)
          /\ x.key \in retained => x.copy.pinned
      BY <1>2, <2>1, <2>2, NoneIsNoRow DEF Calm, RowsRetained
    <3> QED
      BY <1>3, <1>4, <2>1, <3>1 DEF Calm, HeirsRetained, At, observers
  <2>12. RetainedThere'
    <3>1. ASSUME NEW k \in retained
          PROVE  ActiveOf(k)' # {} \/ \E q \in Jobs : job'[q].key = k /\ At(q, "create")'
      <4>1. CASE k = job[j].key
        BY <1>2, <1>4, <4>1 DEF At
      <4>2. CASE k # job[j].key
        BY <1>1, <1>4, <2>1, <2>4, <3>1, <4>2 DEF Calm, RetainedThere, At
      <4> QED BY <4>1, <4>2
    <3> QED
      BY <1>3, <3>1 DEF RetainedThere, observers
  <2> QED
    BY <2>7, <2>8, <2>9, <2>10, <2>11, <2>12 DEF Calm
<1> QED
  BY <1>3, <1>6, <1>7 DEF CalmInv

-----------------------------------------------------------------------------
(* The account's own edits, and the failures.                              *)

\* An edit that no job overlaps finds none at work, so only the rows matter.
LEMMA EditCalm ==
    ASSUME MemoryInv, MemoryInv', Edit, ~overlapped'
    PROVE  /\ Apart' /\ ReadsHold' /\ HeirsRetained'
           /\ \A q \in Jobs : job'[q] = job[q] /\ ~At(q, "create")
BY DEF Edit, Apart, BusyOn, Busy, ReadsHold, HeirsRetained, At

LEMMA ForgetCalm ==
    ASSUME CalmInv, NEW i \in Ids, ForgetMemory(i)
    PROVE  CalmInv'
<1>1. /\ Active(i) /\ Edit /\ row' = [row EXCEPT ![i] = None]
      /\ Observe(retained \ {row[i].key}, told, forgotten \cup {<<row[i].key, row[i].content>>})
      /\ UNCHANGED <<human, live, filed>>
  BY DEF ForgetMemory
<1>2. MemoryInv'
  BY ForgetKeeps DEF CalmInv
<1>3. StagesSound'
  BY <1>1 DEF CalmInv, StagesSound, Edit
<1>4. ASSUME ~overlapped' PROVE Calm'
  <2>1. Calm
    BY <1>1, <1>4 DEF CalmInv, Edit
  <2>2. Apart' /\ ReadsHold' /\ HeirsRetained' /\ \A q \in Jobs : job'[q] = job[q] /\ ~At(q, "create")
    BY <1>1, <1>2, <1>4, EditCalm DEF CalmInv
  <2>3. retained' = retained \ {row[i].key} /\ told' = told
    BY <1>1, <1>4, Observed
  <2>4. \A n \in Ids : row'[n] = IF n = i THEN None ELSE row[n]
    BY <1>1 DEF CalmInv, MemoryInv, TypeOK
  <2>5. OneRow' /\ RowsTold' /\ StateTold' /\ RowsRetained'
    BY <1>1, <2>1, <2>3, <2>4 DEF Calm, OneRow, RowsTold, StateTold, RowsRetained, Active
  <2>6. JobsTold' /\ GroupsLive'
    BY <1>1, <2>1, <2>2, <2>3 DEF Calm, JobsTold, GroupsLive
  <2>7. RetainedThere'
    BY <2>1, <2>2, <2>3, <2>4 DEF Calm, RetainedThere, ActiveOf, Active
  <2> QED
    BY <2>2, <2>5, <2>6, <2>7 DEF Calm
<1> QED
  BY <1>1, <1>2, <1>3, <1>4 DEF CalmInv

LEMMA SetGroupCalm ==
    ASSUME CalmInv, NEW g \in Groups \cup {None}, SetConversationGroup(g)
    PROVE  CalmInv'
<1> DEFINE joining == {row[i].key : i \in {n \in Ids : Joins(n)}}
           Taken(i) == g # None /\ Joins(i)
<1>1. /\ g \in live \cup {None} /\ Edit /\ filed' = g
      /\ row' = [i \in Ids |-> IF Taken(i) THEN [row[i] EXCEPT !.pinned = TRUE, !.group = g] ELSE row[i]]
      /\ Observe(IF g = None THEN retained ELSE retained \cup joining, told, forgotten)
      /\ UNCHANGED <<human, live>>
  BY DEF SetConversationGroup
<1>2. MemoryInv'
  BY GroupKeeps DEF CalmInv
<1>3. StagesSound'
  BY <1>1 DEF CalmInv, StagesSound, Edit
<1>4. \A i \in Ids : row[i] = None \/ row[i] \in Rows
  BY DEF CalmInv, MemoryInv, TypeOK
<1>5. \A i \in Ids : Taken(i) => row[i] \in Rows /\ row[i] # None
  BY <1>4 DEF Joins, Active
<1>6. \A i \in Ids :
        /\ Taken(i)  => /\ row'[i] # None /\ row'[i].key = row[i].key /\ row'[i].content = row[i].content
                        /\ row'[i].pinned /\ row'[i].group = g
        /\ ~Taken(i) => row'[i] = row[i]
  <2> SUFFICES ASSUME NEW i \in Ids
               PROVE  /\ Taken(i)  => /\ row'[i] \in Rows /\ row'[i].key = row[i].key
                                       /\ row'[i].content = row[i].content
                                       /\ row'[i].pinned /\ row'[i].group = g
                      /\ ~Taken(i) => row'[i] = row[i]
    BY NoneIsNoRow
  <2>1. Taken(i) => row[i] \in Rows
    BY <1>5
  <2>2. row'[i] = IF Taken(i) THEN [row[i] EXCEPT !.pinned = TRUE, !.group = g] ELSE row[i]
    BY <1>1
  <2> HIDE DEF Taken
  <2> QED
    BY <2>1, <2>2 DEF Rows
<1>7. ASSUME ~overlapped' PROVE Calm'
  <2>1. Calm
    BY <1>1, <1>7 DEF CalmInv, Edit
  <2>2. Apart' /\ ReadsHold' /\ HeirsRetained' /\ \A q \in Jobs : job'[q] = job[q] /\ ~At(q, "create")
    BY <1>1, <1>2, <1>7, EditCalm DEF CalmInv
  <2>3. retained' = (IF g = None THEN retained ELSE retained \cup joining) /\ told' = told
    BY <1>1, <1>7, Observed
  <2>4. \A i \in Ids : row'[i] # None <=> row[i] # None
    BY <1>5, <1>6
  <2>5. \A i \in Ids : row'[i].key = row[i].key /\ row'[i].content = row[i].content
    BY <1>6
  <2>6. \A k : ActiveOf(k)' = ActiveOf(k)
    BY <2>4, <2>5 DEF ActiveOf, Active
  <2>7. OneRow' /\ RowsTold' /\ StateTold'
    <3>1. OneRow'
      BY <2>1, <2>4, <2>5 DEF Calm, OneRow, Active
    <3>2. RowsTold'
      BY <2>1, <2>3, <2>4, <2>5 DEF Calm, RowsTold, Active
    <3>3. StateTold'
      BY <1>1, <2>1, <2>3 DEF Calm, StateTold
    <3> QED
      BY <3>1, <3>2, <3>3
  <2>8. RowsRetained'
    <3> SUFFICES ASSUME NEW i \in Ids, Active(i)
                 PROVE  /\ row[i].key \in retained' => row'[i].pinned
                        /\ row'[i].pinned => row'[i].group \in live
      BY <1>1, <2>4, <2>5 DEF RowsRetained, Active
    <3>1. CASE Taken(i)
      BY <1>1, <1>6, <3>1
    <3>2. CASE ~Taken(i)
      <4>1. row'[i] = row[i]
        BY <1>6, <3>2
      <4>2. ASSUME g # None, row[i].key \in joining
            PROVE  FALSE
        <5>1. PICK n \in Ids : Joins(n) /\ row[n].key = row[i].key
          BY <4>2
        <5>2. n = i
          BY <2>1, <5>1 DEF Calm, OneRow, Joins
        <5> QED
          BY <3>2, <4>2, <5>1, <5>2
      <4> HIDE DEF joining
      <4> QED
        BY <2>1, <2>3, <4>1, <4>2 DEF Calm, RowsRetained
    <3> QED BY <3>1, <3>2
  <2>9. JobsTold' /\ GroupsLive'
    BY <1>1, <2>1, <2>2, <2>3 DEF Calm, JobsTold, GroupsLive
  <2>10. RetainedThere'
    <3>1. \A k \in joining : ActiveOf(k) # {}
      BY DEF ActiveOf, Joins
    <3>2. \A k \in retained : ActiveOf(k) # {}
      BY <2>1, <2>2 DEF Calm, RetainedThere
    <3> HIDE DEF joining
    <3>3. \A k \in retained' : ActiveOf(k) # {}
      BY <2>3, <3>1, <3>2
    <3> QED
      BY <2>6, <3>3 DEF RetainedThere
  <2> QED
    BY <2>2, <2>7, <2>8, <2>9, <2>10 DEF Calm
<1> QED
  BY <1>1, <1>2, <1>3, <1>7 DEF CalmInv

LEMMA DeleteGroupCalm ==
    ASSUME CalmInv, NEW g \in Groups, DeleteConversationGroup(g)
    PROVE  CalmInv'
<1> DEFINE leaving == {row[i].key : i \in {n \in Ids : Released(n, g)}}
<1>1. /\ Edit /\ live' = live \ {g} /\ filed' = IF filed = g THEN None ELSE filed
      /\ row' = [i \in Ids |-> IF Released(i, g) THEN [row[i] EXCEPT !.pinned = FALSE, !.group = None] ELSE row[i]]
      /\ Observe(retained \ leaving, told, forgotten)
      /\ UNCHANGED human
  BY DEF DeleteConversationGroup
<1>2. MemoryInv'
  BY GroupKeeps DEF CalmInv
<1>3. StagesSound' /\ filed' \in live' \cup {None}
  BY <1>1 DEF CalmInv, StagesSound, Edit
<1>4. \A i \in Ids : Released(i, g) => row[i] \in Rows /\ row[i] # None
  BY DEF CalmInv, MemoryInv, TypeOK, Released, Active
<1>5. \A i \in Ids :
        /\ Released(i, g)  => /\ row'[i] # None /\ row'[i].key = row[i].key /\ row'[i].content = row[i].content
                              /\ ~row'[i].pinned
        /\ ~Released(i, g) => row'[i] = row[i]
  <2> SUFFICES ASSUME NEW i \in Ids
               PROVE  /\ Released(i, g)  => /\ row'[i].key = row[i].key /\ row'[i].content = row[i].content
                                             /\ ~row'[i].pinned
                      /\ ~Released(i, g) => row'[i] = row[i]
    <3>1. \A i \in Ids : Released(i, g) => row'[i] \in Rows \cup {None}
      BY <1>2 DEF MemoryInv, TypeOK
    <3>2. \A i \in Ids : Released(i, g) => row'[i] # None
      <4> SUFFICES ASSUME NEW i \in Ids, Released(i, g) PROVE row'[i] \in Rows
        BY NoneIsNoRow
      <4>1. row[i] \in Rows /\ row'[i] = [row[i] EXCEPT !.pinned = FALSE, !.group = None]
        BY <1>1, <1>4
      <4> QED
        BY <4>1 DEF Rows
    <3> QED
      BY <3>2
  <2>1. Released(i, g) => row[i] \in Rows
    BY <1>4
  <2>2. row'[i] = IF Released(i, g) THEN [row[i] EXCEPT !.pinned = FALSE, !.group = None] ELSE row[i]
    BY <1>1
  <2> QED
    BY <2>1, <2>2 DEF Rows
<1>6. ASSUME ~overlapped' PROVE Calm'
  <2>1. Calm
    BY <1>1, <1>6 DEF CalmInv, Edit
  <2>2. Apart' /\ ReadsHold' /\ HeirsRetained' /\ \A q \in Jobs : job'[q] = job[q] /\ ~At(q, "create")
    BY <1>1, <1>2, <1>6, EditCalm DEF CalmInv
  <2>3. retained' = retained \ leaving /\ told' = told
    BY <1>1, <1>6, Observed
  <2>4. \A i \in Ids : row'[i] # None <=> row[i] # None
    BY <1>4, <1>5
  <2>5. \A i \in Ids : row'[i].key = row[i].key /\ row'[i].content = row[i].content
    BY <1>5
  <2>6. \A k : ActiveOf(k)' = ActiveOf(k)
    BY <2>4, <2>5 DEF ActiveOf, Active
  <2>7. OneRow' /\ RowsTold' /\ StateTold'
    <3>1. OneRow'
      BY <2>1, <2>4, <2>5 DEF Calm, OneRow, Active
    <3>2. RowsTold'
      BY <2>1, <2>3, <2>4, <2>5 DEF Calm, RowsTold, Active
    <3>3. StateTold'
      BY <1>1, <2>1, <2>3 DEF Calm, StateTold
    <3> QED
      BY <3>1, <3>2, <3>3
  <2>8. RowsRetained'
    <3> SUFFICES ASSUME NEW i \in Ids, Active(i)
                 PROVE  /\ row[i].key \in retained' => row'[i].pinned
                        /\ row'[i].pinned => row'[i].group \in live'
      BY <2>4, <2>5 DEF RowsRetained, Active
    <3>1. CASE Released(i, g)
      BY <1>5, <2>3, <3>1
    <3>2. CASE ~Released(i, g)
      <4>1. row'[i] = row[i] /\ row[i].group # g
        BY <1>5, <3>2 DEF Released
      <4>2. /\ row[i].key \in retained => row[i].pinned
            /\ row[i].pinned => row[i].group \in live
        BY <2>1 DEF Calm, RowsRetained
      <4>3. row[i].key \in retained' => row[i].key \in retained
        BY <2>3
      <4>4. live' = live \ {g}
        BY <1>1
      <4> HIDE DEF leaving
      <4> QED
        BY <4>1, <4>2, <4>3, <4>4
    <3> QED BY <3>1, <3>2
  <2>9. JobsTold'
    BY <2>1, <2>2, <2>3 DEF Calm, JobsTold
  <2>10. GroupsLive'
    <3>1. \A q \in Jobs : job[q] = Idle
      BY <1>1, <1>6 DEF Edit, Busy, CalmInv, StagesSound
    <3> QED
      BY <2>2, <3>1 DEF GroupsLive, Idle
  <2>11. RetainedThere'
    BY <2>1, <2>2, <2>3, <2>6 DEF Calm, RetainedThere
  <2> QED
    BY <2>2, <2>7, <2>8, <2>9, <2>10, <2>11 DEF Calm
<1> QED
  BY <1>2, <1>3, <1>6 DEF CalmInv

LEMMA ResetCalm ==
    ASSUME CalmInv, ResetAgentMemories
    PROVE  CalmInv'
<1>1. /\ Edit /\ row' = [i \in Ids |-> None] /\ human' = None /\ filed' = None
      /\ Observe({}, {}, forgotten) /\ live' = live
  BY DEF ResetAgentMemories
<1>2. MemoryInv'
  BY ResetKeeps DEF CalmInv
<1>3. StagesSound'
  BY <1>1 DEF CalmInv, StagesSound, Edit
<1>4. ASSUME ~overlapped' PROVE Calm'
  <2>1. Calm
    BY <1>1, <1>4 DEF CalmInv, Edit
  <2>2. Apart' /\ ReadsHold' /\ HeirsRetained' /\ \A q \in Jobs : job'[q] = job[q] /\ ~At(q, "create")
    BY <1>1, <1>2, <1>4, EditCalm DEF CalmInv
  <2>3. retained' = {} /\ told' = {}
    BY <1>1, <1>4, Observed
  <2>4. \A i \in Ids : row'[i] = None
    BY <1>1
  <2>5. OneRow' /\ RowsTold' /\ StateTold' /\ RowsRetained' /\ RetainedThere'
    BY <1>1, <2>3, <2>4 DEF OneRow, RowsTold, StateTold, RowsRetained, RetainedThere, Active
  <2>6. GroupsLive'
    BY <1>1, <2>1, <2>2 DEF Calm, GroupsLive
  <2>7. JobsTold'
    <3>1. \A q \in Jobs : job[q] = Idle
      BY <1>1, <1>4 DEF Edit, Busy, CalmInv, StagesSound
    <3> QED
      BY <2>2, <3>1 DEF JobsTold, Idle, NoItems
  <2> QED
    BY <2>2, <2>5, <2>6, <2>7 DEF Calm
<1> QED
  BY <1>1, <1>2, <1>3, <1>4 DEF CalmInv

\* A job that ends where it is leaves the others as they are; what it tore has
\* neither a row nor a retention.
LEMMA AbandonCalm ==
    ASSUME CalmInv, NEW S \in SUBSET Jobs, Abandon(S)
    PROVE  CalmInv'
<1> DEFINE torn == {job[j].key : j \in {q \in S : At(q, "create")}}
<1>1. /\ Observe(retained \ torn, told, forgotten)
      /\ job' = [j \in Jobs |-> IF j \in S THEN Idle ELSE job[j]]
      /\ UNCHANGED <<overlapped, row, made, human, live, filed>>
  BY DEF Abandon
<1>2. Idle.at = "idle" /\ Idle.group = None /\ \A k \in Keys : Idle.items[k] = None
  BY DEF Idle, NoItems
<1>3. MemoryInv'
  BY AbandonKeeps DEF CalmInv
<1>4. \A j \in Jobs : job'[j] = Idle \/ (j \notin S /\ job'[j] = job[j])
  BY <1>1
<1>5. StagesSound'
  BY <1>2, <1>4 DEF CalmInv, StagesSound
<1>6. ASSUME ~overlapped' PROVE Calm'
  <2>1. Calm
    BY <1>1, <1>6 DEF CalmInv
  <2>2. retained' = retained \ torn /\ told' = told
    BY <1>1, <1>6, Observed
  <2>3. Apart'
    BY <1>2, <1>4, <2>1 DEF Calm, Apart, BusyOn, Busy
  <2>4. ReadsHold' /\ HeirsRetained'
    BY <1>1, <1>2, <1>4, <2>1, <2>2 DEF Calm, ReadsHold, HeirsRetained, At, ActiveOf, Active
  <2>5. JobsTold' /\ GroupsLive'
    BY <1>1, <1>2, <1>4, <2>1, <2>2 DEF Calm, JobsTold, GroupsLive
  <2>6. OneRow' /\ RowsTold' /\ StateTold' /\ RowsRetained'
    BY <1>1, <2>1, <2>2 DEF Calm, OneRow, RowsTold, StateTold, RowsRetained, Active
  <2>7. RetainedThere'
    <3> SUFFICES ASSUME NEW k \in retained'
                 PROVE  ActiveOf(k)' # {} \/ \E q \in Jobs : job'[q].key = k /\ At(q, "create")'
      BY DEF RetainedThere
    <3>1. k \in retained /\ ~\E q \in S : job[q].key = k /\ At(q, "create")
      BY <2>2
    <3>2. ActiveOf(k) # {} \/ \E q \in Jobs \ S : job[q].key = k /\ At(q, "create")
      BY <2>1, <3>1 DEF Calm, RetainedThere
    <3> QED
      BY <1>1, <3>2 DEF ActiveOf, Active, At
  <2> QED
    BY <2>3, <2>4, <2>5, <2>6, <2>7 DEF Calm
<1> QED
  BY <1>1, <1>3, <1>5, <1>6 DEF CalmInv

-----------------------------------------------------------------------------
LEMMA SamenessCalm ==
    ASSUME CalmInv, UNCHANGED vars
    PROVE  CalmInv'
<1>1. MemoryInv'
  BY SamenessKeeps DEF CalmInv
<1>2. StagesSound' /\ filed' \in live' \cup {None}
  BY DEF CalmInv, StagesSound, vars
<1>3. ASSUME Calm PROVE Calm'
  <2>1. Apart' /\ ReadsHold' /\ OneRow'
    BY <1>3 DEF vars, Calm, Apart, BusyOn, Busy, ReadsHold, OneRow, ActiveOf, Active, At
  <2>2. RowsTold' /\ StateTold' /\ JobsTold'
    BY <1>3 DEF vars, observers, Calm, RowsTold, StateTold, JobsTold, Active
  <2>3. RowsRetained' /\ HeirsRetained' /\ RetainedThere' /\ GroupsLive'
    BY <1>3 DEF vars, observers, Calm, RowsRetained, HeirsRetained, RetainedThere, GroupsLive, ActiveOf, Active, At
  <2> QED
    BY <2>1, <2>2, <2>3 DEF Calm
<1> QED
  BY <1>1, <1>2, <1>3 DEF CalmInv, vars, observers

LEMMA JobStepCalm ==
    ASSUME CalmInv, NEW j \in Jobs, JobStep(j)
    PROVE  CalmInv'
<1>1. ASSUME NEW k \in Keys, NEW c \in Contents, CallMemorySave(j, k, c) \/ PostMemory(j, k, c)
      PROVE  CalmInv'
  <2>1. RetentionFor(k) \in live \cup {None}
    BY DEF RetentionFor, CalmInv
  <2> QED
    BY <1>1, <2>1, BeginCalm DEF CallMemorySave, PostMemory
<1>2. CASE ObserveInteraction(j)
  <2>1. PICK f \in ExtractMemoryFacts : Begin(j, "observe", f[1], f[2], filed)
    BY <1>2 DEF ObserveInteraction
  <2>2. f[1] \in Keys /\ f[2] \in Contents /\ filed \in live \cup {None}
    BY DEF ExtractMemoryFacts, CalmInv
  <2> QED
    BY <2>1, <2>2, BeginCalm
<1> QED
  BY <1>1, <1>2, ReadStateCalm, FindCalm, ReobserveCalm, SupersedeCalm, CreateCalm, SaveStateCalm,
     PromptCalm, RefillCalm DEF JobStep

THEOREM StepCalm == CalmInv /\ [Next]_vars => CalmInv'
<1> SUFFICES ASSUME CalmInv, [Next]_vars PROVE CalmInv'
  OBVIOUS
<1>1. ASSUME NEW j \in Jobs, JobStep(j) PROVE CalmInv'
  BY <1>1, JobStepCalm
<1>2. ASSUME NEW i \in Ids, ForgetMemory(i) PROVE CalmInv'
  BY <1>2, ForgetCalm
<1>3. ASSUME NEW g \in Groups \cup {None}, SetConversationGroup(g) PROVE CalmInv'
  BY <1>3, SetGroupCalm
<1>4. ASSUME NEW g \in Groups, DeleteConversationGroup(g) PROVE CalmInv'
  BY <1>4, DeleteGroupCalm
<1>5. CASE ResetAgentMemories \/ Crash \/ \E j \in Jobs : JobFails(j)
  BY <1>5, ResetCalm, AbandonCalm DEF Crash, JobFails
<1>6. CASE UNCHANGED vars
  BY <1>6, SamenessCalm
<1> QED
  BY <1>1, <1>2, <1>3, <1>4, <1>5, <1>6 DEF Next

LEMMA CalmHolds == Spec => []CalmInv
BY InitCalm, StepCalm, PTL DEF Spec

-----------------------------------------------------------------------------
\* For any keys, contents, groups, jobs and edits: as long as no two saves of
\* a key overlap and no edit meets a save, a correction replaces the fact it
\* corrects, whatever fails or crashes in between.
THEOREM SpecOneFactPerKey == Spec => []OneFactPerKey
<1>1. ASSUME OneRow, NEW k \in Keys
      PROVE  Cardinality(ActiveOf(k)) <= 1
  <2>1. CASE ActiveOf(k) = {}
    BY <2>1, FS_EmptySet
  <2>2. CASE ActiveOf(k) # {}
    <3>1. PICK i \in ActiveOf(k) : TRUE
      BY <2>2
    <3>2. ActiveOf(k) = {i}
      BY <1>1, <3>1 DEF OneRow, ActiveOf
    <3>3. Cardinality({i}) = 1
      BY FS_Singleton
    <3> QED
      BY <3>2, <3>3
  <2> QED BY <2>1, <2>2
<1>2. CalmInv => OneFactPerKey
  BY <1>1 DEF CalmInv, Calm, OneFactPerKey
<1> QED
  BY <1>2, CalmHolds, PTL

\* Under the same condition: what a group retains stays pinned through
\* repetitions and corrections made elsewhere, and nothing is pinned under a
\* group that is gone.
THEOREM SpecRetentionFollowsFact == Spec => []RetentionFollowsFact
<1>1. CalmInv => RetentionFollowsFact
  BY DEF CalmInv, Calm, RetentionFollowsFact, RowsRetained
<1> QED
  BY <1>1, CalmHolds, PTL

\* Under the same condition: after a reset, neither store holds what was told
\* before it.
THEOREM SpecResetForgets == Spec => []ResetForgets
<1>1. CalmInv => ResetForgets
  BY DEF CalmInv, Calm, ResetForgets, RowsTold, StateTold
<1> QED
  BY <1>1, CalmHolds, PTL

=============================================================================
