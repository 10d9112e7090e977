-------------------------- MODULE WebSearchProofs --------------------------
(***************************************************************************)
(* Three results, for every number of searches, engines and pages:         *)
(* the page reads of this process at a host are spaced; a search pays      *)
(* for the priced engines that answered it, once each; and an answer shows *)
(* results of the engines its search wanted.                               *)
(*                                                                         *)
(* The first invariant, HostInv, says that a wait holds a slot no other    *)
(* holds, that the host's next free slot lies a delay behind all slots     *)
(* taken and requests sent, and that no wait is outrun by the clock.  The  *)
(* second, SearchInv, follows a search through its stages.  It needs what  *)
(* merging does to the engines' lists, which is proved by induction: the   *)
(* library's folds are recursive functions, and exist because their value  *)
(* at an argument depends on smaller ones.                                 *)
(***************************************************************************)
EXTENDS WebSearch, SequenceTheorems, WellFoundedInduction, TLAPS

Fetches == [at : FetchStages, delay : Nat, slot : Nat]

Spaced(a, b) == a >= b + PerHostDelay \/ b >= a + PerHostDelay

Waits(r) == fetch[r].at = "waiting"
Sent(r)  == sent[r] # None

\* With no delay configured nothing needs a slot.
Taken(a) == PerHostDelay > 0 => lastFetch # None /\ a + PerHostDelay <= lastFetch

Typed ==
    /\ clock \in Nat
    /\ lastFetch \in Nat \cup {None}
    /\ robots \in Policies \cup {None}
    /\ fetch \in [Reads -> Fetches]
    /\ sent \in [Reads -> Nat \cup {None}]

WaitsTaken == \A r \in Reads : Waits(r) => fetch[r].slot >= clock /\ Taken(fetch[r].slot)
SentsTaken == \A r \in Reads : Sent(r) => Taken(sent[r])

WaitsSpaced == \A r, t \in Reads : r # t /\ Waits(r) /\ Waits(t) => Spaced(fetch[r].slot, fetch[t].slot)
MixedSpaced == \A r, t \in Reads : r # t /\ Waits(r) /\ Sent(t)  => Spaced(fetch[r].slot, sent[t])
SentsSpaced == \A r, t \in Reads : r # t /\ Sent(r)  /\ Sent(t)  => Spaced(sent[r], sent[t])

HostInv == Typed /\ WaitsTaken /\ SentsTaken /\ WaitsSpaced /\ MixedSpaced /\ SentsSpaced

-----------------------------------------------------------------------------
(* The operators.                                                          *)

LEMMA MaxOfTwo ==
    ASSUME NEW a \in Nat, NEW b \in Nat
    PROVE  Max({a, b}) \in {a, b} /\ Max({a, b}) >= a /\ Max({a, b}) >= b
<1>1. \E x \in {a, b} : \A y \in {a, b} : x >= y
  OBVIOUS
<1>2. Max({a, b}) \in {a, b} /\ \A y \in {a, b} : Max({a, b}) >= y
  BY <1>1 DEF Max
<1> QED BY <1>2

LEMMA FetchTypes ==
    /\ NoFetch \in Fetches /\ NoFetch.at = "none"
    /\ Read \in Fetches /\ Read.at = "read"
    /\ Unread \in Fetches /\ Unread.at = "failed"
BY DEF NoFetch, Read, Unread, Fetches, FetchStages

LEMMA PolicyTypes == \A policy \in Policies : policy.delay \in Nat
BY SearchAssumption DEF Policies

LEMMA AfterType ==
    ASSUME NEW p \in PageSet, NEW policy \in Policies, NEW f \in After(p, policy)
    PROVE  f \in Fetches /\ f.at # "waiting"
<1> DEFINE host == [at |-> "host", delay |-> policy.delay, slot |-> 0]
<1>1. f \in {Unread, Read, host}
  BY DEF After
<1>2. host \in Fetches /\ host.at = "host"
  BY PolicyTypes DEF Fetches, FetchStages
<1> QED BY <1>1, <1>2, FetchTypes

-----------------------------------------------------------------------------
(* Induction, from the least element of a set of naturals.                  *)

LEMMA LessThanIsWellFounded ==
    \E R : IsWellFoundedOn(R, Nat) /\ \A x, y \in Nat : x < y => <<x, y>> \in R
<1>1. \A x, y \in Nat : x < y => <<x, y>> \in OpToRel(<, Nat)
  BY DEF OpToRel
<1> QED BY NatLessThanWellFounded, <1>1, Zenon

LEMMA LeastNatural ==
    ASSUME NEW S, S \subseteq Nat, S # {}
    PROVE  \E m \in S : \A n \in S : m <= n
<1>1. PICK R : IsWellFoundedOn(R, Nat) /\ \A x, y \in Nat : x < y => <<x, y>> \in R
  BY LessThanIsWellFounded
<1>2. IsWellFoundedOn(R, Nat)
  BY <1>1
<1>3. PICK x \in S : \A y \in S : ~ (<<y, x>> \in R)
  BY <1>2, WFMin, Zenon
<1>4. \A y \in S : ~(y < x)
  BY <1>1, <1>3
<1> QED BY <1>4

LEMMA Naturals ==
    ASSUME NEW S, 0 \in S, \A n \in Nat : n \in S => n + 1 \in S
    PROVE  Nat \subseteq S
<1> SUFFICES ASSUME Nat \ S # {} PROVE FALSE
  OBVIOUS
<1>1. PICK m \in Nat \ S : \A n \in Nat \ S : m <= n
  BY LeastNatural
<1>2. m - 1 \in Nat /\ m - 1 \in S
  BY <1>1
<1> QED BY <1>1, <1>2

LEMMA Greatest ==
    ASSUME NEW n \in Nat, NEW s \in SUBSET (0..n), s # {}
    PROVE  Max(s) \in s /\ \A y \in s : Max(s) >= y
<1> DEFINE bounds == {b \in Nat : \A y \in s : b >= y}
<1>1. n \in bounds
  OBVIOUS
<1>2. PICK m \in bounds : \A b \in bounds : m <= b
  BY <1>1, LeastNatural
<1>3. m \in s
  <2> SUFFICES ASSUME m \notin s PROVE FALSE
    OBVIOUS
  <2>1. PICK y \in s : TRUE
    OBVIOUS
  <2>2. m - 1 \in Nat
    BY <1>2, <2>1
  <2>3. \A z \in s : m - 1 >= z
    BY <1>2
  <2> QED BY <1>2, <2>2, <2>3
<1>4. \E x \in s : \A y \in s : x >= y
  BY <1>2, <1>3
<1> QED BY <1>4 DEF Max

-----------------------------------------------------------------------------
(* What Distinct and FlattenSeq make of a sequence consists of its elements. *)
(* Each is a recursive function: it exists, since its value at one argument  *)
(* depends on smaller ones, and keeps the set T by induction.                *)

Keep(kept, result, skipped, limit) ==
    IF Len(kept) >= limit \/ result \in skipped \/ result.page \in Pages(kept)
    THEN kept ELSE Append(kept, result)

Once(f, results, skipped, limit) ==
    [s \in SUBSET DOMAIN results |->
        IF s = {} THEN <<>> ELSE Keep(f[s \ {Max(s)}], results[Max(s)], skipped, limit)]

\* What is left of numbers up to k + 1 without the greatest goes up to k.
LEMMA Below ==
    ASSUME NEW k \in Nat, NEW s \in SUBSET (1..(k + 1)), NEW m \in s, \A y \in s : m >= y
    PROVE  s \ {m} \in SUBSET (1..k)
<1> SUFFICES ASSUME NEW y \in s \ {m} PROVE y \in 1..k
  OBVIOUS
<1>1. y \in 1..(k + 1) /\ m \in 1..(k + 1) /\ m >= y /\ y # m
  OBVIOUS
<1> QED BY <1>1

\* f is settled on the sets of indices up to k.
Settled(f, results, skipped, limit, k) ==
    \A s \in SUBSET (1..k) :
        s \subseteq DOMAIN results => f[s] = Once(f, results, skipped, limit)[s]

LEMMA SettledAtNone ==
    ASSUME NEW results, NEW skipped, NEW limit
    PROVE  \E f : Settled(f, results, skipped, limit, 0)
<1>1. PICK g : g = Once(<<>>, results, skipped, limit)
  OBVIOUS
<1>2. \A s \in SUBSET (1..0) : s = {}
  OBVIOUS
<1>3. \A f : {} \in SUBSET DOMAIN results => Once(f, results, skipped, limit)[{}] = <<>>
  BY DEF Once
<1>4. Settled(g, results, skipped, limit, 0)
  BY <1>1, <1>2, <1>3 DEF Settled
<1> QED BY <1>4

LEMMA SettledFurther ==
    ASSUME NEW results, NEW skipped, NEW limit, NEW k \in Nat,
           NEW f, Settled(f, results, skipped, limit, k),
           NEW g, g = Once(f, results, skipped, limit)
    PROVE  Settled(g, results, skipped, limit, k + 1)
<1> SUFFICES ASSUME NEW s \in SUBSET (1..(k + 1)), s \subseteq DOMAIN results
             PROVE  g[s] = Once(g, results, skipped, limit)[s]
  BY DEF Settled
<1>1. s \in SUBSET DOMAIN results
  OBVIOUS
<1>2. CASE s = {}
  BY <1>1, <1>2 DEF Once
<1>3. CASE s # {}
  <2>1. PICK m : m = Max(s)
    OBVIOUS
  <2>2. k + 1 \in Nat
    OBVIOUS
  <2>3. m \in s /\ \A y \in s : m >= y
    <3>1. s \in SUBSET (0..(k + 1))
      OBVIOUS
    <3> QED BY <1>3, <2>1, <2>2, <3>1, Greatest
  <2>4. s \ {m} \in SUBSET (1..k)
    BY <2>3, Below
  <2>5. g[s \ {m}] = f[s \ {m}]
    BY <2>4 DEF Settled
  <2>6. g[s] = Keep(f[s \ {m}], results[m], skipped, limit)
    BY <1>1, <1>3, <2>1 DEF Once
  <2>7. Once(g, results, skipped, limit)[s] = Keep(g[s \ {m}], results[m], skipped, limit)
    BY <1>1, <1>3, <2>1 DEF Once
  <2> QED BY <2>5, <2>6, <2>7
<1> QED BY <1>2, <1>3

LEMMA OnceFixed ==
    ASSUME NEW n \in Nat, NEW results, DOMAIN results = 1..n, NEW skipped, NEW limit
    PROVE  \E f : f = Once(f, results, skipped, limit)
<1> DEFINE P == {k \in Nat : \E f : Settled(f, results, skipped, limit, k)}
<1>1. 0 \in P
  BY SettledAtNone
<1>2. ASSUME NEW k \in Nat, k \in P PROVE k + 1 \in P
  <2>1. PICK f : Settled(f, results, skipped, limit, k)
    BY <1>2
  <2>2. PICK g : g = Once(f, results, skipped, limit)
    OBVIOUS
  <2>3. Settled(g, results, skipped, limit, k + 1)
    BY <2>1, <2>2, SettledFurther
  <2> QED BY <2>3
<1>3. PICK f : Settled(f, results, skipped, limit, n)
  <2>1. Nat \subseteq P
    <3> HIDE DEF P
    <3> QED BY <1>1, <1>2, Naturals
  <2> QED BY <2>1
<1>4. PICK g : g = Once(f, results, skipped, limit)
  OBVIOUS
<1>5. \A s \in SUBSET DOMAIN results :
          Once(f, results, skipped, limit)[s] = Once(g, results, skipped, limit)[s]
  BY <1>3, <1>4 DEF Settled, Once
<1>6. g = Once(g, results, skipped, limit)
  BY <1>4, <1>5 DEF Once
<1> QED BY <1>6

LEMMA DistinctFrom ==
    ASSUME NEW T, NEW results \in Seq(T), NEW skipped, NEW limit
    PROVE  Distinct(results, skipped, limit) \in Seq(T)
<1>1. PICK n \in Nat : DOMAIN results = 1..n
  BY LenProperties
<1> DEFINE f == CHOOSE g : g = Once(g, results, skipped, limit)
<1>2. f = Once(f, results, skipped, limit)
  BY <1>1, OnceFixed
<1>3. Distinct(results, skipped, limit) = f[DOMAIN results]
  BY DEF Distinct, FoldLeft, MapThenFoldSet, Once, Keep
<1> HIDE DEF f
<1> DEFINE P == {k \in Nat : \A s \in SUBSET (1..k) : s \subseteq DOMAIN results => f[s] \in Seq(T)}
<1>4. f[{}] \in Seq(T)
  <2>1. {} \in SUBSET DOMAIN results
    OBVIOUS
  <2>2. f[{}] = <<>>
    BY <1>2, <2>1 DEF Once
  <2> QED BY <2>2, EmptySeq
<1>5. 0 \in P
  <2>1. \A s \in SUBSET (1..0) : s = {}
    OBVIOUS
  <2> QED BY <1>4, <2>1
<1>6. ASSUME NEW k \in Nat, k \in P PROVE k + 1 \in P
  <2>1. ASSUME NEW s \in SUBSET (1..(k + 1)), s \subseteq DOMAIN results PROVE f[s] \in Seq(T)
    <3>1. CASE s = {}
      BY <1>4, <3>1
    <3>2. CASE s # {}
      <4>1. PICK m : m = Max(s)
        OBVIOUS
      <4>2. k + 1 \in Nat
        OBVIOUS
      <4>3. m \in s /\ \A y \in s : m >= y
        <5>1. s \in SUBSET (0..(k + 1))
          OBVIOUS
        <5> QED BY <3>2, <4>1, <4>2, <5>1, Greatest
      <4>4. s \ {m} \in SUBSET (1..k) /\ s \ {m} \subseteq DOMAIN results
        BY <2>1, <4>3, Below
      <4>5. f[s \ {m}] \in Seq(T)
        BY <1>6, <4>4
      <4>6. results[m] \in T
        BY <2>1, <4>3
      <4>7. f[s] = Keep(f[s \ {m}], results[m], skipped, limit)
        BY <1>2, <2>1, <3>2, <4>1 DEF Once
      <4> QED BY <4>5, <4>6, <4>7 DEF Keep
    <3> QED BY <3>1, <3>2
  <2> QED BY <2>1
<1>7. Nat \subseteq P
  <2> HIDE DEF P
  <2> QED BY <1>5, <1>6, Naturals
<1>8. f[DOMAIN results] \in Seq(T)
  BY <1>1, <1>7
<1> QED BY <1>3, <1>8

Flat(f, seqs) == [i \in 1..Len(seqs) |-> IF i = 1 THEN seqs[i] ELSE f[i - 1] \o seqs[i]]

FlatSettled(f, seqs, k) == \A i \in 1..k : i \in 1..Len(seqs) => f[i] = Flat(f, seqs)[i]

LEMMA FlatFixed ==
    ASSUME NEW seqs, Len(seqs) \in Nat
    PROVE  \E f : f = Flat(f, seqs)
<1> DEFINE P == {k \in Nat : \E f : FlatSettled(f, seqs, k)}
<1>1. 0 \in P
  BY DEF FlatSettled
<1>2. ASSUME NEW k \in Nat, k \in P PROVE k + 1 \in P
  <2>1. PICK f : FlatSettled(f, seqs, k)
    BY <1>2
  <2>2. PICK g : g = Flat(f, seqs)
    OBVIOUS
  <2>3. ASSUME NEW i \in 1..(k + 1), i \in 1..Len(seqs) PROVE g[i] = Flat(g, seqs)[i]
    <3>1. CASE i = 1
      BY <2>2, <2>3, <3>1 DEF Flat
    <3>2. CASE i # 1
      <4>1. i - 1 \in 1..k /\ i - 1 \in 1..Len(seqs)
        BY <2>3, <3>2
      <4>2. g[i - 1] = f[i - 1]
        BY <2>1, <2>2, <4>1 DEF FlatSettled
      <4> QED BY <2>2, <2>3, <3>2, <4>2 DEF Flat
    <3> QED BY <3>1, <3>2
  <2>4. FlatSettled(g, seqs, k + 1)
    BY <2>3 DEF FlatSettled
  <2> QED BY <2>4
<1>3. PICK f : FlatSettled(f, seqs, Len(seqs))
  <2>1. Nat \subseteq P
    <3> HIDE DEF P
    <3> QED BY <1>1, <1>2, Naturals
  <2> QED BY <2>1
<1>4. PICK g : g = Flat(f, seqs)
  OBVIOUS
<1>5. \A i \in 1..Len(seqs) : f[i] = g[i]
  BY <1>3, <1>4 DEF FlatSettled
<1>6. \A i \in 1..Len(seqs) : i # 1 => f[i - 1] = g[i - 1]
  BY <1>5
<1>7. \A i \in 1..Len(seqs) : Flat(f, seqs)[i] = Flat(g, seqs)[i]
  BY <1>6 DEF Flat
<1>8. g = Flat(g, seqs)
  BY <1>4, <1>7 DEF Flat
<1> QED BY <1>8

LEMMA FlattenFrom ==
    ASSUME NEW T, NEW seqs \in Seq(Seq(T))
    PROVE  FlattenSeq(seqs) \in Seq(T)
<1>1. Len(seqs) \in Nat /\ DOMAIN seqs = 1..Len(seqs) /\ \A i \in 1..Len(seqs) : seqs[i] \in Seq(T)
  BY LenProperties
<1>2. CASE Len(seqs) = 0
  BY <1>2, EmptySeq DEF FlattenSeq
<1>3. CASE Len(seqs) # 0
  <2> DEFINE f == CHOOSE g : g = Flat(g, seqs)
             P == {k \in Nat : k \in 1..Len(seqs) => f[k] \in Seq(T)}
  <2>1. f = Flat(f, seqs)
    BY <1>1, FlatFixed
  <2>2. FlattenSeq(seqs) = f[Len(seqs)]
    BY <1>3 DEF FlattenSeq, Flat
  <2> HIDE DEF f
  <2>3. 0 \in P
    OBVIOUS
  <2>4. ASSUME NEW k \in Nat, k \in P PROVE k + 1 \in P
    <3>1. ASSUME k + 1 \in 1..Len(seqs) PROVE f[k + 1] \in Seq(T)
      <4>1. seqs[k + 1] \in Seq(T)
        BY <1>1, <3>1
      <4>2. CASE k = 0
        BY <2>1, <3>1, <4>1, <4>2 DEF Flat
      <4>3. CASE k # 0
        <5>1. k \in 1..Len(seqs) /\ k + 1 # 1 /\ (k + 1) - 1 = k
          BY <1>1, <3>1, <4>3
        <5>2. f[k] \in Seq(T)
          BY <2>4, <5>1
        <5>3. f[k + 1] = f[k] \o seqs[k + 1]
          BY <2>1, <3>1, <5>1 DEF Flat
        <5> QED BY <4>1, <5>2, <5>3, ConcatProperties
      <4> QED BY <4>2, <4>3
    <3> QED BY <3>1
  <2>5. Nat \subseteq P
    <3> HIDE DEF P
    <3> QED BY <2>3, <2>4, Naturals
  <2> QED BY <1>1, <1>3, <2>2, <2>5
<1> QED BY <1>2, <1>3

-----------------------------------------------------------------------------
(* What is merged comes from the lists.                                     *)

LEMMA ColumnFrom ==
    ASSUME NEW T, NEW lists \in Seq(Seq(T)), NEW rank
    PROVE  Column(lists, rank) \in Seq(T)
<1> DEFINE column == [i \in DOMAIN lists |->
                        IF rank \in DOMAIN lists[i] THEN <<lists[i][rank]>> ELSE <<>>]
<1>1. DOMAIN lists = 1..Len(lists) /\ Len(lists) \in Nat
  BY LenProperties
<1>2. \A i \in DOMAIN lists : column[i] \in Seq(T)
  <2> SUFFICES ASSUME NEW i \in DOMAIN lists PROVE column[i] \in Seq(T)
    OBVIOUS
  <2>1. lists[i] \in Seq(T)
    BY <1>1
  <2>2. CASE rank \in DOMAIN lists[i]
    BY <2>1, <2>2
  <2>3. CASE rank \notin DOMAIN lists[i]
    BY <2>3, EmptySeq
  <2> QED BY <2>2, <2>3
<1>3. column \in Seq(Seq(T))
  <2> HIDE DEF column
  <2>1. DOMAIN column = 1..Len(lists)
    BY <1>1 DEF column
  <2>2. column = [i \in 1..Len(lists) |-> column[i]]
    BY <1>1 DEF column
  <2> QED BY <1>1, <1>2, <2>2, IsASeq
<1> QED BY <1>3, FlattenFrom DEF Column

LEMMA Bounded ==
    ASSUME NEW n \in Nat, NEW f, \A i \in 1..n : f[i] \in Nat
    PROVE  \E b \in Nat : \A i \in 1..n : f[i] <= b
<1> DEFINE P == {k \in Nat : k <= n => \E b \in Nat : \A i \in 1..k : f[i] <= b}
<1>1. 0 \in P
  OBVIOUS
<1>2. ASSUME NEW k \in Nat, k \in P PROVE k + 1 \in P
  <2> SUFFICES ASSUME k + 1 <= n PROVE \E b \in Nat : \A i \in 1..(k + 1) : f[i] <= b
    OBVIOUS
  <2>1. PICK b \in Nat : \A i \in 1..k : f[i] <= b
    BY <1>2
  <2>2. PICK c : c = IF f[k + 1] <= b THEN b ELSE f[k + 1]
    OBVIOUS
  <2>3. f[k + 1] \in Nat /\ c \in Nat /\ b <= c /\ f[k + 1] <= c
    BY <2>2
  <2>4. ASSUME NEW i \in 1..(k + 1) PROVE f[i] <= c
    <3>1. CASE i = k + 1
      BY <2>3, <3>1
    <3>2. CASE i # k + 1
      <4>1. i \in 1..k /\ f[i] \in Nat
        BY <3>2
      <4> QED BY <2>1, <2>3, <4>1
    <3> QED BY <3>1, <3>2
  <2> QED BY <2>3, <2>4
<1>3. Nat \subseteq P
  <2> HIDE DEF P
  <2> QED BY <1>1, <1>2, Naturals
<1>4. n \in P
  <2> HIDE DEF P
  <2> QED BY <1>3
<1> QED BY <1>4

LEMMA MergedFrom ==
    ASSUME NEW T, NEW lists \in Seq(Seq(T)), NEW limit
    PROVE  MergeResults(lists, limit) \in Seq(T)
<1> DEFINE lens  == [i \in DOMAIN lists |-> Len(lists[i])]
           sizes == {0} \cup {Len(lists[i]) : i \in DOMAIN lists}
<1>1. DOMAIN lists = 1..Len(lists) /\ Len(lists) \in Nat
  BY LenProperties
<1>2. \A i \in 1..Len(lists) : lens[i] = Len(lists[i]) /\ lens[i] \in Nat
  <2> SUFFICES ASSUME NEW i \in 1..Len(lists) PROVE lens[i] = Len(lists[i]) /\ lens[i] \in Nat
    OBVIOUS
  <2>1. lists[i] \in Seq(T)
    BY <1>1
  <2> QED BY <1>1, <2>1, LenProperties
<1>3. PICK b \in Nat : \A i \in 1..Len(lists) : lens[i] <= b
  <2> HIDE DEF lens
  <2> QED BY <1>1, <1>2, Bounded
<1>4. sizes \in SUBSET (0..b) /\ sizes # {}
  <2> HIDE DEF lens
  <2>1. \A i \in DOMAIN lists : Len(lists[i]) \in 0..b
    BY <1>1, <1>2, <1>3
  <2> QED BY <2>1
<1>5. PICK ranks \in Nat : ranks = Max(sizes)
  <2> HIDE DEF sizes
  <2>1. Max(sizes) \in sizes
    BY <1>4, Greatest
  <2>2. Max(sizes) \in 0..b
    BY <1>4, <2>1
  <2> QED BY <2>2
<1> DEFINE columns == [r \in 1..ranks |-> Column(lists, r)]
<1>6. columns \in Seq(Seq(T))
  <2>1. \A r \in 1..ranks : Column(lists, r) \in Seq(T)
    BY ColumnFrom
  <2> QED BY <2>1, IsASeq
<1>7. FlattenSeq(columns) \in Seq(T)
  BY <1>6, FlattenFrom
<1>8. MergeResults(lists, limit) = Distinct(FlattenSeq(columns), {}, limit)
  BY <1>5 DEF MergeResults
<1> QED BY <1>7, <1>8, DistinctFrom

-----------------------------------------------------------------------------
(* Steps that take no slot and send nothing.                               *)

\* A read that does not come to wait leaves what the invariant relates alone.
LEMMA NoSlotTaken ==
    ASSUME HostInv,
           fetch' \in [Reads -> Fetches],
           \A r \in Reads : fetch'[r].at = "waiting" => fetch'[r] = fetch[r],
           robots' \in Policies \cup {None},
           UNCHANGED <<clock, lastFetch, sent>>
    PROVE  HostInv'
<1> USE DEF HostInv, Typed, Waits, Sent, Taken
<1>1. Typed'
  OBVIOUS
<1>2. WaitsTaken' /\ SentsTaken'
  BY DEF WaitsTaken, SentsTaken
<1>3. WaitsSpaced' /\ MixedSpaced' /\ SentsSpaced'
  BY DEF WaitsSpaced, MixedSpaced, SentsSpaced, Spaced
<1> QED BY <1>1, <1>2, <1>3

LEMMA LookupRobotsInv ==
    ASSUME HostInv, NEW s \in Searches, NEW p \in PageSet, LookupRobots(s, p)
    PROVE  HostInv'
<1>1. \E f \in Fetches : f.at # "waiting" /\ fetch' = [fetch EXCEPT ![<<s, p>>] = f]
  <2>1. CASE robots = None
    BY <2>1 DEF LookupRobots, FetchStep, NoFetch, Fetches, FetchStages
  <2>2. CASE robots # None
    BY <2>2, AfterType DEF LookupRobots, FetchStep, HostInv, Typed
  <2> QED BY <2>1, <2>2
<1>2. UNCHANGED clock
  BY DEF LookupRobots, FetchStep
<1>3. UNCHANGED <<robots, lastFetch, sent>>
  BY DEF LookupRobots
<1> QED BY <1>1, <1>2, <1>3, NoSlotTaken DEF HostInv, Typed, Reads

LEMMA FetchRobotsInv ==
    ASSUME HostInv, NEW s \in Searches, NEW p \in PageSet, FetchRobots(s, p)
    PROVE  HostInv'
<1>1. PICK policy \in Policies : \E f \in After(p, policy) :
        robots' = policy /\ fetch' = [fetch EXCEPT ![<<s, p>>] = f] /\ UNCHANGED clock
  BY DEF FetchRobots, FetchStep
<1>2. \E f \in Fetches : f.at # "waiting" /\ fetch' = [fetch EXCEPT ![<<s, p>>] = f]
  BY <1>1, AfterType
<1>3. UNCHANGED <<lastFetch, sent>>
  BY DEF FetchRobots
<1> QED BY <1>1, <1>2, <1>3, NoSlotTaken DEF HostInv, Typed, Reads

LEMMA CancelWaitInv ==
    ASSUME HostInv, NEW s \in Searches, NEW p \in PageSet, CancelWait(s, p)
    PROVE  HostInv'
BY FetchTypes, NoSlotTaken DEF CancelWait, FetchStep, HostInv, Typed, Reads

LEMMA MergeInv ==
    ASSUME HostInv, NEW s \in Searches, Merge(s)
    PROVE  HostInv'
<1> DEFINE chosen(r) == config.crawl /\ r[1] = s
                        /\ r[2] \in Candidates(s, MergeResults([i \in DOMAIN search[s].outcome |->
                             IF i \in Succeeded(s) THEN search[s].outcome[i].list ELSE <<>>], Limit))
<1>1. fetch' = [r \in Reads |-> IF chosen(r) THEN [fetch[r] EXCEPT !.at = "robots"] ELSE fetch[r]]
  BY DEF Merge
<1>2. UNCHANGED <<clock, robots, lastFetch, sent>>
  BY DEF Merge, observers
<1> HIDE DEF chosen
<1>3. \A r \in Reads : [fetch[r] EXCEPT !.at = "robots"] \in Fetches
  BY DEF HostInv, Typed, Fetches, FetchStages
<1>4. \A r \in Reads : [fetch[r] EXCEPT !.at = "robots"].at = "robots"
  BY DEF HostInv, Typed, Fetches
<1>5. fetch' \in [Reads -> Fetches]
  BY <1>1, <1>3 DEF HostInv, Typed
<1>6. \A r \in Reads : fetch'[r].at = "waiting" => fetch'[r] = fetch[r]
  BY <1>1, <1>4 DEF HostInv, Typed
<1> QED BY <1>2, <1>5, <1>6, NoSlotTaken DEF HostInv, Typed

LEMMA StoreAnswerInv ==
    ASSUME HostInv, NEW s \in Searches, StoreAnswer(s)
    PROVE  HostInv'
<1>1. fetch' = [r \in Reads |-> IF r[1] = s THEN NoFetch ELSE fetch[r]]
  BY DEF StoreAnswer
<1>2. UNCHANGED <<clock, robots, lastFetch, sent>>
  BY DEF StoreAnswer, observers
<1> QED BY <1>1, <1>2, FetchTypes, NoSlotTaken DEF HostInv, Typed

-----------------------------------------------------------------------------
(* Steps that take a slot, send, or move the clock.                        *)

LEMMA WaitForHostInv ==
    ASSUME HostInv, NEW s \in Searches, NEW p \in PageSet, WaitForHost(s, p)
    PROVE  HostInv'
<1> DEFINE delay == Max({PerHostDelay, fetch[<<s, p>>].delay})
           free  == IF lastFetch = None THEN clock ELSE Max({clock, lastFetch})
           waiting(slot) == [fetch[<<s, p>>] EXCEPT !.at = "waiting", !.slot = slot]
<1>1. <<s, p>> \in Reads /\ fetch[<<s, p>>] \in Fetches
  BY DEF HostInv, Typed, Reads
<1>2. /\ delay \in Nat
      /\ delay >= PerHostDelay
      /\ PerHostDelay \in Nat
  BY <1>1, MaxOfTwo, SearchAssumption DEF Fetches
<1>3. PICK slot \in Nat :
        /\ fetch' = [fetch EXCEPT ![<<s, p>>] = waiting(slot)]
        /\ slot >= clock
        /\ lastFetch' \in Nat \cup {None}
        /\ PerHostDelay > 0 => /\ lastFetch' = slot + delay
                               /\ lastFetch # None => slot >= lastFetch
  <2>1. clock \in Nat /\ lastFetch \in Nat \cup {None}
    BY DEF HostInv, Typed
  <2>2. free \in Nat /\ free >= clock /\ (lastFetch # None => free >= lastFetch)
    BY <2>1, MaxOfTwo
  <2>3. CASE delay = 0
    <3>1. fetch' = [fetch EXCEPT ![<<s, p>>] = waiting(clock)] /\ lastFetch' = lastFetch
      BY <2>3 DEF WaitForHost, FetchStep
    <3> HIDE DEF delay, free, waiting
    <3>2. ~(PerHostDelay > 0)
      BY <2>3, <1>2
    <3>3. clock >= clock
      BY <2>1
    <3> QED BY <2>1, <3>1, <3>2, <3>3
  <2>4. CASE delay # 0
    <3>1. fetch' = [fetch EXCEPT ![<<s, p>>] = waiting(free)] /\ lastFetch' = free + delay
      BY <2>4 DEF WaitForHost, FetchStep
    <3> HIDE DEF free, delay
    <3>2. lastFetch' \in Nat
      BY <2>2, <3>1, <1>2
    <3> QED BY <2>2, <3>1, <3>2
  <2> QED BY <2>3, <2>4
<1>4. UNCHANGED <<clock, robots, sent>>
  BY DEF WaitForHost, FetchStep
<1>5. /\ fetch' \in [Reads -> Fetches]
      /\ \A r \in Reads : r # <<s, p>> => fetch'[r] = fetch[r]
      /\ fetch'[<<s, p>>].slot = slot
  <2>1. waiting(slot) \in Fetches /\ waiting(slot).slot = slot
    BY <1>1 DEF Fetches, FetchStages
  <2> HIDE DEF waiting
  <2> QED BY <1>1, <1>3, <2>1 DEF HostInv, Typed
<1> HIDE DEF delay, free, waiting
<1>6. \A a \in Nat : Taken(a) => Taken(a)' /\ Spaced(slot, a) /\ Spaced(a, slot)
  <2> SUFFICES ASSUME NEW a \in Nat, Taken(a)
               PROVE  Taken(a)' /\ Spaced(slot, a) /\ Spaced(a, slot)
    OBVIOUS
  <2>1. CASE PerHostDelay = 0
    BY <2>1, <1>3 DEF Taken, Spaced
  <2>2. CASE PerHostDelay > 0
    <3>1. lastFetch \in Nat /\ a + PerHostDelay <= lastFetch /\ slot >= lastFetch
      BY <2>2, <1>3 DEF Taken, HostInv, Typed
    <3>2. slot >= a + PerHostDelay /\ lastFetch' >= a + PerHostDelay
      BY <2>2, <3>1, <1>2, <1>3
    <3>3. lastFetch' # None
      BY <2>2, <1>2, <1>3, SearchAssumption
    <3> QED BY <3>2, <3>3 DEF Taken, Spaced
  <2> QED BY <1>2, <2>1, <2>2
<1>7. Taken(slot)'
  <2>1. PerHostDelay > 0 => lastFetch' # None
    BY <1>2, <1>3, SearchAssumption
  <2> QED BY <1>2, <1>3, <2>1 DEF Taken
<1>8. Typed'
  BY <1>3, <1>4, <1>5 DEF HostInv, Typed
<1>9. WaitsTaken' /\ SentsTaken'
  <2>1. \A r \in Reads : fetch[r].slot \in Nat
    BY DEF HostInv, Typed, Fetches
  <2>2. ASSUME NEW r \in Reads, Waits(r)' PROVE (fetch[r].slot >= clock /\ Taken(fetch[r].slot))'
    <3>1. CASE r = <<s, p>>
      BY <3>1, <1>3, <1>4, <1>5, <1>7 DEF Taken
    <3>2. CASE r # <<s, p>>
      BY <3>2, <2>1, <2>2, <1>4, <1>5, <1>6 DEF HostInv, WaitsTaken, Waits, Taken
    <3> QED BY <3>1, <3>2
  <2>3. ASSUME NEW r \in Reads, Sent(r)' PROVE Taken(sent[r])'
    BY <2>3, <1>4, <1>6 DEF HostInv, Typed, SentsTaken, Sent, Taken
  <2> QED BY <2>2, <2>3 DEF WaitsTaken, SentsTaken
<1>10. WaitsSpaced' /\ MixedSpaced' /\ SentsSpaced'
  BY <1>4, <1>5, <1>6 DEF HostInv, Typed, Fetches, WaitsTaken, SentsTaken, WaitsSpaced, MixedSpaced,
     SentsSpaced, Waits, Sent, Spaced
<1> QED BY <1>8, <1>9, <1>10 DEF HostInv

\* A request is sent in its slot, not later: that is where timers being on
\* time is needed.
LEMMA DirectReadInv ==
    ASSUME HostInv, NEW s \in Searches, NEW p \in PageSet, DirectRead(s, p)
    PROVE  HostInv'
<1>1. <<s, p>> \in Reads /\ fetch[<<s, p>>] \in Fetches
  BY DEF HostInv, Typed, Reads
<1>2. Waits(<<s, p>>) /\ fetch[<<s, p>>].slot = clock
  <2>1. fetch[<<s, p>>].at = "waiting" /\ fetch[<<s, p>>].slot <= clock
    BY DEF DirectRead, FetchAt
  <2>2. fetch[<<s, p>>].slot >= clock /\ fetch[<<s, p>>].slot \in Nat /\ clock \in Nat
    BY <1>1, <2>1 DEF HostInv, WaitsTaken, Waits, Typed, Fetches
  <2> QED BY <2>1, <2>2 DEF Waits
<1>3. PICK f \in {Read, Unread} : fetch' = [fetch EXCEPT ![<<s, p>>] = f]
  BY DEF DirectRead, FetchStep
<1>4. sent' = [sent EXCEPT ![<<s, p>>] = clock] /\ UNCHANGED <<clock, robots, lastFetch>>
  BY DEF DirectRead, FetchStep
<1>5. /\ fetch' \in [Reads -> Fetches]
      /\ \A r \in Reads : fetch'[r].at = "waiting" => r # <<s, p>> /\ fetch'[r] = fetch[r]
  BY <1>1, <1>3, FetchTypes DEF HostInv, Typed
<1>6. /\ sent' \in [Reads -> Nat \cup {None}]
      /\ sent'[<<s, p>>] = fetch[<<s, p>>].slot
      /\ \A r \in Reads : r # <<s, p>> => sent'[r] = sent[r]
  BY <1>1, <1>2, <1>4 DEF HostInv, Typed
<1>7. Typed'
  BY <1>4, <1>5, <1>6 DEF HostInv, Typed
<1>8. WaitsTaken' /\ SentsTaken'
  BY <1>1, <1>2, <1>4, <1>5, <1>6 DEF HostInv, WaitsTaken, SentsTaken, Waits, Sent, Taken
<1>9. WaitsSpaced' /\ MixedSpaced' /\ SentsSpaced'
  BY <1>1, <1>2, <1>5, <1>6 DEF HostInv, WaitsSpaced, MixedSpaced, SentsSpaced, Waits, Sent, Spaced
<1> QED BY <1>7, <1>8, <1>9 DEF HostInv

LEMMA TickInv ==
    ASSUME HostInv, Tick
    PROVE  HostInv'
<1>1. /\ clock' = clock + 1
      /\ UNCHANGED <<robots, lastFetch, fetch, sent>>
      /\ \A r \in Reads : Waits(r) => fetch[r].slot > clock
  BY DEF Tick, observers, HostInv, Typed, Waits
<1>2. Typed'
  BY <1>1 DEF HostInv, Typed
<1>3. WaitsTaken'
  <2> SUFFICES ASSUME NEW r \in Reads, Waits(r)'
               PROVE  fetch'[r].slot >= clock' /\ Taken(fetch[r].slot)'
    BY <1>1 DEF WaitsTaken
  <2>1. Waits(r) /\ fetch[r].slot \in Nat /\ clock \in Nat
    BY <1>1 DEF Waits, HostInv, Typed, Fetches
  <2>2. fetch'[r].slot >= clock'
    BY <1>1, <2>1
  <2> QED BY <1>1, <2>1, <2>2 DEF HostInv, WaitsTaken, Taken
<1>4. SentsTaken' /\ WaitsSpaced' /\ MixedSpaced' /\ SentsSpaced'
  BY <1>1 DEF HostInv, SentsTaken, WaitsSpaced, MixedSpaced, SentsSpaced, Waits, Sent, Taken, Spaced
<1> QED BY <1>2, <1>3, <1>4 DEF HostInv

LEMMA RestartInv ==
    ASSUME HostInv, Restart
    PROVE  HostInv'
<1>1. /\ fetch' = [r \in Reads |-> NoFetch]
      /\ sent' = [r \in Reads |-> None]
      /\ robots' = None /\ lastFetch' = None
      /\ UNCHANGED clock
  BY DEF Restart, HostInv, Typed
<1>2. Typed'
  BY <1>1, FetchTypes DEF HostInv, Typed
<1> QED BY <1>1, <1>2, FetchTypes
    DEF HostInv, WaitsTaken, SentsTaken, WaitsSpaced, MixedSpaced, SentsSpaced, Waits, Sent

-----------------------------------------------------------------------------
(* The requests to a host are spaced.                                      *)

LEMMA HostInit == Init => HostInv
<1> SUFFICES ASSUME Init PROVE HostInv
  OBVIOUS
<1>1. /\ fetch = [r \in Reads |-> NoFetch]
      /\ sent = [r \in Reads |-> None]
      /\ robots = None /\ lastFetch = None /\ clock = 0
  BY DEF Init, Reads
<1> QED BY <1>1, FetchTypes
    DEF HostInv, Typed, WaitsTaken, SentsTaken, WaitsSpaced, MixedSpaced, SentsSpaced, Waits, Sent

LEMMA HostStep == HostInv /\ [Next]_vars => HostInv'
<1> SUFFICES ASSUME HostInv, [Next]_vars PROVE HostInv'
  OBVIOUS
<1> DEFINE unmoved == UNCHANGED <<clock, robots, lastFetch, fetch, sent>>
<1>1. CASE unmoved
  BY <1>1 DEF HostInv, Typed, WaitsTaken, SentsTaken, WaitsSpaced, MixedSpaced, SentsSpaced,
              Waits, Sent, Taken, Spaced
<1>2. ASSUME NEW e \in Engines \cup {None}, SetWebSearchPreference(e) PROVE unmoved
  BY <1>2 DEF SetWebSearchPreference, observers
<1>3. ASSUME NEW s \in Searches, SearchNext(s) PROVE HostInv'
  <2>1. ASSUME NEW q \in Queries, SearchWeb(s, q) PROVE unmoved
    BY <2>1 DEF SearchWeb, observers
  <2>2. CASE Get(s)
    BY <2>2, <1>1 DEF Get, observers
  <2>3. ASSUME NEW i \in DOMAIN search[s].wanted, EngineAnswers(s, i) PROVE unmoved
    BY <2>3 DEF EngineAnswers
  <2>4. CASE SearchIndex(s)
    BY <2>4, <1>1 DEF SearchIndex, observers
  <2>5. CASE ChargeEngine(s)
    BY <2>5, <1>1 DEF ChargeEngine
  <2>6. CASE Deliver(s)
    BY <2>6, <1>1 DEF Deliver, observers
  <2> QED BY <1>1, <1>3, <2>1, <2>2, <2>3, <2>4, <2>5, <2>6, MergeInv, StoreAnswerInv DEF SearchNext
<1>4. ASSUME NEW s \in Searches, NEW p \in PageSet, FetchNext(s, p) PROVE HostInv'
  BY <1>4, LookupRobotsInv, FetchRobotsInv, WaitForHostInv, DirectReadInv, CancelWaitInv DEF FetchNext
<1>5. CASE UNCHANGED vars
  BY <1>5, <1>1 DEF vars, observers
<1> QED BY <1>1, <1>2, <1>3, <1>4, <1>5, TickInv, RestartInv DEF Next

\* The pages this process itself reads of a host are asked for at least the
\* configured delay apart, for any number of searches and pages and whatever
\* robots.txt says (WaitForHost's reservations; robots.txt itself is not a page).
THEOREM SpecPageReadsSpaced == Spec => []PageReadsSpaced
<1>1. HostInv => PageReadsSpaced
  BY DEF HostInv, Typed, SentsSpaced, PageReadsSpaced, Sent, Spaced, Reads
<1> QED BY <1>1, HostInit, HostStep, PTL DEF Spec
-----------------------------------------------------------------------------
(* The charges of a search, and whose results it shows.  A search passes    *)
(* through its stages with the engines still to charge and those charged    *)
(* making up the priced engines that answered; what it merges, caches and   *)
(* shows comes from the engines it wanted, which are part of the cache key. *)

By(engines) == [page : PageSet, by : ToSet(engines)]

Good(x) == {i \in DOMAIN x.wanted : x.outcome[i].asked /\ x.outcome[i].ok}

Fields == {"at", "query", "wanted", "outcome", "texts", "results", "charges", "fallback"}

Formed(x) ==
    /\ DOMAIN x = Fields
    /\ x.at \in SearchStages
    /\ x.wanted \in Seq(Engines)
    /\ x.at = "query" => DOMAIN x.outcome = DOMAIN x.wanted

\* x is a search, paid the engines it was charged for, from those that answered.
Charged(x, paid, from) ==
    /\ paid \in Seq(Engines)
    /\ from \subseteq Engines
    /\ IsInjective(paid)
    /\ ToSet(paid) \subseteq from \cap Priced
    /\ x.at \in {"idle", "lookup"} => paid = <<>> /\ from = {} /\ x.charges = {}
    /\ x.at = "query" => paid = <<>> /\ from = {x.wanted[i] : i \in Good(x)} /\ x.charges = {}
    /\ x.at = "crawl" => paid = <<>> /\ from \subseteq ToSet(x.wanted) /\ x.charges = from \cap Priced
    /\ x.at = "charge" => /\ ToSet(paid) \cup x.charges = from \cap Priced
                          /\ ToSet(paid) \cap x.charges = {}
                          /\ x.charges \subseteq ToSet(x.wanted)
    /\ x.at = "done" => from \cap Priced \subseteq ToSet(paid)

Shown(x) ==
    /\ x.at = "query" => \A i \in DOMAIN x.wanted : x.outcome[i].list \in Seq(By(x.wanted))
    /\ x.at = "crawl" => x.results \in Seq(By(x.wanted))
    /\ x.at \in {"charge", "done"} => x.fallback \/ x.results \in Seq(By(x.wanted))

Proper(x, paid, from) == Formed(x) /\ Charged(x, paid, from) /\ Shown(x)

Answer(key, entry) == entry.fallback \/ entry.results \in Seq(By(key[2]))

Configured == config \in Configs
Cached     == \A key \in DOMAIN cache : Answer(key, cache[key])
Shaped     == /\ search   = [s \in Searches |-> search[s]]
              /\ ledger   = [s \in Searches |-> ledger[s]]
              /\ answered = [s \in Searches |-> answered[s]]
Searched   == \A s \in Searches : Proper(search[s], ledger[s], answered[s])

SearchInv == Configured /\ Cached /\ Shaped /\ Searched

LEMMA LostIsProper ==
    ASSUME NEW x, NEW paid, NEW from, Charged(x, paid, from)
    PROVE  Proper(Lost, paid, from)
<1>1. DOMAIN Lost = Fields /\ Lost.at = "failed" /\ Lost.wanted = <<>>
  BY DEF Lost, NoSearch, Fields
<1> QED BY <1>1, EmptySeq DEF Proper, Formed, Charged, Shown, SearchStages

\* A step of one search that is charged nothing and that no engine answers.
LEMMA Moved ==
    ASSUME SearchInv, NEW s \in Searches, NEW x, Proper(x, ledger[s], answered[s]),
           search' = [search EXCEPT ![s] = x], UNCHANGED <<ledger, answered>>,
           Configured', Cached'
    PROVE  SearchInv'
<1>1. Shaped'
  BY DEF SearchInv, Shaped
<1>2. ASSUME NEW t \in Searches PROVE Proper(search'[t], ledger'[t], answered'[t])
  BY DEF SearchInv, Shaped, Searched
<1> QED BY <1>1, <1>2 DEF SearchInv, Searched

LEMMA SearchWebKeeps ==
    ASSUME SearchInv, NEW s \in Searches, NEW q \in Queries, SearchWeb(s, q)
    PROVE  SearchInv'
<1>1. Configured' /\ Cached' /\ UNCHANGED <<ledger, answered>>
  BY DEF SearchInv, SearchWeb, Configured, Cached, observers
<1>2. Proper(search[s], ledger[s], answered[s]) /\ search[s].at = "idle"
  BY DEF SearchInv, Searched, SearchWeb, At
<1>3. CASE search' = [search EXCEPT ![s] = Lost]
  BY <1>1, <1>2, <1>3, LostIsProper, Moved DEF Proper
<1>4. CASE search' = [search EXCEPT ![s].at = "lookup", ![s].query = q,
                                    ![s].wanted = EnginesFor(preference)]
  <2> DEFINE x == [search[s] EXCEPT !.at = "lookup", !.query = q, !.wanted = EnginesFor(preference)]
  <2>1. search' = [search EXCEPT ![s] = x]
    BY <1>4
  <2>2. EnginesFor(preference) \in Seq(Engines)
    <3>1. config.order \in Seq(Engines)
      BY SearchAssumption DEF SearchInv, Configured
    <3>2. \A e \in ToSet(config.order) : <<e>> \in Seq(Engines)
      BY <3>1 DEF ToSet
    <3> QED BY <3>1, <3>2 DEF EnginesFor
  <2>3. x.at = "lookup" /\ x.wanted = EnginesFor(preference) /\ x.charges = search[s].charges
        /\ Formed(x)
    BY <1>2, <2>2 DEF Proper, Formed, Fields, SearchStages
  <2>4. Charged(x, ledger[s], answered[s]) /\ Shown(x)
    <3> HIDE DEF x
    <3> QED BY <1>2, <2>3 DEF Proper, Charged, Shown
  <2> HIDE DEF x
  <2> QED BY <1>1, <2>1, <2>3, <2>4, Moved DEF Proper
<1> QED BY <1>3, <1>4 DEF SearchWeb

LEMMA GetKeeps ==
    ASSUME SearchInv, NEW s \in Searches, Get(s)
    PROVE  SearchInv'
<1>1. Configured' /\ UNCHANGED <<ledger, answered>>
  BY DEF SearchInv, Get, Configured, observers
<1>2. Proper(search[s], ledger[s], answered[s]) /\ search[s].at = "lookup"
  BY DEF SearchInv, Searched, Get, At
<1>3. CASE /\ CacheKey(s) \in DOMAIN cache
           /\ Hit(s)
           /\ UNCHANGED cache
  <2> DEFINE entry == cache[CacheKey(s)]
             x == [search[s] EXCEPT !.at = "charge", !.results = entry.results,
                                    !.charges = {}, !.fallback = entry.fallback]
  <2>1. search' = [search EXCEPT ![s] = x]
    BY <1>3 DEF Hit
  <2>2. Answer(CacheKey(s), entry)
    BY <1>3 DEF SearchInv, Cached
  <2>3. entry.fallback \/ entry.results \in Seq(By(search[s].wanted))
    BY <2>2 DEF Answer, CacheKey
  <2> HIDE DEF entry
  <2>4. x.at = "charge" /\ x.wanted = search[s].wanted /\ x.charges = {}
        /\ x.results = entry.results /\ x.fallback = entry.fallback /\ Formed(x)
    BY <1>2 DEF Proper, Formed, Fields, SearchStages
  <2> HIDE DEF x
  <2>5. Charged(x, ledger[s], answered[s])
    BY <1>2, <2>4, EmptySeq DEF Proper, Charged
  <2>6. Shown(x)
    BY <2>3, <2>4 DEF Shown
  <2>7. Cached'
    BY <1>3 DEF SearchInv, Cached
  <2> QED BY <1>1, <2>1, <2>4, <2>5, <2>6, <2>7, Moved DEF Proper
<1>4. CASE /\ cache' = Without(CacheKey(s))
           /\ search' = [search EXCEPT ![s].at = "query",
                                       ![s].outcome = [i \in DOMAIN search[s].wanted |-> Unasked]]
  <2> DEFINE x == [search[s] EXCEPT !.at = "query",
                                    !.outcome = [i \in DOMAIN search[s].wanted |-> Unasked]]
  <2>1. search' = [search EXCEPT ![s] = x]
    BY <1>4
  <2>2. Cached'
    BY <1>4 DEF SearchInv, Cached, Without
  <2>3. x.at = "query" /\ x.wanted = search[s].wanted /\ x.charges = search[s].charges
        /\ x.outcome = [i \in DOMAIN x.wanted |-> Unasked] /\ Formed(x)
    BY <1>2 DEF Proper, Formed, Fields, SearchStages
  <2> HIDE DEF x
  <2>4. Good(x) = {}
    BY <2>3 DEF Good, Unasked
  <2>5. Charged(x, ledger[s], answered[s])
    BY <1>2, <2>3, <2>4 DEF Proper, Charged
  <2>6. Shown(x)
    <3>1. \A i \in DOMAIN x.wanted : x.outcome[i].list = <<>>
      BY <2>3 DEF Unasked
    <3> QED BY <2>3, <3>1, EmptySeq DEF Shown
  <2> QED BY <1>1, <2>1, <2>2, <2>3, <2>5, <2>6, Moved DEF Proper
<1> QED BY <1>3, <1>4 DEF Get

LEMMA RowsFrom ==
    ASSUME NEW rows \in Replies, NEW skipped, NEW e,
           NEW list, list = Distinct(rows, skipped, Limit)
    PROVE  Results(list, e) \in Seq([page : PageSet, by : {e}])
<1>1. rows \in Seq(ToSet(rows)) /\ Pages(rows) \subseteq PageSet
  BY SearchAssumption
<1>2. list \in Seq(ToSet(rows))
  BY <1>1, DistinctFrom
<1>3. \A row \in ToSet(rows) : row.page \in PageSet
  BY <1>1 DEF ToSet, Pages
<1>4. \A i \in 1..Len(list) : list[i].page \in PageSet
  BY <1>2, <1>3, LenProperties
<1>5. Results(list, e) = [i \in 1..Len(list) |-> [page |-> list[i].page, by |-> e]]
  BY <1>2, LenProperties DEF Results
<1>6. Len(list) \in Nat
  BY <1>2, LenProperties
<1> QED BY <1>4, <1>5, <1>6

LEMMA Wider ==
    ASSUME NEW S, NEW T, S \subseteq T, NEW q \in Seq(S)
    PROVE  q \in Seq(T)
<1>1. Len(q) \in Nat /\ q = [i \in 1..Len(q) |-> q[i]] /\ \A i \in 1..Len(q) : q[i] \in S
  BY LenProperties
<1> QED BY <1>1

\* An engine's outcome has the results of that engine, whatever it replied.
LEMMA OutcomeFrom ==
    ASSUME NEW s \in Searches, NEW e, NEW o \in Outcomes(s, e)
    PROVE  o.ok \in BOOLEAN /\ Results(o.list, e) \in Seq([page : PageSet, by : {e}])
<1>1. CASE o = Failed
  <2>1. o.list = <<>> /\ o.ok = FALSE
    BY <1>1 DEF Failed
  <2>2. Results(<<>>, e) = <<>>
    BY DEF Results
  <2> QED BY <2>1, <2>2, EmptySeq
<1>2. ASSUME NEW rows \in Replies, NEW skipped, o = Collect(rows, skipped, Limit), o # Failed
      PROVE  o.ok \in BOOLEAN /\ Results(o.list, e) \in Seq([page : PageSet, by : {e}])
  <2>1. o.ok = TRUE /\ o.list = Distinct(rows, skipped, Limit)
    BY <1>2 DEF Collect
  <2> QED BY <2>1, RowsFrom
<1>3. ASSUME o # Failed
      PROVE  \E rows \in Replies : \E skipped : o = Collect(rows, skipped, Limit)
  BY <1>3 DEF Outcomes, RestrictAndCollect
<1> QED BY <1>1, <1>2, <1>3

LEMMA EngineAnswersKeeps ==
    ASSUME SearchInv, NEW s \in Searches, NEW i \in DOMAIN search[s].wanted, EngineAnswers(s, i)
    PROVE  SearchInv'
<1> DEFINE e == search[s].wanted[i]
           w == search[s].wanted
<1>1. Configured' /\ Cached' /\ UNCHANGED ledger
  BY DEF SearchInv, EngineAnswers, Configured, Cached
<1>2. Proper(search[s], ledger[s], answered[s]) /\ search[s].at = "query" /\ i \notin Good(search[s])
  BY DEF SearchInv, Searched, EngineAnswers, At, Asked, Good
<1>3. PICK o \in Outcomes(s, e) :
        /\ search' = [search EXCEPT
             ![s].outcome[i] = [asked |-> TRUE, ok |-> o.ok, list |-> Results(o.list, e)],
             ![s].texts = IF e \in Reading THEN @ \cup o.texts ELSE @]
        /\ answered' = IF o.ok THEN [answered EXCEPT ![s] = @ \cup {e}] ELSE answered
  BY DEF EngineAnswers
<1>4. o.ok \in BOOLEAN /\ Results(o.list, e) \in Seq([page : PageSet, by : {e}])
  BY <1>3, OutcomeFrom
<1>5. w \in Seq(Engines) /\ DOMAIN search[s].outcome = DOMAIN w /\ e \in ToSet(w) /\ e \in Engines
  BY <1>2 DEF Proper, Formed, ToSet
<1>6. [page : PageSet, by : {e}] \subseteq By(w)
  BY <1>5 DEF By
<1>7. Results(o.list, e) \in Seq(By(w))
  <2> HIDE DEF e, w
  <2> QED BY <1>4, <1>6, Wider
<1> DEFINE out == [asked |-> TRUE, ok |-> o.ok, list |-> Results(o.list, e)]
           x == [search[s] EXCEPT !.outcome = [search[s].outcome EXCEPT ![i] = out],
                                  !.texts = IF e \in Reading THEN @ \cup o.texts ELSE @]
           from == IF o.ok THEN answered[s] \cup {e} ELSE answered[s]
<1>8. search' = [search EXCEPT ![s] = x]
  BY <1>2, <1>3 DEF Proper, Formed, Fields
<1>9. answered' = [answered EXCEPT ![s] = from]
  BY <1>3 DEF SearchInv, Shaped
<1>10. /\ Formed(x) /\ x.at = "query" /\ x.wanted = w /\ x.charges = search[s].charges
       /\ x.outcome = [search[s].outcome EXCEPT ![i] = out]
  BY <1>2 DEF Proper, Formed, Fields
<1>11. Charged(x, ledger[s], from)
  <2>1. Good(x) = IF o.ok THEN Good(search[s]) \cup {i} ELSE Good(search[s])
    <3> HIDE DEF x, e
    <3> QED BY <1>2, <1>4, <1>5, <1>10 DEF Good
  <2>2. from = {w[j] : j \in Good(x)}
    <3> HIDE DEF x
    <3> QED BY <1>2, <2>1 DEF Proper, Charged
  <2> HIDE DEF x
  <2> QED BY <1>2, <1>5, <1>10, <2>2 DEF Proper, Charged
<1>12. Shown(x)
  <2>1. \A j \in DOMAIN w : x.outcome[j].list \in Seq(By(w))
    <3> HIDE DEF x
    <3>1. out.list = Results(o.list, e)
      OBVIOUS
    <3> HIDE DEF out, e
    <3> QED BY <1>2, <1>5, <1>7, <1>10, <3>1 DEF Proper, Shown
  <2> HIDE DEF x
  <2> QED BY <1>10, <2>1 DEF Shown
<1> HIDE DEF x, from
<1>13. Shaped'
  BY <1>1, <1>8, <1>9 DEF SearchInv, Shaped
<1>14. ASSUME NEW t \in Searches PROVE Proper(search'[t], ledger'[t], answered'[t])
  BY <1>1, <1>8, <1>9, <1>10, <1>11, <1>12 DEF SearchInv, Shaped, Searched, Proper
<1> QED BY <1>1, <1>13, <1>14 DEF SearchInv, Searched

LEMMA MergeKeeps ==
    ASSUME SearchInv, NEW s \in Searches, Merge(s)
    PROVE  SearchInv'
<1> DEFINE w == search[s].wanted
           lists == [i \in DOMAIN search[s].outcome |->
                       IF i \in Succeeded(s) THEN search[s].outcome[i].list ELSE <<>>]
           results == MergeResults(lists, Limit)
           x == [search[s] EXCEPT !.at = "crawl", !.outcome = <<>>, !.results = results,
                                  !.charges = ChargesFor(s)]
<1>1. Configured' /\ Cached' /\ UNCHANGED <<ledger, answered>>
  BY DEF SearchInv, Merge, Configured, Cached, observers
<1>2. Proper(search[s], ledger[s], answered[s]) /\ search[s].at = "query"
  BY DEF SearchInv, Searched, Merge, At
<1>3. search' = [search EXCEPT ![s] = x]
  BY DEF Merge
<1>4. w \in Seq(Engines) /\ DOMAIN search[s].outcome = 1..Len(w) /\ DOMAIN w = 1..Len(w)
      /\ Len(w) \in Nat
  BY <1>2, LenProperties DEF Proper, Formed
<1>5. results \in Seq(By(w))
  <2>1. \A i \in DOMAIN w : search[s].outcome[i].list \in Seq(By(w))
    BY <1>2 DEF Proper, Shown
  <2>2. lists \in Seq(Seq(By(w)))
    <3> HIDE DEF w
    <3> QED BY <1>4, <2>1, EmptySeq
  <2> HIDE DEF lists
  <2> QED BY <2>2, MergedFrom
<1>6. ChargesFor(s) = {w[i] : i \in Good(search[s])} \cap Priced
  BY DEF ChargesFor, Succeeded, Asked, Good
<1> HIDE DEF results
<1>7. /\ Formed(x) /\ x.at = "crawl" /\ x.wanted = w /\ x.charges = ChargesFor(s)
      /\ x.results = results
  BY <1>2 DEF Proper, Formed, Fields, SearchStages
<1> HIDE DEF x
<1>8. {w[i] : i \in Good(search[s])} \subseteq ToSet(w)
  BY DEF Good, ToSet
<1>9. Charged(x, ledger[s], answered[s])
  <2> HIDE DEF w
  <2>1. ledger[s] = <<>> /\ answered[s] = {w[i] : i \in Good(search[s])}
        /\ Charged(search[s], ledger[s], answered[s])
    BY <1>2 DEF Proper, Charged, w
  <2> QED BY <1>6, <1>7, <1>8, <2>1 DEF Charged
<1>10. Shown(x)
  BY <1>5, <1>7 DEF Shown
<1> QED BY <1>1, <1>3, <1>7, <1>9, <1>10, Moved DEF Proper

\* What CacheSet adds answers its key; what it keeps did before.
LEMMA CacheSetKeeps ==
    ASSUME Cached, NEW s \in Searches, NEW results, NEW charges, NEW fallback \in BOOLEAN,
           fallback \/ results \in Seq(By(search[s].wanted)),
           CacheSet(s, results, charges, fallback)
    PROVE  Cached'
<1> DEFINE entry == [stored |-> clock, results |-> results, charges |-> charges, fallback |-> fallback]
<1>1. cache' = [k \in Kept \cup {CacheKey(s)} |-> IF k = CacheKey(s) THEN entry ELSE cache[k]]
  BY DEF CacheSet
<1>2. Kept \subseteq DOMAIN cache
  BY DEF Kept
<1>3. Answer(CacheKey(s), entry)
  BY DEF Answer, CacheKey
<1> HIDE DEF entry
<1>4. ASSUME NEW k \in DOMAIN cache' PROVE Answer(k, cache'[k])
  BY <1>1, <1>2, <1>3 DEF Cached
<1> QED BY <1>4 DEF Cached

LEMMA SearchIndexKeeps ==
    ASSUME SearchInv, NEW s \in Searches, SearchIndex(s)
    PROVE  SearchInv'
<1>1. Configured' /\ UNCHANGED <<ledger, answered>>
  BY DEF SearchInv, SearchIndex, Configured, observers
<1>2. Proper(search[s], ledger[s], answered[s]) /\ search[s].at = "query" /\ Succeeded(s) = {}
  BY DEF SearchInv, Searched, SearchIndex, At
<1>3. CASE search' = [search EXCEPT ![s] = Lost] /\ UNCHANGED cache
  BY <1>1, <1>2, <1>3, LostIsProper, Moved DEF Proper, SearchInv, Cached
<1>4. ASSUME NEW results,
             search' = [search EXCEPT ![s].at = "charge", ![s].outcome = <<>>,
                                      ![s].results = results, ![s].fallback = TRUE],
             CacheSet(s, results, {}, TRUE)
      PROVE  SearchInv'
  <2> DEFINE x == [search[s] EXCEPT !.at = "charge", !.outcome = <<>>,
                                    !.results = results, !.fallback = TRUE]
  <2>1. search' = [search EXCEPT ![s] = x]
    BY <1>4
  <2>2. Cached'
    BY <1>4, CacheSetKeeps DEF SearchInv
  <2>3. Good(search[s]) = {}
    BY <1>2 DEF Succeeded, Asked, Good
  <2>4. /\ Formed(x) /\ x.at = "charge" /\ x.fallback = TRUE
        /\ x.charges = search[s].charges
    BY <1>2 DEF Proper, Formed, Fields, SearchStages
  <2> HIDE DEF x
  <2>5. ledger[s] = <<>> /\ answered[s] = {} /\ search[s].charges = {}
        /\ Charged(search[s], ledger[s], answered[s])
    BY <1>2, <2>3 DEF Proper, Charged
  <2>6. Charged(x, ledger[s], answered[s])
    BY <2>4, <2>5 DEF Charged, ToSet
  <2>7. Shown(x)
    BY <2>4 DEF Shown
  <2> QED BY <1>1, <2>1, <2>2, <2>4, <2>6, <2>7, Moved DEF Proper
<1> QED BY <1>3, <1>4 DEF SearchIndex

LEMMA StoreAnswerKeeps ==
    ASSUME SearchInv, NEW s \in Searches, StoreAnswer(s)
    PROVE  SearchInv'
<1> DEFINE x == [search[s] EXCEPT !.at = "charge", !.texts = {}]
<1>1. Configured' /\ UNCHANGED <<ledger, answered>>
  BY DEF SearchInv, StoreAnswer, Configured, observers
<1>2. Proper(search[s], ledger[s], answered[s]) /\ search[s].at = "crawl"
  BY DEF SearchInv, Searched, StoreAnswer, At
<1>3. search' = [search EXCEPT ![s] = x] /\ CacheSet(s, search[s].results, search[s].charges, FALSE)
  BY DEF StoreAnswer
<1>4. search[s].results \in Seq(By(search[s].wanted))
  BY <1>2 DEF Proper, Shown
<1>5. Cached'
  BY <1>3, <1>4, CacheSetKeeps DEF SearchInv
<1>6. /\ Formed(x) /\ x.at = "charge" /\ x.results = search[s].results
      /\ x.charges = search[s].charges /\ x.wanted = search[s].wanted
  BY <1>2 DEF Proper, Formed, Fields, SearchStages
<1> HIDE DEF x
<1>7. ledger[s] = <<>> /\ answered[s] \subseteq ToSet(search[s].wanted)
      /\ search[s].charges = answered[s] \cap Priced
      /\ Charged(search[s], ledger[s], answered[s])
  BY <1>2 DEF Proper, Charged
<1>8. Charged(x, ledger[s], answered[s])
  BY <1>6, <1>7 DEF Charged, ToSet
<1>9. Shown(x)
  BY <1>4, <1>6 DEF Shown
<1> QED BY <1>1, <1>3, <1>5, <1>6, <1>8, <1>9, Moved DEF Proper

LEMMA NextChargeIsDue ==
    ASSUME NEW s \in Searches, search[s].wanted \in Seq(Engines), search[s].charges # {},
           search[s].charges \subseteq ToSet(search[s].wanted)
    PROVE  NextCharge(s) \in search[s].charges
<1> DEFINE w   == search[s].wanted
           due == {i \in DOMAIN w : w[i] \in search[s].charges}
<1>1. due # {}
  BY DEF ToSet
<1>2. due \subseteq Nat
  BY LenProperties
<1>3. \E m \in due : \A n \in due : m <= n
  <2> HIDE DEF due
  <2> QED BY <1>1, <1>2, LeastNatural
<1>4. Min(due) \in due
  <2> HIDE DEF due
  <2> QED BY <1>3 DEF Min
<1>5. NextCharge(s) = w[Min(due)]
  BY DEF NextCharge
<1> QED BY <1>4, <1>5

LEMMA ChargeEngineKeeps ==
    ASSUME SearchInv, NEW s \in Searches, ChargeEngine(s)
    PROVE  SearchInv'
<1>1. Configured' /\ Cached' /\ UNCHANGED answered
  BY DEF SearchInv, ChargeEngine, Configured, Cached
<1>2. /\ Formed(search[s]) /\ Charged(search[s], ledger[s], answered[s]) /\ Shown(search[s])
      /\ search[s].at = "charge" /\ search[s].charges # {}
  BY DEF SearchInv, Searched, ChargeEngine, At, Proper
<1>3. PICK e : e = NextCharge(s)
  OBVIOUS
<1>4. e \in search[s].charges
  BY <1>2, <1>3, NextChargeIsDue DEF Formed, Charged
<1>5. PICK row \in BOOLEAN, ok \in BOOLEAN :
        /\ ok => row
        /\ ledger' = IF row THEN [ledger EXCEPT ![s] = Append(@, e)] ELSE ledger
        /\ search' = IF ok THEN [search EXCEPT ![s].charges = @ \ {e}]
                     ELSE [search EXCEPT ![s] = Lost]
  BY <1>3 DEF ChargeEngine
<1> DEFINE more == Append(ledger[s], e)
           paid == IF row THEN more ELSE ledger[s]
           x    == [search[s] EXCEPT !.charges = @ \ {e}]
<1>6. more \in Seq(Engines) /\ ToSet(more) = ToSet(ledger[s]) \cup {e} /\ IsInjective(more)
  <2>1. ledger[s] \in Seq(Engines) /\ e \in Engines /\ IsInjective(ledger[s]) /\ e \notin ToSet(ledger[s])
    BY <1>2, <1>4 DEF Charged
  <2>2. Len(ledger[s]) \in Nat /\ DOMAIN ledger[s] = 1..Len(ledger[s])
    BY <2>1, LenProperties
  <2>3. /\ more \in Seq(Engines) /\ DOMAIN more = 1..(Len(ledger[s]) + 1)
        /\ more[Len(ledger[s]) + 1] = e
        /\ \A i \in 1..Len(ledger[s]) : more[i] = ledger[s][i]
    BY <2>1, <2>2, AppendProperties
  <2>4. \A i \in DOMAIN more : i \in DOMAIN ledger[s] \/ i = Len(ledger[s]) + 1
    BY <2>2, <2>3
  <2> HIDE DEF more
  <2>5. ToSet(more) = ToSet(ledger[s]) \cup {e}
    BY <2>2, <2>3, <2>4 DEF ToSet
  <2>6. \A a, b \in DOMAIN more : more[a] = more[b] => a = b
    BY <2>1, <2>2, <2>3, <2>4 DEF ToSet, IsInjective
  <2> QED BY <2>3, <2>5, <2>6 DEF IsInjective
<1> HIDE DEF more
<1>7. ledger' = [ledger EXCEPT ![s] = paid]
  BY <1>5 DEF more, SearchInv, Shaped
<1>8. CASE ok
  <2>1. search' = [search EXCEPT ![s] = x] /\ paid = more
    BY <1>5, <1>8
  <2>2. /\ Formed(x) /\ x.at = "charge" /\ x.charges = search[s].charges \ {e}
        /\ x.wanted = search[s].wanted /\ x.results = search[s].results
        /\ x.fallback = search[s].fallback
    BY <1>2 DEF Formed, Fields
  <2> HIDE DEF x, paid
  <2>3. Charged(x, paid, answered[s])
    BY <1>2, <1>4, <1>6, <2>1, <2>2 DEF Charged
  <2>4. Shown(x)
    BY <1>2, <2>2 DEF Shown
  <2> QED BY <1>1, <1>7, <2>1, <2>2, <2>3, <2>4 DEF SearchInv, Shaped, Searched, Proper
<1>9. CASE ~ok
  <2>1. search' = [search EXCEPT ![s] = Lost]
    BY <1>5, <1>9
  <2>2. /\ paid \in Seq(Engines) /\ IsInjective(paid)
        /\ ToSet(paid) \subseteq answered[s] \cap Priced /\ answered[s] \subseteq Engines
    BY <1>2, <1>4, <1>6 DEF Charged
  <2> HIDE DEF paid
  <2>3. Formed(Lost) /\ Shown(Lost) /\ Lost.at = "failed"
    BY <1>2, LostIsProper DEF Proper, Lost, NoSearch
  <2>4. Charged(Lost, paid, answered[s])
    BY <2>2, <2>3 DEF Charged
  <2> QED BY <1>1, <1>7, <2>1, <2>3, <2>4 DEF SearchInv, Shaped, Searched, Proper
<1> QED BY <1>8, <1>9

LEMMA DeliverKeeps ==
    ASSUME SearchInv, NEW s \in Searches, Deliver(s)
    PROVE  SearchInv'
<1> DEFINE x == [search[s] EXCEPT !.at = "done"]
<1>1. Configured' /\ Cached' /\ UNCHANGED <<ledger, answered>>
  BY DEF SearchInv, Deliver, Configured, Cached, observers
<1>2. Proper(search[s], ledger[s], answered[s]) /\ search[s].at = "charge" /\ search[s].charges = {}
  BY DEF SearchInv, Searched, Deliver, At
<1>3. search' = [search EXCEPT ![s] = x]
  BY DEF Deliver
<1>4. /\ Formed(x) /\ x.at = "done" /\ x.results = search[s].results
      /\ x.wanted = search[s].wanted /\ x.fallback = search[s].fallback
  BY <1>2 DEF Proper, Formed, Fields, SearchStages
<1> HIDE DEF x
<1>5. Charged(x, ledger[s], answered[s]) /\ Shown(x)
  BY <1>2, <1>4 DEF Proper, Charged, Shown
<1> QED BY <1>1, <1>3, <1>4, <1>5, Moved DEF Proper

LEMMA RestartKeeps ==
    ASSUME SearchInv, Restart
    PROVE  SearchInv'
<1>1. config' \in Configs /\ cache' = <<>> /\ UNCHANGED <<ledger, answered>>
      /\ search' = [s \in Searches |-> IF At(s, "idle") \/ At(s, "done") THEN search[s] ELSE Lost]
  BY DEF Restart
<1>2. Configured' /\ Cached' /\ Shaped'
  BY <1>1 DEF Configured, Cached, Shaped, SearchInv
<1>3. ASSUME NEW s \in Searches PROVE Proper(search'[s], ledger'[s], answered'[s])
  BY <1>1, LostIsProper DEF SearchInv, Searched, Proper
<1> QED BY <1>2, <1>3 DEF SearchInv, Searched

-----------------------------------------------------------------------------
(* The theorems.                                                            *)

LEMMA SearchInit == Init => SearchInv
<1> SUFFICES ASSUME Init PROVE SearchInv
  OBVIOUS
<1>1. /\ config \in Configs /\ cache = <<>>
      /\ search = [s \in Searches |-> NoSearch]
      /\ ledger = [s \in Searches |-> <<>>]
      /\ answered = [s \in Searches |-> {}]
  BY DEF Init
<1>2. DOMAIN NoSearch = Fields /\ NoSearch.at = "idle" /\ NoSearch.wanted = <<>> /\ NoSearch.charges = {}
  BY DEF NoSearch, Fields
<1>3. IsInjective(<<>>) /\ ToSet(<<>>) = {}
  BY DEF IsInjective, ToSet
<1>4. Formed(NoSearch) /\ Charged(NoSearch, <<>>, {}) /\ Shown(NoSearch)
  BY <1>2, <1>3, EmptySeq DEF Formed, Charged, Shown, SearchStages
<1> QED BY <1>1, <1>4 DEF SearchInv, Configured, Cached, Shaped, Searched, Proper

LEMMA SearchStep == SearchInv /\ [Next]_vars => SearchInv'
<1> SUFFICES ASSUME SearchInv, [Next]_vars PROVE SearchInv'
  OBVIOUS
<1> DEFINE unmoved == UNCHANGED <<config, cache, search, ledger, answered>>
<1>1. CASE unmoved
  BY <1>1 DEF SearchInv, Configured, Cached, Shaped, Searched
<1>2. ASSUME NEW e \in Engines \cup {None}, SetWebSearchPreference(e) PROVE unmoved
  BY <1>2 DEF SetWebSearchPreference, observers
<1>3. ASSUME NEW s \in Searches, SearchNext(s) PROVE SearchInv'
  BY <1>3, SearchWebKeeps, GetKeeps, EngineAnswersKeeps, MergeKeeps, SearchIndexKeeps,
     StoreAnswerKeeps, ChargeEngineKeeps, DeliverKeeps DEF SearchNext
<1>4. ASSUME NEW s \in Searches, NEW p \in PageSet, FetchNext(s, p) PROVE unmoved
  BY <1>4 DEF FetchNext, LookupRobots, FetchRobots, WaitForHost, DirectRead, CancelWait, FetchStep
<1>5. ASSUME Tick PROVE unmoved
  BY <1>5 DEF Tick, observers
<1>6. ASSUME UNCHANGED vars PROVE unmoved
  BY <1>6 DEF vars, observers
<1> QED BY <1>1, <1>2, <1>3, <1>4, <1>5, <1>6, RestartKeeps DEF Next

\* A search is charged for the priced engines that answered it live, each
\* once and nothing else, and in full when it delivers.
THEOREM SearchesAreChargedForAnswers == Spec => []ChargedWhatAnswered
<1>1. SearchInv => ChargedWhatAnswered
  BY DEF SearchInv, Searched, Proper, Charged, ChargedWhatAnswered, At
<1> QED BY <1>1, SearchInit, SearchStep, PTL DEF Spec

\* An answer shows results of the engines the search wanted, also when it
\* comes from the cache all accounts share; only the index may stand in.
THEOREM AnswersComeFromTheirEngines == Spec => []AnsweredByItsEngines
<1>1. SearchInv => AnsweredByItsEngines
  <2> SUFFICES ASSUME SearchInv, NEW s \in Searches, At(s, "done"), ~search[s].fallback,
                      NEW i \in DOMAIN search[s].results
               PROVE  search[s].results[i].by \in ToSet(search[s].wanted)
    BY DEF AnsweredByItsEngines
  <2>1. search[s].results \in Seq(By(search[s].wanted))
    BY DEF SearchInv, Searched, Proper, Shown, At
  <2>2. search[s].results[i] \in By(search[s].wanted)
    BY <2>1
  <2> QED BY <2>2 DEF By
<1> QED BY <1>1, SearchInit, SearchStep, PTL DEF Spec
=============================================================================
