-------------------------- MODULE SearchAlgorithms --------------------------
(***************************************************************************)
(* The pure steps of a web search: judging an engine's rows, merging the   *)
(* ranked lists, reading a robots.txt, and fitting a query's operators     *)
(* under the cap of the DeepSeek engine.  MCWebSearch compares each with a *)
(* definition that says what it is for.                                    *)
(*                                                                         *)
(* A page is its normalized URL; a path is a sequence of segments; of a    *)
(* text only its length counts.                                            *)
(***************************************************************************)
EXTENDS Integers, SequencesExt, FiniteSetsExt

-----------------------------------------------------------------------------
(* Merging: rank by rank, in each rank engine by engine.                    *)

Pages(results) == {results[i].page : i \in DOMAIN results}

Column(lists, rank) ==
    FlattenSeq([i \in DOMAIN lists |->
        IF rank \in DOMAIN lists[i] THEN <<lists[i][rank]>> ELSE <<>>])

\* The first of each page, up to the limit, but for the results skipped.
Distinct(results, skipped, limit) ==
    LET keep(kept, result) ==
            IF Len(kept) >= limit \/ result \in skipped \/ result.page \in Pages(kept)
            THEN kept ELSE Append(kept, result)
    IN FoldLeft(keep, <<>>, results)

MergeResults(lists, limit) ==
    LET ranks == Max({0} \cup {Len(lists[i]) : i \in DOMAIN lists})
    IN Distinct(FlattenSeq([r \in 1..ranks |-> Column(lists, r)]), {}, limit)

-----------------------------------------------------------------------------
(* What is made of an engine's rows: each is a page, whether it is usable   *)
(* (a title and a URL), mentions a term of the query, lies inside the       *)
(* domains asked for, and came with the page's text.                        *)

Failed == [ok |-> FALSE, list |-> <<>>, texts |-> {}]

\* At least half of the rows must mention the query, or the engine answered
\* another question.
Relevant(rows) == 2 * Cardinality({i \in DOMAIN rows : rows[i].relevant}) >= Len(rows)

Unusable(rows) == {r \in ToSet(rows) : ~r.usable}
Outside(rows)  == {r \in ToSet(rows) : ~r.inside}

Collect(rows, skipped, limit) ==
    LET kept == Distinct(rows, skipped, limit)
    IN IF Relevant(kept)
       THEN [ok    |-> TRUE,
             list  |-> kept,
             texts |-> {kept[i].page : i \in {j \in DOMAIN kept : kept[j].text}}]
       ELSE Failed

\* DeepSeek checks the domains of a query again, and fails when no row is left.
RestrictAndCollect(rows, limit) ==
    IF rows # <<>> /\ Outside(rows) = ToSet(rows) THEN Failed
    ELSE Collect(rows, Unusable(rows) \cup Outside(rows), limit)

-----------------------------------------------------------------------------
(* robots.txt: a line names an agent, rules a path out or in, or asks for a *)
(* delay.  The rules kept are those of the groups that apply.               *)

NoPolicy == [rules |-> <<>>, delay |-> 0]

ParseRobots(lines) ==
    LET start == [policy |-> NoPolicy, applies |-> FALSE, ruled |-> FALSE]
        read(g, line) ==
            CASE line.key = "user-agent" ->
                    [g EXCEPT !.applies = line.us \/ (@ /\ ~g.ruled), !.ruled = FALSE]
              [] line.key \in {"allow", "disallow"} /\ g.applies ->
                    IF line.key = "disallow" /\ line.path = <<>>
                    THEN [g EXCEPT !.ruled = TRUE]
                    ELSE [g EXCEPT !.ruled = TRUE,
                                   !.policy.rules = Append(@, [allow |-> line.key = "allow",
                                                               path  |-> line.path])]
              [] line.key = "crawl-delay" /\ g.applies ->
                    [g EXCEPT !.policy.delay = line.delay]
              [] OTHER -> g
    IN FoldLeft(read, start, lines).policy

\* The longest rule that matches decides, the first of the longest; an empty
\* rule decides nothing.
Allowed(rules, path) ==
    LET matching == {i \in DOMAIN rules : rules[i].path # <<>> /\ IsPrefix(rules[i].path, path)}
        better(i, j) == \/ Len(rules[i].path) > Len(rules[j].path)
                        \/ Len(rules[i].path) = Len(rules[j].path) /\ i < j
    IN \A i \in matching : rules[i].allow \/ \E j \in matching : better(j, i)

-----------------------------------------------------------------------------
(* The DeepSeek engine's query: the terms and the operators that fit beside *)
(* them, of lengths terms, site, lang and after (0: none); one space each.  *)

DeepseekSearchQuery(terms, site, lang, after, cap) ==
    LET add(q, clause) ==
            IF clause = 0 \/ clause + 1 + terms > q.budget THEN q
            ELSE [budget |-> q.budget - (clause + 1), clauses |-> Append(q.clauses, clause)]
        q == FoldLeft(add, [budget |-> cap, clauses |-> <<>>], <<site, lang, after>>)
    IN [terms |-> Min({terms, q.budget}), clauses |-> q.clauses]
=============================================================================
