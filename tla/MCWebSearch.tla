---------------------------- MODULE MCWebSearch ----------------------------
(* Small instances of WebSearch for TLC, and the bounded checks of the pure  *)
(* steps in SearchAlgorithms.                                                *)
EXTENDS WebSearch, TLC

CONSTANTS api, scrape, q1, p1, p2

Servers == {[order |-> <<scrape, api>>, prefer |-> FALSE, crawl |-> TRUE],
            [order |-> <<api>>, prefer |-> TRUE, crawl |-> FALSE]}

\* An empty reply, an answer with a duplicate and an unusable row, one about
\* something else, and one from outside the domains asked for.
Row(p) == [page |-> p, usable |-> TRUE, relevant |-> TRUE, inside |-> TRUE, text |-> TRUE]
Off(p) == [Row(p) EXCEPT !.relevant = FALSE]
Out(p) == [Row(p) EXCEPT !.inside = FALSE]

Rows == {<<>>,
         <<Row(p2), Row(p2), [Row(p1) EXCEPT !.usable = FALSE], Row(p1)>>,
         <<Off(p2), Row(p1), Off(p1)>>,
         <<Out(p2), Out(p1)>>}

-----------------------------------------------------------------------------
\* A merged list has every page once, in the order of its best rank and, in
\* one rank, of the engines; it is cut at the limit.
Rank(lists, p) ==
    Min({(r - 1) * Len(lists) + i : <<r, i>> \in
            {x \in (1..3) \X DOMAIN lists : x[1] \in DOMAIN lists[x[2]] /\ lists[x[2]][x[1]].page = p}})

ASSUME MergedByRank ==
    \A lists \in [1..2 -> BoundedSeq([page : {"a", "b", "c"}], 3)], limit \in 1..3 :
        LET all    == UNION {Pages(lists[i]) : i \in DOMAIN lists}
            merged == MergeResults(lists, limit)
        IN /\ Len(merged) = Min({limit, Cardinality(all)})
           /\ \A i \in DOMAIN merged :
                Cardinality({p \in all : Rank(lists, p) < Rank(lists, merged[i].page)}) = i - 1

-----------------------------------------------------------------------------
\* The lines of a robots.txt.  A group is a run of user-agent lines and the
\* lines after it; the policy has the rules of the groups that name us.
Agents == {[key |-> "user-agent", us |-> b] : b \in BOOLEAN}
Rules  == {[key |-> "allow", path |-> <<"a">>], [key |-> "disallow", path |-> <<>>],
           [key |-> "disallow", path |-> <<"a", "b">>]}
Delays == {[key |-> "crawl-delay", delay |-> 1]}

IsAgent(line) == line.key = "user-agent"

ForUs(lines, i) ==
    \E j \in 1..(i - 1) :
        /\ IsAgent(lines[j]) /\ lines[j].us
        /\ \A k, l \in j..i : k < l /\ IsAgent(lines[l]) => IsAgent(lines[k])

RulesForUs(lines) ==
    LET ours(i) == /\ lines[i].key \in {"allow", "disallow"}
                   /\ lines[i].path # <<>>
                   /\ ForUs(lines, i)
    IN FoldLeftDomain(LAMBDA rules, i :
            IF ours(i) THEN Append(rules, [allow |-> lines[i].key = "allow", path |-> lines[i].path])
            ELSE rules, <<>>, lines)

ASSUME RulesOfOurGroups ==
    \A lines \in BoundedSeq(Agents \cup Rules, 4) : ParseRobots(lines).rules = RulesForUs(lines)

\* It does not hold with delays: a group that only asks for a delay does not
\* end at the next user-agent line, and the rules of the next group join it.
ASSUME DelayOnlyGroupGoesOn ==
    LET lines == <<[key |-> "user-agent", us |-> TRUE], [key |-> "crawl-delay", delay |-> 1],
                   [key |-> "user-agent", us |-> FALSE], [key |-> "disallow", path |-> <<"a", "b">>]>>
    IN RulesForUs(lines) = <<>> /\ ~Allowed(ParseRobots(lines).rules, <<"a", "b", "c">>)

\* Of the rules that match, a longer one decides: an allowed part of a
\* disallowed site is read, and the rest of it is not.
ASSUME LongestRuleDecides ==
    LET rules == <<[allow |-> FALSE, path |-> <<"a">>], [allow |-> TRUE, path |-> <<"a", "b">>]>>
    IN /\ Allowed(rules, <<"a", "b", "c">>) /\ Allowed(rules, <<"b">>)
       /\ ~Allowed(rules, <<"a", "c">>)

-----------------------------------------------------------------------------
\* The query never exceeds the cap, and terms that fit are never cut to make
\* room for an operator.
ASSUME QueryFits ==
    \A terms \in 1..9, site, lang, after \in 0..4 :
        LET q == DeepseekSearchQuery(terms, site, lang, after, 8)
        IN /\ FoldLeft(LAMBDA n, c : n + c + 1, q.terms, q.clauses) <= 8
           /\ q.terms = Min({terms, 8})
=============================================================================
