-------------------------- MODULE MCConversation --------------------------
(* Small instances of Conversation for TLC, and the count of tokens over     *)
(* conversations of two runs of up to two rounds.                            *)
EXTENDS Conversation, SequencesExt

CONSTANTS r1, r2, n1, n2, c1, g1, s1

\* Requests of a kind are alike.
Alike == Permutations(Runs) \cup Permutations(Notes)

-----------------------------------------------------------------------------
Usage == INSTANCE RunUsage

Report(input, output, total) == [input |-> input, output |-> output, total |-> total]

\* A round may report nothing, or leave the total to the reader.
Reports == {{}} \cup {{Report(1, 2, 0)}, {Report(1, 2, 3)}, {Report(4, 1, 5)}}
Rounds  == UNION {[1..n -> Reports] : n \in 0..2}

UsageOf(rounds) == FoldLeft(Usage!AddMeta, Usage!NoUsage, rounds)

SumOver(rounds, Field(_)) ==
    FoldLeft(LAMBDA sum, meta : sum + (IF meta = {} THEN 0 ELSE Field(CHOOSE r \in meta : TRUE)),
             0, rounds)

One(r)    == 1
Input(r)  == r.input
Output(r) == r.output

\* What a conversation says it took is what its rounds reported, a run that
\* reported nothing counts as none, and its peak is the largest single prompt;
\* the ledger is given the same tokens as the run's row.
ASSUME ConversationAddsUp ==
    \A first, second \in Rounds, window \in {0, 8} :
        LET stored == <<Usage!StampRunUsage(UsageOf(first), window),
                        Usage!StampRunUsage(UsageOf(second), 8)>>
            all    == first \o second
            said   == Usage!ConversationUsage(stored)
        IN  /\ said.input = SumOver(all, Input) /\ said.output = SumOver(all, Output)
            /\ said.total = said.input + said.output
            /\ said.runs = Cardinality({i \in 1..2 : SumOver(<<first, second>>[i], One) > 0})
            /\ \A i \in DOMAIN all : \A r \in all[i] : r.input <= said.peak
            /\ said.peak = 0 \/ \E i \in DOMAIN all : \E r \in all[i] : r.input = said.peak
            /\ said.window = IF SumOver(second, One) > 0 THEN 8
                             ELSE IF SumOver(first, One) > 0 THEN window ELSE 0
            /\ \A tokens \in Usage!TokenUsage(UsageOf(first)) : \A payload \in stored[1] :
                 \A field \in DOMAIN tokens : tokens[field] = payload[field]
            /\ Usage!TokenUsage(UsageOf(first)) = {} <=> stored[1] = {}
=============================================================================
