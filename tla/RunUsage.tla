------------------------------ MODULE RunUsage ------------------------------
(* The tokens of a run and of a conversation (internal/service/usage.go).      *)
(*                                                                             *)
(* A run asks the model once per round and each reply reports its own tokens,  *)
(* or nothing.  A value that may be missing is a set of at most one value.     *)
EXTENDS Integers, Sequences, SequencesExt, FiniteSetsExt

NoUsage == [input |-> 0, output |-> 0, total |-> 0, peak |-> 0, rounds |-> 0]

Larger(a, b) == IF a > b THEN a ELSE b

\* A provider may leave the total to the reader.
TotalOf(report) == IF report.total = 0 THEN report.input + report.output ELSE report.total

AddUsage(usage, report) ==
    [input  |-> usage.input + report.input,
     output |-> usage.output + report.output,
     total  |-> usage.total + TotalOf(report),
     peak   |-> Larger(usage.peak, report.input),
     rounds |-> usage.rounds + 1]

AddMeta(usage, meta) == FoldSet(LAMBDA report, u : AddUsage(u, report), usage, meta)

\* tokenUsage: what the ledger is given of a run.
TokenUsage(usage) ==
    IF usage.rounds = 0 THEN {}
    ELSE {[input |-> usage.input, output |-> usage.output, total |-> usage.total]}

\* stampRunUsage: what is stored with a run that ended, the window if it is known.
StampRunUsage(usage, window) ==
    IF usage.rounds = 0 THEN {}
    ELSE {[input |-> usage.input, output |-> usage.output, total |-> usage.total,
           rounds |-> usage.rounds, used |-> usage.peak, window |-> window]}

NoConversationUsage == [runs |-> 0, input |-> 0, output |-> 0, total |-> 0, peak |-> 0, window |-> 0]

\* ConversationUsage: the sum over the runs that reported anything.
ConversationUsage(stored) ==
    LET add(sum, payload) ==
            [runs   |-> sum.runs + 1,
             input  |-> sum.input + payload.input,
             output |-> sum.output + payload.output,
             total  |-> sum.total + payload.total,
             peak   |-> Larger(sum.peak, payload.used),
             window |-> Larger(sum.window, payload.window)]
    IN  FoldLeft(LAMBDA sum, one : FoldSet(LAMBDA payload, s : add(s, payload), sum, one),
                 NoConversationUsage, stored)
=============================================================================
