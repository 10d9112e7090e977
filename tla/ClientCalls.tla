---------------------------- MODULE ClientCalls ----------------------------
(***************************************************************************)
(* The calls a streamed run hands to its caller: what the service and the  *)
(* caller keep of them, and how each is to be settled.  ClientTools has    *)
(* the steps.                                                              *)
(***************************************************************************)
EXTENDS Naturals

CONSTANTS
    Runs,
    Rounds,     \* client calls each run makes, one after the other: 1..Rounds
    MaxPosts,   \* bound on the posts a client sends for one call
    TimedOut,   \* the result a call is given when nobody answers
    NoResult    \* nothing received, and the error of a wait that was cancelled

ASSUME ClientToolsAssumption ==
    /\ Rounds \in Nat \ {0}
    /\ MaxPosts \in Nat

Calls == Runs \X (1..Rounds)

\* A post: the call it answers, and which attempt at it.
Posts == Calls \X (1..MaxPosts)

ASSUME ResultsDiffer == TimedOut # NoResult /\ {TimedOut, NoResult} \cap Posts = {}

VARIABLES
    pc,         \* where each run is
    round,      \* the call each run is at
    got,        \* what awaitClientToolResult returned
    waiters,    \* clientToolWaiters: the keys in the map
    channel,    \* what is buffered in the channel of each waiter
    stored,     \* the tool message stored for each call
    seen,       \* calls that were emitted on the stream
    inFlight,   \* posts on their way
    replies     \* posts answered "ok" and posts answered "not found"

Results == Posts \cup {TimedOut}

Current(r) == <<r, round[r]>>

-----------------------------------------------------------------------------
\* What a call is given as its result was posted for that very call, whatever is
\* delayed, repeated or reordered on the way, or it timed out.
ResultAnswersItsCall ==
    \A c \in Calls : stored[c] \in Posts => stored[c][1] = c

\* The map holds waiters of runs that are waiting only: nothing is left behind
\* when a call times out or the stream is cancelled.
NoWaiterLeft ==
    \A c \in waiters : pc[c[1]] \in {"waiting", "leaving"} /\ Current(c[1]) = c

\* However a wait ends, late and repeated posts find no waiter but the one of
\* the call they are for.
CallsSettled == ResultAnswersItsCall /\ NoWaiterLeft

=============================================================================
