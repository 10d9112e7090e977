---------------------------- MODULE ClientTools ----------------------------
(***************************************************************************)
(* Tools that run on the caller's side of a streamed run: the run emits    *)
(* the call on its event stream, registers a waiter for it, and pauses     *)
(* until a POST of the result finds the waiter, two minutes have passed,   *)
(* or the stream's request is cancelled.                                   *)
(*                                                                         *)
(* The waiters live in one map behind a mutex, so looking one up and       *)
(* filling its channel is one step; receiving from the channel and taking  *)
(* the waiter out of the map are two.  Posts travel on connections of      *)
(* their own: they are delayed, reordered and sent again by the client.    *)
(***************************************************************************)
EXTENDS ClientCalls, FiniteSets

service == <<pc, round, got, waiters, channel, stored>>
client  == <<seen, inFlight, replies>>
vars    == <<service, client>>

\* clientToolWaiterKey: a waiter is found by run and call.
\* Mutant: the call is taken for the first of its run.
FirstKey(c) == <<c[1], 1>>

Key(c) == c

TypeOK ==
    /\ pc \in [Runs -> {"model", "handoff", "register", "waiting", "leaving",
                        "store", "completed", "failed"}]
    /\ round \in [Runs -> 0..Rounds]
    /\ got \in [Runs -> Results \cup {NoResult}]
    /\ waiters \subseteq Calls
    /\ channel \in [Calls -> Posts \cup {NoResult}]
    /\ stored \in [Calls -> Results \cup {NoResult}]
    /\ seen \subseteq Calls
    /\ inFlight \subseteq Posts
    /\ replies \in [{"ok", "not found"} -> SUBSET Posts]

Init ==
    /\ pc = [r \in Runs |-> "model"]
    /\ round = [r \in Runs |-> 0]
    /\ got = [r \in Runs |-> NoResult]
    /\ waiters = {}
    /\ channel = [c \in Calls |-> NoResult]
    /\ stored = [c \in Calls |-> NoResult]
    /\ seen = {}
    /\ inFlight = {}
    /\ replies = [s \in {"ok", "not found"} |-> {}]

Goto(r, label) == pc' = [pc EXCEPT ![r] = label]

-----------------------------------------------------------------------------
(* The run.                                                                *)

ModelCallsClientTool(r) ==
    /\ pc[r] = "model"
    /\ round[r] < Rounds
    /\ round' = [round EXCEPT ![r] = @ + 1]
    /\ Goto(r, "handoff")
    /\ UNCHANGED <<got, waiters, channel, stored, client>>

ModelAnswers(r) ==
    /\ pc[r] = "model"
    /\ Goto(r, "completed")
    /\ UNCHANGED <<round, got, waiters, channel, stored, client>>

\* OnClientTool: the caller learns of the call before there is a waiter.
EmitCall(r) ==
    /\ pc[r] = "handoff"
    /\ seen' = seen \cup {Current(r)}
    /\ Goto(r, "register")
    /\ UNCHANGED <<round, got, waiters, channel, stored, inFlight, replies>>

Register(r) ==
    /\ pc[r] = "register"
    /\ waiters' = waiters \cup {Key(Current(r))}
    /\ channel' = [channel EXCEPT ![Key(Current(r))] = NoResult]
    /\ Goto(r, "waiting")
    /\ UNCHANGED <<round, got, stored, client>>

Receive(r) ==
    LET k == Key(Current(r))
    IN  /\ pc[r] = "waiting"
        /\ channel[k] # NoResult
        /\ got' = [got EXCEPT ![r] = channel[k]]
        /\ channel' = [channel EXCEPT ![k] = NoResult]
        /\ Goto(r, "leaving")
        /\ UNCHANGED <<round, waiters, stored, client>>

\* select takes any branch that is ready: the timer may win over a result.
\* Mutant: there is no timer.
WaitForever(r) == FALSE /\ UNCHANGED vars

Timeout(r) ==
    /\ pc[r] = "waiting"
    /\ got' = [got EXCEPT ![r] = TimedOut]
    /\ Goto(r, "leaving")
    /\ UNCHANGED <<round, waiters, channel, stored, client>>

\* The stream's request is cancelled; NoResult stands for the error.
Cancel(r) ==
    /\ pc[r] = "waiting"
    /\ got' = [got EXCEPT ![r] = NoResult]
    /\ Goto(r, "leaving")
    /\ UNCHANGED <<round, waiters, channel, stored, client>>

\* The deferred delete, however awaitClientToolResult is left.
\* Mutant: only a result takes the waiter away.
LeaveWithResult(r) ==
    /\ pc[r] = "leaving"
    /\ waiters' = IF got[r] \in Posts THEN waiters \ {Key(Current(r))} ELSE waiters
    /\ channel' = [channel EXCEPT ![Key(Current(r))] = NoResult]
    /\ Goto(r, IF got[r] = NoResult THEN "failed" ELSE "store")
    /\ UNCHANGED <<round, got, stored, client>>

Leave(r) ==
    /\ pc[r] = "leaving"
    /\ waiters' = waiters \ {Key(Current(r))}
    /\ channel' = [channel EXCEPT ![Key(Current(r))] = NoResult]
    /\ Goto(r, IF got[r] = NoResult THEN "failed" ELSE "store")
    /\ UNCHANGED <<round, got, stored, client>>

StoreResult(r) ==
    /\ pc[r] = "store"
    /\ stored' = [stored EXCEPT ![Current(r)] = got[r]]
    /\ got' = [got EXCEPT ![r] = NoResult]
    /\ Goto(r, "model")
    /\ UNCHANGED <<round, waiters, channel, client>>

\* The model, the caller's stream or the database fails, or the result brought
\* tools whose names are taken.
Fail(r) ==
    /\ pc[r] \in {"model", "handoff", "store"}
    /\ got' = [got EXCEPT ![r] = NoResult]
    /\ Goto(r, "failed")
    /\ UNCHANGED <<round, waiters, channel, stored, client>>

-----------------------------------------------------------------------------
(* The client, on connections of its own.                                  *)

\* A result is posted once the tool has run, and again when no reply came.
Post(p) ==
    /\ p[1] \in seen
    /\ p \notin inFlight \cup replies["ok"] \cup replies["not found"]
    /\ inFlight' = inFlight \cup {p}
    /\ UNCHANGED <<service, seen, replies>>

Reply(p, status) ==
    /\ inFlight' = inFlight \ {p}
    /\ replies' = [replies EXCEPT ![status] = @ \cup {p}]

Accepts(p) == Key(p[1]) \in waiters /\ channel[Key(p[1])] = NoResult

\* SubmitClientToolResult, under the lock: never blocks.
Submit(p) ==
    /\ p \in inFlight
    /\ \/ /\ Accepts(p)
          /\ channel' = [channel EXCEPT ![Key(p[1])] = p]
          /\ Reply(p, "ok")
       \/ /\ ~Accepts(p)
          /\ Reply(p, "not found")
          /\ UNCHANGED channel
    /\ UNCHANGED <<pc, round, got, waiters, stored, seen>>

-----------------------------------------------------------------------------
ServiceStep(r) ==
    \/ EmitCall(r) \/ Register(r) \/ Receive(r) \/ Timeout(r)
    \/ Leave(r) \/ StoreResult(r)

ModelStep(r) == ModelCallsClientTool(r) \/ ModelAnswers(r)

Next ==
    \/ \E r \in Runs : ServiceStep(r) \/ ModelStep(r) \/ Cancel(r) \/ Fail(r)
    \/ \E p \in Posts : Post(p) \/ Submit(p)

Spec == Init /\ [][Next]_vars

\* The service's own steps go on, its timer included, and the model answers.
\* Clients need not: nothing is assumed of Post and Submit.
FairSpec == Spec /\ \A r \in Runs : WF_vars(ServiceStep(r)) /\ WF_vars(ModelStep(r))

-----------------------------------------------------------------------------
Ended(r) == pc[r] \in {"completed", "failed"}

\* "a vanished client cannot wedge the run forever": every run ends, whether or
\* not anybody posts a result, because the wait is bounded.
RunsEnd == \A r \in Runs : <>Ended(r)

=============================================================================
