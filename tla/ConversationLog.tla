-------------------------- MODULE ConversationLog --------------------------
(***************************************************************************)
(* What a conversation is to the person having it: a log that only grows,  *)
(* one numbered entry at a time, until it is deleted for good; and an      *)
(* agent that, when it answers a request, knows all that was said.         *)
(***************************************************************************)
EXTENDS Integers

CONSTANTS Authors, Requests, Roles, SpokenRoles

VARIABLES
    log,    \* entries [pos, by, role]
    heard,  \* heard[r]: the entries the agent knows while it answers request r
    open    \* FALSE once the conversation is deleted

Entry == [pos: Nat \ {0}, by: Authors, role: Roles]

Init ==
    /\ log = {}
    /\ heard = [r \in Requests |-> {}]
    /\ open = TRUE

\* One more entry, at the position behind all the others.
Say ==
    /\ open
    /\ \E e \in log' :
         /\ e \in Entry
         /\ {x.pos : x \in log} = 1..(e.pos - 1)
         /\ log' = log \cup {e}
    /\ UNCHANGED <<heard, open>>

Recall(r) ==
    /\ open
    /\ \E e \in log : e.by = r
    /\ heard' = [heard EXCEPT ![r] = {e \in log : e.role \in SpokenRoles}]
    /\ UNCHANGED <<log, open>>

\* Requests are answered, or given up.
Forget ==
    /\ \E over \in SUBSET Requests :
         heard' = [r \in Requests |-> IF r \in over THEN {} ELSE heard[r]]
    /\ UNCHANGED <<log, open>>

Delete ==
    /\ log' = {}
    /\ open' = FALSE
    /\ UNCHANGED heard

Next == Say \/ Forget \/ Delete \/ \E r \in Requests : Recall(r)

Spec == Init /\ [][Next]_<<log, heard, open>>
=============================================================================
