-------------------------- MODULE WorkflowContract --------------------------
(***************************************************************************)
(* What a run of a workflow promises its author, without the model, its    *)
(* retries and its nudges: which tools it may call when, and how it ends.  *)
(***************************************************************************)
EXTENDS Workflow

CONSTANT None

VARIABLES
    invoked,   \* the calls made
    executed,  \* those of them that succeeded
    verdict,   \* "running", "completed", or the kind of error the run ended with
    answer     \* the call whose value a completed run returned

vars == <<invoked, executed, verdict, answer>>

Failures == {"maxIterations", "cancelled", "toolCall", "stepEnforcement",
             "prerequisite", "toolExecution", "client"}

Init ==
    /\ invoked = {}
    /\ executed = {}
    /\ verdict = "running"
    /\ answer = None

\* A terminal tool has succeeded.
Finished == \E c \in executed : IsTerminal(c)

\* A call is made after its prerequisites succeeded; a terminal one after every
\* required step did; and once a terminal call succeeded only others may follow.
Invoke(c, succeeds) ==
    /\ verdict = "running"
    /\ PrerequisitesMet(c, executed)
    /\ IsTerminal(c) => Satisfied(executed)
    /\ Finished => IsTerminal(c)
    /\ invoked' = invoked \cup {c}
    /\ executed' = IF succeeds THEN executed \cup {c} ELSE executed
    /\ UNCHANGED <<verdict, answer>>

Complete(c) ==
    /\ verdict = "running"
    /\ c \in executed
    /\ IsTerminal(c)
    /\ verdict' = "completed"
    /\ answer' = c
    /\ UNCHANGED <<invoked, executed>>

\* A terminal call that succeeded is only lost to the failure of another tool.
Fail(kind) ==
    /\ verdict = "running"
    /\ Finished => kind = "toolExecution"
    /\ verdict' = kind
    /\ UNCHANGED <<invoked, executed, answer>>

Next ==
    \/ \E c \in Calls, succeeds \in BOOLEAN : Invoke(c, succeeds)
    \/ \E c \in Calls : Complete(c)
    \/ \E kind \in Failures : Fail(kind)

Spec == Init /\ [][Next]_vars

=============================================================================
