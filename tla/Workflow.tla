------------------------------ MODULE Workflow ------------------------------
(***************************************************************************)
(* A workflow definition (src/core/workflow.rs) and the questions that the *)
(* guardrails ask about a batch of tool calls: StepTracker                 *)
(* (src/core/steps.rs) and StepEnforcer (src/guardrails/step_enforcer.rs). *)
(*                                                                         *)
(* A call is a tool and the value of the one argument that prerequisites   *)
(* match on; a batch is the sequence of calls of one model response; and   *)
(* executed, the tracker's state, is the set of calls recorded so far (its *)
(* completed_steps are the tools of its executed_tools).                   *)
(***************************************************************************)
EXTENDS Integers, Sequences

CONSTANTS
    Tools,         \* the keys of Workflow::tools
    Args,          \* values of the argument that prerequisites match on
    Calls,         \* the calls a model makes
    Required,      \* Workflow::required_steps
    Terminal,      \* Workflow::terminal_tools
    Prerequisites  \* ToolDef::prerequisites of each tool

\* PrerequisiteSpec: NameOnly, or ArgMatched.
PrerequisiteSpecs == [tool : Tools, matched : BOOLEAN]

\* What Workflow::new accepts.
ASSUME WorkflowAssumption ==
    /\ Calls \subseteq [tool : Tools, arg : Args]
    /\ Required \subseteq Tools
    /\ Terminal \subseteq Tools
    /\ Required \cap Terminal = {}
    /\ Prerequisites \in [Tools -> SUBSET PrerequisiteSpecs]

Completed(executed) == {c.tool : c \in executed}

Satisfied(executed) == Required \subseteq Completed(executed)

\* A matched prerequisite asks for an execution with this call's own argument.
Met(p, call, executed) ==
    IF p.matched THEN [tool |-> p.tool, arg |-> call.arg] \in executed
                 ELSE p.tool \in Completed(executed)

PrerequisitesMet(call, executed) ==
    \A p \in Prerequisites[call.tool] : Met(p, call, executed)

-----------------------------------------------------------------------------
IsTerminal(call) == call.tool \in Terminal

HasTerminal(batch) == \E i \in DOMAIN batch : IsTerminal(batch[i])

\* Terminal and other tools in one batch.
Mixed(batch) == HasTerminal(batch) /\ \E i \in DOMAIN batch : ~IsTerminal(batch[i])

Premature(batch, executed) == HasTerminal(batch) /\ ~Satisfied(executed)

\* Mutant: the calls of a batch may count on the calls before them in the batch.
UnpreparedInOrder(batch, executed) ==
    \E i \in DOMAIN batch :
        ~PrerequisitesMet(batch[i], executed \cup {batch[j] : j \in 1 .. i - 1})

\* Every call is checked against the state before the batch.
Unprepared(batch, executed) == \E i \in DOMAIN batch : ~PrerequisitesMet(batch[i], executed)

=============================================================================
