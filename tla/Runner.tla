------------------------------- MODULE Runner -------------------------------
(***************************************************************************)
(* One run of WorkflowRunner::run (src/core/runner.rs) with the inference  *)
(* loop it calls (src/core/inference.rs) and the tool batches it executes  *)
(* (src/core/runner/execution.rs).  The model's answers, the scorers and   *)
(* the tools are the environment: each may answer in any way it can.       *)
(*                                                                         *)
(* The messages of the run are modelled in other modules; here a nudge is  *)
(* what it costs: one iteration, and one unit of the budget it draws on.   *)
(***************************************************************************)
EXTENDS Workflow

CONSTANTS
    Batches,        \* the batches of calls that pass the validator
    MaxIterations,  \* WorkflowRunner::max_iterations
    MaxRetries,     \* WorkflowRunner::max_retries_per_step
    MaxToolErrors,  \* WorkflowRunner::max_tool_errors
    MaxPremature,   \* the 3 of build_guardrails
    MaxViolations,  \* the 2 of build_guardrails
    None

ASSUME RunnerAssumption ==
    /\ Batches \subseteq Seq(Calls)
    /\ MaxIterations \in Nat
    /\ MaxRetries \in Nat
    /\ MaxToolErrors \in Nat
    /\ MaxPremature \in Nat
    /\ MaxViolations \in Nat
    /\ None \notin Calls

VARIABLES
    pc,          \* where run stands
    cancelled,   \* the value of the watch channel
    iteration,   \* the budget consumed so far
    attempts,    \* attempts of the inference loop in progress
    retries,     \* ErrorTracker::consecutive_retries
    toolErrors,  \* ErrorTracker::consecutive_tool_errors
    premature,   \* StepEnforcer::premature_attempts
    violations,  \* StepEnforcer::prereq_violations
    executed,    \* StepTracker
    batch,       \* the calls that are judged, then those that are still to be made
    failed,      \* batch_had_error
    terminal,    \* terminal_result, as the call that returned it
    verdict,     \* how the run ended
    invoked,     \* history: the calls made
    requests     \* history: the requests sent to the model, up to one beyond the budget

counters == <<retries, toolErrors, premature, violations>>
batchVars == <<batch, failed, terminal>>
vars == <<pc, cancelled, iteration, attempts, counters, executed, batchVars, verdict,
          invoked, requests>>

Pcs == {"head", "infer", "judge", "execute", "returned"}
Verdicts == {"running", "completed", "maxIterations", "cancelled", "toolCall",
             "stepEnforcement", "prerequisite", "toolExecution", "client"}

-----------------------------------------------------------------------------
Init ==
    /\ pc = "head"
    /\ cancelled = FALSE
    /\ iteration = 0
    /\ attempts = 0
    /\ retries = 0
    /\ toolErrors = 0
    /\ premature = 0
    /\ violations = 0
    /\ executed = {}
    /\ batch = <<>>
    /\ failed = FALSE
    /\ terminal = None
    /\ verdict = "running"
    /\ invoked = {}
    /\ requests = 0

Return(kind) == pc' = "returned" /\ verdict' = kind

GoTo(place) == pc' = place /\ UNCHANGED verdict

\* Out of a budget: the run ends with an error; otherwise it goes on at place.
Spend(exhausted, kind, place) == IF exhausted THEN Return(kind) ELSE GoTo(place)

Cancel ==
    /\ verdict = "running"
    /\ cancelled' = TRUE
    /\ UNCHANGED <<pc, iteration, attempts, counters, executed, batchVars, verdict,
                   invoked, requests>>

-----------------------------------------------------------------------------
(* The head of the loop, and run_inference.                                *)

RunHead ==
    /\ pc = "head"
    /\ \/ iteration >= MaxIterations /\ Return("maxIterations")
       \/ iteration < MaxIterations /\ cancelled /\ Return("cancelled")
       \/ iteration < MaxIterations /\ ~cancelled /\ GoTo("infer")
    /\ attempts' = 0
    /\ UNCHANGED <<cancelled, iteration, counters, executed, batchVars, invoked, requests>>

\* Mutant: the inference loop is bounded by its own retries only.
AttemptLimitUnbudgeted == MaxRetries + 1

\* min(max_retries + 1, what is left of the iterations)
AttemptLimit ==
    IF MaxRetries + 1 < MaxIterations - iteration THEN MaxRetries + 1
                                                  ELSE MaxIterations - iteration

SendRequest ==
    /\ pc = "infer"
    /\ attempts < AttemptLimit
    /\ requests' = IF requests > MaxIterations THEN requests ELSE requests + 1

\* The client fails, or its stream ends without a final chunk.
RequestFails ==
    /\ SendRequest
    /\ Return("client")
    /\ UNCHANGED <<cancelled, iteration, attempts, counters, executed, batchVars, invoked>>

\* A response the validator rejects is answered with a nudge and tried again.
ResponseInvalid ==
    /\ SendRequest
    /\ attempts' = attempts + 1
    /\ retries' = retries + 1
    /\ Spend(retries' > MaxRetries, "toolCall", "infer")
    /\ UNCHANGED <<cancelled, iteration, toolErrors, premature, violations, executed,
                   batchVars, invoked>>

\* Mutant: the attempt that succeeds is not charged to the iterations.
ResponseValidUncharged ==
    /\ SendRequest
    /\ batch' \in Batches
    /\ retries' = 0
    /\ iteration' = iteration + attempts
    /\ GoTo("judge")
    /\ UNCHANGED <<cancelled, attempts, toolErrors, premature, violations, executed,
                   failed, terminal, invoked>>

\* Every attempt is charged to the iterations; the retries start over.
ResponseValid ==
    /\ SendRequest
    /\ batch' \in Batches
    /\ retries' = 0
    /\ iteration' = iteration + attempts + 1
    /\ GoTo("judge")
    /\ UNCHANGED <<cancelled, attempts, toolErrors, premature, violations, executed,
                   failed, terminal, invoked>>

\* run_inference returns None.
OutOfAttempts ==
    /\ pc = "infer"
    /\ attempts >= AttemptLimit
    /\ Return("maxIterations")
    /\ UNCHANGED <<cancelled, iteration, attempts, counters, executed, batchVars,
                   invoked, requests>>

-----------------------------------------------------------------------------
(* The checks of a valid batch, in their order.                            *)

Judged(holds) ==
    /\ pc = "judge"
    /\ holds
    /\ UNCHANGED <<cancelled, iteration, attempts, toolErrors, executed, batchVars,
                   invoked, requests>>

\* record_retry, retries_exhausted
RetryNudge ==
    /\ retries' = retries + 1
    /\ Spend(retries' > MaxRetries, "toolCall", "head")
    /\ UNCHANGED <<premature, violations>>

NudgeMixed == Judged(Mixed(batch)) /\ RetryNudge

\* Mutant: premature attempts are counted and never run out.
NudgePrematureUnbounded ==
    /\ Judged(~Mixed(batch) /\ Premature(batch, executed))
    /\ premature' = premature + 1
    /\ GoTo("head")
    /\ UNCHANGED <<retries, violations>>

NudgePremature ==
    /\ Judged(~Mixed(batch) /\ Premature(batch, executed))
    /\ premature' = premature + 1
    /\ Spend(premature' > MaxPremature, "stepEnforcement", "head")
    /\ UNCHANGED <<retries, violations>>

NudgePrerequisite ==
    /\ Judged(~Mixed(batch) /\ ~Premature(batch, executed) /\ Unprepared(batch, executed))
    /\ violations' = violations + 1
    /\ Spend(violations' > MaxViolations, "prerequisite", "head")
    /\ UNCHANGED <<retries, premature>>

Cleared == ~Mixed(batch) /\ ~Premature(batch, executed) /\ ~Unprepared(batch, executed)

\* The tool-call scorer objects or, after it, the final-response scorer.
ScorerObjects == Judged(Cleared) /\ RetryNudge

BeginBatch ==
    /\ pc = "judge"
    /\ Cleared
    /\ failed' = FALSE
    /\ terminal' = None
    /\ GoTo("execute")
    /\ UNCHANGED <<cancelled, iteration, attempts, counters, executed, batch, invoked,
                   requests>>

-----------------------------------------------------------------------------
(* execute_tool_batch: the calls in order, whatever becomes of each.       *)

Invoke ==
    /\ pc = "execute"
    /\ batch # <<>>
    /\ invoked' = invoked \cup {Head(batch)}
    /\ batch' = Tail(batch)
    /\ UNCHANGED <<pc, cancelled, iteration, attempts, retries, premature, violations,
                   verdict, requests>>

ToolSucceeds ==
    /\ Invoke
    /\ executed' = executed \cup {Head(batch)}
    /\ terminal' = IF IsTerminal(Head(batch)) THEN Head(batch) ELSE terminal
    /\ UNCHANGED <<toolErrors, failed>>

\* ToolError::Resolution, which counts for nothing.
ToolUnresolved ==
    /\ Invoke
    /\ UNCHANGED <<executed, terminal, toolErrors, failed>>

ToolFails ==
    /\ Invoke
    /\ toolErrors' = toolErrors + 1
    /\ failed' = TRUE
    /\ UNCHANGED <<executed, terminal>>

\* Only a batch without a hard error resets the counters.
EndBatch ==
    /\ pc = "execute"
    /\ batch = <<>>
    /\ IF failed
       THEN UNCHANGED <<toolErrors, premature, violations>>
       ELSE toolErrors' = 0 /\ premature' = 0 /\ violations' = 0
    /\ IF failed /\ toolErrors > MaxToolErrors THEN Return("toolExecution")
       ELSE IF terminal # None THEN Return("completed")
       ELSE GoTo("head")
    /\ UNCHANGED <<cancelled, iteration, attempts, retries, executed, batchVars, invoked,
                   requests>>

-----------------------------------------------------------------------------
RunStep ==
    \/ RunHead \/ RequestFails \/ ResponseInvalid \/ ResponseValid \/ OutOfAttempts
    \/ NudgeMixed \/ NudgePremature \/ NudgePrerequisite \/ ScorerObjects \/ BeginBatch
    \/ ToolSucceeds \/ ToolUnresolved \/ ToolFails \/ EndBatch

Next == RunStep \/ Cancel

Spec == Init /\ [][Next]_vars

\* The runtime polls the run, and the client, the scorers and the tools answer.
FairSpec == Spec /\ WF_vars(RunStep)

-----------------------------------------------------------------------------
\* The types, with the bounds of the counters: attempts, retries, premature batches
\* and violations end the run at the first one beyond their limit.
TypeOK ==
    /\ pc \in Pcs
    /\ cancelled \in BOOLEAN
    /\ iteration \in 0 .. MaxIterations
    /\ attempts \in 0 .. MaxRetries + 1
    /\ retries \in 0 .. MaxRetries + 1
    /\ toolErrors \in Nat
    /\ premature \in 0 .. MaxPremature + 1
    /\ violations \in 0 .. MaxViolations + 1
    /\ executed \subseteq Calls
    /\ batch \in Seq(Calls)
    /\ failed \in BOOLEAN
    /\ terminal \in Calls \cup {None}
    /\ verdict \in Verdicts
    /\ invoked \subseteq Calls
    /\ requests \in 0 .. MaxIterations + 1

\* Retries inside the inference loop and nudges outside it draw on one budget: a
\* run never sends the model more than max_iterations requests.
RequestsBudgeted == requests <= MaxIterations

\* However the model, the scorers and the tools answer, a run comes to an end.
RunEnds == <>(verdict # "running")

\* What WorkflowContract promises: prerequisites and required steps are checked
\* once for a batch, and hold for each of its calls when that call is made.
Contract == INSTANCE WorkflowContract
                WITH answer <- IF verdict = "completed" THEN terminal ELSE None

ImplementsContract == Contract!Spec

=============================================================================
