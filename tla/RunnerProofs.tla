---------------------------- MODULE RunnerProofs ----------------------------
(***************************************************************************)
(* Proofs about Runner, for every workflow, every set of batches and every *)
(* budget: the run stays within its budget of requests, and implements     *)
(* WorkflowContract.                                                       *)
(***************************************************************************)
EXTENDS Runner, TLAPS

-----------------------------------------------------------------------------
(* The inductive invariant.                                                *)

\* The run has returned exactly when it has a verdict.
VerdictInv == verdict = "running" <=> pc # "returned"

\* Until it returns, no counter has passed its limit; the inference loop has made
\* no more attempts than it may, and each of them is a request.
BudgetInv ==
    /\ pc # "returned" => /\ retries <= MaxRetries
                          /\ premature <= MaxPremature
                          /\ violations <= MaxViolations
    /\ pc = "infer" => attempts <= AttemptLimit /\ requests = iteration + attempts
    /\ pc \in {"head", "judge", "execute"} => requests = iteration
    /\ requests <= MaxIterations

\* Each call still to be made may be made now, whichever of the calls before it in
\* the batch succeeded; and a terminal call that succeeded is followed by no other
\* kind of call, and is what the run will return.
BatchInv ==
    pc = "execute" =>
        /\ ~Mixed(batch)
        /\ \A i \in DOMAIN batch : /\ PrerequisitesMet(batch[i], executed)
                                   /\ IsTerminal(batch[i]) => Satisfied(executed)
        /\ terminal # None =>
               /\ terminal \in executed
               /\ IsTerminal(terminal)
               /\ \A i \in DOMAIN batch : IsTerminal(batch[i])

\* A terminal call has succeeded only in a batch that is being executed, or in the
\* last one of a run that has returned.
TerminalInv ==
    \A c \in executed : IsTerminal(c) =>
        \/ pc = "execute" /\ terminal # None
        \/ pc = "returned"

IInv == TypeOK /\ VerdictInv /\ BudgetInv /\ BatchInv /\ TerminalInv

-----------------------------------------------------------------------------
(* The operators of Workflow.                                              *)

\* What has been executed is never taken back: what was satisfied stays so.
LEMMA Monotone ==
    ASSUME NEW S, NEW c \in S, NEW executedNow, NEW d,
           PrerequisitesMet(c, executedNow)
    PROVE  PrerequisitesMet(c, executedNow \cup {d})
BY DEF PrerequisitesMet, Met, Completed

\* Required steps that are completed stay completed.
LEMMA SatisfiedMonotone ==
    ASSUME NEW executedNow, NEW d, Satisfied(executedNow)
    PROVE  Satisfied(executedNow \cup {d})
BY DEF Satisfied, Completed

\* The next call of a batch is one of its calls, and so are those after it.
LEMMA HeadAndTail ==
    ASSUME batch \in Seq(Calls), batch # <<>>
    PROVE  /\ Head(batch) \in Calls
           /\ Tail(batch) \in Seq(Calls)
           /\ 1 \in DOMAIN batch /\ Head(batch) = batch[1]
           /\ \A i \in DOMAIN Tail(batch) :
                  i + 1 \in DOMAIN batch /\ Tail(batch)[i] = batch[i + 1]
OBVIOUS

-----------------------------------------------------------------------------
\* A run that has not begun has spent nothing and called nothing.
LEMMA InitIInv == Init => IInv
<1> SUFFICES ASSUME Init PROVE IInv
  OBVIOUS
<1>1. TypeOK
  <2>1. batch \in Seq(Calls)
    BY DEF Init
  <2>2. /\ iteration \in 0 .. MaxIterations
        /\ attempts \in 0 .. MaxRetries + 1
        /\ retries \in 0 .. MaxRetries + 1
        /\ toolErrors \in Nat
        /\ premature \in 0 .. MaxPremature + 1
        /\ violations \in 0 .. MaxViolations + 1
        /\ requests \in 0 .. MaxIterations + 1
    BY RunnerAssumption DEF Init
  <2> QED
    BY <2>1, <2>2 DEF Init, TypeOK, Pcs, Verdicts
<1>2. VerdictInv /\ BatchInv /\ TerminalInv
  BY DEF Init, VerdictInv, BatchInv, TerminalInv
<1>3. BudgetInv
  BY RunnerAssumption DEF Init, BudgetInv
<1> QED
  BY <1>1, <1>2, <1>3 DEF IInv

\* Types are preserved: a counter that passes its limit ends the run.
LEMMA NextType == TypeOK /\ VerdictInv /\ BudgetInv /\ [Next]_vars => TypeOK'
<1> SUFFICES ASSUME TypeOK, VerdictInv, BudgetInv, [Next]_vars
             PROVE  TypeOK'
  OBVIOUS
<1> USE RunnerAssumption DEF TypeOK, Pcs, Verdicts, Spend, Return, GoTo, counters, batchVars
<1>1. CASE RunHead
  BY <1>1 DEF RunHead
<1>2. CASE RequestFails
  BY <1>2 DEF RequestFails, SendRequest
<1>3. CASE ResponseInvalid
  <2>1. attempts' \in 0 .. MaxRetries + 1
    BY <1>3 DEF ResponseInvalid, SendRequest, AttemptLimit
  <2>2. retries' \in 0 .. MaxRetries + 1
    BY <1>3 DEF ResponseInvalid, SendRequest, BudgetInv
  <2> QED
    BY <1>3, <2>1, <2>2 DEF ResponseInvalid, SendRequest
<1>4. CASE ResponseValid
  <2>1. iteration' \in 0 .. MaxIterations
    BY <1>4 DEF ResponseValid, SendRequest, AttemptLimit
  <2>2. batch' \in Seq(Calls)
    BY <1>4 DEF ResponseValid
  <2> QED
    BY <1>4, <2>1, <2>2 DEF ResponseValid, SendRequest
<1>5. CASE OutOfAttempts
  BY <1>5 DEF OutOfAttempts
<1>6. CASE NudgeMixed
  BY <1>6 DEF NudgeMixed, Judged, RetryNudge, BudgetInv
<1>7. CASE NudgePremature
  BY <1>7 DEF NudgePremature, Judged, BudgetInv
<1>8. CASE NudgePrerequisite
  BY <1>8 DEF NudgePrerequisite, Judged, BudgetInv
<1>9. CASE ScorerObjects
  BY <1>9 DEF ScorerObjects, Judged, RetryNudge, BudgetInv
<1>10. CASE BeginBatch
  BY <1>10 DEF BeginBatch
<1>11. CASE ToolSucceeds
  BY <1>11, HeadAndTail DEF ToolSucceeds, Invoke
<1>12. CASE ToolUnresolved
  BY <1>12, HeadAndTail DEF ToolUnresolved, Invoke
<1>13. CASE ToolFails
  BY <1>13, HeadAndTail DEF ToolFails, Invoke
<1>14. CASE EndBatch
  BY <1>14 DEF EndBatch
<1>15. CASE Cancel
  BY <1>15 DEF Cancel
<1>16. CASE UNCHANGED vars
  BY <1>16 DEF vars
<1> QED
  BY <1>1, <1>2, <1>3, <1>4, <1>5, <1>6, <1>7, <1>8, <1>9, <1>10, <1>11, <1>12, <1>13,
     <1>14, <1>15, <1>16 DEF Next, RunStep

\* A run has a verdict exactly when it has returned.
LEMMA NextVerdict == TypeOK /\ VerdictInv /\ [Next]_vars => VerdictInv'
<1> SUFFICES ASSUME TypeOK, VerdictInv, [Next]_vars
             PROVE  VerdictInv'
  OBVIOUS
<1> USE DEF VerdictInv, Spend, Return, GoTo, Judged, SendRequest, RetryNudge, Invoke
<1>1. CASE RunHead
  BY <1>1 DEF RunHead
<1>2. CASE RequestFails \/ ResponseInvalid \/ ResponseValid \/ OutOfAttempts
  BY <1>2 DEF RequestFails, ResponseInvalid, ResponseValid, OutOfAttempts
<1>3. CASE NudgeMixed \/ NudgePremature \/ NudgePrerequisite \/ ScorerObjects
  BY <1>3 DEF NudgeMixed, NudgePremature, NudgePrerequisite, ScorerObjects
<1>4. CASE BeginBatch \/ ToolSucceeds \/ ToolUnresolved \/ ToolFails
  BY <1>4 DEF BeginBatch, ToolSucceeds, ToolUnresolved, ToolFails
<1>5. CASE EndBatch
  BY <1>5 DEF EndBatch
<1>6. CASE Cancel \/ UNCHANGED vars
  BY <1>6 DEF Cancel, vars
<1> QED
  BY <1>1, <1>2, <1>3, <1>4, <1>5, <1>6 DEF Next, RunStep

\* The requests sent are the iterations charged and the attempts not charged yet.
LEMMA NextBudget == TypeOK /\ BudgetInv /\ [Next]_vars => BudgetInv'
<1> SUFFICES ASSUME TypeOK, BudgetInv, [Next]_vars
             PROVE  BudgetInv'
  OBVIOUS
<1> USE RunnerAssumption
    DEF TypeOK, BudgetInv, AttemptLimit, Spend, Return, GoTo, counters, batchVars
<1>1. CASE RunHead
  BY <1>1 DEF RunHead
<1>2. CASE RequestFails
  BY <1>2 DEF RequestFails, SendRequest
<1>3. CASE ResponseInvalid
  BY <1>3 DEF ResponseInvalid, SendRequest
<1>4. CASE ResponseValid
  BY <1>4 DEF ResponseValid, SendRequest
<1>5. CASE OutOfAttempts
  BY <1>5 DEF OutOfAttempts
<1>6. CASE NudgeMixed
  BY <1>6 DEF NudgeMixed, Judged, RetryNudge
<1>7. CASE NudgePremature
  BY <1>7 DEF NudgePremature, Judged
<1>8. CASE NudgePrerequisite
  BY <1>8 DEF NudgePrerequisite, Judged
<1>9. CASE ScorerObjects
  BY <1>9 DEF ScorerObjects, Judged, RetryNudge
<1>10. CASE BeginBatch
  BY <1>10 DEF BeginBatch
<1>11. CASE ToolSucceeds \/ ToolUnresolved \/ ToolFails
  BY <1>11 DEF ToolSucceeds, ToolUnresolved, ToolFails, Invoke
<1>12. CASE EndBatch
  BY <1>12 DEF EndBatch
<1>13. CASE Cancel \/ UNCHANGED vars
  BY <1>13 DEF Cancel, vars
<1> QED
  BY <1>1, <1>2, <1>3, <1>4, <1>5, <1>6, <1>7, <1>8, <1>9, <1>10, <1>11, <1>12, <1>13
     DEF Next, RunStep

\* A call is made: what remains of the batch was part of it.
LEMMA RestOfBatch ==
    ASSUME TypeOK, BatchInv, Invoke
    PROVE  /\ ~Mixed(batch')
           /\ \A i \in DOMAIN batch' : /\ batch'[i] \in Calls
                                       /\ PrerequisitesMet(batch'[i], executed)
                                       /\ IsTerminal(batch'[i]) => Satisfied(executed)
                                       /\ terminal # None => IsTerminal(batch'[i])
                                       /\ IsTerminal(Head(batch)) => IsTerminal(batch'[i])
           /\ Head(batch) \in Calls
           /\ PrerequisitesMet(Head(batch), executed)
           /\ IsTerminal(Head(batch)) => Satisfied(executed)
           /\ terminal # None => IsTerminal(Head(batch))
<1>1. /\ pc = "execute" /\ batch # <<>> /\ batch' = Tail(batch) /\ batch \in Seq(Calls)
  BY DEF Invoke, TypeOK
<1>2. /\ Head(batch) \in Calls
      /\ batch' \in Seq(Calls)
      /\ 1 \in DOMAIN batch /\ Head(batch) = batch[1]
      /\ \A i \in DOMAIN batch' : i + 1 \in DOMAIN batch /\ batch'[i] = batch[i + 1]
  BY <1>1, HeadAndTail
<1>3. ~Mixed(batch')
  BY <1>1, <1>2 DEF BatchInv, Mixed, HasTerminal
<1>4. ASSUME NEW i \in DOMAIN batch'
      PROVE  /\ batch'[i] \in Calls
             /\ PrerequisitesMet(batch'[i], executed)
             /\ IsTerminal(batch'[i]) => Satisfied(executed)
             /\ terminal # None => IsTerminal(batch'[i])
  BY <1>1, <1>2 DEF BatchInv
<1>5. ASSUME NEW i \in DOMAIN batch', IsTerminal(Head(batch))
      PROVE  IsTerminal(batch'[i])
  BY <1>1, <1>2, <1>5 DEF BatchInv, Mixed, HasTerminal
<1>6. /\ PrerequisitesMet(Head(batch), executed)
      /\ IsTerminal(Head(batch)) => Satisfied(executed)
      /\ terminal # None => IsTerminal(Head(batch))
  BY <1>1, <1>2 DEF BatchInv
<1> QED
  BY <1>2, <1>3, <1>4, <1>5, <1>6

\* What is left of a batch was cleared as a whole, and executions only add to that.
LEMMA NextBatch == TypeOK /\ BatchInv /\ TerminalInv /\ [Next]_vars => BatchInv'
<1> SUFFICES ASSUME TypeOK, BatchInv, TerminalInv, [Next]_vars
             PROVE  BatchInv'
  OBVIOUS
<1>1. CASE pc' # "execute"
  BY <1>1 DEF BatchInv
<1>2. CASE BeginBatch
  <2>1. batch \in Seq(Calls) /\ batch' = batch /\ executed' = executed /\ terminal' = None
    BY <1>2 DEF BeginBatch, TypeOK
  <2>2. /\ ~Mixed(batch)
        /\ \A i \in DOMAIN batch : PrerequisitesMet(batch[i], executed)
        /\ \A i \in DOMAIN batch : IsTerminal(batch[i]) => Satisfied(executed)
    BY <1>2 DEF BeginBatch, Cleared, Premature, Unprepared, HasTerminal
  <2> QED
    BY <2>1, <2>2 DEF BatchInv
<1>3. CASE ToolSucceeds
  <2>1. Invoke /\ executed' = executed \cup {Head(batch)}
    BY <1>3 DEF ToolSucceeds
  <2>2. \A i \in DOMAIN batch' : /\ PrerequisitesMet(batch'[i], executed')
                                 /\ IsTerminal(batch'[i]) => Satisfied(executed')
    BY <2>1, RestOfBatch, Monotone, SatisfiedMonotone
  <2>3. terminal' # None => /\ terminal' \in executed'
                            /\ IsTerminal(terminal')
                            /\ \A i \in DOMAIN batch' : IsTerminal(batch'[i])
    <3>1. CASE IsTerminal(Head(batch))
      BY <1>3, <2>1, <3>1, RestOfBatch DEF ToolSucceeds
    <3>2. CASE ~IsTerminal(Head(batch))
      BY <1>3, <2>1, <3>2, RestOfBatch DEF ToolSucceeds
    <3> QED
      BY <3>1, <3>2
  <2> QED
    BY <2>1, <2>2, <2>3, RestOfBatch DEF BatchInv
<1>4. CASE ToolUnresolved \/ ToolFails
  <2>1. Invoke /\ executed' = executed /\ terminal' = terminal /\ pc = "execute"
    BY <1>4 DEF ToolUnresolved, ToolFails, Invoke
  <2> QED
    BY <2>1, RestOfBatch DEF BatchInv
<1>5. CASE Cancel \/ UNCHANGED vars
  BY <1>5 DEF BatchInv, Cancel, vars, batchVars
<1> QED
  BY <1>1, <1>2, <1>3, <1>4, <1>5
     DEF Next, RunStep, RunHead, RequestFails, ResponseInvalid, ResponseValid,
         OutOfAttempts, NudgeMixed, NudgePremature, NudgePrerequisite, ScorerObjects,
         EndBatch, RetryNudge, Spend, Return, GoTo

\* The terminal result is a call of this batch, and a terminal success has one.
LEMMA NextTerminal == TypeOK /\ BatchInv /\ TerminalInv /\ [Next]_vars => TerminalInv'
<1> SUFFICES ASSUME TypeOK, BatchInv, TerminalInv, [Next]_vars,
                    NEW c \in executed', IsTerminal(c)
             PROVE  (pc' = "execute" /\ terminal' # None) \/ pc' = "returned"
  BY DEF TerminalInv
<1>1. CASE ToolSucceeds
  <2>1. Invoke /\ executed' = executed \cup {Head(batch)} /\ pc = "execute" /\ pc' = pc
    BY <1>1 DEF ToolSucceeds, Invoke
  <2>2. terminal' # None
    <3>1. CASE IsTerminal(Head(batch))
      BY <1>1, <2>1, <3>1, RestOfBatch, RunnerAssumption DEF ToolSucceeds
    <3>2. CASE ~IsTerminal(Head(batch))
      BY <1>1, <2>1, <3>2 DEF ToolSucceeds, TerminalInv
    <3> QED
      BY <3>1, <3>2
  <2> QED
    BY <2>1, <2>2
<1>2. CASE ToolUnresolved \/ ToolFails
  BY <1>2 DEF ToolUnresolved, ToolFails, Invoke, TerminalInv
<1>3. CASE EndBatch
  BY <1>3 DEF EndBatch, TerminalInv, batchVars, Return, GoTo
<1>4. CASE BeginBatch
  BY <1>4 DEF BeginBatch, TerminalInv
<1>5. CASE Cancel \/ UNCHANGED vars
  BY <1>5 DEF Cancel, vars, batchVars, TerminalInv
<1>6. CASE RunHead \/ RequestFails \/ ResponseInvalid \/ ResponseValid \/ OutOfAttempts
  BY <1>6 DEF RunHead, RequestFails, ResponseInvalid, ResponseValid, OutOfAttempts,
              SendRequest, TerminalInv
<1>7. CASE NudgeMixed \/ NudgePremature \/ NudgePrerequisite \/ ScorerObjects
  BY <1>7 DEF NudgeMixed, NudgePremature, NudgePrerequisite, ScorerObjects, Judged,
              TerminalInv
<1> QED
  BY <1>1, <1>2, <1>3, <1>4, <1>5, <1>6, <1>7 DEF Next, RunStep

-----------------------------------------------------------------------------
(* The invariance theorems.                                                *)

\* The invariant is inductive.
LEMMA NextIInv == IInv /\ [Next]_vars => IInv'
BY NextType, NextVerdict, NextBudget, NextBatch, NextTerminal DEF IInv

\* Everything a run does preserves the invariant.
THEOREM Invariance == Spec => []IInv
BY InitIInv, NextIInv, PTL DEF Spec

\* Every variable of the run keeps its type: no counter passes its limit by more
\* than the one step that ends the run.
THEOREM TypeCorrect == Spec => []TypeOK
<1>1. IInv => TypeOK
  BY DEF IInv
<1> QED
  BY <1>1, Invariance, PTL

\* However responses are rejected and nudged, a run sends the model at most
\* max_iterations requests.
THEOREM RequestsWithinBudget == Spec => []RequestsBudgeted
<1>1. IInv => RequestsBudgeted
  BY DEF IInv, BudgetInv, RequestsBudgeted
<1> QED
  BY <1>1, Invariance, PTL

-----------------------------------------------------------------------------
(* Runner implements WorkflowContract.                                     *)

\* A step that moves neither the calls nor the verdict is none of the contract's.
LEMMA ContractStutter ==
    ASSUME VerdictInv, pc # "returned",
           invoked' = invoked, executed' = executed, verdict' = verdict
    PROVE  UNCHANGED Contract!vars
BY DEF Contract!vars, VerdictInv

\* A run ends with an error: the contract's Fail.
LEMMA ContractFail ==
    ASSUME IInv, NEW kind \in Contract!Failures, pc # "returned",
           pc # "execute" \/ kind = "toolExecution",
           invoked' = invoked, executed' = executed, verdict' = kind
    PROVE  Contract!Fail(kind)
<1>1. verdict = "running"
  BY DEF IInv, VerdictInv
<1>2. Contract!Finished => kind = "toolExecution"
  BY DEF Contract!Finished, Contract!IsTerminal, IsTerminal, IInv, TerminalInv
<1>3. kind # "completed"
  BY DEF Contract!Failures
<1> QED
  BY <1>1, <1>2, <1>3 DEF Contract!Fail

\* A nudge: the run goes on, or fails because a budget is spent.
LEMMA ContractSpend ==
    ASSUME IInv, NEW exhausted, NEW kind \in Contract!Failures, NEW place,
           pc \in {"infer", "judge"}, Spend(exhausted, kind, place),
           invoked' = invoked, executed' = executed
    PROVE  [Contract!Next]_Contract!vars
<1>1. VerdictInv /\ pc # "returned" /\ pc # "execute"
  BY DEF IInv
<1>2. CASE exhausted
  <2>1. verdict' = kind
    BY <1>2 DEF Spend, Return
  <2> QED
    BY <1>1, <2>1, ContractFail DEF Contract!Next
<1>3. CASE ~exhausted
  <2>1. verdict' = verdict
    BY <1>3 DEF Spend, GoTo
  <2> QED
    BY <1>1, <2>1, ContractStutter
<1>4. exhausted \/ ~exhausted
  OBVIOUS
<1> QED
  BY <1>2, <1>3, <1>4

\* A call is made: the contract's Invoke.
LEMMA ContractInvoke ==
    ASSUME IInv, Invoke, NEW succeeds \in BOOLEAN,
           executed' = IF succeeds THEN executed \cup {Head(batch)} ELSE executed
    PROVE  Contract!Next
<1>1. TypeOK /\ BatchInv /\ TerminalInv /\ VerdictInv
  BY DEF IInv
<1>2. pc = "execute" /\ verdict = "running" /\ verdict' = verdict
      /\ invoked' = invoked \cup {Head(batch)}
  BY <1>1 DEF Invoke, VerdictInv
<1>3. /\ Head(batch) \in Calls
      /\ PrerequisitesMet(Head(batch), executed)
      /\ IsTerminal(Head(batch)) => Satisfied(executed)
      /\ terminal # None => IsTerminal(Head(batch))
  BY <1>1, RestOfBatch
<1>4. Contract!Finished => IsTerminal(Head(batch))
  BY <1>1, <1>2, <1>3 DEF Contract!Finished, Contract!IsTerminal, IsTerminal, TerminalInv
<1>5. Contract!Invoke(Head(batch), succeeds)
  BY <1>2, <1>3, <1>4
     DEF Contract!Invoke, Contract!PrerequisitesMet, Contract!IsTerminal,
         Contract!Satisfied, PrerequisitesMet, IsTerminal, Satisfied, Contract!Met, Met,
         Contract!Completed, Completed
<1> QED
  BY <1>3, <1>5 DEF Contract!Next

\* Every step of a run is a step of the contract, or none of it.
LEMMA NextContract == IInv /\ [Next]_vars => [Contract!Next]_Contract!vars
<1> SUFFICES ASSUME IInv, [Next]_vars
             PROVE  [Contract!Next]_Contract!vars
  OBVIOUS
<1>a. VerdictInv /\ TypeOK
  BY DEF IInv
<1>b. /\ "maxIterations" \in Contract!Failures /\ "cancelled" \in Contract!Failures
      /\ "toolCall" \in Contract!Failures /\ "stepEnforcement" \in Contract!Failures
      /\ "prerequisite" \in Contract!Failures /\ "toolExecution" \in Contract!Failures
      /\ "client" \in Contract!Failures
  BY DEF Contract!Failures
<1>1. CASE RunHead
  <2>1. pc = "head" /\ invoked' = invoked /\ executed' = executed
    BY <1>1 DEF RunHead
  <2>2. CASE GoTo("infer")
    BY <2>1, <2>2, <1>a, ContractStutter DEF GoTo
  <2>3. CASE Return("maxIterations")
    BY <2>1, <2>3, <1>b, ContractFail DEF Return, Contract!Next
  <2>4. CASE Return("cancelled")
    BY <2>1, <2>4, <1>b, ContractFail DEF Return, Contract!Next
  <2> QED
    BY <1>1, <2>2, <2>3, <2>4 DEF RunHead
<1>2. CASE RequestFails
  <2>1. pc = "infer" /\ invoked' = invoked /\ executed' = executed /\ verdict' = "client"
    BY <1>2 DEF RequestFails, SendRequest, Return
  <2> QED
    BY <2>1, <1>b, ContractFail DEF Contract!Next
<1>3. CASE ResponseInvalid
  <2>1. pc = "infer" /\ invoked' = invoked /\ executed' = executed
        /\ Spend(retries' > MaxRetries, "toolCall", "infer")
    BY <1>3 DEF ResponseInvalid, SendRequest
  <2> QED
    BY <2>1, <1>b, ContractSpend
<1>4. CASE ResponseValid
  <2>1. pc = "infer" /\ invoked' = invoked /\ executed' = executed /\ verdict' = verdict
    BY <1>4 DEF ResponseValid, SendRequest, GoTo
  <2> QED
    BY <2>1, <1>a, ContractStutter
<1>5. CASE OutOfAttempts
  <2>1. pc = "infer" /\ invoked' = invoked /\ executed' = executed
        /\ verdict' = "maxIterations"
    BY <1>5 DEF OutOfAttempts, Return
  <2> QED
    BY <2>1, <1>b, ContractFail DEF Contract!Next
<1>6. CASE NudgeMixed \/ ScorerObjects
  <2>1. pc = "judge" /\ invoked' = invoked /\ executed' = executed
        /\ Spend(retries' > MaxRetries, "toolCall", "head")
    BY <1>6 DEF NudgeMixed, ScorerObjects, Judged, RetryNudge
  <2> QED
    BY <2>1, <1>b, ContractSpend
<1>7. CASE NudgePremature
  <2>1. pc = "judge" /\ invoked' = invoked /\ executed' = executed
        /\ Spend(premature' > MaxPremature, "stepEnforcement", "head")
    BY <1>7 DEF NudgePremature, Judged
  <2> QED
    BY <2>1, <1>b, ContractSpend
<1>8. CASE NudgePrerequisite
  <2>1. pc = "judge" /\ invoked' = invoked /\ executed' = executed
        /\ Spend(violations' > MaxViolations, "prerequisite", "head")
    BY <1>8 DEF NudgePrerequisite, Judged
  <2> QED
    BY <2>1, <1>b, ContractSpend
<1>9. CASE BeginBatch
  <2>1. pc = "judge" /\ invoked' = invoked /\ executed' = executed /\ verdict' = verdict
    BY <1>9 DEF BeginBatch, GoTo
  <2> QED
    BY <2>1, <1>a, ContractStutter
<1>10. CASE ToolSucceeds
  BY <1>10, ContractInvoke DEF ToolSucceeds
<1>11. CASE ToolUnresolved \/ ToolFails
  BY <1>11, ContractInvoke DEF ToolUnresolved, ToolFails
<1>12. CASE EndBatch
  <2>1. /\ pc = "execute" /\ verdict = "running" /\ invoked' = invoked
        /\ executed' = executed /\ terminal' = terminal
    BY <1>12, <1>a DEF EndBatch, batchVars, VerdictInv
  <2>2. CASE Return("toolExecution")
    BY <2>1, <2>2, <1>b, ContractFail DEF Return, Contract!Next
  <2>3. CASE terminal # None /\ Return("completed")
    <3>1. terminal \in executed /\ IsTerminal(terminal) /\ terminal \in Calls
      BY <2>1, <2>3, <1>a DEF IInv, BatchInv, TypeOK
    <3>2. Contract!Complete(terminal)
      BY <2>1, <2>3, <3>1 DEF Contract!Complete, Return, Contract!IsTerminal, IsTerminal
    <3> QED
      BY <3>1, <3>2 DEF Contract!Next
  <2>4. CASE GoTo("head")
    BY <2>1, <2>4, <1>a, ContractStutter DEF GoTo
  <2> QED
    BY <1>12, <2>2, <2>3, <2>4 DEF EndBatch
<1>13. CASE Cancel
  <2>1. pc # "returned" /\ invoked' = invoked /\ executed' = executed /\ verdict' = verdict
    BY <1>13, <1>a DEF Cancel, VerdictInv
  <2> QED
    BY <2>1, <1>a, ContractStutter
<1>14. CASE UNCHANGED vars
  BY <1>14 DEF vars, batchVars, Contract!vars
<1> QED
  BY <1>1, <1>2, <1>3, <1>4, <1>5, <1>6, <1>7, <1>8, <1>9, <1>10, <1>11, <1>12, <1>13, <1>14
     DEF Next, RunStep

\* Runs keep the contract: each call is made after its prerequisites, a terminal
\* one after every required step, and its success is only lost to a tool error.
THEOREM Refinement == Spec => ImplementsContract
<1>1. Init => Contract!Init
  BY DEF Init, Contract!Init
<1>2. IInv /\ [Next]_vars => [Contract!Next]_Contract!vars
  BY NextContract
<1> QED
  BY <1>1, <1>2, Invariance, PTL DEF Spec, ImplementsContract, Contract!Spec

=============================================================================
