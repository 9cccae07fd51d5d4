--------------------------- MODULE ComponentsProofs ---------------------------
(***************************************************************************)
(* What is proved of the judges and of the transports holds where they are *)
(* composed: a behavior of MCComponents whose focus is a judge is one of   *)
(* JudgesSpec, and likewise for the transports.                            *)
(***************************************************************************)
EXTENDS MCComponents, JudgesProofs, TransportsProofs

Judging == focus \in {"contract", "policy", "scores", "facade", "reviews", "families",
                     "filters"}

Transporting == focus \in {"sinks", "streams", "wire", "requests", "startup", "talk"}

\* The judges' properties hold of every behavior, whatever its focus: a guarded
\* request contract can be completed (request_contract.rs), a command passes only
\* after it was told of (tool_policy.rs), scorings are bounded and give the verdict of
\* their batch (scoring.rs), the refusals of the facade end (guardrails.rs), a review
\* resumes (bin/forge-dataset/review.rs), no filter hides every failure
\* (tool_output/families), and a cap keeps the error it can (tool_output/safety.rs).
THEOREM JudgesHold ==
    Spec => [](ContractsHold /\ ToldBeforePassed /\ ScoringBounded /\ GuardrailsHold
                 /\ ReviewResumes /\ NoFalseAllClear /\ CapKeeps)
<1>1. Init /\ Judging => JudgesInit
    BY DEF Init, Judging, TransportsInit
<1>2. Judging /\ [Next]_vars => Judging' /\ [JudgesStep /\ UNCHANGED focus]_vars
    BY DEF Next, Step, Judging, TransportsStep, vars
<1>3. ~Judging /\ [Next]_vars => ~Judging'
    BY DEF Judging, Next, vars
<1>4. ~Judging => ContractsHold /\ ToldBeforePassed /\ ScoringBounded /\ GuardrailsHold
                    /\ ReviewResumes /\ NoFalseAllClear /\ CapKeeps
    BY DEF Judging, ContractsHold, ToldBeforePassed, ScoringBounded, GuardrailsHold,
           ReviewResumes, NoFalseAllClear, CapKeeps
<1> QED
    BY <1>1, <1>2, <1>3, <1>4, ContractsAreSound, CommandsAreTold, ScoringsAreBounded,
       RefusalsEnd, ReviewsResume, FailuresStayVisible, CapsKeep,
       PTL DEF Spec, JudgesSpec

\* The transports' properties hold of every behavior: a sink loses no event without
\* counting it (classifier_log.rs), a finished stream is handed on with its calls
\* (clients/*/streaming.rs), no send is served twice (clients/retry.rs), the proxy
\* leaves no backend behind and serves the context of a slot (server/budget.rs), and
\* compaction keeps the recent steps and the calls of its results (context/strategies.rs).
THEOREM TransportsHold ==
    Spec => [](EventsAccounted /\ StreamDelivers /\ ServedOnce /\ StartupSound
                 /\ CompactionKeeps)
<1>1. Init /\ Transporting => TransportsInit
    BY DEF Init, Transporting, JudgesInit
<1>2. Transporting /\ [Next]_vars => Transporting' /\ [TransportsStep /\ UNCHANGED focus]_vars
    BY DEF Next, Step, Transporting, JudgesStep, vars
<1>3. ~Transporting /\ [Next]_vars => ~Transporting'
    BY DEF Transporting, Next, vars
<1>4. ~Transporting => EventsAccounted /\ StreamDelivers /\ ServedOnce /\ StartupSound
                         /\ CompactionKeeps
    BY DEF Transporting, EventsAccounted, StreamDelivers, ServedOnce, StartupSound,
           CompactionKeeps
<1> QED
    BY <1>1, <1>2, <1>3, <1>4, EventsAreAccounted, StreamsDeliver, SendsAreServedOnce,
       StartupsAreSound, ConversationsKeep, PTL DEF Spec, TransportsSpec

=============================================================================
