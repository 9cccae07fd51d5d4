-------------------------------- MODULE Judges --------------------------------
(***************************************************************************)
(* The components that judge requests, calls, batches of calls, captures   *)
(* and outputs: the contract of a request, the tool policy, the scorers,   *)
(* the guardrails facade, the review of captured calls, and the filters    *)
(* and the cap that decide what of an output the model is shown.           *)
(***************************************************************************)
EXTENDS Integers, Sequences, FiniteSets, Focus

CONSTANTS
    \* RequestContract
    ContractTools, Respond, Stranger, MaxNames,
    \* ToolPolicy
    Commands, MaxBatch, MaxBatches,
    \* Scoring
    Callers, Permits, Sessions, Capacity,
    \* Guardrails
    Tools, ProgramArgs, ProgramCalls, Required, Terminal, Prerequisites, MaxRetries,
    MaxPremature, MaxCallsChecked, NoArg,
    \* DatasetReview
    Captured, Groups, Concurrency, MaxPerGroup, AlternativesPer, MaxStarts,
    \* FamilyFilters
    MaxOutput, MaxShown,
    \* TextFilters
    CapLimits, MaxCapped, ScanLimit, MaxFolded, MaxPeriod, MaxRows

\* A program's workflow can be completed through the facade, if Workflow::new
\* accepted it and some calls, each with its prerequisites among the tools before
\* it, lead past every required step to a terminal tool.
Leads(plan) ==
    LET before(i) == {[tool |-> plan[j].tool, arg |-> NoArg] : j \in 1 .. i - 1}
        prepared(i) ==
            \A p \in Prerequisites[plan[i].tool] :
                IF p.matched THEN [tool |-> p.tool, arg |-> plan[i].arg] \in before(i)
                             ELSE \E j \in 1 .. i - 1 : plan[j].tool = p.tool
    IN  /\ \A i \in DOMAIN plan : prepared(i)
        /\ \A i \in DOMAIN plan : plan[i].tool \in Terminal <=> i = Len(plan)
        /\ \A t \in Required : \E i \in DOMAIN plan : plan[i].tool = t

ASSUME FacadeAssumption ==
    /\ IsFiniteSet(Tools)
    /\ ProgramCalls \subseteq [tool : Tools, arg : ProgramArgs]
    /\ Required \subseteq Tools /\ Terminal \subseteq Tools /\ Required \cap Terminal = {}
    /\ Prerequisites \in [Tools -> SUBSET [tool : Tools, matched : BOOLEAN]]
    /\ {MaxRetries, MaxPremature} \subseteq Nat
    /\ \E n \in 1 .. Cardinality(Tools) : \E plan \in [1 .. n -> ProgramCalls] : Leads(plan)

\* The executor and the pool have a size, and no caller is called "free".
ASSUME ScoringAssumption ==
    /\ Permits \in Nat /\ Sessions \in Nat \ {0} /\ Capacity \in Nat
    /\ "free" \notin Callers

\* A capture has a group and a call. The ratio of alternatives is at most one to
\* one, and their number per group is a number (cli.rs).
ASSUME ReviewAssumption ==
    /\ Captured \subseteq Seq([group : Groups, call : STRING])
    /\ MaxPerGroup \in Nat /\ AlternativesPer \in Nat \ {0}

\* The bound on the outputs is a number.
ASSUME FilterAssumption == MaxOutput \in Nat

\* A limit of zero turns the cap off (safety.rs).
ASSUME CapAssumption ==
    CapLimits \subseteq Nat \ {0} /\ {MaxCapped, ScanLimit} \subseteq Nat

Contract == INSTANCE RequestContract WITH
    Tools <- ContractTools, Unknown <- Stranger, request <- state

Policy == INSTANCE ToolPolicy WITH policy <- state

Scores == INSTANCE Scoring WITH scoring <- state

Facade == INSTANCE Guardrails WITH
    Args <- ProgramArgs, Calls <- ProgramCalls, MaxBatch <- MaxCallsChecked, guard <- state

Reviews == INSTANCE DatasetReview WITH review <- state

Families == INSTANCE FamilyFilters WITH MaxLines <- MaxOutput, family <- state

Filters == INSTANCE TextFilters WITH
    Limits <- CapLimits, MaxText <- MaxCapped, MaxLines <- MaxFolded, filter <- state

-----------------------------------------------------------------------------
JudgesInit ==
    \/ focus = "contract" /\ Contract!Init
    \/ focus = "policy" /\ Policy!Init
    \/ focus = "scores" /\ Scores!Init
    \/ focus = "facade" /\ Facade!Init
    \/ focus = "reviews" /\ Reviews!Init
    \/ focus = "families" /\ Families!Init
    \/ focus = "filters" /\ Filters!Init

JudgesStep ==
    \/ focus = "contract" /\ Contract!Next
    \/ focus = "policy" /\ Policy!Next
    \/ focus = "scores" /\ Scores!Next
    \/ focus = "facade" /\ Facade!Next
    \/ focus = "reviews" /\ Reviews!Next
    \/ focus = "families" /\ Families!Next
    \/ focus = "filters" /\ Filters!Next

JudgesSpec == JudgesInit /\ [][JudgesStep /\ UNCHANGED focus]_vars

-----------------------------------------------------------------------------
\* A contract the proxy accepts can be completed with the tools it offers, and
\* the "_forge" extension never reaches upstream
\* (proxy/handler/request_contract.rs).
ContractsHold == focus = "contract" => Contract!Completable /\ Contract!ForgeStaysHome

\* A noisy command passes only after the model was told of it (tool_policy.rs).
ToldBeforePassed == focus = "policy" => Policy!ToldBeforePassed

\* Scorings are bounded and a batch hears the verdict of its calls
\* (guardrails/scoring.rs, guardrails/onnx_scorer).
ScoringBounded == focus = "scores" => Scores!ScoringBounded

\* Refusals of the guardrails facade come to an end, and a model can move on
\* until they do (guardrails/guardrails.rs).
GuardrailsHold == focus = "facade" => Facade!GuardrailsHold

\* A review that is killed and resumed decides every capture once
\* (bin/forge-dataset/review.rs).
ReviewResumes == focus = "reviews" => Reviews!ReviewResumes

\* No filter makes an output that tells of a failure look well
\* (tool_output/families, filters).
NoFalseAllClear == focus = "families" => Families!NoFalseAllClear

\* A capped output stays within its limit, in order, with the error signal the
\* plain cut would have lost (tool_output/safety.rs).
CapKeeps == focus = "filters" => Filters!CapKeeps

=============================================================================
