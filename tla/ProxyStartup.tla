---------------------------- MODULE ProxyStartup ----------------------------
(***************************************************************************)
(* The proxy from its command line to its exit                             *)
(* (src/bin/forge-guardrails-proxy: main, startup, routes; setup_backend   *)
(* and the budget resolution of src/server): it may start a backend, twice *)
(* when it is to have half of the model's context, asks it how much        *)
(* context a request has, loads its classifiers, serves, and stops the     *)
(* backend whichever way it ends.                                          *)
(*                                                                         *)
(* A start is one step here; ServerLifecycle has it in detail.  What it    *)
(* leaves open is kept: the child may still be loading when a foreign      *)
(* server on the port has answered for it.                                 *)
(***************************************************************************)
EXTENDS Integers

CONSTANTS
    Full,        \* context of the model when no override is given
    Manual,      \* --budget-tokens
    Slots,       \* --slots
    Elsewhere,   \* what a foreign server reports
    Default,     \* context of an upstream that reports none
    Vram         \* contexts ollama_vram_budget gives

VARIABLE boot    \* the command line, the backend, the proxy

\* What of a command line decides; sound: each option parses, and none belongs to another
\* kind of startup.
Lines ==
    [kind : {"env", "external", "ollama", "llama"}, sound : BOOLEAN, tokens : BOOLEAN,
     mode : {"backend", "manual", "forge-full", "forge-fast"},
     slots : Slots, unified : BOOLEAN]

NoBackend == [life |-> "none", total |-> 0]

Init ==
    \E line \in Lines :
        boot = [line |-> line, phase |-> "parsing", backend |-> NoBackend, foreign |-> FALSE,
                asked |-> 0, context |-> 0, spawned |-> 0, misled |-> FALSE]

Managed == boot.line.kind \in {"ollama", "llama"}
Fast == boot.line.mode = "forge-fast"

-----------------------------------------------------------------------------
(* The backend.                                                            *)

Dies ==
    /\ boot.backend.life \in {"loading", "serving"}
    /\ boot' = [boot EXCEPT !.backend.life = "dead"]

Loads ==
    /\ boot.backend.life = "loading" /\ ~boot.foreign
    /\ boot' = [boot EXCEPT !.backend.life = "serving"]

ForeignComes ==
    /\ boot.line.kind = "llama" /\ ~boot.foreign /\ boot.backend.life # "serving"
    /\ boot' = [boot EXCEPT !.foreign = TRUE]

ForeignGoes ==
    /\ boot.foreign
    /\ boot' = [boot EXCEPT !.foreign = FALSE]

\* The context of a request: slots share the total unless it is unified.
PerSlot(total) ==
    IF boot.line.unified \/ boot.line.slots <= 1 THEN total ELSE total \div boot.line.slots

\* query_props_context: whoever answers on the port.
Answers ==
    IF boot.foreign THEN Elsewhere
    ELSE IF boot.backend.life = "serving" THEN {PerSlot(boot.backend.total)} ELSE {}

-----------------------------------------------------------------------------
Accepted == boot.line.sound /\ (Managed /\ boot.line.mode = "manual" => boot.line.tokens)

Refuse ==
    /\ boot.phase = "parsing" /\ ~Accepted
    /\ boot' = [boot EXCEPT !.phase = "over"]

\* build_env_startup, build_external_startup, and the branch of ollama.
Configure ==
    /\ boot.phase = "parsing" /\ Accepted /\ boot.line.kind # "llama"
    /\ \E tier \in Vram, found \in Elsewhere \cup {Default} :
          boot' = [boot EXCEPT !.phase = "preparing", !.context =
              CASE boot.line.kind = "ollama" ->
                       IF boot.line.mode = "manual" THEN Manual
                       ELSE IF Fast THEN tier \div 2 ELSE tier
                [] boot.line.tokens -> Manual
                [] boot.line.kind = "env" -> Default
                [] OTHER -> found]

Begin ==
    /\ boot.phase = "parsing" /\ Accepted /\ boot.line.kind = "llama"
    /\ boot' = [boot EXCEPT !.phase = "starting",
                            !.asked = IF boot.line.mode = "manual" THEN Manual ELSE Full]

Failing == [boot EXCEPT !.phase = "failing"]

\* start_with_options: the process that ran is stopped first.  The new one is
\* ready, unless the port is taken or another thing fails; or a foreign server
\* takes the port after it was found free, and answers for the new process.
Start ==
    /\ boot.phase \in {"starting", "restarting"}
    /\ \/ boot' = [Failing EXCEPT !.backend = NoBackend]
       \/ /\ ~boot.foreign
          /\ \E overtaken \in BOOLEAN :
                boot' = [boot EXCEPT
                    !.backend = [life |-> IF overtaken THEN "loading" ELSE "serving",
                                 total |-> boot.asked],
                    !.spawned = @ + 1, !.foreign = overtaken, !.misled = @ \/ overtaken,
                    !.phase = IF Fast /\ boot.phase = "starting" THEN "halving" ELSE "resolving"]

\* Mutant: half of what one slot has.
HalfOfSlot(reported) == reported \div 2

\* start_with_budget_options: what is reported is the share of one slot.
Half(reported) ==
    IF boot.line.unified \/ boot.line.slots <= 1 THEN reported \div 2
    ELSE (reported * boot.line.slots) \div 2

Halve ==
    /\ boot.phase = "halving"
    /\ \/ boot' = Failing
       \/ \E reported \in Answers :
             boot' = [boot EXCEPT !.asked = Half(reported), !.phase = "restarting",
                                  !.misled = @ \/ boot.foreign]

\* resolve_budget.
Resolve ==
    /\ boot.phase = "resolving"
    /\ \/ boot' = Failing
       \/ \E reported \in Answers :
             boot' = [boot EXCEPT !.context = reported, !.phase = "preparing",
                                  !.misled = @ \/ boot.foreign]

\* prepare_classifier_artifact and the two scorers.
Prepare ==
    /\ boot.phase = "preparing"
    /\ boot' \in {Failing, [boot EXCEPT !.phase = "serving"]}

\* An error drops the manager, and with it the backend.
Fail ==
    /\ boot.phase = "failing"
    /\ boot' = [boot EXCEPT !.phase = "over", !.backend = NoBackend]

\* serve: the port cannot be bound, the server fails, or a signal ends it.
ServeEnds ==
    /\ boot.phase = "serving"
    /\ boot' = [boot EXCEPT !.phase = "stopping"]

Stop ==
    /\ boot.phase = "stopping"
    /\ boot' = [boot EXCEPT !.phase = "over", !.backend = NoBackend]

\* A signal before serve has installed its handlers ends the process with
\* nothing dropped; the backend is in a process group of its own.
Killed ==
    /\ boot.phase \in {"parsing", "starting", "halving", "restarting", "resolving", "preparing"}
    /\ boot' = [boot EXCEPT !.phase = "killed"]

Next ==
    \/ Dies \/ Loads \/ ForeignComes \/ ForeignGoes
    \/ Refuse \/ Configure \/ Begin \/ Start \/ Halve \/ Resolve \/ Prepare
    \/ Fail \/ ServeEnds \/ Stop \/ Killed

-----------------------------------------------------------------------------
Near(n, m, margin) == n - m <= margin /\ m - n <= margin

Shares == IF boot.line.unified \/ boot.line.slots <= 1 THEN 1 ELSE boot.line.slots

\* However startup and service end, short of a kill, no backend is left, and a
\* command line that was refused started none.  A proxy that serves from a
\* backend of its own, which no foreign server has answered for, lets a
\* request use what a slot of that backend has, and the backend has the whole
\* context of the model, the half of it, or what was asked for, by the mode.
StartupSound ==
    LET served == boot.backend.total
        ours == boot.line.kind = "llama" /\ boot.phase = "serving" /\ ~boot.misled
                    /\ boot.backend.life = "serving"
    IN  /\ boot.phase = "over" => boot.backend.life = "none"
        /\ ~Accepted => boot.spawned = 0
        /\ ours => /\ boot.context = PerSlot(served)
                   /\ CASE boot.line.mode = "manual" -> served = Manual
                        [] Fast -> Near(2 * served, Full, Shares)
                        [] OTHER -> served = Full

=============================================================================
