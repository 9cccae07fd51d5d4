----------------------------- MODULE ToolPolicy -----------------------------
(***************************************************************************)
(* evaluate_tool_call_policy (src/tool_policy.rs): batch after batch of a  *)
(* request is held against the three rules of the policy, and the first    *)
(* objection goes back to the model.  A noisy command is objected to once. *)
(***************************************************************************)
EXTENDS Integers, FiniteSetsExt

CONSTANTS
    Commands,    \* the shell commands quiet_command_suggestion knows better than
    MaxBatch,    \* bound on the calls of a batch
    MaxBatches   \* bound on the batches of a request

VARIABLE policy  \* the settings, and what has happened to the request

\* A call: a search for a symbol, a write that is too large or not, a shell
\* command, or anything else.
Calls == {"symbol search", "large write", "small write", "other"} \cup Commands

Settings == [lsp_first : BOOLEAN, write_payload_caps : BOOLEAN, quiet_commands : BOOLEAN]

Init ==
    \E settings \in Settings, lspTools \in BOOLEAN :
        policy = [settings |-> settings, lspTools |-> lspTools, fingerprints |-> {},
                  batches |-> 0, last |-> <<>>, objection |-> "none", told |-> {}]

-----------------------------------------------------------------------------
SearchObjected(batch) ==
    policy.settings.lsp_first /\ policy.lspTools /\ "symbol search" \in Range(batch)

WriteObjected(batch) ==
    policy.settings.write_payload_caps /\ "large write" \in Range(batch)

\* quiet_command_nudge: the first command without a fingerprint.
NewCommands(batch) ==
    IF policy.settings.quiet_commands
    THEN {i \in DOMAIN batch : batch[i] \in Commands \ policy.fingerprints}
    ELSE {}

Told(batch, objection, told, fingerprints) ==
    policy' = [policy EXCEPT !.batches = @ + 1, !.last = batch, !.objection = objection,
                             !.told = @ \cup told, !.fingerprints = @ \cup fingerprints]

ObjectSearch(batch) == SearchObjected(batch) /\ Told(batch, "lsp_first", {}, {})

ObjectWrite(batch) ==
    ~SearchObjected(batch) /\ WriteObjected(batch) /\ Told(batch, "write_payload_cap", {}, {})

\* Mutant: all commands of the batch take their fingerprints at once.
ObjectCommandForAll(batch) ==
    /\ ~SearchObjected(batch) /\ ~WriteObjected(batch) /\ NewCommands(batch) # {}
    /\ LET first == Min(NewCommands(batch))
       IN  Told(batch, "quiet_command", {batch[first]}, Range(batch) \cap Commands)

ObjectCommand(batch) ==
    /\ ~SearchObjected(batch) /\ ~WriteObjected(batch) /\ NewCommands(batch) # {}
    /\ LET first == Min(NewCommands(batch))
       IN  Told(batch, "quiet_command", {batch[first]}, {batch[first]})

Pass(batch) ==
    /\ ~SearchObjected(batch) /\ ~WriteObjected(batch) /\ NewCommands(batch) = {}
    /\ Told(batch, "none", {}, {})

Evaluate(batch) ==
    ObjectSearch(batch) \/ ObjectWrite(batch) \/ ObjectCommand(batch) \/ Pass(batch)

Next ==
    /\ policy.batches < MaxBatches
    /\ \E n \in 1 .. MaxBatch : \E batch \in [1 .. n -> Calls] : Evaluate(batch)

-----------------------------------------------------------------------------
\* A batch passes with a noisy command only after the model was told of that
\* command, and a command it was told of is never what holds a batch back.
ToldBeforePassed ==
    /\ policy.objection = "none" /\ policy.settings.quiet_commands =>
           Range(policy.last) \cap Commands \subseteq policy.told
    /\ policy.fingerprints = policy.told

=============================================================================
