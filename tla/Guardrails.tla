----------------------------- MODULE Guardrails -----------------------------
(***************************************************************************)
(* The facade for programs that own their loop                             *)
(* (src/guardrails/guardrails.rs): check judges a response of the model,   *)
(* record is told which tools were executed.  It is a second user of       *)
(* Workflow, beside the runner, with counters of its own.                  *)
(*                                                                         *)
(* The program follows the middleware example of docs/USER_GUIDE.md: it    *)
(* answers a refusal with the nudge, stops at a fatal one, and runs the    *)
(* tools of an approved batch; which of them it records is up to it, and   *)
(* it may ask the model again without recording anything.                  *)
(***************************************************************************)
EXTENDS Workflow

CONSTANTS
    MaxRetries,    \* max_retries
    MaxPremature,  \* max_premature_attempts
    MaxBatch,      \* bound on the batches
    NoArg          \* what is recorded for the arguments of a call

VARIABLE guard     \* the facade, the batch it approved last, and its caller

MaxPrereq == 2

Batches == UNION {[1 .. n -> Calls] : n \in 1 .. MaxBatch}

Fresh == [retries |-> 0, premature |-> 0, unprepared |-> 0]

\* refused counts the refusals in a row, objected says that a scorer made one.
Init ==
    \E scored \in BOOLEAN :
        guard = [scored |-> scored, recorded |-> {}, counts |-> Fresh, action |-> "new",
                 batch |-> <<>>, refused |-> 0, objected |-> FALSE, ran |-> {}, done |-> FALSE]

\* The refusals in a row, if each valid response forgives the retries only.
Budget == (MaxRetries + 1) * (MaxPremature + MaxPrereq + 1)

Over == guard.action = "fatal" \/ guard.done

-----------------------------------------------------------------------------
\* A refusal is fatal once its counter exceeds its limit.
Refused(counts, exhausted, objection) ==
    [guard EXCEPT !.counts = counts, !.batch = <<>>, !.refused = @ + 1,
                  !.objected = @ \/ objection,
                  !.action = IF exhausted THEN "fatal" ELSE "refused"]

\* check, a response that is not valid.
CheckInvalid ==
    LET counts == [guard.counts EXCEPT !.retries = @ + 1]
    IN  guard' = Refused(counts, counts.retries > MaxRetries, FALSE)

\* Mutant: a valid response forgives skipped steps as well.
ValidForgiving == [guard.counts EXCEPT !.retries = 0, !.premature = 0]

\* A valid response resets the retries, whatever comes of it.
Valid == [guard.counts EXCEPT !.retries = 0]

CheckPremature(batch) ==
    LET counts == [Valid EXCEPT !.premature = @ + 1]
    IN  /\ Premature(batch, guard.recorded)
        /\ guard' = Refused(counts, counts.premature > MaxPremature, FALSE)

CheckPrerequisites(batch) ==
    LET counts == [Valid EXCEPT !.unprepared = @ + 1]
    IN  /\ ~Premature(batch, guard.recorded) /\ Unprepared(batch, guard.recorded)
        /\ guard' = Refused(counts, counts.unprepared > MaxPrereq, FALSE)

Cleared(batch) == ~Premature(batch, guard.recorded) /\ ~Unprepared(batch, guard.recorded)

\* The scorer asks for a nudge, or blocks; no counter ends that, so it is
\* bounded here.
CheckObjected(batch) ==
    LET counts == [Valid EXCEPT !.retries = @ + 1]
    IN  /\ guard.scored /\ Cleared(batch)
        /\ guard.refused < Budget
        /\ guard' = Refused(counts, counts.retries > MaxRetries, TRUE)

CheckApproved(batch) ==
    /\ Cleared(batch)
    /\ guard' = [guard EXCEPT !.counts = Valid, !.batch = batch, !.action = "execute",
                              !.refused = 0, !.objected = FALSE]

Check ==
    /\ ~Over
    /\ \/ CheckInvalid
       \/ \E batch \in Batches : \/ CheckPremature(batch)
                                 \/ CheckPrerequisites(batch)
                                 \/ CheckObjected(batch)
                                 \/ CheckApproved(batch)

\* record: the names of the executed calls, without their arguments.  It is
\* done when a terminal tool is among them and nothing is pending.
Record ==
    /\ guard.action = "execute"
    /\ \E executed \in SUBSET DOMAIN guard.batch :
          LET calls == {guard.batch[i] : i \in executed}
              recorded == guard.recorded \cup {[tool |-> c.tool, arg |-> NoArg] : c \in calls}
          IN  guard' = [guard EXCEPT
                  !.recorded = recorded, !.counts = Fresh, !.action = "recorded",
                  !.ran = @ \cup {c.tool : c \in calls}, !.batch = <<>>,
                  !.done = (\E c \in calls : IsTerminal(c)) /\ Satisfied(recorded)]

Next == Check \/ Record

-----------------------------------------------------------------------------
\* A model that is refused again and again comes to a fatal refusal within a
\* bound the limits give, through all three counters and their resets, as long
\* as no scorer objects; where nothing is fatal the model can always move on:
\* some call is approved that was not executed yet or ends the run; and a run
\* is only done with every required step executed, and a terminal tool last.
GuardrailsHold ==
    /\ ~guard.objected => guard.refused <= Budget
    /\ guard.refused = Budget /\ ~guard.objected => guard.action = "fatal"
    /\ ~Over => \E c \in Calls :
          /\ Cleared(<<c>>)
          /\ IsTerminal(c) \/ c.tool \notin guard.ran
    /\ guard.done => Required \subseteq guard.ran /\ guard.ran \cap Terminal # {}

=============================================================================
