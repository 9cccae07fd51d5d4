------------------------------ MODULE Scoring ------------------------------
(***************************************************************************)
(* The semantic scorers (src/guardrails/scoring.rs, onnx_scorer/): a batch *)
(* of candidate calls is scored one after the other, each on the blocking  *)
(* pool under a permit of the shared executor, from a cache of earlier     *)
(* scores or by one of the model's sessions; what the scores ask for       *)
(* becomes at most one nudge.                                              *)
(*                                                                         *)
(* A candidate is the text it serializes to; the model is deterministic, so*)
(* the score of a text is fixed at the start. A caller may be dropped at   *)
(* any moment; a scoring task that has begun is not.                       *)
(***************************************************************************)
EXTENDS Integers, SequencesExt

CONSTANTS
    Callers,   \* batches scored at the same time
    Permits,   \* max_concurrency of the executor
    Sessions,  \* session_pool_size
    Capacity   \* entries of the score cache

VARIABLE scoring  \* batches, tasks on the blocking pool, the scorer

Texts == {"t", "u"}
Batches == {<<"t">>, <<"t", "u">>, <<"u", "t">>}
Free == "free"
Scores == {[label |-> "valid", sure |-> 2], [label |-> "deterministic_invalid", sure |-> 2]}
    \cup [label : {"wrong"}, sure : 0..2]

\* action_for, with the advisory threshold at 1 and the enforcing one at 2.
Action(mode, score) ==
    CASE score.label = "valid" -> "allow"
      [] score.label = "deterministic_invalid" \/ mode = "shadow" \/ score.sure = 0 -> "shadow"
      [] OTHER -> IF mode = "enforce" /\ score.sure = 2 THEN "block" ELSE "nudge"

\* validate_runtime_mode: a quantized artifact marked shadow-only does not
\* load for more.
Loads(mode, marked) == marked => mode = "shadow"

Idle == [phase |-> "idle", batch |-> <<>>, at |-> 1, heard |-> <<>>, nudge |-> 0]

Init ==
    /\ scoring \in [callers : {[c \in Callers |-> Idle]}, tasks : {{}}, sessions : {[s \in 1..Sessions |-> Free]},
                    cache : {<<>>}, next : {0}, score : [Texts -> Scores],
                    mode : {"shadow", "advisory", "enforce"}, marked : BOOLEAN]
    /\ Loads(scoring.mode, scoring.marked)

Begin(c) ==
    /\ scoring.callers[c].phase = "idle"
    /\ \E batch \in Batches :
          scoring' = [scoring EXCEPT !.callers[c] = [Idle EXCEPT !.phase = "waiting", !.batch = batch]]

\* A plausible slip: the permit goes back when the caller does.
HeldByCallers == {t \in scoring.tasks : scoring.callers[t.caller].phase = "scoring"}

\* The permit moves into the task.
Holding == scoring.tasks

\* run_blocking: a permit, and then the task is on its own.
Acquire(c) ==
    /\ scoring.callers[c].phase = "waiting"
    /\ Cardinality(Holding) < Permits
    /\ LET caller == scoring.callers[c]
       IN  scoring' = [scoring EXCEPT
               !.callers[c].phase = "scoring",
               !.tasks = @ \cup {[caller |-> c, text |-> caller.batch[caller.at], phase |-> "begun",
                                  session |-> 0]}]

Become(task, next) == (scoring.tasks \ {task}) \cup {next}

\* Score: a hit moves to the front; a miss takes the next session in turn.
Hit(task) == SelectInSeq(scoring.cache, LAMBDA text : text = task.text)

Touched(cache, text) ==
    LET entries == <<text>> \o RemoveFirst(cache, text)
    IN  SubSeq(entries, 1, IF Len(entries) < Capacity THEN Len(entries) ELSE Capacity)

\* What the batch has heard: on_score, and the nudge it asks for. A block
\* overrides, an advice does not.
Heard(caller, text, ok) ==
    LET action == IF ok THEN Action(scoring.mode, scoring.score[text]) ELSE "shadow"
    IN  [caller EXCEPT !.heard = Append(@, action), !.at = @ + 1,
            !.nudge = IF action = "block" \/ (action = "nudge" /\ @ = 0) THEN caller.at ELSE @,
            !.phase = IF caller.at = Len(caller.batch) THEN "done" ELSE "waiting"]

Report(task, ok) ==
    LET caller == scoring.callers[task.caller]
    IN  [scoring.callers EXCEPT ![task.caller] =
            IF caller.phase = "scoring" THEN Heard(caller, task.text, ok) ELSE caller]

LookUp(task) ==
    /\ task.phase = "begun"
    /\ IF Hit(task) # 0
       THEN scoring' = [scoring EXCEPT !.tasks = @ \ {task}, !.cache = Touched(@, task.text),
                                       !.callers = Report(task, TRUE)]
       ELSE scoring' = [scoring EXCEPT !.next = (@ + 1) % Sessions,
                !.tasks = Become(task, [task EXCEPT !.phase = "queued", !.session = scoring.next + 1])]

\* The session's mutex.
Lock(task) ==
    /\ task.phase = "queued" /\ scoring.sessions[task.session] = Free
    /\ scoring' = [scoring EXCEPT !.sessions[task.session] = task.caller,
                                  !.tasks = Become(task, [task EXCEPT !.phase = "running"])]

\* The model ran, or its run failed and the call is let through.
Finish(task, ok) ==
    /\ task.phase = "running"
    /\ scoring' = [scoring EXCEPT !.sessions[task.session] = Free, !.tasks = @ \ {task},
                      !.cache = IF ok THEN Touched(@, task.text) ELSE @, !.callers = Report(task, ok)]

\* The request is dropped: its client left, or its run was cancelled.
Drop(c) ==
    /\ scoring.callers[c].phase \in {"waiting", "scoring"}
    /\ scoring' = [scoring EXCEPT !.callers[c].phase = "dropped"]

Next ==
    \/ \E c \in Callers : Begin(c) \/ Acquire(c) \/ Drop(c)
    \/ \E task \in scoring.tasks : LookUp(task) \/ Lock(task) \/ \E ok \in BOOLEAN : Finish(task, ok)

-----------------------------------------------------------------------------
\* However callers come and are dropped, no more scorings are on the pool than
\* there are permits and one at most is in a session; the cache is within
\* bounds and holds each text once; and a batch is nudged for the last of its
\* blocks, else for the first advice, and for nothing when none was asked for.
ScoringBounded ==
    /\ Cardinality(scoring.tasks) <= Permits
    /\ \A s, t \in scoring.tasks : s.phase = "running" /\ t.phase = "running" /\ s # t => s.session # t.session
    /\ IsInjective(scoring.cache) /\ Len(scoring.cache) <= Capacity
    /\ \A c \in Callers :
          LET caller == scoring.callers[c]
              asked(action) == {i \in DOMAIN caller.heard : caller.heard[i] = action}
          IN  caller.nudge = IF asked("block") # {} THEN Max(asked("block"))
                             ELSE IF asked("nudge") # {} THEN Min(asked("nudge")) ELSE 0
    /\ scoring.marked => \A c \in Callers : scoring.callers[c].nudge = 0
=============================================================================
