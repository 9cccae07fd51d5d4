----------------------------- MODULE LogDataset -----------------------------
(***************************************************************************)
(* generatetd (notebook/generatetd/generatetd): agent logs of Codex and    *)
(* Claude are read line by line (parsers.py), every tool call found        *)
(* becomes a training row or is quarantined, synthetic negatives are added,*)
(* rows are deduplicated by the scorer's input and shared out by group     *)
(* (pipeline.py).                                                          *)
(*                                                                         *)
(* A user request is its number, a call is its id and what it does, and    *)
(* what the reviewing model decides is any of its outcomes.                *)
(***************************************************************************)
EXTENDS Integers, SequencesExt

CONSTANTS
    MaxRecords,   \* lines of the log
    MaxRequested  \* synthetic rows asked for, of each kind

VARIABLE logs  \* the log as read, and the rows made of it

Missing == ""
Ids == {"a", "b", Missing}
Records ==
    [kind : {"user", "text"}]
    \cup [kind : {"call"}, id : Ids, does : {"x"}]
    \cup [kind : {"output"}, id : {"a", "b"}, error : BOOLEAN]
Reviewers == {"none", "client"}
Splits == {"train", "validation", "test"}

Init ==
    logs \in [format : {"codex", "claude"}, reviewer : Reviewers, synthetic : 0..MaxRequested,
              read : {<<>>}, request : {0}, pending : {<<>>}, observed : {<<>>}, recent : {<<>>},
              finals : {<<>>}, next : {1}, rows : {<<>>}, quarantine : {0}, conflicts : {0},
              merged : {0}, split : {<<>>}, phase : {"parsing"}]

Observation(line, id, does) ==
    [line |-> line, id |-> id, does |-> does, request |-> logs.request, output |-> 0, error |-> FALSE]

\* A dict: a call under an id still pending takes its place.
Wait(call) ==
    LET at == SelectInSeq(logs.pending, LAMBDA o : o.id = call.id)
    IN  IF at = 0 THEN Append(logs.pending, call) ELSE [logs.pending EXCEPT ![at] = call]

Result(observation, line, error) == [observation EXCEPT !.output = line, !.error = error]

\* parse_codex_file, parse_claude_file: an output goes to the pending call of
\* its id. Codex makes an unknown tool of one without a call, Claude drops it.
Parse(record, line) ==
    LET at == SelectInSeq(logs.pending, LAMBDA o : o.id = record.id)
        done == IF at = 0 THEN Observation(line, record.id, "unknown") ELSE logs.pending[at]
        answered == Result(done, line, record.error)
    IN  CASE record.kind = "user" -> [logs EXCEPT !.request = line]
          [] record.kind = "text" ->
                IF logs.recent = <<>> THEN logs
                ELSE [logs EXCEPT !.finals = Append(@, [results |-> logs.recent,
                                                        request |-> logs.request]), !.recent = <<>>]
          [] record.kind = "call" ->
                LET id == IF record.id = Missing THEN "line " \o ToString(line) ELSE record.id
                IN  [logs EXCEPT !.pending = Wait(Observation(line, id, record.does))]
          [] OTHER ->
                IF at = 0 /\ logs.format = "claude" THEN logs
                ELSE [logs EXCEPT !.observed = Append(@, answered), !.recent = Append(@, line),
                                  !.pending = IF at = 0 THEN @ ELSE RemoveAt(@, at)]

Read ==
    /\ logs.phase = "parsing" /\ Len(logs.read) < MaxRecords
    /\ \E record \in Records :
          logs' = [Parse(record, Len(logs.read) + 1) EXCEPT !.read = Append(@, record)]

\* What was called and never answered is observed as well.
EndOfLog ==
    /\ logs.phase = "parsing"
    /\ logs' = [logs EXCEPT !.observed = @ \o logs.pending, !.pending = <<>>, !.phase = "reviewing"]

\* The scorer's input: an error is part of the workflow state it shows.
Row(observation, label, synthetic) ==
    [input |-> <<observation.request, observation.does,
                 IF observation.error THEN observation.output ELSE 0>>,
     label |-> label, group |-> observation.request, line |-> observation.line,
     synthetic |-> synthetic]

\* build_tool_row: without a reviewer a success counts as valid and a failure
\* waits; with one its label stands if it is a training label, sure enough
\* when it is not `valid', and not turned down by the verifier.
Decisions(observation) ==
    IF logs.reviewer = "none" THEN {IF observation.error THEN "quarantine" ELSE "valid"}
    ELSE {"valid", "wrong", "quarantine"}

Build ==
    /\ logs.phase = "reviewing"
    /\ IF logs.next > Len(logs.observed) THEN logs' = [logs EXCEPT !.phase = "synthesizing"]
       ELSE \E label \in Decisions(logs.observed[logs.next]) :
              LET observation == logs.observed[logs.next]
              IN  logs' = IF label = "quarantine"
                          THEN [logs EXCEPT !.quarantine = @ + 1, !.next = @ + 1]
                          ELSE [logs EXCEPT !.rows = Append(@, Row(observation, label, FALSE)),
                                            !.next = @ + 1]

\* generate_synthetic_tool_rows: of each kind asked for, one negative of each
\* valid row; wrong_tool makes none.
Negatives(valid) ==
    LET some == SubSeq(valid, 1, IF logs.synthetic < Len(valid) THEN logs.synthetic ELSE Len(valid))
        negative(row, input) == [row EXCEPT !.input = input, !.label = "wrong", !.synthetic = TRUE]
    IN  [i \in DOMAIN some |-> negative(some[i], <<some[i].input[1], "less", 0>>)]
        \o [i \in DOMAIN some |-> negative(some[i], <<-1, some[i].input[2], 0>>)]

\* dedupe_rows: the first row of an input stays, whatever comes after it.
Deduplicated(rows) ==
    LET first(i) == ~\E j \in 1..(i - 1) : rows[j].input = rows[i].input
        standing(i) == rows[CHOOSE j \in 1..i : rows[j].input = rows[i].input /\ first(j)]
        again == {i \in DOMAIN rows : ~first(i)}
        disputed == {i \in again : standing(i).label # rows[i].label}
    IN  [rows |-> FoldLeft(LAMBDA s, i : IF first(i) THEN Append(s, rows[i]) ELSE s, <<>>,
                           [i \in DOMAIN rows |-> i]),
         conflicts |-> Cardinality(disputed), merged |-> Cardinality(again \ disputed)]

Synthesize ==
    /\ logs.phase = "synthesizing"
    /\ LET valid == SelectSeq(logs.rows, LAMBDA row : row.label = "valid")
           kept == Deduplicated(logs.rows \o Negatives(valid))
       IN  logs' = [logs EXCEPT !.rows = kept.rows, !.conflicts = kept.conflicts,
                                !.merged = kept.merged, !.phase = "splitting"]

\* A plausible slip: rows are shared out one by one.
KeyOfRow(row) == <<row.line, row.synthetic>>

\* The hash of the task group says where a row goes.
SplitKey(row) == <<row.group>>

WriteSplits ==
    /\ logs.phase = "splitting"
    /\ \E bucket \in [{SplitKey(logs.rows[i]) : i \in DOMAIN logs.rows} -> Splits] :
          logs' = [logs EXCEPT !.split = [i \in DOMAIN logs.rows |-> bucket[SplitKey(logs.rows[i])]],
                               !.phase = "done"]

Next == Read \/ EndOfLog \/ Build \/ Synthesize \/ WriteSplits

-----------------------------------------------------------------------------
\* A call is observed at most once and with the first output that came for its
\* id, and is lost only when its id was taken again first; each result is in
\* one final response at most; every observation is a row or is quarantined,
\* and every row stays, is merged or is reported; a real row is never given up
\* for a synthetic one; and what comes of one request stays in one split.
LogsSound ==
    LET seen == logs.observed \o logs.pending
        outputs == SelectSeq([i \in DOMAIN logs.observed |-> logs.observed[i].output], LAMBDA n : n # 0)
        results == FlattenSeq([i \in DOMAIN logs.finals |-> logs.finals[i].results]) \o logs.recent
        calls == {i \in DOMAIN logs.read : logs.read[i].kind = "call"}
        taken(i, j) == logs.read[j].kind \in {"call", "output"} /\ logs.read[j].id = logs.read[i].id
        rows == logs.rows
        built == logs.phase \in {"splitting", "done"}
    IN  /\ IsInjective([i \in DOMAIN seen |-> seen[i].line])
        /\ IsInjective(outputs) /\ IsInjective(results)
        /\ \A o \in ToSet(logs.observed) : o.output # 0 /\ o.line \in calls =>
              /\ o.line < o.output
              /\ ~\E j \in (o.line + 1)..(o.output - 1) : taken(o.line, j)
        /\ \A i \in calls : i \notin {seen[n].line : n \in DOMAIN seen} =>
              /\ \E j \in (i + 1)..Len(logs.read) : taken(i, j) /\ logs.read[j].kind = "call"
        /\ ~built => Len(rows) + logs.quarantine = logs.next - 1
        /\ built =>
              /\ IsInjective([i \in DOMAIN rows |-> rows[i].input])
              /\ \A i \in DOMAIN rows : rows[i].synthetic =>
                    \A o \in ToSet(logs.observed) : Row(o, "valid", FALSE).input # rows[i].input
              /\ LET real == Len(SelectSeq(rows, LAMBDA row : ~row.synthetic))
                 IN  real + logs.quarantine <= Len(logs.observed)
        /\ logs.phase = "done" => \A i, j \in DOMAIN rows :
              rows[i].group = rows[j].group => logs.split[i] = logs.split[j]
=============================================================================
