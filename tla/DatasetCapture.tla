--------------------------- MODULE DatasetCapture ---------------------------
(***************************************************************************)
(* `forge-dataset capture' (src/bin/forge-dataset/capture.rs) over the     *)
(* stub tools (stub_tools.rs): each scenario is a conversation with the    *)
(* proxy, and every call the model makes becomes a row.                    *)
(*                                                                         *)
(* What a stub answers is only whether it is an error; what the model asks *)
(* for is any short list of calls.                                         *)
(***************************************************************************)
EXTENDS Integers, SequencesExt

CONSTANTS
    MaxScenarios,  \* scenarios of the run
    MaxTurns,      \* --max-turns
    MaxErrors      \* --max-scenario-errors

VARIABLE capture  \* the conversation, the rows, the errors

Missing == ""
Calls == [raw : {"a", "a_dup_1", Missing}, tool : {"ok", "error"}, parses : BOOLEAN]
Answers == {<<>>} \cup {<<c>> : c \in Calls} \cup
    {<<c, d>> : c \in {k \in Calls : k.parses /\ k.raw = "a"}, d \in Calls}

Fresh == [messages |-> <<>>, completed |-> <<>>, errors |-> 0, seen |-> {}, turn |-> 0]

Init == capture = [talk |-> Fresh, scenario |-> 1, rows |-> <<>>, failed |-> 0, phase |-> "posting"]

\* A plausible slip: only ids of this turn count as taken.
SeenInTurn(seen) == {}

\* The ids of earlier turns count too.
SeenBefore(seen) == seen

\* normalize_tool_call_ids: an id left out is named after its place, and one
\* already taken gets the first free suffix.
Unused(raw, seen) ==
    IF raw \notin seen THEN raw
    ELSE LET suffixed(k) == raw \o "_dup_" \o ToString(k)
         IN  suffixed(CHOOSE k \in 1..(Cardinality(seen) + 1) :
                 /\ suffixed(k) \notin seen
                 /\ \A j \in 1..(k - 1) : suffixed(j) \in seen)

Named(calls, turn, seen) ==
    LET name(state, i) ==
            LET raw == IF calls[i].raw = Missing
                       THEN "capture_call_" \o ToString(turn) \o "_" \o ToString(i)
                       ELSE calls[i].raw
                id == Unused(raw, state.seen)
            IN  [seen |-> state.seen \cup {id}, ids |-> Append(state.ids, id)]
    IN  FoldLeft(name, [seen |-> SeenBefore(seen), ids |-> <<>>], [i \in DOMAIN calls |-> i])

Message(role, ids) == [role |-> role, ids |-> ids]

\* One call: it is parsed, run and written down, and its result said.
Ran(state, i, calls, ids) ==
    IF state.failed \/ ~calls[i].parses THEN [state EXCEPT !.failed = TRUE]
    ELSE LET call == calls[i]
             fine == call.tool = "ok"
         IN  [state EXCEPT
                !.rows = Append(@, [scenario |-> capture.scenario, turn |-> state.talk.turn,
                                    call |-> i, id |-> ids[i], fine |-> fine,
                                    completed |-> Len(state.talk.completed),
                                    errors |-> state.talk.errors]),
                !.talk.completed = IF fine THEN Append(@, call.tool) ELSE @,
                !.talk.errors = IF fine THEN @ ELSE @ + 1,
                !.talk.messages = Append(@, Message("tool", <<ids[i]>>))]

\* The scenario is over; too many that failed end the run.
Leave(rows, failed) ==
    LET count == capture.failed + (IF failed THEN 1 ELSE 0)
        over == count > MaxErrors \/ capture.scenario = MaxScenarios
    IN  capture' = [talk |-> Fresh, rows |-> rows, failed |-> count,
                    scenario |-> IF over THEN capture.scenario ELSE capture.scenario + 1,
                    phase |-> IF over THEN "done" ELSE "posting"]

Turn ==
    /\ capture.phase = "posting"
    /\ \E calls \in Answers :
          LET talk == capture.talk
              named == Named(calls, talk.turn, talk.seen)
              asked == [talk EXCEPT !.seen = talk.seen \cup named.seen,
                          !.messages = Append(@, Message("assistant", named.ids))]
              run == FoldLeft(LAMBDA state, i : Ran(state, i, calls, named.ids),
                              [talk |-> asked, rows |-> capture.rows, failed |-> FALSE],
                              [i \in DOMAIN calls |-> i])
          IN  IF calls = <<>> THEN Leave(capture.rows, FALSE)
              ELSE IF run.failed THEN Leave(run.rows, TRUE)
              ELSE IF talk.turn + 1 = MaxTurns THEN Leave(run.rows, FALSE)
              ELSE capture' = [capture EXCEPT !.talk = [run.talk EXCEPT !.turn = @ + 1],
                                              !.rows = run.rows]

\* The proxy cannot be reached, or answers what cannot be read.
PostFails == capture.phase = "posting" /\ Leave(capture.rows, TRUE)

Next == Turn \/ PostFails

-----------------------------------------------------------------------------
Ids(role) ==
    LET said == SelectSeq(capture.talk.messages, LAMBDA m : m.role = role)
    IN  FlattenSeq([i \in DOMAIN said |-> said[i].ids])

\* Whatever ids the model gives, reuses or leaves out, every call posted back
\* has an id of its own and its result, in order; every row has a capture key
\* of its own, which is what a resumed review goes by; and a row's workflow
\* state is that of the calls before it in the same scenario.
CapturesSound ==
    LET rows == capture.rows
        before(i, fine) == Cardinality({j \in 1..(i - 1) :
                              rows[j].scenario = rows[i].scenario /\ rows[j].fine = fine})
    IN  /\ IsInjective(Ids("assistant"))
        /\ Ids("assistant") = Ids("tool")
        /\ IsInjective([i \in DOMAIN rows |-> <<rows[i].scenario, rows[i].id>>])
        /\ \A i \in DOMAIN rows :
               rows[i].completed = before(i, TRUE) /\ rows[i].errors = before(i, FALSE)
        /\ capture.failed <= MaxErrors + 1
=============================================================================
