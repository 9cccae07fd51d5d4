---------------------------- MODULE Conversation ----------------------------
(***************************************************************************)
(* The messages of a run: what the inference loop (src/core/inference.rs)  *)
(* and the runner (src/core/runner.rs, src/core/runner/execution.rs)       *)
(* append after each answer of the model, and what the context manager     *)
(* (src/context/manager.rs) and the compaction strategy                    *)
(* (src/context/strategies.rs) take away before each request.              *)
(*                                                                         *)
(* A message is its kind, its step, the calls it makes or answers, and a   *)
(* size.  The token count a backend reports is tied to the messages it was *)
(* reported for (StoredTokenCount): each answer adds a message, so that    *)
(* the next look at the messages never finds that count, and it is left    *)
(* out.                                                                    *)
(***************************************************************************)
EXTENDS Integers, SequencesExt

CONSTANTS
    KeepRecent,  \* keep_recent of the strategy
    Triggers,    \* the triggers of the phases, from 1 to 3, in tokens
    Thresholds,  \* context_thresholds, ascending, in tokens
    MaxTurns     \* bound: answers of the model

VARIABLE talk    \* the run

Kinds == {"system", "user", "reasoning", "toolCall", "toolResult", "text", "nudge"}
Plain(kind, step, size) == [kind |-> kind, step |-> step, size |-> size, ids |-> {}]

\* A message with no step.
Header == <<Plain("system", -1, 1), Plain("user", -1, 1)>>

\* initial_messages: those of the workflow, or with an exchange of an earlier run.
Seeds ==
    {Header,
     Header \o <<[kind |-> "toolCall", step |-> 1, size |-> 0, ids |-> {0}],
                 [kind |-> "toolResult", step |-> 1, size |-> 1, ids |-> {0}],
                 Plain("user", -1, 1)>>}

Init ==
    \E seed \in Seeds, strategy \in {"none", "sliding", "tiered"} :
        talk = [messages |-> seed, strategy |-> strategy, seeded |-> Len(seed) > 2,
                iteration |-> 0, attempts |-> 0, counter |-> 0, turns |-> 0,
                fired |-> {}, warned |-> 0, before |-> <<>>, sent |-> <<>>]

-----------------------------------------------------------------------------
(* Compaction.                                                             *)

\* estimate_tokens_heuristic
Tokens(messages) == FoldSeq(LAMBDA m, n : m.size + n, 0, messages)

Rest(messages) == SubSeq(messages, 3, Len(messages))
Steps(messages) == {messages[i].step : i \in DOMAIN messages} \ {-1}
Recent(steps) == {s \in steps : Cardinality({t \in steps : t > s}) < KeepRecent}

\* find_protected_window: where it starts in rest.
WindowStart(rest) ==
    LET steps == Steps(rest)
        of == {i \in DOMAIN rest : rest[i].step \in Recent(steps)}
    IN  IF steps = {} THEN 1
        ELSE IF of = {} THEN Len(rest) + 1 ELSE Min(of)

\* Messages of these kinds before the window are dropped.
Without(messages, kinds) ==
    LET rest == Rest(messages)
        kept == {i \in DOMAIN rest : i >= WindowStart(rest) \/ rest[i].kind \notin kinds}
    IN  Header \o [n \in 1 .. Cardinality(kept) |->
                     rest[CHOOSE i \in kept : Cardinality({j \in kept : j <= i}) = n]]

\* A long result is compressed, then cut.
Shortened(messages) ==
    LET from == WindowStart(Rest(messages)) + 2
    IN  [i \in DOMAIN messages |->
            IF i < from /\ messages[i].kind = "toolResult"
            THEN [messages[i] EXCEPT !.size = Min({1, @})]
            ELSE messages[i]]

PhaseOne(messages) == Without(Shortened(messages), {"nudge"})
\* Mutant: the calls go, their results stay.
PhaseTwoCallsOnly(messages) == Without(messages, {"nudge", "toolCall"})
PhaseTwo(messages) == Without(messages, {"nudge", "toolCall", "toolResult"})
PhaseThree(messages) ==
    Without(messages, {"nudge", "toolCall", "toolResult", "reasoning", "text"})

Tiered(messages) ==
    LET one == PhaseOne(messages)
        two == PhaseTwo(one)
    IN  IF Tokens(messages) <= Triggers[1] \/ Len(messages) <= 2 THEN messages
        ELSE IF Tokens(one) <= Triggers[2] THEN one
        ELSE IF Tokens(two) <= Triggers[3] THEN two
        ELSE PhaseThree(two)

Sliding(messages) ==
    IF Tokens(messages) <= Triggers[1] \/ Len(messages) <= 2 THEN messages
    ELSE Header \o SubSeq(messages, WindowStart(Rest(messages)) + 2, Len(messages))

\* maybe_compact
Compacted(messages) ==
    CASE talk.strategy = "none" -> messages
      [] talk.strategy = "sliding" -> Sliding(messages)
      [] talk.strategy = "tiered" -> Tiered(messages)

\* check_thresholds: a threshold above the usage is armed again; the highest one that
\* is reached and armed fires.
StillFired(messages) == {i \in talk.fired : Tokens(messages) >= Thresholds[i]}
Fires(messages) ==
    LET crossed == {i \in DOMAIN Thresholds : Tokens(messages) >= Thresholds[i]}
    IN  IF crossed \ talk.fired = {} THEN {} ELSE {Max(crossed \ talk.fired)}

-----------------------------------------------------------------------------
(* What is appended.                                                       *)

\* format_tool_call_id of as many values of the counter.
NextIds(count) == talk.counter .. talk.counter + count - 1

\* next_unique_tool_call_id: ids of the messages are skipped.
FreshIds(messages, count) ==
    LET taken == UNION {messages[i].ids : i \in DOMAIN messages}
        free == (talk.counter .. talk.counter + count + Cardinality(taken)) \ taken
    IN  {n \in free : Cardinality({m \in free : m < n}) < count}

Answers(kind, step, ids, size) ==
    [n \in 1 .. Cardinality(ids) |->
        [kind |-> kind, step |-> step, size |-> size,
         ids |-> {CHOOSE i \in ids : Cardinality({j \in ids : j <= i}) = n}]]

\* An assistant turn with calls and what answers them.
Exchange(reasonings, ids, answer, step, size) ==
    [r \in 1 .. reasonings |-> Plain("reasoning", step, 1)]
        \o <<[kind |-> "toolCall", step |-> step, size |-> 0, ids |-> ids]>>
        \o Answers(answer, step, ids, size)

\* The request, once the messages have been compacted, and the warning it carries.
Send(kept) ==
    [talk EXCEPT !.before = talk.messages, !.sent = kept, !.turns = @ + 1,
                 !.fired = StillFired(kept) \cup Fires(kept),
                 !.warned = IF Fires(kept) = {} THEN 0 ELSE Max(Fires(kept))]

\* The validator rejects the answer: text, no call, or calls that are unknown or whose
\* arguments are invalid; each of these may bring its reasoning.
Reject ==
    LET kept == Compacted(talk.messages)
        step == talk.iteration
    IN  /\ talk.turns < MaxTurns
        /\ \/ talk' = [Send(kept) EXCEPT !.attempts = @ + 1,
                          !.messages = kept \o <<Plain("text", step, 1), Plain("nudge", step, 1)>>]
           \/ talk' = [Send(kept) EXCEPT !.attempts = @ + 1,
                          !.messages = kept \o <<Plain("nudge", step, 1)>>]
           \/ \E count \in 1 .. 2 : \E reasonings \in {0, count} :
                  LET ids == FreshIds(kept, count)
                  IN  talk' = [Send(kept) EXCEPT !.attempts = @ + 1,
                         !.counter = Max(ids) + 1,
                         !.messages = kept \o Exchange(reasonings, ids, "nudge", step, 1)]

\* The answer is valid: the guardrails answer its calls, or the tools do.
Accept ==
    LET kept == Compacted(talk.messages)
        step == talk.iteration + talk.attempts + 1
    IN  /\ talk.turns < MaxTurns
        /\ \E count \in 1 .. 2, reasonings \in 0 .. 1,
              answer \in {<<"nudge", 1>>, <<"toolResult", 1>>, <<"toolResult", 3>>} :
              talk' = [Send(kept) EXCEPT !.iteration = step, !.attempts = 0,
                         !.counter = @ + count,
                         !.messages = kept \o Exchange(reasonings, NextIds(count), answer[1],
                                                       step, answer[2])]

Next == Reject \/ Accept

-----------------------------------------------------------------------------
Calls(i) == IF talk.sent[i].kind = "toolCall" THEN talk.sent[i].ids ELSE {}

\* A result or a nudge that answers a call is sent only after that call, and the last
\* keep_recent steps of the transcript are sent unchanged (strategies.rs, runner).
CompactionKeeps ==
    /\ \A i \in DOMAIN talk.sent :
           talk.sent[i].kind \in {"toolResult", "nudge"} =>
               talk.sent[i].ids \subseteq UNION {Calls(j) : j \in 1 .. i - 1}
    /\ LET window == Recent(Steps(Rest(talk.before)))
           Earlier(messages, n) == {messages[i].step : i \in 1 .. Len(messages) - n}
       IN  \E n \in 0 .. Min({Len(talk.before), Len(talk.sent)}) :
              /\ \A k \in 0 .. n - 1 :
                    talk.sent[Len(talk.sent) - k] = talk.before[Len(talk.before) - k]
              /\ window \cap (Earlier(talk.sent, n) \cup Earlier(talk.before, n)) = {}

\* Every call that is sent is answered (docs/PARITY.md, "compacted transcripts must
\* stay provider-valid").
CallsAnswered ==
    \A i \in DOMAIN talk.sent :
        Calls(i) \subseteq UNION {talk.sent[j].ids : j \in i + 1 .. Len(talk.sent)}

=============================================================================
