---------------------------- MODULE WireMessages ----------------------------
(***************************************************************************)
(* The transcript as each backend gets it: merge_messages and the prompt   *)
(* downgrade of src/clients/llamafile/helpers.rs, the new call ids of      *)
(* src/clients/openai_compat.rs, and convert_messages of                   *)
(* src/clients/anthropic/convert.rs.                                       *)
(*                                                                         *)
(* A message has a role and parts; a part is a text, a call or a result,   *)
(* and `at' is its place in the transcript, the message and the part.      *)
(* `raw' is the id the caller wrote, `id' the one sent.                    *)
(***************************************************************************)
EXTENDS Integers, SequencesExt

CONSTANTS MaxMessages  \* bound: messages of a transcript

VARIABLE wire  \* the transcript, the client, what is sent and beside it as system

Missing == ""
Raw == {"a", "b", Missing}
Forms == {"llamafile native", "llamafile prompt", "anyllm", "anthropic"}

Part(kind, raw, at) == [kind |-> kind, raw |-> raw, id |-> raw, at |-> at]
Message(role, parts) == [role |-> role, parts |-> parts]
TextPart(m) == Part("text", Missing, <<m, 1>>)
CallPart(raw, m, p) == Part("call", raw, <<m, p>>)

\* The messages a caller can add at place `m'.  An assistant's calls come
\* alone, or with a text beside them: what it said, or the reasoning that
\* fold_and_serialize puts there.
Turns(m) ==
    {Message(role, <<TextPart(m)>>) : role \in {"system", "user", "assistant"}}
      \cup {Message("assistant", <<CallPart(raw, m, 1)>>) : raw \in Raw}
      \cup {Message("assistant", <<CallPart("a", m, 1), CallPart(raw, m, 2)>>) : raw \in {"a", "b"}}
      \cup {Message("assistant", <<TextPart(m), CallPart(raw, m, 2)>>) : raw \in {"a", Missing}}
      \cup {Message("tool", <<Part("result", raw, <<m, 1>>)>>) : raw \in Raw}

Init == wire = [turns |-> <<>>, form |-> "none", sent |-> <<>>, system |-> <<>>]

IsCall(part) == part.kind = "call"
HasCalls(message) == \E i \in DOMAIN message.parts : IsCall(message.parts[i])
Invisible(message) == HasCalls(message) \/ message.role = "tool"

-----------------------------------------------------------------------------
(* merge_messages: texts of one role become one message, and the calls and *)
(* results met meanwhile follow it.                                        *)

Flushed(state) ==
    state.out \o (IF state.role = "" THEN <<>> ELSE <<Message(state.role, state.texts)>>)
              \o state.held

Merged(messages) ==
    LET step(state, message) ==
            IF Invisible(message) THEN [state EXCEPT !.held = Append(@, message)]
            ELSE IF state.role \in {"", message.role}
            THEN [state EXCEPT !.role = message.role, !.texts = @ \o message.parts]
            ELSE [out |-> Flushed(state), held |-> <<>>,
                  role |-> message.role, texts |-> message.parts]
    IN  Flushed(FoldLeft(step, [out |-> <<>>, held |-> <<>>, role |-> "", texts |-> <<>>], messages))

\* downgrade_messages_for_prompt: results are user texts, calls assistant
\* texts; a text beside calls is not looked at.
AsText(part) == [part EXCEPT !.kind = "text"]
Texts(parts) == [j \in DOMAIN parts |-> AsText(parts[j])]
Downgraded(messages) ==
    [i \in DOMAIN messages |->
        LET message == messages[i]
        IN  IF message.role = "tool" THEN Message("user", Texts(message.parts))
            ELSE IF HasCalls(message)
            THEN Message("assistant", Texts(SelectSeq(message.parts, IsCall)))
            ELSE message]

-----------------------------------------------------------------------------
(* normalize_openai_message_tool_call_ids: every call gets the next number;*)
(* a result takes the number of the first call of its id still waiting.    *)

\* A plausible slip: one waiting call per id, the last.
QueuedLast(waiting, fresh) == <<fresh>>
Queued(waiting, fresh) == Append(waiting, fresh)

\* A result with no id is left as it is.
Renumbered(state, part) ==
    LET fresh == ToString(state.next)
        waiting == state.pending[part.raw]
    IN  CASE part.kind = "call" ->
                [part |-> [part EXCEPT !.id = fresh], next |-> state.next + 1,
                 pending |-> IF part.raw = Missing THEN state.pending
                             ELSE [state.pending EXCEPT ![part.raw] = Queued(@, fresh)]]
          [] part.kind = "result" /\ part.raw # Missing /\ waiting # <<>> ->
                [part |-> [part EXCEPT !.id = Head(waiting)], next |-> state.next,
                 pending |-> [state.pending EXCEPT ![part.raw] = Tail(@)]]
          [] part.kind = "result" /\ part.raw # Missing /\ waiting = <<>> ->
                [part |-> [part EXCEPT !.id = fresh], next |-> state.next + 1,
                 pending |-> state.pending]
          [] OTHER -> [part |-> part, next |-> state.next, pending |-> state.pending]

Normalized(messages) ==
    LET each(state, part) ==
            LET step == Renumbered(state, part)
            IN  [next |-> step.next, pending |-> step.pending,
                 parts |-> Append(state.parts, step.part)]
        one(state, message) ==
            LET after == FoldLeft(each, [next |-> state.next, pending |-> state.pending,
                                         parts |-> <<>>], message.parts)
            IN  [next |-> after.next, pending |-> after.pending,
                 out |-> Append(state.out, Message(message.role, after.parts))]
    IN  FoldLeft(one, [next |-> 0, pending |-> [raw \in Raw |-> <<>>], out |-> <<>>],
                 messages).out

-----------------------------------------------------------------------------
(* convert_messages: the last system message is sent apart, results become*)
(* user messages, and a user message is preceded by an error result for    *)
(* every call that still has none; then neighbours of one role are joined. *)

\* A call's id left out is named after the place of the message.
UseId(part, place) ==
    IF IsCall(part) /\ part.raw = Missing
    THEN [part EXCEPT !.id = "toolu_" \o ToString(place)] ELSE part

NotExecuted(id) == [kind |-> "result", raw |-> Missing, id |-> id, at |-> <<>>]

Converted(state, message) ==
    LET uses == [j \in DOMAIN message.parts |-> UseId(message.parts[j], Len(state.out))]
        calls == SelectSeq(uses, IsCall)
        answered == IF message.parts[1].raw = Missing THEN "unknown" ELSE message.parts[1].raw
        unpaired == [j \in DOMAIN state.pending |-> NotExecuted(state.pending[j])]
    IN  CASE message.role = "system" -> [state EXCEPT !.system = message.parts]
          [] HasCalls(message) ->
                [state EXCEPT !.out = Append(@, Message("assistant", uses)),
                              !.pending = @ \o [j \in DOMAIN calls |-> calls[j].id]]
          [] message.role = "tool" ->
                [state EXCEPT !.out = Append(@, Message("user",
                                          <<[message.parts[1] EXCEPT !.id = answered]>>)),
                              !.pending = SelectSeq(@, LAMBDA id : id # answered)]
          [] message.role = "user" ->
                [state EXCEPT !.out = Append(@, Message("user", unpaired \o message.parts)),
                              !.pending = <<>>]
          [] OTHER -> [state EXCEPT !.out = Append(@, message)]

Joined(messages) ==
    LET step(out, message) ==
            IF out # <<>> /\ Last(out).role = message.role
            THEN [out EXCEPT ![Len(out)].parts = @ \o message.parts]
            ELSE Append(out, message)
    IN  FoldLeft(step, <<>>, messages)

ConvertMessages(messages) ==
    LET state == FoldLeft(Converted, [out |-> <<>>, pending |-> <<>>, system |-> <<>>], messages)
    IN  [sent |-> Joined(state.out), system |-> state.system]

-----------------------------------------------------------------------------
Sent(form, messages) ==
    LET plain(out) == [sent |-> out, system |-> <<>>]
    IN  CASE form = "llamafile native" -> plain(Normalized(Merged(messages)))
          [] form = "llamafile prompt" -> plain(Downgraded(messages))
          [] form = "anyllm" -> plain(Normalized(messages))
          [] form = "anthropic" -> ConvertMessages(messages)

Say ==
    /\ wire.form = "none"
    /\ Len(wire.turns) < MaxMessages
    /\ \E turn \in Turns(Len(wire.turns) + 1) :
           wire' = [wire EXCEPT !.turns = Append(@, turn)]

Send ==
    /\ wire.form = "none"
    /\ \E form \in Forms :
           LET body == Sent(form, wire.turns)
           IN  wire' = [wire EXCEPT !.form = form, !.sent = body.sent, !.system = body.system]

Next == Say \/ Send

-----------------------------------------------------------------------------
Parts(messages) == FlattenSeq([i \in DOMAIN messages |-> messages[i].parts])
CountOf(parts, kind, raw, upTo) ==
    Cardinality({i \in 1..upTo : parts[i].kind = kind /\ parts[i].raw = raw})

\* New ids are the calls' own, and a result has the id of its own call.
IdsPair(parts) ==
    /\ \A i, j \in DOMAIN parts :
           /\ parts[i].kind = "call" /\ parts[i].id = parts[j].id /\ i # j
           => parts[j].kind = "result" /\ parts[j].raw = parts[i].raw /\ i < j
    /\ \A j \in DOMAIN parts :
           LET raw == parts[j].raw
               place == CountOf(parts, "result", raw, j)
           IN  parts[j].kind = "result" /\ raw # Missing /\ CountOf(parts, "call", raw, j) >= place
                  /\ (\A k \in 1..j : CountOf(parts, "call", raw, k) >= CountOf(parts, "result", raw, k))
               => \E i \in 1..(j - 1) :
                      /\ parts[i].kind = "call" /\ parts[i].raw = raw /\ parts[i].id = parts[j].id
                      /\ CountOf(parts, "call", raw, i) = place

\* A user's words come after a result for every call before them.
ResultsFirst(messages) ==
    \A m \in DOMAIN messages : \A p \in DOMAIN messages[m].parts :
        messages[m].role = "user" /\ messages[m].parts[p].kind = "text" =>
            \A n \in 1..(m - 1) : \A q \in DOMAIN messages[n].parts :
                messages[n].parts[q].kind = "call" =>
                    \E k \in (n + 1)..m : \E r \in DOMAIN messages[k].parts :
                        /\ messages[k].parts[r].kind = "result"
                        /\ messages[k].parts[r].id = messages[n].parts[q].id
                        /\ k < m \/ r < p

Alternates(messages) == \A i \in 1..(Len(messages) - 1) : messages[i].role # messages[i + 1].role

\* Where in the transcript the parts of `messages' come from.
Places(messages) ==
    LET parts == SelectSeq(Parts(messages), LAMBDA part : part.at # <<>>)
    IN  [i \in DOMAIN parts |-> parts[i].at]

\* What the code does lose: in prompt mode a text beside calls, and at
\* Anthropic every system text but the last.
Lost(form, turns) ==
    LET textsBesideCalls(m) ==
            {p \in DOMAIN turns[m].parts : HasCalls(turns[m]) /\ ~IsCall(turns[m].parts[p])}
        followed(m) == \E n \in (m + 1)..Len(turns) : turns[n].role = "system"
    IN  CASE form = "llamafile prompt" ->
                UNION {{<<m, p>> : p \in textsBesideCalls(m)} : m \in DOMAIN turns}
          [] form = "anthropic" ->
                {<<m, 1>> : m \in {n \in DOMAIN turns : turns[n].role = "system" /\ followed(n)}}
          [] OTHER -> {}

\* All else is sent, once, and in the order of the transcript, a system text
\* sent apart and llamafile's merged texts excepted.
SentOnce(form, turns, sent, system) ==
    LET kept == SelectSeq(Places(turns), LAMBDA at : at \notin Lost(form, turns))
        got == Places(sent)
        all == Places(<<Message("system", system)>>) \o got
    IN  /\ IsInjective(all) /\ ToSet(all) = ToSet(kept)
        /\ form # "llamafile native" => got = SelectSeq(kept, LAMBDA at : at \in ToSet(got))

\* Whatever the transcript, the calls and results an OpenAI-style server gets
\* pair as the caller's did, even when the caller reused an id; an Anthropic
\* server gets alternating roles and no user text while a call is unanswered;
\* llamafile's visible messages alternate; and each text, call and result of
\* the transcript is sent exactly once and in its order, but for the two
\* losses the code has (helpers.rs 158-180, convert.rs 38-40).
WirePairs ==
    LET sent == wire.sent
        visible == SelectSeq(sent, LAMBDA message : ~Invisible(message))
    IN  /\ wire.form \in {"llamafile native", "anyllm"} => IdsPair(Parts(sent))
        /\ wire.form = "llamafile native" => Alternates(visible)
        /\ wire.form = "anthropic" => Alternates(sent) /\ ResultsFirst(sent)
        /\ wire.form # "none" => SentOnce(wire.form, wire.turns, sent, wire.system)
=============================================================================
