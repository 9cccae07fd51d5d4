---------------------------- MODULE PriorResults ----------------------------
(***************************************************************************)
(* What the proxy makes of the history a client sends with a request:      *)
(* openai_to_messages gives every tool call an id of its own               *)
(* (src/proxy/proxy/message_parse.rs), and                                 *)
(* record_completed_proxy_tool_results reads off which tools have already  *)
(* succeeded (src/proxy/handler/prior_tool_results.rs).                    *)
(*                                                                         *)
(* A history is a sequence of calls and results, the messages that carry   *)
(* them flattened; system, user and text messages have no effect here.  An *)
(* id is a number: the raw ids a client uses and the ones the proxy        *)
(* generates (call_%016x of a counter) come from the same space, because a *)
(* client sends generated ids back.                                        *)
(***************************************************************************)
EXTENDS Integers, SequencesExt

CONSTANTS
    RawIds,      \* the ids clients put in their histories
    NoId,        \* a missing or empty id
    Tools,
    Texts,       \* the contents of results
    FailedTexts  \* those that begin with an explicit tool error prefix

ASSUME PriorResultsAssumption ==
    /\ RawIds \subseteq Nat
    /\ NoId \notin Nat
    /\ FailedTexts \subseteq Texts

\* _forge.tool_status of a result: absent, "ok", or anything else.
Statuses == {"absent", "ok", "error"}

Call(id, tool) == [kind |-> "call", id |-> id, tool |-> tool]

Result(id, status, text) ==
    [kind |-> "result", id |-> id, status |-> status, text |-> text]

\* What is sent upstream for a result.
Outputs == [form : {"text", "binary", "dictionary", "reference"}, text : Texts,
            of : Nat \cup {NoId}]

Verbatim(text) == [form |-> "text", text |-> text, of |-> NoId]

-----------------------------------------------------------------------------
(***************************************************************************)
(* Call ids.                                                               *)
(***************************************************************************)
\* generate_call_id, repeated until the id is new to this history.
Generated(seen, counter) ==
    CHOOSE n \in counter .. (counter + Cardinality(seen)) :
        /\ n \notin seen
        /\ counter .. (n - 1) \subseteq seen

\* unique_or_generated_call_id.
NameCall(parse, item) ==
    LET fresh == Generated(parse.seen, parse.counter)
        keeps == item.id # NoId /\ item.id \notin parse.seen
        id == IF keeps THEN item.id ELSE fresh
    IN  [seen |-> parse.seen \cup {id},
         counter |-> IF keeps THEN parse.counter ELSE fresh + 1,
         pending |-> IF item.id = NoId THEN parse.pending
                     ELSE [parse.pending EXCEPT ![item.id] = Append(@, id)],
         messages |-> Append(parse.messages,
                             [kind |-> "call", call |-> id, tool |-> item.tool])]

\* Mutant: a result keeps its raw id, also when its call did not.
NameResultByRawId(parse, item) ==
    [parse EXCEPT !.messages = Append(@, [kind |-> "result", call |-> item.id,
                                          out |-> Verbatim(item.text)])]

\* A result goes to the oldest call of its raw id that has none yet, and
\* keeps its raw id when there is no such call.
NameResult(parse, item) ==
    LET waiting == IF item.id = NoId THEN <<>> ELSE parse.pending[item.id]
        id == IF waiting = <<>> THEN item.id ELSE Head(waiting)
    IN  [parse EXCEPT
            !.pending = IF waiting = <<>> THEN @
                        ELSE [@ EXCEPT ![item.id] = Tail(waiting)],
            !.messages = Append(@, [kind |-> "result", call |-> id,
                                    out |-> Verbatim(item.text)])]

Named(parse, item) ==
    IF item.kind = "call" THEN NameCall(parse, item) ELSE NameResult(parse, item)

\* openai_to_messages: what it has after each message of the history.
Converted(history, counter) ==
    LET parse[n \in 0 .. Len(history)] ==
            IF n = 0
            THEN [seen |-> {}, counter |-> counter,
                  pending |-> [id \in RawIds |-> <<>>], messages |-> <<>>]
            ELSE Named(parse[n - 1], history[n])
    IN  parse[Len(history)]

-----------------------------------------------------------------------------
(***************************************************************************)
(* Completed steps.                                                        *)
(***************************************************************************)
\* The status of the last result that names the raw id, if there is one.
RawStatus(history, id) ==
    LET named == {i \in DOMAIN history : history[i].kind = "result" /\ history[i].id = id}
    IN  IF id = NoId \/ named = {} THEN "absent" ELSE history[Max(named)].status

\* Every transformation that does not keep the start of the text hides the
\* prefix: the dictionary header, the notice of suppressed binary output and
\* the reference to a duplicate all stand where it stood.
HasErrorPrefix(out) == out.form = "text" /\ out.text \in FailedTexts

Succeeded(status, out) ==
    IF status = "absent" THEN ~HasErrorPrefix(out) ELSE status = "ok"

\* The call a message of results answers: the one of its id, made before it.
Answered(messages, i) ==
    {j \in 1 .. (i - 1) : messages[j].kind = "call" /\ messages[j].call = messages[i].call}

\* record_completed_proxy_tool_results: the tools that count as completed.
RecordedTools(history, messages) ==
    {messages[Max(Answered(messages, i))].tool :
        i \in {k \in DOMAIN messages :
                  /\ messages[k].kind = "result"
                  /\ messages[k].call # NoId
                  /\ Succeeded(RawStatus(history, messages[k].call), messages[k].out)
                  /\ Answered(messages, k) # {}}}

=============================================================================
