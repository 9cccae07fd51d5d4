---------------------------- MODULE ProxySession ----------------------------
(***************************************************************************)
(* A client's conversation with the proxy over several requests.  Every    *)
(* request carries the whole history; handle_chat_completions_impl         *)
(* converts it, compresses its tool results against the state shared by    *)
(* all requests, and reads off the completed steps (src/proxy/handler.rs,  *)
(* 470-583; src/proxy/handler/compression.rs).  The library server runs    *)
(* requests concurrently; the state has one mutex for duplicates and one   *)
(* for the memo, so a compression is three atomic steps.                   *)
(***************************************************************************)
EXTENDS ToolOutput

CONSTANTS
    Workers,      \* requests handled at the same time
    Answers,      \* the pairs of a status and a text that tools answer with
    Configs,      \* the compression configurations requests arrive with
    MaxItems,     \* bound on the history
    MaxRequests,  \* bound on the requests
    ReusesIds     \* whether the client gives a call an id it has used before

ASSUME ProxySessionAssumption ==
    /\ Answers \subseteq Statuses \X Texts
    /\ Configs \subseteq [mode : DOMAIN FormOf, session : Sessions \cup {NoSession},
                           dedup : BOOLEAN, memo : BOOLEAN]
    /\ {MaxItems, MaxRequests} \subseteq Nat

VARIABLES
    history,  \* the client's messages
    counter,  \* CALL_ID_COUNTER
    dedup,    \* ToolOutputCompressionState::inner
    memo,     \* ToolOutputCompressionState::memo
    request,  \* the request each worker handles
    sent      \* history: the requests that were completed, in order

vars == <<history, counter, dedup, memo, request, sent>>

NoRequest == [pc |-> "idle"]

Init ==
    /\ history = <<>>
    /\ counter = 0
    /\ dedup = NoSessions
    /\ memo = NoSessions
    /\ request = [w \in Workers |-> NoRequest]
    /\ sent = <<>>

-----------------------------------------------------------------------------
(***************************************************************************)
(* The client.                                                             *)
(***************************************************************************)
Used == {history[i].id : i \in {k \in DOMAIN history : history[k].kind = "call"}}

\* The calls without a result, by their place in the history: a result goes
\* to the first of its id.
Open(id) ==
    LET count(kind) == Cardinality({i \in DOMAIN history :
                                        history[i].kind = kind /\ history[i].id = id})
    IN  count("call") > count("result")

Say(item) ==
    /\ Len(history) < MaxItems
    /\ history' = Append(history, item)
    /\ UNCHANGED <<counter, dedup, memo, request, sent>>

ModelCalls(id, tool) ==
    /\ ReusesIds \/ id \notin Used \ {NoId}
    /\ Say(Call(id, tool))

ToolAnswers(id, status, text) ==
    /\ Open(id)
    /\ Say(Result(id, status, text))

-----------------------------------------------------------------------------
(***************************************************************************)
(* The proxy.                                                              *)
(***************************************************************************)
InFlight == {w \in Workers : request[w].pc # "idle"}

\* Mutant: a request that is done stands one place too far.
NextResultPastEnd(messages, i) ==
    Min({k \in i .. Len(messages) : messages[k].kind = "result"} \cup {Len(messages) + 2})

\* The next result of a request at or after a message.
NextResult(messages, i) ==
    Min({k \in i .. Len(messages) : messages[k].kind = "result"} \cup {Len(messages) + 1})

\* openai_to_messages; compress_proxy_tool_results returns at once when the
\* configuration is disabled.
Receive(w, config) ==
    /\ request[w].pc = "idle"
    /\ Len(sent) + Cardinality(InFlight) < MaxRequests
    /\ history # <<>>
    /\ LET parse == Converted(history, counter)
       IN  /\ request' = [request EXCEPT ![w] =
                  [pc |-> "lookup", config |-> config, raw |-> history,
                   messages |-> parse.messages, out |-> <<>>,
                   at |-> IF config.mode = "disabled" THEN Len(history) + 1
                                                      ELSE NextResult(parse.messages, 1)]]
           /\ counter' = parse.counter
    /\ UNCHANGED <<history, dedup, memo, sent>>

Remembers(r) == r.config.memo /\ r.config.session # NoSession /\ r.messages[r.at].call # NoId
Compares(r) == r.config.dedup /\ r.config.session # NoSession /\ r.messages[r.at].call # NoId

\* The result is replaced and the next one is looked at.
Replaced(r, out) ==
    [r EXCEPT !.messages[r.at].out = out, !.pc = "lookup",
              !.at = NextResult(r.messages, r.at + 1), !.out = <<>>]

ToolOf(r) ==
    LET calls == Answered(r.messages, r.at)
    IN  IF calls = {} THEN "generic" ELSE r.messages[Max(calls)].tool

\* The memo lookup, and the filters when it misses.
Lookup(w) ==
    LET r == request[w]
        m == r.messages[r.at]
        hit == Remembers(r) /\ MemoLookup(memo, r.config.session, m.call, m.out.text, r.config)
    IN  /\ r.pc = "lookup" /\ r.at <= Len(r.messages)
        /\ request' = [request EXCEPT ![w] =
              IF hit THEN Replaced(r, memo.of[r.config.session].entries[m.call].out)
              ELSE [r EXCEPT !.out = Filtered(m.out.text, r.config), !.pc = "dedup"]]
        /\ UNCHANGED <<history, counter, dedup, memo, sent>>

\* deduplicate; the reference is taken only when it is shorter.
Deduplicate(w) ==
    LET r == request[w]
        call == r.messages[r.at].call
        first == DuplicateOf(dedup, r.config.session, call, ToolOf(r), r.out)
        reference == Reference(first, r.out.text)
        refers == Compares(r) /\ first # NoId /\ Bytes(reference) < Bytes(r.out)
    IN  /\ r.pc = "dedup"
        /\ dedup' = IF Compares(r)
                    THEN Deduplicated(dedup, r.config.session, call, ToolOf(r), r.out)
                    ELSE dedup
        /\ request' = [request EXCEPT ![w].pc = "store",
                                      ![w].out = IF refers THEN reference ELSE @]
        /\ UNCHANGED <<history, counter, memo, sent>>

Store(w) ==
    LET r == request[w]
        m == r.messages[r.at]
        entry == [text |-> m.out.text, config |-> Fingerprint(r.config), out |-> r.out]
    IN  /\ r.pc = "store"
        /\ memo' = IF Remembers(r) THEN Memoized(memo, r.config.session, m.call, entry)
                                   ELSE memo
        /\ request' = [request EXCEPT ![w] = Replaced(r, r.out)]
        /\ UNCHANGED <<history, counter, dedup, sent>>

\* record_completed_proxy_tool_results, and the request leaves for the model.
Forward(w) ==
    LET r == request[w]
    IN  /\ r.pc = "lookup" /\ r.at > Len(r.messages)
        /\ sent' = Append(sent, [config |-> r.config, raw |-> r.raw, messages |-> r.messages,
                                 recorded |-> RecordedTools(r.raw, r.messages)])
        /\ request' = [request EXCEPT ![w] = NoRequest]
        /\ UNCHANGED <<history, counter, dedup, memo>>

\* The process restarts: ids are counted from the start and the state is empty.
Restart ==
    /\ counter # 0 \/ dedup # NoSessions \/ memo # NoSessions
    /\ counter' = 0
    /\ dedup' = NoSessions
    /\ memo' = NoSessions
    /\ request' = [w \in Workers |-> NoRequest]
    /\ UNCHANGED <<history, sent>>

Compress(w) == Lookup(w) \/ Deduplicate(w) \/ Store(w)

Client ==
    \/ \E id \in RawIds \cup {NoId}, tool \in Tools : ModelCalls(id, tool)
    \/ \E id \in RawIds, a \in Answers : ToolAnswers(id, a[1], a[2])

Next ==
    \/ Client
    \/ Restart
    \/ \E w \in Workers :
          \/ \E config \in Configs : Receive(w, config)
          \/ Compress(w)
          \/ Forward(w)

Spec == Init /\ [][Next]_vars

-----------------------------------------------------------------------------
(***************************************************************************)
(* Properties.                                                             *)
(***************************************************************************)
\* Requests, conversions and state have the shape the actions rely on.
TypeOK ==
    /\ \A i \in DOMAIN history : history[i].kind \in {"call", "result"}
    /\ counter \in Nat
    /\ \A s \in Held(dedup) : Len(dedup.of[s]) \in 1 .. MaxEntries
    /\ \A w \in InFlight :
          LET r == request[w]
          IN  /\ r.pc \in {"lookup", "dedup", "store"}
              /\ r.at \in 1 .. (Len(r.messages) + 1)
              /\ Len(r.messages) = Len(r.raw)
              /\ \A i \in DOMAIN r.messages :
                    r.messages[i].kind = "result" => r.messages[i].out \in Outputs

\* The client names its calls itself: an id stands for one call, and is none
\* of those that the proxy generates for calls without an id.
OwnIds ==
    /\ ~ReusesIds
    /\ \A id \in RawIds : id >= MaxItems * MaxRequests

\* Deduplication forgets nothing: there is room for every session, and for
\* every result in each of the three forms filters leave it in.
Roomy ==
    /\ IsFiniteSet(Sessions) /\ Cardinality(Sessions) <= MaxSessions
    /\ 3 * MaxItems <= MaxEntries

\* A history that is sent again is sent upstream with the same outputs, byte
\* for byte, whatever other requests did to the shared state in between: what
\* compress_tool_output, deduplicate and the memo do together keeps the
\* cached prefix of the model.  So it is under OwnIds and Roomy.
PrefixStable ==
    \A i \in DOMAIN sent : \A j \in (i + 1) .. Len(sent) :
        sent[i].config = sent[j].config =>
            \A k \in DOMAIN sent[i].messages \cap DOMAIN sent[j].messages :
                sent[i].messages[k].kind = "result" =>
                    sent[i].messages[k].out = sent[j].messages[k].out

\* "see earlier result" is true of every reference that is sent: the same
\* request holds, before it, the result of the call it names, with the same
\* text and not itself reduced to a reference.  So it is under OwnIds and Roomy.
ReferencesResolve ==
    \A i \in DOMAIN sent : \A k \in DOMAIN sent[i].messages :
        LET messages == sent[i].messages
        IN  messages[k].kind = "result" /\ messages[k].out.form = "reference" =>
                \E e \in 1 .. (k - 1) :
                    /\ messages[e].kind = "result"
                    /\ messages[e].call = messages[k].out.of
                    /\ messages[e].out.form # "reference"
                    /\ messages[e].out.text = messages[k].out.text

\* The books of the memo balance after every call of store: the total is the
\* length of what is kept, every entry is in the eviction order once, and
\* neither budget is exceeded.
MemoAccounts ==
    /\ Cardinality(Held(memo)) <= MaxSessions
    /\ ToSet(memo.order) = Held(memo) /\ IsInjective(memo.order)
    /\ \A s \in Held(memo) :
          LET m == memo.of[s]
          IN  /\ ToSet(m.order) = DOMAIN m.entries /\ IsInjective(m.order)
              /\ m.total = Weight(m.entries, m.order)
              /\ m.total <= MaxMemoBytes

\* Which tools the history says have succeeded: results answer the calls of
\* their id in order.
Rank(raw, i) ==
    Cardinality({k \in 1 .. i : raw[k].kind = raw[i].kind /\ raw[k].id = raw[i].id})

AnsweredBy(raw, i) ==
    CHOOSE k \in DOMAIN raw :
        raw[k].kind = "call" /\ raw[k].id = raw[i].id /\ Rank(raw, k) = Rank(raw, i)

ResultsOf(raw, tool) ==
    {i \in DOMAIN raw : raw[i].kind = "result" /\ raw[AnsweredBy(raw, i)].tool = tool}

\* What a result tells by its status, or without one by its text: so the
\* documents define it (docs/USER_GUIDE.md 121, docs/SCHEMA.md 239-245).
TellsDone(item) ==
    \/ item.status = "ok"
    \/ item.status = "absent" /\ item.text \notin FailedTexts

\* The status that is read for a result is its own: its call kept its id, and
\* no later result has that id.
SpeaksForItself(s, k) ==
    /\ s.messages[k].call = s.raw[k].id
    /\ \A l \in (k + 1) .. Len(s.raw) :
          s.raw[l].kind = "result" => s.raw[l].id # s.raw[k].id

\* Compression has put something else where an error prefix would stand.
PrefixHidden(s, k) == s.raw[k].status = "absent" /\ s.messages[k].out.form # "text"

\* Every result is judged for the tool of the call it answers, renamed or not.
\* A tool counts as completed when a result that speaks for itself tells so;
\* and when it counts, a result of it tells so, or has lost what it tells in
\* one of two ways: its prefix to compression, its status to another result.
StepsTold ==
    \A i \in DOMAIN sent : \A tool \in Tools :
        LET s == sent[i]
            results == ResultsOf(s.raw, tool)
        IN  /\ (\E k \in results : TellsDone(s.raw[k]) /\ SpeaksForItself(s, k))
                   => tool \in s.recorded
            /\ tool \in s.recorded =>
                   \E k \in results : \/ TellsDone(s.raw[k])
                                      \/ PrefixHidden(s, k)
                                      \/ ~SpeaksForItself(s, k)

=============================================================================
