----------------------------- MODULE ToolOutput -----------------------------
(***************************************************************************)
(* Compression of a tool result (src/tool_output.rs) and the state it      *)
(* keeps between requests: per session, the outputs already sent           *)
(* (src/tool_output/state/dedup.rs) and the outputs it made of them        *)
(* (src/tool_output/state/memo.rs).                                        *)
(*                                                                         *)
(* The text filters are abstracted to the form they leave a text in; the   *)
(* forms that matter are those that do and do not keep its beginning.      *)
(***************************************************************************)
EXTENDS PriorResults

CONSTANTS
    Sessions,          \* session ids of configurations
    NoSession,         \* a configuration without one
    FormOf,            \* mode -> text -> the form the filters give it
    TextBytes,         \* text -> its length
    ReferenceBytes,    \* the length of a reference
    MaxSessions,       \* max_dedup_sessions
    MaxEntries,        \* max_dedup_entries_per_session
    MaxMemoOutput,     \* MAX_MEMO_OUTPUT_BYTES
    MaxMemoBytes       \* MAX_MEMO_BYTES_PER_SESSION

ASSUME ToolOutputAssumption ==
    /\ NoSession \notin Sessions
    /\ {MaxSessions, MaxEntries} \subseteq Nat \ {0}
    /\ {ReferenceBytes, MaxMemoOutput, MaxMemoBytes} \subseteq Nat
    /\ MaxMemoOutput <= MaxMemoBytes
    /\ TextBytes \in [Texts -> Nat]
    /\ \A mode \in DOMAIN FormOf :
          /\ FormOf[mode] \in [Texts -> {"text", "binary", "dictionary"}]
          /\ \A text \in Texts : FormOf[mode][text] = "dictionary" => TextBytes[text] > 0

Bytes(out) ==
    CASE out.form = "text" -> TextBytes[out.text]
      [] out.form = "dictionary" -> TextBytes[out.text] - 1
      [] OTHER -> ReferenceBytes

\* apply_safe_filters, apply_standard_filters and apply_aggressive_filters.
Filtered(text, config) ==
    [form |-> FormOf[config.mode][text], text |-> text, of |-> NoId]

Reference(call, text) == [form |-> "reference", text |-> text, of |-> call]

-----------------------------------------------------------------------------
(***************************************************************************)
(* Both states hold sessions in the order they came.                       *)
(***************************************************************************)
NoSessions == [order |-> <<>>, of |-> <<>>]

Held(state) == DOMAIN state.of

Opened(state, session, empty) ==
    IF session \in Held(state) THEN state
    ELSE [order |-> Append(state.order, session),
          of |-> [s \in Held(state) \cup {session} |-> IF s = session THEN empty
                                                                     ELSE state.of[s]]]

\* The oldest sessions go, never the one in use.
Trimmed(state, session) ==
    IF Cardinality(Held(state)) <= MaxSessions THEN state
    ELSE IF Head(state.order) = session
         THEN [state EXCEPT !.order = Append(Tail(@), session)]
         ELSE [order |-> Tail(state.order),
               of |-> [s \in Held(state) \ {Head(state.order)} |-> state.of[s]]]

-----------------------------------------------------------------------------
(***************************************************************************)
(* Deduplication.                                                          *)
(***************************************************************************)
\* Mutant: any output of the tool is taken for a duplicate.
DuplicatesOfTool(dedup, session, tool, out) ==
    IF session \notin Held(dedup) THEN {}
    ELSE {i \in DOMAIN dedup.of[session] : dedup.of[session][i].tool = tool}

\* The records of the session that have this output of this tool.
Duplicates(dedup, session, tool, out) ==
    IF session \notin Held(dedup) THEN {}
    ELSE {i \in DOMAIN dedup.of[session] :
             dedup.of[session][i].tool = tool /\ dedup.of[session][i].out = out}

\* Mutant: a call that is sent again is a duplicate of itself.
DuplicateOfItself(dedup, session, call, tool, out) ==
    LET known == Duplicates(dedup, session, tool, out)
    IN  IF known = {} THEN NoId ELSE dedup.of[session][Min(known)].call

\* What deduplicate returns: the call to refer to, or NoId to keep the output.
DuplicateOf(dedup, session, call, tool, out) ==
    LET known == Duplicates(dedup, session, tool, out)
        first == dedup.of[session][Min(known)].call
    IN  IF known = {} \/ first = call THEN NoId ELSE first

\* What it leaves behind: an output it has not met is recorded.
Deduplicated(dedup, session, call, tool, out) ==
    IF Duplicates(dedup, session, tool, out) # {} THEN dedup
    ELSE LET opened == Opened(dedup, session, <<>>)
             records == Append(opened.of[session], [tool |-> tool, out |-> out, call |-> call])
             kept == IF Len(records) > MaxEntries THEN Tail(records) ELSE records
         IN  Trimmed([opened EXCEPT !.of[session] = kept], session)

-----------------------------------------------------------------------------
(***************************************************************************)
(* The memo.                                                               *)
(***************************************************************************)
\* config_fingerprint: the fields that influence the output.
Fingerprint(config) == <<config.mode, config.dedup>>

EmptyMemo == [entries |-> <<>>, order |-> <<>>, total |-> 0]

\* The bytes of the outputs of some calls.
Weight(entries, calls) ==
    LET sum[n \in 0 .. Len(calls)] ==
            IF n = 0 THEN 0 ELSE sum[n - 1] + Bytes(entries[calls[n]].out)
    IN  sum[Len(calls)]

\* Mutant: the bytes of an entry that is replaced stay counted.
ForgottenUncounted(memo, call) ==
    IF call \notin DOMAIN memo.entries THEN memo
    ELSE [entries |-> [c \in DOMAIN memo.entries \ {call} |-> memo.entries[c]],
          order |-> RemoveFirst(memo.order, call),
          total |-> memo.total]

\* MemoSession::remove: a call stands in the order once.
Forgotten(memo, call) ==
    IF call \notin DOMAIN memo.entries THEN memo
    ELSE [entries |-> [c \in DOMAIN memo.entries \ {call} |-> memo.entries[c]],
          order |-> RemoveFirst(memo.order, call),
          total |-> memo.total - Bytes(memo.entries[call].out)]

MemoLookup(state, session, call, text, config) ==
    /\ session \in Held(state)
    /\ call \in DOMAIN state.of[session].entries
    /\ LET entry == state.of[session].entries[call]
       IN  entry.text = text /\ entry.config = Fingerprint(config)

\* The entries that go, oldest first, until the budget holds again.
Evicted(memo) ==
    LET after(n) == memo.total - Weight(memo.entries, SubSeq(memo.order, 1, n))
        n == Min({k \in 0 .. Len(memo.order) : after(k) <= MaxMemoBytes})
        kept == SubSeq(memo.order, n + 1, Len(memo.order))
    IN  [entries |-> [c \in ToSet(kept) |-> memo.entries[c]], order |-> kept,
         total |-> after(n)]

\* MemoState::store.
Memoized(state, session, call, entry) ==
    LET oversized == Bytes(entry.out) > MaxMemoOutput
        opened == Opened(state, session, EmptyMemo)
        cleared == Forgotten(opened.of[session], call)
        added == [entries |-> [c \in DOMAIN cleared.entries \cup {call} |->
                                  IF c = call THEN entry ELSE cleared.entries[c]],
                  order |-> Append(cleared.order, call),
                  total |-> cleared.total + Bytes(entry.out)]
    IN  IF oversized /\ session \notin Held(state) THEN state
        ELSE Trimmed([opened EXCEPT !.of[session] =
                          IF oversized THEN cleared ELSE Evicted(added)], session)

=============================================================================
