-------------------------- MODULE RepairDictionary --------------------------
(***************************************************************************)
(* compress_repair_dictionary (src/tool_output/repair.rs): the sequence of *)
(* tokens whose replacement saves most becomes a rule, again and again;    *)
(* rules may stand for tokens that are rules themselves, and their         *)
(* expansions are plain text.                                              *)
(*                                                                         *)
(* Tokens of the output are symbols of length one.  Of equally good        *)
(* sequences any may be taken.                                             *)
(***************************************************************************)
EXTENDS Integers, SequencesExt

CONSTANTS
    Symbols,          \* the tokens of texts
    MaxText,          \* bound on the texts
    MinRule, MaxRule, \* MIN_RULE_BYTES, MAX_RULE_BYTES
    MinOccurrences,   \* DICTIONARY_MIN_OCCURRENCES
    MaxRules,         \* DICTIONARY_MAX_DICT_SIZE
    MarkerLen,        \* the length of a marker
    EntryOverhead,    \* what a dictionary line costs besides marker and text
    MinEntrySavings   \* DICTIONARY_MIN_ENTRY_SAVINGS_BYTES

VARIABLE repair  \* the text, the tokens it has become, and the rules

Texts == UNION {[1 .. n -> Symbols] : n \in 2 .. MaxText}

Literal(symbol) == [rule |-> 0, expanded |-> <<symbol>>]

Init ==
    \E text \in Texts :
        repair = [text |-> text, rules |-> <<>>,
                  tokens |-> [i \in DOMAIN text |-> Literal(text[i])]]

Expansion(tokens, i, len) ==
    FlattenSeq([k \in 1 .. len |-> tokens[i + k - 1].expanded])

\* The sequences best_sequence_candidate counts, by expansion and token length.
SequencesOf(tokens) ==
    {[expansion |-> Expansion(tokens, span[1], span[2]), len |-> span[2]] :
        span \in {s \in (1 .. Len(tokens)) \X (2 .. Len(tokens)) :
                     s[1] + s[2] - 1 <= Len(tokens)}}

Eligible(key) == Len(key.expansion) \in MinRule .. MaxRule

\* non_overlapping_sequence_positions: from the left.
Positions(tokens, key) ==
    LET from[i \in 1 .. (Len(tokens) + 1)] ==
            IF i + key.len - 1 > Len(tokens) THEN {}
            ELSE IF Expansion(tokens, i, key.len) = key.expansion
                 THEN {i} \cup from[i + key.len]
                 ELSE from[i + 1]
    IN  from[1]

Savings(key, count) ==
    count * Len(key.expansion)
        - (count * MarkerLen + MarkerLen + Len(key.expansion) + EntryOverhead)

Saved(tokens, key) == Savings(key, Cardinality(Positions(tokens, key)))

Worthwhile(tokens) ==
    {key \in SequencesOf(tokens) :
        /\ Eligible(key)
        /\ Cardinality(Positions(tokens, key)) >= MinOccurrences
        /\ Saved(tokens, key) >= MinEntrySavings}

\* Mutant: an occurrence is taken for as many tokens as it has symbols.
ReplacedBySymbols(tokens, key, rule) ==
    LET places == Positions(tokens, key)
        from[i \in 1 .. (Len(tokens) + 1)] ==
            IF i > Len(tokens) THEN <<>>
            ELSE IF i \in places
                 THEN <<[rule |-> rule, expanded |-> key.expansion]>> \o
                      (IF i + Len(key.expansion) > Len(tokens) THEN <<>>
                       ELSE from[i + Len(key.expansion)])
                 ELSE <<tokens[i]>> \o from[i + 1]
    IN  from[1]

\* replace_sequence: every chosen place becomes a token of the new rule.
Replaced(tokens, key, rule) ==
    LET places == Positions(tokens, key)
        from[i \in 1 .. (Len(tokens) + 1)] ==
            IF i > Len(tokens) THEN <<>>
            ELSE IF i \in places
                 THEN <<[rule |-> rule, expanded |-> key.expansion]>> \o from[i + key.len]
                 ELSE <<tokens[i]>> \o from[i + 1]
    IN  from[1]

\* One turn of the loop of compress_repair_dictionary.
AddRule ==
    \E key \in Worthwhile(repair.tokens) :
        /\ Len(repair.rules) < MaxRules
        /\ \A other \in Worthwhile(repair.tokens) :
              Saved(repair.tokens, other) <= Saved(repair.tokens, key)
        /\ repair' = [repair EXCEPT
              !.tokens = Replaced(repair.tokens, key, Len(repair.rules) + 1),
              !.rules = Append(@, [expansion |-> key.expansion])]

Next == AddRule

-----------------------------------------------------------------------------
\* The body expands to the text with the dictionary alone: a marker is its
\* rule's expansion, whatever sequence of tokens it replaced.
RoundTrip ==
    FlattenSeq([i \in DOMAIN repair.tokens |->
        IF repair.tokens[i].rule = 0 THEN repair.tokens[i].expanded
        ELSE repair.rules[repair.tokens[i].rule].expansion]) = repair.text

=============================================================================
