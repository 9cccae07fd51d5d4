--------------------------- MODULE LzwDictionary ----------------------------
(***************************************************************************)
(* compress_lzw_dictionary (src/tool_output/lzw.rs): repeated substrings   *)
(* of a tool output are replaced by markers, and a dictionary of the       *)
(* markers is put before the text.  The model that reads the output, and   *)
(* nobody else, expands it.                                                *)
(*                                                                         *)
(* A text is a sequence of symbols of length one.  A marker is told from   *)
(* the text: its nonce does not occur in it.  Which of two equally good    *)
(* candidates leaves the heap first is left open.                          *)
(***************************************************************************)
EXTENDS Integers, SequencesExt

CONSTANTS
    Symbols, Newline,  \* the symbols of texts
    MaxText,           \* bound on the texts
    Lengths,           \* SELECTED_SUBSTRING_LENGTHS
    MinOccurrences,    \* DICTIONARY_MIN_OCCURRENCES
    MaxEntries,        \* DICTIONARY_MAX_DICT_SIZE
    MarkerLen,         \* the length of a marker, to the scale of Lengths
    EntryOverhead,     \* what a dictionary line costs besides marker and text
    MinEntrySavings,   \* DICTIONARY_MIN_ENTRY_SAVINGS_BYTES
    MaxReevals         \* MAX_REEVALS

VARIABLE lzw  \* the text, and where the selection stands

Texts == UNION {[1 .. n -> Symbols \cup {Newline}] : n \in 1 .. MaxText}

At(text, pos, len) == SubSeq(text, pos, pos + len - 1)

Savings(len, count) ==
    count * len - (count * MarkerLen + MarkerLen + len + EntryOverhead)

-----------------------------------------------------------------------------
\* find_repeated_substrings: a candidate is a substring of one line that
\* starts at enough places, overlapping ones included, to promise a saving.
Places(text, original) ==
    {p \in 1 .. (Len(text) - Len(original) + 1) : At(text, p, Len(original)) = original}

Repeated(text) ==
    {s \in UNION {{At(text, p, len) : p \in 1 .. (Len(text) - len + 1)} : len \in Lengths} :
        /\ Newline \notin ToSet(s)
        /\ Cardinality(Places(text, s)) >= MinOccurrences
        /\ Savings(Len(s), Cardinality(Places(text, s))) > 0}

Init ==
    \E text \in Texts :
        lzw = [text |-> text, used |-> {}, selected |-> <<>>, reevals |-> 0,
               heap |-> {<<Savings(Len(s), Cardinality(Places(text, s))), s>> :
                            s \in Repeated(text)}]

\* Mutant: only the place where an entry starts counts as used.
FreeStart(text, used, original) ==
    LET len == Len(original)
        from[p \in 1 .. (Len(text) + 1)] ==
            IF p + len - 1 > Len(text) THEN {}
            ELSE IF At(text, p, len) = original /\ p \notin used
                 THEN {p} \cup (IF p + len > Len(text) THEN {} ELSE from[p + len])
                 ELSE from[p + 1]
    IN  from[1]

\* non_overlapping_positions: from the left, clear of each other and of used.
Free(text, used, original) ==
    LET len == Len(original)
        from[p \in 1 .. (Len(text) + 1)] ==
            IF p + len - 1 > Len(text) THEN {}
            ELSE IF At(text, p, len) = original /\ (p .. (p + len - 1)) \cap used = {}
                 THEN {p} \cup (IF p + len > Len(text) THEN {} ELSE from[p + len])
                 ELSE from[p + 1]
    IN  from[1]

Covered(positions, len) == UNION {p .. (p + len - 1) : p \in positions}

Best(heap) == {entry \in heap : \A other \in heap : other[1] <= entry[1]}

\* select_non_overlapping, one turn of its loop: the best candidate is weighed
\* again, and goes back, is dropped or becomes an entry.
Pop(entry) ==
    LET original == entry[2]
        rest == lzw.heap \ {entry}
        positions == Free(lzw.text, lzw.used, original)
        realized == Savings(Len(original), Cardinality(positions))
        worse == /\ realized < entry[1] /\ lzw.reevals < MaxReevals
                 /\ \E other \in rest : realized < other[1]
        pays == Cardinality(positions) >= MinOccurrences /\ realized >= MinEntrySavings
    IN  /\ Len(lzw.selected) < MaxEntries
        /\ lzw' = IF ~pays THEN [lzw EXCEPT !.heap = rest]
                  ELSE IF worse
                  THEN [lzw EXCEPT !.heap = rest \cup {<<realized, original>>},
                                   !.reevals = @ + 1]
                  ELSE [lzw EXCEPT !.heap = rest,
                                   !.used = @ \cup Covered(positions, Len(original)),
                                   !.selected = Append(@, [original |-> original,
                                                           positions |-> positions])]

Next == \E entry \in Best(lzw.heap) : Pop(entry)

-----------------------------------------------------------------------------
\* apply_replacements: from the right, each chosen stretch of the text gives
\* way to its marker.
Chosen == UNION {{<<p, e>> : p \in lzw.selected[e].positions} : e \in DOMAIN lzw.selected}

Body ==
    LET fromTheRight == SetToSortSeq(Chosen, LAMBDA a, b : a[1] > b[1])
        Put(choice, body) ==
            SubSeq(body, 1, choice[1] - 1) \o <<[marker |-> choice[2]]>> \o
            SubSeq(body, choice[1] + Len(lzw.selected[choice[2]].original), Len(body))
    IN  FoldLeft(LAMBDA body, choice : Put(choice, body),
                 [p \in DOMAIN lzw.text |-> [literal |-> lzw.text[p]]], fromTheRight)

Expanded(body) ==
    FlattenSeq([i \in DOMAIN body |->
        IF "marker" \in DOMAIN body[i] THEN lzw.selected[body[i].marker].original
                                       ELSE <<body[i].literal>>])

\* Reading the markers of the body back through the dictionary gives the text,
\* however the candidates overlapped.
RoundTrip == Expanded(Body) = lzw.text

=============================================================================
