---------------------------- MODULE TextFilters -----------------------------
(***************************************************************************)
(* Three transforms of a tool output: cap_output (src/tool_output/         *)
(* safety.rs) keeps windows of an output that is too long, around an error *)
(* if it can; fold_repeated_lines and json_array_to_table (postcall.rs)    *)
(* shorten what repeats.  What they write is read by the model.            *)
(*                                                                         *)
(* For the cap a text is a sequence of characters, of one byte or of two,  *)
(* line ends, and error signals; for the folding it is a sequence of       *)
(* lines; for the table it is a sequence of objects of scalar fields.      *)
(***************************************************************************)
EXTENDS Integers, SequencesExt

CONSTANTS
    Limits,       \* values of max_output_bytes
    MaxText,      \* bound on the texts to be capped
    ScanLimit,    \* ERROR_SIGNAL_SCAN_LIMIT
    MaxLines,     \* bound on the texts to be folded
    MaxPeriod,    \* MAX_FOLD_PERIOD
    MaxRows       \* bound on the arrays to be tabulated

VARIABLE filter  \* an input and the transform it meets, then what came out

Seqs(set, low, high) == UNION {[1 .. n -> set] : n \in low .. high}

-----------------------------------------------------------------------------
\* Cap.  Offsets count characters; Bytes says how long a stretch is.
Width(char) == IF char = "wide" THEN 2 ELSE 1

Bytes(text) == FoldLeft(LAMBDA sum, char : sum + Width(char), 0, text)

Before(text, n) == Bytes(SubSeq(text, 1, n))

\* take_bytes_on_char_boundary, take_last_bytes_on_char_boundary: the first
\* characters of a text, and the number of characters its last ones follow.
HeadEnd(text, limit) == Max({n \in 0 .. Len(text) : Before(text, n) <= limit})

TailStart(text, limit) ==
    IF Bytes(text) <= limit THEN 0
    ELSE LET starts == {n \in 0 .. (Len(text) - 1) : Before(text, n) >= Bytes(text) - limit}
         IN  IF starts = {} THEN Len(text) ELSE Min(starts)

\* The line of a text that begins after its first n characters.
LineStarts(text) ==
    {n \in 0 .. (Len(text) - 1) : n = 0 \/ text[n] = "newline"}

LineEnd(text, n) ==
    Min({k \in n .. Len(text) : k = Len(text) \/ text[k + 1] = "newline"})

Signals(text) ==
    {n \in LineStarts(text) : \E k \in (n + 1) .. LineEnd(text, n) : text[k] = "error"}

\* first_uncovered_error_signal: among the first signals, the first that
\* neither the head nor the tail of the plain split keeps whole.
Uncovered(text, headLimit, tailFrom) ==
    {n \in Signals(text) :
        /\ Cardinality({m \in Signals(text) : m < n}) < ScanLimit
        /\ Before(text, LineEnd(text, n)) > headLimit
        /\ Before(text, n) < tailFrom}

Plain(text, max) ==
    LET headLimit == (max * 3) \div 5
    IN  <<<<0, HeadEnd(text, headLimit)>>, <<TailStart(text, max - headLimit), Len(text)>>>>

\* Mutant: the window begins at the signal, even inside the head.
WindowedOverlapping(text, max, signal) ==
    LET headLimit == (max * 45) \div 100
        windowLimit == (max * 20) \div 100
        head == HeadEnd(text, headLimit)
        tail == TailStart(text, max - headLimit - windowLimit)
        from == Min({signal, tail})
        window == from + HeadEnd(SubSeq(text, from + 1, tail), windowLimit)
    IN  IF windowLimit = 0 \/ window = from THEN <<>>
        ELSE <<<<0, head>>, <<from, window>>, <<tail, Len(text)>>>>

\* cap_output_error_aware: head, a window at the signal, and tail, or nothing.
Windowed(text, max, signal) ==
    LET headLimit == (max * 45) \div 100
        windowLimit == (max * 20) \div 100
        head == HeadEnd(text, headLimit)
        tail == TailStart(text, max - headLimit - windowLimit)
        from == Min({Max({signal, head}), tail})
        window == from + HeadEnd(SubSeq(text, from + 1, tail), windowLimit)
    IN  IF windowLimit = 0 \/ window = from THEN <<>>
        ELSE <<<<0, head>>, <<from, window>>, <<tail, Len(text)>>>>

\* cap_output: the windows of the text that are kept.
Capped(text, max) ==
    LET headLimit == (max * 3) \div 5
        uncovered == Uncovered(text, headLimit, Bytes(text) - (max - headLimit))
        windowed == IF uncovered = {} THEN <<>>
                    ELSE Windowed(text, max, Min(uncovered))
    IN  IF Bytes(text) <= max THEN <<<<0, Len(text)>>>>
        ELSE IF windowed # <<>> THEN windowed ELSE Plain(text, max)

-----------------------------------------------------------------------------
\* Mutant: a cycle ends where its block is found once more, not where it ends.
CycleAtShort(lines, i) ==
    LET Block(period, n) == SubSeq(lines, i + n * period, i + (n + 1) * period - 1)
        Fits(period, n) == i + (n + 1) * period - 1 <= Len(lines)
        periods == {p \in 1 .. MaxPeriod : Fits(p, 1) /\ Block(p, 1) = Block(p, 0)}
        period == Min(periods)
    IN  IF periods = {} THEN <<1, 1>>
        ELSE <<period, Max({n \in 2 .. Len(lines) :
                          Fits(period, n - 1) /\ Block(period, n - 1) = Block(period, 0)})>>

\* repeated_cycle_at: the smallest period that repeats at once, and how often.
CycleAt(lines, i) ==
    LET Block(period, n) == SubSeq(lines, i + n * period, i + (n + 1) * period - 1)
        Fits(period, n) == i + (n + 1) * period - 1 <= Len(lines)
        periods == {p \in 1 .. MaxPeriod : Fits(p, 1) /\ Block(p, 1) = Block(p, 0)}
        period == Min(periods)
    IN  IF periods = {} THEN <<1, 1>>
        ELSE <<period, Max({n \in 2 .. Len(lines) :
                  \A k \in 1 .. (n - 1) :
                      Fits(period, k) /\ Block(period, k) = Block(period, 0)})>>

\* fold_repeated_lines: blocks of lines, each with the number of its copies.
Folded(lines) ==
    LET from[i \in 1 .. (Len(lines) + 1)] ==
            IF i > Len(lines) THEN <<>>
            ELSE LET cycle == CycleAt(lines, i)
                 IN  <<[block |-> SubSeq(lines, i, i + cycle[1] - 1), count |-> cycle[2]]>>
                         \o from[i + cycle[1] * cycle[2]]
    IN  from[1]

-----------------------------------------------------------------------------
\* Table.  A value is its kind and its rendering; null and missing fields are
\* rendered alike.
Scalars == {[kind |-> "int", shown |-> "1"], [kind |-> "float", shown |-> "1.0"],
            [kind |-> "string", shown |-> "1"], [kind |-> "string", shown |-> "quoted"],
            [kind |-> "null", shown |-> ""]}

Columns == {"a", "b"}

Objects == UNION {[names -> Scalars] : names \in SUBSET Columns}

KindsOf(rows, column) ==
    {rows[i][column].kind : i \in {j \in DOMAIN rows : column \in DOMAIN rows[j]}} \ {"null"}

\* ScalarKind::merge, over a column: numbers mix, and nothing else does.
Mixes(kinds) == Cardinality(kinds) <= 1 \/ kinds = {"int", "float"}

Tabular(rows) ==
    /\ Len(rows) >= 2
    /\ \E i \in DOMAIN rows : DOMAIN rows[i] # {}
    /\ \A column \in Columns : Mixes(KindsOf(rows, column))

\* json_array_to_table: for each row and column what is between the commas, and
\* the kinds of the columns.
Table(rows) ==
    LET columns == UNION {DOMAIN rows[i] : i \in DOMAIN rows}
    IN  [kinds |-> [column \in columns |-> KindsOf(rows, column)],
         cells |-> [i \in DOMAIN rows |-> [column \in columns |->
                       IF column \in DOMAIN rows[i] THEN rows[i][column].shown ELSE ""]]]

-----------------------------------------------------------------------------
Init ==
    \/ \E text \in Seqs({"a", "wide", "newline", "error"}, 1, MaxText), max \in Limits :
           filter = [does |-> "cap", text |-> text, max |-> max, output |-> <<>>]
    \/ \E lines \in Seqs({"a", "b"}, 3, MaxLines) :
           filter = [does |-> "fold", lines |-> lines, output |-> <<>>]
    \/ \E rows \in Seqs(Objects, 2, MaxRows) :
           filter = [does |-> "table", rows |-> rows, output |-> <<>>]

Cap ==
    /\ filter.does = "cap"
    /\ filter' = [filter EXCEPT !.does = "capped", !.output = Capped(filter.text, filter.max)]

Fold ==
    /\ filter.does = "fold"
    /\ filter' = [filter EXCEPT !.does = "folded", !.output = Folded(filter.lines)]

Tabulate ==
    /\ filter.does = "table" /\ Tabular(filter.rows)
    /\ filter' = [filter EXCEPT !.does = "tabulated", !.output = Table(filter.rows)]

Next == Cap \/ Fold \/ Tabulate

-----------------------------------------------------------------------------
\* The windows that are kept lie apart and in order, stay within the limit, and
\* if there are three, the first error signal the plain split would have cut
\* begins inside one of them.
CapKeeps ==
    filter.does = "capped" =>
        LET text == filter.text
            out == filter.output
            plain == Plain(text, filter.max)
            Whole(n) == Before(text, LineEnd(text, n)) <= (filter.max * 3) \div 5
                            \/ n >= plain[2][1]
        IN  /\ \A i \in 1 .. Len(out) : out[i][1] <= out[i][2]
            /\ \A i \in 1 .. (Len(out) - 1) : out[i][2] <= out[i + 1][1]
            /\ FoldLeft(LAMBDA sum, w : sum + Bytes(SubSeq(text, w[1] + 1, w[2])), 0, out)
                   <= filter.max
            /\ Len(out) = 3 =>
                  \E n \in Signals(text) :
                      /\ ~Whole(n)
                      /\ \A m \in Signals(text) : m < n => Whole(m)
                      /\ \E i \in DOMAIN out : out[i][1] <= n /\ n < out[i][2]

\* Folded lines unfold to the lines they stand for.
FoldReads ==
    filter.does = "folded" =>
        FlattenSeq([i \in DOMAIN filter.output |->
            FlattenSeq([n \in 1 .. filter.output[i].count |-> filter.output[i].block])])
        = filter.lines

\* A cell and the kind of its column give the value back, where a missing field
\* counts as null.
TableReads ==
    filter.does = "tabulated" =>
        \A i \in DOMAIN filter.rows : \A column \in DOMAIN filter.output.kinds :
            LET shown == filter.output.cells[i][column]
                value == IF column \in DOMAIN filter.rows[i] THEN filter.rows[i][column]
                         ELSE [kind |-> "null", shown |-> ""]
            IN  value = IF shown = "" THEN [kind |-> "null", shown |-> ""]
                        ELSE [kind |-> IF filter.output.kinds[column] = {"int", "float"}
                                       THEN IF shown = "1" THEN "int" ELSE "float"
                                       ELSE CHOOSE k \in filter.output.kinds[column] : TRUE,
                              shown |-> shown]

=============================================================================
