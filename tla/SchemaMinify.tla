---------------------------- MODULE SchemaMinify ----------------------------
(***************************************************************************)
(* apply_minify (src/schema_compression.rs): the description of a tool or  *)
(* of a parameter, line by line, outside and inside fenced code.           *)
(*                                                                         *)
(* A line is a sequence of words, gaps between them and indentation.       *)
(***************************************************************************)
EXTENDS Integers, SequencesExt

CONSTANT MaxLines  \* bound on the lines of a description

VARIABLE schema  \* a description, and what is left of it

\* A line of words, perhaps with a wide gap or indented, a fence, an indented
\* fence, or nothing.
Word == [words |-> 2, wide |-> FALSE, indented |-> FALSE, fence |-> FALSE]
Lines ==
    {Word, [Word EXCEPT !.wide = TRUE], [Word EXCEPT !.wide = TRUE, !.indented = TRUE],
     [Word EXCEPT !.words = 0, !.fence = TRUE],
     [Word EXCEPT !.words = 0, !.fence = TRUE, !.indented = TRUE],
     [Word EXCEPT !.words = 0]}

Blank(line) == line.words = 0 /\ ~line.fence

\* collapse_internal_whitespace.
Collapsed(line) == [line EXCEPT !.wide = FALSE, !.indented = FALSE]

Boundary(line) == line.fence /\ ~line.indented

\* Mutant: blank lines collapse inside fenced code as well.
MinifiedEverywhere(lines) ==
    LET Step(acc, line) ==
            LET seen == Boundary(line)
            IN  IF seen THEN [out |-> Append(acc.out, line), in |-> ~acc.in, blanks |-> 0]
                ELSE IF Blank(line)
                THEN [acc EXCEPT !.blanks = @ + 1,
                                 !.out = IF acc.blanks = 0 THEN Append(@, Collapsed(line)) ELSE @]
                ELSE [acc EXCEPT !.blanks = 0,
                                 !.out = Append(@, IF acc.in THEN line ELSE Collapsed(line))]
        all == FoldLeft(Step, [out |-> <<>>, in |-> FALSE, blanks |-> 0], lines).out
        texts == {i \in DOMAIN all : ~Blank(all[i])}
    IN  IF texts = {} THEN <<>> ELSE SubSeq(all, 1, Max(texts))

\* apply_minify: at most one blank line in a row outside fences, none at the end.
Minified(lines) ==
    LET Step(acc, line) ==
            IF Boundary(line) THEN [out |-> Append(acc.out, line), in |-> ~acc.in, blanks |-> 0]
            ELSE IF acc.in THEN [acc EXCEPT !.out = Append(@, line), !.blanks = 0]
            ELSE IF Blank(line)
            THEN [acc EXCEPT !.blanks = @ + 1,
                             !.out = IF acc.blanks = 0 THEN Append(@, Collapsed(line)) ELSE @]
            ELSE [acc EXCEPT !.blanks = 0, !.out = Append(@, Collapsed(line))]
        all == FoldLeft(Step, [out |-> <<>>, in |-> FALSE, blanks |-> 0], lines).out
        texts == {i \in DOMAIN all : ~Blank(all[i])}
    IN  IF texts = {} THEN <<>> ELSE SubSeq(all, 1, Max(texts))

Init ==
    \E n \in 0 .. MaxLines : \E lines \in [1 .. n -> Lines] :
        schema = [before |-> lines, after |-> <<>>, done |-> FALSE]

\* compress_tool_schemas and patch_anthropic_tool_schemas, on one description.
Minify == ~schema.done
          /\ schema' = [schema EXCEPT !.after = Minified(schema.before), !.done = TRUE]

Next == Minify

-----------------------------------------------------------------------------
\* The words of a description and the code between its fences stay as they are.
Texts(lines) == SelectSeq(lines, LAMBDA line : ~Blank(line))

InFence(lines, i) ==
    Cardinality({j \in 1 .. (i - 1) : Boundary(lines[j])}) % 2 = 1

Code(lines) ==
    LET last == {i \in DOMAIN lines : ~Blank(lines[i])}
    IN  FlattenSeq([i \in DOMAIN lines |->
            IF InFence(lines, i) /\ i <= Max(last) THEN <<lines[i]>> ELSE <<>>])

NoIndentedFence == \A i \in DOMAIN schema.before :
                       ~(schema.before[i].fence /\ schema.before[i].indented)

\* What a description says, code included, survives; and a description without
\* an indented fence is left alone when it comes round again, as it does with
\* every request of a conversation.
MinifySettles ==
    schema.done =>
        /\ [i \in DOMAIN Texts(schema.after) |-> Collapsed(Texts(schema.after)[i])]
               = [i \in DOMAIN Texts(schema.before) |-> Collapsed(Texts(schema.before)[i])]
        /\ NoIndentedFence =>
               /\ Code(schema.after) = Code(schema.before)
               /\ Minified(schema.after) = schema.after

=============================================================================
