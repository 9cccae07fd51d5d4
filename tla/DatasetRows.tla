---------------------------- MODULE DatasetRows ----------------------------
(***************************************************************************)
(* `forge-dataset assemble' (src/bin/forge-dataset/assemble.rs) and        *)
(* `forge-dataset split' (split.rs): the reviewed rows of several inputs   *)
(* are merged by what the model would see, and then shared out, group by   *)
(* group, between training and validation.                                 *)
(*                                                                         *)
(* A line is blank, unreadable, not JSON, refused by the row checks of     *)
(* schema.rs, or a row: the model input it serializes to, its label and    *)
(* the group its review names, if any.                                     *)
(***************************************************************************)
EXTENDS Integers, SequencesExt

CONSTANT MaxLines  \* lines of the inputs together

VARIABLE rows  \* what was read, what was kept, what was written

None == "none"
Valid == [kind : {"row"}, input : {"i1", "i2", "i3"}, label : {"valid", "wrong"}, group : {"g1", "g2", None}]
Lines == Valid \cup [kind : {"blank", "unreadable", "garbled", "refused"}]

Init ==
    /\ rows \in [drop : BOOLEAN, kept : {<<>>}, conflicted : {{}}, read : {<<>>}, seen : {0}, duplicates : {0},
                 conflicts : {0}, quarantine : {0}, train : {<<>>}, held : {<<>>}, target : {0},
                 phase : {"reading"}]

SameInput(row) == {i \in DOMAIN rows.kept : rows.kept[i].input = row.input}

\* read_input: the first row of a model input stands; a later one is a
\* duplicate, or with another label a conflict.
Accept(row) ==
    LET before == SameInput(row)
    IN  IF before = {} THEN rows' = [rows EXCEPT !.kept = Append(@, row), !.seen = @ + 1,
                                                 !.read = Append(@, row)]
        ELSE LET same == rows.kept[CHOOSE i \in before : TRUE].label = row.label
             IN  rows' = [rows EXCEPT !.seen = @ + 1, !.read = Append(@, row),
                             !.duplicates = IF same THEN @ + 1 ELSE @,
                             !.conflicts = IF same THEN @ ELSE @ + 1,
                             !.conflicted = IF same THEN @ ELSE @ \cup {row.input}]

Quarantine(line) ==
    rows' = [rows EXCEPT !.quarantine = @ + 1, !.read = Append(@, line),
                         !.seen = IF line.kind = "unreadable" THEN @ ELSE @ + 1]

Read ==
    /\ rows.phase = "reading" /\ Len(rows.read) < MaxLines
    /\ \E line \in Lines :
          CASE line.kind = "row" -> Accept(line)
            [] line.kind = "blank" -> rows' = [rows EXCEPT !.read = Append(@, line)]
            [] OTHER -> Quarantine(line)

\* A plausible slip: only the row that came second is in dispute.
WithoutLater(kept) == kept

\* drop_conflicted_rows: the row that stood goes too.
Without(kept) == SelectSeq(kept, LAMBDA row : row.input \notin rows.conflicted)

Assemble ==
    /\ rows.phase = "reading"
    /\ rows' = [rows EXCEPT !.kept = IF rows.drop THEN Without(@) ELSE @, !.phase = "assembled"]

\* group_key: the group the review names, else the row's own input.
GroupKey(row) == IF row.group # None THEN row.group ELSE row.input
GroupKeys == {GroupKey(rows.kept[i]) : i \in DOMAIN rows.kept}
RowsIn(groups) == SelectSeq(rows.kept, LAMBDA row : GroupKey(row) \in groups)
Orders == {s \in [1..Cardinality(GroupKeys) -> GroupKeys] : IsInjective(s)}

\* choose_validation_groups: whole groups, in the order of their seeded hash,
\* until the target is reached.
Validation(order, target) ==
    LET upTo(n) == {order[i] : i \in 1..n}
    IN  upTo(CHOOSE n \in 0..Len(order) :
                /\ n = Len(order) \/ Len(RowsIn(upTo(n))) >= target
                /\ \A m \in 0..(n - 1) : Len(RowsIn(upTo(m))) < target)

\* The ratio comes in as the target it sets: none at 0, every row at 1, and
\* in between it is rounded up.
Split ==
    /\ rows.phase = "assembled"
    /\ \E target \in 0..Len(rows.kept), order \in Orders :
          LET groups == Validation(order, target)
          IN  rows' = [rows EXCEPT !.train = RowsIn(GroupKeys \ groups), !.held = RowsIn(groups),
                                   !.target = target, !.phase = "split"]

Next == Read \/ Assemble \/ Split

-----------------------------------------------------------------------------
Labels(input) == {rows.read[i].label : i \in {j \in DOMAIN rows.read :
                    rows.read[j].kind = "row" /\ rows.read[j].input = input}}

\* Every line is accounted for; one row stands for each model input, with the
\* label given first, and with --drop-conflicts none that was given two; and
\* the two files of a split share neither a group nor a model input, lose no
\* row, and hold back what was asked and at most one group more.
RowsSound ==
    LET lines(kinds) == Len(SelectSeq(rows.read, LAMBDA line : line.kind \in kinds))
        inputs(s) == {s[i].input : i \in DOMAIN s}
        groups(s) == {s[i].group : i \in DOMAIN s} \ {None}
        row == {rows.read[i] : i \in {j \in DOMAIN rows.read : rows.read[j].kind = "row"}}
        parted == rows.phase = "split"
    IN  /\ lines({"row", "garbled", "refused"}) = rows.seen
        /\ rows.phase = "reading" =>
              rows.seen + lines({"unreadable"}) =
                  Len(rows.kept) + rows.duplicates + rows.conflicts + rows.quarantine
        /\ IsInjective([i \in DOMAIN rows.kept |-> rows.kept[i].input])
        /\ \A r \in row :
              IF rows.drop /\ rows.phase # "reading"
              THEN r.input \in inputs(rows.kept) <=> Cardinality(Labels(r.input)) = 1
              ELSE r.input \in inputs(rows.kept)
        /\ parted =>
              /\ groups(rows.train) \cap groups(rows.held) = {}
              /\ inputs(rows.train) \cap inputs(rows.held) = {}
              /\ Len(rows.train) + Len(rows.held) = Len(rows.kept)
              /\ Len(rows.held) >= rows.target
              /\ rows.held # <<>> => \E g \in GroupKeys :
                    Len(SelectSeq(rows.held, LAMBDA r : GroupKey(r) # g)) < rows.target
=============================================================================
