---------------------------- MODULE DatasetReview ----------------------------
(***************************************************************************)
(* `forge-dataset review' (src/bin/forge-dataset/review.rs and review/):   *)
(* captures are reviewed a batch at a time, decided rows and rejects are   *)
(* appended one by one to two files, then alternatives are proposed for    *)
(* the captures found valid.  The process may die between any two writes   *)
(* and be run again with --resume.                                         *)
(*                                                                         *)
(* What the reviewing models answer is any of the outcomes the code tells  *)
(* apart.  A line is appended whole or not at all.                         *)
(***************************************************************************)
EXTENDS Integers, SequencesExt

CONSTANTS
    Captured,        \* the capture files there may be, each a sequence of captures
    Groups,          \* the groups of the captures
    Concurrency,     \* captures reviewed at once
    MaxPerGroup,     \* --max-alternatives-per-group
    AlternativesPer, \* --max-alternative-ratio, as real rows per alternative
    MaxStarts        \* bound: times the review is started

VARIABLE review  \* the captures, both files, and the running process

Wrong(call) == call \o " mutated"

Row(bucket, capture, label, call) ==
    [bucket |-> bucket, capture |-> capture, label |-> label, call |-> call]
GroupOf(c) == review.captures[c].group

-----------------------------------------------------------------------------
(* ResumeState.                                                            *)

Fresh == [captures |-> {}, rows |-> {}, valid |-> {}, perGroup |-> [g \in Groups |-> 0],
          real |-> 0, alternatives |-> 0]

\* row_key: an alternative's bucket carries its label.
RowKey(row) ==
    <<GroupOf(row.capture),
      row.bucket \o (IF row.bucket = "alternative" THEN ":" \o row.label ELSE ""), row.call>>

\* record_training_row
Recorded(state, row) ==
    LET real == row.bucket = "real"
        alternative == row.bucket = "alternative"
        group == GroupOf(row.capture)
    IN  [captures |-> state.captures \cup (IF real THEN {row.capture} ELSE {}),
         rows |-> state.rows \cup {RowKey(row)},
         valid |-> state.valid \cup (IF real /\ row.label = "valid" THEN {row.capture} ELSE {}),
         perGroup |-> [state.perGroup EXCEPT ![group] = @ + (IF alternative THEN 1 ELSE 0)],
         real |-> state.real + (IF real THEN 1 ELSE 0),
         alternatives |-> state.alternatives + (IF alternative THEN 1 ELSE 0)]

\* A reject of a correction or of an alternative leaves its capture undecided.
MarksProcessed(reject) == reject.reason = "capture"

Loaded ==
    LET fromRows == FoldLeft(Recorded, Fresh, review.out)
    IN  [fromRows EXCEPT !.captures =
            @ \cup {reject.capture : reject \in {r \in ToSet(review.rejects) : MarksProcessed(r)}}]

-----------------------------------------------------------------------------
\* propose_targeted_alternatives: wrong arguments, and the very call where the
\* tool is not needed.
Proposals(c) ==
    <<Row("alternative", c, "wrong_arguments", Wrong(review.captures[c].call)),
      Row("alternative", c, "tool_not_needed", review.captures[c].call)>>

\* review_capture_job: what is written for a capture, in order.
Outcomes(c) ==
    LET own(label) == Row("real", c, label, review.captures[c].call)
        corrected == Row("corrected", c, "valid", Wrong(review.captures[c].call))
        reject(reason) == [capture |-> c, reason |-> reason]
    IN  {<<reject("capture")>>, <<own("valid")>>, <<own("wrong_tool")>>,
         <<own("wrong_tool"), corrected>>, <<own("wrong_tool"), reject("correction")>>}

Init ==
    \E captures \in Captured :
        review = [captures |-> captures, out |-> <<>>, rejects |-> <<>>, starts |-> 0,
                  phase |-> "stopped", mem |-> Fresh, at |-> 1, batch |-> <<>>,
                  writes |-> <<>>, proposals |-> <<>>, remaining |-> 0]

\* The first start finds no files; every other one resumes.
Start ==
    /\ review.phase \in {"stopped", "done"}
    /\ review.starts < MaxStarts
    /\ review' = [review EXCEPT !.starts = @ + 1, !.phase = "reading", !.mem = Loaded, !.at = 1,
                                !.batch = <<>>, !.writes = <<>>, !.proposals = <<>>]

Read ==
    LET c == review.at
    IN  /\ review.phase = "reading"
        /\ c <= Len(review.captures)
        /\ Len(review.batch) < Concurrency
        /\ review' =
              IF c \notin review.mem.captures
              THEN [review EXCEPT !.at = @ + 1, !.batch = Append(@, c)]
              ELSE [review EXCEPT !.at = @ + 1,
                      !.proposals = @ \o (IF c \in review.mem.valid THEN Proposals(c) ELSE <<>>)]

\* The batch is reviewed concurrently and its outcomes are applied in order.
Review ==
    /\ review.phase = "reading"
    /\ review.batch # <<>>
    /\ Len(review.batch) = Concurrency \/ review.at > Len(review.captures)
    /\ \E outcome \in [1..Len(review.batch) -> UNION {Outcomes(c) : c \in ToSet(review.batch)}] :
          /\ \A i \in DOMAIN outcome : outcome[i] \in Outcomes(review.batch[i])
          /\ review' = [review EXCEPT
                !.phase = "writing", !.batch = <<>>,
                !.writes = FlattenSeq(outcome),
                !.proposals = @ \o FlattenSeq(
                    [i \in DOMAIN outcome |->
                       IF "label" \in DOMAIN outcome[i][1] /\ outcome[i][1].label = "valid"
                       THEN Proposals(review.batch[i]) ELSE <<>>])]

AppendRow(row) ==
    [review EXCEPT !.out = Append(@, row), !.mem = Recorded(@, row)]

\* apply_capture_outcome: the line is synced, then the process takes note.
Write ==
    /\ review.phase = "writing"
    /\ review.writes # <<>>
    /\ LET write == Head(review.writes)
           next == IF "bucket" \in DOMAIN write THEN AppendRow(write)
                   ELSE [review EXCEPT !.rejects = Append(@, write)]
       IN  review' = [next EXCEPT !.writes = Tail(@)]

Written ==
    /\ review.phase = "writing" /\ review.writes = <<>>
    /\ review' = [review EXCEPT !.phase = "reading"]

\* A plausible slip: a resumed run starts the allowance anew.
RemainingAnew(state) == state.real \div AlternativesPer

\* alternative_cap, less what earlier runs accepted.
Remaining(state) ==
    LET allowed == state.real \div AlternativesPer
    IN  IF allowed > state.alternatives THEN allowed - state.alternatives ELSE 0

BeginAlternatives ==
    /\ review.phase = "reading" /\ review.batch = <<>> /\ review.at > Len(review.captures)
    /\ review' = [review EXCEPT !.phase = "alternatives", !.remaining = Remaining(review.mem)]

\* verify_alternatives: a row known by its key and a full group are passed over.
Alternative ==
    LET row == Head(review.proposals)
        next == [review EXCEPT !.proposals = Tail(@)]
        passed == \/ RowKey(row) \in review.mem.rows
                  \/ review.mem.perGroup[GroupOf(row.capture)] >= MaxPerGroup
    IN  /\ review.phase = "alternatives"
        /\ review.proposals # <<>> /\ review.remaining > 0
        /\ \/ passed /\ review' = next
           \/ ~passed /\ review' = [AppendRow(row) EXCEPT !.proposals = Tail(@), !.remaining = @ - 1]
           \/ ~passed /\ review' = [next EXCEPT
                            !.rejects = Append(@, [capture |-> row.capture, reason |-> "alternative"])]

Done ==
    /\ review.phase = "alternatives"
    /\ review.proposals = <<>> \/ review.remaining = 0
    /\ review' = [review EXCEPT !.phase = "done", !.proposals = <<>>]

\* Killed, or stopped by a write that fails.
Crash ==
    /\ review.phase \notin {"stopped", "done"}
    /\ review' = [review EXCEPT !.phase = "stopped", !.mem = Fresh, !.batch = <<>>,
                                !.writes = <<>>, !.proposals = <<>>, !.remaining = 0]

Next ==
    \/ Start \/ Read \/ Review \/ Write \/ Written
    \/ BeginAlternatives \/ Alternative \/ Done \/ Crash

-----------------------------------------------------------------------------
Of(bucket) == {i \in DOMAIN review.out : review.out[i].bucket = bucket}
Refused == {i \in DOMAIN review.rejects : MarksProcessed(review.rejects[i])}
Decided(c) == \E i \in Of("real") : review.out[i].capture = c
Rejected(c) == \E i \in Refused : review.rejects[i].capture = c

\* Wherever the review is killed and however often it is resumed: a capture is
\* decided once, by its own row or by a reject, and all are when a run ends; no
\* alternative is written twice; alternatives stay within the share of the rows
\* and the number per group that were asked for; and the running process knows
\* what the files tell (docs/DATASET_WORKFLOW.md:227-244).
ReviewResumes ==
    LET real == Of("real")
        alternatives == Of("alternative")
        ofGroup(g) == {i \in alternatives : GroupOf(review.out[i].capture) = g}
    IN  /\ \A i, j \in real : review.out[i].capture = review.out[j].capture => i = j
        /\ \A i, j \in alternatives : RowKey(review.out[i]) = RowKey(review.out[j]) => i = j
        /\ \A i, j \in Refused : review.rejects[i].capture = review.rejects[j].capture => i = j
        /\ \A c \in DOMAIN review.captures :
              /\ ~(Decided(c) /\ Rejected(c))
              /\ review.phase = "done" => Decided(c) \/ Rejected(c)
        /\ Cardinality(alternatives) * AlternativesPer <= Cardinality(real)
        /\ \A g \in Groups : Cardinality(ofGroup(g)) <= MaxPerGroup
        /\ review.phase \notin {"stopped", "done"} =>
              /\ review.mem = [Loaded EXCEPT !.captures = review.mem.captures]
              /\ review.mem.captures \subseteq Loaded.captures
              /\ \A c \in Loaded.captures \ review.mem.captures : Rejected(c)
=============================================================================
