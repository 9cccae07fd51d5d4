----------------------------- MODULE MCComponents -----------------------------
(***************************************************************************)
(* The components that share no state with the worker, the runner or the   *)
(* proxy, in one specification and with an instance of it for TLC: the     *)
(* judges, the transports, what makes the prompt smaller and what makes    *)
(* data to train the scorers with. What the code lets a user or a caller   *)
(* choose, and the bounds of an instance, are parameters.                  *)
(***************************************************************************)
EXTENDS Judges, Transports

CONSTANTS
    \* DatasetCapture, DatasetRows, LogDataset
    MaxScenarios, MaxRounds, MaxErrors, MaxLines, MaxRecords, MaxRequested

-----------------------------------------------------------------------------
(* What makes a prompt smaller: the dictionaries, with their sizes, and    *)
(* the schemas.                                                            *)

Lzw == INSTANCE LzwDictionary WITH
    Symbols <- {1, 2}, Newline <- 0, MaxText <- 8, Lengths <- {2, 3},
    MinOccurrences <- 2, MaxEntries <- 3, MarkerLen <- 0, EntryOverhead <- 0,
    MinEntrySavings <- 1, MaxReevals <- 3, lzw <- state

Repair == INSTANCE RepairDictionary WITH
    Symbols <- {1, 2}, MaxText <- 9, MinRule <- 2, MaxRule <- 4,
    MinOccurrences <- 2, MaxRules <- 3, MarkerLen <- 1, EntryOverhead <- 0,
    MinEntrySavings <- 0, repair <- state

Schema == INSTANCE SchemaMinify WITH MaxLines <- 5, schema <- state

-----------------------------------------------------------------------------
(* What makes data to train the scorers with.                              *)

Captures == INSTANCE DatasetCapture WITH MaxTurns <- MaxRounds, capture <- state

Rows == INSTANCE DatasetRows WITH rows <- state

Logs == INSTANCE LogDataset WITH logs <- state

-----------------------------------------------------------------------------
Init ==
    \/ JudgesInit
    \/ TransportsInit
    \/ focus = "lzw" /\ Lzw!Init
    \/ focus = "repair" /\ Repair!Init
    \/ focus = "schema" /\ Schema!Init
    \/ focus = "captures" /\ Captures!Init
    \/ focus = "rows" /\ Rows!Init
    \/ focus = "logs" /\ Logs!Init

Step ==
    \/ JudgesStep
    \/ TransportsStep
    \/ focus = "lzw" /\ Lzw!Next
    \/ focus = "repair" /\ Repair!Next
    \/ focus = "schema" /\ Schema!Next
    \/ focus = "captures" /\ Captures!Next
    \/ focus = "rows" /\ Rows!Next
    \/ focus = "logs" /\ Logs!Next

Next == Step /\ UNCHANGED focus

Spec == Init /\ [][Next]_vars

-----------------------------------------------------------------------------
\* What the text transforms write reads back: the two dictionaries (lzw.rs,
\* repair.rs), the folding of repeated lines and the table of JSON objects
\* (postcall.rs); and minifying a description loses no word and no code, and
\* settles (schema_compression.rs).
TransformsReadBack ==
    /\ focus = "lzw" => Lzw!RoundTrip
    /\ focus = "repair" => Repair!RoundTrip
    /\ focus = "filters" => Filters!FoldReads /\ Filters!TableReads
    /\ focus = "schema" => Schema!MinifySettles

\* Captured, assembled and split rows, and those made from logs, keep their
\* ids, states, labels and groups apart (bin/forge-dataset/capture.rs,
\* assemble.rs, split.rs, notebook/generatetd).
DatasetsSound ==
    /\ focus = "captures" => Captures!CapturesSound
    /\ focus = "rows" => Rows!RowsSound
    /\ focus = "logs" => Logs!LogsSound

-----------------------------------------------------------------------------
(* An instance. The values that a cfg can write are in MCComponents.cfg.   *)

CONSTANTS
    a, b,    \* tools of a request contract, of a program's loop
    save     \* a tool that wants a call of a with its own argument

\* The triggers of the three phases of compaction, and the thresholds.
Phases == <<4, 4, 6>>
Warnings == <<3, 6>>

\* Captures of one group and one of another; the model may repeat a call.
TwoGroups ==
    {<<[group |-> 1, call |-> "x"], [group |-> 1, call |-> call], [group |-> 2, call |-> "x"]>>
        : call \in {"x", "y"}}

LoopCalls == {[tool |-> t, arg |-> 1] : t \in {a, b, save, Respond}}

LoopPrerequisites ==
    [t \in {a, b, save, Respond} |->
        IF t \in {b, save} THEN {[tool |-> a, matched |-> t = save]} ELSE {}]

=============================================================================
