--------------------------- MODULE FamilyFilters ----------------------------
(***************************************************************************)
(* The filters a tool output goes through by the command that printed it   *)
(* (src/tool_output/families, src/tool_output/filters): what the model is  *)
(* shown in place of the output of a build, a test run, an installation, a *)
(* version control command or a search.                                    *)
(*                                                                         *)
(* A line is the class the filters put it in.  Lines that report a failure *)
(* or a change come in the classes they recognize, and in those they do    *)
(* not: "plain error" (error: without a code), "tab fail" (the FAIL line   *)
(* of go, with a tab), "new file" (of git status); an "error" passes every *)
(* test for errors that its command makes.  A filter shows lines, and says *)
(* how many more failures there were, or that nothing is wrong.  Whether   *)
(* its result is short enough to take the output's place is left out.      *)
(***************************************************************************)
EXTENDS Integers, Sequences, FiniteSets, Functions

CONSTANTS
    MaxLines,   \* bound on the outputs
    MaxShown    \* bound on the failures shown: 5, 10, 20 or 30 by filter

VARIABLE family  \* a command, its output, and what is shown of it

Classes ==
    [cargo_build |-> {"code error", "plain error", "no compile", "warning block",
                      "json error", "json warning", "text", "blank"},
     cargo_test |-> {"failed test", "code error", "test result", "text", "blank"},
     pytest |-> {"header", "rule", "failed name", "text", "blank"},
     go_test |-> {"fail case", "ok", "space fail", "tab fail", "text", "blank"},
     test |-> {"error", "passed", "text", "blank"},
     npm_install |-> {"error", "added", "warn", "text", "blank"},
     npm_test |-> {"error", "fail file", "test summary", "text", "blank"},
     npm_lint |-> {"error", "warn", "text", "blank"},
     docker |-> {"error", "built", "progress", "text", "blank"},
     pip |-> {"error", "installed", "satisfied", "progress", "text", "blank"},
     make |-> {"error", "progress", "text"},
     git_status |-> {"error", "change", "new file", "text"},
     grep |-> {"match", "more match", "noise", "diagnostic", "text"},
     ls |-> {"entry", "noise", "blank"}]

\* The lines that say that something failed, or is there.
Telling ==
    {"code error", "plain error", "no compile", "json error", "failed test", "header",
     "failed name", "fail case", "space fail", "tab fail", "error", "fail file",
     "change", "new file", "match", "entry"}

Init ==
    \E command \in DOMAIN Classes, n \in 1 .. MaxLines :
        \E lines \in [1 .. n -> Classes[command]] :
            family = [command |-> command, lines |-> lines, shown |-> {}, more |-> 0,
                      done |-> FALSE]

-----------------------------------------------------------------------------
Of(lines, classes) == {i \in DOMAIN lines : lines[i] \in classes}

All(lines) == [shown |-> DOMAIN lines, more |-> 0]

\* preserve_unknown_or_empty_summary: the output, or a summary if it is blank.
\* A summary shows no line.
Unknown(lines) ==
    IF Range(lines) \subseteq {"blank"} THEN [shown |-> {}, more |-> 0] ELSE All(lines)

\* The first failures and a count of the rest, with the lines beside them.
Report(failures, beside) ==
    LET first == {i \in failures : Cardinality({j \in failures : j <= i}) <= MaxShown}
    IN  [shown |-> first \cup beside, more |-> Cardinality(failures \ first)]

\* The failures if there are any, else the summary lines, else the output.
FailuresOrSummary(lines, failures, summary) ==
    IF failures # {} THEN Report(failures, summary)
    ELSE IF summary # {} THEN [shown |-> summary, more |-> 0]
    ELSE Unknown(lines)

\* The lines of the blocks a header opens and a line of the closing classes ends.
InBlock(lines, headers, closing) ==
    {i \in DOMAIN lines : \E h \in Of(lines, headers) :
        /\ h <= i
        /\ \A j \in (h + 1) .. i : lines[j] \notin headers
        /\ \A j \in (h + 1) .. (i - 1) : lines[j] \notin closing}

-----------------------------------------------------------------------------
\* Mutant: the block the output ends in is forgotten.
CargoBuildUnclosed(lines) ==
    LET json == Of(lines, {"json error", "json warning"})
        Closed(h) == \E i \in DOMAIN lines : i > h /\ lines[i] \in {"blank", "code error", "warning block"}
        headers == {h \in Of(lines, {"code error", "warning block"}) : Closed(h)}
        errors == (headers \cap Of(lines, {"code error"})) \cup Of(lines, {"no compile"})
    IN  IF json # {} THEN Report(Of(lines, {"json error"}), Of(lines, {"json warning"}))
        ELSE IF errors \cup headers # {} THEN Report(errors, headers)
        ELSE Unknown(lines)

\* filter_cargo_build, filter_cargo_json_messages, format_cargo_diagnostics:
\* diagnostics in JSON hide the rest; blocks begin with a code.
CargoBuild(lines) ==
    LET json == Of(lines, {"json error", "json warning"})
        errors == Of(lines, {"code error", "no compile"})
        blocks == InBlock(lines, {"code error", "warning block"}, {"blank"})
    IN  IF json # {} THEN Report(Of(lines, {"json error"}), Of(lines, {"json warning"}))
        ELSE IF errors \cup blocks # {} THEN Report(errors, blocks)
        ELSE Unknown(lines)

\* filter_cargo_test.
CargoTest(lines) ==
    FailuresOrSummary(lines, Of(lines, {"failed test", "code error"}), Of(lines, {"test result"}))

\* filter_pytest: from a header to a rule or a blank line, and the names.
Pytest(lines) ==
    LET failures == Of(lines, {"header"})
        names == Of(lines, {"failed name"})
    IN  IF failures = {} THEN FailuresOrSummary(lines, {}, names)
        ELSE Report(failures, InBlock(lines, {"header"}, {"rule", "blank"}) \cup names)

\* filter_go_test: FAIL counts only before a space.
GoTest(lines) ==
    FailuresOrSummary(lines, Of(lines, {"fail case"}), Of(lines, {"ok", "space fail"}))

\* filter_test_output: a line that names an error is a summary line as well.
OtherTest(lines) ==
    FailuresOrSummary(lines, Of(lines, {"error"}), Of(lines, {"error", "passed"}))

\* filter_npm_output: the lines with errors, if they are fewer than the others.
Npm(lines, rest) ==
    LET errors == Of(lines, {"error"})
    IN  IF errors # {} /\ Cardinality(errors) * 2 < Len(lines)
        THEN [shown |-> errors, more |-> 0]
        ELSE rest

\* filter_npm_install: counts and warnings, and nothing else beside them.
NpmInstall(lines) ==
    IF Of(lines, {"added", "warn"}) # {}
    THEN [shown |-> Of(lines, {"warn"}), more |-> 0]
    ELSE All(lines)

\* filter_npm_test: failure lines gather until a blank line.
NpmTest(lines) ==
    FailuresOrSummary(lines, Of(lines, {"error", "fail file"}),
                      Of(lines, {"test summary", "fail file"}))

\* filter_npm_lint.
NpmLint(lines) ==
    FailuresOrSummary(lines, Of(lines, {"error"}), Of(lines, {"warn"}))

\* filter_docker_output, filter_pip_output: progress goes, the rest stays.
WithoutProgress(lines, progress) ==
    LET kept == DOMAIN lines \ Of(lines, progress \cup {"blank"})
    IN  IF kept = {} THEN Unknown(lines) ELSE [shown |-> kept, more |-> 0]

\* filter_make_output: progress beside an issue stays.
Make(lines) ==
    LET kept == {i \in DOMAIN lines :
                    \/ lines[i] # "progress"
                    \/ \E j \in {i - 1, i + 1} \cap DOMAIN lines : lines[j] = "error"}
    IN  IF kept = {} THEN Unknown(lines) ELSE [shown |-> kept, more |-> 0]

\* filter_git_output, filter_git_status: an output with an error is kept, and
\* one without a line it knows is clean.
GitStatus(lines) ==
    IF Of(lines, {"error"}) # {} THEN All(lines)
    ELSE [shown |-> Of(lines, {"change"}), more |-> 0]

\* filter_grep_output: matches by file, a bounded number of each file, and the
\* diagnostics; an output without a match is kept.
Grep(lines) ==
    LET matches == Of(lines, {"match", "more match"})
        first == {i \in matches :
                     Cardinality({j \in matches : lines[j] = lines[i] /\ j <= i}) <= MaxShown}
    IN  IF matches = {} THEN All(lines)
        ELSE [shown |-> first \cup Of(lines, {"diagnostic"}),
              more |-> IF first = matches THEN 0 ELSE 1]

\* filter_ls.
Ls(lines) == FailuresOrSummary(lines, Of(lines, {"entry"}), {})

\* filter_bash_output, filter_cargo_output, filter_npm_output, filter_test_output:
\* the filter by the words of the command.
Filtered(command, lines) ==
    CASE command = "cargo_build" -> CargoBuild(lines)
      [] command = "cargo_test" -> CargoTest(lines)
      [] command = "pytest" -> Pytest(lines)
      [] command = "go_test" -> GoTest(lines)
      [] command = "test" -> OtherTest(lines)
      [] command = "npm_install" -> Npm(lines, NpmInstall(lines))
      [] command = "npm_test" -> Npm(lines, NpmTest(lines))
      [] command = "npm_lint" -> Npm(lines, NpmLint(lines))
      [] command = "docker" -> WithoutProgress(lines, {"progress"})
      [] command = "pip" -> WithoutProgress(lines, {"progress", "satisfied"})
      [] command = "make" -> Make(lines)
      [] command = "git_status" -> GitStatus(lines)
      [] command = "grep" -> Grep(lines)
      [] command = "ls" -> Ls(lines)

Filter ==
    /\ ~family.done
    /\ LET out == Filtered(family.command, family.lines)
       IN  family' = [family EXCEPT !.done = TRUE, !.shown = out.shown, !.more = out.more]

Next == Filter

-----------------------------------------------------------------------------
\* The outputs whose failures the filters lose.
Lost(command, lines) ==
    \/ command = "cargo_build" /\ {"code error", "no compile", "json error"} \cap Range(lines) = {}
                               /\ {"warning block", "json warning"} \cap Range(lines) # {}
    \/ command = "cargo_build" /\ "json warning" \in Range(lines) /\ "json error" \notin Range(lines)
    \/ command = "go_test" /\ {"fail case", "space fail"} \cap Range(lines) = {}
                           /\ "ok" \in Range(lines)
    \/ command = "npm_install" /\ Cardinality(Of(lines, {"error"})) * 2 >= Len(lines)
                               /\ {"added", "warn"} \cap Range(lines) # {}
    \/ command = "git_status" /\ {"error", "change"} \cap Range(lines) = {}

\* Nothing is called well that is not: where a line of the output says that
\* something failed or is there, such a line is shown or counted.
NoFalseAllClear ==
    family.done /\ Of(family.lines, Telling) # {} /\ ~Lost(family.command, family.lines) =>
        family.more > 0 \/ family.shown \cap Of(family.lines, Telling) # {}

=============================================================================
