------------------------------ MODULE MCRunner ------------------------------
(***************************************************************************)
(* An instance of Runner for TLC: read is required and is a prerequisite,  *)
(* with the same argument, of write; submit and abort are terminal, and    *)
(* submit asks for a write before it.                                      *)
(***************************************************************************)
EXTENDS Runner, SequencesExt

FileTools == {"read", "write", "submit", "abort"}

FileArgs == {"a", "b"}

FilePrerequisites ==
    [t \in FileTools |->
        CASE t = "write" -> {[tool |-> "read", matched |-> TRUE]}
          [] t = "submit" -> {[tool |-> "write", matched |-> FALSE]}
          [] OTHER -> {}]

FileCalls ==
    {[tool |-> "read", arg |-> "a"], [tool |-> "read", arg |-> "b"],
     [tool |-> "write", arg |-> "a"],
     [tool |-> "submit", arg |-> "a"], [tool |-> "abort", arg |-> "a"]}

\* One call, or two different ones.
FileBatches == {b \in SeqOf(FileCalls, 2) : b # <<>> /\ IsInjective(b)}

=============================================================================
