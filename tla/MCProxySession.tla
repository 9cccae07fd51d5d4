--------------------------- MODULE MCProxySession ---------------------------
(***************************************************************************)
(* Instances of ProxySession for TLC: two tools, a result that succeeded   *)
(* and one that failed, each longer than a reference; two sessions with    *)
(* three configurations, or one session with one.                          *)
(***************************************************************************)
EXTENDS ProxySession

CONSTANTS w1, w2, s1, s2, read, test, fine, failed

\* The filters keep the texts, or turn the failed one into a dictionary.
Forms ==
    [disabled |-> [t \in Texts |-> "text"],
     standard |-> [t \in Texts |-> "text"],
     aggressive |-> fine :> "text" @@ failed :> "dictionary"]

Lengths == fine :> 3 @@ failed :> 5

Config(mode, session) ==
    [mode |-> mode, session |-> session, dedup |-> TRUE, memo |-> TRUE]

TwoSessions == {Config("standard", s1), Config("standard", s2), Config("aggressive", s1)}

\* The text decides, or a status does, also against it.
SomeAnswers ==
    {<<"absent", fine>>, <<"absent", failed>>, <<"ok", failed>>, <<"error", fine>>}

\* Workers are alike, and so are tools.
Alike == Permutations(Workers) \cup Permutations(Tools)

OneSession == {Config("standard", s1)}

=============================================================================
