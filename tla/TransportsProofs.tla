--------------------------- MODULE TransportsProofs ---------------------------
(***************************************************************************)
(* Proofs about the components between a run, the proxy, its backend, its  *)
(* clients and its log, for every number of emitters, sinks, calls,        *)
(* attempts and turns, every context and number of slots, and every        *)
(* keep_recent.                                                            *)
(***************************************************************************)
EXTENDS Transports, TLAPS, FiniteSetTheorems, SequenceTheorems, WellFoundedInduction

-----------------------------------------------------------------------------
(* The startup of the proxy.                                               *)

StartupPhases ==
    {"parsing", "starting", "halving", "restarting", "resolving", "preparing", "serving",
     "failing", "stopping", "over", "killed"}

StartupTypes ==
    /\ state = [line |-> state.line, phase |-> state.phase, backend |-> state.backend,
                foreign |-> state.foreign, asked |-> state.asked, context |-> state.context,
                spawned |-> state.spawned, misled |-> state.misled]
    /\ state.backend = [life |-> state.backend.life, total |-> state.backend.total]
    /\ state.line \in Startup!Lines /\ state.phase \in StartupPhases
    /\ state.spawned \in Nat /\ state.foreign \in BOOLEAN /\ state.misled \in BOOLEAN
    /\ state.backend.life \in {"none", "loading", "serving", "dead"}

\* A backend there is only between its start and the end; a child that is still loading
\* has been overtaken by a foreign server.
BackendInv ==
    /\ state.phase \in {"parsing", "over"} => state.backend.life = "none"
    /\ ~Startup!Accepted =>
           /\ state.phase \in {"parsing", "over", "killed"}
           /\ state.backend.life = "none" /\ state.spawned = 0
    /\ state.backend.life = "loading" => state.misled

\* The context a backend of this command line is to have, in whole.
RightTotal(total) ==
    CASE state.line.mode = "manual" -> total = Manual
      [] state.line.mode = "forge-fast" -> Startup!Near(2 * total, Full, Startup!Shares)
      [] OTHER -> total = Full

\* What is asked for and found, from phase to phase, as long as no foreign server has
\* answered for the backend.
ContextInv ==
    state.line.kind = "llama" /\ ~state.misled =>
        /\ state.phase = "starting" =>
               state.asked = IF state.line.mode = "manual" THEN Manual ELSE Full
        /\ state.phase = "halving" => Startup!Fast /\ state.backend.total = Full
        /\ state.phase = "restarting" => Startup!Fast /\ RightTotal(state.asked)
        /\ state.phase = "resolving" => RightTotal(state.backend.total)
        /\ state.phase \in {"preparing", "serving"} =>
               /\ RightTotal(state.backend.total)
               /\ state.context = Startup!PerSlot(state.backend.total)

StartupInv == StartupTypes /\ BackendInv /\ ContextInv

\* The shares of a context add up to it, but for less than one token a share.
LEMMA ShareBounds ==
    ASSUME NEW n \in Nat, NEW s \in Nat \ {0}
    PROVE  n \div s \in Nat /\ s * (n \div s) <= n /\ n < s * (n \div s) + s
OBVIOUS

\* Half of what the shares add up to is half of the whole, within one share.
LEMMA HalfIsHalf ==
    ASSUME NEW n \in Nat, NEW m \in Nat, NEW s \in Nat \ {0}, m <= n, n < m + s
    PROVE  n - 2 * (m \div 2) <= s /\ 2 * (m \div 2) - n <= s
<1>1. m \div 2 \in Nat /\ 2 * (m \div 2) <= m /\ m < 2 * (m \div 2) + 2
    OBVIOUS
<1> QED BY <1>1

\* Half of what one slot reports of the whole, times the slots, is near to half.
LEMMA HalfOfReported ==
    ASSUME state.line \in Startup!Lines
    PROVE  Startup!Near(2 * Startup!Half(Startup!PerSlot(Full)), Full, Startup!Shares)
<1>1. state.line.slots \in Int /\ state.line.unified \in BOOLEAN /\ Full \in Nat
    BY StartupAssumption DEF Startup!Lines
<1>2. CASE state.line.unified \/ state.line.slots <= 1
    <2>1. /\ Startup!Half(Startup!PerSlot(Full)) = Full \div 2 /\ Startup!Shares = 1
        BY <1>2 DEF Startup!Half, Startup!PerSlot, Startup!Shares
    <2>2. Full - 2 * (Full \div 2) <= 1 /\ 2 * (Full \div 2) - Full <= 1
        BY <1>1, HalfIsHalf
    <2> QED BY <2>1, <2>2 DEF Startup!Near
<1>3. CASE ~(state.line.unified \/ state.line.slots <= 1)
    <2> DEFINE s == state.line.slots
               m == (Full \div s) * s
    <2>1. s \in Nat \ {0} /\ Startup!Shares = s
        BY <1>1, <1>3 DEF Startup!Shares
    <2>2. m \in Nat /\ m <= Full /\ Full < m + s
        <3>1. /\ Full \div s \in Nat /\ s * (Full \div s) <= Full
              /\ Full < s * (Full \div s) + s
            BY <1>1, <2>1, ShareBounds
        <3>2. s * (Full \div s) = m /\ m \in Nat
            BY <3>1, <2>1
        <3> QED BY <3>1, <3>2
    <2>3. Startup!Half(Startup!PerSlot(Full)) = m \div 2
        BY <1>3 DEF Startup!Half, Startup!PerSlot
    <2> HIDE DEF s, m
    <2>4. Full - 2 * (m \div 2) <= s /\ 2 * (m \div 2) - Full <= s
        BY <1>1, <2>1, <2>2, HalfIsHalf
    <2> QED BY <2>1, <2>3, <2>4 DEF Startup!Near
<1> QED BY <1>2, <1>3

\* The backend dies, becomes ready, or a foreign server comes or goes.
LEMMA EnvironmentKeepsInv ==
    ASSUME StartupInv,
           Startup!Dies \/ Startup!Loads \/ Startup!ForeignComes \/ Startup!ForeignGoes
    PROVE  StartupInv'
<1> USE DEF StartupInv
<1>1. ASSUME NEW life \in {"dead", "serving"}, state.backend.life # "none",
             state' = [state EXCEPT !.backend.life = life]
      PROVE  StartupInv'
    <2>1. state' = [line |-> state.line, phase |-> state.phase,
                    backend |-> [life |-> life, total |-> state.backend.total],
                    foreign |-> state.foreign, asked |-> state.asked,
                    context |-> state.context, spawned |-> state.spawned,
                    misled |-> state.misled]
        BY <1>1 DEF StartupTypes
    <2> QED BY <1>1, <2>1 DEF StartupTypes, BackendInv, ContextInv, RightTotal,
               Startup!Shares, Startup!Fast, Startup!PerSlot, Startup!Accepted, Startup!Managed
<1>2. ASSUME NEW foreign \in BOOLEAN, state' = [state EXCEPT !.foreign = foreign]
      PROVE  StartupInv'
    <2>1. state' = [line |-> state.line, phase |-> state.phase, backend |-> state.backend,
                    foreign |-> foreign, asked |-> state.asked,
                    context |-> state.context, spawned |-> state.spawned,
                    misled |-> state.misled]
        BY <1>2 DEF StartupTypes
    <2> QED BY <1>2, <2>1 DEF StartupTypes, BackendInv, ContextInv, RightTotal,
               Startup!Shares, Startup!Fast, Startup!PerSlot, Startup!Accepted, Startup!Managed
<1> QED BY <1>1, <1>2 DEF Startup!Dies, Startup!Loads, Startup!ForeignComes,
                         Startup!ForeignGoes

\* The command line is judged, and the kinds of startup begin.
LEMMA ParsingKeepsInv ==
    ASSUME StartupInv, Startup!Refuse \/ Startup!Configure \/ Startup!Begin
    PROVE  StartupInv'
<1> USE DEF StartupInv
<1>1. CASE Startup!Refuse
    <2>1. state' = [line |-> state.line, phase |-> "over", backend |-> state.backend,
                    foreign |-> state.foreign, asked |-> state.asked,
                    context |-> state.context, spawned |-> state.spawned,
                    misled |-> state.misled]
        BY <1>1 DEF StartupTypes, Startup!Refuse
    <2> QED BY <1>1, <2>1 DEF StartupTypes, StartupPhases, BackendInv, ContextInv,
               Startup!Refuse, Startup!Accepted, Startup!Managed
<1>2. CASE Startup!Configure
    <2>1. PICK context : state' = [state EXCEPT !.phase = "preparing", !.context = context]
        BY <1>2, Zenon DEF Startup!Configure
    <2>2. state' = [line |-> state.line, phase |-> "preparing", backend |-> state.backend,
                    foreign |-> state.foreign, asked |-> state.asked,
                    context |-> context, spawned |-> state.spawned,
                    misled |-> state.misled]
        BY <2>1 DEF StartupTypes
    <2>3. Startup!Accepted /\ state.line.kind # "llama"
        BY <1>2, Zenon DEF Startup!Configure
    <2> QED BY <2>2, <2>3 DEF StartupTypes, StartupPhases, BackendInv, ContextInv,
               Startup!Accepted, Startup!Managed
<1>3. CASE Startup!Begin
    <2> DEFINE asked == IF state.line.mode = "manual" THEN Manual ELSE Full
    <2>1. state' = [line |-> state.line, phase |-> "starting", backend |-> state.backend,
                    foreign |-> state.foreign, asked |-> asked,
                    context |-> state.context, spawned |-> state.spawned,
                    misled |-> state.misled]
        BY <1>3 DEF StartupTypes, Startup!Begin
    <2>2. Startup!Accepted
        BY <1>3 DEF Startup!Begin
    <2> QED BY <2>1, <2>2 DEF StartupTypes, StartupPhases, BackendInv, ContextInv,
               Startup!Accepted, Startup!Managed
<1> QED BY <1>1, <1>2, <1>3

\* The backend is started, asked what it has, and started again with the half of it.
LEMMA BackendStepKeepsInv ==
    ASSUME StartupInv, Startup!Start \/ Startup!Halve \/ Startup!Resolve
    PROVE  StartupInv'
<1> USE DEF StartupInv
<1>1. Startup!Accepted
    BY Zenon DEF BackendInv, Startup!Start, Startup!Halve, Startup!Resolve
<1>2. ASSUME NEW backend, backend \in {state.backend, Startup!NoBackend},
             state' = [state EXCEPT !.phase = "failing", !.backend = backend]
      PROVE  StartupInv'
    <2>1. state' = [line |-> state.line, phase |-> "failing", backend |-> backend,
                    foreign |-> state.foreign, asked |-> state.asked,
                    context |-> state.context, spawned |-> state.spawned,
                    misled |-> state.misled]
        BY <1>2 DEF StartupTypes
    <2>2. /\ backend = [life |-> backend.life, total |-> backend.total]
          /\ backend.life \in {"none", "loading", "serving", "dead"}
          /\ backend.life = "loading" => state.misled
        BY <1>2 DEF StartupTypes, BackendInv, Startup!NoBackend
    <2>3. StartupTypes'
        BY <2>1, <2>2 DEF StartupTypes, StartupPhases
    <2>4. BackendInv' /\ ContextInv'
        BY <1>1, <2>1, <2>2 DEF BackendInv, ContextInv, Startup!Accepted, Startup!Managed
    <2> QED BY <2>3, <2>4
<1>3. ASSUME state' = Startup!Failing PROVE StartupInv'
    <2>1. state' = [state EXCEPT !.phase = "failing", !.backend = state.backend]
        BY <1>3 DEF Startup!Failing, StartupTypes
    <2> QED BY <1>2, <2>1, Zenon
<1>4. CASE Startup!Start
    <2>1. CASE state' = [Startup!Failing EXCEPT !.backend = Startup!NoBackend]
        <3>1. state' = [state EXCEPT !.phase = "failing", !.backend = Startup!NoBackend]
            BY <2>1 DEF Startup!Failing, StartupTypes
        <3> QED BY <1>2, <3>1, Zenon
    <2>2. ASSUME NEW overtaken \in BOOLEAN,
                 state' = [state EXCEPT
                    !.backend = [life |-> IF overtaken THEN "loading" ELSE "serving",
                                 total |-> state.asked],
                    !.spawned = @ + 1, !.foreign = overtaken, !.misled = @ \/ overtaken,
                    !.phase = IF Startup!Fast /\ state.phase = "starting" THEN "halving"
                              ELSE "resolving"]
          PROVE  StartupInv'
        <3> DEFINE life == IF overtaken THEN "loading" ELSE "serving"
                   misled == state.misled \/ overtaken
                   phase == IF Startup!Fast /\ state.phase = "starting" THEN "halving"
                            ELSE "resolving"
        <3>1. /\ life \in {"loading", "serving"} /\ (life = "loading" => misled)
              /\ misled \in BOOLEAN /\ (~misled => ~state.misled)
              /\ phase \in {"halving", "resolving"}
              /\ phase = "halving" <=> Startup!Fast /\ state.phase = "starting"
            BY DEF StartupTypes
        <3> HIDE DEF life, misled, phase
        <3>2. state' = [line |-> state.line, phase |-> phase,
                        backend |-> [life |-> life, total |-> state.asked],
                        foreign |-> overtaken, asked |-> state.asked,
                        context |-> state.context, spawned |-> state.spawned + 1,
                        misled |-> misled]
            BY <2>2 DEF StartupTypes, life, misled, phase
        <3>3. state.phase \in {"starting", "restarting"}
            BY <1>4, Zenon DEF Startup!Start
        <3>4. state.line.kind = "llama" /\ ~state.misled =>
                  /\ phase = "halving" => Startup!Fast /\ state.asked = Full
                  /\ phase = "resolving" => RightTotal(state.asked)
            BY <3>1, <3>3 DEF ContextInv, RightTotal, Startup!Fast
        <3>5. state'.phase = phase /\ state'.line = state.line /\ state'.misled = misled
              /\ state'.backend = [life |-> life, total |-> state.asked]
            BY <3>2
        <3>6. StartupTypes'
            BY <3>1, <3>2 DEF StartupTypes, StartupPhases
        <3>7. BackendInv'
            BY <1>1, <3>1, <3>5 DEF BackendInv, Startup!Accepted, Startup!Managed
        <3>8. ContextInv'
            BY <3>1, <3>4, <3>5 DEF ContextInv, RightTotal, Startup!Fast, Startup!Shares
        <3> QED BY <3>6, <3>7, <3>8
    <2> QED BY <1>4, <2>1, <2>2, Zenon DEF Startup!Start
<1>5. ASSUME NEW reported \in Startup!Answers, state.line.kind = "llama",
             ~(state.misled \/ state.foreign)
      PROVE  reported = Startup!PerSlot(state.backend.total)
    BY <1>5 DEF Startup!Answers
<1>6. CASE Startup!Halve
    <2>1. ASSUME NEW reported \in Startup!Answers, state.phase = "halving",
                 state' = [state EXCEPT !.asked = Startup!Half(reported),
                                        !.phase = "restarting", !.misled = @ \/ state.foreign]
          PROVE  StartupInv'
        <3> DEFINE misled == state.misled \/ state.foreign
                   half == Startup!Half(reported)
        <3>1. misled \in BOOLEAN /\ (~misled => ~state.misled /\ ~state.foreign)
            BY DEF StartupTypes
        <3>2. state.line.kind = "llama" /\ ~misled =>
                  Startup!Fast /\ RightTotal(half)
            <4>1. state.line.kind = "llama" /\ ~misled =>
                      Startup!Fast /\ reported = Startup!PerSlot(Full)
                BY <1>5, <2>1, <3>1 DEF ContextInv
            <4>2. Startup!Near(2 * Startup!Half(Startup!PerSlot(Full)), Full, Startup!Shares)
                BY HalfOfReported DEF StartupTypes
            <4> QED BY <4>1, <4>2 DEF RightTotal, Startup!Fast
        <3> HIDE DEF misled, half
        <3>3. state' = [line |-> state.line, phase |-> "restarting",
                        backend |-> state.backend, foreign |-> state.foreign,
                        asked |-> half, context |-> state.context,
                        spawned |-> state.spawned, misled |-> misled]
            BY <2>1 DEF StartupTypes, misled, half
        <3>4. StartupTypes'
            BY <3>1, <3>3 DEF StartupTypes, StartupPhases
        <3>5. BackendInv'
            BY <1>1, <3>3 DEF BackendInv, Startup!Accepted, Startup!Managed, misled
        <3>6. ContextInv'
            BY <3>2, <3>3 DEF ContextInv, RightTotal, Startup!Fast, Startup!Shares
        <3> QED BY <3>4, <3>5, <3>6
    <2> QED BY <1>3, <1>6, <2>1, Zenon DEF Startup!Halve
<1>7. CASE Startup!Resolve
    <2>1. ASSUME NEW reported \in Startup!Answers, state.phase = "resolving",
                 state' = [state EXCEPT !.context = reported, !.phase = "preparing",
                                        !.misled = @ \/ state.foreign]
          PROVE  StartupInv'
        <3> DEFINE misled == state.misled \/ state.foreign
        <3>1. misled \in BOOLEAN /\ (~misled => ~state.misled /\ ~state.foreign)
            BY DEF StartupTypes
        <3>2. state.line.kind = "llama" /\ ~misled =>
                  /\ RightTotal(state.backend.total)
                  /\ reported = Startup!PerSlot(state.backend.total)
            BY <1>5, <2>1, <3>1 DEF ContextInv
        <3> HIDE DEF misled
        <3>3. state' = [line |-> state.line, phase |-> "preparing",
                        backend |-> state.backend, foreign |-> state.foreign,
                        asked |-> state.asked, context |-> reported,
                        spawned |-> state.spawned, misled |-> misled]
            BY <2>1 DEF StartupTypes, misled
        <3>4. StartupTypes'
            BY <3>1, <3>3 DEF StartupTypes, StartupPhases
        <3>5. BackendInv'
            BY <1>1, <3>3 DEF BackendInv, Startup!Accepted, Startup!Managed, misled
        <3>6. ContextInv'
            BY <3>2, <3>3 DEF ContextInv, RightTotal, Startup!Fast, Startup!Shares,
               Startup!PerSlot
        <3> QED BY <3>4, <3>5, <3>6
    <2> QED BY <1>3, <1>7, <2>1, Zenon DEF Startup!Resolve
<1> QED BY <1>4, <1>6, <1>7

\* The proxy serves, and ends one way or another.
LEMMA EndKeepsInv ==
    ASSUME StartupInv,
           \/ Startup!Prepare \/ Startup!Fail \/ Startup!ServeEnds \/ Startup!Stop
           \/ Startup!Killed
    PROVE  StartupInv'
<1> USE DEF StartupInv
<1>1. ASSUME NEW phase \in {"failing", "serving", "stopping", "killed"},
             phase = "serving" => state.phase = "preparing",
             phase # "killed" => Startup!Accepted,
             state' = [state EXCEPT !.phase = phase]
      PROVE  StartupInv'
    <2>1. state' = [line |-> state.line, phase |-> phase, backend |-> state.backend,
                    foreign |-> state.foreign, asked |-> state.asked,
                    context |-> state.context, spawned |-> state.spawned,
                    misled |-> state.misled]
        BY <1>1 DEF StartupTypes
    <2>2. StartupTypes'
        BY <2>1 DEF StartupTypes, StartupPhases
    <2>3. BackendInv'
        BY <1>1, <2>1 DEF BackendInv, Startup!Accepted, Startup!Managed
    <2>4. ContextInv'
        BY <1>1, <2>1 DEF ContextInv, RightTotal, Startup!Fast, Startup!Shares, Startup!PerSlot
    <2> QED BY <2>2, <2>3, <2>4
<1>2. ASSUME state' = [state EXCEPT !.phase = "over", !.backend = Startup!NoBackend]
      PROVE  StartupInv'
    <2>1. state' = [line |-> state.line, phase |-> "over",
                    backend |-> [life |-> "none", total |-> 0],
                    foreign |-> state.foreign, asked |-> state.asked,
                    context |-> state.context, spawned |-> state.spawned,
                    misled |-> state.misled]
        BY <1>2 DEF StartupTypes, Startup!NoBackend
    <2> QED BY <2>1 DEF StartupTypes, StartupPhases, BackendInv, ContextInv,
               Startup!Accepted, Startup!Managed
<1>3. CASE Startup!Prepare
    <2>1. Startup!Accepted /\ state.phase = "preparing"
        BY <1>3 DEF Startup!Prepare, BackendInv
    <2> QED BY <1>1, <1>3, <2>1 DEF Startup!Prepare, Startup!Failing
<1>4. CASE Startup!ServeEnds
    <2>1. Startup!Accepted
        BY <1>4 DEF Startup!ServeEnds, BackendInv
    <2> QED BY <1>1, <1>4, <2>1 DEF Startup!ServeEnds
<1>5. CASE Startup!Killed
    BY <1>1, <1>5 DEF Startup!Killed
<1>6. CASE Startup!Fail \/ Startup!Stop
    BY <1>2, <1>6 DEF Startup!Fail, Startup!Stop
<1> QED BY <1>3, <1>4, <1>5, <1>6

\* However startup and service end, short of a kill, no backend is left behind, and a
\* request may use what a slot of the backend has (bin/forge-guardrails-proxy,
\* server/budget.rs), for every context and every number of slots.
THEOREM StartupsAreSound == TransportsSpec => []StartupSound
<1> DEFINE Inv == focus = "startup" => StartupInv
<1>1. TransportsInit => Inv
    <2> SUFFICES ASSUME TransportsInit, focus = "startup" PROVE StartupInv
        OBVIOUS
    <2>1. PICK line \in Startup!Lines :
              state = [line |-> line, phase |-> "parsing",
                       backend |-> [life |-> "none", total |-> 0], foreign |-> FALSE,
                       asked |-> 0, context |-> 0, spawned |-> 0, misled |-> FALSE]
        BY DEF TransportsInit, Startup!Init, Startup!NoBackend
    <2> QED BY <2>1 DEF StartupInv, StartupTypes, StartupPhases, BackendInv, ContextInv
<1>2. Inv /\ [TransportsStep /\ UNCHANGED focus]_vars => Inv'
    <2> SUFFICES ASSUME Inv, [TransportsStep /\ UNCHANGED focus]_vars, focus' = "startup"
                 PROVE  StartupInv'
        OBVIOUS
    <2>1. focus = "startup"
        BY DEF vars
    <2>2. CASE UNCHANGED state
        BY <2>1, <2>2 DEF StartupInv, StartupTypes, BackendInv, ContextInv, RightTotal,
           Startup!Fast, Startup!Shares, Startup!PerSlot, Startup!Accepted, Startup!Managed
    <2>3. CASE Startup!Next
        BY <2>1, <2>3, EnvironmentKeepsInv, ParsingKeepsInv, BackendStepKeepsInv, EndKeepsInv
           DEF Startup!Next
    <2> QED BY <2>1, <2>2, <2>3 DEF TransportsStep, vars
<1>3. Inv => StartupSound
    <2> SUFFICES ASSUME StartupInv PROVE Startup!StartupSound
        BY DEF StartupSound
    <2>1. /\ state.phase = "over" => state.backend.life = "none"
          /\ ~Startup!Accepted => state.spawned = 0
        BY DEF StartupInv, BackendInv
    <2>2. ASSUME state.line.kind = "llama", state.phase = "serving", ~state.misled
          PROVE  /\ RightTotal(state.backend.total)
                 /\ state.context = Startup!PerSlot(state.backend.total)
        BY <2>2 DEF StartupInv, ContextInv
    <2> QED BY <2>1, <2>2 DEF Startup!StartupSound, RightTotal, Startup!Fast
<1> QED BY <1>1, <1>2, <1>3, PTL DEF TransportsSpec

-----------------------------------------------------------------------------
(* The requests of a client.                                               *)

\* A send has been served before it is done only by llamafile's servers; no other
\* client tries one mode after another.
SendRight(send) ==
    /\ send = [phase |-> send.phase, body |-> send.body, streams |-> send.streams,
               probes |-> send.probes, resolved |-> send.resolved, attempt |-> send.attempt,
               served |-> send.served, outcome |-> send.outcome]
    /\ send.phase \in {"idle", "posted", "done"} /\ send.probes = FALSE
    /\ send.served \in {0, 1}
    /\ send.phase # "done" => send.served = 0 /\ send.outcome = "none"
    /\ send.outcome = "response" => send.served = 1 \/ state.kind = "ollama"
    /\ state.kind # "ollama" => send.body \notin {"think", "unthinking"}

RequestShape ==
    /\ state = [kind |-> state.kind, mode |-> state.mode, think |-> state.think,
                resolved |-> state.resolved, sends |-> state.sends]
    /\ state.sends = [s \in Requests!Senders |-> state.sends[s]]
    /\ state.kind \in Requests!Kinds
    /\ state.kind # "ollama" => ~state.think

RequestInv ==
    /\ RequestShape
    /\ state.kind # "llamafile" => \A s \in Requests!Senders : SendRight(state.sends[s])

\* A send takes its next form.
LEMMA SendUpdated ==
    ASSUME RequestInv, NEW s \in Requests!Senders, NEW send, NEW mode, NEW think, NEW resolved,
           state.kind # "llamafile" => SendRight(send),
           state.kind # "ollama" => ~think,
           state' = [kind |-> state.kind, mode |-> mode, think |-> think,
                     resolved |-> resolved, sends |-> [state.sends EXCEPT ![s] = send]]
    PROVE  RequestInv'
<1>1. state'.sends = [t \in Requests!Senders |-> IF t = s THEN send ELSE state.sends[t]]
    BY DEF RequestInv, RequestShape
<1>2. state'.kind = state.kind /\ state'.think = think
    OBVIOUS
<1>3. RequestShape'
    BY <1>1, <1>2 DEF RequestInv, RequestShape
<1>4. ASSUME state.kind # "llamafile", NEW t \in Requests!Senders
      PROVE  SendRight(state.sends[t])'
    BY <1>1, <1>2, <1>4 DEF RequestInv, SendRight
<1> QED BY <1>2, <1>3, <1>4 DEF RequestInv

\* A send begins.
LEMMA BeginKeepsInv ==
    ASSUME RequestInv, NEW s \in Requests!Senders, Requests!Begin(s)
    PROVE  RequestInv'
<1> DEFINE unknown == state.kind = "llamafile" /\ state.mode = "none"
           body == CASE state.kind = "llamafile" /\ ~unknown -> state.mode
                     [] state.kind = "ollama" /\ state.think -> "think"
                     [] OTHER -> "native"
<1>1. PICK streams \in BOOLEAN, tools \in BOOLEAN :
          \E learned :
              state' = [Requests!Set(s, [Requests!Idle EXCEPT !.phase = "posted",
                            !.streams = streams, !.probes = unknown /\ tools,
                            !.resolved = state.resolved, !.attempt = 1, !.body = body])
                        EXCEPT !.mode = learned]
    BY ZenonT(60) DEF Requests!Begin
<1> DEFINE probes == unknown /\ tools
           next == [phase |-> "posted", body |-> body, streams |-> streams,
                    probes |-> probes, resolved |-> state.resolved, attempt |-> 1,
                    served |-> 0, outcome |-> "none"]
<1>2. /\ probes \in BOOLEAN
      /\ state.kind # "llamafile" => probes = FALSE
      /\ state.kind \notin {"llamafile", "ollama"} => body = "native"
    OBVIOUS
<1> HIDE DEF body
<1>3. ASSUME NEW x, x = [Requests!Idle EXCEPT !.phase = "posted", !.streams = streams,
                            !.probes = probes, !.resolved = state.resolved, !.attempt = 1,
                            !.body = body]
      PROVE  x = next
    <2> HIDE DEF probes
    <2> QED BY <1>3 DEF Requests!Idle
<1>4. PICK learned : state' = [Requests!Set(s, next) EXCEPT !.mode = learned]
    BY <1>1, <1>3
<1>5. state.kind # "llamafile" => SendRight(next)
    <2> HIDE DEF probes
    <2> QED BY <1>2 DEF SendRight, RequestInv, RequestShape, Requests!Kinds
<1> HIDE DEF next
<1>6. state' = [kind |-> state.kind, mode |-> learned, think |-> state.think,
                resolved |-> state.resolved, sends |-> [state.sends EXCEPT ![s] = next]]
    BY <1>4 DEF Requests!Set, RequestInv, RequestShape
<1>7. state.kind # "ollama" => ~state.think
    BY DEF RequestInv, RequestShape
<1> QED BY <1>5, <1>6, <1>7, SendUpdated

\* The next form of a send when it is answered, and what the client has learned from it.
LEMMA AnswerKeepsInv ==
    ASSUME RequestInv, NEW s \in Requests!Senders, Requests!Answer(s)
    PROVE  RequestInv'
<1> DEFINE old == state.sends[s]
<1>1. PICK answer \in Requests!Transient \cup Requests!Lasting \cup Requests!Served
                        \cup {"not_sent"} :
          LET send == [old EXCEPT !.served = @ + (IF answer \in Requests!Served THEN 1 ELSE 0)]
          IN  /\ answer = "no_thinking" => send.body = "think"
              /\ state' =
                    CASE Requests!Retried(send, answer) ->
                            Requests!Set(s, [send EXCEPT !.attempt = @ + 1])
                      [] ~Requests!Retried(send, answer) /\ send.probes ->
                            Requests!Probed(s, send, answer)
                      [] ~Requests!Retried(send, answer) /\ send.phase = "trial" ->
                            Requests!Set(s, [Requests!Again(send, state.mode)
                                             EXCEPT !.phase = "posted"])
                      [] ~Requests!Retried(send, answer) /\ answer = "no_thinking" ->
                            Requests!Unthinking(s, send, answer)
                      [] OTHER ->
                            [Requests!Set(s, Requests!Over(send, answer)) EXCEPT
                               !.resolved = @ \/ (state.kind = "ollama" /\ answer = "ok")]
    BY Zenon DEF Requests!Answer, Requests!Send
<1> DEFINE more == IF answer \in Requests!Served THEN 1 ELSE 0
           served == old.served + more
           send == [old EXCEPT !.served = served]
           posted(n) == [phase |-> "posted", body |-> old.body, streams |-> old.streams,
                         probes |-> FALSE, resolved |-> old.resolved,
                         attempt |-> old.attempt, served |-> n, outcome |-> "none"]
<1>2. ASSUME NEW x, NEW y, y = Requests!Set(s, x)
      PROVE  y = [kind |-> state.kind, mode |-> state.mode, think |-> state.think,
                  resolved |-> state.resolved, sends |-> [state.sends EXCEPT ![s] = x]]
    BY <1>2 DEF Requests!Set, RequestInv, RequestShape
<1>3. state.kind # "ollama" => ~state.think
    BY DEF RequestInv, RequestShape
<1>4. ASSUME state.kind # "llamafile"
      PROVE  /\ old = posted(0)
             /\ state.kind # "ollama" => old.body \notin {"think", "unthinking"}
    <2>1. old.phase \in {"posted", "trial"}
        BY Zenon DEF Requests!Answer, Requests!Send
    <2>2. SendRight(old)
        BY <1>4 DEF RequestInv
    <2> HIDE DEF old
    <2> QED BY <1>4, <2>1, <2>2 DEF SendRight
<1>5. more \in {0, 1} /\ (more = 0 <=> answer \notin Requests!Served)
    <2>1. CASE answer \in Requests!Served
        BY <2>1
    <2>2. CASE answer \notin Requests!Served
        BY <2>2
    <2> QED BY <2>1, <2>2
<1> HIDE DEF more, served
<1>6. ASSUME state.kind # "llamafile"
      PROVE  served = more /\ send = posted(more)
    <2>1. served = more
        BY <1>4, <1>5, <1>6 DEF served
    <2>0. old = posted(0)
        BY <1>4, <1>6
    <2> HIDE DEF old
    <2>2. ASSUME NEW x, x = send PROVE x = posted(served)
        <3>1. PICK b, st, r, a :
                  old = [phase |-> "posted", body |-> b, streams |-> st, probes |-> FALSE,
                         resolved |-> r, attempt |-> a, served |-> 0, outcome |-> "none"]
            BY <2>0
        <3> QED BY <2>2, <3>1
    <2>3. ASSUME NEW x, x = posted(served) PROVE x = posted(more)
        BY <2>1, <2>3
    <2> QED BY <2>1, <2>2, <2>3
<1> HIDE DEF send
<1>7. CASE Requests!Retried(send, answer)
    <2> DEFINE attempt == send.attempt + 1
               next == [send EXCEPT !.attempt = attempt]
    <2>1. state' = Requests!Set(s, next)
        BY <1>1, <1>7, Zenon DEF send, served, more
    <2> HIDE DEF attempt
    <2>2. ASSUME state.kind # "llamafile" PROVE SendRight(next)
        <3>1. state.kind \in {"anyllm", "anthropic"}
              /\ answer \in Requests!Transient \cup {"not_sent"}
            BY <1>7, <2>2 DEF Requests!Retried
        <3>2. more = 0
            BY <1>5, <3>1 DEF Requests!Transient, Requests!Served, Requests!Unanswered
        <3>3. send = posted(0) /\ old.body \notin {"think", "unthinking"}
            BY <1>4, <1>6, <2>2, <3>1, <3>2
        <3> HIDE DEF old
        <3>4. next = [posted(0) EXCEPT !.attempt = attempt]
            BY <3>3
        <3> HIDE DEF next
        <3>5. next = [phase |-> "posted", body |-> old.body, streams |-> old.streams,
                      probes |-> FALSE, resolved |-> old.resolved,
                      attempt |-> attempt, served |-> 0, outcome |-> "none"]
            BY <3>4
        <3> QED BY <3>1, <3>3, <3>5 DEF SendRight
    <2> HIDE DEF next
    <2> QED BY <1>2, <1>3, <2>1, <2>2, SendUpdated
<1>8. CASE send.probes /\ state' = Requests!Probed(s, send, answer)
    <2>1. state.kind = "llamafile"
        BY <1>6, <1>8
    <2>2. PICK x, mode : state' = [Requests!Set(s, x) EXCEPT !.mode = mode]
        BY <1>8, Zenon DEF Requests!Probed
    <2>3. state' = [kind |-> state.kind, mode |-> mode, think |-> state.think,
                    resolved |-> state.resolved, sends |-> [state.sends EXCEPT ![s] = x]]
        BY <1>2, <2>2
    <2> QED BY <1>3, <2>1, <2>3, SendUpdated
<1>9. CASE /\ send.phase = "trial"
           /\ state' = Requests!Set(s, [Requests!Again(send, state.mode) EXCEPT !.phase = "posted"])
    <2>1. state.kind = "llamafile"
        BY <1>6, <1>9
    <2> DEFINE next == [Requests!Again(send, state.mode) EXCEPT !.phase = "posted"]
    <2>2. state' = Requests!Set(s, next)
        BY <1>9
    <2> HIDE DEF next
    <2> QED BY <1>2, <1>3, <2>1, <2>2, SendUpdated
<1>10. ASSUME NEW outcome \in {"response", "error"}, state.kind # "llamafile",
              outcome = "response" => more = 1 \/ state.kind = "ollama"
       PROVE  SendRight([send EXCEPT !.phase = "done", !.outcome = outcome])
    <2>1. ASSUME NEW x, x = [send EXCEPT !.phase = "done", !.outcome = outcome]
          PROVE  SendRight(x)
        <3>1. x = [posted(more) EXCEPT !.phase = "done", !.outcome = outcome]
            BY <1>6, <1>10, <2>1
        <3>2. state.kind # "ollama" => old.body \notin {"think", "unthinking"}
            BY <1>4, <1>10
        <3> HIDE DEF old
        <3>3. x = [phase |-> "done", body |-> old.body, streams |-> old.streams,
                   probes |-> FALSE, resolved |-> old.resolved, attempt |-> old.attempt,
                   served |-> more, outcome |-> outcome]
            BY <3>1
        <3> QED BY <1>5, <1>10, <3>2, <3>3 DEF SendRight
    <2> QED BY <2>1
<1>11. ASSUME state.kind # "llamafile"
       PROVE  SendRight(Requests!Over(send, answer))
    <2> DEFINE outcome == IF Requests!Good(send, answer) THEN "response" ELSE "error"
    <2>1. outcome \in {"response", "error"}
        OBVIOUS
    <2>2. outcome = "response" => more = 1 \/ state.kind = "ollama"
        <3> SUFFICES ASSUME Requests!Good(send, answer), state.kind # "ollama"
                     PROVE  more = 1
            OBVIOUS
        <3>1. send.body \notin {"think", "unthinking"}
            BY <1>4, <1>6, <1>11
        <3>2. answer = "ok"
            BY <1>11, <3>1 DEF Requests!Good
        <3> QED BY <1>5, <3>2 DEF Requests!Served
    <2> HIDE DEF outcome
    <2>3. SendRight([send EXCEPT !.phase = "done", !.outcome = outcome])
        BY <1>10, <1>11, <2>1, <2>2
    <2> QED BY <2>3, Zenon DEF Requests!Over, outcome
<1>12. CASE answer = "no_thinking" /\ state' = Requests!Unthinking(s, send, answer)
    <2>1. CASE send.resolved
        <3>1. state' = Requests!Set(s, Requests!Over(send, answer))
            BY <1>12, <2>1 DEF Requests!Unthinking
        <3> QED BY <1>2, <1>3, <1>11, <3>1, SendUpdated
    <2>2. CASE ~send.resolved
        <3> DEFINE next == Requests!Again(send, "unthinking")
        <3>1. state' = [Requests!Set(s, next) EXCEPT !.think = FALSE, !.resolved = TRUE]
            BY <1>12, <2>2 DEF Requests!Unthinking
        <3>2. ASSUME state.kind # "llamafile" PROVE SendRight(next)
            <4>1. answer \notin Requests!Served
                BY <1>12 DEF Requests!Served, Requests!Unanswered
            <4>2. more = 0
                BY <1>5, <4>1
            <4>3. send.body = "think"
                BY <1>1, <1>12, Zenon DEF send, served, more
            <4>4. state.kind = "ollama"
                BY <1>4, <1>6, <3>2, <4>3
            <4>5. ASSUME NEW x, x = next PROVE SendRight(x)
                <5>1. x = [posted(0) EXCEPT !.body = "unthinking", !.attempt = 1]
                    BY <1>6, <3>2, <4>2, <4>5 DEF Requests!Again
                <5> HIDE DEF old
                <5>2. x = [phase |-> "posted", body |-> "unthinking", streams |-> old.streams,
                           probes |-> FALSE, resolved |-> old.resolved, attempt |-> 1,
                           served |-> 0, outcome |-> "none"]
                    BY <5>1
                <5> QED BY <4>4, <5>2 DEF SendRight
            <4> QED BY <4>5
        <3> HIDE DEF next
        <3>3. state' = [kind |-> state.kind, mode |-> state.mode, think |-> FALSE,
                        resolved |-> TRUE, sends |-> [state.sends EXCEPT ![s] = next]]
            <4> DEFINE base == Requests!Set(s, next)
                       y == [base EXCEPT !.think = FALSE]
            <4>1. state' = [y EXCEPT !.resolved = TRUE]
                BY <3>1
            <4>2. base = [kind |-> state.kind, mode |-> state.mode, think |-> state.think,
                          resolved |-> state.resolved,
                          sends |-> [state.sends EXCEPT ![s] = next]]
                BY <1>2
            <4> HIDE DEF base
            <4>3. ASSUME NEW z, z = y
                  PROVE  z = [kind |-> state.kind, mode |-> state.mode, think |-> FALSE,
                              resolved |-> state.resolved,
                              sends |-> [state.sends EXCEPT ![s] = next]]
                BY <4>2, <4>3
            <4>4. PICK z : z = y /\ state' = [z EXCEPT !.resolved = TRUE]
                BY <4>1
            <4>5. z = [kind |-> state.kind, mode |-> state.mode, think |-> FALSE,
                       resolved |-> state.resolved, sends |-> [state.sends EXCEPT ![s] = next]]
                BY <4>3, <4>4
            <4>6. state' = [z EXCEPT !.resolved = TRUE]
                BY <4>4
            <4> HIDE DEF y
            <4> DEFINE sends == [state.sends EXCEPT ![s] = next]
            <4> HIDE DEF sends
            <4>7. z = [kind |-> state.kind, mode |-> state.mode, think |-> FALSE,
                       resolved |-> state.resolved, sends |-> sends]
                BY <4>5 DEF sends
            <4>8. state' = [kind |-> state.kind, mode |-> state.mode, think |-> FALSE,
                            resolved |-> TRUE, sends |-> sends]
                BY <4>6, <4>7
            <4> QED BY <4>8 DEF sends
        <3> QED BY <3>2, <3>3, SendUpdated
    <2> QED BY <2>1, <2>2
<1>13. ASSUME NEW resolved,
              state' = [Requests!Set(s, Requests!Over(send, answer)) EXCEPT !.resolved = resolved]
       PROVE  RequestInv'
    <2> DEFINE next == Requests!Over(send, answer)
    <2> HIDE DEF next
    <2>1. state' = [kind |-> state.kind, mode |-> state.mode, think |-> state.think,
                    resolved |-> resolved, sends |-> [state.sends EXCEPT ![s] = next]]
        BY <1>2, <1>13 DEF next
    <2>2. state.kind # "llamafile" => SendRight(next)
        BY <1>11 DEF next
    <2> QED BY <1>3, <2>1, <2>2, SendUpdated
<1>14. \/ Requests!Retried(send, answer)
       \/ send.probes /\ state' = Requests!Probed(s, send, answer)
       \/ /\ send.phase = "trial"
          /\ state' = Requests!Set(s, [Requests!Again(send, state.mode) EXCEPT !.phase = "posted"])
       \/ answer = "no_thinking" /\ state' = Requests!Unthinking(s, send, answer)
       \/ \E resolved :
            state' = [Requests!Set(s, Requests!Over(send, answer)) EXCEPT !.resolved = resolved]
    <2> DEFINE retried == Requests!Retried(send, answer)
               trial == send.phase = "trial"
               refused == answer = "no_thinking"
               a == Requests!Set(s, [send EXCEPT !.attempt = send.attempt + 1])
               b == Requests!Probed(s, send, answer)
               c == Requests!Set(s, [Requests!Again(send, state.mode) EXCEPT !.phase = "posted"])
               d == Requests!Unthinking(s, send, answer)
               other == Requests!Set(s, Requests!Over(send, answer))
               e == [other EXCEPT !.resolved =
                        other.resolved \/ (state.kind = "ollama" /\ answer = "ok")]
    <2>1. state' = CASE retried -> a
                     [] ~retried /\ send.probes -> b
                     [] ~retried /\ trial -> c
                     [] ~retried /\ refused -> d
                     [] OTHER -> e
        BY <1>1, Zenon DEF send, served, more
    <2> HIDE DEF retried, trial, refused, a, b, c, d, e
    <2>2. retried \/ (send.probes /\ state' = b) \/ (trial /\ state' = c)
            \/ (refused /\ state' = d) \/ state' = e
        BY <2>1
    <2> QED BY <2>2, Zenon DEF retried, trial, refused, a, b, c, d, e, other
<1> QED BY <1>7, <1>8, <1>9, <1>12, <1>13, <1>14

\* Whatever the answers, the modes learned, the refusals to think and the other send of the
\* client, no client but llamafile's has a send served twice, and a response comes from a
\* send that was served (clients/retry.rs), for every number of retries.
THEOREM SendsAreServedOnce == TransportsSpec => []ServedOnce
<1> DEFINE Inv == focus = "requests" => RequestInv
<1>1. TransportsInit => Inv
    <2> SUFFICES ASSUME TransportsInit, focus = "requests" PROVE RequestInv
        OBVIOUS
    <2>1. PICK kind \in Requests!Kinds, mode \in {"none", "native", "prompt"},
               think \in BOOLEAN, resolved \in BOOLEAN :
              /\ kind # "ollama" => ~think /\ ~resolved
              /\ state = [kind |-> kind, mode |-> mode, think |-> think, resolved |-> resolved,
                          sends |-> [s \in Requests!Senders |-> Requests!Idle]]
        BY Zenon DEF TransportsInit, Requests!Init
    <2> QED BY <2>1 DEF RequestInv, RequestShape, SendRight, Requests!Idle
<1>2. Inv /\ [TransportsStep /\ UNCHANGED focus]_vars => Inv'
    <2> SUFFICES ASSUME Inv, [TransportsStep /\ UNCHANGED focus]_vars, focus' = "requests"
                 PROVE  RequestInv'
        OBVIOUS
    <2>1. focus = "requests"
        BY DEF vars
    <2>2. CASE UNCHANGED state
        BY <2>1, <2>2 DEF RequestInv, RequestShape, SendRight
    <2>3. CASE Requests!Next
        BY <2>1, <2>3, BeginKeepsInv, AnswerKeepsInv DEF Requests!Next
    <2> QED BY <2>1, <2>2, <2>3 DEF TransportsStep, vars
<1>3. Inv => ServedOnce
    <2> SUFFICES ASSUME RequestInv, state.kind # "llamafile", NEW s \in Requests!Senders
                 PROVE  /\ state.sends[s].served <= 1
                        /\ state.sends[s].outcome = "response" =>
                               state.sends[s].served = 1 \/ state.kind = "ollama"
                        /\ state.sends[s].served = 1 => state.sends[s].phase = "done"
        BY DEF ServedOnce, Requests!ServedOnce, Requests!Send
    <2>1. PICK send : send = state.sends[s] /\ SendRight(send)
        BY DEF RequestInv
    <2>2. /\ send.served \in {0, 1}
          /\ send.phase # "done" => send.served = 0
          /\ send.outcome = "response" => send.served = 1 \/ state.kind = "ollama"
        BY <2>1 DEF SendRight
    <2> QED BY <2>1, <2>2
<1> QED BY <1>1, <1>2, <1>3, PTL DEF TransportsSpec

-----------------------------------------------------------------------------
(* The sinks of the log.                                                   *)

Opened == 1 .. Len(state.queues)
Waiting(s) == Sinks!Range(state.queues[s])
Written == Sinks!Range(state.written)

SinkTypes ==
    /\ state = [configured |-> state.configured, slot |-> state.slot, warned |-> state.warned,
                queues |-> state.queues, ended |-> state.ended, held |-> state.held,
                event |-> state.event, emitted |-> state.emitted, dropped |-> state.dropped,
                written |-> state.written]
    /\ state.emitted \in Nat /\ state.queues \in Seq(Seq(Nat)) /\ state.written \in Seq(Nat)
    /\ state.held \in [Emitters -> Nat] /\ state.event \in [Emitters -> Nat]
    /\ state.slot \in 0 .. Len(state.queues)
    /\ \A e \in Emitters : state.held[e] \in 0 .. Len(state.queues)

\* A writer that has ended can be sent nothing and has left nothing.
EndedInv ==
    \A s \in state.ended :
        /\ s \in Opened /\ state.slot # s /\ state.queues[s] = <<>>
        /\ \A e \in Emitters : state.held[e] # s

\* An event is in one place, once.
OnceInv ==
    /\ Sinks!IsInjective(state.written)
    /\ \A s \in Opened : Sinks!IsInjective(state.queues[s])
    /\ \A s \in Opened : \A n \in Waiting(s) :
           n \notin Written /\ \A t \in Opened : n \in Waiting(t) => t = s
    /\ \A e \in Emitters : state.held[e] # 0 =>
           /\ state.event[e] \notin Written
           /\ \A s \in Opened : state.event[e] \notin Waiting(s)
           /\ \A f \in Emitters : state.held[f] # 0 /\ state.event[f] = state.event[e] => f = e

\* The events that were emitted are those that are somewhere.
EmittedInv ==
    /\ Written \subseteq 1 .. state.emitted /\ state.dropped \subseteq 1 .. state.emitted
    /\ \A s \in Opened : Waiting(s) \subseteq 1 .. state.emitted
    /\ \A e \in Emitters : state.held[e] # 0 => state.event[e] \in 1 .. state.emitted
    /\ \A n \in 1 .. state.emitted :
           \/ n \in Written \cup state.dropped
           \/ \E s \in Opened : n \in Waiting(s)
           \/ \E e \in Emitters : state.held[e] # 0 /\ state.event[e] = n

SinkInv == SinkTypes /\ EndedInv /\ OnceInv /\ EmittedInv

\* A sequence is extended.
LEMMA Appended ==
    ASSUME NEW q \in Seq(Nat), NEW n \in Nat
    PROVE  /\ Sinks!Range(Append(q, n)) = Sinks!Range(q) \cup {n}
           /\ Sinks!IsInjective(q) /\ n \notin Sinks!Range(q)
                  => Sinks!IsInjective(Append(q, n))
<1>1. /\ Len(Append(q, n)) = Len(q) + 1 /\ DOMAIN Append(q, n) = 1 .. Len(q) + 1
      /\ Append(q, n)[Len(q) + 1] = n /\ Len(q) \in Nat /\ DOMAIN q = 1 .. Len(q)
    OBVIOUS
<1>2. \A i \in 1 .. Len(q) : Append(q, n)[i] = q[i]
    OBVIOUS
<1>3. \A i \in 1 .. Len(q) + 1 : i = Len(q) + 1 \/ i \in 1 .. Len(q)
    BY <1>1
<1>4. 1 .. Len(q) \subseteq 1 .. Len(q) + 1 /\ Len(q) + 1 \in 1 .. Len(q) + 1
    BY <1>1
<1>5. Sinks!Range(Append(q, n)) = Sinks!Range(q) \cup {n}
    <2>1. ASSUME NEW i \in 1 .. Len(q) + 1 PROVE Append(q, n)[i] \in Sinks!Range(q) \cup {n}
        BY <1>1, <1>2, <1>3 DEF Sinks!Range
    <2>2. ASSUME NEW i \in 1 .. Len(q) PROVE q[i] \in Sinks!Range(Append(q, n))
        <3>1. q[i] = Append(q, n)[i] /\ i \in DOMAIN Append(q, n)
            BY <1>1, <1>2, <1>4
        <3> QED BY <3>1 DEF Sinks!Range
    <2>3. n \in Sinks!Range(Append(q, n))
        BY <1>1, <1>4 DEF Sinks!Range
    <2> QED BY <1>1, <2>1, <2>2, <2>3 DEF Sinks!Range
<1>6. ASSUME Sinks!IsInjective(q), n \notin Sinks!Range(q),
             NEW i \in 1 .. Len(q) + 1, NEW j \in 1 .. Len(q) + 1,
             Append(q, n)[i] = Append(q, n)[j]
      PROVE  i = j
    <2>1. \A k \in 1 .. Len(q) : Append(q, n)[k] # n
        BY <1>1, <1>2, <1>6 DEF Sinks!Range
    <2>2. CASE i \in 1 .. Len(q) /\ j \in 1 .. Len(q)
        BY <1>1, <1>2, <1>6, <2>2 DEF Sinks!IsInjective
    <2>3. CASE i = Len(q) + 1 /\ j = Len(q) + 1
        BY <2>3
    <2> QED BY <1>1, <1>3, <1>6, <2>1, <2>2, <2>3
<1> QED BY <1>1, <1>5, <1>6 DEF Sinks!IsInjective

\* A queue is read.
LEMMA Taken ==
    ASSUME NEW q \in Seq(Nat), q # <<>>
    PROVE  /\ Head(q) \in Nat /\ Tail(q) \in Seq(Nat) /\ Head(q) \in Sinks!Range(q)
           /\ Sinks!Range(q) = Sinks!Range(Tail(q)) \cup {Head(q)}
           /\ Sinks!IsInjective(q)
                  => Sinks!IsInjective(Tail(q)) /\ Head(q) \notin Sinks!Range(Tail(q))
<1>1. /\ Len(q) \in Nat \ {0} /\ DOMAIN q = 1 .. Len(q) /\ Head(q) = q[1] /\ q[1] \in Nat
      /\ DOMAIN Tail(q) = 1 .. Len(q) - 1 /\ Tail(q) \in Seq(Nat)
      /\ \A i \in 1 .. Len(q) - 1 : Tail(q)[i] = q[i + 1]
    OBVIOUS
<1>2. ASSUME NEW i \in 1 .. Len(q), i # 1
      PROVE  i - 1 \in 1 .. Len(q) - 1 /\ Tail(q)[i - 1] = q[i]
    <2>1. PICK n \in Nat \ {0} : n = Len(q)
        BY <1>1, Zenon
    <2>2. i \in 1 .. n
        BY <2>1
    <2>3. i - 1 \in 1 .. n - 1 /\ (i - 1) + 1 = i
        BY <1>2, <2>2
    <2>4. \A j \in 1 .. n - 1 : Tail(q)[j] = q[j + 1]
        BY <1>1, <2>1
    <2>5. Tail(q)[i - 1] = q[(i - 1) + 1]
        BY <2>3, <2>4
    <2> QED BY <2>1, <2>3, <2>5, SMTT(30)
<1>3. Sinks!Range(q) = Sinks!Range(Tail(q)) \cup {Head(q)}
    <2>1. ASSUME NEW i \in 1 .. Len(q) PROVE q[i] \in Sinks!Range(Tail(q)) \cup {Head(q)}
        BY <1>1, <1>2 DEF Sinks!Range
    <2>2. ASSUME NEW i \in 1 .. Len(q) - 1 PROVE Tail(q)[i] \in Sinks!Range(q)
        <3>1. i + 1 \in 1 .. Len(q)
            BY <1>1
        <3> QED BY <1>1, <3>1 DEF Sinks!Range
    <2>3. Head(q) \in Sinks!Range(q)
        BY <1>1 DEF Sinks!Range
    <2> QED BY <1>1, <2>1, <2>2, <2>3 DEF Sinks!Range
<1>4. ASSUME Sinks!IsInjective(q)
      PROVE  Sinks!IsInjective(Tail(q)) /\ Head(q) \notin Sinks!Range(Tail(q))
    <2>1. ASSUME NEW i \in 1 .. Len(q) - 1, NEW j \in 1 .. Len(q) - 1, Tail(q)[i] = Tail(q)[j]
          PROVE  i = j
        <3>1. i + 1 \in DOMAIN q /\ j + 1 \in DOMAIN q /\ q[i + 1] = q[j + 1]
            BY <1>1, <2>1
        <3> QED BY <1>4, <3>1 DEF Sinks!IsInjective
    <2>2. ASSUME NEW i \in 1 .. Len(q) - 1 PROVE Tail(q)[i] # Head(q)
        <3>1. i + 1 \in DOMAIN q /\ 1 \in DOMAIN q /\ i + 1 # 1
            BY <1>1
        <3> QED BY <1>1, <1>4, <3>1 DEF Sinks!IsInjective
    <2> QED BY <1>1, <2>1, <2>2 DEF Sinks!IsInjective, Sinks!Range
<1> QED BY <1>1, <1>3, <1>4

\* An emitter takes its next event and a sink.
LEMMA LookKeepsInv ==
    ASSUME SinkInv, NEW e \in Emitters, Sinks!Look(e)
    PROVE  SinkInv'
<1> DEFINE n == state.emitted + 1
           events == [state.event EXCEPT ![e] = n]
<1>1. n \in Nat /\ n \notin 1 .. state.emitted /\ 1 .. n = 1 .. state.emitted \cup {n}
      /\ state.held[e] = 0
    BY DEF SinkInv, SinkTypes, Sinks!Look, Sinks!Idle, Sinks!NoSink
<1>2. events = [f \in Emitters |-> IF f = e THEN n ELSE state.event[f]]
      /\ events \in [Emitters -> Nat]
    BY <1>1 DEF SinkInv, SinkTypes
<1> HIDE DEF n, events
<1>3. ASSUME NEW sink \in Nat \ {0}, NEW queues \in Seq(Seq(Nat)), NEW slot,
             sink \in 1 .. Len(queues), slot \in 0 .. Len(queues),
             Len(queues) >= Len(state.queues), sink \notin state.ended,
             slot \notin state.ended,
             \A s \in 1 .. Len(queues) :
                 queues[s] = IF s \in Opened THEN state.queues[s] ELSE <<>>,
             state' = [configured |-> state.configured, slot |-> slot,
                       warned |-> state.warned, queues |-> queues, ended |-> state.ended,
                       held |-> [state.held EXCEPT ![e] = sink], event |-> events,
                       emitted |-> n, dropped |-> state.dropped, written |-> state.written]
      PROVE  SinkInv'
    <2>1. /\ state'.queues = queues /\ state'.slot = slot /\ state'.ended = state.ended
          /\ state'.held = [f \in Emitters |-> IF f = e THEN sink ELSE state.held[f]]
          /\ state'.event = events /\ state'.emitted = n
          /\ state'.dropped = state.dropped /\ state'.written = state.written
        BY <1>3 DEF SinkInv, SinkTypes
    <2>2. /\ sink \in 1 .. Len(queues) /\ slot \in 0 .. Len(queues) /\ sink # 0
          /\ Len(state.queues) \in Nat /\ Len(queues) \in Nat /\ Len(queues) >= Len(state.queues)
          /\ sink \notin state.ended /\ slot \notin state.ended
        BY <1>3 DEF SinkInv, SinkTypes
    <2>3. \A s \in 1 .. Len(queues) :
              queues[s] = IF s \in Opened THEN state.queues[s] ELSE <<>>
        BY <1>3
    <2>4. Opened' = 1 .. Len(queues) /\ Opened \subseteq Opened'
        BY <2>1, <2>2 DEF Opened
    <2>5. Written' = Written
        BY <2>1 DEF Written
    <2>6. ASSUME NEW s \in Opened'
          PROVE  Waiting(s)' = IF s \in Opened THEN Waiting(s) ELSE {}
        <3>1. CASE s \in Opened
            BY <2>1, <2>3, <2>4, <3>1 DEF Waiting
        <3>2. CASE s \notin Opened
            <4>1. Waiting(s)' = Sinks!Range(<<>>)
                BY <2>1, <2>3, <2>4, <2>6, <3>2 DEF Waiting
            <4> QED BY <3>2, <4>1 DEF Sinks!Range
        <3> QED BY <3>1, <3>2
    <2>7. SinkTypes'
        <3>1. state'.held \in [Emitters -> Nat]
              /\ \A f \in Emitters : state'.held[f] \in 0 .. Len(queues)
            BY <2>1, <2>2 DEF SinkInv, SinkTypes
        <3> QED BY <1>1, <1>2, <1>3, <2>1, <2>2, <3>1 DEF SinkInv, SinkTypes
    <2>8. EndedInv'
        <3>1. ASSUME NEW s \in state.ended
              PROVE  /\ s \in Opened' /\ slot # s /\ queues[s] = <<>>
                     /\ \A f \in Emitters : state'.held[f] # s
            <4>1. /\ s \in Opened /\ state.queues[s] = <<>>
                  /\ \A f \in Emitters : state.held[f] # s
                BY <3>1 DEF SinkInv, EndedInv
            <4> QED BY <2>1, <2>2, <2>3, <2>4, <4>1
        <3> QED BY <2>1, <3>1 DEF EndedInv
    <2>9. OnceInv'
        <3>1. Sinks!IsInjective(state.written)'
              /\ \A s \in Opened' : Sinks!IsInjective(state.queues[s])'
            <4>1. Sinks!IsInjective(<<>>)
                BY DEF Sinks!IsInjective
            <4> QED BY <2>1, <2>3, <2>4, <4>1 DEF SinkInv, OnceInv
        <3>2. n \notin Written /\ \A s \in Opened : n \notin Waiting(s)
            BY <1>1 DEF SinkInv, EmittedInv
        <3>3. \A f \in Emitters : state.held[f] # 0 => state.event[f] # n
            BY <1>1 DEF SinkInv, EmittedInv
        <3>4. ASSUME NEW s \in Opened', NEW m \in Waiting(s)'
              PROVE  m \notin Written' /\ \A t \in Opened' : m \in Waiting(t)' => t = s
            <4>1. s \in Opened /\ m \in Waiting(s)
                BY <2>6, <3>4
            <4>2. m \notin Written /\ \A t \in Opened : m \in Waiting(t) => t = s
                BY <4>1 DEF SinkInv, OnceInv
            <4> QED BY <2>5, <2>6, <4>2
        <3>5. ASSUME NEW f \in Emitters, state'.held[f] # 0
              PROVE  /\ state'.event[f] \notin Written'
                     /\ \A s \in Opened' : state'.event[f] \notin Waiting(s)'
                     /\ \A g \in Emitters :
                            state'.held[g] # 0 /\ state'.event[g] = state'.event[f] => g = f
            <4>1. CASE f = e
                BY <1>2, <2>1, <2>5, <2>6, <3>2, <3>3, <4>1
            <4>2. CASE f # e
                <5>1. state'.event[f] = state.event[f] /\ state.held[f] # 0
                    BY <1>2, <2>1, <3>5, <4>2
                <5>2. /\ state.event[f] \notin Written
                      /\ \A s \in Opened : state.event[f] \notin Waiting(s)
                      /\ \A g \in Emitters :
                             state.held[g] # 0 /\ state.event[g] = state.event[f] => g = f
                    BY <5>1 DEF SinkInv, OnceInv
                <5>3. /\ state'.event[f] \notin Written'
                      /\ \A s \in Opened' : state'.event[f] \notin Waiting(s)'
                    BY <2>5, <2>6, <5>1, <5>2
                <5>4. ASSUME NEW g \in Emitters, state'.held[g] # 0,
                             state'.event[g] = state'.event[f]
                      PROVE  g = f
                    <6>1. g # e => state'.event[g] = state.event[g] /\ state.held[g] # 0
                        BY <1>2, <2>1, <5>4
                    <6>2. g = e => state'.event[g] = n
                        BY <1>2, <2>1
                    <6>3. state.event[f] # n
                        BY <3>3, <5>1
                    <6> QED BY <5>1, <5>2, <5>4, <6>1, <6>2, <6>3
                <5> QED BY <5>3, <5>4
            <4> QED BY <4>1, <4>2
        <3> QED BY <3>1, <3>4, <3>5 DEF OnceInv
    <2>10. EmittedInv'
        <3>1. /\ Written' \subseteq 1 .. n /\ state'.dropped \subseteq 1 .. n
              /\ \A s \in Opened' : Waiting(s)' \subseteq 1 .. n
            <4>1. /\ Written \subseteq 1 .. state.emitted /\ state.dropped \subseteq 1 .. state.emitted
                  /\ \A s \in Opened : Waiting(s) \subseteq 1 .. state.emitted
                BY DEF SinkInv, EmittedInv
            <4>2. 1 .. state.emitted \subseteq 1 .. n
                BY <1>1
            <4>3. ASSUME NEW s \in Opened' PROVE Waiting(s)' \subseteq 1 .. n
                BY <2>6, <4>1, <4>2
            <4> QED BY <2>1, <2>5, <4>1, <4>2, <4>3
        <3>2. ASSUME NEW f \in Emitters, state'.held[f] # 0
              PROVE  state'.event[f] \in 1 .. n
            <4>1. CASE f = e
                BY <1>1, <1>2, <2>1, <4>1
            <4>2. CASE f # e
                <5>1. state.held[f] # 0 /\ state'.event[f] = state.event[f]
                    BY <1>2, <2>1, <3>2, <4>2
                <5>2. state.event[f] \in 1 .. state.emitted
                    BY <5>1 DEF SinkInv, EmittedInv
                <5> QED BY <1>1, <5>1, <5>2
            <4> QED BY <4>1, <4>2
        <3>3. ASSUME NEW m \in 1 .. n
              PROVE  \/ m \in Written' \cup state'.dropped
                     \/ \E s \in Opened' : m \in Waiting(s)'
                     \/ \E f \in Emitters : state'.held[f] # 0 /\ state'.event[f] = m
            <4>1. CASE m = n
                BY <1>2, <2>1, <2>2, <4>1
            <4>2. CASE m \in 1 .. state.emitted
                <5>1. \/ m \in Written \cup state.dropped
                      \/ \E s \in Opened : m \in Waiting(s)
                      \/ \E f \in Emitters : state.held[f] # 0 /\ state.event[f] = m
                    BY <4>2 DEF SinkInv, EmittedInv
                <5>2. ASSUME NEW s \in Opened, m \in Waiting(s)
                      PROVE  s \in Opened' /\ m \in Waiting(s)'
                    BY <2>4, <2>6, <5>2
                <5>3. ASSUME NEW f \in Emitters, state.held[f] # 0, state.event[f] = m
                      PROVE  state'.held[f] # 0 /\ state'.event[f] = m
                    BY <1>1, <1>2, <2>1, <5>3
                <5> QED BY <2>1, <2>5, <5>1, <5>2, <5>3
            <4> QED BY <1>1, <3>3, <4>1, <4>2
        <3> QED BY <2>1, <3>1, <3>2, <3>3 DEF EmittedInv
    <2> QED BY <2>7, <2>8, <2>9, <2>10 DEF SinkInv
<1>4. ASSUME state' = [configured |-> state.configured, slot |-> state.slot, warned |-> TRUE,
                       queues |-> state.queues, ended |-> state.ended, held |-> state.held,
                       event |-> events, emitted |-> n,
                       dropped |-> state.dropped \cup {n}, written |-> state.written]
      PROVE  SinkInv'
    <2>1. /\ state'.queues = state.queues /\ state'.slot = state.slot
          /\ state'.ended = state.ended /\ state'.held = state.held
          /\ state'.event = events /\ state'.emitted = n
          /\ state'.dropped = state.dropped \cup {n} /\ state'.written = state.written
        BY <1>4
    <2>2. /\ Opened' = Opened /\ Written' = Written
          /\ \A s : Waiting(s)' = Waiting(s)
        BY <2>1 DEF Opened, Waiting, Written
    <2>3. SinkTypes'
        BY <1>1, <1>2, <1>4, <2>1 DEF SinkInv, SinkTypes
    <2>4. EndedInv'
        BY <2>1, <2>2 DEF SinkInv, EndedInv
    <2>5. OnceInv'
        BY <1>1, <1>2, <2>1, <2>2 DEF SinkInv, OnceInv
    <2>6. EmittedInv'
        <3>1. 1 .. state.emitted \subseteq 1 .. n /\ n \in 1 .. n
            BY <1>1
        <3>2. /\ Written' \subseteq 1 .. n /\ state'.dropped \subseteq 1 .. n
              /\ \A s \in Opened' : Waiting(s)' \subseteq 1 .. n
            BY <2>1, <2>2, <3>1 DEF SinkInv, EmittedInv
        <3>3. \A f \in Emitters : state'.held[f] # 0 => state'.event[f] \in 1 .. n
            BY <1>1, <1>2, <2>1, <3>1 DEF SinkInv, EmittedInv
        <3>4. ASSUME NEW m \in 1 .. n
              PROVE  \/ m \in Written' \cup state'.dropped
                     \/ \E s \in Opened' : m \in Waiting(s)'
                     \/ \E f \in Emitters : state'.held[f] # 0 /\ state'.event[f] = m
            <4>1. CASE m = n
                BY <2>1, <4>1
            <4>2. CASE m \in 1 .. state.emitted
                BY <1>1, <1>2, <2>1, <2>2, <4>2 DEF SinkInv, EmittedInv
            <4> QED BY <1>1, <3>4, <4>1, <4>2
        <3> QED BY <2>1, <3>2, <3>3, <3>4 DEF EmittedInv
    <2> QED BY <2>3, <2>4, <2>5, <2>6 DEF SinkInv
<1>5. /\ Len(state.queues) \in Nat /\ state.slot \in 0 .. Len(state.queues)
      /\ state.slot \notin state.ended /\ state.queues \in Seq(Seq(Nat))
      /\ \A s \in state.ended : s \in 1 .. Len(state.queues)
    BY DEF SinkInv, SinkTypes, EndedInv, Opened
<1> DEFINE base == [state EXCEPT !.emitted = n, !.event[e] = n]
           sink == Len(state.queues) + 1
<1>6. ASSUME NEW x, x = base
      PROVE  x = [configured |-> state.configured, slot |-> state.slot,
                  warned |-> state.warned, queues |-> state.queues, ended |-> state.ended,
                  held |-> state.held, event |-> events, emitted |-> n,
                  dropped |-> state.dropped, written |-> state.written]
    BY <1>6 DEF SinkInv, SinkTypes, events
<1>7. \/ state.slot # 0 /\ state' = [base EXCEPT !.held[e] = state.slot]
      \/ state.slot = 0 /\ state' = [base EXCEPT !.queues = Append(base.queues, <<>>),
                                                 !.slot = sink, !.held[e] = sink]
      \/ state' = [base EXCEPT !.warned = TRUE, !.dropped = base.dropped \cup {n}]
    BY Zenon DEF Sinks!Look, Sinks!NoSink, n
<1>8. base = [configured |-> state.configured, slot |-> state.slot,
              warned |-> state.warned, queues |-> state.queues, ended |-> state.ended,
              held |-> state.held, event |-> events, emitted |-> n,
              dropped |-> state.dropped, written |-> state.written]
    BY <1>6
<1> HIDE DEF base
<1>9. CASE state.slot # 0 /\ state' = [base EXCEPT !.held[e] = state.slot]
    <2>1. state' = [configured |-> state.configured, slot |-> state.slot,
                    warned |-> state.warned, queues |-> state.queues, ended |-> state.ended,
                    held |-> [state.held EXCEPT ![e] = state.slot], event |-> events,
                    emitted |-> n, dropped |-> state.dropped, written |-> state.written]
        BY <1>8, <1>9
    <2>2. /\ state.slot \in Nat \ {0} /\ state.slot \in 1 .. Len(state.queues)
          /\ Len(state.queues) >= Len(state.queues)
        BY <1>5, <1>9
    <2>3. \A s \in 1 .. Len(state.queues) :
              state.queues[s] = IF s \in Opened THEN state.queues[s] ELSE <<>>
        BY DEF Opened
    <2> DEFINE queues == state.queues
               slot == state.slot
    <2>4. /\ slot \in Nat \ {0} /\ queues \in Seq(Seq(Nat)) /\ slot \in 1 .. Len(queues)
          /\ slot \in 0 .. Len(queues) /\ Len(queues) >= Len(state.queues)
          /\ slot \notin state.ended
          /\ \A s \in 1 .. Len(queues) :
                 queues[s] = IF s \in Opened THEN state.queues[s] ELSE <<>>
          /\ state' = [configured |-> state.configured, slot |-> slot,
                       warned |-> state.warned, queues |-> queues, ended |-> state.ended,
                       held |-> [state.held EXCEPT ![e] = slot], event |-> events,
                       emitted |-> n, dropped |-> state.dropped, written |-> state.written]
        BY <1>5, <2>1, <2>2, <2>3
    <2> HIDE DEF queues, slot
    <2> QED BY <1>3, <2>4, Zenon
<1>10. CASE /\ state.slot = 0
            /\ state' = [base EXCEPT !.queues = Append(base.queues, <<>>),
                                     !.slot = sink, !.held[e] = sink]
    <2> DEFINE queues == Append(state.queues, <<>>)
    <2>1. /\ queues \in Seq(Seq(Nat)) /\ Len(queues) = sink
          /\ \A s \in 1 .. Len(queues) :
                 queues[s] = IF s \in Opened THEN state.queues[s] ELSE <<>>
        <3>1. <<>> \in Seq(Nat)
            OBVIOUS
        <3>2. /\ queues \in Seq(Seq(Nat)) /\ Len(queues) = sink
              /\ \A s \in 1 .. Len(state.queues) : queues[s] = state.queues[s]
              /\ queues[sink] = <<>>
            BY <1>5, <3>1, AppendProperties
        <3> HIDE DEF queues
        <3> QED BY <1>5, <3>2 DEF Opened
    <2> HIDE DEF queues
    <2>2. sink \in Nat \ {0} /\ sink \notin state.ended /\ sink \in 1 .. sink /\ sink \in 0 .. sink
        BY <1>5
    <2>3. state' = [configured |-> state.configured, slot |-> sink,
                    warned |-> state.warned, queues |-> queues, ended |-> state.ended,
                    held |-> [state.held EXCEPT ![e] = sink], event |-> events,
                    emitted |-> n, dropped |-> state.dropped, written |-> state.written]
        <3>1. Append(base.queues, <<>>) = queues
            BY <1>8 DEF queues
        <3> HIDE DEF sink
        <3>2. state' = [base EXCEPT !.queues = queues, !.slot = sink, !.held[e] = sink]
            BY <1>10, <3>1
        <3> QED BY <1>8, <3>2
    <2>4. Len(queues) >= Len(state.queues) /\ sink \in 1 .. Len(queues) /\ sink \in 0 .. Len(queues)
        BY <1>5, <2>1, <2>2
    <2> HIDE DEF sink
    <2> QED BY <1>3, <2>1, <2>2, <2>3, <2>4, Zenon
<1>11. CASE state' = [base EXCEPT !.warned = TRUE, !.dropped = base.dropped \cup {n}]
    <2>1. base.dropped = state.dropped
        BY <1>8
    <2>2. state' = [base EXCEPT !.warned = TRUE, !.dropped = state.dropped \cup {n}]
        BY <1>11, <2>1
    <2> QED BY <1>4, <1>8, <2>2
<1> QED BY <1>7, <1>9, <1>10, <1>11

\* A queue is replaced.
LEMMA QueueReplaced ==
    ASSUME SinkTypes, NEW sink \in Opened, NEW q \in Seq(Nat)
    PROVE  /\ [state.queues EXCEPT ![sink] = q] \in Seq(Seq(Nat))
           /\ Len([state.queues EXCEPT ![sink] = q]) = Len(state.queues)
           /\ \A s \in Opened : [state.queues EXCEPT ![sink] = q][s]
                                    = IF s = sink THEN q ELSE state.queues[s]
BY DEF SinkTypes, Opened

\* An emitter sends its event.
LEMMA SendKeepsInv ==
    ASSUME SinkInv, NEW e \in Emitters, Sinks!Send(e)
    PROVE  SinkInv'
<1>0. PICK sink, n, q : sink = state.held[e] /\ n = state.event[e] /\ q = state.queues[sink]
    OBVIOUS
<1> DEFINE held == [state.held EXCEPT ![e] = 0]
           queues == [state.queues EXCEPT ![sink] = Append(q, n)]
<1>1. /\ sink # 0 /\ sink \in Opened /\ n \in Nat /\ sink \notin state.ended /\ q \in Seq(Nat)
      /\ Len(state.queues) \in Nat
    BY <1>0 DEF SinkInv, SinkTypes, EndedInv, Opened, Sinks!Send, Sinks!Idle, Sinks!NoSink
<1>2. /\ n \in 1 .. state.emitted /\ n \notin Written
      /\ \A s \in Opened : n \notin Waiting(s)
      /\ \A f \in Emitters : state.held[f] # 0 /\ state.event[f] = n => f = e
    BY <1>0, <1>1 DEF SinkInv, OnceInv, EmittedInv
<1>3. /\ held \in [Emitters -> Nat] /\ held[e] = 0
      /\ \A f \in Emitters : held[f] \in {0, state.held[f]} /\ (f # e => held[f] = state.held[f])
      /\ \A f \in Emitters : held[f] \in 0 .. Len(state.queues)
    BY DEF SinkInv, SinkTypes
<1>4. /\ queues \in Seq(Seq(Nat)) /\ Len(queues) = Len(state.queues)
      /\ \A s \in Opened : queues[s] = IF s = sink THEN Append(q, n) ELSE state.queues[s]
    <2>1. Append(q, n) \in Seq(Nat)
        BY <1>1
    <2> QED BY <1>1, <2>1, QueueReplaced DEF SinkInv
<1>5. \/ state' = [state EXCEPT !.held[e] = 0, !.queues[sink] = Append(q, n)]
      \/ state' = [state EXCEPT !.held[e] = 0, !.dropped = state.dropped \cup {n}]
    BY <1>0, Zenon DEF Sinks!Send, Sinks!NoSink
<1>6. CASE state' = [state EXCEPT !.held[e] = 0, !.queues[sink] = Append(q, n)]
    <2>1. state' = [configured |-> state.configured, slot |-> state.slot,
                    warned |-> state.warned, queues |-> queues, ended |-> state.ended,
                    held |-> held, event |-> state.event, emitted |-> state.emitted,
                    dropped |-> state.dropped, written |-> state.written]
        BY <1>6 DEF SinkInv, SinkTypes
    <2> HIDE DEF held, queues
    <2>2. /\ state'.queues = queues /\ state'.slot = state.slot /\ state'.ended = state.ended
          /\ state'.held = held /\ state'.event = state.event /\ state'.emitted = state.emitted
          /\ state'.dropped = state.dropped /\ state'.written = state.written
        BY <2>1
    <2>3. /\ Opened' = Opened /\ Written' = Written
          /\ \A s \in Opened : s # sink => Waiting(s)' = Waiting(s)
          /\ Waiting(sink)' = Waiting(sink) \cup {n}
        <3>1. Opened' = Opened
            BY <1>4, <2>2 DEF Opened
        <3>2. Waiting(sink)' = Waiting(sink) \cup {n}
            BY <1>0, <1>1, <1>4, <2>2, Appended DEF Waiting
        <3> QED BY <1>4, <2>2, <3>1, <3>2 DEF Waiting, Written
    <2>4. SinkTypes'
        BY <1>3, <1>4, <2>1, <2>2 DEF SinkInv, SinkTypes
    <2>5. EndedInv'
        <3>1. ASSUME NEW s \in state.ended
              PROVE  /\ s \in Opened /\ state.slot # s /\ queues[s] = <<>>
                     /\ \A f \in Emitters : held[f] # s
            <4>1. /\ s \in Opened /\ state.slot # s /\ state.queues[s] = <<>> /\ s # 0
                  /\ \A f \in Emitters : state.held[f] # s
                BY <1>1 DEF SinkInv, EndedInv, Opened
            <4> QED BY <1>1, <1>3, <1>4, <4>1
        <3> QED BY <2>2, <2>3, <3>1 DEF EndedInv
    <2>6. OnceInv'
        <3>1. Sinks!IsInjective(state.written)'
            BY <2>2 DEF SinkInv, OnceInv
        <3>2. ASSUME NEW s \in Opened PROVE Sinks!IsInjective(queues[s])
            <4>1. CASE s = sink
                BY <1>0, <1>1, <1>2, <1>4, <4>1, Appended DEF SinkInv, OnceInv, Waiting
            <4>2. CASE s # sink
                BY <1>4, <4>2 DEF SinkInv, OnceInv
            <4> QED BY <4>1, <4>2
        <3>3. ASSUME NEW s \in Opened, NEW m \in Waiting(s)'
              PROVE  m \notin Written /\ \A t \in Opened : m \in Waiting(t)' => t = s
            BY <1>2, <2>3, <3>3 DEF SinkInv, OnceInv
        <3>4. ASSUME NEW f \in Emitters, held[f] # 0
              PROVE  /\ state.event[f] \notin Written
                     /\ \A s \in Opened : state.event[f] \notin Waiting(s)'
                     /\ \A g \in Emitters :
                            held[g] # 0 /\ state.event[g] = state.event[f] => g = f
            <4>1. f # e /\ state.held[f] # 0 /\ state.event[f] # n
                BY <1>2, <1>3, <3>4
            <4> QED BY <1>3, <2>3, <4>1 DEF SinkInv, OnceInv
        <3> QED BY <2>2, <2>3, <3>1, <3>2, <3>3, <3>4 DEF OnceInv
    <2>7. EmittedInv'
        <3>1. /\ Written \subseteq 1 .. state.emitted /\ state.dropped \subseteq 1 .. state.emitted
              /\ \A s \in Opened : Waiting(s)' \subseteq 1 .. state.emitted
            BY <1>2, <2>3 DEF SinkInv, EmittedInv
        <3>2. \A f \in Emitters : held[f] # 0 => state.event[f] \in 1 .. state.emitted
            BY <1>3 DEF SinkInv, EmittedInv
        <3>3. ASSUME NEW m \in 1 .. state.emitted
              PROVE  \/ m \in Written \cup state.dropped
                     \/ \E s \in Opened : m \in Waiting(s)'
                     \/ \E f \in Emitters : held[f] # 0 /\ state.event[f] = m
            <4>1. CASE m = n
                BY <1>1, <2>3, <4>1
            <4>2. CASE m # n
                BY <1>0, <1>3, <2>3, <4>2 DEF SinkInv, EmittedInv
            <4> QED BY <4>1, <4>2
        <3> QED BY <2>2, <2>3, <3>1, <3>2, <3>3 DEF EmittedInv
    <2> QED BY <2>4, <2>5, <2>6, <2>7 DEF SinkInv
<1>7. CASE state' = [state EXCEPT !.held[e] = 0, !.dropped = state.dropped \cup {n}]
    <2>1. state' = [configured |-> state.configured, slot |-> state.slot,
                    warned |-> state.warned, queues |-> state.queues, ended |-> state.ended,
                    held |-> held, event |-> state.event, emitted |-> state.emitted,
                    dropped |-> state.dropped \cup {n}, written |-> state.written]
        BY <1>7 DEF SinkInv, SinkTypes
    <2> HIDE DEF held, queues
    <2>2. /\ state'.queues = state.queues /\ state'.slot = state.slot
          /\ state'.ended = state.ended /\ state'.held = held /\ state'.event = state.event
          /\ state'.emitted = state.emitted /\ state'.dropped = state.dropped \cup {n}
          /\ state'.written = state.written
        BY <2>1
    <2>3. Opened' = Opened /\ Written' = Written /\ \A s : Waiting(s)' = Waiting(s)
        BY <2>2 DEF Opened, Waiting, Written
    <2>4. SinkTypes'
        BY <1>3, <2>1, <2>2 DEF SinkInv, SinkTypes
    <2>5. EndedInv'
        <3>1. ASSUME NEW s \in state.ended
              PROVE  /\ s \in Opened /\ state.slot # s /\ state.queues[s] = <<>>
                     /\ \A f \in Emitters : held[f] # s
            <4>1. /\ s \in Opened /\ state.slot # s /\ state.queues[s] = <<>> /\ s # 0
                  /\ \A f \in Emitters : state.held[f] # s
                BY <1>1 DEF SinkInv, EndedInv, Opened
            <4> QED BY <1>1, <1>3, <4>1
        <3> QED BY <2>2, <2>3, <3>1 DEF EndedInv
    <2>6. OnceInv'
        BY <1>3, <2>2, <2>3 DEF SinkInv, OnceInv
    <2>7. EmittedInv'
        <3>1. ASSUME NEW m \in 1 .. state.emitted
              PROVE  \/ m \in Written \cup state'.dropped
                     \/ \E s \in Opened : m \in Waiting(s)
                     \/ \E f \in Emitters : held[f] # 0 /\ state.event[f] = m
            BY <1>0, <1>3, <2>2 DEF SinkInv, EmittedInv
        <3> QED BY <1>2, <1>3, <2>2, <2>3, <3>1 DEF SinkInv, EmittedInv
    <2> QED BY <2>4, <2>5, <2>6, <2>7 DEF SinkInv
<1> QED BY <1>5, <1>6, <1>7

\* The writer of a sink takes an event from its queue.
LEMMA WriteKeepsInv ==
    ASSUME SinkInv, NEW sink \in Opened \ state.ended, Sinks!Write(sink)
    PROVE  SinkInv'
<1>1. PICK q, n, rest, queues :
          /\ q = state.queues[sink] /\ n = Head(q) /\ rest = Tail(q)
          /\ queues = [state.queues EXCEPT ![sink] = rest]
    OBVIOUS
<1>2. /\ q \in Seq(Nat) /\ q # <<>> /\ Len(state.queues) \in Nat
    BY <1>1 DEF SinkInv, SinkTypes, Opened, Sinks!Write
<1>3. /\ n \in Nat /\ rest \in Seq(Nat) /\ n \in Waiting(sink)
      /\ Waiting(sink) = Sinks!Range(rest) \cup {n} /\ n \notin Sinks!Range(rest)
      /\ Sinks!IsInjective(rest)
    BY <1>1, <1>2, Taken DEF SinkInv, OnceInv, Waiting
<1>4. /\ n \in 1 .. state.emitted /\ n \notin Written
      /\ \A s \in Opened : n \in Waiting(s) => s = sink
      /\ \A e \in Emitters : state.held[e] # 0 => state.event[e] # n
    BY <1>3 DEF SinkInv, OnceInv, EmittedInv
<1>5. /\ queues \in Seq(Seq(Nat)) /\ Len(queues) = Len(state.queues)
      /\ \A s \in Opened : queues[s] = IF s = sink THEN rest ELSE state.queues[s]
    BY <1>1, <1>3, QueueReplaced DEF SinkInv
<1>6. ASSUME NEW written \in Seq(Nat), NEW dropped, dropped \subseteq 1 .. state.emitted,
             \/ written = Append(state.written, n) /\ dropped = state.dropped
             \/ written = state.written /\ dropped = state.dropped \cup {n},
             state' = [configured |-> state.configured, slot |-> state.slot,
                       warned |-> state.warned, queues |-> queues, ended |-> state.ended,
                       held |-> state.held, event |-> state.event, emitted |-> state.emitted,
                       dropped |-> dropped, written |-> written]
      PROVE  SinkInv'
    <2>1. /\ state'.queues = queues /\ state'.slot = state.slot /\ state'.ended = state.ended
          /\ state'.held = state.held /\ state'.event = state.event
          /\ state'.emitted = state.emitted
          /\ state'.dropped = dropped /\ state'.written = written
        BY <1>6
    <2>2. /\ Written \subseteq Written' /\ Written' \subseteq Written \cup {n}
          /\ n \in Written' \cup dropped /\ state.dropped \subseteq dropped
          /\ Sinks!IsInjective(written)
        <3>1. state.written \in Seq(Nat) /\ Sinks!IsInjective(state.written)
            BY DEF SinkInv, SinkTypes, OnceInv
        <3>2. Written' = Sinks!Range(written)
            BY <2>1 DEF Written
        <3>3. CASE written = Append(state.written, n) /\ dropped = state.dropped
            <4>1. /\ Sinks!Range(written) = Written \cup {n}
                  /\ Sinks!IsInjective(written)
                BY <1>3, <1>4, <3>1, <3>3, Appended DEF Written
            <4> QED BY <3>2, <3>3, <4>1
        <3>4. CASE written = state.written /\ dropped = state.dropped \cup {n}
            BY <3>1, <3>2, <3>4 DEF Written
        <3> QED BY <1>6, <3>3, <3>4
    <2>3. /\ Opened' = Opened /\ \A s \in Opened : s # sink => Waiting(s)' = Waiting(s)
          /\ Waiting(sink) = Waiting(sink)' \cup {n} /\ n \notin Waiting(sink)'
        <3>1. Opened' = Opened
            BY <1>5, <2>1 DEF Opened
        <3>2. Waiting(sink)' = Sinks!Range(rest)
            BY <1>5, <2>1 DEF Waiting
        <3> QED BY <1>3, <1>5, <2>1, <3>1, <3>2 DEF Waiting
    <2>4. \A s \in Opened : Waiting(s)' \subseteq Waiting(s) /\ n \notin Waiting(s)'
        BY <1>4, <2>3
    <2>5. SinkTypes'
        BY <1>5, <1>6, <2>1 DEF SinkInv, SinkTypes
    <2>6. EndedInv'
        BY <1>5, <2>1, <2>3 DEF SinkInv, EndedInv
    <2>7. OnceInv'
        <3>1. ASSUME NEW s \in Opened PROVE Sinks!IsInjective(queues[s])
            BY <1>3, <1>5 DEF SinkInv, OnceInv
        <3>2. ASSUME NEW s \in Opened, NEW m \in Waiting(s)'
              PROVE  m \notin Written' /\ \A t \in Opened : m \in Waiting(t)' => t = s
            BY <2>2, <2>4, <3>2 DEF SinkInv, OnceInv
        <3>3. ASSUME NEW e \in Emitters, state.held[e] # 0
              PROVE  /\ state.event[e] \notin Written'
                     /\ \A s \in Opened : state.event[e] \notin Waiting(s)'
                     /\ \A f \in Emitters :
                            state.held[f] # 0 /\ state.event[f] = state.event[e] => f = e
            BY <1>4, <2>2, <2>4, <3>3 DEF SinkInv, OnceInv
        <3> QED BY <2>1, <2>2, <2>3, <3>1, <3>2, <3>3 DEF OnceInv
    <2>8. EmittedInv'
        <3>1. /\ Written' \subseteq 1 .. state.emitted /\ dropped \subseteq 1 .. state.emitted
              /\ \A s \in Opened : Waiting(s)' \subseteq 1 .. state.emitted
            BY <1>4, <1>6, <2>2, <2>4 DEF SinkInv, EmittedInv
        <3>2. ASSUME NEW m \in 1 .. state.emitted
              PROVE  \/ m \in Written' \cup dropped
                     \/ \E s \in Opened : m \in Waiting(s)'
                     \/ \E e \in Emitters : state.held[e] # 0 /\ state.event[e] = m
            <4>1. CASE m = n
                BY <2>2, <4>1
            <4>2. CASE m # n
                BY <2>2, <2>3, <4>2 DEF SinkInv, EmittedInv
            <4> QED BY <4>1, <4>2
        <3>3. \A e \in Emitters : state.held[e] # 0 => state.event[e] \in 1 .. state.emitted
            BY DEF SinkInv, EmittedInv
        <3> QED BY <2>1, <2>3, <3>1, <3>2, <3>3 DEF EmittedInv
    <2> QED BY <2>5, <2>6, <2>7, <2>8 DEF SinkInv
<1> DEFINE base == [state EXCEPT !.queues[sink] = rest]
<1>7. \/ state' = [base EXCEPT !.written = Append(base.written, n)]
      \/ state' = [base EXCEPT !.dropped = base.dropped \cup {n}]
    BY <1>1, Zenon DEF Sinks!Write
<1>8. base = [configured |-> state.configured, slot |-> state.slot,
              warned |-> state.warned, queues |-> queues, ended |-> state.ended,
              held |-> state.held, event |-> state.event, emitted |-> state.emitted,
              dropped |-> state.dropped, written |-> state.written]
    <2>1. ASSUME NEW x, x = base
          PROVE  x = [configured |-> state.configured, slot |-> state.slot,
                      warned |-> state.warned, queues |-> queues, ended |-> state.ended,
                      held |-> state.held, event |-> state.event, emitted |-> state.emitted,
                      dropped |-> state.dropped, written |-> state.written]
        BY <1>1, <2>1 DEF SinkInv, SinkTypes
    <2> QED BY <2>1
<1> HIDE DEF base
<1>9. CASE state' = [base EXCEPT !.written = Append(base.written, n)]
    <2>0. Append(state.written, n) \in Seq(Nat)
        BY <1>3 DEF SinkInv, SinkTypes
    <2>1. PICK written \in Seq(Nat) : written = Append(state.written, n)
        BY <2>0
    <2>2. state' = [base EXCEPT !.written = written]
        BY <1>8, <1>9, <2>1
    <2>3. state.dropped \subseteq 1 .. state.emitted
        BY DEF SinkInv, EmittedInv
    <2> QED BY <1>6, <1>8, <2>1, <2>2, <2>3
<1>10. CASE state' = [base EXCEPT !.dropped = base.dropped \cup {n}]
    <2>1. state' = [base EXCEPT !.dropped = state.dropped \cup {n}]
        BY <1>8, <1>10
    <2>2. state.dropped \cup {n} \subseteq 1 .. state.emitted /\ state.written \in Seq(Nat)
        BY <1>4 DEF SinkInv, SinkTypes, EmittedInv
    <2> QED BY <1>6, <1>8, <2>1, <2>2
<1> QED BY <1>7, <1>9, <1>10

\* A writer ends, or the sink in use is given up.
LEMMA CloseKeepsInv ==
    ASSUME SinkInv,
           \/ Sinks!Shutdown
           \/ \E sink \in Opened \ state.ended : Sinks!End(sink)
    PROVE  SinkInv'
<1>1. ASSUME NEW slot \in {0, state.slot}, NEW ended,
             \A s \in ended \ state.ended :
                 /\ s \in Opened /\ state.slot # s /\ state.queues[s] = <<>>
                 /\ \A e \in Emitters : state.held[e] # s,
             state' = [configured |-> state.configured, slot |-> slot,
                       warned |-> state.warned, queues |-> state.queues, ended |-> ended,
                       held |-> state.held, event |-> state.event, emitted |-> state.emitted,
                       dropped |-> state.dropped, written |-> state.written]
      PROVE  SinkInv'
    <2>1. /\ state'.queues = state.queues /\ state'.slot = slot /\ state'.ended = ended
          /\ state'.held = state.held /\ state'.event = state.event
          /\ state'.emitted = state.emitted
          /\ state'.dropped = state.dropped /\ state'.written = state.written
        BY <1>1
    <2>2. Opened' = Opened /\ Written' = Written /\ \A s : Waiting(s)' = Waiting(s)
        BY <2>1 DEF Opened, Waiting, Written
    <2>3. SinkTypes'
        BY <1>1, <2>1 DEF SinkInv, SinkTypes
    <2>4. EndedInv'
        <3>1. ASSUME NEW s \in ended
              PROVE  /\ s \in Opened /\ slot # s /\ state.queues[s] = <<>>
                     /\ \A e \in Emitters : state.held[e] # s
            <4>1. /\ s \in Opened /\ state.slot # s /\ state.queues[s] = <<>>
                  /\ \A e \in Emitters : state.held[e] # s
                BY <1>1 DEF SinkInv, EndedInv
            <4>2. s # 0
                BY <4>1 DEF SinkInv, SinkTypes, Opened
            <4> QED BY <1>1, <4>1, <4>2
        <3> QED BY <2>1, <2>2, <3>1 DEF EndedInv
    <2>5. OnceInv' /\ EmittedInv'
        BY <2>1, <2>2 DEF SinkInv, OnceInv, EmittedInv
    <2> QED BY <2>3, <2>4, <2>5 DEF SinkInv
<1>2. CASE Sinks!Shutdown
    <2>1. state' = [state EXCEPT !.slot = 0]
        BY <1>2, Zenon DEF Sinks!Shutdown, Sinks!NoSink
    <2>2. state' = [configured |-> state.configured, slot |-> 0,
                    warned |-> state.warned, queues |-> state.queues, ended |-> state.ended,
                    held |-> state.held, event |-> state.event, emitted |-> state.emitted,
                    dropped |-> state.dropped, written |-> state.written]
        BY <2>1 DEF SinkInv, SinkTypes
    <2> QED BY <1>1, <2>2
<1>3. ASSUME NEW sink \in Opened \ state.ended, Sinks!End(sink)
      PROVE  SinkInv'
    <2>1. /\ state' = [state EXCEPT !.ended = state.ended \cup {sink}]
          /\ state.slot # sink /\ state.queues[sink] = <<>>
          /\ \A e \in Emitters : state.held[e] # sink
        BY <1>3, Zenon DEF Sinks!End, Sinks!Ends, Sinks!Closed
    <2> DEFINE ended == state.ended \cup {sink}
    <2>2. \A s \in ended \ state.ended :
              /\ s \in Opened /\ state.slot # s /\ state.queues[s] = <<>>
              /\ \A e \in Emitters : state.held[e] # s
        BY <2>1
    <2> HIDE DEF ended
    <2>3. state' = [configured |-> state.configured, slot |-> state.slot,
                    warned |-> state.warned, queues |-> state.queues, ended |-> ended,
                    held |-> state.held, event |-> state.event, emitted |-> state.emitted,
                    dropped |-> state.dropped, written |-> state.written]
        BY <2>1 DEF SinkInv, SinkTypes, ended
    <2> QED BY <1>1, <2>2, <2>3
<1> QED BY <1>2, <1>3

\* Every event of the log was written once, or dropped for a reason the sink reports, or is
\* on its way to a writer that is there to write it (proxy/handler/classifier_log.rs), for
\* every number of emitters, events and sinks and every capacity of a queue.
THEOREM EventsAreAccounted == TransportsSpec => []EventsAccounted
<1> DEFINE Inv == focus = "sinks" => SinkInv
<1>1. TransportsInit => Inv
    <2> SUFFICES ASSUME TransportsInit, focus = "sinks" PROVE SinkInv
        OBVIOUS
    <2>1. PICK configured \in BOOLEAN :
              state = [configured |-> configured, slot |-> 0, warned |-> FALSE,
                       queues |-> <<>>, ended |-> {}, held |-> [e \in Emitters |-> 0],
                       event |-> [e \in Emitters |-> 0], emitted |-> 0, dropped |-> {},
                       written |-> <<>>]
        BY DEF TransportsInit, Sinks!Init, Sinks!NoSink
    <2>2. <<>> \in Seq(Seq(Nat)) /\ <<>> \in Seq(Nat) /\ Len(<<>>) = 0
        OBVIOUS
    <2>3. SinkTypes /\ EndedInv
        BY <2>1, <2>2 DEF SinkTypes, EndedInv
    <2>4. Opened = {} /\ Written = {} /\ Sinks!IsInjective(state.written)
        BY <2>1, <2>2 DEF Opened, Written, Sinks!Range, Sinks!IsInjective
    <2>5. OnceInv /\ EmittedInv
        BY <2>1, <2>4 DEF OnceInv, EmittedInv
    <2> QED BY <2>3, <2>5 DEF SinkInv
<1>2. Inv /\ [TransportsStep /\ UNCHANGED focus]_vars => Inv'
    <2> SUFFICES ASSUME Inv, [TransportsStep /\ UNCHANGED focus]_vars, focus' = "sinks"
                 PROVE  SinkInv'
        OBVIOUS
    <2>1. focus = "sinks" /\ SinkInv
        BY DEF vars
    <2>2. CASE UNCHANGED state
        <3>1. Opened' = Opened /\ Written' = Written /\ \A s : Waiting(s)' = Waiting(s)
            BY <2>2 DEF Opened, Written, Waiting
        <3>2. SinkTypes'
            BY <2>1, <2>2 DEF SinkInv, SinkTypes
        <3>3. EndedInv' /\ OnceInv' /\ EmittedInv'
            BY <2>1, <2>2, <3>1 DEF SinkInv, EndedInv, OnceInv, EmittedInv
        <3> QED BY <3>2, <3>3 DEF SinkInv
    <2>3. CASE Sinks!Next
        <3>1. DOMAIN state.queues = Opened
            BY <2>1 DEF SinkInv, SinkTypes, Opened
        <3> QED BY <2>1, <2>3, <3>1, LookKeepsInv, SendKeepsInv, WriteKeepsInv, CloseKeepsInv
                   DEF Sinks!Next
    <2> QED BY <2>1, <2>2, <2>3 DEF TransportsStep, vars
<1>3. Inv => EventsAccounted
    <2> SUFFICES ASSUME SinkInv PROVE Sinks!EventsAccounted
        BY DEF EventsAccounted
    <2>1. DOMAIN state.queues = Opened
        BY DEF SinkInv, SinkTypes, Opened
    <2>2. \A s \in state.ended : Waiting(s) = {}
        BY DEF SinkInv, EndedInv, Waiting, Sinks!Range
    <2>3. \A n : n \in Sinks!Queued <=> \E s \in Opened \ state.ended : n \in Waiting(s)
        BY <2>1 DEF Sinks!Queued, Waiting
    <2>4. \A n : n \in Sinks!Held <=> \E e \in Emitters : state.held[e] # 0 /\ state.event[e] = n
        BY DEF Sinks!Held, Sinks!Idle, Sinks!NoSink
    <2>5. 1 .. state.emitted = Written \cup state.dropped \cup Sinks!Queued \cup Sinks!Held
        <3>1. ASSUME NEW n \in 1 .. state.emitted
              PROVE  n \in Written \cup state.dropped \cup Sinks!Queued \cup Sinks!Held
            BY <2>2, <2>3, <2>4 DEF SinkInv, EmittedInv
        <3>2. ASSUME NEW n \in Sinks!Queued PROVE n \in 1 .. state.emitted
            BY <2>3 DEF SinkInv, EmittedInv
        <3>3. ASSUME NEW n \in Sinks!Held PROVE n \in 1 .. state.emitted
            BY <2>4 DEF SinkInv, EmittedInv
        <3> QED BY <3>1, <3>2, <3>3 DEF SinkInv, EmittedInv
    <2>6. \A e \in Emitters : state.held[e] \notin state.ended
        BY DEF SinkInv, EndedInv
    <2> QED BY <2>5, <2>6 DEF Sinks!EventsAccounted, SinkInv, OnceInv, Written
<1> QED BY <1>1, <1>2, <1>3, PTL DEF TransportsSpec

-----------------------------------------------------------------------------
(* The streams.                                                            *)

CallRecords == [id : Nat, args : Nat]

\* The calls to hand on of the calls a server made.
ToHandOn(client, meant) ==
    IF client = "ollama" /\ meant # <<>> THEN <<Streams!Last(meant)>> ELSE meant

Handed(response) == IF response.kind = "calls" THEN response.calls ELSE <<>>

StreamShape ==
    /\ state = [client |-> state.client, meant |-> state.meant, ended |-> state.ended,
                misnumbered |-> state.misnumbered, text |-> state.text, tools |-> state.tools,
                ready |-> state.ready, outcome |-> state.outcome, response |-> state.response]
    /\ state.meant \in Seq(CallRecords)
    /\ state.client \in Streams!Clients /\ state.ended \in BOOLEAN

\* The accumulators hold the calls the server made, with as much of their arguments as it
\* has sent; an answer that is ready, or handed on, has them whole.
AssemblyInv ==
    /\ ~state.misnumbered => state.tools = ToHandOn(state.client, state.meant)
    /\ state.ended /\ ~state.misnumbered => Streams!AllComplete(state.tools)
    /\ state.ready # Streams!NoResponse =>
           /\ state.ended /\ state.client = "llamafile"
           /\ ~state.misnumbered => Handed(state.ready) = ToHandOn(state.client, state.meant)
    /\ state.outcome = "final" =>
           /\ state.client # "anyllm" => state.ended
           /\ state.ended /\ ~state.misnumbered =>
                  Handed(state.response) = ToHandOn(state.client, state.meant)

StreamInv == StreamShape /\ AssemblyInv

\* Calls whose arguments are complete are handed on as they are.
LEMMA AssembledWhole ==
    ASSUME NEW parts, parts.tools \in Seq(CallRecords), Streams!AllComplete(parts.tools)
    PROVE  Handed(Streams!Assembled(parts)) = parts.tools
<1> DEFINE tools == parts.tools
           whole == [i \in DOMAIN tools |->
                       [tools[i] EXCEPT !.args = IF Streams!Complete(tools[i].args)
                                                 THEN tools[i].args ELSE 0]]
<1>1. whole = tools
    <2>1. ASSUME NEW i \in DOMAIN tools PROVE whole[i] = tools[i]
        <3>1. tools[i] \in CallRecords /\ Streams!Complete(tools[i].args)
            BY DEF Streams!AllComplete
        <3>2. PICK call \in CallRecords : call = tools[i]
            BY <3>1
        <3>3. whole[i] = [call EXCEPT !.args = call.args]
            BY <3>1, <3>2
        <3> HIDE DEF whole, tools
        <3> QED BY <3>2, <3>3 DEF CallRecords
    <2>2. tools = [i \in DOMAIN tools |-> tools[i]]
        OBVIOUS
    <2>3. whole = [i \in DOMAIN tools |-> whole[i]]
        OBVIOUS
    <2> HIDE DEF whole
    <2> QED BY <2>1, <2>2, <2>3
<1>2. CASE tools = <<>>
    <2>1. Streams!Assembled(parts) = [kind |-> "text", text |-> parts.text]
        BY <1>2 DEF Streams!Assembled, Streams!TextOf
    <2> QED BY <1>2, <2>1 DEF Handed
<1>3. CASE tools # <<>>
    <2>1. \/ Streams!Assembled(parts) = [kind |-> "calls", calls |-> tools]
          \/ Streams!Assembled(parts) = [kind |-> "calls", calls |-> whole]
        BY <1>3 DEF Streams!Assembled, Streams!CallsOf
    <2> HIDE DEF whole
    <2> QED BY <1>1, <2>1 DEF Handed
<1> QED BY <1>2, <1>3

\* An answer grows.
LEMMA GrowthKeepsInv ==
    ASSUME StreamInv, ~state.ended, state.outcome = "open",
           NEW meant \in Seq(CallRecords), NEW tools, NEW text, NEW misnumbered,
           NEW outcome \in {"open", "error"},
           ~misnumbered => tools = ToHandOn(state.client, meant),
           state' = [client |-> state.client, meant |-> meant, ended |-> FALSE,
                     misnumbered |-> misnumbered, text |-> text, tools |-> tools,
                     ready |-> state.ready, outcome |-> outcome, response |-> state.response]
    PROVE  StreamInv'
<1>1. /\ state'.client = state.client /\ state'.meant = meant /\ state'.ended = FALSE
      /\ state'.misnumbered = misnumbered /\ state'.tools = tools
      /\ state'.ready = state.ready /\ state'.outcome = outcome
    OBVIOUS
<1>2. StreamShape'
    BY <1>1 DEF StreamInv, StreamShape
<1>3. state.ready = Streams!NoResponse
    BY DEF StreamInv, AssemblyInv
<1>4. AssemblyInv'
    BY <1>1, <1>3 DEF AssemblyInv, Streams!NoResponse
<1> QED BY <1>2, <1>4 DEF StreamInv

\* What the server wrote is taken in.
LEMMA EventsKeepInv ==
    ASSUME StreamInv,
           Streams!Text \/ Streams!Call \/ Streams!Misnumbered \/ Streams!Args
    PROVE  StreamInv'
<1>1. /\ state.ended = FALSE /\ state.outcome = "open" /\ state.meant \in Seq(CallRecords)
      /\ Len(state.meant) \in Nat
    BY DEF Streams!Text, Streams!Call, Streams!Misnumbered, Streams!Args, Streams!Going,
           Streams!AtRest, StreamInv, StreamShape
<1>2. ~state.misnumbered => state.tools = ToHandOn(state.client, state.meant)
    BY DEF StreamInv, AssemblyInv
<1>3. ASSUME NEW call \in CallRecords
      PROVE  /\ Append(state.meant, call) \in Seq(CallRecords)
             /\ ToHandOn("ollama", Append(state.meant, call)) = <<call>>
    <2>1. PICK meant : meant = Append(state.meant, call)
        OBVIOUS
    <2>2. /\ meant \in Seq(CallRecords) /\ Len(meant) = Len(state.meant) + 1
          /\ meant[Len(state.meant) + 1] = call /\ meant # <<>>
        BY <1>1, <2>1
    <2> QED BY <2>1, <2>2 DEF ToHandOn, Streams!Last
<1>4. Streams!NewCall \in CallRecords
    BY <1>1 DEF Streams!NewCall, CallRecords
<1>5. CASE Streams!Text
    <2>1. PICK text : state' = [state EXCEPT !.text = text]
        BY <1>5, Zenon DEF Streams!Text
    <2>2. state' = [client |-> state.client, meant |-> state.meant, ended |-> FALSE,
                    misnumbered |-> state.misnumbered, text |-> text, tools |-> state.tools,
                    ready |-> state.ready, outcome |-> "open", response |-> state.response]
        BY <1>1, <2>1 DEF StreamInv, StreamShape
    <2> QED BY <1>1, <1>2, <2>2, GrowthKeepsInv
<1>6. ASSUME NEW call \in CallRecords, NEW tools, NEW misnumbered,
             ~misnumbered => tools = ToHandOn(state.client, Append(state.meant, call)),
             \/ misnumbered = state.misnumbered /\ state' =
                    [state EXCEPT !.meant = Append(state.meant, call), !.tools = tools]
             \/ misnumbered = TRUE /\ state' =
                    [state EXCEPT !.meant = Append(state.meant, call), !.misnumbered = TRUE,
                                  !.tools = tools]
      PROVE  StreamInv'
    <2>1. PICK meant \in Seq(CallRecords) : meant = Append(state.meant, call)
        BY <1>3
    <2>2. state' = [client |-> state.client, meant |-> meant, ended |-> FALSE,
                    misnumbered |-> misnumbered, text |-> state.text, tools |-> tools,
                    ready |-> state.ready, outcome |-> "open", response |-> state.response]
        BY <1>1, <1>6, <2>1 DEF StreamInv, StreamShape
    <2> QED BY <1>1, <1>6, <2>1, <2>2, GrowthKeepsInv
<1>7. CASE Streams!Call /\ state.client = "ollama"
    <2>1. PICK pieces \in {0, ArgPieces} :
              state' = [state EXCEPT
                          !.meant = Append(state.meant, [Streams!NewCall EXCEPT !.args = pieces]),
                          !.tools = <<[Streams!NewCall EXCEPT !.args = pieces]>>]
        BY <1>7, Zenon DEF Streams!Call
    <2> DEFINE call == [Streams!NewCall EXCEPT !.args = pieces]
    <2>2. call \in CallRecords
        BY <1>1, AssemblyAssumption DEF Streams!NewCall, CallRecords
    <2> HIDE DEF call
    <2>3. PICK tools : tools = <<call>>
        OBVIOUS
    <2> QED BY <1>3, <1>6, <1>7, <2>1, <2>2, <2>3, Zenon DEF call
<1>8. CASE Streams!Call /\ state.client # "ollama"
    <2>1. PICK tools : /\ tools = Append(state.tools, Streams!NewCall)
                       /\ state' = [state EXCEPT !.meant = Append(state.meant, Streams!NewCall),
                                                 !.tools = tools]
        BY <1>8, Zenon DEF Streams!Call
    <2>2. ~state.misnumbered =>
              tools = ToHandOn(state.client, Append(state.meant, Streams!NewCall))
        BY <1>2, <1>8, <2>1 DEF ToHandOn
    <2> QED BY <1>4, <1>6, <2>1, <2>2, Zenon
<1>9. CASE Streams!Misnumbered /\ state.client # "anyllm"
    <2>1. PICK tools : state' = [state EXCEPT !.meant = Append(state.meant, Streams!NewCall),
                                              !.misnumbered = TRUE, !.tools = tools]
        BY <1>9, Zenon DEF Streams!Misnumbered
    <2> QED BY <1>4, <1>6, <2>1, Zenon
<1>10. CASE Streams!Misnumbered /\ state.client = "anyllm"
    <2>1. PICK failed : failed = Streams!Failed /\ state' = [failed EXCEPT !.misnumbered = TRUE]
        BY <1>10, Zenon DEF Streams!Misnumbered
    <2>2. failed = [client |-> state.client, meant |-> state.meant, ended |-> state.ended,
                    misnumbered |-> state.misnumbered, text |-> state.text,
                    tools |-> state.tools, ready |-> state.ready, outcome |-> "error",
                    response |-> state.response]
        BY <2>1 DEF StreamInv, StreamShape, Streams!Failed
    <2>3. PICK misnumbered : misnumbered = TRUE
        OBVIOUS
    <2>4. state' = [failed EXCEPT !.misnumbered = misnumbered]
        BY <2>1, <2>3
    <2>5. state' = [client |-> state.client, meant |-> state.meant, ended |-> state.ended,
                    misnumbered |-> misnumbered, text |-> state.text, tools |-> state.tools,
                    ready |-> state.ready, outcome |-> "error", response |-> state.response]
        BY <2>2, <2>4
    <2> QED BY <1>1, <2>3, <2>5, GrowthKeepsInv
<1>11. CASE Streams!Args
    <2> DEFINE more(calls) == [calls EXCEPT ![Len(calls)].args = calls[Len(calls)].args + 1]
    <2>1. /\ state.client # "ollama" /\ state.meant # <<>>
          /\ state' = [state EXCEPT !.meant = more(state.meant), !.tools = more(state.tools)]
        BY <1>11 DEF Streams!Args, StreamInv, StreamShape
    <2>2. more(state.meant) \in Seq(CallRecords)
        <3>1. PICK meant \in Seq(CallRecords) : meant = state.meant
            BY <1>1
        <3>2. PICK n \in Nat \ {0} : n = Len(meant)
            BY <2>1, <3>1
        <3>3. meant[n] \in CallRecords
            BY <3>2
        <3>4. PICK call \in CallRecords : call = meant[n]
            BY <3>3
        <3>5. [call EXCEPT !.args = call.args + 1] \in CallRecords
            BY DEF CallRecords
        <3>6. PICK next \in CallRecords : next = [call EXCEPT !.args = call.args + 1]
            BY <3>5
        <3>7. more(meant) = [meant EXCEPT ![n] = next]
            BY <3>2, <3>4, <3>6
        <3> HIDE DEF more
        <3>8. [meant EXCEPT ![n] = next] \in Seq(CallRecords)
            BY <3>2
        <3> QED BY <3>1, <3>7, <3>8
    <2> HIDE DEF more
    <2>3. PICK meant \in Seq(CallRecords), tools \in {more(state.tools)} :
              meant = more(state.meant) /\ tools = more(state.tools)
        BY <2>2
    <2>4. ~state.misnumbered => tools = ToHandOn(state.client, meant)
        BY <1>2, <2>1, <2>3 DEF ToHandOn
    <2>5. state' = [client |-> state.client, meant |-> meant, ended |-> FALSE,
                    misnumbered |-> state.misnumbered, text |-> state.text, tools |-> tools,
                    ready |-> state.ready, outcome |-> "open", response |-> state.response]
        BY <1>1, <2>1, <2>3 DEF StreamInv, StreamShape
    <2> QED BY <1>1, <2>4, <2>5, GrowthKeepsInv
<1> QED BY <1>5, <1>7, <1>8, <1>9, <1>10, <1>11

\* The end of an answer, or of the stream.
LEMMA EndKeepsStreamInv ==
    ASSUME StreamInv,
           Streams!Finish \/ Streams!Done \/ Streams!Cut \/ Streams!Fail
    PROVE  StreamInv'
<1>1. /\ state.outcome = "open" /\ state.meant \in Seq(CallRecords)
      /\ state.ended \in BOOLEAN /\ state.client \in Streams!Clients
      /\ ~state.misnumbered => state.tools = ToHandOn(state.client, state.meant)
      /\ state.ended /\ ~state.misnumbered => Streams!AllComplete(state.tools)
    BY DEF Streams!Finish, Streams!Done, Streams!Cut, Streams!Fail, Streams!Going, StreamInv,
           StreamShape, AssemblyInv
<1>2. ToHandOn(state.client, state.meant) \in Seq(CallRecords)
    <2>1. ASSUME state.meant # <<>> PROVE <<Streams!Last(state.meant)>> \in Seq(CallRecords)
        <3>1. Streams!Last(state.meant) \in CallRecords
            BY <1>1, <2>1 DEF Streams!Last
        <3> QED BY <3>1
    <2> QED BY <1>1, <2>1 DEF ToHandOn
<1>3. Streams!AllComplete(state.meant) /\ ~state.misnumbered => Streams!AllComplete(state.tools)
    <2> SUFFICES ASSUME Streams!AllComplete(state.meant), ~state.misnumbered
                 PROVE  Streams!AllComplete(state.tools)
        OBVIOUS
    <2>1. CASE state.tools = state.meant
        BY <2>1
    <2>2. CASE state.meant # <<>> /\ state.tools = <<Streams!Last(state.meant)>>
        <3>1. Len(state.meant) \in DOMAIN state.meant
            BY <1>1, <2>2
        <3>2. Streams!Complete(Streams!Last(state.meant).args)
            BY <3>1 DEF Streams!AllComplete, Streams!Last
        <3> QED BY <2>2, <3>2 DEF Streams!AllComplete
    <2> QED BY <1>1, <2>1, <2>2 DEF ToHandOn
<1>4. ASSUME NEW parts, parts.tools = state.tools, ~state.misnumbered,
             Streams!AllComplete(state.tools)
      PROVE  Handed(Streams!Assembled(parts)) = ToHandOn(state.client, state.meant)
    BY <1>1, <1>2, <1>4, AssembledWhole
<1>5. ASSUME NEW ended \in BOOLEAN, NEW ready, NEW outcome, NEW response,
             ended /\ ~state.misnumbered => Streams!AllComplete(state.tools),
             ready # Streams!NoResponse =>
                 /\ ended /\ state.client = "llamafile"
                 /\ ~state.misnumbered => Handed(ready) = ToHandOn(state.client, state.meant),
             outcome = "final" =>
                 /\ state.client # "anyllm" => ended
                 /\ ended /\ ~state.misnumbered =>
                        Handed(response) = ToHandOn(state.client, state.meant),
             state' = [client |-> state.client, meant |-> state.meant, ended |-> ended,
                       misnumbered |-> state.misnumbered, text |-> state.text,
                       tools |-> state.tools, ready |-> ready, outcome |-> outcome,
                       response |-> response]
      PROVE  StreamInv'
    <2>1. /\ state'.client = state.client /\ state'.meant = state.meant
          /\ state'.ended = ended /\ state'.misnumbered = state.misnumbered
          /\ state'.tools = state.tools /\ state'.ready = ready
          /\ state'.outcome = outcome /\ state'.response = response
        BY <1>5
    <2>2. StreamShape'
        BY <1>1, <1>5, <2>1 DEF StreamShape
    <2>3. AssemblyInv'
        BY <1>1, <1>5, <2>1 DEF AssemblyInv, Streams!AllComplete, Streams!NoResponse
    <2> QED BY <2>2, <2>3 DEF StreamInv
<1>6. /\ state.ready # Streams!NoResponse =>
             /\ state.ended /\ state.client = "llamafile"
             /\ ~state.misnumbered => Handed(state.ready) = ToHandOn(state.client, state.meant)
    BY DEF StreamInv, AssemblyInv
<1>7. ASSUME NEW response,
             state.client # "anyllm" => state.ended,
             state.ended /\ ~state.misnumbered =>
                 Handed(response) = ToHandOn(state.client, state.meant),
             state' = Streams!Finished(state, response)
      PROVE  StreamInv'
    <2>1. state' = [client |-> state.client, meant |-> state.meant, ended |-> state.ended,
                    misnumbered |-> state.misnumbered, text |-> state.text,
                    tools |-> state.tools, ready |-> state.ready, outcome |-> "final",
                    response |-> response]
        BY <1>7 DEF StreamInv, StreamShape, Streams!Finished
    <2> QED BY <1>1, <1>5, <1>6, <1>7, <2>1
<1>8. ASSUME state' = [state EXCEPT !.outcome = "error"]
      PROVE  StreamInv'
    <2>1. state' = [client |-> state.client, meant |-> state.meant, ended |-> state.ended,
                    misnumbered |-> state.misnumbered, text |-> state.text,
                    tools |-> state.tools, ready |-> state.ready, outcome |-> "error",
                    response |-> state.response]
        BY <1>8 DEF StreamInv, StreamShape
    <2> QED BY <1>1, <1>5, <1>6, <2>1
<1>9. CASE Streams!Finish
    <2> DEFINE over == [state EXCEPT !.ended = TRUE]
    <2>1. /\ ~state.ended /\ Streams!AllComplete(state.meant)
          /\ state' = CASE state.client = "llamafile" ->
                              [over EXCEPT !.ready = Streams!Assembled(over)]
                        [] state.client = "anyllm" -> over
                        [] OTHER -> Streams!Finished(over, Streams!Assembled(over))
        BY <1>9, Zenon DEF Streams!Finish, Streams!AtRest
    <2>2. PICK ended \in BOOLEAN : ended = TRUE
        OBVIOUS
    <2>3. ASSUME NEW x, x = over
          PROVE  x = [client |-> state.client, meant |-> state.meant, ended |-> ended,
                      misnumbered |-> state.misnumbered, text |-> state.text,
                      tools |-> state.tools, ready |-> state.ready, outcome |-> state.outcome,
                      response |-> state.response]
        BY <2>2, <2>3 DEF StreamInv, StreamShape
    <2>4. over = [client |-> state.client, meant |-> state.meant, ended |-> ended,
                  misnumbered |-> state.misnumbered, text |-> state.text,
                  tools |-> state.tools, ready |-> state.ready, outcome |-> state.outcome,
                  response |-> state.response]
        BY <2>3
    <2> HIDE DEF over
    <2>5. PICK response : response = Streams!Assembled(over)
        OBVIOUS
    <2>6. /\ ~state.misnumbered => Handed(response) = ToHandOn(state.client, state.meant)
          /\ ~state.misnumbered => Streams!AllComplete(state.tools)
          /\ state.ready = Streams!NoResponse
        <3>1. over.tools = state.tools
            BY <2>4
        <3> QED BY <1>3, <1>4, <1>6, <2>1, <2>5, <3>1
    <2>7. CASE state.client = "llamafile"
        <3>1. state' = [over EXCEPT !.ready = response]
            BY <2>1, <2>5, <2>7
        <3>2. state' = [client |-> state.client, meant |-> state.meant, ended |-> ended,
                        misnumbered |-> state.misnumbered, text |-> state.text,
                        tools |-> state.tools, ready |-> response, outcome |-> state.outcome,
                        response |-> state.response]
            BY <2>4, <3>1
        <3> QED BY <1>1, <1>5, <2>2, <2>6, <2>7, <3>2, ZenonT(60)
    <2>8. CASE state.client = "anyllm"
        <3>1. state' = over
            BY <2>1, <2>8
        <3>2. state' = [client |-> state.client, meant |-> state.meant, ended |-> ended,
                        misnumbered |-> state.misnumbered, text |-> state.text,
                        tools |-> state.tools, ready |-> state.ready, outcome |-> state.outcome,
                        response |-> state.response]
            BY <2>4, <3>1
        <3> QED BY <1>1, <1>5, <2>2, <2>6, <3>2, ZenonT(60)
    <2>9. CASE state.client \notin {"llamafile", "anyllm"}
        <3>1. state' = [over EXCEPT !.outcome = "final", !.response = response]
            BY <2>1, <2>5, <2>9 DEF Streams!Finished
        <3>2. state' = [client |-> state.client, meant |-> state.meant, ended |-> ended,
                        misnumbered |-> state.misnumbered, text |-> state.text,
                        tools |-> state.tools, ready |-> state.ready, outcome |-> "final",
                        response |-> response]
            BY <2>4, <3>1
        <3> QED BY <1>1, <1>5, <2>2, <2>6, <3>2
    <2> QED BY <2>7, <2>8, <2>9
<1>10. CASE Streams!Done \/ Streams!Cut
    <2>1. state' = Streams!AtEnd(state)
        BY <1>10 DEF Streams!Done, Streams!Cut
    <2>2. CASE state.client = "anyllm"
        <3>1. state' = Streams!Finished(state, Streams!Assembled(state))
            BY <2>1, <2>2 DEF Streams!AtEnd
        <3> QED BY <1>1, <1>4, <1>7, <2>2, <3>1
    <2>3. CASE state.client # "anyllm" /\ state.ready # Streams!NoResponse
        <3>1. state' = Streams!Finished(state, state.ready)
            BY <2>1, <2>3 DEF Streams!AtEnd
        <3> QED BY <1>6, <1>7, <2>3, <3>1
    <2>4. CASE state.client # "anyllm" /\ state.ready = Streams!NoResponse
        <3>1. state' = [state EXCEPT !.outcome = "error"]
            BY <2>1, <2>4 DEF Streams!AtEnd
        <3> QED BY <1>8, <3>1
    <2> QED BY <2>2, <2>3, <2>4
<1>11. CASE Streams!Fail
    BY <1>8, <1>11 DEF Streams!Fail, Streams!Failed
<1> QED BY <1>9, <1>10, <1>11

\* An answer that was finished is handed on with the calls the server made, each with its
\* own arguments, and only anyllm's client hands on one that was not
\* (clients/*/streaming.rs), for every number of calls and of pieces of arguments.
THEOREM StreamsDeliver == TransportsSpec => []StreamDelivers
<1> DEFINE Inv == focus = "streams" => StreamInv
<1>1. TransportsInit => Inv
    <2> SUFFICES ASSUME TransportsInit, focus = "streams" PROVE StreamInv
        OBVIOUS
    <2>1. PICK client \in Streams!Clients :
              state = [client |-> client, meant |-> <<>>, ended |-> FALSE,
                       misnumbered |-> FALSE, text |-> 0, tools |-> <<>>,
                       ready |-> Streams!NoResponse, outcome |-> "open",
                       response |-> Streams!NoResponse]
        BY DEF TransportsInit, Streams!Init
    <2>2. <<>> \in Seq(CallRecords)
        OBVIOUS
    <2>3. StreamShape
        BY <2>1, <2>2 DEF StreamShape
    <2>4. AssemblyInv
        BY <2>1 DEF AssemblyInv, ToHandOn
    <2> QED BY <2>3, <2>4 DEF StreamInv
<1>2. Inv /\ [TransportsStep /\ UNCHANGED focus]_vars => Inv'
    <2> SUFFICES ASSUME Inv, [TransportsStep /\ UNCHANGED focus]_vars, focus' = "streams"
                 PROVE  StreamInv'
        OBVIOUS
    <2>1. focus = "streams"
        BY DEF vars
    <2>2. CASE UNCHANGED state
        BY <2>1, <2>2 DEF StreamInv, StreamShape, AssemblyInv, Streams!AllComplete,
           Streams!NoResponse
    <2>3. CASE Streams!Next
        BY <2>1, <2>3, EventsKeepInv, EndKeepsStreamInv DEF Streams!Next
    <2> QED BY <2>1, <2>2, <2>3 DEF TransportsStep, vars
<1>3. Inv => StreamDelivers
    <2> SUFFICES ASSUME StreamInv, state.outcome = "final"
                 PROVE  /\ state.client # "anyllm" => state.ended
                        /\ state.ended /\ ~state.misnumbered =>
                               Handed(state.response) = ToHandOn(state.client, state.meant)
        BY DEF StreamDelivers, Streams!StreamDelivers, Streams!Delivered, Handed, ToHandOn
    <2> QED BY DEF StreamInv, AssemblyInv
<1> QED BY <1>1, <1>2, <1>3, PTL DEF TransportsSpec

-----------------------------------------------------------------------------
(* Compaction of a conversation.                                           *)

\* A set of natural numbers has a least element, and one that is bounded a greatest.
LEMMA Extremes ==
    ASSUME NEW S \in SUBSET Nat, S # {}
    PROVE  /\ Talk!Min(S) \in S /\ \A k \in S : Talk!Min(S) <= k
           /\ \A n \in Nat : (\A k \in S : k <= n) =>
                 Talk!Max(S) \in S /\ \A k \in S : k <= Talk!Max(S)
<1>1. ASSUME NEW T \in SUBSET Nat, T # {}
      PROVE  \E n \in T : \A m \in T : n <= m
    <2>1. PICK n \in T : \A m \in T : ~ (<<m, n>> \in OpToRel(<, Nat))
        BY <1>1, NatLessThanWellFounded, WFMin, Zenon
    <2>2. OpToRel(<, Nat) = {p \in Nat \X Nat : p[1] < p[2]}
        BY Zenon DEF OpToRel
    <2>3. ASSUME NEW m \in T PROVE n <= m
        <3>1. <<m, n>> \in Nat \X Nat /\ <<m, n>>[1] = m /\ <<m, n>>[2] = n
            OBVIOUS
        <3>2. ~ (m < n)
            BY <2>1, <2>2, <3>1, Zenon
        <3> QED BY <3>2
    <2> QED BY <2>3
<1>2. Talk!Min(S) \in S /\ \A k \in S : Talk!Min(S) <= k
    BY <1>1 DEF Talk!Min
<1>3. ASSUME NEW n \in Nat, \A k \in S : k <= n
      PROVE  Talk!Max(S) \in S /\ \A k \in S : k <= Talk!Max(S)
    <2> DEFINE bounds == {l \in Nat : \A k \in S : k <= l}
    <2>1. n \in bounds /\ bounds \in SUBSET Nat
        BY <1>3
    <2>2. PICK l \in bounds : \A m \in bounds : l <= m
        <3> HIDE DEF bounds
        <3> QED BY <1>1, <2>1
    <2>3. l \in S
        <3> SUFFICES ASSUME l \notin S PROVE FALSE
            OBVIOUS
        <3>1. \A k \in S : k \in Nat /\ k <= l - 1
            BY <2>2
        <3>2. PICK k \in S : TRUE
            OBVIOUS
        <3>3. l - 1 \in bounds
            BY <3>1, <3>2
        <3> QED BY <2>2, <3>3
    <2>4. \E x \in S : \A y \in S : x >= y
        BY <2>2, <2>3
    <2>5. Talk!Max(S) \in S /\ \A y \in S : Talk!Max(S) >= y
        BY <2>4 DEF Talk!Max
    <2> QED BY <2>5
<1> QED BY <1>2, <1>3

LEMMA TalkCounts == \A S : Talk!Cardinality(S) = Cardinality(S)
BY DEF Talk!Cardinality, Cardinality

\* The elements of a set of numbers are ranked one by one.
Rank(S, i) == Cardinality({j \in S : j <= i})

LEMMA Ranks ==
    ASSUME NEW n \in Nat, NEW S \in SUBSET (0 .. n)
    PROVE  /\ IsFiniteSet(S) /\ Cardinality(S) \in Nat
           /\ \A i \in S : Rank(S, i) \in 1 .. Cardinality(S)
           /\ \A i, j \in S : i < j => Rank(S, i) < Rank(S, j)
           /\ \A k \in 1 .. Cardinality(S) : \E i \in S : Rank(S, i) = k
<1> DEFINE K == Cardinality(S)
           upTo(i) == {j \in S : j <= i}
<1>1. IsFiniteSet(S)
    <2>1. IsFiniteSet(0 .. n)
        BY FS_Interval
    <2> QED BY <2>1, FS_Subset
<1>2. K \in Nat
    BY <1>1, FS_CardinalityType
<1>3. \A i : IsFiniteSet(upTo(i)) /\ Cardinality(upTo(i)) \in Nat /\ Cardinality(upTo(i)) <= K
    <2> SUFFICES ASSUME NEW i
                 PROVE  IsFiniteSet(upTo(i)) /\ Cardinality(upTo(i)) \in Nat
                        /\ Cardinality(upTo(i)) <= K
        OBVIOUS
    <2>1. upTo(i) \in SUBSET S
        OBVIOUS
    <2> HIDE DEF upTo
    <2>2. IsFiniteSet(upTo(i)) /\ Cardinality(upTo(i)) <= K
        BY <1>1, <2>1, FS_Subset
    <2> QED BY <2>2, FS_CardinalityType
<1>4. ASSUME NEW i \in S PROVE Rank(S, i) \in 1 .. K
    <2>1. i \in upTo(i) /\ upTo(i) # {}
        OBVIOUS
    <2> HIDE DEF upTo
    <2>2. Cardinality(upTo(i)) # 0
        BY <1>3, <2>1, FS_EmptySet
    <2>3. Cardinality(upTo(i)) \in 1 .. K
        BY <1>2, <1>3, <2>2
    <2> QED BY <2>3 DEF Rank, upTo
<1>5. ASSUME NEW i \in S, NEW j \in S, i < j PROVE Rank(S, i) < Rank(S, j)
    <2>1. upTo(i) \in SUBSET upTo(j) /\ j \in upTo(j) /\ j \notin upTo(i)
        <3>1. \A x \in S : x \in Int
            OBVIOUS
        <3>2. \A x \in S : x <= i => x <= j
            BY <1>5, <3>1
        <3>3. j <= j /\ ~(j <= i)
            BY <1>5, <3>1
        <3> QED BY <3>2, <3>3
    <2> HIDE DEF upTo
    <2>2. Cardinality(upTo(i)) <= Cardinality(upTo(j)) /\ Cardinality(upTo(i)) # Cardinality(upTo(j))
        <3>1. IsFiniteSet(upTo(j)) /\ upTo(i) # upTo(j)
            BY <1>3, <2>1
        <3> QED BY <2>1, <3>1, FS_Subset
    <2>3. Cardinality(upTo(i)) < Cardinality(upTo(j))
        BY <1>3, <2>2
    <2> QED BY <2>3 DEF Rank, upTo
<1>6. ASSUME NEW k \in 1 .. K PROVE \E i \in S : Rank(S, i) = k
    <2> DEFINE f == [i \in S |-> Rank(S, i)]
    <2>1. f \in [S -> 1 .. K]
        BY <1>4
    <2>2. \A i, j \in S : f[i] = f[j] => i = j
        <3> SUFFICES ASSUME NEW i \in S, NEW j \in S, f[i] = f[j] PROVE i = j
            OBVIOUS
        <3>1. ~(Rank(S, i) < Rank(S, j)) /\ ~(Rank(S, j) < Rank(S, i))
            BY <1>2, <1>4
        <3>2. ~(i < j) /\ ~(j < i)
            BY <1>5, <3>1
        <3> QED BY <3>2
    <2>3. f \in Injection(S, 1 .. K)
        BY <2>1, <2>2 DEF Injection, IsInjective
    <2>4. IsFiniteSet(1 .. K) /\ Cardinality(1 .. K) = K
        BY <1>2, FS_Interval
    <2>5. f \in Surjection(S, 1 .. K)
        <3> HIDE DEF f
        <3> QED BY <2>3, <2>4, FS_Injection
    <2>6. \E i \in S : f[i] = k
        <3> HIDE DEF f
        <3> QED BY <2>5 DEF Surjection
    <2> QED BY <2>6
<1> QED BY <1>1, <1>2, <1>4, <1>5, <1>6

\* The messages of a conversation.
TalkMessages == [kind : Talk!Kinds, step : Int, size : Int, ids : SUBSET Nat]

Headed(m) ==
    /\ m \in Seq(TalkMessages) /\ Len(m) >= 2
    /\ m[1].kind = "system" /\ m[2].kind = "user" /\ m[1].step = -1 /\ m[2].step = -1
    /\ m[1] = Talk!Header[1] /\ m[2] = Talk!Header[2]

StepsIn(m) == {m[i].step : i \in 3 .. Len(m)} \ {-1}
Window(m) == Talk!Recent(StepsIn(m))
From(m) == Talk!WindowStart(Talk!Rest(m)) + 2

LEMMA HeaderIs ==
    /\ Talk!Header \in Seq(TalkMessages) /\ Len(Talk!Header) = 2 /\ Headed(Talk!Header)
    /\ Talk!Header[1].ids = {} /\ Talk!Header[2].ids = {}
BY DEF Talk!Header, Talk!Plain, TalkMessages, Talk!Kinds, Headed

LEMMA RestIs ==
    ASSUME NEW m, Headed(m)
    PROVE  /\ Len(m) \in Nat /\ Talk!Rest(m) \in Seq(TalkMessages) /\ Len(Talk!Rest(m)) = Len(m) - 2
           /\ \A i \in 1 .. Len(m) - 2 : Talk!Rest(m)[i] = m[i + 2]
           /\ Talk!Steps(Talk!Rest(m)) = StepsIn(m)
<1> DEFINE rest == Talk!Rest(m)
           n == Len(m) - 2
<1>1. m \in Seq(TalkMessages) /\ Len(m) \in Nat /\ n \in Nat
    BY DEF Headed
<1>2. rest = SubSeq(m, 3, Len(m)) /\ \A i \in 3 .. Len(m) : m[i] \in TalkMessages
    BY <1>1 DEF Talk!Rest
<1>3. rest \in Seq(TalkMessages) /\ Len(rest) = n /\ \A i \in 1 .. n : rest[i] = m[i + 2]
    <2> HIDE DEF rest
    <2>1. rest \in Seq(TalkMessages) /\ Len(rest) = IF 3 <= Len(m) THEN Len(m) - 3 + 1 ELSE 0
        BY <1>1, <1>2, SubSeqProperties
    <2>2. \A i \in 1 .. Len(m) - 3 + 1 : SubSeq(m, 3, Len(m))[i] = m[3 + i - 1]
        BY <1>1, <1>2, SubSeqProperties
    <2>3. Len(rest) = n
        <3>1. Len(m) >= 2
            BY DEF Headed
        <3>2. CASE 3 <= Len(m)
            BY <1>1, <2>1, <3>2
        <3>3. CASE ~(3 <= Len(m))
            <4>1. Len(rest) = 0
                BY <2>1, <3>3
            <4>2. Len(m) = n + 2 /\ n \in Nat
                BY <1>1
            <4> HIDE DEF n
            <4>3. n = 0
                BY <3>3, <4>2
            <4> QED BY <4>1, <4>3
        <3> QED BY <3>2, <3>3
    <2>4. ASSUME NEW i \in 1 .. n PROVE rest[i] = m[i + 2]
        <3>1. i \in 1 .. Len(m) - 3 + 1 /\ 3 + i - 1 = i + 2
            BY <1>1
        <3> QED BY <1>2, <2>2, <3>1
    <2> QED BY <2>1, <2>3, <2>4
<1> HIDE DEF rest, n
<1>4. \A i \in 1 .. n : i + 2 \in 3 .. Len(m)
    BY <1>1 DEF n
<1>5. \A i \in 3 .. Len(m) : i - 2 \in 1 .. n /\ (i - 2) + 2 = i
    BY <1>1 DEF n
<1>6. {rest[i].step : i \in 1 .. n} = {m[i].step : i \in 3 .. Len(m)}
    <2>1. \A i \in 3 .. Len(m) : m[i].step = rest[i - 2].step
        BY <1>3, <1>5
    <2>2. \A i \in 1 .. n : rest[i].step = m[i + 2].step
        BY <1>3
    <2> QED BY <1>4, <1>5, <2>1, <2>2
<1>7. DOMAIN rest = 1 .. n
    BY <1>3
<1>8. Talk!Steps(rest) = StepsIn(m)
    BY <1>6, <1>7 DEF Talk!Steps, StepsIn
<1> QED BY <1>1, <1>3, <1>8 DEF rest, n

\* The protected window starts at a message of a recent step, and no earlier one is.
LEMMA FromIs ==
    ASSUME NEW m, Headed(m)
    PROVE  /\ From(m) \in 3 .. Len(m) + 1 /\ Talk!WindowStart(Talk!Rest(m)) \in Int
           /\ \A i \in 3 .. Len(m) : i < From(m) => m[i].step \notin Window(m)
           /\ From(m) \in 4 .. Len(m) => m[From(m)].step \in Window(m)
           /\ Window(m) \in SUBSET StepsIn(m)
<1> DEFINE rest == Talk!Rest(m)
           n == Len(m) - 2
           steps == StepsIn(m)
           recent == Window(m)
           of == {i \in 1 .. n : rest[i].step \in recent}
           start == Talk!WindowStart(rest)
<1>1. /\ Len(m) \in Nat /\ n \in Nat /\ rest \in Seq(TalkMessages) /\ Len(rest) = n
      /\ \A i \in 1 .. n : rest[i] = m[i + 2]
      /\ Talk!Steps(rest) = steps
    BY RestIs DEF Headed
<1>2. recent = Talk!Recent(steps) /\ recent \in SUBSET steps
    BY DEF Window, Talk!Recent
<1>3. start = IF steps = {} THEN 1 ELSE IF of = {} THEN n + 1 ELSE Talk!Min(of)
    <2>1. DOMAIN rest = 1 .. n
        BY <1>1
    <2> HIDE DEF rest, steps, recent, n
    <2>2. Talk!WindowStart(rest) =
              LET of2 == {i \in DOMAIN rest : rest[i].step \in Talk!Recent(steps)}
              IN  IF steps = {} THEN 1 ELSE IF of2 = {} THEN Len(rest) + 1 ELSE Talk!Min(of2)
        BY <1>1 DEF Talk!WindowStart
    <2> QED BY <1>1, <1>2, <2>1, <2>2
<1>4. of # {} => Talk!Min(of) \in of /\ \A k \in of : Talk!Min(of) <= k
    <2>1. of \in SUBSET Nat
        OBVIOUS
    <2> HIDE DEF of
    <2> QED BY <2>1, Extremes
<1> HIDE DEF rest, steps, recent, start
<1>5. ASSUME NEW i \in 3 .. Len(m), m[i].step \in recent
      PROVE  of # {} /\ steps # {} /\ start + 2 <= i
    <2>1. i - 2 \in 1 .. n /\ (i - 2) + 2 = i
        BY <1>1
    <2>2. i - 2 \in of
        BY <1>1, <1>5, <2>1
    <2>3. start = Talk!Min(of) /\ Talk!Min(of) \in of /\ Talk!Min(of) <= i - 2
        BY <1>2, <1>3, <1>4, <1>5, <2>2
    <2>4. start \in 1 .. n
        BY <2>3
    <2> HIDE DEF of
    <2> QED BY <1>1, <1>2, <1>5, <2>2, <2>3, <2>4
<1>6. start \in 1 .. n + 1
    <2>1. of # {} => Talk!Min(of) \in 1 .. n
        BY <1>4
    <2> HIDE DEF of
    <2> QED BY <1>1, <1>3, <2>1
<1>7. ASSUME start + 2 \in 4 .. Len(m) PROVE m[start + 2].step \in recent
    <2>1. start = Talk!Min(of) /\ start \in of
        BY <1>1, <1>3, <1>4, <1>6, <1>7
    <2>2. start \in 1 .. n /\ rest[start].step \in recent
        BY <2>1
    <2> QED BY <1>1, <2>2
<1>8. From(m) = start + 2
    BY DEF From, start, rest
<1>9. From(m) \in 3 .. Len(m) + 1
    BY <1>1, <1>6, <1>8
<1>10. \A i \in 3 .. Len(m) : i < From(m) => m[i].step \notin recent
    <2> SUFFICES ASSUME NEW i \in 3 .. Len(m), i < From(m), m[i].step \in recent PROVE FALSE
        OBVIOUS
    <2>1. start + 2 <= i
        BY <1>5
    <2> QED BY <1>8, <1>9, <2>1
<1>11. start \in Int
    BY <1>1, <1>6
<1> QED BY <1>2, <1>7, <1>8, <1>9, <1>10, <1>11 DEF recent, steps, start, rest

\* Some messages are kept, in their order.
Chosen(e, m, out, keep) ==
    /\ e \in [1 .. Len(out) -> 1 .. Len(m)]
    /\ \A p, q \in 1 .. Len(out) : p < q => e[p] < e[q]
    /\ \A p \in 1 .. Len(out) : e[p] \in keep /\ out[p] = m[e[p]]
    /\ \A i \in keep : \E p \in 1 .. Len(out) : e[p] = i

Thins(m, out, keep) == \E e : Chosen(e, m, out, keep)

\* Those of the window and of the kinds that are not dropped.
Cut(m, kinds) == {i \in 1 .. Len(m) : i <= 2 \/ i >= From(m) \/ m[i].kind \notin kinds}

\* The header and the messages of a sequence.
LEMMA HeaderFirst ==
    ASSUME NEW S \in Seq(TalkMessages)
    PROVE  LET out == Talk!Header \o S
           IN  /\ Headed(out) /\ Len(out) = Len(S) + 2 /\ Len(S) \in Nat
               /\ \A p \in 1 .. Len(S) : out[p + 2] = S[p]
<1> DEFINE n == Len(S)
           head == Talk!Header
           out == head \o S
<1>1. head \in Seq(TalkMessages) /\ Len(head) = 2 /\ Headed(head) /\ n \in Nat
    BY HeaderIs
<1> HIDE DEF head
<1>2. /\ out \in Seq(TalkMessages) /\ Len(out) = n + 2
      /\ \A p \in 1 .. 2 : out[p] = head[p]
      /\ \A p \in 1 .. n : out[p + 2] = S[p]
    <2>1. /\ out \in Seq(TalkMessages) /\ Len(out) = Len(head) + Len(S)
          /\ \A i \in 1 .. Len(head) + Len(S) :
                out[i] = IF i <= Len(head) THEN head[i] ELSE S[i - Len(head)]
        BY <1>1, ConcatProperties
    <2>2. \A p \in 1 .. 2 : p \in 1 .. Len(head) + Len(S) /\ p <= Len(head)
        BY <1>1
    <2>3. \A p \in 1 .. n : /\ p + 2 \in 1 .. Len(head) + Len(S) /\ ~(p + 2 <= Len(head))
                            /\ (p + 2) - Len(head) = p
        BY <1>1
    <2> HIDE DEF out
    <2> QED BY <1>1, <2>1, <2>2, <2>3
<1>3. out[1] = head[1] /\ out[2] = head[2]
    BY <1>2
<1> HIDE DEF out, n
<1>4. Headed(out)
    BY <1>1, <1>2, <1>3 DEF Headed, head
<1> QED BY <1>1, <1>2, <1>4 DEF out, n, head

LEMMA WithoutThins ==
    ASSUME NEW m, Headed(m), NEW kinds
    PROVE  /\ Headed(Talk!Without(m, kinds))
           /\ Thins(m, Talk!Without(m, kinds), Cut(m, kinds))
<1> DEFINE rest == Talk!Rest(m)
           len == Len(m) - 2
           kept == {i \in 1 .. len : i >= Talk!WindowStart(rest) \/ rest[i].kind \notin kinds}
           K == Cardinality(kept)
           pick(n) == CHOOSE i \in kept : Rank(kept, i) = n
           tail == [n \in 1 .. K |-> rest[pick(n)]]
           out == Talk!Without(m, kinds)
           e == [p \in 1 .. K + 2 |-> IF p <= 2 THEN p ELSE pick(p - 2) + 2]
<1>1. /\ Len(m) \in Nat /\ len \in Nat /\ rest \in Seq(TalkMessages) /\ Len(rest) = len
      /\ \A i \in 1 .. len : rest[i] = m[i + 2]
      /\ DOMAIN rest = 1 .. len
    BY RestIs DEF Headed
<1>2. kept \in SUBSET (0 .. len)
    OBVIOUS
<1>3. /\ K \in Nat
      /\ \A i \in kept : Rank(kept, i) \in 1 .. K
      /\ \A i, j \in kept : i < j => Rank(kept, i) < Rank(kept, j)
      /\ \A k \in 1 .. K : \E i \in kept : Rank(kept, i) = k
    <2> HIDE DEF kept, len, rest
    <2> QED BY <1>1, <1>2, Ranks
<1>4. out = Talk!Header \o tail
    <2>1. kept = {i \in DOMAIN rest : i >= Talk!WindowStart(rest) \/ rest[i].kind \notin kinds}
        BY <1>1
    <2>2. out = Talk!Header \o [n \in 1 .. Talk!Cardinality(kept) |->
                    rest[CHOOSE i \in kept : Talk!Cardinality({j \in kept : j <= i}) = n]]
        <3> HIDE DEF kept, rest
        <3> QED BY <2>1 DEF Talk!Without, rest
    <2>3. Talk!Cardinality(kept) = K /\ \A i : Talk!Cardinality({j \in kept : j <= i}) = Rank(kept, i)
        <3> HIDE DEF kept
        <3> QED BY TalkCounts DEF Rank
    <2> DEFINE other(n) == CHOOSE i \in kept : Talk!Cardinality({j \in kept : j <= i}) = n
               count == Talk!Cardinality(kept)
    <2>4. out = Talk!Header \o [n \in 1 .. count |-> rest[other(n)]] /\ count = K
        BY <2>2, <2>3
    <2> HIDE DEF kept, rest, out, K, count
    <2>5. \A n : other(n) = pick(n)
        BY <2>3
    <2> HIDE DEF pick, other
    <2>6. [n \in 1 .. K |-> rest[other(n)]] = tail
        BY <2>5
    <2> QED BY <2>4, <2>6
<1> HIDE DEF out
<1>5. \A n \in 1 .. K : pick(n) \in kept /\ Rank(kept, pick(n)) = n
    <2> HIDE DEF kept, K
    <2> QED BY <1>3
<1>6. \A i \in kept : i \in 1 .. len
    OBVIOUS
<1> HIDE DEF K, pick
<1>7. \A n \in 1 .. K : pick(n) \in 1 .. len /\ tail[n] = m[pick(n) + 2]
    BY <1>1, <1>5, <1>6
<1>8. tail \in Seq(TalkMessages) /\ Len(tail) = K
    <2>1. \A n \in 1 .. K : rest[pick(n)] \in TalkMessages
        BY <1>1, <1>7
    <2> HIDE DEF rest
    <2>2. tail \in [1 .. K -> TalkMessages]
        BY <2>1
    <2> QED BY <1>3, <2>2
<1> HIDE DEF tail
<1>9. /\ Headed(out) /\ Len(out) = K + 2
      /\ \A p \in 1 .. K : out[p + 2] = tail[p]
    BY <1>4, <1>8, HeaderFirst
<1>10. \A i : i \in Cut(m, kinds) <=> i \in 1 .. 2 \/ (i - 2 \in kept /\ i \in 3 .. Len(m))
    <2> SUFFICES ASSUME NEW i
                 PROVE  i \in Cut(m, kinds) <=> i \in 1 .. 2 \/ (i - 2 \in kept /\ i \in 3 .. Len(m))
        OBVIOUS
    <2>0. Len(m) >= 2
        BY DEF Headed
    <2>1. CASE i \in 1 .. 2
        <3>1. i \in 1 .. Len(m) /\ i <= 2
            BY <1>1, <2>0, <2>1
        <3>2. i \in Cut(m, kinds)
            BY <3>1 DEF Cut
        <3> HIDE DEF kept
        <3> QED BY <2>1, <3>2
    <2>2. CASE i \in 3 .. Len(m)
        <3>1. i - 2 \in 1 .. len /\ (i - 2) + 2 = i /\ ~(i <= 2) /\ i \in 1 .. Len(m)
              /\ ~(i \in 1 .. 2)
            BY <1>1, <2>2
        <3>2. rest[i - 2] = m[i]
            BY <1>1, <3>1
        <3>3. i >= From(m) <=> i - 2 >= Talk!WindowStart(rest)
            <4>1. Talk!WindowStart(rest) \in Int
                BY FromIs
            <4> HIDE DEF rest
            <4> QED BY <2>2, <4>1 DEF From, rest
        <3> QED BY <2>2, <3>1, <3>2, <3>3 DEF Cut
    <2>3. CASE ~(i \in 1 .. 2) /\ ~(i \in 3 .. Len(m))
        <3>1. ~(i \in 1 .. Len(m))
            BY <1>1, <2>3
        <3> QED BY <2>3, <3>1 DEF Cut
    <2> QED BY <2>1, <2>2, <2>3
<1>11. \A k \in 1 .. K : pick(k) + 2 \in 3 .. Len(m) /\ (pick(k) + 2) - 2 = pick(k)
    BY <1>1, <1>7
<1>12. ASSUME NEW p \in 1 .. Len(out)
       PROVE  e[p] \in 1 .. Len(m) /\ e[p] \in Cut(m, kinds) /\ out[p] = m[e[p]]
    <2>1. CASE p <= 2
        <3>1. p \in 1 .. 2 /\ e[p] = p
            BY <1>3, <1>9, <2>1
        <3>2. out[p] = m[p] /\ Len(m) >= 2
            BY <1>9, <3>1 DEF Headed
        <3>3. p \in 1 .. Len(m)
            BY <1>1, <3>1, <3>2
        <3> HIDE DEF e, kept
        <3>4. p \in Cut(m, kinds)
            BY <1>10, <3>1
        <3> QED BY <3>1, <3>2, <3>3, <3>4
    <2>2. CASE ~(p <= 2)
        <3>1. p - 2 \in 1 .. K /\ (p - 2) + 2 = p /\ p \in 1 .. K + 2
            BY <1>3, <1>9, <2>2
        <3>2. e[p] = pick(p - 2) + 2
            BY <2>2, <3>1
        <3> HIDE DEF e, kept
        <3>3. out[p] = m[e[p]]
            BY <1>7, <1>9, <3>1, <3>2
        <3>4. e[p] \in 3 .. Len(m) /\ e[p] - 2 \in kept
            BY <1>5, <1>11, <3>1, <3>2
        <3> QED BY <1>1, <1>10, <3>3, <3>4
    <2> QED BY <2>1, <2>2
<1>13. ASSUME NEW p \in 1 .. Len(out), NEW q \in 1 .. Len(out), p < q PROVE e[p] < e[q]
    <2>1. p \in 1 .. K + 2 /\ q \in 1 .. K + 2
        BY <1>9
    <2>2. CASE p <= 2 /\ q <= 2
        <3>1. e[p] = p /\ e[q] = q
            BY <2>1, <2>2
        <3> QED BY <1>13, <3>1
    <2>3. CASE p <= 2 /\ ~(q <= 2)
        <3>1. q - 2 \in 1 .. K /\ e[q] = pick(q - 2) + 2 /\ e[p] = p
            BY <1>3, <2>1, <2>3
        <3>2. pick(q - 2) + 2 \in 3 .. Len(m)
            BY <1>11, <3>1
        <3> HIDE DEF e
        <3> QED BY <1>1, <2>1, <2>3, <3>1, <3>2
    <2>4. CASE ~(p <= 2)
        <3>1. /\ q - 2 \in 1 .. K /\ e[q] = pick(q - 2) + 2 /\ p - 2 < q - 2
              /\ p - 2 \in 1 .. K /\ e[p] = pick(p - 2) + 2
            BY <1>3, <1>13, <2>1, <2>4
        <3> DEFINE i == pick(p - 2)
                   j == pick(q - 2)
        <3>2. /\ i \in kept /\ j \in kept /\ Rank(kept, i) = p - 2 /\ Rank(kept, j) = q - 2
              /\ i \in 1 .. len /\ j \in 1 .. len
            BY <1>5, <1>7, <3>1
        <3> HIDE DEF i, j, kept, e
        <3>3. ~(Rank(kept, j) < Rank(kept, i)) /\ i # j
            BY <3>1, <3>2
        <3>4. ~(j < i)
            BY <1>3, <3>2, <3>3
        <3>5. i < j
            BY <1>1, <3>2, <3>3, <3>4
        <3> QED BY <1>1, <3>1, <3>2, <3>5 DEF i, j
    <2> QED BY <2>1, <2>2, <2>3, <2>4
<1>14. ASSUME NEW i \in Cut(m, kinds) PROVE \E p \in 1 .. Len(out) : e[p] = i
    <2>1. CASE i \in 1 .. 2
        <3>1. i \in 1 .. K + 2 /\ e[i] = i
            BY <1>3, <2>1
        <3> HIDE DEF e
        <3> QED BY <1>9, <3>1
    <2>2. CASE i - 2 \in kept /\ i \in 3 .. Len(m)
        <3> DEFINE k == Rank(kept, i - 2)
        <3>1. k \in 1 .. K /\ pick(k) \in kept /\ Rank(kept, pick(k)) = k /\ i - 2 \in kept
            <4> HIDE DEF kept
            <4> QED BY <1>3, <1>5, <2>2
        <3>2. pick(k) \in 1 .. len /\ i - 2 \in 1 .. len
            <4> HIDE DEF k
            <4> QED BY <1>6, <3>1
        <3>3. pick(k) = i - 2
            <4> DEFINE x == pick(k)
                       y == i - 2
            <4>1. /\ x \in kept /\ y \in kept /\ Rank(kept, x) = Rank(kept, y) /\ x \in 1 .. len
                  /\ y \in 1 .. len /\ Rank(kept, x) \in 1 .. K
                BY <3>1, <3>2
            <4> HIDE DEF x, y, kept
            <4>2. ~(x < y) /\ ~(y < x)
                <5>1. ~(Rank(kept, x) < Rank(kept, y)) /\ ~(Rank(kept, y) < Rank(kept, x))
                    BY <1>3, <4>1
                <5> QED BY <1>3, <4>1, <5>1
            <4> QED BY <1>1, <4>1, <4>2 DEF x, y
        <3> HIDE DEF k
        <3>4. k + 2 \in 1 .. K + 2 /\ ~(k + 2 <= 2) /\ (k + 2) - 2 = k
            BY <1>3, <3>1
        <3>5. e[k + 2] = pick(k) + 2
            BY <3>4
        <3>6. (i - 2) + 2 = i
            BY <2>2
        <3> HIDE DEF e
        <3> QED BY <1>9, <3>3, <3>4, <3>5, <3>6
    <2> QED BY <1>10, <2>1, <2>2
<1>15. e \in [1 .. Len(out) -> 1 .. Len(m)]
    <2>1. e = [p \in 1 .. Len(out) |-> e[p]]
        BY <1>9
    <2> HIDE DEF e
    <2> QED BY <1>12, <2>1
<1> HIDE DEF e
<1>16. Chosen(e, m, out, Cut(m, kinds))
    BY <1>12, <1>13, <1>14, <1>15 DEF Chosen
<1> QED BY <1>9, <1>16 DEF Thins, out

\* A result or a nudge that answers calls comes after them, in their step.
Answers(m, j, i, c) ==
    /\ m[j].kind = "toolCall" /\ c \in m[j].ids
    /\ \A l \in j .. i : m[l].step = m[i].step

Answered(m) ==
    \A i \in 1 .. Len(m) : m[i].kind \in {"toolResult", "nudge"} =>
        \A c \in m[i].ids : \E j \in 1 .. i - 1 : Answers(m, j, i, c)

\* The last n messages are the same, and no earlier one is of these steps.
Same(m, out, n) == \A k \in 0 .. n - 1 : out[Len(out) - k] = m[Len(m) - k]
Before(m, steps, n) == \A i \in 1 .. Len(m) - n : m[i].step \notin steps

Keeps(m, out, steps) ==
    \E n \in Nat : /\ n <= Len(m) /\ n <= Len(out)
                   /\ Same(m, out, n) /\ Before(m, steps, n) /\ Before(out, steps, n)

\* No step and no call is new.
Drawn(m, out) ==
    \A p \in 1 .. Len(out) : \E i \in 1 .. Len(m) :
        out[p].ids = m[i].ids /\ out[p].step = m[i].step

Compacts(m, out) ==
    /\ Headed(out) /\ Drawn(m, out) /\ Keeps(m, out, Window(m))
    /\ Answered(m) => Answered(out)

LEMMA HeadedType ==
    ASSUME NEW m, Headed(m)
    PROVE  /\ Len(m) \in Nat /\ Len(m) >= 2 /\ \A i \in 1 .. Len(m) : m[i] \in TalkMessages
           /\ \A i \in 1 .. Len(m) : m[i].step \in Int
           /\ \A i \in 1 .. 2 : m[i].step = -1 /\ m[i].kind \in {"system", "user"}
           /\ 1 \in 1 .. Len(m) /\ 2 \in 1 .. Len(m)
<1>1. m \in Seq(TalkMessages) /\ Len(m) \in Nat /\ Len(m) >= 2
    BY DEF Headed
<1>2. \A i \in 1 .. Len(m) : m[i] \in TalkMessages
    BY <1>1
<1>3. \A i \in 1 .. Len(m) : m[i].step \in Int
    BY <1>2 DEF TalkMessages
<1>4. \A i \in 1 .. 2 : i = 1 \/ i = 2
    OBVIOUS
<1> QED BY <1>1, <1>2, <1>3, <1>4 DEF Headed

\* The messages of the window stay at the end.
LEMMA ThinTail ==
    ASSUME NEW m, NEW out, NEW keep, NEW e, Headed(m), Headed(out), Chosen(e, m, out, keep),
           \A i \in From(m) .. Len(m) : i \in keep
    PROVE  LET n == Len(m) - From(m) + 1
           IN  /\ n \in Nat /\ n <= Len(out) /\ n <= Len(m)
               /\ \A k \in 0 .. n - 1 : Len(out) - k \in 1 .. Len(out) /\ e[Len(out) - k] = Len(m) - k
<1> DEFINE L == Len(m)
           K == Len(out)
           from == From(m)
           n == L - from + 1
           Off(k) == ~(K - k \in 1 .. K /\ e[K - k] = L - k)
           S == {k \in 0 .. n - 1 : Off(k)}
<1>1. L \in Nat /\ K \in Nat /\ from \in 3 .. L + 1 /\ n \in 0 .. L
    BY HeadedType, FromIs
<1>2. /\ \A p \in 1 .. K : e[p] \in 1 .. L
      /\ \A p, q \in 1 .. K : p < q => e[p] < e[q]
      /\ \A i \in keep : \E p \in 1 .. K : e[p] = i
    BY DEF Chosen
<1>3. \A k \in 0 .. n - 1 : \E p \in 1 .. K : e[p] = L - k
    <2>1. \A k \in 0 .. n - 1 : L - k \in from .. L
        BY <1>1
    <2> HIDE DEF n, L, K
    <2> QED BY <1>2, <2>1 DEF L
<1> HIDE DEF L, K, from
<1>4. S = {}
    <2> SUFFICES ASSUME S # {} PROVE FALSE
        OBVIOUS
    <2> DEFINE k == Talk!Min(S)
    <2>1. k \in S /\ \A x \in S : k <= x
        <3>1. S \in SUBSET Nat
            BY <1>1
        <3> HIDE DEF S
        <3> QED BY <3>1, Extremes
    <2>2. k \in 0 .. n - 1 /\ Off(k) /\ (k = 0 \/ k - 1 \in 0 .. n - 1)
        BY <1>1, <2>1
    <2>3. k # 0 => ~Off(k - 1)
        <3> SUFFICES ASSUME k # 0, Off(k - 1) PROVE FALSE
            OBVIOUS
        <3>1. k - 1 \in S
            BY <2>2
        <3> HIDE DEF S, k
        <3> QED BY <1>1, <2>1, <2>2, <3>1
    <2> HIDE DEF k, S, n
    <2>4. PICK p \in 1 .. K : e[p] = L - k
        BY <1>3, <2>2
    <2>5. k \in Nat
        BY <1>1, <2>2
    <2>6. p = K - k
        <3>1. CASE k = 0
            <4>1. K \in 1 .. K
                BY <1>1
            <4>2. ~(p < K)
                BY <1>1, <1>2, <2>4, <3>1, <4>1
            <4> QED BY <1>1, <3>1, <4>2
        <3>2. CASE k # 0
            <4> DEFINE q == K - (k - 1)
            <4>1. q \in 1 .. K /\ e[q] = L - (k - 1)
                BY <2>3, <3>2
            <4>2. q = K - k + 1 /\ q - 1 = K - k /\ e[q] = e[p] + 1
                BY <1>1, <2>4, <2>5, <4>1
            <4> HIDE DEF q
            <4>3. ~(q < p) /\ q # p
                BY <1>1, <1>2, <2>4, <4>1, <4>2
            <4>4. ~(p < q - 1)
                <5> SUFFICES ASSUME p < q - 1 PROVE FALSE
                    OBVIOUS
                <5>1. q - 1 \in 1 .. K /\ p < q - 1 /\ q - 1 < q
                    BY <1>1, <4>1
                <5>2. e[p] < e[q - 1] /\ e[q - 1] < e[q] /\ e[p] \in Int /\ e[q - 1] \in Int
                    BY <1>2, <4>1, <5>1
                <5> QED BY <4>2, <5>2
            <4> QED BY <1>1, <4>1, <4>2, <4>3, <4>4
        <3> QED BY <3>1, <3>2
    <2> QED BY <2>2, <2>4, <2>6
<1>5. \A k \in 0 .. n - 1 : K - k \in 1 .. K /\ e[K - k] = L - k
    BY <1>4
<1>6. n <= K
    <2>1. CASE n = 0
        BY <1>1, <2>1
    <2>2. CASE n # 0
        <3>1. n - 1 \in 0 .. n - 1
            BY <1>1, <2>2
        <3>2. K - (n - 1) \in 1 .. K
            BY <1>5, <3>1
        <3> HIDE DEF n
        <3> QED BY <1>1, <3>2
    <2> QED BY <2>1, <2>2
<1> QED BY <1>1, <1>5, <1>6 DEF L, K, from

LEMMA ThinCompacts ==
    ASSUME NEW m, NEW out, NEW keep, Headed(m), Headed(out), Thins(m, out, keep),
           \A i \in From(m) .. Len(m) : i \in keep,
           \A i \in keep : \A j \in 1 .. i - 1 : \A c :
               m[i].kind \in {"toolResult", "nudge"} /\ Answers(m, j, i, c) => j \in keep
    PROVE  Compacts(m, out)
<1> DEFINE L == Len(m)
           K == Len(out)
           n == L - From(m) + 1
<1>1. PICK e : Chosen(e, m, out, keep)
    BY DEF Thins
<1>2. L \in Nat /\ K \in Nat /\ From(m) \in 3 .. L + 1
    BY HeadedType, FromIs
<1>3. /\ \A p \in 1 .. K : e[p] \in 1 .. L /\ e[p] \in keep /\ out[p] = m[e[p]]
      /\ \A p, q \in 1 .. K : p < q => e[p] < e[q]
      /\ \A i \in keep : \E p \in 1 .. K : e[p] = i
    BY <1>1 DEF Chosen
<1>4. /\ n \in Nat /\ n <= K /\ n <= L
      /\ \A k \in 0 .. n - 1 : K - k \in 1 .. K /\ e[K - k] = L - k
    BY <1>1, ThinTail
<1>5. \A i \in 1 .. L : i < From(m) => m[i].step \notin Window(m)
    <2> SUFFICES ASSUME NEW i \in 1 .. L, i < From(m) PROVE m[i].step \notin Window(m)
        OBVIOUS
    <2>1. CASE i \in 3 .. L
        BY <2>1, FromIs
    <2>2. CASE i \notin 3 .. L
        <3>1. i \in 1 .. 2
            BY <1>2, <2>2
        <3>2. m[i].step = -1
            BY <3>1, HeadedType
        <3> QED BY <3>2, FromIs DEF StepsIn
    <2> QED BY <2>1, <2>2
<1>6. Keeps(m, out, Window(m))
    <2>1. Same(m, out, n)
        BY <1>3, <1>4 DEF Same
    <2>2. Before(m, Window(m), n)
        <3>1. \A i \in 1 .. L - n : i \in 1 .. L /\ i < From(m)
            BY <1>2
        <3> QED BY <1>5, <3>1 DEF Before
    <2>3. Before(out, Window(m), n)
        <3> SUFFICES ASSUME NEW i \in 1 .. K - n PROVE out[i].step \notin Window(m)
            BY DEF Before
        <3>1. i \in 1 .. K /\ e[i] \in 1 .. L /\ out[i] = m[e[i]]
            BY <1>2, <1>3, <1>4
        <3>2. e[i] < From(m)
            <4>1. CASE n = 0
                BY <1>2, <3>1, <4>1
            <4>2. CASE n # 0
                <5>1. n - 1 \in 0 .. n - 1 /\ L - (n - 1) = From(m) /\ i < K - (n - 1)
                    <6>1. n = L - From(m) + 1 /\ n \in Nat /\ n <= K
                        BY <1>4
                    <6>2. K \in Nat /\ L \in Nat /\ From(m) \in Nat /\ i \in Nat
                        BY <1>2, <3>1
                    <6>3. i <= K - n
                        BY <6>1, <6>2
                    <6> HIDE DEF n, L, K
                    <6>4. n - 1 \in 0 .. n - 1
                        BY <4>2, <6>1
                    <6>5. L - (n - 1) = From(m)
                        BY <6>1, <6>2
                    <6>6. i < K - (n - 1)
                        BY <6>1, <6>2, <6>3
                    <6> QED BY <6>4, <6>5, <6>6
                <5>2. K - (n - 1) \in 1 .. K /\ e[K - (n - 1)] = From(m)
                    BY <1>4, <5>1
                <5> HIDE DEF n, K
                <5> QED BY <1>3, <3>1, <5>1, <5>2
            <4> QED BY <4>1, <4>2
        <3> QED BY <1>5, <3>1, <3>2
    <2> HIDE DEF n
    <2> QED BY <1>4, <2>1, <2>2, <2>3 DEF Keeps
<1>7. Drawn(m, out)
    BY <1>3 DEF Drawn
<1>8. ASSUME Answered(m) PROVE Answered(out)
    <2> SUFFICES ASSUME NEW i \in 1 .. K, out[i].kind \in {"toolResult", "nudge"},
                        NEW c \in out[i].ids
                 PROVE  \E j \in 1 .. i - 1 : Answers(out, j, i, c)
        BY DEF Answered
    <2>1. e[i] \in 1 .. L /\ e[i] \in keep /\ out[i] = m[e[i]]
        BY <1>3
    <2>2. PICK g \in 1 .. e[i] - 1 : Answers(m, g, e[i], c)
        BY <1>8, <2>1 DEF Answered
    <2>3. g \in keep
        BY <2>1, <2>2
    <2>4. PICK j \in 1 .. K : e[j] = g
        BY <1>3, <2>3
    <2>5. g \in Nat /\ g < e[i]
        BY <2>1
    <2>6. j < i
        <3>1. ~(i < j) /\ i # j
            BY <1>2, <1>3, <2>1, <2>4, <2>5
        <3> QED BY <1>2, <3>1
    <2>7. m[g].kind = "toolCall" /\ c \in m[g].ids /\ out[j] = m[g]
        BY <1>3, <2>2, <2>4 DEF Answers
    <2>8. \A l \in j .. i : out[l].step = out[i].step
        <3> SUFFICES ASSUME NEW l \in j .. i PROVE out[l].step = out[i].step
            OBVIOUS
        <3>1. l \in 1 .. K /\ (l = j \/ j < l) /\ (l = i \/ l < i)
            BY <1>2
        <3>2. e[l] \in g .. e[i] /\ out[l] = m[e[l]]
            BY <1>3, <2>1, <2>4, <2>5, <3>1
        <3> QED BY <2>1, <2>2, <3>2 DEF Answers
    <2>9. j \in 1 .. i - 1
        BY <2>6, <1>2
    <2> QED BY <2>7, <2>8, <2>9 DEF Answers
<1> QED BY <1>6, <1>7, <1>8 DEF Compacts

\* What has a call among what is dropped has what answers it.
LEMMA CutCompacts ==
    ASSUME NEW m, NEW out, NEW kinds, Headed(m), Headed(out), Thins(m, out, Cut(m, kinds)),
           "toolCall" \in kinds => {"toolResult", "nudge"} \subseteq kinds
    PROVE  Compacts(m, out)
<1>1. /\ Len(m) \in Nat /\ From(m) \in 3 .. Len(m) + 1 /\ Len(m) >= 2
      /\ \A i \in 1 .. Len(m) : m[i].step \in Int
    BY HeadedType, FromIs
<1>2. \A i \in From(m) .. Len(m) : i \in Cut(m, kinds)
    BY <1>1 DEF Cut
<1>3. ASSUME NEW i \in Cut(m, kinds), NEW j \in 1 .. i - 1, NEW c,
             m[i].kind \in {"toolResult", "nudge"}, Answers(m, j, i, c)
      PROVE  j \in Cut(m, kinds)
    <2>1. i \in 1 .. Len(m) /\ j \in 1 .. Len(m) /\ j < i
        BY <1>1 DEF Cut
    <2>2. CASE m[j].kind \notin kinds
        BY <2>1, <2>2 DEF Cut
    <2>3. CASE m[j].kind \in kinds
        <3>1. m[i].kind \in kinds /\ m[i].kind \notin {"system", "user"}
            BY <1>3, <2>3 DEF Answers
        <3>2. i \notin 1 .. 2
            BY <3>1, HeadedType
        <3>3. i >= From(m)
            BY <2>1, <3>1, <3>2 DEF Cut
        <3>4. j \notin 1 .. 2
            <4>1. m[j].kind = "toolCall"
                BY <1>3 DEF Answers
            <4> QED BY <4>1, HeadedType
        <3>5. j \in 3 .. Len(m)
            BY <2>1, <3>4
        <3>6. ~(j < From(m))
            <4> SUFFICES ASSUME j < From(m) PROVE FALSE
                OBVIOUS
            <4>1. From(m) \in j .. i /\ From(m) \in 4 .. Len(m)
                BY <1>1, <2>1, <3>3, <3>5
            <4>2. j \in j .. i
                BY <2>1
            <4>3. m[From(m)].step = m[j].step
                BY <1>3, <4>1, <4>2 DEF Answers
            <4>4. m[From(m)].step \in Window(m) /\ m[j].step \notin Window(m)
                BY <3>5, <4>1, FromIs
            <4> QED BY <4>3, <4>4
        <3>7. j >= From(m)
            BY <1>1, <2>1, <3>6
        <3> QED BY <2>1, <3>7 DEF Cut
    <2> QED BY <2>2, <2>3
<1> QED BY <1>2, <1>3, ThinCompacts

LEMMA WithoutCompacts ==
    ASSUME NEW m, Headed(m), NEW kinds,
           "toolCall" \in kinds => {"toolResult", "nudge"} \subseteq kinds
    PROVE  Compacts(m, Talk!Without(m, kinds))
<1>1. Headed(Talk!Without(m, kinds)) /\ Thins(m, Talk!Without(m, kinds), Cut(m, kinds))
    BY WithoutThins
<1> QED BY <1>1, CutCompacts

LEMMA SlidingCompacts ==
    ASSUME NEW m, Headed(m)
    PROVE  Compacts(m, Talk!Header \o SubSeq(m, Talk!WindowStart(Talk!Rest(m)) + 2, Len(m)))
<1> DEFINE from == From(m)
           L == Len(m)
           tail == SubSeq(m, from, L)
           n == L - from + 1
           out == Talk!Header \o tail
           e == [p \in 1 .. n + 2 |-> IF p <= 2 THEN p ELSE p + from - 3]
           keep == Cut(m, Talk!Kinds)
<1>1. /\ L \in Nat /\ L >= 2 /\ from \in 3 .. L + 1 /\ m \in Seq(TalkMessages)
      /\ \A i \in 1 .. L : m[i] \in TalkMessages
    BY HeadedType, FromIs DEF Headed
<1>2. n \in Nat /\ n <= L
    BY <1>1
<1>3. tail \in Seq(TalkMessages) /\ Len(tail) = n /\ \A p \in 1 .. n : tail[p] = m[p + from - 1]
    <2>1. /\ tail \in Seq(TalkMessages) /\ Len(tail) = IF from <= L THEN L - from + 1 ELSE 0
          /\ \A i \in 1 .. L - from + 1 : tail[i] = m[from + i - 1]
        <3>1. \A i \in from .. L : m[i] \in TalkMessages
            BY <1>1
        <3>2. from \in Int /\ L \in Int
            BY <1>1
        <3> HIDE DEF from, L
        <3> QED BY <1>1, <3>1, <3>2, SubSeqProperties
    <2>2. ~(from <= L) => n = 0
        BY <1>1
    <2>3. \A p \in 1 .. n : from + p - 1 = p + from - 1
        BY <1>1
    <2> HIDE DEF tail
    <2> QED BY <2>1, <2>2, <2>3
<1> HIDE DEF tail
<1>4. /\ Headed(out) /\ Len(out) = n + 2 /\ \A p \in 1 .. n : out[p + 2] = tail[p]
    BY <1>3, HeaderFirst
<1>5. \A i \in 1 .. L : i \in keep <=> i <= 2 \/ i >= from
    <2>1. \A i \in 1 .. L : m[i].kind \in Talk!Kinds
        BY <1>1 DEF TalkMessages
    <2> QED BY <2>1 DEF Cut
<1>6. keep \subseteq 1 .. L
    BY DEF Cut
<1> HIDE DEF keep, from, L, out
<1>7. ASSUME NEW p \in 1 .. n + 2
      PROVE  e[p] \in 1 .. L /\ e[p] \in keep /\ out[p] = m[e[p]]
    <2>1. CASE p <= 2
        <3>1. e[p] = p /\ p \in 1 .. 2 /\ p \in 1 .. L
            BY <1>1, <1>2, <2>1
        <3>2. out[p] = m[p]
            BY <1>4, <3>1 DEF Headed
        <3> HIDE DEF e
        <3> QED BY <1>5, <2>1, <3>1, <3>2
    <2>2. CASE ~(p <= 2)
        <3>1. e[p] = p + from - 3 /\ p - 2 \in 1 .. n /\ (p - 2) + 2 = p
              /\ (p - 2) + from - 1 = p + from - 3
            BY <1>1, <1>2, <2>2
        <3>2. p + from - 3 \in 1 .. L /\ p + from - 3 >= from
            BY <1>1, <2>2
        <3> HIDE DEF e, n
        <3> QED BY <1>3, <1>4, <1>5, <3>1, <3>2
    <2> QED BY <2>1, <2>2
<1>8. ASSUME NEW p \in 1 .. n + 2, NEW q \in 1 .. n + 2, p < q PROVE e[p] < e[q]
    BY <1>1, <1>8
<1>9. ASSUME NEW i \in keep PROVE \E p \in 1 .. n + 2 : e[p] = i
    <2>1. i \in 1 .. L /\ (i <= 2 \/ i >= from)
        BY <1>5, <1>6
    <2>2. CASE i <= 2
        <3>1. i \in 1 .. n + 2 /\ e[i] = i
            BY <1>2, <2>1, <2>2
        <3> QED BY <3>1
    <2>3. CASE ~(i <= 2)
        <3>1. i >= from /\ i <= L
            BY <1>1, <2>1, <2>3
        <3>2. i - from + 3 \in 1 .. n + 2 /\ ~(i - from + 3 <= 2)
            BY <1>1, <2>1, <3>1
        <3>3. e[i - from + 3] = (i - from + 3) + from - 3
            BY <3>2
        <3>4. (i - from + 3) + from - 3 = i
            BY <1>1, <2>1
        <3> QED BY <3>2, <3>3, <3>4
    <2> QED BY <2>2, <2>3
<1>10. Chosen(e, m, out, keep)
    <2>1. e \in [1 .. n + 2 -> 1 .. L]
        BY <1>7
    <2> HIDE DEF e, n
    <2> QED BY <1>4, <1>7, <1>8, <1>9, <2>1 DEF Chosen, L
<1>11. Thins(m, out, Cut(m, Talk!Kinds))
    <2> HIDE DEF e
    <2> QED BY <1>10 DEF Thins, keep
<1>12. "toolCall" \in Talk!Kinds => {"toolResult", "nudge"} \subseteq Talk!Kinds
    BY DEF Talk!Kinds
<1>13. Compacts(m, out)
    BY <1>4, <1>11, <1>12, CutCompacts
<1> QED BY <1>13 DEF out, tail, L, from, From

LEMMA CompactsItself == ASSUME NEW m, Headed(m) PROVE Compacts(m, m)
<1>1. Len(m) \in Nat
    BY HeadedType
<1>2. Keeps(m, m, Window(m))
    <2>1. Same(m, m, Len(m)) /\ Before(m, Window(m), Len(m))
        <3>1. 1 .. Len(m) - Len(m) = {}
            BY <1>1
        <3> QED BY <3>1 DEF Same, Before
    <2> QED BY <1>1, <2>1 DEF Keeps
<1> QED BY <1>2 DEF Compacts, Drawn

LEMMA StepsDrawn ==
    ASSUME NEW m, NEW out, Headed(m), Headed(out), Drawn(m, out)
    PROVE  StepsIn(out) \subseteq StepsIn(m)
<1> SUFFICES ASSUME NEW p \in 3 .. Len(out), out[p].step # -1
             PROVE  out[p].step \in StepsIn(m)
    BY DEF StepsIn
<1>1. p \in 1 .. Len(out)
    BY HeadedType
<1>2. PICK i \in 1 .. Len(m) : out[p].step = m[i].step
    BY <1>1 DEF Drawn
<1>3. i \notin 1 .. 2
    BY <1>2, HeadedType
<1>4. i \in 3 .. Len(m)
    BY <1>3
<1> QED BY <1>2, <1>4 DEF StepsIn

\* The recent steps stay recent.
LEMMA WindowStays ==
    ASSUME NEW m, NEW out, Headed(m), Headed(out), Drawn(m, out), Keeps(m, out, Window(m))
    PROVE  Window(m) \subseteq Window(out)
<1> SUFFICES ASSUME NEW r \in Window(m) PROVE r \in Window(out)
    OBVIOUS
<1>1. r \in StepsIn(m) /\ Talk!Cardinality({t \in StepsIn(m) : t > r}) < KeepRecent
    BY DEF Window, Talk!Recent
<1>2. PICK n \in Nat : /\ n <= Len(m) /\ n <= Len(out)
                       /\ Same(m, out, n) /\ Before(m, Window(m), n)
    BY DEF Keeps
<1>3. PICK i \in 3 .. Len(m) : m[i].step = r /\ r # -1
    BY <1>1 DEF StepsIn
<1>4. Len(m) \in Nat /\ Len(out) \in Nat
    BY HeadedType
<1>5. r \in StepsIn(out)
    <2> DEFINE k == Len(m) - i
               p == Len(out) - k
    <2>1. ~(i <= Len(m) - n)
        BY <1>2, <1>3, <1>4 DEF Before
    <2>2. k \in 0 .. n - 1 /\ Len(m) - k = i /\ p \in 1 .. Len(out)
        BY <1>2, <1>3, <1>4, <2>1
    <2>3. out[p] = m[i]
        <3>1. \A x \in 0 .. n - 1 : out[Len(out) - x] = m[Len(m) - x]
            BY <1>2 DEF Same
        <3> QED BY <2>2, <3>1
    <2> HIDE DEF p
    <2>4. p \notin 1 .. 2
        BY <1>3, <2>3, HeadedType
    <2>5. p \in 3 .. Len(out)
        BY <1>4, <2>2, <2>4
    <2> QED BY <1>3, <2>3, <2>5 DEF StepsIn
<1>6. Talk!Cardinality({t \in StepsIn(out) : t > r}) < KeepRecent
    <2> DEFINE T == {t \in StepsIn(m) : t > r}
               U == {t \in StepsIn(out) : t > r}
    <2>1. IsFiniteSet(T)
        <3>1. IsFiniteSet(3 .. Len(m))
            BY <1>4, FS_Interval
        <3>2. IsFiniteSet({m[x].step : x \in 3 .. Len(m)})
            <4> DEFINE g == [x \in 3 .. Len(m) |-> m[x].step]
            <4>1. g \in Surjection(3 .. Len(m), {m[x].step : x \in 3 .. Len(m)})
                BY DEF Surjection
            <4> HIDE DEF g
            <4> QED BY <3>1, <4>1, FS_Surjection
        <3>3. T \subseteq {m[x].step : x \in 3 .. Len(m)}
            BY DEF StepsIn
        <3> HIDE DEF T
        <3> QED BY <3>2, <3>3, FS_Subset
    <2>2. U \subseteq T
        BY StepsDrawn
    <2> HIDE DEF T, U
    <2>3. IsFiniteSet(U) /\ Cardinality(U) <= Cardinality(T)
        BY <2>1, <2>2, FS_Subset
    <2>4. Cardinality(U) \in Nat /\ Cardinality(T) \in Nat
        BY <2>1, <2>3, FS_CardinalityType
    <2>5. Cardinality(T) < KeepRecent
        BY <1>1, TalkCounts DEF T
    <2>6. Cardinality(U) < KeepRecent
        BY <2>3, <2>4, <2>5, CompactionAssumption
    <2> QED BY <2>6, TalkCounts DEF U
<1> QED BY <1>5, <1>6 DEF Window, Talk!Recent

LEMMA KeepsTwice ==
    ASSUME NEW m, NEW out, NEW last, NEW steps, Len(m) \in Nat, Len(out) \in Nat, Len(last) \in Nat,
           Keeps(m, out, steps), Keeps(out, last, steps)
    PROVE  Keeps(m, last, steps)
<1>1. PICK x \in Nat : /\ x <= Len(m) /\ x <= Len(out) /\ Same(m, out, x)
                       /\ Before(m, steps, x) /\ Before(out, steps, x)
    BY DEF Keeps
<1>2. PICK y \in Nat : /\ y <= Len(out) /\ y <= Len(last) /\ Same(out, last, y)
                       /\ Before(out, steps, y) /\ Before(last, steps, y)
    BY DEF Keeps
<1> DEFINE L == Len(m)
           K == Len(out)
           J == Len(last)
<1>3. /\ \A k \in 0 .. x - 1 : out[K - k] = m[L - k]
      /\ \A k \in 0 .. y - 1 : last[J - k] = out[K - k]
    BY <1>1, <1>2 DEF Same
<1>4. /\ \A i \in 1 .. L - x : m[i].step \notin steps
      /\ \A i \in 1 .. K - x : out[i].step \notin steps
      /\ \A i \in 1 .. K - y : out[i].step \notin steps
      /\ \A i \in 1 .. J - y : last[i].step \notin steps
    BY <1>1, <1>2 DEF Before
<1>5. L \in Nat /\ K \in Nat /\ J \in Nat /\ x <= L /\ x <= K /\ y <= K /\ y <= J
    BY <1>1, <1>2
<1> HIDE DEF L, K, J
<1>6. CASE x <= y
    <2>1. \A k \in 0 .. x - 1 : last[J - k] = m[L - k]
        <3>1. \A k \in 0 .. x - 1 : k \in 0 .. y - 1
            BY <1>6
        <3> QED BY <1>3, <3>1
    <2>2. ASSUME NEW i \in 1 .. J - x PROVE last[i].step \notin steps
        <3>1. CASE i <= J - y
            BY <1>4, <1>5, <3>1
        <3>2. CASE ~(i <= J - y)
            <4> DEFINE k == J - i
            <4>1. k \in 0 .. y - 1 /\ J - k = i /\ K - k \in 1 .. K - x
                BY <1>5, <1>6, <3>2
            <4> HIDE DEF k
            <4>2. last[i] = out[K - k] /\ out[K - k].step \notin steps
                BY <1>3, <1>4, <4>1
            <4> QED BY <4>2
        <3> QED BY <3>1, <3>2
    <2>3. x <= J
        BY <1>5, <1>6
    <2> QED BY <1>4, <1>5, <2>1, <2>2, <2>3 DEF Keeps, Same, Before, L, K, J
<1>7. CASE y <= x
    <2>1. \A k \in 0 .. y - 1 : last[J - k] = m[L - k]
        <3>1. \A k \in 0 .. y - 1 : k \in 0 .. x - 1
            BY <1>7
        <3> QED BY <1>3, <3>1
    <2>2. ASSUME NEW i \in 1 .. L - y PROVE m[i].step \notin steps
        <3>1. CASE i <= L - x
            BY <1>4, <1>5, <3>1
        <3>2. CASE ~(i <= L - x)
            <4> DEFINE k == L - i
            <4>1. k \in 0 .. x - 1 /\ L - k = i /\ K - k \in 1 .. K - y
                BY <1>5, <1>7, <3>2
            <4> HIDE DEF k
            <4>2. m[i] = out[K - k] /\ out[K - k].step \notin steps
                BY <1>3, <1>4, <4>1
            <4> QED BY <4>2
        <3> QED BY <3>1, <3>2
    <2>3. y <= L
        BY <1>5, <1>7
    <2> QED BY <1>4, <1>5, <2>1, <2>2, <2>3 DEF Keeps, Same, Before, L, K, J
<1> QED BY <1>6, <1>7

LEMMA CompactsTwice ==
    ASSUME NEW m, NEW out, NEW last, Headed(m), Compacts(m, out), Compacts(out, last)
    PROVE  Compacts(m, last)
<1>1. Headed(out) /\ Headed(last) /\ Drawn(m, out) /\ Drawn(out, last)
      /\ Keeps(m, out, Window(m)) /\ Keeps(out, last, Window(out))
    BY DEF Compacts
<1>2. Window(m) \subseteq Window(out)
    BY <1>1, WindowStays
<1>3. Keeps(out, last, Window(m))
    BY <1>1, <1>2 DEF Keeps, Before
<1>4. Len(m) \in Nat /\ Len(out) \in Nat /\ Len(last) \in Nat
    BY <1>1, HeadedType
<1>5. Keeps(m, last, Window(m))
    BY <1>1, <1>3, <1>4, KeepsTwice
<1>6. Drawn(m, last)
    BY <1>1 DEF Drawn
<1> QED BY <1>1, <1>5, <1>6 DEF Compacts

LEMMA SmallSize == ASSUME NEW x \in Int PROVE Talk!Min({1, x}) \in {1, x}
<1>1. \E y \in {1, x} : \A z \in {1, x} : y <= z
    <2>1. CASE x <= 1
        BY <2>1
    <2>2. CASE ~(x <= 1)
        BY <2>2
    <2> QED BY <2>1, <2>2
<1> QED BY <1>1 DEF Talk!Min

LEMMA ShortenedCompacts ==
    ASSUME NEW m, Headed(m)
    PROVE  Compacts(m, Talk!Shortened(m))
<1> DEFINE L == Len(m)
           from == From(m)
           n == L - from + 1
           out == Talk!Shortened(m)
<1>1. /\ L \in Nat /\ L >= 2 /\ from \in 3 .. L + 1 /\ m \in Seq(TalkMessages)
      /\ \A i \in 1 .. L : m[i] \in TalkMessages
      /\ 1 \in 1 .. L /\ 2 \in 1 .. L
    BY HeadedType, FromIs DEF Headed
<1>2. out = [i \in 1 .. L |->
                IF i < from /\ m[i].kind = "toolResult"
                THEN [m[i] EXCEPT !.size = Talk!Min({1, @})] ELSE m[i]]
    <2>1. DOMAIN m = 1 .. L
        BY <1>1
    <2> HIDE DEF L
    <2> QED BY <2>1 DEF Talk!Shortened, From
<1> HIDE DEF out, from, L
<1>3. ASSUME NEW i \in 1 .. L
      PROVE  /\ out[i] \in TalkMessages /\ out[i].kind = m[i].kind /\ out[i].step = m[i].step
             /\ out[i].ids = m[i].ids
             /\ i >= from \/ m[i].kind # "toolResult" => out[i] = m[i]
    <2>1. m[i] \in TalkMessages /\ m[i].size \in Int
        BY <1>1 DEF TalkMessages
    <2>2. Talk!Min({1, m[i].size}) \in Int
        BY <2>1, SmallSize
    <2>3. CASE i < from /\ m[i].kind = "toolResult"
        <3>1. out[i] = [m[i] EXCEPT !.size = Talk!Min({1, @})]
            BY <1>2, <2>3
        <3>2. ~(i >= from)
            BY <1>1, <2>3
        <3> QED BY <2>1, <2>2, <2>3, <3>1, <3>2 DEF TalkMessages
    <2>4. CASE ~(i < from /\ m[i].kind = "toolResult")
        <3>1. out[i] = m[i]
            BY <1>2, <2>4
        <3> QED BY <2>1, <3>1
    <2> QED BY <2>3, <2>4
<1>4. out \in Seq(TalkMessages) /\ Len(out) = L
    <2>1. out = [i \in 1 .. L |-> out[i]]
        BY <1>2
    <2>2. out \in [1 .. L -> TalkMessages]
        BY <1>3, <2>1
    <2> QED BY <1>1, <2>2
<1>5. Headed(out)
    <2>1. m[1].kind = "system" /\ m[2].kind = "user"
        BY DEF Headed
    <2>2. out[1] = m[1] /\ out[2] = m[2]
        BY <1>1, <1>3, <2>1
    <2> QED BY <1>1, <1>4, <2>2 DEF Headed
<1>6. Drawn(m, out)
    BY <1>3, <1>4 DEF Drawn, L
<1>7. \A i \in 1 .. L : i < from => m[i].step \notin Window(m)
    <2> SUFFICES ASSUME NEW i \in 1 .. L, i < from PROVE m[i].step \notin Window(m)
        OBVIOUS
    <2>1. CASE i \in 3 .. L
        BY <2>1, FromIs DEF L, from
    <2>2. CASE i \notin 3 .. L
        <3>1. i \in 1 .. 2
            BY <1>1, <2>2
        <3>2. m[i].step = -1
            BY <3>1, HeadedType
        <3> QED BY <3>2, FromIs DEF StepsIn
    <2> QED BY <2>1, <2>2
<1>8. Keeps(m, out, Window(m))
    <2>1. n \in Nat /\ n <= L
        BY <1>1
    <2>2. Same(m, out, n)
        <3>1. \A k \in 0 .. n - 1 : L - k \in 1 .. L /\ L - k >= from
            BY <1>1
        <3> QED BY <1>3, <1>4, <3>1 DEF Same, L
    <2>3. \A i \in 1 .. L - n : i \in 1 .. L /\ i < from
        BY <1>1
    <2>4. Before(m, Window(m), n) /\ Before(out, Window(m), n)
        BY <1>3, <1>4, <1>7, <2>3 DEF Before, L
    <2> HIDE DEF n
    <2> QED BY <1>4, <2>1, <2>2, <2>4 DEF Keeps, L
<1>9. Answered(m) => Answered(out)
    <2> SUFFICES ASSUME Answered(m), NEW i \in 1 .. L, out[i].kind \in {"toolResult", "nudge"},
                        NEW c \in out[i].ids
                 PROVE  \E j \in 1 .. i - 1 : Answers(out, j, i, c)
        BY <1>4 DEF Answered
    <2>1. PICK j \in 1 .. i - 1 : Answers(m, j, i, c)
        BY <1>3 DEF Answered, L
    <2>2. j \in 1 .. L /\ \A l \in j .. i : l \in 1 .. L
        BY <1>1
    <2>3. Answers(out, j, i, c)
        BY <1>3, <2>1, <2>2 DEF Answers
    <2> QED BY <2>3
<1> QED BY <1>5, <1>6, <1>8, <1>9 DEF Compacts, out

\* What is sent is the transcript but for what its strategy drops.
LEMMA CompactedCompacts ==
    ASSUME NEW m, Headed(m), state.strategy \in {"none", "sliding", "tiered"}
    PROVE  Compacts(m, Talk!Compacted(m))
<1>1. Compacts(m, m)
    BY CompactsItself
<1>2. CASE state.strategy = "none"
    BY <1>1, <1>2 DEF Talk!Compacted
<1>3. CASE state.strategy = "sliding"
    <2>1. Talk!Compacted(m) = Talk!Sliding(m)
        BY <1>3 DEF Talk!Compacted
    <2>2. Compacts(m, Talk!Header \o SubSeq(m, Talk!WindowStart(Talk!Rest(m)) + 2, Len(m)))
        BY SlidingCompacts
    <2> QED BY <1>1, <2>1, <2>2 DEF Talk!Sliding
<1>4. CASE state.strategy = "tiered"
    <2> DEFINE short == Talk!Shortened(m)
               one == Talk!PhaseOne(m)
               two == Talk!PhaseTwo(one)
               three == Talk!PhaseThree(two)
    <2>1. Compacts(m, short) /\ Headed(short)
        BY ShortenedCompacts DEF Compacts
    <2>2. Compacts(short, one)
        <3> HIDE DEF short
        <3>1. Compacts(short, Talk!Without(short, {"nudge"}))
            BY <2>1, WithoutCompacts
        <3> QED BY <3>1 DEF Talk!PhaseOne, short
    <2> HIDE DEF short, one
    <2>3. Compacts(m, one) /\ Headed(one)
        BY <2>1, <2>2, CompactsTwice DEF Compacts
    <2>4. Compacts(one, two)
        <3>1. Compacts(one, Talk!Without(one, {"nudge", "toolCall", "toolResult"}))
            BY <2>3, WithoutCompacts
        <3> QED BY <3>1 DEF Talk!PhaseTwo
    <2> HIDE DEF two
    <2>5. Compacts(m, two) /\ Headed(two)
        BY <2>3, <2>4, CompactsTwice DEF Compacts
    <2>6. Compacts(two, three)
        <3>1. Compacts(two, Talk!Without(two,
                              {"nudge", "toolCall", "toolResult", "reasoning", "text"}))
            BY <2>5, WithoutCompacts
        <3> QED BY <3>1 DEF Talk!PhaseThree
    <2> HIDE DEF three
    <2>7. Compacts(m, three)
        BY <2>5, <2>6, CompactsTwice
    <2>8. Talk!Tiered(m) \in {m, one, two, three}
        BY DEF Talk!Tiered, one, two, three
    <2>9. Talk!Compacted(m) = Talk!Tiered(m)
        BY <1>4 DEF Talk!Compacted
    <2> QED BY <1>1, <2>3, <2>5, <2>7, <2>8, <2>9
<1> QED BY <1>2, <1>3, <1>4

-----------------------------------------------------------------------------
(* What is appended to a conversation.                                     *)

\* The ids of the messages are those the counter has passed, or the one it is at.
IdsWithin(m, last) == \A i \in 1 .. Len(m) : m[i].ids \subseteq 0 .. last

LEMMA JoinedAnswered ==
    ASSUME NEW m, Headed(m), Answered(m), NEW x \in Seq(TalkMessages), Answered(x),
           NEW last \in Nat, IdsWithin(m, last), IdsWithin(x, last)
    PROVE  Headed(m \o x) /\ Answered(m \o x) /\ IdsWithin(m \o x, last)
<1> DEFINE L == Len(m)
           K == Len(x)
           y == m \o x
<1>1. L \in Nat /\ L >= 2 /\ K \in Nat /\ m \in Seq(TalkMessages) /\ 1 \in 1 .. L /\ 2 \in 1 .. L
    BY HeadedType DEF Headed
<1>2. /\ y \in Seq(TalkMessages) /\ Len(y) = L + K
      /\ \A i \in 1 .. L + K : y[i] = IF i <= L THEN m[i] ELSE x[i - L]
    <2> HIDE DEF TalkMessages
    <2> QED BY <1>1, ConcatProperties
<1> HIDE DEF y, L, K
<1>3. /\ \A i \in 1 .. L : i \in 1 .. L + K /\ y[i] = m[i]
      /\ \A i \in 1 .. K : i + L \in 1 .. L + K /\ y[i + L] = x[i]
    <2>1. \A i \in 1 .. L : i \in 1 .. L + K /\ i <= L
        BY <1>1
    <2>2. \A i \in 1 .. K : i + L \in 1 .. L + K /\ ~(i + L <= L) /\ (i + L) - L = i
        BY <1>1
    <2> QED BY <1>2, <2>1, <2>2
<1>4. \A i \in 1 .. L + K : i \in 1 .. L \/ (i - L \in 1 .. K /\ (i - L) + L = i)
    BY <1>1
<1>5. Headed(y)
    BY <1>1, <1>2, <1>3 DEF Headed
<1>6. IdsWithin(y, last)
    <2> SUFFICES ASSUME NEW i \in 1 .. L + K PROVE y[i].ids \subseteq 0 .. last
        BY <1>2 DEF IdsWithin
    <2>1. CASE i \in 1 .. L
        BY <1>3, <2>1 DEF IdsWithin, L
    <2>2. CASE i - L \in 1 .. K /\ (i - L) + L = i
        BY <1>3, <2>2 DEF IdsWithin, K
    <2> QED BY <1>4, <2>1, <2>2
<1>7. Answered(y)
    <2> SUFFICES ASSUME NEW i \in 1 .. L + K, y[i].kind \in {"toolResult", "nudge"},
                        NEW c \in y[i].ids
                 PROVE  \E j \in 1 .. i - 1 : Answers(y, j, i, c)
        BY <1>2 DEF Answered
    <2>1. CASE i \in 1 .. L
        <3>1. PICK j \in 1 .. i - 1 : Answers(m, j, i, c)
            BY <1>3, <2>1 DEF Answered, L
        <3>2. j \in 1 .. L /\ \A l \in j .. i : l \in 1 .. L
            BY <1>1, <2>1
        <3>3. Answers(y, j, i, c)
            BY <1>3, <2>1, <3>1, <3>2 DEF Answers
        <3> QED BY <3>3
    <2>2. CASE i - L \in 1 .. K /\ (i - L) + L = i
        <3> DEFINE p == i - L
        <3>0. p \in 1 .. K /\ p + L = i
            BY <2>2
        <3> HIDE DEF p
        <3>1. y[i] = x[p]
            BY <1>3, <3>0
        <3>2. PICK j \in 1 .. p - 1 : Answers(x, j, p, c)
            BY <3>0, <3>1 DEF Answered, K
        <3>3. j \in 1 .. K /\ j + L \in 1 .. i - 1
            BY <1>1, <3>0
        <3>4. \A l \in j + L .. i : l - L \in j .. p /\ l - L \in 1 .. K /\ (l - L) + L = l
            BY <1>1, <3>0, <3>3
        <3>5. y[j + L] = x[j] /\ \A l \in j + L .. i : y[l] = x[l - L]
            BY <1>3, <3>3, <3>4
        <3>6. \A l \in j + L .. i : y[l].step = y[i].step
            BY <3>1, <3>2, <3>4, <3>5 DEF Answers
        <3>7. y[j + L].kind = "toolCall" /\ c \in y[j + L].ids
            BY <3>2, <3>5 DEF Answers
        <3>8. Answers(y, j + L, i, c)
            BY <3>6, <3>7 DEF Answers
        <3> QED BY <3>3, <3>8
    <2> QED BY <1>4, <2>1, <2>2
<1> QED BY <1>5, <1>6, <1>7 DEF y

\* An assistant turn and what answers its calls.
LEMMA ExchangeAnswers ==
    ASSUME NEW r \in Nat, NEW last \in Nat, NEW ids \in SUBSET (0 .. last),
           NEW answer \in {"nudge", "toolResult"}, NEW step \in Int, NEW size \in Int
    PROVE  LET x == Talk!Exchange(r, ids, answer, step, size)
           IN  x \in Seq(TalkMessages) /\ Answered(x) /\ IdsWithin(x, last)
<1> DEFINE K == Cardinality(ids)
           call == [kind |-> "toolCall", step |-> step, size |-> 0, ids |-> ids]
           thought == Talk!Plain("reasoning", step, 1)
           before == [i \in 1 .. r |-> thought]
           pick(n) == CHOOSE i \in ids : Rank(ids, i) = n
           reply(n) == [kind |-> answer, step |-> step, size |-> size, ids |-> {pick(n)}]
           after == [n \in 1 .. K |-> reply(n)]
           x == Talk!Exchange(r, ids, answer, step, size)
           y == before \o <<call>>
<1>1. K \in Nat /\ \A n \in 1 .. K : pick(n) \in ids
    <2>1. K \in Nat /\ \A n \in 1 .. K : \E i \in ids : Rank(ids, i) = n
        <3> HIDE DEF K
        <3> QED BY Ranks DEF K
    <2> HIDE DEF K
    <2> QED BY <2>1
<1>2. after = Talk!Answers(answer, step, ids, size)
    <2> DEFINE count == Talk!Cardinality(ids)
               other(n) == CHOOSE i \in ids : Talk!Cardinality({j \in ids : j <= i}) = n
    <2>1. count = K /\ \A i : Talk!Cardinality({j \in ids : j <= i}) = Rank(ids, i)
        BY TalkCounts DEF Rank
    <2>2. Talk!Answers(answer, step, ids, size) =
              [n \in 1 .. count |->
                  [kind |-> answer, step |-> step, size |-> size, ids |-> {other(n)}]]
        BY DEF Talk!Answers
    <2> HIDE DEF K, count
    <2>3. \A n : other(n) = pick(n)
        BY <2>1
    <2> HIDE DEF other, pick
    <2> QED BY <2>1, <2>2, <2>3
<1>3. x = y \o after
    BY <1>2 DEF Talk!Exchange
<1> HIDE DEF pick, K, x
<1>4. /\ call \in TalkMessages /\ thought \in TalkMessages
      /\ \A n \in 1 .. K : reply(n) \in TalkMessages
      /\ thought.kind = "reasoning" /\ thought.ids = {} /\ thought.step = step
      /\ call.kind = "toolCall" /\ call.ids = ids /\ call.step = step
      /\ \A n : reply(n).kind = answer /\ reply(n).ids = {pick(n)} /\ reply(n).step = step
    <2>1. ids \in SUBSET Nat
        OBVIOUS
    <2>2. \A n \in 1 .. K : {pick(n)} \in SUBSET Nat
        BY <1>1, <2>1
    <2> QED BY <2>1, <2>2 DEF TalkMessages, Talk!Kinds, Talk!Plain
<1>5. /\ before \in Seq(TalkMessages) /\ Len(before) = r
      /\ after \in Seq(TalkMessages) /\ Len(after) = K
      /\ \A i \in 1 .. r : before[i] = thought
      /\ \A n \in 1 .. K : after[n] = reply(n)
    <2> HIDE DEF thought, reply
    <2>1. before \in [1 .. r -> TalkMessages] /\ after \in [1 .. K -> TalkMessages]
        BY <1>4
    <2> QED BY <1>1, <2>1
<1> HIDE DEF before, after, call, thought, reply
<1>6. <<call>> \in Seq(TalkMessages) /\ Len(<<call>>) = 1 /\ <<call>>[1] = call
    BY <1>4
<1>7. /\ y \in Seq(TalkMessages) /\ Len(y) = r + 1
      /\ \A i \in 1 .. r + 1 : y[i] = IF i <= r THEN thought ELSE call
    <2> DEFINE one == <<call>>
    <2>0. one \in Seq(TalkMessages) /\ Len(one) = 1 /\ one[1] = call
        BY <1>6
    <2> HIDE DEF one
    <2>1. /\ before \o one \in Seq(TalkMessages) /\ Len(before \o one) = Len(before) + Len(one)
          /\ \A i \in 1 .. Len(before) + Len(one) :
                (before \o one)[i] = IF i <= Len(before) THEN before[i] ELSE one[i - Len(before)]
        BY <1>5, <2>0, ConcatProperties
    <2>2. \A i \in 1 .. r + 1 : (i <= r => i \in 1 .. r) /\ (~(i <= r) => i - r = 1)
        OBVIOUS
    <2> QED BY <1>5, <2>0, <2>1, <2>2 DEF one
<1> HIDE DEF y
<1>8. /\ x \in Seq(TalkMessages) /\ Len(x) = r + 1 + K
      /\ \A i \in 1 .. r + 1 + K :
             x[i] = IF i <= r THEN thought ELSE IF i = r + 1 THEN call ELSE reply(i - (r + 1))
    <2>1. /\ x \in Seq(TalkMessages) /\ Len(x) = Len(y) + Len(after)
          /\ \A i \in 1 .. Len(y) + Len(after) :
                x[i] = IF i <= Len(y) THEN y[i] ELSE after[i - Len(y)]
        BY <1>3, <1>5, <1>7, ConcatProperties
    <2>2. \A i \in 1 .. r + 1 + K :
              /\ i <= r + 1 => i \in 1 .. r + 1
              /\ ~(i <= r + 1) => i - (r + 1) \in 1 .. K /\ ~(i <= r) /\ i # r + 1
              /\ i <= r + 1 /\ ~(i <= r) => i = r + 1
              /\ i <= r => i <= r + 1
        BY <1>1
    <2>3. \A i \in 1 .. r + 1 + K : i <= r + 1 => x[i] = y[i]
        BY <1>5, <1>7, <2>1
    <2>4. \A i \in 1 .. r + 1 + K : ~(i <= r + 1) => x[i] = reply(i - (r + 1))
        BY <1>5, <1>7, <2>1, <2>2
    <2> QED BY <1>5, <1>7, <2>1, <2>2, <2>3, <2>4
<1>9. \A i \in 1 .. r + 1 + K : x[i].step = step
    BY <1>4, <1>8
<1>10. ASSUME NEW i \in 1 .. r + 1 + K
       PROVE  /\ x[i].ids \subseteq ids
              /\ x[i].kind \in {"nudge", "toolResult"} /\ x[i].ids # {} => r + 1 < i
    <2>1. CASE i <= r
        BY <1>4, <1>8, <2>1
    <2>2. CASE i = r + 1
        <3>1. x[i] = call
            BY <1>8, <2>2
        <3> QED BY <1>4, <3>1
    <2>3. CASE r + 1 < i
        <3>1. x[i] = reply(i - (r + 1)) /\ i - (r + 1) \in 1 .. K
            BY <1>1, <1>8, <2>3
        <3> QED BY <1>1, <1>4, <2>3, <3>1
    <2> QED BY <1>1, <2>1, <2>2, <2>3
<1>11. Answered(x)
    <2> SUFFICES ASSUME NEW i \in 1 .. r + 1 + K, x[i].kind \in {"toolResult", "nudge"},
                        NEW c \in x[i].ids
                 PROVE  \E j \in 1 .. i - 1 : Answers(x, j, i, c)
        BY <1>8 DEF Answered
    <2>1. r + 1 < i /\ c \in ids
        BY <1>10
    <2>2. r + 1 \in 1 .. i - 1 /\ r + 1 \in 1 .. r + 1 + K /\ ~(r + 1 <= r)
          /\ \A l \in r + 1 .. i : l \in 1 .. r + 1 + K
        BY <1>1, <2>1
    <2>3. x[r + 1] = call
        BY <1>8, <2>2
    <2>4. Answers(x, r + 1, i, c)
        BY <1>4, <1>9, <2>1, <2>2, <2>3 DEF Answers
    <2> QED BY <2>2, <2>4
<1>12. IdsWithin(x, last)
    BY <1>8, <1>10 DEF IdsWithin
<1> QED BY <1>8, <1>11, <1>12 DEF x

\* There are ids left that no message has, and the counter passes them.
LEMMA FreshIdsAre ==
    ASSUME NEW m, Headed(m), state.counter \in Nat, IdsWithin(m, state.counter),
           NEW count \in 1 .. 2
    PROVE  LET ids == Talk!FreshIds(m, count)
               next == Talk!Max(ids) + 1
           IN  next \in Nat /\ state.counter <= next /\ ids \in SUBSET (0 .. next)
<1> DEFINE N == state.counter
           taken == UNION {m[i].ids : i \in 1 .. Len(m)}
           top == N + count + Cardinality(taken)
           free == (N .. top) \ taken
           ids == Talk!FreshIds(m, count)
           first == Talk!Min(free)
<1>1. taken \in SUBSET (0 .. N)
    BY DEF IdsWithin
<1>2. Cardinality(taken) \in Nat
    <2> HIDE DEF taken
    <2> QED BY <1>1, Ranks
<1>3. ids = {n \in free : Talk!Cardinality({k \in free : k < n}) < count}
    <2>1. DOMAIN m = 1 .. Len(m)
        BY DEF Headed
    <2>2. taken = UNION {m[i].ids : i \in DOMAIN m}
        BY <2>1
    <2>3. Talk!Cardinality(taken) = Cardinality(taken)
        BY TalkCounts
    <2> HIDE DEF taken
    <2>4. free = (N .. N + count + Talk!Cardinality(taken)) \ taken
        BY <2>3
    <2> HIDE DEF free
    <2> QED BY <2>2, <2>4 DEF Talk!FreshIds
<1> HIDE DEF ids, taken
<1>4. top \in Nat /\ N + 1 \in N .. top
    BY <1>2
<1> HIDE DEF top
<1>5. N + 1 \in free
    BY <1>1, <1>4
<1>6. free \in SUBSET Nat /\ \A n \in free : n <= top /\ N <= n
    BY <1>4
<1> HIDE DEF free, N
<1>7. first \in free /\ \A n \in free : first <= n
    BY <1>5, <1>6, Extremes
<1>8. first \in ids
    <2>1. {k \in free : k < first} = {}
        <3> SUFFICES ASSUME NEW k \in free, k < first PROVE FALSE
            OBVIOUS
        <3>1. first <= k /\ first \in Nat /\ k \in Nat
            BY <1>6, <1>7
        <3> HIDE DEF first
        <3> QED BY <3>1
    <2>2. Talk!Cardinality({}) = 0
        BY TalkCounts, FS_EmptySet
    <2> QED BY <1>3, <1>7, <2>1, <2>2
<1>9. ids \in SUBSET Nat /\ ids # {} /\ \A n \in ids : n <= top /\ N <= n
    BY <1>3, <1>6, <1>8
<1>10. Talk!Max(ids) \in ids /\ \A k \in ids : k <= Talk!Max(ids)
    BY <1>4, <1>9, Extremes
<1> DEFINE high == Talk!Max(ids)
<1>11. high \in Nat /\ N <= high /\ \A k \in ids : k \in 0 .. high + 1
    <2>1. high \in ids /\ \A k \in ids : k <= high
        BY <1>10
    <2> HIDE DEF high
    <2>2. high \in Nat /\ N <= high
        BY <1>9, <2>1
    <2>3. ASSUME NEW k \in ids PROVE k \in 0 .. high + 1
        <3>1. k \in Nat /\ k <= high
            BY <1>9, <2>1
        <3> QED BY <2>2, <3>1
    <2> QED BY <2>2, <2>3
<1> HIDE DEF high
<1>12. high + 1 \in Nat /\ N <= high + 1
    BY <1>11 DEF N
<1> QED BY <1>11, <1>12 DEF high, ids, N

-----------------------------------------------------------------------------
(* The conversation.                                                       *)

Talking(s) ==
    s = [messages |-> s.messages, strategy |-> s.strategy, seeded |-> s.seeded,
         iteration |-> s.iteration, attempts |-> s.attempts, counter |-> s.counter,
         turns |-> s.turns, fired |-> s.fired, warned |-> s.warned, before |-> s.before,
         sent |-> s.sent]

\* The messages are those of a conversation whose calls come before their answers, and
\* what was last sent compacts what it was made from.
TalkInv(s) ==
    /\ Talking(s) /\ s.strategy \in {"none", "sliding", "tiered"}
    /\ s.iteration \in Int /\ s.attempts \in Int /\ s.counter \in Nat
    /\ Headed(s.messages) /\ Answered(s.messages) /\ IdsWithin(s.messages, s.counter)
    /\ \/ s.before = <<>> /\ s.sent = <<>>
       \/ Headed(s.before) /\ Compacts(s.before, s.sent) /\ Answered(s.sent)

\* A turn: the request, then what is appended.
Turns(s, t, kept, x) ==
    /\ Talking(t) /\ t.strategy = s.strategy
    /\ t.before = s.messages /\ t.sent = kept /\ t.messages = kept \o x

LEMMA TurnKeeps ==
    ASSUME NEW t, TalkInv(state), NEW x \in Seq(TalkMessages),
           Turns(state, t, Talk!Compacted(state.messages), x),
           t.iteration \in Int, t.attempts \in Int, t.counter \in Nat,
           state.counter <= t.counter, Answered(x), IdsWithin(x, t.counter)
    PROVE  TalkInv(t)
<1> DEFINE m == state.messages
           kept == Talk!Compacted(m)
<1>1. /\ Headed(m) /\ Answered(m) /\ IdsWithin(m, state.counter) /\ state.counter \in Nat
      /\ state.strategy \in {"none", "sliding", "tiered"}
    BY DEF TalkInv
<1>2. Compacts(m, kept) /\ Headed(kept) /\ Answered(kept) /\ Drawn(m, kept)
    BY <1>1, CompactedCompacts DEF Compacts
<1>3. IdsWithin(kept, t.counter)
    <2>1. 0 .. state.counter \subseteq 0 .. t.counter
        BY <1>1
    <2> QED BY <1>1, <1>2, <2>1 DEF IdsWithin, Drawn
<1> HIDE DEF kept
<1>4. Headed(kept \o x) /\ Answered(kept \o x) /\ IdsWithin(kept \o x, t.counter)
    BY <1>2, <1>3, JoinedAnswered
<1>5. t.before = m /\ t.sent = kept /\ t.messages = kept \o x /\ Talking(t)
      /\ t.strategy = state.strategy
    BY DEF Turns, kept
<1> HIDE DEF m
<1> QED BY <1>1, <1>2, <1>4, <1>5 DEF TalkInv

LEMMA SendIs ==
    ASSUME TalkInv(state), NEW kept
    PROVE  LET s == Talk!Send(kept)
           IN  /\ Talking(s) /\ s.strategy = state.strategy /\ s.before = state.messages
               /\ s.sent = kept /\ s.iteration = state.iteration /\ s.counter = state.counter
               /\ s.attempts = state.attempts
<1> DEFINE fired == Talk!StillFired(kept) \cup Talk!Fires(kept)
           warned == IF Talk!Fires(kept) = {} THEN 0 ELSE Talk!Max(Talk!Fires(kept))
<1>1. Talk!Send(kept) = [state EXCEPT !.before = state.messages, !.sent = kept,
                             !.turns = @ + 1, !.fired = fired, !.warned = warned]
    BY DEF Talk!Send
<1> HIDE DEF fired, warned
<1>2. Talking(state)
    BY DEF TalkInv
<1>3. Talk!Send(kept) =
          [messages |-> state.messages, strategy |-> state.strategy, seeded |-> state.seeded,
           iteration |-> state.iteration, attempts |-> state.attempts,
           counter |-> state.counter, turns |-> state.turns + 1, fired |-> fired,
           warned |-> warned, before |-> state.messages, sent |-> kept]
    BY <1>1, <1>2 DEF Talking
<1> QED BY <1>3 DEF Talking

LEMMA RejectKeeps == ASSUME TalkInv(state), Talk!Reject PROVE TalkInv(state')
<1> DEFINE kept == Talk!Compacted(state.messages)
           step == state.iteration
           s == Talk!Send(kept)
           text == <<Talk!Plain("text", step, 1), Talk!Plain("nudge", step, 1)>>
           nudge == <<Talk!Plain("nudge", step, 1)>>
<1>1. /\ state.iteration \in Int /\ state.attempts \in Int /\ state.counter \in Nat
      /\ Headed(state.messages) /\ Answered(state.messages)
      /\ IdsWithin(state.messages, state.counter)
      /\ state.strategy \in {"none", "sliding", "tiered"}
    BY DEF TalkInv
<1>2. /\ Talking(s) /\ s.strategy = state.strategy /\ s.before = state.messages
      /\ s.sent = kept /\ s.iteration = state.iteration /\ s.counter = state.counter
      /\ s.attempts = state.attempts
    BY SendIs
<1>3. Talk!Plain("text", step, 1) \in TalkMessages /\ Talk!Plain("nudge", step, 1) \in TalkMessages
      /\ Talk!Plain("text", step, 1).ids = {} /\ Talk!Plain("nudge", step, 1).ids = {}
    BY <1>1 DEF TalkMessages, Talk!Plain, Talk!Kinds
<1>4. \/ state' = [s EXCEPT !.attempts = @ + 1, !.messages = kept \o text]
      \/ state' = [s EXCEPT !.attempts = @ + 1, !.messages = kept \o nudge]
      \/ \E count \in 1 .. 2 : \E reasonings \in {0, count} :
            LET ids == Talk!FreshIds(kept, count)
            IN  state' = [s EXCEPT !.attempts = @ + 1, !.counter = Talk!Max(ids) + 1,
                   !.messages = kept \o Talk!Exchange(reasonings, ids, "nudge", step, 1)]
    BY DEF Talk!Reject
<1>5. /\ text \in Seq(TalkMessages) /\ nudge \in Seq(TalkMessages)
      /\ \A i \in 1 .. Len(text) : text[i].ids = {}
      /\ \A i \in 1 .. Len(nudge) : nudge[i].ids = {}
    <2> DEFINE u == Talk!Plain("text", step, 1)
               v == Talk!Plain("nudge", step, 1)
    <2>1. u \in TalkMessages /\ v \in TalkMessages /\ u.ids = {} /\ v.ids = {}
        BY <1>3
    <2> HIDE DEF u, v
    <2>2. /\ <<u, v>> \in Seq(TalkMessages) /\ <<v>> \in Seq(TalkMessages)
          /\ Len(<<u, v>>) = 2 /\ Len(<<v>>) = 1
          /\ <<u, v>>[1] = u /\ <<u, v>>[2] = v /\ <<v>>[1] = v
        BY <2>1
    <2>3. \A i \in 1 .. Len(<<u, v>>) : i = 1 \/ i = 2
        BY <2>2
    <2>4. \A i \in 1 .. Len(<<v>>) : i = 1
        BY <2>2
    <2> QED BY <2>1, <2>2, <2>3, <2>4 DEF u, v
<1> HIDE DEF text, nudge, s
<1>6. ASSUME NEW x \in {text, nudge}, state' = [s EXCEPT !.attempts = @ + 1, !.messages = kept \o x]
      PROVE  TalkInv(state')
    <2>1. x \in Seq(TalkMessages) /\ \A i \in 1 .. Len(x) : x[i].ids = {}
        <3>1. CASE x = text
            BY <1>5, <3>1
        <3>2. CASE x = nudge
            BY <1>5, <3>2
        <3> QED BY <1>6, <3>1, <3>2
    <2>2. Answered(x) /\ IdsWithin(x, state.counter)
        BY <2>1 DEF Answered, IdsWithin
    <2>3. state'.counter = state.counter /\ state'.iteration \in Int /\ state'.attempts \in Int
          /\ Turns(state, state', kept, x)
        <3> HIDE DEF kept
        <3>1. state' = [messages |-> kept \o x, strategy |-> s.strategy, seeded |-> s.seeded,
                        iteration |-> s.iteration, attempts |-> s.attempts + 1,
                        counter |-> s.counter, turns |-> s.turns, fired |-> s.fired,
                        warned |-> s.warned, before |-> s.before, sent |-> s.sent]
            BY <1>2, <1>6 DEF Talking
        <3> QED BY <1>1, <1>2, <3>1 DEF Turns, Talking
    <2>4. state.counter <= state'.counter /\ IdsWithin(x, state'.counter) /\ state'.counter \in Nat
        BY <1>1, <2>2, <2>3
    <2> DEFINE t == state'
    <2>5. Turns(state, t, kept, x) /\ t.iteration \in Int /\ t.attempts \in Int /\ t.counter \in Nat
          /\ state.counter <= t.counter /\ IdsWithin(x, t.counter)
        BY <2>3, <2>4
    <2> HIDE DEF t
    <2>6. TalkInv(t)
        BY <2>1, <2>2, <2>5, TurnKeeps
    <2> QED BY <2>6 DEF t
<1>7. ASSUME NEW count \in 1 .. 2, NEW reasonings \in {0, count},
             state' = [s EXCEPT !.attempts = @ + 1,
                          !.counter = Talk!Max(Talk!FreshIds(kept, count)) + 1,
                          !.messages = kept \o Talk!Exchange(reasonings,
                              Talk!FreshIds(kept, count), "nudge", step, 1)]
      PROVE  TalkInv(state')
    <2> DEFINE ids == Talk!FreshIds(kept, count)
               next == Talk!Max(ids) + 1
               x == Talk!Exchange(reasonings, ids, "nudge", step, 1)
               t == state'
    <2>1. Headed(kept) /\ IdsWithin(kept, state.counter)
        <3>1. Compacts(state.messages, kept)
            BY <1>1, CompactedCompacts
        <3> HIDE DEF kept
        <3> QED BY <1>1, <3>1 DEF Compacts, Drawn, IdsWithin
    <2>2. next \in Nat /\ state.counter <= next /\ ids \in SUBSET (0 .. next)
        <3> HIDE DEF kept
        <3> QED BY <1>1, <2>1, FreshIdsAre
    <2>3. x \in Seq(TalkMessages) /\ Answered(x) /\ IdsWithin(x, next)
        <3>1. reasonings \in Nat
            OBVIOUS
        <3>2. "nudge" \in {"nudge", "toolResult"} /\ step \in Int /\ 1 \in Int
            BY <1>1
        <3> HIDE DEF ids, next, step
        <3> QED BY <2>2, <3>1, <3>2, ExchangeAnswers
    <2>4. state' = [s EXCEPT !.attempts = @ + 1, !.counter = next, !.messages = kept \o x]
        BY <1>7
    <2> HIDE DEF ids, next, x
    <2>5. Turns(state, t, kept, x) /\ t.iteration \in Int /\ t.attempts \in Int /\ t.counter = next
        <3> HIDE DEF kept
        <3>1. t = [messages |-> kept \o x, strategy |-> s.strategy, seeded |-> s.seeded,
                   iteration |-> s.iteration, attempts |-> s.attempts + 1,
                   counter |-> next, turns |-> s.turns, fired |-> s.fired,
                   warned |-> s.warned, before |-> s.before, sent |-> s.sent]
            BY <1>2, <2>4 DEF Talking
        <3> QED BY <1>1, <1>2, <3>1 DEF Turns, Talking
    <2> HIDE DEF t
    <2>6. TalkInv(t)
        BY <2>2, <2>3, <2>5, TurnKeeps
    <2> QED BY <2>6 DEF t
<1> QED BY <1>4, <1>6, <1>7

LEMMA AcceptKeeps == ASSUME TalkInv(state), Talk!Accept PROVE TalkInv(state')
<1> DEFINE kept == Talk!Compacted(state.messages)
           step == state.iteration + state.attempts + 1
           s == Talk!Send(kept)
<1>1. state.iteration \in Int /\ state.attempts \in Int /\ state.counter \in Nat /\ step \in Int
    BY DEF TalkInv
<1>2. /\ Talking(s) /\ s.strategy = state.strategy /\ s.before = state.messages
      /\ s.sent = kept /\ s.iteration = state.iteration /\ s.counter = state.counter
      /\ s.attempts = state.attempts
    BY SendIs
<1>3. PICK count \in 1 .. 2, reasonings \in 0 .. 1,
           answer \in {<<"nudge", 1>>, <<"toolResult", 1>>, <<"toolResult", 3>>} :
           state' = [s EXCEPT !.iteration = step, !.attempts = 0, !.counter = @ + count,
                        !.messages = kept \o Talk!Exchange(reasonings, Talk!NextIds(count),
                                                           answer[1], step, answer[2])]
    BY DEF Talk!Accept
<1> DEFINE ids == Talk!NextIds(count)
           next == state.counter + count
           x == Talk!Exchange(reasonings, ids, answer[1], step, answer[2])
           t == state'
<1>4. next \in Nat /\ state.counter <= next /\ ids \in SUBSET (0 .. next)
    BY <1>1 DEF Talk!NextIds
<1>5. answer[1] \in {"nudge", "toolResult"} /\ answer[2] \in Int /\ reasonings \in Nat
    OBVIOUS
<1>6. x \in Seq(TalkMessages) /\ Answered(x) /\ IdsWithin(x, next)
    <2> HIDE DEF ids, next, step
    <2> QED BY <1>1, <1>4, <1>5, ExchangeAnswers
<1>7. state' = [s EXCEPT !.iteration = step, !.attempts = 0, !.counter = @ + count,
                   !.messages = kept \o x]
    BY <1>3
<1> HIDE DEF ids, x, s
<1>8. Turns(state, t, kept, x) /\ t.iteration \in Int /\ t.attempts \in Int /\ t.counter = next
    <2> HIDE DEF kept, step
    <2>1. t = [messages |-> kept \o x, strategy |-> s.strategy, seeded |-> s.seeded,
               iteration |-> step, attempts |-> 0, counter |-> s.counter + count,
               turns |-> s.turns, fired |-> s.fired, warned |-> s.warned,
               before |-> s.before, sent |-> s.sent]
        BY <1>2, <1>7 DEF Talking
    <2> QED BY <1>1, <1>2, <2>1 DEF Turns, Talking
<1> HIDE DEF t, next
<1>9. TalkInv(t)
    BY <1>4, <1>6, <1>8, TurnKeeps
<1> QED BY <1>9 DEF t

LEMMA TalkStarts == ASSUME Talk!Init PROVE TalkInv(state)
<1>1. PICK seed \in Talk!Seeds, strategy \in {"none", "sliding", "tiered"} :
          state = [messages |-> seed, strategy |-> strategy, seeded |-> Len(seed) > 2,
                   iteration |-> 0, attempts |-> 0, counter |-> 0, turns |-> 0,
                   fired |-> {}, warned |-> 0, before |-> <<>>, sent |-> <<>>]
    BY DEF Talk!Init
<1>2. Headed(seed) /\ Answered(seed) /\ IdsWithin(seed, 0)
    <2> DEFINE head == Talk!Header
               call == [kind |-> "toolCall", step |-> 1, size |-> 0, ids |-> {0}]
               result == [kind |-> "toolResult", step |-> 1, size |-> 1, ids |-> {0}]
               ask == Talk!Plain("user", -1, 1)
               x == <<call, result, ask>>
    <2>1. Headed(head) /\ Answered(head) /\ IdsWithin(head, 0)
        <3>1. Len(head) = 2 /\ head[1].ids = {} /\ head[2].ids = {} /\ Headed(head)
            BY HeaderIs
        <3> HIDE DEF head
        <3>2. \A i \in 1 .. 2 : head[i].ids = {}
            <4>1. \A i \in 1 .. 2 : i = 1 \/ i = 2
                OBVIOUS
            <4> QED BY <3>1, <4>1
        <3> QED BY <3>1, <3>2 DEF Answered, IdsWithin
    <2>2. /\ call \in TalkMessages /\ result \in TalkMessages /\ ask \in TalkMessages
          /\ call.kind = "toolCall" /\ call.ids = {0} /\ call.step = 1
          /\ result.step = 1 /\ result.ids = {0} /\ ask.ids = {}
        BY DEF TalkMessages, Talk!Kinds, Talk!Plain
    <2> HIDE DEF call, result, ask
    <2>3. x \in Seq(TalkMessages) /\ Len(x) = 3 /\ x[1] = call /\ x[2] = result /\ x[3] = ask
        BY <2>2
    <2> HIDE DEF x
    <2>4. \A i \in 1 .. 3 : i = 1 \/ i = 2 \/ i = 3
        OBVIOUS
    <2>5. IdsWithin(x, 0)
        BY <2>2, <2>3, <2>4 DEF IdsWithin
    <2>6. Answered(x)
        <3> SUFFICES ASSUME NEW i \in 1 .. 3, x[i].kind \in {"toolResult", "nudge"},
                            NEW c \in x[i].ids
                     PROVE  \E j \in 1 .. i - 1 : Answers(x, j, i, c)
            BY <2>3 DEF Answered
        <3>1. i = 2 /\ c = 0
            BY <2>2, <2>3, <2>4
        <3>2. \A l \in 1 .. 2 : l = 1 \/ l = 2
            OBVIOUS
        <3>3. Answers(x, 1, i, c)
            BY <2>2, <2>3, <3>1, <3>2 DEF Answers
        <3> QED BY <3>1, <3>3
    <2>7. Headed(head \o x) /\ Answered(head \o x) /\ IdsWithin(head \o x, 0)
        <3> HIDE DEF head
        <3> QED BY <2>1, <2>3, <2>5, <2>6, JoinedAnswered
    <2>8. Talk!Seeds = {head, head \o x}
        BY DEF Talk!Seeds, x, call, result, ask
    <2> HIDE DEF head
    <2> QED BY <2>1, <2>7, <2>8
<1>3. /\ state.messages = seed /\ state.counter = 0 /\ state.strategy = strategy
      /\ state.iteration = 0 /\ state.attempts = 0 /\ state.before = <<>> /\ state.sent = <<>>
      /\ Talking(state)
    BY <1>1 DEF Talking
<1> QED BY <1>2, <1>3 DEF TalkInv

LEMMA TalkInvImplies == ASSUME TalkInv(state) PROVE Talk!CompactionKeeps
<1> DEFINE before == state.before
           sent == state.sent
<1>1. CASE before = <<>> /\ sent = <<>>
    <2>1. Len(sent) = 0 /\ Len(before) = 0 /\ DOMAIN sent = {}
        BY <1>1
    <2>2. Talk!Min({Len(before), Len(sent)}) = 0
        <3>1. {0, 0} = {0}
            OBVIOUS
        <3>2. {0} \in SUBSET Nat
            OBVIOUS
        <3>3. Talk!Min({0}) \in {0}
            BY <3>2, Extremes
        <3> QED BY <2>1, <3>1, <3>3
    <2>3. 0 \in 0 .. 0 /\ 0 .. 0 - 1 = {} /\ 1 .. 0 - 0 = {}
        OBVIOUS
    <2> DEFINE window == Talk!Recent(Talk!Steps(Talk!Rest(before)))
               Earlier(m, n) == {m[i].step : i \in 1 .. Len(m) - n}
    <2>4. Earlier(sent, 0) = {} /\ Earlier(before, 0) = {}
        BY <2>1, <2>3
    <2>5. \E n \in 0 .. Talk!Min({Len(before), Len(sent)}) :
              /\ \A k \in 0 .. n - 1 : sent[Len(sent) - k] = before[Len(before) - k]
              /\ window \cap (Earlier(sent, n) \cup Earlier(before, n)) = {}
        <3> HIDE DEF window, Earlier, before, sent
        <3> QED BY <2>2, <2>3, <2>4
    <2> QED BY <2>1, <2>5 DEF Talk!CompactionKeeps
<1>2. CASE Headed(before) /\ Compacts(before, sent) /\ Answered(sent)
    <2> DEFINE window == Talk!Recent(Talk!Steps(Talk!Rest(before)))
               Earlier(m, n) == {m[i].step : i \in 1 .. Len(m) - n}
    <2>1. Headed(sent) /\ Keeps(before, sent, Window(before)) /\ Answered(sent)
        BY <1>2 DEF Compacts
    <2>2. window = Window(before)
        BY <1>2, RestIs DEF Window
    <2>3. Len(before) \in Nat /\ Len(sent) \in Nat /\ DOMAIN sent = 1 .. Len(sent)
        BY <1>2, <2>1, HeadedType DEF Headed
    <2>4. PICK n \in Nat : /\ n <= Len(before) /\ n <= Len(sent) /\ Same(before, sent, n)
                           /\ Before(before, window, n) /\ Before(sent, window, n)
        BY <2>1, <2>2 DEF Keeps
    <2> HIDE DEF before, sent, window
    <2>5. n \in 0 .. Talk!Min({Len(before), Len(sent)})
        <3>1. {Len(before), Len(sent)} \in SUBSET Nat
            BY <2>3
        <3>2. Talk!Min({Len(before), Len(sent)}) \in {Len(before), Len(sent)}
            BY <3>1, Extremes
        <3> QED BY <2>3, <2>4, <3>2
    <2>6. \A k \in 0 .. n - 1 : sent[Len(sent) - k] = before[Len(before) - k]
        BY <2>4 DEF Same
    <2>7. window \cap (Earlier(sent, n) \cup Earlier(before, n)) = {}
        BY <2>4 DEF Before
    <2>8. \E l \in 0 .. Talk!Min({Len(before), Len(sent)}) :
              /\ \A k \in 0 .. l - 1 : sent[Len(sent) - k] = before[Len(before) - k]
              /\ window \cap (Earlier(sent, l) \cup Earlier(before, l)) = {}
        <3> HIDE DEF Earlier
        <3> QED BY <2>5, <2>6, <2>7
    <2>9. ASSUME NEW i \in DOMAIN sent, sent[i].kind \in {"toolResult", "nudge"},
                 NEW c \in sent[i].ids
          PROVE  c \in UNION {Talk!Calls(j) : j \in 1 .. i - 1}
        <3>1. i \in 1 .. Len(sent)
            BY <2>3
        <3>2. PICK j \in 1 .. i - 1 : Answers(sent, j, i, c)
            BY <2>1, <2>9, <3>1 DEF Answered
        <3>3. c \in Talk!Calls(j)
            BY <3>2 DEF Answers, Talk!Calls, sent
        <3> QED BY <3>2, <3>3
    <2>10. \A i \in DOMAIN sent : sent[i].kind \in {"toolResult", "nudge"} =>
               sent[i].ids \subseteq UNION {Talk!Calls(j) : j \in 1 .. i - 1}
        BY <2>9
    <2> QED BY <2>8, <2>10 DEF Talk!CompactionKeeps, before, sent, window
<1> QED BY <1>1, <1>2 DEF TalkInv

\* What is sent keeps the recent steps, and no result is sent without its call, in
\* every conversation (context/strategies.rs, core/inference.rs).
THEOREM ConversationsKeep == TransportsSpec => []CompactionKeeps
<1> DEFINE Inv == focus = "talk" => TalkInv(state)
<1>1. TransportsInit => Inv
    BY TalkStarts DEF TransportsInit
<1>2. Inv /\ [TransportsStep /\ UNCHANGED focus]_vars => Inv'
    <2> SUFFICES ASSUME Inv, [TransportsStep /\ UNCHANGED focus]_vars, focus' = "talk"
                 PROVE  TalkInv(state')
        OBVIOUS
    <2>1. CASE TransportsStep /\ UNCHANGED focus
        <3>1. focus = "talk" /\ TalkInv(state)
            BY <2>1
        <3>2. Talk!Reject \/ Talk!Accept
            BY <2>1, <3>1 DEF TransportsStep, Talk!Next
        <3> QED BY <3>1, <3>2, RejectKeeps, AcceptKeeps
    <2>2. CASE UNCHANGED vars
        BY <2>2 DEF vars
    <2> QED BY <2>1, <2>2
<1>3. Inv => CompactionKeeps
    BY TalkInvImplies DEF CompactionKeeps
<1> QED BY <1>1, <1>2, <1>3, PTL DEF TransportsSpec

=============================================================================
