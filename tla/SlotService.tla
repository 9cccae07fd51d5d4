----------------------------- MODULE SlotService -----------------------------
(***************************************************************************)
(* What SlotWorker promises its callers, without its locks, its wake-ups   *)
(* and its worker: one task is served at a time; the next one is the task  *)
(* of highest priority that waits, the oldest among equals; a task is      *)
(* cancelled only after it was signalled by the operator or by a           *)
(* submission that outranks it; and each task is settled once.             *)
(***************************************************************************)
EXTENDS Integers

CONSTANTS Tasks, Priority, None

VARIABLES waiting, serving, result, clock, arrivedAt, signals

vars == <<waiting, serving, result, clock, arrivedAt, signals>>

Operator == "operator"

Init ==
    /\ waiting = {}
    /\ serving = None
    /\ result = [t \in Tasks |-> "none"]
    /\ clock = 0
    /\ arrivedAt = [t \in Tasks |-> 0]
    /\ signals = {}

Arrive(t) ==
    /\ arrivedAt[t] = 0
    /\ clock' = clock + 1
    /\ arrivedAt' = [arrivedAt EXCEPT ![t] = clock + 1]
    /\ waiting' = waiting \cup {t}
    /\ UNCHANGED <<serving, result, signals>>

\* t is served before u.
Precedes(t, u) ==
    \/ Priority[t] < Priority[u]
    \/ Priority[t] = Priority[u] /\ arrivedAt[t] < arrivedAt[u]

Begin(t) ==
    /\ serving = None
    /\ t \in waiting
    /\ \A u \in waiting \ {t} : Precedes(t, u)
    /\ serving' = t
    /\ waiting' = waiting \ {t}
    /\ UNCHANGED <<result, clock, arrivedAt, signals>>

\* Only the task in service is signalled, and only for cause.
Signal(who) ==
    /\ serving # None
    /\ who = Operator \/ Priority[who] < Priority[serving]
    /\ signals' = signals \cup {<<who, serving>>}
    /\ UNCHANGED <<waiting, serving, result, clock, arrivedAt>>

Settle(r) ==
    /\ serving # None
    /\ result[serving] = "none"
    /\ r = "cancelled" => \E who \in Tasks \cup {Operator} : <<who, serving>> \in signals
    /\ result' = [result EXCEPT ![serving] = r]
    /\ serving' = None
    /\ UNCHANGED <<waiting, clock, arrivedAt, signals>>

Next ==
    \/ \E t \in Tasks : Arrive(t) \/ Begin(t)
    \/ \E who \in Tasks \cup {Operator} : Signal(who)
    \/ \E r \in {"finished", "cancelled", "skipped"} : Settle(r)

Spec == Init /\ [][Next]_vars

=============================================================================
