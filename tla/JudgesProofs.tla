--------------------------- MODULE JudgesProofs ---------------------------
(***************************************************************************)
(* Proofs about the components that judge a model's calls: the guardrails  *)
(* facade, the tool policy, the contract of a request, the scorers, the    *)
(* review of captures, the filters of outputs and the cap, for every       *)
(* workflow, limit, set of commands, pool, file of captures and output.    *)
(***************************************************************************)
EXTENDS Judges, TLAPS, FiniteSetTheorems, SequenceTheorems, WellFoundedInduction

-----------------------------------------------------------------------------
(* The composition.                                                        *)

\* A behavior never changes its focus, and each step is one of the component in focus.
LEMMA FacadeFocus ==
    ASSUME [JudgesStep /\ UNCHANGED focus]_vars, focus = "facade"
    PROVE  focus' = "facade" /\ (Facade!Next \/ UNCHANGED state)
BY DEF JudgesStep, vars

-----------------------------------------------------------------------------
(* The facade.                                                             *)

\* A non-empty set of natural numbers has a least element.
LEMMA LeastNatural ==
    ASSUME NEW S \in SUBSET Nat, S # {}
    PROVE  \E n \in S : \A m \in S : n <= m
<1>1. PICK n \in S : \A m \in S : ~ (<<m, n>> \in OpToRel(<, Nat))
    BY NatLessThanWellFounded, WFMin, Zenon
<1>2. OpToRel(<, Nat) = {p \in Nat \X Nat : p[1] < p[2]}
    BY Zenon DEF OpToRel
<1>3. ASSUME NEW m \in S PROVE n <= m
    <2>1. <<m, n>> \in Nat \X Nat /\ <<m, n>>[1] = m /\ <<m, n>>[2] = n
        OBVIOUS
    <2>2. ~ (m < n)
        BY <1>1, <1>2, <2>1, Zenon
    <2> QED BY <2>2
<1> QED BY <1>3

FacadeTypes ==
    state \in [scored : BOOLEAN, recorded : SUBSET [tool : Tools, arg : ProgramArgs \cup {NoArg}],
               counts : [retries : Nat, premature : Nat, unprepared : Nat],
               action : {"new", "refused", "fatal", "execute", "recorded"},
               batch : Facade!Batches \cup {<<>>}, refused : Nat, objected : BOOLEAN,
               ran : SUBSET Tools, done : BOOLEAN]

\* What the counters admit of refusals in a row: each step that was skipped may
\* have been preceded by every retry, which a valid response then forgave.
Spent ==
    (state.counts.premature + state.counts.unprepared) * (MaxRetries + 1)
        + state.counts.retries

\* Before a fatal refusal every counter is within its limit, the fatal one passed one of
\* them, and the refusals of a row without objections are covered by the counters.
FacadeCounts ==
    /\ state.action # "fatal" => /\ state.counts.retries <= MaxRetries
                                 /\ state.counts.premature <= MaxPremature
                                 /\ state.counts.unprepared <= Facade!MaxPrereq
    /\ Spent <= Facade!Budget
    /\ state.action \in {"new", "execute", "recorded"} => state.refused = 0 /\ ~state.objected
    /\ ~state.objected => state.refused <= Spent

\* What is recorded are the tools that ran, without arguments.
FacadeRecord ==
    /\ state.recorded = {[tool |-> t, arg |-> NoArg] : t \in state.ran}
    /\ state.done => Required \subseteq state.ran /\ state.ran \cap Terminal # {}

FacadeInv == FacadeTypes /\ FacadeCounts /\ FacadeRecord

\* The limits are numbers.
LEMMA Limits == MaxRetries \in Nat /\ MaxPremature \in Nat
BY FacadeAssumption

\* As many skipped steps as the limits allow stay within the budget.
LEMMA ProductBound ==
    ASSUME NEW n \in Nat, NEW m \in Nat, NEW k \in Nat, n <= m
    PROVE  n * (k + 1) <= m * (k + 1) /\ n * (k + 1) \in Nat /\ m * (k + 1) \in Nat
<1>1. PICK d \in Nat : m = n + d
    <2>1. m - n \in Nat /\ m = n + (m - n)
        OBVIOUS
    <2> QED BY <2>1
<1>2. m * (k + 1) = n * (k + 1) + d * (k + 1)
    BY <1>1
<1>3. d * (k + 1) \in Nat /\ n * (k + 1) \in Nat
    OBVIOUS
<1> QED BY <1>2, <1>3

\* The arithmetic of the account: with s steps skipped and r retries used, both within
\* their limits, one refusal more is covered, by another retry or by another skipped
\* step, and what is covered stays within the budget.
LEMMA Covered ==
    ASSUME NEW retries \in Nat, NEW premature \in Nat, NEW s \in Nat, NEW r \in Nat,
           s <= premature + 2, r <= retries
    PROVE  /\ s * (retries + 1) + r + 1 <= (s + 1) * (retries + 1)
           /\ (s + 1) * (retries + 1) <= (retries + 1) * (premature + 2 + 1)
           /\ s * (retries + 1) + r < (retries + 1) * (premature + 2 + 1)
           /\ s * (retries + 1) \in Nat
           /\ (s + 1) * (retries + 1) \in Nat
<1>1. (s + 1) * (retries + 1) = s * (retries + 1) + retries + 1
    OBVIOUS
<1>2. s + 1 <= premature + 3
    OBVIOUS
<1>3. (s + 1) * (retries + 1) <= (premature + 3) * (retries + 1)
    BY <1>2, ProductBound
<1>4. (premature + 3) * (retries + 1) = (retries + 1) * (premature + 2 + 1)
    OBVIOUS
<1>5. s * (retries + 1) \in Nat
    OBVIOUS
<1> QED BY <1>1, <1>3, <1>4, <1>5

\* The facade starts in the invariant.
LEMMA FacadeStarts == ASSUME Facade!Init PROVE FacadeInv
<1>1. PICK scored \in BOOLEAN :
        state = [scored |-> scored, recorded |-> {}, counts |-> Facade!Fresh, action |-> "new",
                 batch |-> <<>>, refused |-> 0, objected |-> FALSE, ran |-> {}, done |-> FALSE]
    BY DEF Facade!Init
<1>2. FacadeTypes
    BY <1>1 DEF FacadeTypes, Facade!Fresh
<1>3. Spent = 0
    BY <1>1, Limits DEF Spent, Facade!Fresh
<1>4. 0 <= Facade!Budget
    <2>1. 0 * (MaxRetries + 1) + 0 < (MaxRetries + 1) * (MaxPremature + 2 + 1)
        BY Covered, Limits
    <2> QED BY <2>1, Limits DEF Facade!Budget, Facade!MaxPrereq
<1>5. FacadeCounts
    BY <1>1, <1>3, <1>4, Limits DEF FacadeCounts, Facade!Fresh, Facade!MaxPrereq
<1>6. FacadeRecord
    BY <1>1 DEF FacadeRecord
<1> QED BY <1>2, <1>5, <1>6 DEF FacadeInv

\* What the limits say of the counters.
Within(counts) ==
    /\ counts.retries <= MaxRetries
    /\ counts.premature <= MaxPremature
    /\ counts.unprepared <= Facade!MaxPrereq

\* A refusal that raises the retries, or takes them back and raises another counter,
\* keeps the account.
LEMMA RefusalKeepsInv ==
    ASSUME FacadeInv, ~Facade!Over,
           NEW counts \in [retries : Nat, premature : Nat, unprepared : Nat],
           NEW o \in BOOLEAN, NEW a \in {"refused", "fatal"},
           state' = [state EXCEPT !.counts = counts, !.batch = <<>>, !.refused = @ + 1,
                                  !.objected = o, !.action = a],
           state.objected => o,
           a = "fatal" \/ Within(counts),
           \/ /\ counts.retries = state.counts.retries + 1
              /\ counts.premature + counts.unprepared =
                    state.counts.premature + state.counts.unprepared
           \/ /\ o
              /\ counts.retries = 1
              /\ counts.premature + counts.unprepared =
                    state.counts.premature + state.counts.unprepared
           \/ /\ counts.retries = 0
              /\ counts.premature + counts.unprepared =
                    state.counts.premature + state.counts.unprepared + 1
    PROVE  FacadeInv'
<1> DEFINE r == state.counts.retries
           s == state.counts.premature + state.counts.unprepared
           skipped == counts.premature + counts.unprepared
<1>1. /\ r \in Nat /\ s \in Nat /\ skipped \in Nat /\ counts.retries \in Nat
      /\ MaxRetries \in Nat /\ MaxPremature \in Nat
      /\ r <= MaxRetries /\ s <= MaxPremature + 2
    <2>1. /\ r \in Nat /\ state.counts.premature \in Nat /\ state.counts.unprepared \in Nat
        BY DEF FacadeInv, FacadeTypes
    <2>2. /\ r <= MaxRetries /\ state.counts.premature <= MaxPremature
          /\ state.counts.unprepared <= 2
        BY DEF FacadeInv, FacadeCounts, Facade!Over, Facade!MaxPrereq
    <2> QED BY <2>1, <2>2, Limits
<1>2. state' = [scored |-> state.scored, recorded |-> state.recorded, counts |-> counts,
                action |-> a, batch |-> <<>>, refused |-> state.refused + 1,
                objected |-> o, ran |-> state.ran, done |-> state.done]
    BY DEF FacadeInv, FacadeTypes
<1>3. FacadeTypes'
    BY <1>2 DEF FacadeInv, FacadeTypes
<1>4. FacadeRecord'
    BY <1>2 DEF FacadeInv, FacadeRecord
<1>5. /\ Spent = s * (MaxRetries + 1) + r
      /\ Spent' = skipped * (MaxRetries + 1) + counts.retries
      /\ Facade!Budget = (MaxRetries + 1) * (MaxPremature + 2 + 1)
    BY <1>2 DEF Spent, Facade!Budget, Facade!MaxPrereq
<1>6. /\ s * (MaxRetries + 1) + r + 1 <= (s + 1) * (MaxRetries + 1)
      /\ (s + 1) * (MaxRetries + 1) <= Facade!Budget
      /\ s * (MaxRetries + 1) \in Nat /\ (s + 1) * (MaxRetries + 1) \in Nat
    BY <1>1, <1>5, Covered
<1>7. Spent' <= Facade!Budget /\ (~o => state.refused + 1 <= Spent')
    <2>1. ~o => state.refused <= Spent
        BY DEF FacadeInv, FacadeCounts
    <2>2. state.refused \in Nat
        BY DEF FacadeInv, FacadeTypes
    <2> DEFINE base == s * (MaxRetries + 1)
               next == (s + 1) * (MaxRetries + 1)
    <2>3. CASE counts.retries = r + 1 /\ skipped = s
        <3>1. Spent' = base + r + 1
            BY <2>3, <1>1, <1>5, <1>6
        <3> HIDE DEF base, next
        <3> QED BY <3>1, <2>1, <2>2, <1>1, <1>5, <1>6 DEF base, next
    <2>4. CASE o /\ counts.retries = 1 /\ skipped = s
        <3>1. Spent' = base + 1
            BY <2>4, <1>1, <1>5, <1>6
        <3>2. base + 1 <= Facade!Budget
            BY <1>1, <1>5, <1>6, Limits DEF Facade!Budget
        <3> QED BY <3>1, <3>2, <2>4
    <2>5. CASE counts.retries = 0 /\ skipped = s + 1
        <3>1. Spent' = next
            BY <2>5, <1>1, <1>5, <1>6
        <3> QED BY <3>1, <2>1, <2>2, <1>1, <1>5, <1>6
    <2> QED BY <2>3, <2>4, <2>5
<1>8. FacadeCounts'
    <2>1. /\ state'.action = a /\ state'.counts = counts /\ state'.objected = o
          /\ state'.refused = state.refused + 1
        BY <1>2
    <2> QED BY <1>7, <2>1 DEF FacadeCounts, Within, Facade!Budget, Facade!MaxPrereq
<1> QED BY <1>3, <1>4, <1>8 DEF FacadeInv

\* Approving a batch takes back the retries and ends the row of refusals.
LEMMA ApprovalKeepsInv ==
    ASSUME FacadeInv, NEW batch \in Facade!Batches, ~Facade!Over,
           Facade!CheckApproved(batch)
    PROVE  FacadeInv'
<1>1. state' = [scored |-> state.scored, recorded |-> state.recorded,
                counts |-> [state.counts EXCEPT !.retries = 0],
                action |-> "execute", batch |-> batch, refused |-> 0,
                objected |-> FALSE, ran |-> state.ran, done |-> state.done]
    BY DEF FacadeInv, FacadeTypes, Facade!CheckApproved, Facade!Valid
<1>2. /\ state'.counts.retries = 0
      /\ state'.counts.premature = state.counts.premature
      /\ state'.counts.unprepared = state.counts.unprepared
      /\ state.counts.premature \in Nat /\ state.counts.unprepared \in Nat
      /\ state.counts.retries \in Nat
    BY <1>1 DEF FacadeInv, FacadeTypes
<1>3. FacadeTypes'
    BY <1>1 DEF FacadeInv, FacadeTypes
<1>4. FacadeRecord'
    BY <1>1 DEF FacadeInv, FacadeRecord
<1>5. /\ state.counts.premature <= MaxPremature
      /\ state.counts.unprepared <= Facade!MaxPrereq
      /\ Spent <= Facade!Budget
    BY DEF FacadeInv, FacadeCounts, Facade!Over
<1>6. 0 <= Spent' /\ Spent' <= Facade!Budget
    <2> DEFINE s == state.counts.premature + state.counts.unprepared
    <2>1. s * (MaxRetries + 1) \in Nat
        BY <1>2, Limits
    <2>2. Spent = s * (MaxRetries + 1) + state.counts.retries
          /\ Spent' = s * (MaxRetries + 1) + 0
        BY <1>2 DEF Spent
    <2>3. Facade!Budget \in Int
        BY Limits DEF Facade!Budget, Facade!MaxPrereq
    <2> HIDE DEF s
    <2> QED BY <2>1, <2>2, <2>3, <1>2, <1>5
<1>7. FacadeCounts'
    <2>1. state'.action = "execute" /\ state'.refused = 0 /\ ~state'.objected
        BY <1>1
    <2> QED BY <2>1, <1>2, <1>5, <1>6, Limits
            DEF FacadeCounts, Facade!Budget, Facade!MaxPrereq
<1> QED BY <1>3, <1>4, <1>7 DEF FacadeInv

\* What is recorded is what ran; the run is done only with the required steps.
LEMMA RecordKeepsInv == ASSUME FacadeInv, Facade!Record PROVE FacadeInv'
<1>1. PICK executed \in SUBSET DOMAIN state.batch :
        LET calls == {state.batch[i] : i \in executed}
            recorded == state.recorded \cup {[tool |-> c.tool, arg |-> NoArg] : c \in calls}
        IN  state' = [state EXCEPT
                !.recorded = recorded, !.counts = Facade!Fresh, !.action = "recorded",
                !.ran = @ \cup {c.tool : c \in calls}, !.batch = <<>>,
                !.done = (\E c \in calls : Facade!IsTerminal(c)) /\ Facade!Satisfied(recorded)]
    BY Zenon DEF Facade!Record
<1> DEFINE calls == {state.batch[i] : i \in executed}
           recorded == state.recorded \cup {[tool |-> c.tool, arg |-> NoArg] : c \in calls}
           ran == state.ran \cup {c.tool : c \in calls}
           done == (\E c \in calls : Facade!IsTerminal(c)) /\ Facade!Satisfied(recorded)
<1>2. calls \subseteq ProgramCalls
    BY DEF FacadeInv, FacadeTypes, Facade!Batches
<1>3. \A c \in calls : c.tool \in Tools
    BY <1>2, FacadeAssumption
<1>4. state.action = "execute"
    BY DEF Facade!Record
<1>5. recorded = {[tool |-> t, arg |-> NoArg] : t \in ran}
    BY DEF FacadeInv, FacadeRecord
<1>6. done => Required \subseteq ran /\ ran \cap Terminal # {}
    <2>1. Facade!Satisfied(recorded) => Required \subseteq ran
        BY <1>5 DEF Facade!Satisfied, Facade!Completed
    <2>2. (\E c \in calls : Facade!IsTerminal(c)) => ran \cap Terminal # {}
        BY DEF Facade!IsTerminal
    <2> QED BY <2>1, <2>2
<1>7. done \in BOOLEAN /\ recorded \subseteq [tool : Tools, arg : ProgramArgs \cup {NoArg}]
      /\ ran \subseteq Tools
    <2>1. done \in BOOLEAN
        OBVIOUS
    <2>2. ran \subseteq Tools
        BY <1>3 DEF FacadeInv, FacadeTypes
    <2> HIDE DEF ran, done
    <2>3. recorded \subseteq [tool : Tools, arg : ProgramArgs \cup {NoArg}]
        BY <2>2, <1>5
    <2> QED BY <2>1, <2>2, <2>3
<1>8. state' = [state EXCEPT !.recorded = recorded, !.counts = Facade!Fresh,
                             !.action = "recorded", !.ran = ran, !.batch = <<>>, !.done = done]
    BY <1>1
<1> HIDE DEF calls, recorded, ran, done
<1>9. state' = [scored |-> state.scored, recorded |-> recorded, counts |-> Facade!Fresh,
                action |-> "recorded", batch |-> <<>>, refused |-> state.refused,
                objected |-> state.objected, ran |-> ran, done |-> done]
    BY <1>8 DEF FacadeInv, FacadeTypes
<1>10. FacadeTypes'
    BY <1>7, <1>9 DEF FacadeInv, FacadeTypes, Facade!Fresh
<1>11. FacadeRecord'
    BY <1>5, <1>6, <1>9 DEF FacadeRecord
<1>12. FacadeCounts'
    <2>1. state'.refused = 0 /\ ~state'.objected /\ state'.action = "recorded"
        BY <1>4, <1>9 DEF FacadeInv, FacadeCounts
    <2>2. state'.counts = Facade!Fresh
        BY <1>9
    <2>3. Spent' = 0
        BY <2>2, Limits DEF Spent, Facade!Fresh
    <2>4. 0 <= Facade!Budget
        <3>1. 0 * (MaxRetries + 1) + 0 < (MaxRetries + 1) * (MaxPremature + 2 + 1)
            BY Covered, Limits
        <3> QED BY <3>1, Limits DEF Facade!Budget, Facade!MaxPrereq
    <2>5. /\ state'.counts.retries <= MaxRetries /\ state'.counts.premature <= MaxPremature
          /\ state'.counts.unprepared <= Facade!MaxPrereq
        BY <2>2, Limits DEF Facade!Fresh, Facade!MaxPrereq
    <2> QED BY <2>1, <2>3, <2>4, <2>5 DEF FacadeCounts
<1> QED BY <1>10, <1>11, <1>12 DEF FacadeInv

\* Each judgement keeps the invariant.
LEMMA CheckKeepsInv == ASSUME FacadeInv, Facade!Check PROVE FacadeInv'
<1> DEFINE retried == [state.counts EXCEPT !.retries = @ + 1]
           objectedTo == [Facade!Valid EXCEPT !.retries = @ + 1]
           early == [Facade!Valid EXCEPT !.premature = @ + 1]
           unready == [Facade!Valid EXCEPT !.unprepared = @ + 1]
           Number == [retries : Nat, premature : Nat, unprepared : Nat]
           r == state.counts.retries
           p == state.counts.premature
           u == state.counts.unprepared
<1>1. state.counts \in Number /\ ~Facade!Over /\ Within(state.counts)
    BY DEF FacadeInv, FacadeTypes, FacadeCounts, Facade!Check, Facade!Over, Within
<1>2. p \in Nat /\ u \in Nat /\ r \in Nat
    BY <1>1
<1>3. /\ retried \in Number /\ objectedTo \in Number /\ early \in Number /\ unready \in Number
      /\ retried.retries = r + 1 /\ retried.premature = p /\ retried.unprepared = u
      /\ objectedTo.retries = 1 /\ objectedTo.premature = p /\ objectedTo.unprepared = u
      /\ early.retries = 0 /\ early.premature = p + 1 /\ early.unprepared = u
      /\ unready.retries = 0 /\ unready.premature = p /\ unready.unprepared = u + 1
    <2>1. retried = [retries |-> r + 1, premature |-> p, unprepared |-> u]
        BY <1>1
    <2>2. Facade!Valid = [retries |-> 0, premature |-> p, unprepared |-> u]
        BY <1>1 DEF Facade!Valid
    <2>3. objectedTo = [retries |-> 1, premature |-> p, unprepared |-> u]
        BY <2>2
    <2>4. early = [retries |-> 0, premature |-> p + 1, unprepared |-> u]
        BY <2>2
    <2>5. unready = [retries |-> 0, premature |-> p, unprepared |-> u + 1]
        BY <2>2
    <2> HIDE DEF retried, objectedTo, early, unready
    <2> QED BY <2>1, <2>3, <2>4, <2>5, <1>2
<1> HIDE DEF retried, objectedTo, early, unready
<1>4. ASSUME Facade!CheckInvalid PROVE FacadeInv'
    <2> DEFINE o == state.objected \/ FALSE
               a == IF retried.retries > MaxRetries THEN "fatal" ELSE "refused"
    <2>1. state' = [state EXCEPT !.counts = retried, !.batch = <<>>, !.refused = @ + 1,
                                 !.objected = o, !.action = a]
        BY <1>4 DEF Facade!CheckInvalid, Facade!Refused, retried
    <2>2. o \in BOOLEAN /\ a \in {"refused", "fatal"} /\ (state.objected => o)
        OBVIOUS
    <2>3. a = "fatal" \/ Within(retried)
        BY <1>1, <1>2, <1>3, Limits DEF Within, Facade!MaxPrereq
    <2> HIDE DEF o, a
    <2> QED BY <2>1, <2>2, <2>3, <1>1, <1>2, <1>3, RefusalKeepsInv, Zenon
<1>5. ASSUME NEW batch \in Facade!Batches, Facade!CheckPremature(batch) PROVE FacadeInv'
    <2> DEFINE o == state.objected \/ FALSE
               a == IF early.premature > MaxPremature THEN "fatal" ELSE "refused"
    <2>1. state' = [state EXCEPT !.counts = early, !.batch = <<>>, !.refused = @ + 1,
                                 !.objected = o, !.action = a]
        BY <1>5 DEF Facade!CheckPremature, Facade!Refused, early
    <2>2. o \in BOOLEAN /\ a \in {"refused", "fatal"} /\ (state.objected => o)
        OBVIOUS
    <2>3. a = "fatal" \/ Within(early)
        BY <1>1, <1>2, <1>3, Limits DEF Within, Facade!MaxPrereq
    <2>4. early.premature + early.unprepared
            = state.counts.premature + state.counts.unprepared + 1
        BY <1>2, <1>3
    <2> HIDE DEF o, a
    <2> QED BY <2>1, <2>2, <2>3, <2>4, <1>1, <1>2, <1>3, RefusalKeepsInv, Zenon
<1>6. ASSUME NEW batch \in Facade!Batches, Facade!CheckPrerequisites(batch) PROVE FacadeInv'
    <2> DEFINE o == state.objected \/ FALSE
               a == IF unready.unprepared > Facade!MaxPrereq THEN "fatal" ELSE "refused"
    <2>1. state' = [state EXCEPT !.counts = unready, !.batch = <<>>, !.refused = @ + 1,
                                 !.objected = o, !.action = a]
        BY <1>6 DEF Facade!CheckPrerequisites, Facade!Refused, unready
    <2>2. o \in BOOLEAN /\ a \in {"refused", "fatal"} /\ (state.objected => o)
        OBVIOUS
    <2>3. a = "fatal" \/ Within(unready)
        BY <1>1, <1>2, <1>3, Limits DEF Within, Facade!MaxPrereq
    <2>4. unready.premature + unready.unprepared
            = state.counts.premature + state.counts.unprepared + 1
        BY <1>2, <1>3
    <2> HIDE DEF o, a
    <2> QED BY <2>1, <2>2, <2>3, <2>4, <1>1, <1>2, <1>3, RefusalKeepsInv, Zenon
<1>7. ASSUME NEW batch \in Facade!Batches, Facade!CheckObjected(batch) PROVE FacadeInv'
    <2> DEFINE o == state.objected \/ TRUE
               a == IF objectedTo.retries > MaxRetries THEN "fatal" ELSE "refused"
    <2>1. state' = [state EXCEPT !.counts = objectedTo, !.batch = <<>>, !.refused = @ + 1,
                                 !.objected = o, !.action = a]
        BY <1>7 DEF Facade!CheckObjected, Facade!Refused, objectedTo
    <2>2. o \in BOOLEAN /\ a \in {"refused", "fatal"} /\ o
        OBVIOUS
    <2>3. a = "fatal" \/ Within(objectedTo)
        BY <1>1, <1>2, <1>3, Limits DEF Within, Facade!MaxPrereq
    <2> HIDE DEF o, a
    <2> QED BY <2>1, <2>2, <2>3, <1>1, <1>2, <1>3, RefusalKeepsInv, Zenon
<1>8. ASSUME NEW batch \in Facade!Batches, Facade!CheckApproved(batch) PROVE FacadeInv'
    BY <1>1, <1>8, ApprovalKeepsInv
<1> QED BY <1>4, <1>5, <1>6, <1>7, <1>8 DEF Facade!Check

\* As long as the run is not over some call moves it on: the first one of a plan that
\* leads to the end whose tool has not run yet.
LEMMA SomethingIsLeft ==
    ASSUME FacadeInv
    PROVE  \E c \in ProgramCalls : /\ Facade!Cleared(<<c>>)
                                   /\ Facade!IsTerminal(c) \/ c.tool \notin state.ran
<1>0. PICK n \in 1 .. Cardinality(Tools) : \E plan \in [1 .. n -> ProgramCalls] : Leads(plan)
    BY FacadeAssumption
<1>1. PICK plan \in [1 .. n -> ProgramCalls] : Leads(plan)
    BY <1>0
<1>2. Cardinality(Tools) \in Nat
    BY FacadeAssumption, FS_CardinalityType
<1>3. n \in Nat /\ n >= 1 /\ DOMAIN plan = 1 .. n /\ Len(plan) = n
    BY <1>1, <1>2
<1> DEFINE left == {i \in 1 .. n : i = n \/ plan[i].tool \notin state.ran}
<1>4. PICK i \in left : \A j \in left : i <= j
    <2>1. n \in left /\ left \subseteq Nat
        BY <1>3
    <2> QED BY <2>1, LeastNatural
<1>5. i \in 1 .. n /\ plan[i] \in ProgramCalls
    BY <1>1, <1>4
<1>6. \A j \in 1 .. i - 1 : plan[j].tool \in state.ran
    <2> SUFFICES ASSUME NEW j \in 1 .. i - 1, plan[j].tool \notin state.ran PROVE FALSE
        OBVIOUS
    <2>1. j \in left /\ j < i
        BY <1>3, <1>5
    <2> QED BY <2>1, <1>3, <1>4, <1>5
<1>7. state.recorded = {[tool |-> t, arg |-> NoArg] : t \in state.ran}
    BY DEF FacadeInv, FacadeRecord
<1>8. Facade!PrerequisitesMet(plan[i], state.recorded)
    <2> DEFINE before == {[tool |-> plan[j].tool, arg |-> NoArg] : j \in 1 .. i - 1}
    <2>1. before \subseteq state.recorded
        BY <1>6, <1>7
    <2> SUFFICES ASSUME NEW p \in Prerequisites[plan[i].tool]
                 PROVE  Facade!Met(p, plan[i], state.recorded)
        BY DEF Facade!PrerequisitesMet
    <2>2. IF p.matched THEN [tool |-> p.tool, arg |-> plan[i].arg] \in before
                       ELSE \E j \in 1 .. i - 1 : plan[j].tool = p.tool
        BY <1>1, <1>3, <1>5 DEF Leads
    <2>3. CASE p.matched
        BY <2>1, <2>2, <2>3 DEF Facade!Met
    <2>4. CASE ~p.matched
        <3>1. PICK j \in 1 .. i - 1 : plan[j].tool = p.tool
            BY <2>2, <2>4
        <3>2. [tool |-> p.tool, arg |-> NoArg] \in state.recorded
            BY <3>1, <1>6, <1>7
        <3> QED BY <3>2, <2>4 DEF Facade!Met, Facade!Completed
    <2> QED BY <2>3, <2>4
<1>9. ~Facade!Unprepared(<<plan[i]>>, state.recorded)
    BY <1>8 DEF Facade!Unprepared
<1>10. plan[i].tool \in Terminal <=> i = n
    BY <1>1, <1>3, <1>5 DEF Leads
<1>11. CASE i # n
    <2>1. plan[i].tool \notin state.ran
        BY <1>4, <1>11
    <2>2. ~Facade!Premature(<<plan[i]>>, state.recorded)
        BY <1>10, <1>11 DEF Facade!Premature, Facade!HasTerminal, Facade!IsTerminal
    <2> QED BY <2>1, <2>2, <1>5, <1>9 DEF Facade!Cleared
<1>12. CASE i = n
    <2>1. ASSUME NEW t \in Required PROVE t \in state.ran
        <3>1. PICK j \in 1 .. n : plan[j].tool = t
            BY <1>1, <1>3 DEF Leads
        <3>2. plan[n].tool \in Terminal
            BY <1>10, <1>12
        <3>3. Required \cap Terminal = {}
            BY FacadeAssumption
        <3>4. j # n
            BY <3>1, <3>2, <3>3
        <3> QED BY <3>1, <3>4, <1>3, <1>6, <1>12
    <2>2. ASSUME NEW t \in Required PROVE t \in Facade!Completed(state.recorded)
        <3>1. [tool |-> t, arg |-> NoArg] \in state.recorded
            BY <2>1, <1>7
        <3>2. t = [tool |-> t, arg |-> NoArg].tool
            OBVIOUS
        <3> QED BY <3>1, <3>2, Zenon DEF Facade!Completed
    <2>5. Facade!Satisfied(state.recorded)
        BY <2>2 DEF Facade!Satisfied
    <2>3. ~Facade!Premature(<<plan[i]>>, state.recorded)
        BY <2>5 DEF Facade!Premature
    <2>4. Facade!IsTerminal(plan[i])
        BY <1>10, <1>12 DEF Facade!IsTerminal
    <2> QED BY <2>3, <2>4, <1>5, <1>9 DEF Facade!Cleared
<1> QED BY <1>11, <1>12

\* The property follows: a row of refusals without objections is no longer than the
\* budget, the last one in it is fatal, something can always be done, and a run that is
\* done has done what it had to.
LEMMA FacadeInvSuffices == ASSUME FacadeInv PROVE Facade!GuardrailsHold
<1>1. ASSUME ~state.objected
      PROVE  /\ state.refused <= Facade!Budget
             /\ state.refused = Facade!Budget => state.action = "fatal"
    <2> DEFINE r == state.counts.retries
               s == state.counts.premature + state.counts.unprepared
    <2>1. /\ r \in Nat /\ s \in Nat /\ state.refused \in Nat
          /\ state.counts.premature \in Nat /\ state.counts.unprepared \in Nat
        BY DEF FacadeInv, FacadeTypes
    <2>2. /\ state.refused <= s * (MaxRetries + 1) + r
          /\ s * (MaxRetries + 1) + r <= Facade!Budget
        BY <1>1 DEF FacadeInv, FacadeCounts, Spent
    <2>3. s * (MaxRetries + 1) \in Nat /\ Facade!Budget \in Int
        BY <2>1, Limits DEF Facade!Budget, Facade!MaxPrereq
    <2>4. ASSUME state.action # "fatal" PROVE state.refused < Facade!Budget
        <3>1. r <= MaxRetries /\ s <= MaxPremature + 2
            BY <2>1, <2>4, Limits DEF FacadeInv, FacadeCounts, Facade!MaxPrereq
        <3>2. s * (MaxRetries + 1) + r < (MaxRetries + 1) * (MaxPremature + 2 + 1)
            BY <2>1, <3>1, Limits, Covered
        <3>3. Facade!Budget = (MaxRetries + 1) * (MaxPremature + 2 + 1)
            BY DEF Facade!Budget, Facade!MaxPrereq
        <3> HIDE DEF s, r
        <3> QED BY <2>1, <2>2, <2>3, <3>2, <3>3
    <2> HIDE DEF s, r
    <2> QED BY <2>1, <2>2, <2>3, <2>4
<1>2. state.done => Required \subseteq state.ran /\ state.ran \cap Terminal # {}
    BY DEF FacadeInv, FacadeRecord
<1> QED BY <1>1, <1>2, SomethingIsLeft DEF Facade!GuardrailsHold

\* The refusals of the facade come to an end whatever the model answers, a run that is
\* not over can go on, and it is done only with what it had to do
\* (src/guardrails/guardrails.rs), for every workflow that can be completed at all.
THEOREM RefusalsEnd == JudgesSpec => []GuardrailsHold
<1> DEFINE Inv == focus = "facade" => FacadeInv
<1>1. JudgesInit => Inv
    <2> SUFFICES ASSUME JudgesInit, focus = "facade" PROVE FacadeInv
        OBVIOUS
    <2>1. Facade!Init
        BY DEF JudgesInit
    <2> QED BY <2>1, FacadeStarts
<1>2. Inv /\ [JudgesStep /\ UNCHANGED focus]_vars => Inv'
    <2> SUFFICES ASSUME Inv, [JudgesStep /\ UNCHANGED focus]_vars, focus' = "facade"
                 PROVE  FacadeInv'
        OBVIOUS
    <2>1. focus = "facade"
        BY DEF vars
    <2>2. CASE UNCHANGED state
        BY <2>1, <2>2 DEF FacadeInv, FacadeTypes, FacadeCounts, FacadeRecord, Spent
    <2>3. CASE Facade!Next
        BY <2>1, <2>3, CheckKeepsInv, RecordKeepsInv DEF Facade!Next
    <2> QED BY <2>1, <2>2, <2>3, FacadeFocus
<1>3. Inv => GuardrailsHold
    BY FacadeInvSuffices DEF GuardrailsHold
<1> QED BY <1>1, <1>2, <1>3, PTL DEF JudgesSpec

-----------------------------------------------------------------------------
(* The tool policy.                                                        *)

PolicyShape ==
    state = [settings |-> state.settings, lspTools |-> state.lspTools,
             fingerprints |-> state.fingerprints, batches |-> state.batches,
             last |-> state.last, objection |-> state.objection, told |-> state.told]

PolicyInv == PolicyShape /\ Policy!ToldBeforePassed

\* An objection names its rule; a batch passes if no command in it is new.
LEMMA EvaluateKeepsInv ==
    ASSUME PolicyInv, NEW batch, Policy!Evaluate(batch)
    PROVE  PolicyInv'
<1>1. ASSUME NEW o, NEW told, NEW fingerprints, Policy!Told(batch, o, told, fingerprints)
      PROVE  state' = [settings |-> state.settings, lspTools |-> state.lspTools,
                       fingerprints |-> state.fingerprints \cup fingerprints,
                       batches |-> state.batches + 1, last |-> batch, objection |-> o,
                       told |-> state.told \cup told]
    BY <1>1 DEF PolicyInv, PolicyShape, Policy!Told
<1>2. state.fingerprints = state.told
    BY DEF PolicyInv, Policy!ToldBeforePassed
<1>3. CASE Policy!ObjectSearch(batch)
    BY <1>1, <1>2, <1>3 DEF Policy!ObjectSearch, PolicyInv, PolicyShape, Policy!ToldBeforePassed
<1>4. CASE Policy!ObjectWrite(batch)
    BY <1>1, <1>2, <1>4 DEF Policy!ObjectWrite, PolicyInv, PolicyShape, Policy!ToldBeforePassed
<1>5. CASE Policy!ObjectCommand(batch)
    <2> DEFINE command == batch[Policy!Min(Policy!NewCommands(batch))]
    <2>1. Policy!Told(batch, "quiet_command", {command}, {command})
        BY <1>5 DEF Policy!ObjectCommand
    <2> HIDE DEF command
    <2> QED BY <2>1, <1>1, <1>2 DEF PolicyInv, PolicyShape, Policy!ToldBeforePassed
<1>6. CASE Policy!Pass(batch)
    <2>1. state' = [settings |-> state.settings, lspTools |-> state.lspTools,
                    fingerprints |-> state.fingerprints \cup {}, batches |-> state.batches + 1,
                    last |-> batch, objection |-> "none", told |-> state.told \cup {}]
        BY <1>1, <1>6 DEF Policy!Pass
    <2>2. ASSUME state.settings.quiet_commands
          PROVE  Policy!Range(batch) \cap Commands \subseteq state.told
        <3>1. \A i \in DOMAIN batch : batch[i] \notin Commands \ state.told
            BY <1>2, <1>6, <2>2 DEF Policy!Pass, Policy!NewCommands
        <3> QED BY <3>1 DEF Policy!Range
    <2> QED BY <2>1, <2>2, <1>2 DEF PolicyInv, PolicyShape, Policy!ToldBeforePassed
<1> QED BY <1>3, <1>4, <1>5, <1>6 DEF Policy!Evaluate

\* A noisy command passes only after the model was told of it, and nothing is held back
\* for a command it was told of (src/tool_policy.rs), for every set of commands, every
\* setting and batches of every length.
THEOREM CommandsAreTold == JudgesSpec => []ToldBeforePassed
<1> DEFINE Inv == focus = "policy" => PolicyInv
<1>1. JudgesInit => Inv
    <2> SUFFICES ASSUME JudgesInit, focus = "policy" PROVE PolicyInv
        OBVIOUS
    <2>1. Policy!Init
        BY DEF JudgesInit
    <2>2. PICK settings \in Policy!Settings, lspTools \in BOOLEAN :
              state = [settings |-> settings, lspTools |-> lspTools, fingerprints |-> {},
                       batches |-> 0, last |-> <<>>, objection |-> "none", told |-> {}]
        BY <2>1 DEF Policy!Init
    <2>3. Policy!Range(<<>>) = {}
        BY DEF Policy!Range
    <2> QED BY <2>2, <2>3 DEF PolicyInv, PolicyShape, Policy!ToldBeforePassed
<1>2. Inv /\ [JudgesStep /\ UNCHANGED focus]_vars => Inv'
    <2> SUFFICES ASSUME Inv, [JudgesStep /\ UNCHANGED focus]_vars, focus' = "policy"
                 PROVE  PolicyInv'
        OBVIOUS
    <2>1. focus = "policy"
        BY DEF vars
    <2>2. CASE UNCHANGED state
        BY <2>1, <2>2 DEF PolicyInv, PolicyShape, Policy!ToldBeforePassed
    <2>3. CASE Policy!Next
        BY <2>1, <2>3, EvaluateKeepsInv DEF Policy!Next
    <2> QED BY <2>1, <2>2, <2>3 DEF JudgesStep, vars
<1>3. Inv => ToldBeforePassed
    BY DEF PolicyInv, ToldBeforePassed
<1> QED BY <1>1, <1>2, <1>3, PTL DEF JudgesSpec

-----------------------------------------------------------------------------
(* The contract of a request.                                              *)

ContractInv ==
    \E form \in Contract!Forms :
        \/ state = [form |-> form, outcome |-> [verdict |-> "new"]]
        \/ state = [form |-> form, outcome |-> Contract!Outcome(form)]

\* The modules the contract uses count as this one does.
LEMMA SameCardinality == \A S : Contract!Cardinality(S) = Cardinality(S)
BY DEF Contract!Cardinality, Cardinality

\* A list of distinct names is one of the orders of the set of its names.
LEMMA OrderOfNames ==
    ASSUME NEW names, NEW n \in Nat, NEW list \in [1 .. n -> names],
           \A i, j \in 1 .. n : list[i] = list[j] => i = j
    PROVE  list \in Contract!SetToSeqs(Contract!ToSet(list))
<1> DEFINE image == Contract!ToSet(list)
<1>1. image = {list[i] : i \in 1 .. n}
    BY DEF Contract!ToSet
<1>2. list \in [1 .. n -> image]
    BY <1>1
<1>3. list \in Bijection(1 .. n, image)
    BY <1>1, <1>2 DEF Bijection, Injection, Surjection, IsInjective
<1>4. IsFiniteSet(1 .. n) /\ Cardinality(1 .. n) = n
    BY FS_Interval
<1>5. Cardinality(image) = n
    BY <1>3, <1>4, FS_Bijection DEF ExistsBijection
<1> HIDE DEF image
<1>6. list \in [1 .. Cardinality(image) -> image]
    BY <1>2, <1>5
<1>7. \A i, j \in 1 .. Cardinality(image) : i # j => list[i] # list[j]
    BY <1>5
<1>8. list \in Contract!SetToSeqs(image)
    BY <1>6, <1>7, SameCardinality DEF Contract!SetToSeqs
<1> QED BY <1>8 DEF image

\* A declared contract that the handler accepts can be completed: its required steps in
\* the order it names them, and then any of its terminal tools.
LEMMA AcceptedCompletes ==
    ASSUME NEW form \in Contract!Forms, Contract!Declared(form),
           Contract!ContractValid(form), Contract!ChoiceAllowed(form)
    PROVE  LET required == Contract!RequiredSteps(form)
               terminal == Contract!ToSet(Contract!Normalized(form))
           IN  /\ required \in Contract!SetToSeqs(Contract!ToSet(required))
               /\ form.choice = "forced" => required = <<>>
               /\ \A i \in DOMAIN required : required[i] \notin terminal
               /\ \E last \in Contract!Offered(form) :
                     /\ last \in terminal
                     /\ Contract!ToSet(required) \cup {last} \subseteq Contract!Offered(form)
<1> DEFINE required == Contract!RequiredSteps(form)
           terminal == Contract!ToSet(Contract!Normalized(form))
<1>1. /\ Contract!IsInjective(required) /\ Contract!ToSet(required) \subseteq Contract!Offered(form)
      /\ terminal # {} /\ terminal \subseteq Contract!Offered(form)
      /\ Contract!ToSet(required) \cap terminal = {}
    BY DEF Contract!ContractValid
<1>2. PICK n \in Nat : required \in [1 .. n -> Contract!Names]
    <2>1. form.required \in Contract!Lists(Contract!Names) \cup {<<Contract!Absent>>}
        BY DEF Contract!Forms
    <2>2. CASE form.required = <<Contract!Absent>>
        <3>1. required = <<>> /\ <<>> \in [1 .. 0 -> Contract!Names]
            BY <2>2 DEF Contract!RequiredSteps
        <3> QED BY <3>1
    <2>3. CASE form.required # <<Contract!Absent>>
        <3>1. required \in Contract!Lists(Contract!Names)
            BY <2>1, <2>3 DEF Contract!RequiredSteps
        <3>2. PICK n \in 0 .. MaxNames : required \in [1 .. n -> Contract!Names]
            BY <3>1 DEF Contract!Lists
        <3>3. n \in Nat
            OBVIOUS
        <3> QED BY <3>2, <3>3
    <2> QED BY <2>2, <2>3
<1> HIDE DEF required, terminal
<1>3. \A i, j \in 1 .. n : required[i] = required[j] => i = j
    BY <1>1, <1>2 DEF Contract!IsInjective
<1>4. required \in Contract!SetToSeqs(Contract!ToSet(required))
    BY <1>2, <1>3, OrderOfNames
<1>5. \A i \in DOMAIN required : required[i] \in Contract!ToSet(required)
    BY DEF Contract!ToSet
<1>6. form.choice = "forced" => required = <<>>
    BY DEF Contract!ChoiceAllowed, required
<1> QED BY <1>1, <1>4, <1>5, <1>6 DEF required, terminal

\* What is sent of any form holds no extension, and guarded no response format.
LEMMA NothingLeaks ==
    ASSUME NEW form, NEW guarded \in BOOLEAN
    PROVE  LET sent == Contract!Passthrough(form, guarded) \cup Contract!RawBody(form, guarded)
           IN  "_forge" \notin sent /\ (guarded => "response_format" \notin sent)
BY DEF Contract!Passthrough, Contract!RawBody

\* The outcome of every form is sound.
LEMMA OutcomeHolds ==
    ASSUME NEW form \in Contract!Forms,
           state = [form |-> form, outcome |-> Contract!Outcome(form)]
    PROVE  Contract!Completable /\ Contract!ForgeStaysHome
<1>1. CASE state.outcome = [verdict |-> "refused"]
    BY <1>1 DEF Contract!Completable, Contract!ForgeStaysHome, Contract!Guarded
<1>2. CASE state.outcome =
             [verdict |-> "passed",
              sent |-> Contract!Passthrough(form, FALSE) \cup Contract!RawBody(form, FALSE)]
    <2> DEFINE sent == Contract!Passthrough(form, FALSE) \cup Contract!RawBody(form, FALSE)
    <2>1. state.outcome = [verdict |-> "passed", sent |-> sent]
        BY <1>2, Zenon
    <2>2. "_forge" \notin sent
        BY NothingLeaks
    <2> HIDE DEF sent
    <2>3. state.outcome.verdict = "passed" /\ "_forge" \notin state.outcome.sent
        BY <2>1, <2>2
    <2> QED BY <2>3 DEF Contract!Completable, Contract!ForgeStaysHome, Contract!Guarded
<1>3. CASE /\ Contract!ToolsParse(form) /\ Contract!ContractValid(form)
           /\ Contract!ChoiceAllowed(form)
           /\ state.outcome =
                [verdict |-> "guarded",
                 sent |-> Contract!Passthrough(form, TRUE) \cup Contract!RawBody(form, TRUE),
                 tools |-> Contract!Offered(form),
                 required |-> Contract!ToSet(Contract!RequiredSteps(form)),
                 terminal |-> IF Contract!Declared(form)
                              THEN Contract!ToSet(Contract!Normalized(form)) ELSE {}]
    <2>1. Contract!ForgeStaysHome
        <3> DEFINE sent == Contract!Passthrough(form, TRUE) \cup Contract!RawBody(form, TRUE)
        <3>1. "_forge" \notin sent /\ "response_format" \notin sent
            BY NothingLeaks
        <3> DEFINE tools == Contract!Offered(form)
                   required == Contract!ToSet(Contract!RequiredSteps(form))
                   terminal == IF Contract!Declared(form)
                               THEN Contract!ToSet(Contract!Normalized(form)) ELSE {}
        <3>2. state.outcome = [verdict |-> "guarded", sent |-> sent, tools |-> tools,
                               required |-> required, terminal |-> terminal]
            BY <1>3, Zenon
        <3> HIDE DEF sent, tools, required, terminal
        <3>3. state.outcome.sent = sent
            BY <3>2
        <3> QED BY <3>1, <3>3 DEF Contract!ForgeStaysHome
    <2>2. ASSUME Contract!Declared(form) PROVE Contract!Completable
        <3> DEFINE sent == Contract!Passthrough(form, TRUE) \cup Contract!RawBody(form, TRUE)
                   tools == Contract!Offered(form)
                   required == Contract!ToSet(Contract!RequiredSteps(form))
                   terminal == Contract!ToSet(Contract!Normalized(form))
        <3>2. state.outcome = [verdict |-> "guarded", sent |-> sent, tools |-> tools,
                               required |-> required, terminal |-> terminal]
            BY <1>3, <2>2
        <3> HIDE DEF sent, tools, required, terminal
        <3>3. /\ state.form = form /\ state.outcome.tools = tools
              /\ state.outcome.required = required /\ state.outcome.terminal = terminal
            BY <3>2
        <3>1. /\ state.form = form /\ state.outcome.tools = Contract!Offered(form)
              /\ state.outcome.required = Contract!ToSet(Contract!RequiredSteps(form))
              /\ state.outcome.terminal = Contract!ToSet(Contract!Normalized(form))
            BY <3>3 DEF tools, required, terminal
        <3> QED BY <3>1, <1>3, <2>2, AcceptedCompletes DEF Contract!Completable
    <2>3. ~Contract!Declared(form) => Contract!Completable
        BY DEF Contract!Completable
    <2> QED BY <2>1, <2>2, <2>3
<1> QED BY <1>1, <1>2, <1>3 DEF Contract!Outcome

\* A contract the proxy accepts can be completed with the tools it offers, whatever tool
\* choice comes with it, and the extension never reaches upstream
\* (src/proxy/handler/request_contract.rs), for tools and lists of every number.
THEOREM ContractsAreSound == JudgesSpec => []ContractsHold
<1> DEFINE Inv == focus = "contract" => ContractInv
<1>1. JudgesInit => Inv
    <2> SUFFICES ASSUME JudgesInit, focus = "contract" PROVE ContractInv
        OBVIOUS
    <2>1. Contract!Init
        BY DEF JudgesInit
    <2> QED BY <2>1 DEF Contract!Init, ContractInv
<1>2. Inv /\ [JudgesStep /\ UNCHANGED focus]_vars => Inv'
    <2> SUFFICES ASSUME Inv, [JudgesStep /\ UNCHANGED focus]_vars, focus' = "contract"
                 PROVE  ContractInv'
        OBVIOUS
    <2>1. focus = "contract"
        BY DEF vars
    <2>2. PICK form \in Contract!Forms :
              \/ state = [form |-> form, outcome |-> [verdict |-> "new"]]
              \/ state = [form |-> form, outcome |-> Contract!Outcome(form)]
        BY <2>1 DEF ContractInv
    <2>3. CASE UNCHANGED state
        BY <2>2, <2>3 DEF ContractInv
    <2>4. CASE Contract!Next
        <3>1. state' = [state EXCEPT !.outcome = Contract!Outcome(state.form)]
            BY <2>4 DEF Contract!Next, Contract!Decide
        <3>2. state' = [form |-> form, outcome |-> Contract!Outcome(form)]
            BY <2>2, <3>1
        <3> QED BY <3>2 DEF ContractInv
    <2> QED BY <2>1, <2>3, <2>4 DEF JudgesStep, vars
<1>3. Inv => ContractsHold
    <2> SUFFICES ASSUME ContractInv PROVE Contract!Completable /\ Contract!ForgeStaysHome
        BY DEF ContractsHold
    <2>1. PICK form \in Contract!Forms :
              \/ state = [form |-> form, outcome |-> [verdict |-> "new"]]
              \/ state = [form |-> form, outcome |-> Contract!Outcome(form)]
        BY DEF ContractInv
    <2>2. CASE state.outcome = [verdict |-> "new"]
        BY <2>2 DEF Contract!Completable, Contract!ForgeStaysHome, Contract!Guarded
    <2> QED BY <2>1, <2>2, OutcomeHolds
<1> QED BY <1>1, <1>2, <1>3, PTL DEF JudgesSpec

-----------------------------------------------------------------------------
(* The scorers.                                                            *)

Actions == {"allow", "shadow", "nudge", "block"}

CallerStates ==
    [phase : {"idle", "waiting", "scoring", "done", "dropped"}, batch : Scores!Batches \cup {<<>>},
     at : Nat, heard : Seq(Actions), nudge : Nat]

ScoringTasks ==
    [caller : Callers, text : Scores!Texts, phase : {"begun", "queued", "running"},
     session : 0 .. Sessions]

ScoresTypes ==
    state \in [callers : [Callers -> CallerStates], tasks : SUBSET ScoringTasks,
               sessions : [1 .. Sessions -> Callers \cup {Scores!Free}],
               cache : Seq(Scores!Texts), next : 0 .. Sessions - 1,
               score : [Scores!Texts -> Scores!Scores],
               mode : {"shadow", "advisory", "enforce"}, marked : BOOLEAN]

\* A caller has one task at most, which began while it was there; a task in a session
\* has its mutex.
PoolInv ==
    /\ IsFiniteSet(state.tasks) /\ Cardinality(state.tasks) <= Permits
    /\ \A s, t \in state.tasks : s.caller = t.caller => s = t
    /\ \A t \in state.tasks : /\ state.callers[t.caller].phase \in {"scoring", "dropped"}
                              /\ t.phase # "begun" => t.session \in 1 .. Sessions
                              /\ t.phase = "running" => state.sessions[t.session] = t.caller

CacheInv == Scores!IsInjective(state.cache) /\ Len(state.cache) <= Capacity

Asked(heard, action) == {i \in 1 .. Len(heard) : heard[i] = action}

\* The nudge is for the last block, else for the first advice.
NudgeRight(caller) ==
    LET blocks == Asked(caller.heard, "block")
        advices == Asked(caller.heard, "nudge")
    IN  /\ blocks # {} => caller.nudge \in blocks /\ \A i \in blocks : i <= caller.nudge
        /\ blocks = {} /\ advices # {} =>
               caller.nudge \in advices /\ \A i \in advices : caller.nudge <= i
        /\ blocks = {} /\ advices = {} => caller.nudge = 0

\* A caller has heard the verdicts before the call it is at.
HeardRight(caller) ==
    /\ caller.at = Len(caller.heard) + 1
    /\ caller.phase \in {"waiting", "scoring"} => caller.at \in 1 .. Len(caller.batch)

VerdictInv == \A c \in Callers : NudgeRight(state.callers[c]) /\ HeardRight(state.callers[c])

ShadowInv ==
    state.marked => state.mode = "shadow" /\ \A c \in Callers : state.callers[c].nudge = 0

ScoresInv == ScoresTypes /\ PoolInv /\ CacheInv /\ VerdictInv /\ ShadowInv

\* The modules the scorers use count as this one does.
LEMMA SameCounts == \A S : Scores!Cardinality(S) = Cardinality(S)
BY DEF Scores!Cardinality, Cardinality

\* A sequence of distinct elements, without one of them.
LEMMA Without ==
    ASSUME NEW T, NEW cache \in Seq(T), Scores!IsInjective(cache), NEW text
    PROVE  LET others == Scores!RemoveFirst(cache, text)
           IN  /\ others \in Seq(T) /\ Scores!IsInjective(others) /\ Len(others) <= Len(cache)
               /\ \A i \in DOMAIN others : others[i] # text
<1>1. CASE ~ \E i \in 1 .. Len(cache) : cache[i] = text
    BY <1>1 DEF Scores!RemoveFirst
<1>2. CASE \E i \in 1 .. Len(cache) : cache[i] = text
    <2>1. PICK k \in 1 .. Len(cache) : cache[k] = text
        BY <1>2
    <2>2. {i \in 1 .. Len(cache) : cache[i] = text} = {k}
        BY <2>1 DEF Scores!IsInjective
    <2>3. Scores!Min({k}) = k
        BY <2>1 DEF Scores!Min
    <2>4. Scores!SelectInSeq(cache, LAMBDA v : v = text) = k
        BY <2>2, <2>3 DEF Scores!SelectInSeq
    <2> DEFINE left == SubSeq(cache, 1, k - 1)
               right == SubSeq(cache, k + 1, Len(cache))
               others == left \o right
    <2>5. Scores!RemoveFirst(cache, text) = others
        BY <1>2, <2>4 DEF Scores!RemoveFirst, Scores!RemoveAt
    <2>6. \A i \in 1 .. Len(cache) : cache[i] \in T
        OBVIOUS
    <2>7. left \in Seq(T) /\ Len(left) = k - 1 /\ \A i \in 1 .. k - 1 : left[i] = cache[i]
        <3>1. \A i \in 1 .. k - 1 : cache[i] \in T
            BY <2>1, <2>6
        <3> QED BY <3>1, <2>1, SubSeqProperties
    <2>8. /\ right \in Seq(T) /\ Len(right) = Len(cache) - k
          /\ \A i \in 1 .. Len(cache) - k : right[i] = cache[k + i]
        <3>1. \A i \in k + 1 .. Len(cache) : cache[i] \in T
            BY <2>1, <2>6
        <3>2. k + 1 \in Int /\ Len(cache) \in Int
            BY <2>1
        <3>3. /\ right \in Seq(T)
              /\ Len(right) = IF k + 1 <= Len(cache) THEN Len(cache) - (k + 1) + 1 ELSE 0
              /\ \A i \in 1 .. Len(cache) - (k + 1) + 1 : right[i] = cache[k + 1 + i - 1]
            BY <3>1, <3>2, SubSeqProperties
        <3> QED BY <3>3, <2>1
    <2> HIDE DEF left, right
    <2>9. /\ others \in Seq(T) /\ Len(others) = Len(cache) - 1
          /\ \A i \in 1 .. Len(cache) - 1 : others[i] = cache[IF i < k THEN i ELSE i + 1]
        <3>1. /\ others \in Seq(T) /\ Len(others) = Len(left) + Len(right)
              /\ \A i \in 1 .. Len(left) + Len(right) :
                    others[i] = IF i <= Len(left) THEN left[i] ELSE right[i - Len(left)]
            BY <2>7, <2>8, ConcatProperties
        <3>2. Len(left) + Len(right) = Len(cache) - 1
            BY <2>1, <2>7, <2>8
        <3>3. ASSUME NEW i \in 1 .. Len(cache) - 1
              PROVE  others[i] = cache[IF i < k THEN i ELSE i + 1]
            <4>1. CASE i < k
                BY <4>1, <3>1, <3>2, <2>1, <2>7
            <4>2. CASE ~(i < k)
                <5>1. i - (k - 1) \in 1 .. Len(cache) - k /\ k + (i - (k - 1)) = i + 1
                    BY <4>2, <2>1
                <5>2. others[i] = right[i - (k - 1)]
                    BY <4>2, <3>1, <3>2, <2>1, <2>7
                <5> QED BY <5>1, <5>2, <4>2, <2>8
            <4> QED BY <4>1, <4>2
        <3> QED BY <3>1, <3>2, <3>3
    <2> HIDE DEF others
    <2>10. DOMAIN others = 1 .. Len(cache) - 1 /\ DOMAIN cache = 1 .. Len(cache)
        BY <2>9
    <2>11. Scores!IsInjective(others)
        <3> SUFFICES ASSUME NEW i \in 1 .. Len(cache) - 1, NEW j \in 1 .. Len(cache) - 1,
                            others[i] = others[j]
                     PROVE  i = j
            BY <2>10 DEF Scores!IsInjective
        <3> DEFINE f(n) == IF n < k THEN n ELSE n + 1
        <3>1. f(i) \in 1 .. Len(cache) /\ f(j) \in 1 .. Len(cache) /\ cache[f(i)] = cache[f(j)]
            BY <2>1, <2>9
        <3>2. f(i) = f(j)
            BY <3>1, <2>10 DEF Scores!IsInjective
        <3> QED BY <3>2, <2>1
    <2>12. \A i \in 1 .. Len(cache) - 1 : others[i] # text
        <3> SUFFICES ASSUME NEW i \in 1 .. Len(cache) - 1, others[i] = text PROVE FALSE
            OBVIOUS
        <3> DEFINE n == IF i < k THEN i ELSE i + 1
        <3>1. n \in 1 .. Len(cache) /\ cache[n] = text /\ n # k
            BY <2>1, <2>9
        <3> QED BY <3>1, <2>2
    <2> QED BY <2>5, <2>9, <2>10, <2>11, <2>12
<1> QED BY <1>1, <1>2

\* Moving a text to the front keeps the cache injective, and within its capacity.
LEMMA TouchedKeeps ==
    ASSUME NEW T, NEW cache \in Seq(T), Scores!IsInjective(cache), NEW text \in T
    PROVE  LET touched == Scores!Touched(cache, text)
           IN  touched \in Seq(T) /\ Scores!IsInjective(touched) /\ Len(touched) <= Capacity
<1> DEFINE others == Scores!RemoveFirst(cache, text)
           entries == <<text>> \o others
           size == IF Len(entries) < Capacity THEN Len(entries) ELSE Capacity
<1>1. /\ others \in Seq(T) /\ Scores!IsInjective(others)
      /\ \A i \in DOMAIN others : others[i] # text
    BY Without
<1> HIDE DEF others
<1>2. /\ entries \in Seq(T) /\ Len(entries) = Len(others) + 1 /\ entries[1] = text
      /\ \A i \in 2 .. Len(others) + 1 : entries[i] = others[i - 1]
    BY <1>1
<1>3. Scores!Touched(cache, text) = SubSeq(entries, 1, size)
    BY DEF Scores!Touched, others
<1> HIDE DEF entries
<1>4. size \in Nat /\ size <= Len(entries) /\ size <= Capacity
    BY <1>2, ScoringAssumption
<1> HIDE DEF size
<1>5. /\ SubSeq(entries, 1, size) \in Seq(T) /\ Len(SubSeq(entries, 1, size)) = size
      /\ \A i \in 1 .. size : SubSeq(entries, 1, size)[i] = entries[i]
    <2>1. \A i \in 1 .. size : entries[i] \in T
        BY <1>2, <1>4
    <2> QED BY <2>1, <1>4, SubSeqProperties
<1>6. ASSUME NEW i \in 1 .. size, NEW j \in 1 .. size, entries[i] = entries[j], i < j
      PROVE  FALSE
    <2>1. j - 1 \in DOMAIN others /\ entries[j] = others[j - 1]
        BY <1>1, <1>2, <1>4, <1>6
    <2>2. CASE i = 1
        BY <2>1, <2>2, <1>1, <1>2, <1>6
    <2>3. CASE i # 1
        <3>1. i - 1 \in DOMAIN others /\ entries[i] = others[i - 1]
            BY <1>1, <1>2, <1>4, <2>3
        <3>2. i - 1 = j - 1
            BY <2>1, <3>1, <1>1, <1>6 DEF Scores!IsInjective
        <3> QED BY <3>2, <1>4, <1>6
    <2> QED BY <2>2, <2>3
<1>7. Scores!IsInjective(SubSeq(entries, 1, size))
    <2>1. DOMAIN SubSeq(entries, 1, size) = 1 .. size
        BY <1>4, <1>5
    <2> QED BY <2>1, <1>4, <1>5, <1>6 DEF Scores!IsInjective
<1> QED BY <1>3, <1>4, <1>5, <1>7

\* A verdict is one of four, and none of the two that ask for a nudge in shadow mode.
LEMMA ActionType ==
    ASSUME NEW mode \in {"shadow", "advisory", "enforce"}, NEW score
    PROVE  /\ Scores!Action(mode, score) \in Actions
           /\ mode = "shadow" => Scores!Action(mode, score) \in {"allow", "shadow"}
BY DEF Scores!Action, Actions

\* Hearing a verdict keeps the nudge at the last block, else the first advice.
LEMMA HeardKeeps ==
    ASSUME ScoresTypes, NEW caller \in CallerStates, NudgeRight(caller), HeardRight(caller),
           caller.phase = "scoring", NEW text, NEW ok \in BOOLEAN
    PROVE  LET next == Scores!Heard(caller, text, ok)
           IN  /\ next \in CallerStates /\ NudgeRight(next) /\ HeardRight(next)
               /\ next.phase \in {"waiting", "done"}
               /\ state.mode = "shadow" /\ caller.nudge = 0 => next.nudge = 0
<1> DEFINE action == IF ok THEN Scores!Action(state.mode, state.score[text]) ELSE "shadow"
           heard == Append(caller.heard, action)
           nudge == IF action = "block" \/ (action = "nudge" /\ caller.nudge = 0)
                    THEN caller.at ELSE caller.nudge
           phase == IF caller.at = Len(caller.batch) THEN "done" ELSE "waiting"
<1>1. action \in Actions /\ (state.mode = "shadow" => action \in {"allow", "shadow"})
    BY ActionType DEF ScoresTypes, Actions
<1>2. Scores!Heard(caller, text, ok) =
          [phase |-> phase, batch |-> caller.batch, at |-> caller.at + 1, heard |-> heard,
           nudge |-> nudge]
    <2>1. Scores!Heard(caller, text, ok) =
              [caller EXCEPT !.heard = heard, !.at = caller.at + 1, !.nudge = nudge,
                             !.phase = phase]
        BY Zenon DEF Scores!Heard
    <2> HIDE DEF heard, nudge, phase
    <2> QED BY <2>1 DEF CallerStates
<1> HIDE DEF action
<1> DEFINE n == Len(caller.heard) + 1
<1>3. /\ caller.heard \in Seq(Actions) /\ caller.nudge \in Nat /\ caller.at = n /\ n \in Nat
      /\ caller.at \in 1 .. Len(caller.batch)
    BY DEF CallerStates, HeardRight
<1>4. heard \in Seq(Actions) /\ Len(heard) = n /\ heard[n] = action
      /\ \A i \in 1 .. n - 1 : heard[i] = caller.heard[i]
    BY <1>1, <1>3
<1> DEFINE next == Scores!Heard(caller, text, ok)
<1>5. next \in CallerStates
    BY <1>2, <1>3, <1>4 DEF CallerStates
<1>6. \A a : Asked(heard, a) = Asked(caller.heard, a) \cup (IF action = a THEN {n} ELSE {})
    BY <1>3, <1>4 DEF Asked
<1>7. /\ \A i \in Asked(caller.heard, "block") : i \in Nat /\ i < n /\ i > 0
      /\ \A i \in Asked(caller.heard, "nudge") : i \in Nat /\ i < n /\ i > 0
    BY <1>3 DEF Asked
<1>8. next.nudge = nudge /\ next.heard = heard
    BY <1>2
<1>9. NudgeRight(next)
    <2> DEFINE blocks == Asked(caller.heard, "block")
               advices == Asked(caller.heard, "nudge")
    <2>1. Asked(next.heard, "block") = blocks \cup (IF action = "block" THEN {n} ELSE {})
        BY <1>6, <1>8
    <2>2. Asked(next.heard, "nudge") = advices \cup (IF action = "nudge" THEN {n} ELSE {})
        BY <1>6, <1>8
    <2>3. /\ blocks # {} => caller.nudge \in blocks /\ \A i \in blocks : i <= caller.nudge
          /\ blocks = {} /\ advices # {} =>
                 caller.nudge \in advices /\ \A i \in advices : caller.nudge <= i
          /\ blocks = {} /\ advices = {} => caller.nudge = 0
        BY DEF NudgeRight
    <2> HIDE DEF blocks, advices, heard, next
    <2>4. CASE action = "block"
        <3>1. next.nudge = n
            BY <2>4, <1>3, <1>8
        <3> QED BY <3>1, <2>1, <2>4, <1>3, <1>7 DEF NudgeRight, blocks
    <2>5. CASE action = "nudge"
        <3>1. caller.nudge = 0 => blocks = {} /\ advices = {}
            BY <2>3, <1>7 DEF blocks, advices
        <3>2. next.nudge = IF caller.nudge = 0 THEN n ELSE caller.nudge
            BY <2>5, <1>3, <1>8
        <3>3. Asked(next.heard, "block") = blocks /\ Asked(next.heard, "nudge") = advices \cup {n}
            BY <2>1, <2>2, <2>5
        <3>4. \A i \in advices : i \in Nat /\ i < n
            BY <1>7 DEF advices
        <3>5. CASE caller.nudge = 0
            <4>1. /\ Asked(next.heard, "block") = {} /\ Asked(next.heard, "nudge") = {n}
                  /\ next.nudge = n /\ n <= n
                BY <3>1, <3>2, <3>3, <3>5, <1>3
            <4> HIDE DEF n
            <4> QED BY <4>1 DEF NudgeRight
        <3>6. CASE caller.nudge # 0
            BY <3>2, <3>3, <3>4, <3>6, <2>3, <1>3 DEF NudgeRight
        <3> QED BY <3>5, <3>6
    <2>6. CASE action \notin {"block", "nudge"}
        <3>1. next.nudge = caller.nudge
            BY <2>6, <1>8
        <3>2. Asked(next.heard, "block") = blocks /\ Asked(next.heard, "nudge") = advices
            BY <2>1, <2>2, <2>6
        <3> QED BY <3>1, <3>2, <2>3 DEF NudgeRight
    <2> QED BY <2>4, <2>5, <2>6
<1>10. HeardRight(next)
    <2>1. /\ next.at = n + 1 /\ next.batch = caller.batch /\ next.phase = phase
          /\ Len(next.heard) = n
        BY <1>2, <1>3, <1>4
    <2>2. Len(caller.batch) \in Nat \/ caller.at = Len(caller.batch)
        BY <1>3 DEF CallerStates, Scores!Batches
    <2>3. phase = "waiting" => n + 1 \in 1 .. Len(caller.batch)
        BY <2>2, <1>3
    <2> QED BY <2>1, <2>3 DEF HeardRight
<1>11. next.phase \in {"waiting", "done"}
    BY <1>2
<1>12. state.mode = "shadow" /\ caller.nudge = 0 => next.nudge = 0
    BY <1>1, <1>8
<1> QED BY <1>5, <1>9, <1>10, <1>11, <1>12

\* What a step may make of the callers, of the tasks, and of both with the cache.
CallersRight(callers) ==
    /\ callers \in [Callers -> CallerStates]
    /\ \A c \in Callers : /\ NudgeRight(callers[c]) /\ HeardRight(callers[c])
                          /\ state.marked => callers[c].nudge = 0

PoolRight(tasks, callers, sessions) ==
    /\ tasks \subseteq ScoringTasks /\ IsFiniteSet(tasks) /\ Cardinality(tasks) <= Permits
    /\ \A s, t \in tasks : s.caller = t.caller => s = t
    /\ \A t \in tasks : /\ callers[t.caller].phase \in {"scoring", "dropped"}
                        /\ t.phase # "begun" => t.session \in 1 .. Sessions
                        /\ t.phase = "running" => sessions[t.session] = t.caller

\* The invariant, by its parts.
LEMMA ScoresInvParts ==
    ASSUME ScoresInv
    PROVE  /\ CallersRight(state.callers)
           /\ PoolRight(state.tasks, state.callers, state.sessions)
           /\ state = [callers |-> state.callers, tasks |-> state.tasks,
                       sessions |-> state.sessions, cache |-> state.cache,
                       next |-> state.next, score |-> state.score, mode |-> state.mode,
                       marked |-> state.marked]
BY DEF ScoresInv, ScoresTypes, PoolInv, VerdictInv, ShadowInv, CallersRight, PoolRight

\* The parts of the invariant, one by one.
LEMMA ScoresInvAssembled ==
    ASSUME ScoresInv, NEW callers, NEW tasks, NEW cache \in Seq(Scores!Texts),
           NEW sessions \in [1 .. Sessions -> Callers \cup {Scores!Free}],
           NEW next \in 0 .. Sessions - 1,
           CallersRight(callers), PoolRight(tasks, callers, sessions),
           Scores!IsInjective(cache), Len(cache) <= Capacity,
           state' = [callers |-> callers, tasks |-> tasks, sessions |-> sessions,
                     cache |-> cache, next |-> next, score |-> state.score,
                     mode |-> state.mode, marked |-> state.marked]
    PROVE  ScoresInv'
<1>1. ScoresTypes'
    BY DEF ScoresInv, ScoresTypes, CallersRight, PoolRight
<1>2. PoolInv'
    BY DEF PoolInv, PoolRight
<1>3. CacheInv'
    BY DEF CacheInv
<1>4. VerdictInv' /\ ShadowInv'
    BY DEF ScoresInv, VerdictInv, ShadowInv, CallersRight
<1> QED BY <1>1, <1>2, <1>3, <1>4 DEF ScoresInv

\* A caller takes its next form.
LEMMA CallersUpdated ==
    ASSUME NEW callers, CallersRight(callers), NEW c \in Callers, NEW x \in CallerStates,
           NudgeRight(x), HeardRight(x), state.marked => x.nudge = 0
    PROVE  /\ CallersRight([callers EXCEPT ![c] = x])
           /\ [callers EXCEPT ![c] = x][c] = x
           /\ \A d \in Callers \ {c} : [callers EXCEPT ![c] = x][d] = callers[d]
BY DEF CallersRight

\* The next phase of a task takes its place; a task that ends leaves the others.
LEMMA PoolUpdated ==
    ASSUME NEW tasks, NEW callers, NEW sessions, PoolRight(tasks, callers, sessions),
           NEW task \in tasks
    PROVE  /\ PoolRight(tasks \ {task}, callers, sessions)
           /\ Cardinality(tasks \ {task}) = Cardinality(tasks) - 1
           /\ \A t \in tasks \ {task} : t.caller # task.caller
<1>1. /\ IsFiniteSet(tasks \ {task}) /\ Cardinality(tasks \ {task}) = Cardinality(tasks) - 1
      /\ Cardinality(tasks) \in Nat
    BY FS_RemoveElement, FS_CardinalityType DEF PoolRight
<1> QED BY <1>1, ScoringAssumption DEF PoolRight

\* The scorer's part of the state takes its next form.
LEMMA PoolReplaced ==
    ASSUME NEW tasks, NEW callers, NEW sessions, PoolRight(tasks, callers, sessions),
           NEW task \in tasks, NEW next \in ScoringTasks, next.caller = task.caller,
           next.phase # "begun" => next.session \in 1 .. Sessions,
           next.phase # "running"
    PROVE  PoolRight((tasks \ {task}) \cup {next}, callers, sessions)
<1> DEFINE rest == tasks \ {task}
<1>1. /\ PoolRight(rest, callers, sessions) /\ Cardinality(rest) = Cardinality(tasks) - 1
      /\ \A t \in rest : t.caller # task.caller
    BY PoolUpdated
<1>2. /\ IsFiniteSet(rest) /\ Cardinality(tasks) \in Nat /\ Cardinality(tasks) <= Permits
      /\ callers[task.caller].phase \in {"scoring", "dropped"}
    BY <1>1, FS_CardinalityType DEF PoolRight
<1> HIDE DEF rest
<1>3. next \notin rest
    BY <1>1
<1>4. /\ IsFiniteSet(rest \cup {next})
      /\ Cardinality(rest \cup {next}) = Cardinality(rest) + 1
    BY <1>2, <1>3, FS_AddElement
<1>5. PoolRight(rest \cup {next}, callers, sessions)
    BY <1>1, <1>2, <1>4, ScoringAssumption DEF PoolRight
<1> QED BY <1>5 DEF rest

\* Reporting a verdict to the caller of a task.
LEMMA ReportKeeps ==
    ASSUME ScoresInv, NEW task \in state.tasks, NEW ok \in BOOLEAN
    PROVE  /\ CallersRight(Scores!Report(task, ok))
           /\ \A c \in Callers \ {task.caller} :
                 Scores!Report(task, ok)[c] = state.callers[c]
<1> DEFINE caller == state.callers[task.caller]
           next == IF caller.phase = "scoring" THEN Scores!Heard(caller, task.text, ok) ELSE caller
<1>1. CallersRight(state.callers) /\ task.caller \in Callers
    BY ScoresInvParts DEF PoolRight, ScoringTasks
<1>2. caller \in CallerStates /\ NudgeRight(caller) /\ HeardRight(caller)
      /\ (state.marked => caller.nudge = 0)
    BY <1>1 DEF CallersRight
<1>3. state.marked => state.mode = "shadow"
    BY DEF ScoresInv, ShadowInv
<1>4. Scores!Report(task, ok) = [state.callers EXCEPT ![task.caller] = next]
    BY Zenon DEF Scores!Report
<1> HIDE DEF caller
<1>5. CASE caller.phase = "scoring"
    <2> DEFINE heard == Scores!Heard(caller, task.text, ok)
    <2>1. heard \in CallerStates /\ NudgeRight(heard) /\ HeardRight(heard)
          /\ (state.mode = "shadow" /\ caller.nudge = 0 => heard.nudge = 0)
        BY <1>2, <1>5, HeardKeeps DEF ScoresInv
    <2>2. next = heard
        BY <1>5
    <2> HIDE DEF heard, next
    <2>3. next \in CallerStates /\ NudgeRight(next) /\ HeardRight(next)
          /\ (state.marked => next.nudge = 0)
        BY <1>2, <1>3, <2>1, <2>2
    <2> QED BY <2>3, <1>1, <1>4, CallersUpdated
<1>6. CASE caller.phase # "scoring"
    <2>1. next = caller
        BY <1>6
    <2> HIDE DEF next
    <2> QED BY <2>1, <1>1, <1>2, <1>4, CallersUpdated
<1> QED BY <1>5, <1>6

\* A caller comes, asks for a permit, or is dropped.
LEMMA CallerStepKeepsInv ==
    ASSUME ScoresInv, NEW c \in Callers,
           Scores!Begin(c) \/ Scores!Acquire(c) \/ Scores!Drop(c)
    PROVE  ScoresInv'
<1> DEFINE caller == state.callers[c]
<1>1. /\ CallersRight(state.callers) /\ PoolRight(state.tasks, state.callers, state.sessions)
      /\ state = [callers |-> state.callers, tasks |-> state.tasks,
                  sessions |-> state.sessions, cache |-> state.cache, next |-> state.next,
                  score |-> state.score, mode |-> state.mode, marked |-> state.marked]
      /\ state.cache \in Seq(Scores!Texts) /\ state.next \in 0 .. Sessions - 1
      /\ state.sessions \in [1 .. Sessions -> Callers \cup {Scores!Free}]
      /\ Scores!IsInjective(state.cache) /\ Len(state.cache) <= Capacity
    BY ScoresInvParts DEF ScoresInv, ScoresTypes, CacheInv
<1>2. /\ caller \in CallerStates /\ NudgeRight(caller) /\ HeardRight(caller)
      /\ state.marked => caller.nudge = 0
    BY <1>1 DEF CallersRight
<1>3. ASSUME NEW x, state' = [state EXCEPT !.callers[c] = x]
      PROVE  state' = [callers |-> [state.callers EXCEPT ![c] = x], tasks |-> state.tasks,
                       sessions |-> state.sessions, cache |-> state.cache,
                       next |-> state.next, score |-> state.score, mode |-> state.mode,
                       marked |-> state.marked]
    BY <1>1, <1>3
<1>4. CASE Scores!Begin(c)
    <2>1. PICK batch \in Scores!Batches :
              state' = [state EXCEPT !.callers[c] =
                           [Scores!Idle EXCEPT !.phase = "waiting", !.batch = batch]]
        BY <1>4, Zenon DEF Scores!Begin
    <2> DEFINE x == [phase |-> "waiting", batch |-> batch, at |-> 1, heard |-> <<>>, nudge |-> 0]
    <2>0. [Scores!Idle EXCEPT !.phase = "waiting", !.batch = batch] = x
        <3>1. ASSUME NEW y, y = [Scores!Idle EXCEPT !.phase = "waiting", !.batch = batch]
              PROVE  y = x
            BY <3>1 DEF Scores!Idle
        <3> QED BY <3>1
    <2>2. state' = [state EXCEPT !.callers[c] = x]
        <3> HIDE DEF x
        <3> QED BY <2>0, <2>1, Zenon
    <2>3. x \in CallerStates
        BY DEF CallerStates
    <2>4. NudgeRight(x)
        <3>1. Asked(x.heard, "block") = {} /\ Asked(x.heard, "nudge") = {}
            BY DEF Asked
        <3> QED BY <3>1 DEF NudgeRight
    <2>5. HeardRight(x)
        <3>1. Len(batch) \in Nat /\ Len(batch) >= 1
            BY DEF Scores!Batches
        <3> QED BY <3>1 DEF HeardRight
    <2>6. caller.phase = "idle" /\ x.nudge = 0
        BY <1>4, Zenon DEF Scores!Begin
    <2> HIDE DEF x
    <2> DEFINE callers == [state.callers EXCEPT ![c] = x]
    <2>7. CallersRight(callers) /\ \A d \in Callers \ {c} : callers[d] = state.callers[d]
        BY <1>1, <2>3, <2>4, <2>5, <2>6, CallersUpdated
    <2>8. state' = [callers |-> callers, tasks |-> state.tasks,
                    sessions |-> state.sessions, cache |-> state.cache, next |-> state.next,
                    score |-> state.score, mode |-> state.mode, marked |-> state.marked]
        BY <1>3, <2>2
    <2> HIDE DEF callers
    <2>9. \A t \in state.tasks : t.caller \in Callers \ {c}
        BY <1>1, <2>6 DEF PoolRight, ScoringTasks
    <2>10. PoolRight(state.tasks, callers, state.sessions)
        BY <1>1, <2>7, <2>9 DEF PoolRight
    <2> QED BY <1>1, <2>7, <2>8, <2>10, ScoresInvAssembled
<1>5. CASE Scores!Drop(c)
    <2> DEFINE x == [caller EXCEPT !.phase = "dropped"]
               callers == [state.callers EXCEPT ![c] = x]
    <2>1. state' = [state EXCEPT !.callers[c] = x]
        BY <1>1, <1>5 DEF Scores!Drop
    <2>2. /\ x.phase = "dropped" /\ x.nudge = caller.nudge /\ x.heard = caller.heard
          /\ x.at = caller.at /\ x \in CallerStates
        BY <1>2 DEF CallerStates
    <2> HIDE DEF x, caller
    <2>3. NudgeRight(x) /\ HeardRight(x)
        BY <1>2, <2>2 DEF NudgeRight, HeardRight
    <2>4. CallersRight(callers) /\ (\A d \in Callers \ {c} : callers[d] = state.callers[d])
          /\ callers[c] = x
        BY <1>1, <1>2, <2>2, <2>3, CallersUpdated
    <2>5. state' = [callers |-> callers, tasks |-> state.tasks,
                    sessions |-> state.sessions, cache |-> state.cache, next |-> state.next,
                    score |-> state.score, mode |-> state.mode, marked |-> state.marked]
        BY <1>3, <2>1
    <2> HIDE DEF callers
    <2>6. PoolRight(state.tasks, callers, state.sessions)
        BY <1>1, <2>2, <2>4 DEF PoolRight, ScoringTasks
    <2> QED BY <1>1, <2>4, <2>5, <2>6, ScoresInvAssembled
<1>6. CASE Scores!Acquire(c)
    <2> DEFINE x == [caller EXCEPT !.phase = "scoring"]
               callers == [state.callers EXCEPT ![c] = x]
               task == [caller |-> c, text |-> caller.batch[caller.at], phase |-> "begun",
                        session |-> 0]
               tasks == state.tasks \cup {task}
    <2>1. /\ state' = [state EXCEPT !.callers[c].phase = "scoring", !.tasks = tasks]
          /\ caller.phase = "waiting" /\ Scores!Cardinality(state.tasks) < Permits
        BY <1>6, Zenon DEF Scores!Acquire, Scores!Holding
    <2>2. state' = [callers |-> callers, tasks |-> tasks,
                    sessions |-> state.sessions, cache |-> state.cache, next |-> state.next,
                    score |-> state.score, mode |-> state.mode, marked |-> state.marked]
        <3> HIDE DEF task
        <3> QED BY <1>1, <2>1
    <2>3. /\ x.phase = "scoring" /\ x.nudge = caller.nudge /\ x.heard = caller.heard
          /\ x.at = caller.at /\ x.batch = caller.batch /\ x \in CallerStates
        BY <1>2 DEF CallerStates
    <2>4. task \in ScoringTasks
        <3>1. caller.batch \in Scores!Batches \cup {<<>>} /\ caller.at \in 1 .. Len(caller.batch)
            BY <1>2, <2>1 DEF CallerStates, HeardRight
        <3>2. caller.batch[caller.at] \in Scores!Texts
            BY <3>1 DEF Scores!Batches, Scores!Texts
        <3> QED BY <3>2, ScoringAssumption DEF ScoringTasks
    <2>5. task.caller = c /\ task.phase = "begun"
        OBVIOUS
    <2>6. NudgeRight(x) /\ HeardRight(x)
        <3> HIDE DEF x, caller
        <3> QED BY <1>2, <2>1, <2>3 DEF NudgeRight, HeardRight
    <2> HIDE DEF x, caller, task
    <2>7. CallersRight(callers) /\ (\A d \in Callers \ {c} : callers[d] = state.callers[d])
          /\ callers[c] = x
        BY <1>1, <1>2, <2>3, <2>6, CallersUpdated
    <2>8. \A t \in state.tasks : t.caller \in Callers \ {c}
        BY <1>1, <2>1 DEF PoolRight, ScoringTasks, caller
    <2>9. /\ IsFiniteSet(tasks) /\ Cardinality(tasks) = Cardinality(state.tasks) + 1
          /\ Cardinality(state.tasks) \in Nat
        <3>1. task \notin state.tasks
            BY <2>5, <2>8
        <3> QED BY <3>1, <1>1, FS_AddElement, FS_CardinalityType DEF PoolRight
    <2>10. Cardinality(tasks) <= Permits
        BY <2>1, <2>9, SameCounts, ScoringAssumption
    <2> HIDE DEF callers
    <2>11. PoolRight(tasks, callers, state.sessions)
        BY <1>1, <2>3, <2>4, <2>5, <2>7, <2>8, <2>9, <2>10 DEF PoolRight
    <2> QED BY <1>1, <2>2, <2>7, <2>11, ScoresInvAssembled
<1> QED BY <1>4, <1>5, <1>6

\* A task looks its text up, enters a session, or ends.
LEMMA TaskStepKeepsInv ==
    ASSUME ScoresInv, NEW task \in state.tasks,
           \/ Scores!LookUp(task)
           \/ Scores!Lock(task)
           \/ \E ok \in BOOLEAN : Scores!Finish(task, ok)
    PROVE  ScoresInv'
<1>1. /\ CallersRight(state.callers) /\ PoolRight(state.tasks, state.callers, state.sessions)
      /\ state = [callers |-> state.callers, tasks |-> state.tasks,
                  sessions |-> state.sessions, cache |-> state.cache, next |-> state.next,
                  score |-> state.score, mode |-> state.mode, marked |-> state.marked]
      /\ state.cache \in Seq(Scores!Texts) /\ state.next \in 0 .. Sessions - 1
      /\ state.sessions \in [1 .. Sessions -> Callers \cup {Scores!Free}]
      /\ Scores!IsInjective(state.cache) /\ Len(state.cache) <= Capacity
    BY ScoresInvParts DEF ScoresInv, ScoresTypes, CacheInv
<1>2. /\ task \in ScoringTasks /\ task.caller \in Callers /\ task.text \in Scores!Texts
      /\ task = [caller |-> task.caller, text |-> task.text, phase |-> task.phase,
                 session |-> task.session]
    BY <1>1 DEF PoolRight, ScoringTasks
<1>3. /\ Scores!Touched(state.cache, task.text) \in Seq(Scores!Texts)
      /\ Scores!IsInjective(Scores!Touched(state.cache, task.text))
      /\ Len(Scores!Touched(state.cache, task.text)) <= Capacity
    BY <1>1, <1>2, TouchedKeeps
<1> DEFINE rest == state.tasks \ {task}
           touched == Scores!Touched(state.cache, task.text)
<1>4. PoolRight(rest, state.callers, state.sessions)
      /\ \A t \in rest : t.caller \in Callers \ {task.caller}
    <2>1. /\ PoolRight(rest, state.callers, state.sessions)
          /\ \A t \in rest : t.caller # task.caller
        BY <1>1, PoolUpdated
    <2> HIDE DEF rest
    <2> QED BY <2>1 DEF PoolRight, ScoringTasks
<1>5. ASSUME NEW ok \in BOOLEAN,
             NEW sessions \in [1 .. Sessions -> Callers \cup {Scores!Free}],
             \A t \in rest : t.phase = "running" => sessions[t.session] = t.caller
      PROVE  PoolRight(rest, Scores!Report(task, ok), sessions)
    <2> DEFINE callers == Scores!Report(task, ok)
    <2>1. \A d \in Callers \ {task.caller} : callers[d] = state.callers[d]
        BY ReportKeeps
    <2> HIDE DEF callers, rest
    <2>2. PoolRight(rest, callers, sessions)
        BY <1>4, <1>5, <2>1 DEF PoolRight
    <2> QED BY <2>2 DEF callers
<1>6. CASE Scores!LookUp(task)
    <2>1. CASE Scores!Hit(task) # 0
        <3> DEFINE callers == Scores!Report(task, TRUE)
        <3>1. state' = [state EXCEPT !.tasks = rest, !.cache = touched, !.callers = callers]
            BY <1>6, <2>1, Zenon DEF Scores!LookUp
        <3>2. CallersRight(callers) /\ PoolRight(rest, callers, state.sessions)
            BY <1>1, <1>4, <1>5, ReportKeeps DEF PoolRight
        <3> HIDE DEF callers, touched, rest
        <3>3. state' = [callers |-> callers, tasks |-> rest, sessions |-> state.sessions,
                        cache |-> touched, next |-> state.next, score |-> state.score,
                        mode |-> state.mode, marked |-> state.marked]
            BY <1>1, <3>1
        <3> QED BY <1>1, <1>3, <3>2, <3>3, ScoresInvAssembled DEF touched
    <2>2. CASE Scores!Hit(task) = 0
        <3> DEFINE next == [caller |-> task.caller, text |-> task.text, phase |-> "queued",
                            session |-> state.next + 1]
                   tasks == rest \cup {next}
        <3>1. state' = [state EXCEPT !.next = (state.next + 1) % Sessions,
                  !.tasks = rest \cup {[task EXCEPT !.phase = "queued",
                                                    !.session = state.next + 1]}]
            BY <1>6, <2>2, Zenon DEF Scores!LookUp, Scores!Become
        <3>2. [task EXCEPT !.phase = "queued", !.session = state.next + 1] = next
            <4>1. ASSUME NEW y, y = [task EXCEPT !.phase = "queued", !.session = state.next + 1]
                  PROVE  y = next
                BY <1>2, <4>1
            <4> QED BY <4>1
        <3>3. /\ next \in ScoringTasks /\ next.caller = task.caller /\ next.phase = "queued"
              /\ next.session \in 1 .. Sessions
            BY <1>1, <1>2, ScoringAssumption DEF ScoringTasks
        <3>4. (state.next + 1) % Sessions \in 0 .. Sessions - 1
            BY <1>1, ScoringAssumption
        <3> HIDE DEF next
        <3>5. PoolRight(tasks, state.callers, state.sessions)
            BY <1>1, <3>3, PoolReplaced
        <3> HIDE DEF rest
        <3>6. state' = [callers |-> state.callers, tasks |-> tasks,
                        sessions |-> state.sessions, cache |-> state.cache,
                        next |-> (state.next + 1) % Sessions, score |-> state.score,
                        mode |-> state.mode, marked |-> state.marked]
            BY <1>1, <3>1, <3>2
        <3> HIDE DEF tasks
        <3> QED BY <1>1, <3>4, <3>5, <3>6, ScoresInvAssembled
    <2> QED BY <2>1, <2>2
<1>7. CASE Scores!Lock(task)
    <2> DEFINE next == [caller |-> task.caller, text |-> task.text, phase |-> "running",
                        session |-> task.session]
               queued == rest \cup {[next EXCEPT !.phase = "queued"]}
               tasks == rest \cup {next}
               sessions == [state.sessions EXCEPT ![task.session] = task.caller]
    <2>1. /\ task.phase = "queued" /\ state.sessions[task.session] = Scores!Free
          /\ state' = [state EXCEPT !.sessions[task.session] = task.caller,
                          !.tasks = rest \cup {[task EXCEPT !.phase = "running"]}]
        BY <1>7, Zenon DEF Scores!Lock, Scores!Become
    <2>2. [task EXCEPT !.phase = "running"] = next
        BY <1>2 DEF ScoringTasks
    <2>3. /\ next \in ScoringTasks /\ next.caller = task.caller /\ next.phase = "running"
          /\ next.session = task.session /\ task.session \in 1 .. Sessions
        BY <1>1, <1>2, <2>1 DEF ScoringTasks, PoolRight
    <2>4. \A t \in rest : t.phase = "running" => t.session # task.session
        BY <1>4, <2>1, ScoringAssumption DEF PoolRight, Scores!Free
    <2>5. sessions \in [1 .. Sessions -> Callers \cup {Scores!Free}]
          /\ sessions[task.session] = task.caller
          /\ \A n \in 1 .. Sessions : n # task.session => sessions[n] = state.sessions[n]
        BY <1>1, <1>2, <2>3
    <2>6. IsFiniteSet(rest) /\ Cardinality(rest \cup {next}) = Cardinality(rest) + 1
          /\ Cardinality(rest) = Cardinality(state.tasks) - 1 /\ IsFiniteSet(rest \cup {next})
          /\ Cardinality(state.tasks) \in Nat /\ Cardinality(state.tasks) <= Permits
        <3>1. next \notin rest
            BY <1>4, <2>3
        <3>2. IsFiniteSet(state.tasks) /\ Cardinality(state.tasks) \in Nat
              /\ Cardinality(state.tasks) <= Permits
            BY <1>1, FS_CardinalityType DEF PoolRight
        <3>3. IsFiniteSet(rest) /\ Cardinality(rest) = Cardinality(state.tasks) - 1
            BY <3>2, FS_RemoveElement
        <3> HIDE DEF rest
        <3> QED BY <3>1, <3>2, <3>3, FS_AddElement
    <2>7. state.callers[task.caller].phase \in {"scoring", "dropped"}
        BY <1>1 DEF PoolRight
    <2> HIDE DEF next, rest, sessions
    <2>8. PoolRight(tasks, state.callers, sessions)
        BY <1>4, <2>3, <2>4, <2>5, <2>6, <2>7, ScoringAssumption DEF PoolRight
    <2>9. state' = [callers |-> state.callers, tasks |-> tasks, sessions |-> sessions,
                    cache |-> state.cache, next |-> state.next, score |-> state.score,
                    mode |-> state.mode, marked |-> state.marked]
        BY <1>1, <2>1, <2>2 DEF sessions
    <2> HIDE DEF tasks
    <2> QED BY <1>1, <2>5, <2>8, <2>9, ScoresInvAssembled
<1>8. ASSUME NEW ok \in BOOLEAN, Scores!Finish(task, ok) PROVE ScoresInv'
    <2> DEFINE callers == Scores!Report(task, ok)
               cache == IF ok THEN touched ELSE state.cache
               sessions == [state.sessions EXCEPT ![task.session] = Scores!Free]
    <2>1. /\ task.phase = "running"
          /\ state' = [state EXCEPT !.sessions[task.session] = Scores!Free, !.tasks = rest,
                                    !.cache = cache, !.callers = callers]
        BY <1>8, Zenon DEF Scores!Finish
    <2>2. /\ cache \in Seq(Scores!Texts) /\ Scores!IsInjective(cache) /\ Len(cache) <= Capacity
        BY <1>1, <1>3
    <2>3. task.session \in 1 .. Sessions /\ state.sessions[task.session] = task.caller
        BY <1>1, <2>1 DEF PoolRight
    <2>4. sessions \in [1 .. Sessions -> Callers \cup {Scores!Free}]
          /\ \A n \in 1 .. Sessions : n # task.session => sessions[n] = state.sessions[n]
        BY <1>1, <2>3
    <2>5. \A t \in rest : t.phase = "running" => sessions[t.session] = t.caller
        BY <1>4, <2>3, <2>4 DEF PoolRight
    <2>6. CallersRight(callers) /\ PoolRight(rest, callers, sessions)
        <3> HIDE DEF sessions
        <3> QED BY <1>5, <2>4, <2>5, ReportKeeps
    <2>7. state' = [callers |-> callers, tasks |-> rest, sessions |-> sessions,
                    cache |-> cache, next |-> state.next, score |-> state.score,
                    mode |-> state.mode, marked |-> state.marked]
        <3> HIDE DEF callers, rest, cache
        <3> QED BY <1>1, <2>1
    <2> HIDE DEF callers, rest, cache, sessions
    <2> QED BY <1>1, <2>2, <2>4, <2>6, <2>7, ScoresInvAssembled
<1> QED BY <1>6, <1>7, <1>8

\* What the property says of a caller's nudge determines it.
LEMMA NudgeDetermined ==
    ASSUME NEW caller \in CallerStates, NudgeRight(caller)
    PROVE  LET asked(action) == {i \in DOMAIN caller.heard : caller.heard[i] = action}
           IN  caller.nudge = IF asked("block") # {} THEN Scores!Max(asked("block"))
                              ELSE IF asked("nudge") # {} THEN Scores!Min(asked("nudge")) ELSE 0
<1>1. DOMAIN caller.heard = 1 .. Len(caller.heard) /\ caller.nudge \in Nat
      /\ Len(caller.heard) \in Nat
    BY DEF CallerStates
<1> DEFINE blocks == Asked(caller.heard, "block")
           advices == Asked(caller.heard, "nudge")
<1>2. /\ blocks = {i \in DOMAIN caller.heard : caller.heard[i] = "block"}
      /\ advices = {i \in DOMAIN caller.heard : caller.heard[i] = "nudge"}
      /\ blocks \subseteq Nat /\ advices \subseteq Nat
    BY <1>1 DEF Asked
<1>3. /\ blocks # {} => caller.nudge \in blocks /\ \A i \in blocks : i <= caller.nudge
      /\ blocks = {} /\ advices # {} =>
             caller.nudge \in advices /\ \A i \in advices : caller.nudge <= i
      /\ blocks = {} /\ advices = {} => caller.nudge = 0
    BY DEF NudgeRight
<1> HIDE DEF blocks, advices
<1>4. blocks # {} => caller.nudge = Scores!Max(blocks)
    BY <1>1, <1>2, <1>3 DEF Scores!Max
<1>5. blocks = {} /\ advices # {} => caller.nudge = Scores!Min(advices)
    BY <1>1, <1>2, <1>3 DEF Scores!Min
<1> QED BY <1>2, <1>3, <1>4, <1>5

\* Scorings keep within the permits and their sessions to themselves, the cache within its
\* capacity, and a batch hears the verdict of its calls (src/guardrails/scoring.rs,
\* onnx_scorer), for any number of callers, permits, sessions and entries.
THEOREM ScoringsAreBounded == JudgesSpec => []ScoringBounded
<1> DEFINE Inv == focus = "scores" => ScoresInv
<1>1. JudgesInit => Inv
    <2> SUFFICES ASSUME JudgesInit, focus = "scores" PROVE ScoresInv
        OBVIOUS
    <2>1. Scores!Init
        BY DEF JudgesInit
    <2>2. /\ state \in [callers : {[c \in Callers |-> Scores!Idle]}, tasks : {{}},
                        sessions : {[s \in 1..Sessions |-> Scores!Free]}, cache : {<<>>},
                        next : {0}, score : [Scores!Texts -> Scores!Scores],
                        mode : {"shadow", "advisory", "enforce"}, marked : BOOLEAN]
          /\ state.marked => state.mode = "shadow"
        BY <2>1 DEF Scores!Init, Scores!Loads
    <2>3. /\ Scores!Idle \in CallerStates /\ NudgeRight(Scores!Idle)
          /\ HeardRight(Scores!Idle) /\ Scores!Idle.nudge = 0
        <3>1. Scores!Idle \in CallerStates
            BY DEF Scores!Idle, CallerStates
        <3>2. Asked(Scores!Idle.heard, "block") = {} /\ Asked(Scores!Idle.heard, "nudge") = {}
            BY DEF Asked, Scores!Idle
        <3> QED BY <3>1, <3>2 DEF Scores!Idle, NudgeRight, HeardRight
    <2>8. /\ state.callers = [c \in Callers |-> Scores!Idle] /\ state.tasks = {}
          /\ state.sessions = [s \in 1..Sessions |-> Scores!Free] /\ state.cache = <<>>
          /\ state.next = 0
          /\ state = [callers |-> state.callers, tasks |-> state.tasks,
                      sessions |-> state.sessions, cache |-> state.cache,
                      next |-> state.next, score |-> state.score, mode |-> state.mode,
                      marked |-> state.marked]
          /\ state.score \in [Scores!Texts -> Scores!Scores] /\ state.marked \in BOOLEAN
          /\ state.mode \in {"shadow", "advisory", "enforce"}
        BY <2>2
    <2>4. ScoresTypes
        <3>1. state.callers \in [Callers -> CallerStates]
            BY <2>3, <2>8
        <3>2. state.sessions \in [1 .. Sessions -> Callers \cup {Scores!Free}]
            BY <2>8
        <3>3. state.next \in 0 .. Sessions - 1 /\ state.tasks \subseteq ScoringTasks
              /\ state.cache \in Seq(Scores!Texts)
            BY <2>8, ScoringAssumption
        <3> QED BY <2>8, <3>1, <3>2, <3>3 DEF ScoresTypes
    <2>5. PoolInv
        <3>1. IsFiniteSet({}) /\ Cardinality({}) = 0
            BY FS_EmptySet
        <3> QED BY <2>8, <3>1, ScoringAssumption DEF PoolInv
    <2>6. CacheInv
        BY <2>8, ScoringAssumption DEF CacheInv, Scores!IsInjective
    <2>7. VerdictInv /\ ShadowInv
        BY <2>2, <2>3, <2>8 DEF VerdictInv, ShadowInv
    <2> QED BY <2>4, <2>5, <2>6, <2>7 DEF ScoresInv
<1>2. Inv /\ [JudgesStep /\ UNCHANGED focus]_vars => Inv'
    <2> SUFFICES ASSUME Inv, [JudgesStep /\ UNCHANGED focus]_vars, focus' = "scores"
                 PROVE  ScoresInv'
        OBVIOUS
    <2>1. focus = "scores"
        BY DEF vars
    <2>2. CASE UNCHANGED state
        BY <2>1, <2>2 DEF ScoresInv, ScoresTypes, PoolInv, CacheInv, VerdictInv, ShadowInv
    <2>3. CASE Scores!Next
        BY <2>1, <2>3, CallerStepKeepsInv, TaskStepKeepsInv DEF Scores!Next
    <2> QED BY <2>1, <2>2, <2>3 DEF JudgesStep, vars
<1>3. Inv => ScoringBounded
    <2> SUFFICES ASSUME ScoresInv PROVE Scores!ScoringBounded
        BY DEF ScoringBounded
    <2>1. Scores!Cardinality(state.tasks) <= Permits
        BY SameCounts DEF ScoresInv, PoolInv
    <2>2. ASSUME NEW s \in state.tasks, NEW t \in state.tasks,
                 s.phase = "running", t.phase = "running", s.session = t.session
          PROVE  s = t
        BY <2>2 DEF ScoresInv, PoolInv
    <2>3. Scores!IsInjective(state.cache) /\ Len(state.cache) <= Capacity
        BY DEF ScoresInv, CacheInv
    <2>4. ASSUME NEW c \in Callers
          PROVE  LET caller == state.callers[c]
                     asked(action) == {i \in DOMAIN caller.heard : caller.heard[i] = action}
                 IN  caller.nudge =
                         IF asked("block") # {} THEN Scores!Max(asked("block"))
                         ELSE IF asked("nudge") # {} THEN Scores!Min(asked("nudge")) ELSE 0
        <3>1. state.callers[c] \in CallerStates /\ NudgeRight(state.callers[c])
            BY DEF ScoresInv, ScoresTypes, VerdictInv
        <3> QED BY <3>1, NudgeDetermined
    <2>5. state.marked => \A c \in Callers : state.callers[c].nudge = 0
        BY DEF ScoresInv, ShadowInv
    <2> QED BY <2>1, <2>2, <2>3, <2>4, <2>5 DEF Scores!ScoringBounded
<1> QED BY <1>1, <1>2, <1>3, PTL DEF JudgesSpec

-----------------------------------------------------------------------------
(* Reviews of captures.                                                    *)

\* What holds of zero, and of a number if it holds of the one before, holds up to a bound.
LEMMA UpTo ==
    ASSUME NEW bound \in Nat, NEW S, 0 \in S,
           \A n \in 1 .. bound : n - 1 \in S => n \in S
    PROVE  \A n \in 0 .. bound : n \in S
<1> DEFINE wrong == {n \in 0 .. bound : n \notin S}
<1> SUFFICES ASSUME wrong # {} PROVE FALSE
    OBVIOUS
<1>1. PICK n \in wrong : \A m \in wrong : n <= m
    <2>1. wrong \in SUBSET Nat
        OBVIOUS
    <2> HIDE DEF wrong
    <2> QED BY <2>1, LeastNatural
<1>2. n # 0 /\ n - 1 \in 0 .. bound /\ ~(n <= n - 1)
    OBVIOUS
<1>3. n - 1 \in S
    BY <1>1, <1>2
<1> QED BY <1>2, <1>3

\* A non-empty set of places in a sequence has a last one.
LEMMA LastPlace ==
    ASSUME NEW n \in Nat, NEW S \in SUBSET (1 .. n), S # {}
    PROVE  Reviews!Max(S) \in S /\ \A k \in S : k <= Reviews!Max(S)
<1> DEFINE bounds == {top \in Nat : \A k \in S : k <= top}
<1>1. n \in bounds
    OBVIOUS
<1>2. PICK top \in bounds : \A c \in bounds : top <= c
    <2>1. bounds \in SUBSET Nat /\ bounds # {}
        BY <1>1
    <2> HIDE DEF bounds
    <2> QED BY <2>1, LeastNatural
<1>3. top \in S
    <2> SUFFICES ASSUME top \notin S PROVE FALSE
        OBVIOUS
    <2>1. \A k \in S : k \in Nat /\ k >= 1 /\ k <= top - 1
        BY <1>2
    <2>2. top - 1 \in bounds
        <3>1. PICK k \in S : TRUE
            OBVIOUS
        <3> QED BY <2>1, <3>1
    <2> QED BY <1>2, <2>2
<1>4. \E x \in S : \A y \in S : x >= y
    BY <1>2, <1>3
<1>5. Reviews!Max(S) \in S /\ \A y \in S : Reviews!Max(S) >= y
    BY <1>4 DEF Reviews!Max
<1> QED BY <1>5

\* The key of a row among the captures of a file, what a process notes of a row, and
\* what it knows after reading a file: row_key, record_training_row, load.
KeyIn(captures, row) ==
    <<captures[row.capture].group,
      row.bucket \o (IF row.bucket = "alternative" THEN ":" \o row.label ELSE ""), row.call>>

Noted(captures, mem, row) ==
    LET real == row.bucket = "real"
        alternative == row.bucket = "alternative"
    IN  [captures |-> mem.captures \cup (IF real THEN {row.capture} ELSE {}),
         rows |-> mem.rows \cup {KeyIn(captures, row)},
         valid |-> mem.valid \cup (IF real /\ row.label = "valid" THEN {row.capture} ELSE {}),
         perGroup |-> [mem.perGroup EXCEPT ![captures[row.capture].group] =
                          @ + (IF alternative THEN 1 ELSE 0)],
         real |-> mem.real + (IF real THEN 1 ELSE 0),
         alternatives |-> mem.alternatives + (IF alternative THEN 1 ELSE 0)]

Replay(captures, out) ==
    LET iter[s \in SUBSET DOMAIN out] ==
            IF s = {} THEN Reviews!Fresh
            ELSE LET x == Reviews!Max(s) IN Noted(captures, iter[s \ {x}], out[x])
    IN  iter[DOMAIN out]

LEMMA KeyIs == \A row : Reviews!RowKey(row) = KeyIn(state.captures, row)
BY DEF Reviews!RowKey, Reviews!GroupOf, KeyIn

LEMMA NotedIs == \A mem, row : Reviews!Recorded(mem, row) = Noted(state.captures, mem, row)
BY DEF Reviews!Recorded, Noted, Reviews!RowKey, Reviews!GroupOf, KeyIn

LEMMA LoadedIs ==
    Reviews!Loaded =
        [Replay(state.captures, state.out) EXCEPT !.captures =
            @ \cup {reject.capture : reject \in {r \in Reviews!ToSet(state.rejects) :
                                                    r.reason = "capture"}}]
<1>1. Reviews!FoldLeft(Reviews!Recorded, Reviews!Fresh, state.out)
          = Replay(state.captures, state.out)
    BY DEF Reviews!FoldLeft, Reviews!MapThenFoldSet, Replay, Reviews!Recorded, Noted,
           Reviews!RowKey, Reviews!GroupOf, KeyIn
<1> QED BY <1>1 DEF Reviews!Loaded, Reviews!MarksProcessed

\* A file is read row by row.
ReplayedBy(captures, out, N, f) ==
    /\ f[0] = Reviews!Fresh
    /\ \A n \in 1 .. N : f[n] = Noted(captures, f[n - 1], out[n])
    /\ Replay(captures, out) = f[N]

LEMMA ReplayStepwise ==
    ASSUME NEW captures, NEW out, NEW N \in Nat, DOMAIN out = 1 .. N
    PROVE  \E f : ReplayedBy(captures, out, N, f)
<1> DEFINE Value(f, s) == IF s = {} THEN Reviews!Fresh
                          ELSE Noted(captures, f[s \ {Reviews!Max(s)}], out[Reviews!Max(s)])
           follows(f, k) == f = [s \in SUBSET (1 .. k) |-> Value(f, s)]
           iter == CHOOSE f : f = [s \in SUBSET (1 .. N) |-> Value(f, s)]
<1>1. \E f : follows(f, N)
    <2> DEFINE stuck == {k \in 0 .. N : ~ \E f : follows(f, k)}
    <2>0. N \in 0 .. N
        OBVIOUS
    <2> SUFFICES ASSUME stuck # {} PROVE FALSE
        BY <2>0, Zenon
    <2>1. PICK k \in stuck : \A l \in stuck : k <= l
        <3> HIDE DEF follows
        <3>1. stuck \in SUBSET (0 .. N)
            BY Zenon
        <3> HIDE DEF stuck
        <3>2. stuck \in SUBSET Nat
            BY <3>1
        <3> QED BY <3>2, LeastNatural
    <2>2. k # 0
        <3> DEFINE f == [s \in SUBSET (1 .. 0) |-> Reviews!Fresh]
        <3>1. \A s \in SUBSET (1 .. 0) : s = {}
            OBVIOUS
        <3>2. follows(f, 0)
            BY <3>1
        <3> QED BY <3>2
    <2>3. k \in 0 .. N /\ k - 1 \in 0 .. N /\ k \in Nat /\ k - 1 \in Nat /\ ~(k <= k - 1)
        BY <2>2
    <2>4. PICK f : follows(f, k - 1)
        BY <2>1, <2>3
    <2> DEFINE longer == [s \in SUBSET (1 .. k) |->
                            IF k \in s THEN Noted(captures, f[s \ {k}], out[k]) ELSE f[s]]
    <2>5. ASSUME NEW s \in SUBSET (1 .. k) PROVE longer[s] = Value(longer, s)
        <3>1. CASE k \in s
            <4>1. s # {} /\ s \ {k} \in SUBSET (1 .. k - 1)
                BY <2>3, <3>1
            <4>2. Reviews!Max(s) \in s /\ k <= Reviews!Max(s)
                BY <2>3, <3>1, LastPlace
            <4>3. Reviews!Max(s) = k
                <5>1. Reviews!Max(s) \in 1 .. k
                    BY <4>2
                <5> QED BY <2>3, <4>2, <5>1
            <4>4. longer[s \ {k}] = f[s \ {k}]
                <5>1. s \ {k} \in SUBSET (1 .. k) /\ k \notin s \ {k}
                    OBVIOUS
                <5> QED BY <5>1
            <4>5. longer[s] = Noted(captures, f[s \ {k}], out[k])
                BY <3>1
            <4> QED BY <4>1, <4>3, <4>4, <4>5
        <3>2. CASE k \notin s
            <4>1. s \in SUBSET (1 .. k - 1)
                BY <2>3, <3>2
            <4>2. f[s] = Value(f, s)
                BY <2>4, <4>1
            <4>3. CASE s = {}
                BY <3>2, <4>2, <4>3
            <4>4. CASE s # {}
                <5>1. s \ {Reviews!Max(s)} \in SUBSET (1 .. k) /\ k \notin s \ {Reviews!Max(s)}
                    BY <3>2
                <5>2. longer[s \ {Reviews!Max(s)}] = f[s \ {Reviews!Max(s)}]
                    BY <5>1
                <5> QED BY <3>2, <4>2, <4>4, <5>2
            <4> QED BY <4>3, <4>4
        <3> QED BY <3>1, <3>2
    <2>6. follows(longer, k)
        BY <2>5
    <2> QED BY <2>1, <2>6
<1>2. iter = [s \in SUBSET (1 .. N) |-> Value(iter, s)]
    BY <1>1
<1>3. Replay(captures, out) = iter[1 .. N]
    BY DEF Replay
<1> HIDE DEF iter
<1> DEFINE f == [n \in 0 .. N |-> iter[1 .. n]]
<1>4. f[0] = Reviews!Fresh
    <2>1. 1 .. 0 = {} /\ {} \in SUBSET (1 .. N)
        OBVIOUS
    <2> QED BY <1>2, <2>1
<1>5. ASSUME NEW n \in 1 .. N PROVE f[n] = Noted(captures, f[n - 1], out[n])
    <2>1. 1 .. n \in SUBSET (1 .. N) /\ 1 .. n # {} /\ n \in 1 .. n /\ n \in Nat
        OBVIOUS
    <2>2. Reviews!Max(1 .. n) \in 1 .. n /\ n <= Reviews!Max(1 .. n)
        BY <2>1, LastPlace
    <2>3. Reviews!Max(1 .. n) = n /\ (1 .. n) \ {n} = 1 .. (n - 1)
        BY <2>2
    <2>4. iter[1 .. n] = Noted(captures, iter[1 .. (n - 1)], out[n])
        BY <1>2, <2>1, <2>3
    <2> QED BY <2>4
<1>6. f[N] = iter[1 .. N]
    OBVIOUS
<1> HIDE DEF f
<1>7. ReplayedBy(captures, out, N, f)
    BY <1>3, <1>4, <1>5, <1>6 DEF ReplayedBy
<1> QED BY <1>7

LEMMA ReplayEmpty == ASSUME NEW captures PROVE Replay(captures, <<>>) = Reviews!Fresh
<1>1. DOMAIN <<>> = 1 .. 0 /\ 0 \in Nat
    OBVIOUS
<1>2. \E f : ReplayedBy(captures, <<>>, 0, f)
    BY <1>1, ReplayStepwise
<1> QED BY <1>2 DEF ReplayedBy

LEMMA ReplayOneMore ==
    ASSUME NEW captures, NEW out, NEW more, NEW N \in Nat, DOMAIN out = 1 .. N,
           NEW M \in Nat, M = N + 1, DOMAIN more = 1 .. M, \A n \in 1 .. N : more[n] = out[n]
    PROVE  Replay(captures, more) = Noted(captures, Replay(captures, out), more[N + 1])
<1>a. PICK f : ReplayedBy(captures, out, N, f)
    BY ReplayStepwise
<1>b. PICK g : ReplayedBy(captures, more, M, g)
    BY ReplayStepwise
<1>2. /\ f[0] = Reviews!Fresh
      /\ \A n \in 1 .. N : f[n] = Noted(captures, f[n - 1], out[n])
      /\ Replay(captures, out) = f[N]
    BY <1>a DEF ReplayedBy
<1>3. /\ g[0] = Reviews!Fresh
      /\ \A n \in 1 .. M : g[n] = Noted(captures, g[n - 1], more[n])
      /\ Replay(captures, more) = g[M]
    BY <1>b DEF ReplayedBy
<1> DEFINE same == {n \in 0 .. N : f[n] = g[n]}
<1>4. 0 \in same
    BY <1>2, <1>3
<1>5. ASSUME NEW n \in 1 .. N, n - 1 \in same PROVE n \in same
    <2>1. f[n - 1] = g[n - 1] /\ n \in 1 .. M /\ more[n] = out[n]
        BY <1>5
    <2> QED BY <1>2, <1>3, <2>1
<1> HIDE DEF same
<1>6. N \in same
    <2>1. \A n \in 1 .. N : n - 1 \in same => n \in same
        BY <1>5
    <2>2. \A n \in 0 .. N : n \in same
        BY <1>4, <2>1, UpTo, Zenon
    <2> QED BY <2>2
<1>7. f[N] = g[N] /\ M \in 1 .. M /\ M - 1 = N
    BY <1>6 DEF same
<1> QED BY <1>2, <1>3, <1>7

LEMMA ReplayAppend ==
    ASSUME NEW captures, NEW S, NEW out \in Seq(S), NEW row \in S
    PROVE  Replay(captures, Append(out, row)) = Noted(captures, Replay(captures, out), row)
<1> DEFINE more == Append(out, row)
<1>1. /\ Len(out) \in Nat /\ DOMAIN out = 1 .. Len(out) /\ DOMAIN more = 1 .. (Len(out) + 1)
      /\ more[Len(out) + 1] = row /\ \A n \in 1 .. Len(out) : more[n] = out[n]
    OBVIOUS
<1> HIDE DEF more
<1>2. \A M \in Nat : M = Len(out) + 1 /\ DOMAIN more = 1 .. M =>
          Replay(captures, more) = Noted(captures, Replay(captures, out), more[M])
    BY <1>1, ReplayOneMore
<1> QED BY <1>1, <1>2 DEF more

\* Sequences are joined one by one.
Lists(seqs, W, N) == seqs \in [1 .. N -> Seq(W)]

Joins(f, seqs, W, N) ==
    /\ f \in [1 .. N -> Seq(W)]
    /\ f[1] = seqs[1]
    /\ \A n \in 2 .. N : f[n] = f[n - 1] \o seqs[n]

LEMMA FlattenStepwise ==
    ASSUME NEW W, NEW N \in Nat \ {0}, NEW seqs, Lists(seqs, W, N)
    PROVE  \E f : Joins(f, seqs, W, N) /\ Reviews!FlattenSeq(seqs) = f[N]
<1> DEFINE Value(f, i) == IF i = 1 THEN seqs[i] ELSE f[i - 1] \o seqs[i]
           follows(f, k) == f = [i \in 1 .. k |-> Value(f, i)]
           flatten == CHOOSE f : f = [i \in 1 .. N |-> Value(f, i)]
<1> USE DEF Lists
<1>1. Len(seqs) = N /\ 1 .. Len(seqs) = 1 .. N
    OBVIOUS
<1>2. \E f : follows(f, N)
    <2> DEFINE stuck == {k \in 1 .. N : ~ \E f : follows(f, k)}
    <2>0. N \in 1 .. N
        OBVIOUS
    <2> SUFFICES ASSUME stuck # {} PROVE FALSE
        BY <2>0, Zenon
    <2>1. PICK k \in stuck : \A l \in stuck : k <= l
        <3> HIDE DEF follows
        <3>1. stuck \in SUBSET (1 .. N)
            BY Zenon
        <3> HIDE DEF stuck
        <3>2. stuck \in SUBSET Nat
            BY <3>1
        <3> QED BY <3>2, LeastNatural
    <2>2. k # 1
        <3> DEFINE f == [i \in 1 .. 1 |-> seqs[i]]
        <3>1. follows(f, 1)
            OBVIOUS
        <3> QED BY <3>1
    <2>3. k \in 1 .. N /\ k - 1 \in 1 .. N /\ ~(k <= k - 1)
        BY <2>2
    <2>4. PICK f : follows(f, k - 1)
        BY <2>1, <2>3
    <2> DEFINE longer == [i \in 1 .. k |-> IF i = k THEN f[k - 1] \o seqs[k] ELSE f[i]]
    <2>5. ASSUME NEW i \in 1 .. k PROVE longer[i] = Value(longer, i)
        <3>1. CASE i = k
            <4>1. k - 1 \in 1 .. k /\ k - 1 # k
                BY <2>2, <2>3
            <4>2. longer[k - 1] = f[k - 1] /\ longer[i] = f[k - 1] \o seqs[k]
                BY <3>1, <4>1
            <4> QED BY <2>2, <3>1, <4>2
        <3>2. CASE i # k
            <4>1. i \in 1 .. k - 1 /\ (i # 1 => i - 1 \in 1 .. k /\ i - 1 # k)
                BY <2>3, <3>2
            <4>2. f[i] = Value(f, i)
                BY <2>4, <4>1
            <4>3. longer[i] = f[i] /\ (i # 1 => longer[i - 1] = f[i - 1])
                BY <2>3, <3>2, <4>1
            <4> QED BY <4>2, <4>3
        <3> QED BY <3>1, <3>2
    <2>6. follows(longer, k)
        BY <2>5
    <2> QED BY <2>1, <2>6
<1>3. flatten = [i \in 1 .. N |-> Value(flatten, i)]
    BY <1>2
<1>4. Reviews!FlattenSeq(seqs) = flatten[N]
    BY <1>1 DEF Reviews!FlattenSeq
<1> HIDE DEF flatten
<1>5. /\ flatten[1] = seqs[1]
      /\ \A n \in 2 .. N : flatten[n] = flatten[n - 1] \o seqs[n]
    <2>1. ASSUME NEW n \in 1 .. N PROVE flatten[n] = Value(flatten, n)
        BY <1>3
    <2>2. 1 \in 1 .. N /\ \A n \in 2 .. N : n \in 1 .. N /\ n # 1
        OBVIOUS
    <2> QED BY <2>1, <2>2
<1> DEFINE joined == {n \in 0 .. N : n # 0 => flatten[n] \in Seq(W)}
<1>6. 0 \in joined
    OBVIOUS
<1>7. ASSUME NEW n \in 1 .. N, n - 1 \in joined PROVE n \in joined
    <2>1. CASE n = 1
        BY <1>5, <2>1
    <2>2. CASE n # 1
        <3>1. flatten[n - 1] \in Seq(W) /\ seqs[n] \in Seq(W) /\ n \in 2 .. N
            BY <1>7, <2>2
        <3>2. flatten[n] = flatten[n - 1] \o seqs[n]
            BY <1>5, <3>1
        <3>3. flatten[n - 1] \o seqs[n] \in Seq(W)
            BY <3>1, ConcatProperties
        <3>4. flatten[n] \in Seq(W) /\ n \in 0 .. N
            BY <3>2, <3>3
        <3> QED BY <3>4
    <2> QED BY <2>1, <2>2
<1> HIDE DEF joined
<1>8. \A n \in 0 .. N : n \in joined
    BY <1>6, <1>7, UpTo
<1>9. \A n \in 1 .. N : flatten[n] \in Seq(W)
    <2>1. \A n \in 1 .. N : n \in joined /\ n # 0
        BY <1>8
    <2> QED BY <2>1 DEF joined
<1>10. flatten \in [1 .. N -> Seq(W)]
    BY <1>3, <1>9
<1> QED BY <1>4, <1>5, <1>10 DEF Joins

\* What is appended: rows of the captures of a file, and rejects.
CallsOf(captures) ==
    {captures[i].call : i \in 1 .. Len(captures)}
        \cup {Reviews!Wrong(captures[i].call) : i \in 1 .. Len(captures)}

RowsOf(captures) ==
    [bucket : {"real", "corrected", "alternative"}, capture : 1 .. Len(captures),
     label : {"valid", "wrong_tool", "wrong_arguments", "tool_not_needed"},
     call : CallsOf(captures)]

AlternativesOf(captures) == {row \in RowsOf(captures) : row.bucket = "alternative"}

RejectsOf(captures) ==
    [capture : 1 .. Len(captures), reason : {"capture", "correction", "alternative"}]

WritesOf(captures) ==
    {row \in RowsOf(captures) : row.bucket # "alternative"} \cup RejectsOf(captures)

\* A row of its own decides a capture, and so does a reject of the capture.
IsRow(write) == "bucket" \in DOMAIN write

Decides(write, c) ==
    /\ IF IsRow(write) THEN write.bucket = "real" ELSE write.reason = "capture"
    /\ write.capture = c

\* Writes settle some captures: each is decided by one of them, and no other is.
Settles(writes, C) ==
    /\ \A k \in 1 .. Len(writes) : \A c : Decides(writes[k], c) => c \in C
    /\ \A k, l \in 1 .. Len(writes) : \A c :
          Decides(writes[k], c) /\ Decides(writes[l], c) => k = l
    /\ \A c \in C : \E k \in 1 .. Len(writes) : Decides(writes[k], c)

LEMMA SettlesJoined ==
    ASSUME NEW W, NEW v \in Seq(W), NEW w \in Seq(W), NEW C, NEW D, C \cap D = {},
           Settles(v, C), Settles(w, D)
    PROVE  Settles(v \o w, C \cup D)
<1> DEFINE m == Len(v)
           n == Len(w)
           all == v \o w
<1>1. /\ m \in Nat /\ n \in Nat /\ Len(all) = m + n
      /\ \A k \in 1 .. m : all[k] = v[k]
      /\ \A k \in 1 .. n : all[m + k] = w[k]
    OBVIOUS
<1> HIDE DEF m, n, all
<1>2. ASSUME NEW k \in 1 .. Len(all)
      PROVE  \/ k \in 1 .. m /\ all[k] = v[k]
             \/ k - m \in 1 .. n /\ all[k] = w[k - m]
    <2>1. CASE k <= m
        BY <1>1, <2>1
    <2>2. CASE ~(k <= m)
        <3>1. k - m \in 1 .. n /\ m + (k - m) = k
            BY <1>1, <2>2
        <3> QED BY <1>1, <3>1
    <2> QED BY <2>1, <2>2
<1>3. /\ \A k \in 1 .. m : \A c : Decides(v[k], c) => c \in C
      /\ \A k, l \in 1 .. m : \A c : Decides(v[k], c) /\ Decides(v[l], c) => k = l
      /\ \A c \in C : \E k \in 1 .. m : Decides(v[k], c)
    BY DEF Settles, m
<1>4. /\ \A k \in 1 .. n : \A c : Decides(w[k], c) => c \in D
      /\ \A k, l \in 1 .. n : \A c : Decides(w[k], c) /\ Decides(w[l], c) => k = l
      /\ \A c \in D : \E k \in 1 .. n : Decides(w[k], c)
    BY DEF Settles, n
<1>5. ASSUME NEW k \in 1 .. Len(all), NEW c, Decides(all[k], c) PROVE c \in C \cup D
    BY <1>2, <1>3, <1>4, <1>5
<1>6. ASSUME NEW k \in 1 .. Len(all), NEW l \in 1 .. Len(all), NEW c,
             Decides(all[k], c), Decides(all[l], c)
      PROVE  k = l
    <2>1. CASE c \in C
        <3>1. c \notin D
            BY <2>1
        <3>2. k \in 1 .. m /\ all[k] = v[k]
            BY <1>2, <1>4, <1>6, <3>1
        <3>3. l \in 1 .. m /\ all[l] = v[l]
            BY <1>2, <1>4, <1>6, <3>1
        <3> QED BY <1>3, <1>6, <3>2, <3>3
    <2>2. CASE c \notin C
        <3>2. k - m \in 1 .. n /\ all[k] = w[k - m]
            BY <1>2, <1>3, <1>6, <2>2
        <3>3. l - m \in 1 .. n /\ all[l] = w[l - m]
            BY <1>2, <1>3, <1>6, <2>2
        <3>4. k - m = l - m
            BY <1>4, <1>6, <3>2, <3>3
        <3> QED BY <1>1, <3>4
    <2> QED BY <2>1, <2>2
<1>7. ASSUME NEW c \in C \cup D PROVE \E k \in 1 .. Len(all) : Decides(all[k], c)
    <2>1. CASE c \in C
        <3>1. PICK k \in 1 .. m : Decides(v[k], c)
            BY <1>3, <2>1
        <3>2. k \in 1 .. Len(all) /\ all[k] = v[k]
            BY <1>1
        <3> QED BY <3>1, <3>2
    <2>2. CASE c \in D
        <3>1. PICK k \in 1 .. n : Decides(w[k], c)
            BY <1>4, <2>2
        <3>2. m + k \in 1 .. Len(all) /\ all[m + k] = w[k]
            BY <1>1
        <3> QED BY <3>1, <3>2
    <2> QED BY <2>1, <2>2
<1> QED BY <1>5, <1>6, <1>7 DEF Settles, all

\* What is written for a capture settles it, whatever the reviewers answer.
LEMMA OutcomeSettles ==
    ASSUME NEW captures, captures = state.captures, Len(captures) \in Nat,
           NEW c \in 1 .. Len(captures), NEW outcome \in Reviews!Outcomes(c)
    PROVE  outcome \in Seq(WritesOf(captures)) /\ Settles(outcome, {c})
<1> DEFINE call == captures[c].call
           wrong == Reviews!Wrong(call)
           own(label) == [bucket |-> "real", capture |-> c, label |-> label, call |-> call]
           corrected == [bucket |-> "corrected", capture |-> c, label |-> "valid", call |-> wrong]
           reject(reason) == [capture |-> c, reason |-> reason]
<1>1. /\ call \in CallsOf(captures) /\ wrong \in CallsOf(captures)
    BY DEF CallsOf
<1>2. \/ outcome = <<reject("capture")>>
      \/ \E label \in {"valid", "wrong_tool"} : outcome = <<own(label)>>
      \/ outcome = <<own("wrong_tool"), corrected>>
      \/ outcome = <<own("wrong_tool"), reject("correction")>>
    BY DEF Reviews!Outcomes, Reviews!Row
<1> HIDE DEF call, wrong
<1>3. ASSUME NEW label \in {"valid", "wrong_tool"}
      PROVE  /\ own(label) \in WritesOf(captures)
             /\ \A d : Decides(own(label), d) <=> d = c
    BY <1>1 DEF WritesOf, RowsOf, Decides, IsRow
<1>4. corrected \in WritesOf(captures) /\ \A d : ~Decides(corrected, d)
    BY <1>1 DEF WritesOf, RowsOf, Decides, IsRow
<1>5. /\ reject("capture") \in WritesOf(captures) /\ reject("correction") \in WritesOf(captures)
      /\ \A d : Decides(reject("capture"), d) <=> d = c
      /\ \A d : ~Decides(reject("correction"), d)
    BY DEF WritesOf, RejectsOf, Decides, IsRow
<1> HIDE DEF own, corrected, reject
<1>6. ASSUME NEW w \in WritesOf(captures), \A d : Decides(w, d) <=> d = c
      PROVE  <<w>> \in Seq(WritesOf(captures)) /\ Settles(<<w>>, {c})
    BY <1>6 DEF Settles
<1>7. ASSUME NEW w \in WritesOf(captures), \A d : Decides(w, d) <=> d = c,
             NEW x \in WritesOf(captures), \A d : ~Decides(x, d)
      PROVE  <<w, x>> \in Seq(WritesOf(captures)) /\ Settles(<<w, x>>, {c})
    <2>1. Len(<<w, x>>) = 2 /\ \A k \in 1 .. 2 : k = 1 \/ k = 2
        OBVIOUS
    <2> QED BY <1>7, <2>1 DEF Settles
<1> QED BY <1>2, <1>3, <1>4, <1>5, <1>6, <1>7

\* So do the outcomes of a batch, one after another.
Reviewed(captures, batch, N, outcome) ==
    /\ captures = state.captures /\ Len(captures) \in Nat
    /\ batch \in [1 .. N -> 1 .. Len(captures)]
    /\ \A i, j \in 1 .. N : batch[i] = batch[j] => i = j
    /\ outcome = [i \in 1 .. N |-> outcome[i]]
    /\ \A i \in 1 .. N : outcome[i] \in Reviews!Outcomes(batch[i])

LEMMA BatchSettles ==
    ASSUME NEW captures, NEW batch, NEW N \in Nat \ {0}, NEW outcome,
           Reviewed(captures, batch, N, outcome)
    PROVE  /\ Reviews!FlattenSeq(outcome) \in Seq(WritesOf(captures))
           /\ Settles(Reviews!FlattenSeq(outcome), {batch[i] : i \in 1 .. N})
<1> DEFINE first(n) == {batch[i] : i \in 1 .. n}
<1>1. /\ captures = state.captures /\ Len(captures) \in Nat
      /\ batch \in [1 .. N -> 1 .. Len(captures)]
      /\ \A i, j \in 1 .. N : batch[i] = batch[j] => i = j
      /\ outcome = [i \in 1 .. N |-> outcome[i]]
      /\ \A i \in 1 .. N : outcome[i] \in Reviews!Outcomes(batch[i])
    BY DEF Reviewed
<1>2. \A i \in 1 .. N : batch[i] \in 1 .. Len(captures)
    BY <1>1
<1>3. \A i \in 1 .. N : outcome[i] \in Seq(WritesOf(captures)) /\ Settles(outcome[i], {batch[i]})
    BY <1>1, <1>2, OutcomeSettles
<1>4. outcome \in [1 .. N -> Seq(WritesOf(captures))]
    BY <1>1, <1>3
<1> DEFINE W == WritesOf(captures)
<1> HIDE DEF W
<1>5. PICK f : Joins(f, outcome, W, N) /\ Reviews!FlattenSeq(outcome) = f[N]
    <2>1. Lists(outcome, W, N)
        BY <1>4 DEF W, Lists
    <2> QED BY ONLY <2>1, N \in Nat \ {0}, FlattenStepwise
<1>55. /\ f \in [1 .. N -> Seq(W)] /\ f[1] = outcome[1]
      /\ \A n \in 2 .. N : f[n] = f[n - 1] \o outcome[n]
    BY <1>5 DEF Joins
<1> DEFINE settled == {n \in 0 .. N : n # 0 => Settles(f[n], first(n))}
<1>6. 0 \in settled
    OBVIOUS
<1>7. ASSUME NEW n \in 1 .. N, n - 1 \in settled PROVE n \in settled
    <2>1. CASE n = 1
        <3>1. first(1) = {batch[1]}
            OBVIOUS
        <3>2. Settles(f[1], first(1)) /\ n \in 0 .. N
            BY <1>3, <1>55, <1>5, <2>1, <3>1
        <3> HIDE DEF first
        <3> QED BY <2>1, <3>2
    <2>2. CASE n # 1
        <3>1. n \in 2 .. N /\ n - 1 \in 1 .. N /\ n - 1 # 0 /\ n \in 1 .. N
            BY <2>2
        <3>2. Settles(f[n - 1], first(n - 1)) /\ Settles(outcome[n], {batch[n]})
            BY <1>3, <1>7, <3>1
        <3>3. f[n - 1] \in Seq(W) /\ outcome[n] \in Seq(W)
            BY <1>3, <1>55, <3>1 DEF W
        <3>4. first(n - 1) \cap {batch[n]} = {} /\ first(n - 1) \cup {batch[n]} = first(n)
            <4>1. \A i \in 1 .. n - 1 : i \in 1 .. N /\ i # n
                BY <3>1
            <4>2. \A i \in 1 .. n : i \in 1 .. n - 1 \/ i = n
                BY <3>1
            <4>3. first(n - 1) \cap {batch[n]} = {}
                BY <1>1, <4>1, <3>1
            <4> QED BY <4>1, <4>2, <4>3
        <3> HIDE DEF first
        <3>5. Settles(f[n - 1] \o outcome[n], first(n - 1) \cup {batch[n]})
            BY <3>2, <3>3, <3>4, SettlesJoined
        <3>6. f[n] = f[n - 1] \o outcome[n]
            BY <1>55, <1>5, <3>1
        <3>7. Settles(f[n], first(n))
            BY <3>4, <3>5, <3>6
        <3> QED BY <3>1, <3>7
    <2> QED BY <2>1, <2>2
<1> HIDE DEF settled
<1>8. \A n \in 0 .. N : n \in settled
    BY <1>6, <1>7, UpTo
<1>9. N \in settled
    BY <1>8
<1>10. Settles(f[N], first(N)) /\ f[N] \in Seq(W)
    <2> HIDE DEF first
    <2>1. Settles(f[N], first(N))
        BY <1>9 DEF settled
    <2> QED BY <1>55, <2>1
<1> QED BY <1>55, <1>5, <1>10 DEF W

\* The rows of one bucket, and the alternatives of one group.
OfIn(out, bucket) == {i \in 1 .. Len(out) : out[i].bucket = bucket}

GroupIn(captures, out, g) ==
    {i \in OfIn(out, "alternative") : captures[out[i].capture].group = g}

\* The captures with a row of their own, and those that were refused.
RealIn(out, c) == \E i \in OfIn(out, "real") : out[i].capture = c

RefusedIn(rejects, c) ==
    \E i \in 1 .. Len(rejects) : rejects[i].reason = "capture" /\ rejects[i].capture = c

DecidedIn(out, rejects, c) == RealIn(out, c) \/ RefusedIn(rejects, c)

\* What a process knows of the rows of a file is what the file holds.
Booked(captures, out, mem) ==
    /\ mem = [captures |-> mem.captures, rows |-> mem.rows, valid |-> mem.valid,
              perGroup |-> mem.perGroup, real |-> mem.real, alternatives |-> mem.alternatives]
    /\ \A c : c \in mem.captures <=> RealIn(out, c)
    /\ \A i \in 1 .. Len(out) : KeyIn(captures, out[i]) \in mem.rows
    /\ mem.valid \in SUBSET (1 .. Len(captures))
    /\ mem.perGroup \in [Groups -> Nat]
    /\ \A g \in Groups : mem.perGroup[g] = Cardinality(GroupIn(captures, out, g))
    /\ mem.real = Cardinality(OfIn(out, "real"))
    /\ mem.alternatives = Cardinality(OfIn(out, "alternative"))

LEMMA PlacesFinite ==
    ASSUME NEW n \in Nat, NEW S \in SUBSET (1 .. n)
    PROVE  IsFiniteSet(S) /\ Cardinality(S) \in Nat /\ n + 1 \notin S
<1>1. IsFiniteSet(1 .. n)
    BY FS_Interval
<1>2. IsFiniteSet(S)
    BY <1>1, FS_Subset
<1>3. n + 1 \notin S
    OBVIOUS
<1> QED BY <1>2, <1>3, FS_CardinalityType

LEMMA CountGrows ==
    ASSUME NEW n \in Nat, NEW S \in SUBSET (1 .. n), NEW more, NEW added \in BOOLEAN,
           more = S \cup (IF added THEN {n + 1} ELSE {})
    PROVE  Cardinality(more) = Cardinality(S) + (IF added THEN 1 ELSE 0)
<1>1. IsFiniteSet(S) /\ Cardinality(S) \in Nat /\ n + 1 \notin S
    BY PlacesFinite
<1>2. Cardinality(S \cup {n + 1}) = Cardinality(S) + 1
    BY <1>1, FS_AddElement
<1>3. CASE added
    BY <1>2, <1>3
<1>4. CASE ~added
    <2>1. more = S
        BY <1>4
    <2> QED BY <1>1, <1>4, <2>1
<1> QED BY <1>3, <1>4

LEMMA FreshBooked == ASSUME NEW captures PROVE Booked(captures, <<>>, Reviews!Fresh)
<1>1. Len(<<>>) = 0 /\ 1 .. 0 = {}
    OBVIOUS
<1>2. \A bucket : OfIn(<<>>, bucket) = {}
    BY <1>1 DEF OfIn
<1>3. \A g : GroupIn(captures, <<>>, g) = {}
    BY <1>2 DEF GroupIn
<1>4. \A c : ~RealIn(<<>>, c)
    BY <1>2 DEF RealIn
<1>5. Cardinality({}) = 0
    BY FS_EmptySet
<1> QED BY <1>1, <1>2, <1>3, <1>4, <1>5 DEF Booked, Reviews!Fresh

\* What a row adds to a file.
LEMMA PlacesGrow ==
    ASSUME NEW captures, NEW out \in Seq(RowsOf(captures)), NEW row \in RowsOf(captures)
    PROVE  LET more == Append(out, row)
           IN  /\ Len(more) = Len(out) + 1 /\ Len(out) \in Nat
               /\ more[Len(out) + 1] = row /\ \A i \in 1 .. Len(out) : more[i] = out[i]
               /\ \A bucket : OfIn(more, bucket) =
                      OfIn(out, bucket) \cup (IF row.bucket = bucket THEN {Len(out) + 1} ELSE {})
               /\ \A g : GroupIn(captures, more, g) =
                      GroupIn(captures, out, g)
                          \cup (IF row.bucket = "alternative" /\ captures[row.capture].group = g
                                THEN {Len(out) + 1} ELSE {})
               /\ \A c : RealIn(more, c) <=>
                      RealIn(out, c) \/ (row.bucket = "real" /\ row.capture = c)
<1> DEFINE more == Append(out, row)
           n == Len(out)
<1>1. /\ n \in Nat /\ Len(more) = n + 1 /\ more[n + 1] = row
      /\ \A i \in 1 .. n : more[i] = out[i]
    OBVIOUS
<1> HIDE DEF more, n
<1>2. ASSUME NEW bucket
      PROVE  OfIn(more, bucket) = OfIn(out, bucket) \cup (IF row.bucket = bucket THEN {n + 1} ELSE {})
    <2>1. ASSUME NEW i
          PROVE  i \in OfIn(more, bucket) <=>
                    i \in OfIn(out, bucket) \/ (row.bucket = bucket /\ i = n + 1)
        <3>1. i \in 1 .. (n + 1) <=> i \in 1 .. n \/ i = n + 1
            BY <1>1
        <3>2. i \in 1 .. n => i # n + 1
            BY <1>1
        <3> QED BY <1>1, <3>1, <3>2 DEF OfIn, n
    <2> QED BY <2>1
<1>3. ASSUME NEW i \in OfIn(out, "alternative") \cup OfIn(out, "real")
      PROVE  more[i] = out[i] /\ i # n + 1
    <2>1. i \in 1 .. n
        BY DEF OfIn, n
    <2> QED BY <1>1, <2>1
<1>4. ASSUME NEW g
      PROVE  GroupIn(captures, more, g) =
                GroupIn(captures, out, g)
                    \cup (IF row.bucket = "alternative" /\ captures[row.capture].group = g
                          THEN {n + 1} ELSE {})
    <2>1. OfIn(more, "alternative") =
              OfIn(out, "alternative") \cup (IF row.bucket = "alternative" THEN {n + 1} ELSE {})
        BY <1>2
    <2> QED BY <1>1, <1>3, <2>1 DEF GroupIn
<1>5. ASSUME NEW c
      PROVE  RealIn(more, c) <=> RealIn(out, c) \/ (row.bucket = "real" /\ row.capture = c)
    <2>1. OfIn(more, "real") = OfIn(out, "real") \cup (IF row.bucket = "real" THEN {n + 1} ELSE {})
        BY <1>2
    <2> QED BY <1>1, <1>3, <2>1 DEF RealIn
<1> QED BY <1>1, <1>2, <1>4, <1>5 DEF more, n

LEMMA NotedBooked ==
    ASSUME NEW captures, \A i \in 1 .. Len(captures) : captures[i].group \in Groups,
           NEW out \in Seq(RowsOf(captures)), NEW row \in RowsOf(captures),
           NEW mem, Booked(captures, out, mem)
    PROVE  Booked(captures, Append(out, row), Noted(captures, mem, row))
<1> DEFINE more == Append(out, row)
           next == Noted(captures, mem, row)
           n == Len(out)
           g == captures[row.capture].group
<1>1. /\ n \in Nat /\ Len(more) = n + 1
      /\ more[n + 1] = row /\ \A i \in 1 .. n : more[i] = out[i]
    BY PlacesGrow
<1>2. \A bucket : OfIn(more, bucket) =
          OfIn(out, bucket) \cup (IF row.bucket = bucket THEN {n + 1} ELSE {})
    BY PlacesGrow
<1>3. \A h : GroupIn(captures, more, h) =
          GroupIn(captures, out, h)
              \cup (IF row.bucket = "alternative" /\ g = h THEN {n + 1} ELSE {})
    BY PlacesGrow
<1>4. \A c : RealIn(more, c) <=> RealIn(out, c) \/ (row.bucket = "real" /\ row.capture = c)
    BY PlacesGrow
<1>5. row.capture \in 1 .. Len(captures) /\ g \in Groups
    BY DEF RowsOf
<1>6. \A bucket : OfIn(out, bucket) \in SUBSET (1 .. n)
    BY DEF OfIn
<1>7. \A h : GroupIn(captures, out, h) \in SUBSET (1 .. n)
    BY <1>6 DEF GroupIn
<1>8. /\ next = [captures |-> next.captures, rows |-> next.rows, valid |-> next.valid,
                 perGroup |-> next.perGroup, real |-> next.real,
                 alternatives |-> next.alternatives]
      /\ next.captures = mem.captures \cup (IF row.bucket = "real" THEN {row.capture} ELSE {})
      /\ next.rows = mem.rows \cup {KeyIn(captures, row)}
      /\ next.valid \in SUBSET (mem.valid \cup {row.capture})
      /\ next.perGroup = [mem.perGroup EXCEPT ![g] =
                             @ + (IF row.bucket = "alternative" THEN 1 ELSE 0)]
      /\ next.real = mem.real + (IF row.bucket = "real" THEN 1 ELSE 0)
      /\ next.alternatives = mem.alternatives + (IF row.bucket = "alternative" THEN 1 ELSE 0)
    BY DEF Noted
<1> HIDE DEF more, next, n, g
<1>9. \A c : c \in next.captures <=> RealIn(more, c)
    BY <1>4, <1>8 DEF Booked
<1>10. \A i \in 1 .. Len(more) : KeyIn(captures, more[i]) \in next.rows
    <2> SUFFICES ASSUME NEW i \in 1 .. Len(more) PROVE KeyIn(captures, more[i]) \in next.rows
        OBVIOUS
    <2>1. i \in 1 .. n \/ i = n + 1
        BY <1>1
    <2>2. CASE i \in 1 .. n
        <3>1. KeyIn(captures, out[i]) \in mem.rows
            BY <2>2 DEF Booked, n
        <3> QED BY <1>1, <1>8, <2>2, <3>1
    <2>3. CASE i = n + 1
        BY <1>1, <1>8, <2>3
    <2> QED BY <2>1, <2>2, <2>3
<1>11. next.valid \in SUBSET (1 .. Len(captures))
    BY <1>5, <1>8 DEF Booked
<1>12. next.perGroup \in [Groups -> Nat]
    <2>1. mem.perGroup \in [Groups -> Nat]
        BY DEF Booked
    <2> QED BY <1>5, <1>8, <2>1
<1>13. ASSUME NEW h \in Groups
       PROVE  next.perGroup[h] = Cardinality(GroupIn(captures, more, h))
    <2>1. mem.perGroup \in [Groups -> Nat]
          /\ mem.perGroup[h] = Cardinality(GroupIn(captures, out, h))
        BY DEF Booked
    <2> DEFINE added == row.bucket = "alternative" /\ g = h
    <2>2. /\ added \in BOOLEAN
          /\ GroupIn(captures, more, h) =
                GroupIn(captures, out, h) \cup (IF added THEN {n + 1} ELSE {})
        BY <1>3
    <2>3. next.perGroup[h] = mem.perGroup[h] + (IF added THEN 1 ELSE 0)
        BY <1>5, <1>8, <2>1
    <2> HIDE DEF added
    <2>4. Cardinality(GroupIn(captures, more, h)) =
              Cardinality(GroupIn(captures, out, h)) + (IF added THEN 1 ELSE 0)
        BY <1>1, <1>7, <2>2, CountGrows
    <2> QED BY <2>1, <2>3, <2>4
<1>14. ASSUME NEW bucket
       PROVE  Cardinality(OfIn(more, bucket)) =
                  Cardinality(OfIn(out, bucket)) + (IF row.bucket = bucket THEN 1 ELSE 0)
    <2> DEFINE added == row.bucket = bucket
    <2>1. added \in BOOLEAN
          /\ OfIn(more, bucket) = OfIn(out, bucket) \cup (IF added THEN {n + 1} ELSE {})
        BY <1>2
    <2> HIDE DEF added
    <2>2. Cardinality(OfIn(more, bucket)) =
              Cardinality(OfIn(out, bucket)) + (IF added THEN 1 ELSE 0)
        BY <1>1, <1>6, <2>1, CountGrows
    <2> QED BY <2>2 DEF added
<1>15. /\ next.real = Cardinality(OfIn(more, "real"))
       /\ next.alternatives = Cardinality(OfIn(more, "alternative"))
    BY <1>8, <1>14 DEF Booked
<1>16. Booked(captures, more, next)
    BY <1>8, <1>9, <1>10, <1>11, <1>12, <1>13, <1>15 DEF Booked
<1> QED BY <1>16 DEF more, next

\* What the two files say of the captures: each is decided once, no alternative is
\* written twice, and the alternatives are as many as were asked for.
FilesInv(captures, out, rejects) ==
    /\ \A i, j \in OfIn(out, "real") : out[i].capture = out[j].capture => i = j
    /\ \A i, j \in OfIn(out, "alternative") :
          KeyIn(captures, out[i]) = KeyIn(captures, out[j]) => i = j
    /\ \A i, j \in 1 .. Len(rejects) :
          rejects[i].reason = "capture" /\ rejects[j].reason = "capture"
              /\ rejects[i].capture = rejects[j].capture => i = j
    /\ \A c : ~(RealIn(out, c) /\ RefusedIn(rejects, c))
    /\ Booked(captures, out, Replay(captures, out))
    /\ \A g \in Groups : Replay(captures, out).perGroup[g] <= MaxPerGroup
    /\ Replay(captures, out).alternatives * AlternativesPer <= Replay(captures, out).real

\* A running process knows the files, except that it does not take note of its own rejects;
\* it does not look at their captures again.
MemInv(captures, out, rejects, mem, at) ==
    /\ mem = [Replay(captures, out) EXCEPT !.captures = mem.captures]
    /\ \A c \in mem.captures : DecidedIn(out, rejects, c)
    /\ \A c : DecidedIn(out, rejects, c) =>
                  c \in mem.captures \/ (RefusedIn(rejects, c) /\ c < at)

\* What it has read and not yet written was not decided before, and is not read twice.
BatchInv(out, rejects, batch, at) ==
    /\ \A i, j \in 1 .. Len(batch) : batch[i] = batch[j] => i = j
    /\ \A i \in 1 .. Len(batch) : batch[i] < at /\ ~DecidedIn(out, rejects, batch[i])

WritesInv(out, rejects, writes, at) ==
    /\ \A k, l \in 1 .. Len(writes) : \A c :
          Decides(writes[k], c) /\ Decides(writes[l], c) => k = l
    /\ \A k \in 1 .. Len(writes) : \A c :
          Decides(writes[k], c) => c < at /\ ~DecidedIn(out, rejects, c)

\* What it has passed is decided, or will be.
CoverInv(out, rejects, batch, writes, at) ==
    \A c \in 1 .. at - 1 :
        \/ DecidedIn(out, rejects, c)
        \/ \E i \in 1 .. Len(batch) : batch[i] = c
        \/ \E k \in 1 .. Len(writes) : Decides(writes[k], c)

ShareInv(captures, out, remaining) ==
    (Replay(captures, out).alternatives + remaining) * AlternativesPer <= Replay(captures, out).real

ReviewTypes(r) ==
    /\ r = [captures |-> r.captures, out |-> r.out, rejects |-> r.rejects, starts |-> r.starts,
            phase |-> r.phase, mem |-> r.mem, at |-> r.at, batch |-> r.batch,
            writes |-> r.writes, proposals |-> r.proposals, remaining |-> r.remaining]
    /\ r.captures \in Captured
    /\ r.out \in Seq(RowsOf(r.captures)) /\ r.rejects \in Seq(RejectsOf(r.captures))
    /\ r.phase \in {"stopped", "reading", "writing", "alternatives", "done"}
    /\ r.at \in 1 .. (Len(r.captures) + 1)
    /\ r.batch \in Seq(1 .. Len(r.captures)) /\ r.writes \in Seq(WritesOf(r.captures))
    /\ r.proposals \in Seq(AlternativesOf(r.captures)) /\ r.remaining \in Nat

PhaseInv(r) ==
    /\ r.phase # "reading" => r.batch = <<>>
    /\ r.phase # "writing" => r.writes = <<>>
    /\ r.phase \in {"alternatives", "done"} => r.at = Len(r.captures) + 1
    /\ r.phase \in {"reading", "writing", "alternatives"} =>
          MemInv(r.captures, r.out, r.rejects, r.mem, r.at)
    /\ r.phase # "stopped" => CoverInv(r.out, r.rejects, r.batch, r.writes, r.at)
    /\ r.phase = "alternatives" => ShareInv(r.captures, r.out, r.remaining)

ReviewInv(r) ==
    /\ ReviewTypes(r)
    /\ FilesInv(r.captures, r.out, r.rejects)
    /\ BatchInv(r.out, r.rejects, r.batch, r.at)
    /\ WritesInv(r.out, r.rejects, r.writes, r.at)
    /\ PhaseInv(r)

\* A capture file is a sequence of captures of the groups.
LEMMA CapturesAre ==
    ASSUME NEW captures \in Captured
    PROVE  /\ Len(captures) \in Nat /\ DOMAIN captures = 1 .. Len(captures)
           /\ \A i \in 1 .. Len(captures) : captures[i].group \in Groups
<1> DEFINE S == [group : Groups, call : STRING]
<1>1. captures \in Seq(S) /\ \A s \in S : s.group \in Groups
    BY ReviewAssumption
<1> HIDE DEF S
<1>2. /\ Len(captures) \in Nat /\ DOMAIN captures = 1 .. Len(captures)
      /\ \A i \in 1 .. Len(captures) : captures[i] \in S
    BY <1>1
<1> QED BY <1>1, <1>2

LEMMA NoneDecided ==
    ASSUME NEW c
    PROVE  ~RealIn(<<>>, c) /\ ~RefusedIn(<<>>, c) /\ ~DecidedIn(<<>>, <<>>, c)
BY DEF RealIn, RefusedIn, DecidedIn, OfIn

LEMMA NothingPending ==
    ASSUME NEW out, NEW rejects, NEW at
    PROVE  BatchInv(out, rejects, <<>>, at) /\ WritesInv(out, rejects, <<>>, at)
BY DEF BatchInv, WritesInv

LEMMA ReviewStarts == ASSUME Reviews!Init PROVE ReviewInv(state)
<1>1. PICK captures \in Captured :
          state = [captures |-> captures, out |-> <<>>, rejects |-> <<>>, starts |-> 0,
                   phase |-> "stopped", mem |-> Reviews!Fresh, at |-> 1, batch |-> <<>>,
                   writes |-> <<>>, proposals |-> <<>>, remaining |-> 0]
    BY DEF Reviews!Init
<1>2. Len(captures) \in Nat
    BY CapturesAre
<1>3. ReviewTypes(state)
    BY <1>1, <1>2 DEF ReviewTypes
<1>4. FilesInv(captures, <<>>, <<>>)
    <2>1. Replay(captures, <<>>) = Reviews!Fresh /\ Booked(captures, <<>>, Reviews!Fresh)
        BY ReplayEmpty, FreshBooked
    <2>2. /\ \A g \in Groups : Reviews!Fresh.perGroup[g] <= MaxPerGroup
          /\ Reviews!Fresh.alternatives = 0 /\ Reviews!Fresh.real = 0
        BY ReviewAssumption DEF Reviews!Fresh
    <2>3. 0 * AlternativesPer <= 0
        BY ReviewAssumption
    <2>4. \A bucket : OfIn(<<>>, bucket) = {}
        BY DEF OfIn
    <2> HIDE DEF Reviews!Fresh
    <2> QED BY <2>1, <2>2, <2>3, <2>4, NoneDecided DEF FilesInv
<1>5. PhaseInv(state)
    BY <1>1 DEF PhaseInv
<1> QED BY <1>1, <1>3, <1>4, <1>5, NothingPending DEF ReviewInv

\* A row or a reject is decided by what it decides.
LEMMA RejectsGrow ==
    ASSUME NEW captures, NEW rejects \in Seq(RejectsOf(captures)), NEW reject \in RejectsOf(captures)
    PROVE  LET more == Append(rejects, reject)
           IN  /\ Len(more) = Len(rejects) + 1 /\ Len(rejects) \in Nat
               /\ more[Len(rejects) + 1] = reject
               /\ \A i \in 1 .. Len(rejects) : more[i] = rejects[i]
               /\ \A c : RefusedIn(more, c) <=>
                      RefusedIn(rejects, c) \/ (reject.reason = "capture" /\ reject.capture = c)
<1> DEFINE more == Append(rejects, reject)
           n == Len(rejects)
<1>1. /\ n \in Nat /\ Len(more) = n + 1 /\ more[n + 1] = reject
      /\ \A i \in 1 .. n : more[i] = rejects[i]
    OBVIOUS
<1> HIDE DEF more, n
<1>2. \A i : i \in 1 .. (n + 1) <=> i \in 1 .. n \/ i = n + 1
    BY <1>1
<1>3. ASSUME NEW c
      PROVE  RefusedIn(more, c) <=>
                RefusedIn(rejects, c) \/ (reject.reason = "capture" /\ reject.capture = c)
    BY <1>1, <1>2 DEF RefusedIn, n
<1> QED BY <1>1, <1>3 DEF more, n

LEMMA RefusalKeepsFiles ==
    ASSUME NEW captures, NEW out, NEW rejects \in Seq(RejectsOf(captures)),
           NEW reject \in RejectsOf(captures), FilesInv(captures, out, rejects),
           reject.reason = "capture" => ~DecidedIn(out, rejects, reject.capture)
    PROVE  FilesInv(captures, out, Append(rejects, reject))
<1> DEFINE more == Append(rejects, reject)
           n == Len(rejects)
<1>1. /\ n \in Nat /\ Len(more) = n + 1 /\ more[n + 1] = reject
      /\ \A i \in 1 .. n : more[i] = rejects[i]
      /\ \A c : RefusedIn(more, c) <=>
             RefusedIn(rejects, c) \/ (reject.reason = "capture" /\ reject.capture = c)
    BY RejectsGrow
<1> HIDE DEF more
<1>2. ASSUME NEW i \in 1 .. Len(more), NEW j \in 1 .. Len(more), more[i].reason = "capture",
             more[j].reason = "capture", more[i].capture = more[j].capture
      PROVE  i = j
    <2>1. \A k \in 1 .. Len(more) : k \in 1 .. n \/ k = n + 1
        BY <1>1
    <2>2. ASSUME NEW k \in 1 .. n, more[k].reason = "capture",
                 reject.reason = "capture", more[k].capture = reject.capture
          PROVE  FALSE
        <3>1. RefusedIn(rejects, reject.capture)
            BY <1>1, <2>2 DEF RefusedIn
        <3> QED BY <2>2, <3>1 DEF DecidedIn
    <2>3. CASE i \in 1 .. n /\ j \in 1 .. n
        <3>1. more[i] = rejects[i] /\ more[j] = rejects[j]
            BY <1>1, <2>3
        <3> QED BY <1>2, <2>3, <3>1 DEF FilesInv
    <2>4. CASE i = n + 1 /\ j = n + 1
        BY <2>4
    <2>5. CASE i = n + 1 /\ j \in 1 .. n
        BY <1>1, <1>2, <2>2, <2>5
    <2>6. CASE i \in 1 .. n /\ j = n + 1
        BY <1>1, <1>2, <2>2, <2>6
    <2> QED BY <2>1, <2>3, <2>4, <2>5, <2>6
<1>3. \A c : ~(RealIn(out, c) /\ RefusedIn(more, c))
    BY <1>1 DEF FilesInv, DecidedIn
<1> QED BY <1>2, <1>3 DEF FilesInv, more

\* A row of its own may be written if its capture is not decided, and an alternative if it
\* is new and there is room for it.
LEMMA RowKeepsFiles ==
    ASSUME NEW captures, \A i \in 1 .. Len(captures) : captures[i].group \in Groups,
           NEW out \in Seq(RowsOf(captures)), NEW rejects, NEW row \in RowsOf(captures),
           FilesInv(captures, out, rejects),
           row.bucket = "real" => ~DecidedIn(out, rejects, row.capture),
           row.bucket = "alternative" =>
               LET mem == Replay(captures, out)
               IN  /\ KeyIn(captures, row) \notin mem.rows
                   /\ mem.perGroup[captures[row.capture].group] < MaxPerGroup
                   /\ (mem.alternatives + 1) * AlternativesPer <= mem.real
    PROVE  FilesInv(captures, Append(out, row), rejects)
<1> DEFINE more == Append(out, row)
           n == Len(out)
           mem == Replay(captures, out)
           next == Replay(captures, more)
           g == captures[row.capture].group
<1>1. /\ n \in Nat /\ Len(more) = n + 1 /\ more[n + 1] = row
      /\ \A i \in 1 .. n : more[i] = out[i]
      /\ \A bucket : OfIn(more, bucket) =
             OfIn(out, bucket) \cup (IF row.bucket = bucket THEN {n + 1} ELSE {})
      /\ \A c : RealIn(more, c) <=> RealIn(out, c) \/ (row.bucket = "real" /\ row.capture = c)
    BY PlacesGrow
<1>2. Booked(captures, out, mem)
    BY DEF FilesInv
<1>3. next = Noted(captures, mem, row)
    BY ReplayAppend
<1>4. Booked(captures, more, Noted(captures, mem, row))
    BY <1>2, NotedBooked
<1>5. /\ mem.perGroup \in [Groups -> Nat] /\ g \in Groups
      /\ mem.real \in Nat /\ mem.alternatives \in Nat
    <2>1. mem.real = Cardinality(OfIn(out, "real"))
          /\ mem.alternatives = Cardinality(OfIn(out, "alternative"))
          /\ mem.perGroup \in [Groups -> Nat]
        BY <1>2 DEF Booked
    <2>2. \A bucket : OfIn(out, bucket) \in SUBSET (1 .. n)
        BY DEF OfIn
    <2>3. \A bucket : Cardinality(OfIn(out, bucket)) \in Nat
        BY <1>1, <2>2, PlacesFinite
    <2>4. g \in Groups
        BY DEF RowsOf
    <2> QED BY <2>1, <2>3, <2>4
<1>6. /\ next.perGroup = [mem.perGroup EXCEPT ![g] =
                             @ + (IF row.bucket = "alternative" THEN 1 ELSE 0)]
      /\ next.real = mem.real + (IF row.bucket = "real" THEN 1 ELSE 0)
      /\ next.alternatives = mem.alternatives + (IF row.bucket = "alternative" THEN 1 ELSE 0)
    BY <1>3 DEF Noted
<1>7. row.bucket = "alternative" =>
          /\ KeyIn(captures, row) \notin mem.rows /\ mem.perGroup[g] < MaxPerGroup
          /\ (mem.alternatives + 1) * AlternativesPer <= mem.real
    OBVIOUS
<1> HIDE DEF more, n, mem, next, g
<1>8. ASSUME NEW bucket, NEW i \in OfIn(out, bucket)
      PROVE  more[i] = out[i] /\ i \in 1 .. n /\ i # n + 1
    <2>1. i \in 1 .. n
        BY <1>8 DEF OfIn, n
    <2> QED BY <1>1, <2>1
<1>9. ASSUME NEW i \in OfIn(more, "real"), NEW j \in OfIn(more, "real"),
             more[i].capture = more[j].capture
      PROVE  i = j
    <2>1. \A k \in OfIn(more, "real") :
              \/ k \in OfIn(out, "real") /\ more[k] = out[k]
              \/ k = n + 1 /\ row.bucket = "real" /\ more[k] = row
        BY <1>1, <1>8
    <2>2. ASSUME NEW k \in OfIn(out, "real"), row.bucket = "real", out[k].capture = row.capture
          PROVE  FALSE
        BY <2>2 DEF DecidedIn, RealIn
    <2>3. \A k, l \in OfIn(out, "real") : out[k].capture = out[l].capture => k = l
        BY DEF FilesInv
    <2> QED BY <1>9, <2>1, <2>2, <2>3
<1>10. ASSUME NEW i \in OfIn(more, "alternative"), NEW j \in OfIn(more, "alternative"),
              KeyIn(captures, more[i]) = KeyIn(captures, more[j])
       PROVE  i = j
    <2>1. \A k \in OfIn(more, "alternative") :
              \/ k \in OfIn(out, "alternative") /\ more[k] = out[k]
              \/ k = n + 1 /\ row.bucket = "alternative" /\ more[k] = row
        BY <1>1, <1>8
    <2>2. ASSUME NEW k \in OfIn(out, "alternative"), row.bucket = "alternative",
                 KeyIn(captures, out[k]) = KeyIn(captures, row)
          PROVE  FALSE
        <3>1. KeyIn(captures, out[k]) \in mem.rows
            BY <1>2, <1>8 DEF Booked, n
        <3> QED BY <1>7, <2>2, <3>1
    <2>3. \A k, l \in OfIn(out, "alternative") :
              KeyIn(captures, out[k]) = KeyIn(captures, out[l]) => k = l
        BY DEF FilesInv
    <2> QED BY <1>10, <2>1, <2>2, <2>3
<1>11. \A c : ~(RealIn(more, c) /\ RefusedIn(rejects, c))
    BY <1>1 DEF FilesInv, DecidedIn
<1>12. \A h \in Groups : next.perGroup[h] <= MaxPerGroup
    <2> SUFFICES ASSUME NEW h \in Groups PROVE next.perGroup[h] <= MaxPerGroup
        OBVIOUS
    <2>1. mem.perGroup[h] <= MaxPerGroup /\ mem.perGroup[h] \in Nat /\ MaxPerGroup \in Nat
        BY <1>5, ReviewAssumption DEF FilesInv, mem
    <2>2. CASE h = g /\ row.bucket = "alternative"
        <3>1. next.perGroup[h] = mem.perGroup[h] + 1
            BY <1>5, <1>6, <2>2
        <3> QED BY <1>7, <2>1, <2>2, <3>1
    <2>3. CASE ~(h = g /\ row.bucket = "alternative")
        <3>1. next.perGroup[h] = mem.perGroup[h]
            BY <1>5, <1>6, <2>1, <2>3
        <3> QED BY <2>1, <3>1
    <2> QED BY <2>2, <2>3
<1>13. next.alternatives * AlternativesPer <= next.real
    <2>1. mem.alternatives * AlternativesPer <= mem.real
        BY DEF FilesInv, mem
    <2>2. CASE row.bucket = "alternative"
        <3>1. next.alternatives = mem.alternatives + 1 /\ next.real = mem.real
            BY <1>5, <1>6, <2>2
        <3> QED BY <1>7, <2>2, <3>1
    <2>3. CASE row.bucket # "alternative"
        <3>1. next.alternatives = mem.alternatives /\ next.real >= mem.real /\ next.real \in Nat
            BY <1>5, <1>6, <2>3
        <3>2. mem.alternatives * AlternativesPer \in Nat
            BY <1>5, ReviewAssumption
        <3> QED BY <1>5, <2>1, <3>1, <3>2
    <2> QED BY <2>2, <2>3
<1>14. Booked(captures, more, next)
    BY <1>3, <1>4
<1>15. \A i, j \in 1 .. Len(rejects) :
          rejects[i].reason = "capture" /\ rejects[j].reason = "capture"
              /\ rejects[i].capture = rejects[j].capture => i = j
    BY DEF FilesInv
<1>16. /\ Booked(captures, more, Replay(captures, more))
       /\ \A h \in Groups : Replay(captures, more).perGroup[h] <= MaxPerGroup
       /\ Replay(captures, more).alternatives * AlternativesPer <= Replay(captures, more).real
    BY <1>12, <1>13, <1>14 DEF next
<1> HIDE DEF next
<1>17. FilesInv(captures, more, rejects)
    BY <1>9, <1>10, <1>11, <1>15, <1>16 DEF FilesInv
<1> QED BY <1>17 DEF more

\* A process that starts knows what both files tell.
LEMMA LoadedKnows ==
    ASSUME FilesInv(state.captures, state.out, state.rejects),
           state.rejects \in Seq(RejectsOf(state.captures))
    PROVE  MemInv(state.captures, state.out, state.rejects, Reviews!Loaded, 1)
<1> DEFINE rejects == state.rejects
           told == Replay(state.captures, state.out)
           refused == {reject.capture : reject \in {r \in Reviews!ToSet(rejects) :
                                                      r.reason = "capture"}}
<1>1. Reviews!Loaded = [told EXCEPT !.captures = @ \cup refused]
    BY LoadedIs
<1>2. Booked(state.captures, state.out, told)
    BY DEF FilesInv
<1>3. Reviews!Loaded.captures = told.captures \cup refused
      /\ Reviews!Loaded = [told EXCEPT !.captures = Reviews!Loaded.captures]
    BY <1>1, <1>2 DEF Booked
<1>4. ASSUME NEW c PROVE c \in refused <=> RefusedIn(rejects, c)
    <2>1. Reviews!ToSet(rejects) = {rejects[i] : i \in 1 .. Len(rejects)}
        BY DEF Reviews!ToSet
    <2> QED BY <2>1 DEF RefusedIn
<1>5. \A c : c \in told.captures <=> RealIn(state.out, c)
    BY <1>2 DEF Booked
<1> HIDE DEF told, refused
<1>6. \A c : c \in Reviews!Loaded.captures <=> DecidedIn(state.out, state.rejects, c)
    BY <1>3, <1>4, <1>5 DEF DecidedIn
<1> QED BY <1>3, <1>6 DEF MemInv, told

\* The fields of the state that an action leaves alone.
LEMMA StartKeeps ==
    ASSUME ReviewInv(state), Reviews!Start PROVE ReviewInv(state')
<1>1. /\ state' = [state EXCEPT !.starts = @ + 1, !.phase = "reading", !.mem = Reviews!Loaded,
                      !.at = 1, !.batch = <<>>, !.writes = <<>>, !.proposals = <<>>]
      /\ ReviewTypes(state)
    BY DEF Reviews!Start, ReviewInv
<1>2. Len(state.captures) \in Nat
    BY <1>1, CapturesAre DEF ReviewTypes
<1>3. /\ state'.captures = state.captures /\ state'.out = state.out
      /\ state'.rejects = state.rejects /\ state'.phase = "reading"
      /\ state'.mem = Reviews!Loaded /\ state'.at = 1 /\ state'.batch = <<>>
      /\ state'.writes = <<>>
    BY <1>1 DEF ReviewTypes
<1>4. ReviewTypes(state')
    <2>1. state' = [captures |-> state.captures, out |-> state.out, rejects |-> state.rejects,
                    starts |-> state.starts + 1, phase |-> "reading", mem |-> Reviews!Loaded,
                    at |-> 1, batch |-> <<>>, writes |-> <<>>, proposals |-> <<>>,
                    remaining |-> state.remaining]
        BY <1>1 DEF ReviewTypes
    <2>2. \A S : <<>> \in Seq(S)
        OBVIOUS
    <2>3. 1 \in 1 .. (Len(state.captures) + 1)
        BY <1>2
    <2>4. /\ state' = [captures |-> state'.captures, out |-> state'.out,
                       rejects |-> state'.rejects, starts |-> state'.starts,
                       phase |-> state'.phase, mem |-> state'.mem, at |-> state'.at,
                       batch |-> state'.batch, writes |-> state'.writes,
                       proposals |-> state'.proposals, remaining |-> state'.remaining]
          /\ state'.proposals = <<>> /\ state'.remaining = state.remaining
        BY <2>1
    <2>5. /\ state.captures \in Captured /\ state.remaining \in Nat
          /\ state.out \in Seq(RowsOf(state.captures))
          /\ state.rejects \in Seq(RejectsOf(state.captures))
        BY <1>1 DEF ReviewTypes
    <2>6. /\ state'.batch \in Seq(1 .. Len(state'.captures))
          /\ state'.writes \in Seq(WritesOf(state'.captures))
          /\ state'.proposals \in Seq(AlternativesOf(state'.captures))
        BY <1>3, <2>2, <2>4
    <2>7. /\ state'.captures \in Captured /\ state'.remaining \in Nat
          /\ state'.out \in Seq(RowsOf(state'.captures))
          /\ state'.rejects \in Seq(RejectsOf(state'.captures))
          /\ state'.phase \in {"stopped", "reading", "writing", "alternatives", "done"}
          /\ state'.at \in 1 .. (Len(state'.captures) + 1)
        BY <1>3, <2>3, <2>4, <2>5
    <2> QED BY <2>4, <2>6, <2>7 DEF ReviewTypes
<1>5. MemInv(state.captures, state.out, state.rejects, Reviews!Loaded, 1)
    BY <1>1, LoadedKnows DEF ReviewInv, ReviewTypes
<1>6. CoverInv(state.out, state.rejects, <<>>, <<>>, 1)
    BY DEF CoverInv
<1>7. PhaseInv(state')
    BY <1>3, <1>5, <1>6 DEF PhaseInv
<1> QED BY <1>3, <1>4, <1>7, NothingPending DEF ReviewInv

LEMMA ProposalsAre ==
    ASSUME NEW captures, captures = state.captures, NEW c \in 1 .. Len(captures)
    PROVE  Reviews!Proposals(c) \in Seq(AlternativesOf(captures))
<1> DEFINE call == captures[c].call
           wrong == Reviews!Wrong(call)
           first == [bucket |-> "alternative", capture |-> c, label |-> "wrong_arguments",
                     call |-> wrong]
           second == [bucket |-> "alternative", capture |-> c, label |-> "tool_not_needed",
                      call |-> call]
<1>1. call \in CallsOf(captures) /\ wrong \in CallsOf(captures)
    BY DEF CallsOf
<1>2. Reviews!Proposals(c) = <<first, second>>
    BY DEF Reviews!Proposals, Reviews!Row
<1> HIDE DEF call, wrong
<1>3. first \in AlternativesOf(captures) /\ second \in AlternativesOf(captures)
    BY <1>1 DEF AlternativesOf, RowsOf
<1> HIDE DEF first, second
<1> QED BY <1>2, <1>3

LEMMA ReadKeeps ==
    ASSUME ReviewInv(state), Reviews!Read PROVE ReviewInv(state')
<1> DEFINE c == state.at
           captures == state.captures
           more == IF c \in state.mem.valid THEN Reviews!Proposals(c) ELSE <<>>
<1>1. /\ state.phase = "reading" /\ c <= Len(captures)
      /\ \/ /\ c \notin state.mem.captures
            /\ state' = [state EXCEPT !.at = @ + 1, !.batch = Append(@, c)]
         \/ /\ c \in state.mem.captures
            /\ state' = [state EXCEPT !.at = @ + 1, !.proposals = @ \o more]
    BY DEF Reviews!Read
<1>2. ReviewTypes(state)
    BY DEF ReviewInv
<1>3. /\ Len(captures) \in Nat /\ c \in 1 .. Len(captures) /\ c \in Nat
      /\ c + 1 \in 1 .. (Len(captures) + 1)
      /\ more \in Seq(AlternativesOf(captures))
    <2>1. Len(captures) \in Nat
        BY <1>2, CapturesAre DEF ReviewTypes
    <2>2. c \in 1 .. Len(captures)
        BY <1>1, <1>2, <2>1 DEF ReviewTypes
    <2>3. Reviews!Proposals(c) \in Seq(AlternativesOf(captures))
        BY <2>2, ProposalsAre
    <2>4. <<>> \in Seq(AlternativesOf(captures))
        OBVIOUS
    <2>5. c \in Nat /\ c + 1 \in 1 .. (Len(captures) + 1)
        BY <2>1, <2>2
    <2> QED BY <2>1, <2>2, <2>3, <2>4, <2>5
<1>4. /\ MemInv(captures, state.out, state.rejects, state.mem, c)
      /\ BatchInv(state.out, state.rejects, state.batch, c)
      /\ CoverInv(state.out, state.rejects, state.batch, state.writes, c)
      /\ state.writes = <<>> /\ FilesInv(captures, state.out, state.rejects)
    BY <1>1 DEF ReviewInv, PhaseInv
<1>5. MemInv(captures, state.out, state.rejects, state.mem, c + 1)
    <2>1. \A d : DecidedIn(state.out, state.rejects, d) =>
                     d \in state.mem.captures
                       \/ (RefusedIn(state.rejects, d) /\ d < c + 1)
        <3> SUFFICES ASSUME NEW d, RefusedIn(state.rejects, d), d < c PROVE d < c + 1
            BY <1>4 DEF MemInv
        <3>1. d \in 1 .. Len(captures)
            <4>1. PICK i \in 1 .. Len(state.rejects) : state.rejects[i].capture = d
                BY DEF RefusedIn
            <4>2. state.rejects[i] \in RejectsOf(captures)
                BY <1>2 DEF ReviewTypes
            <4> QED BY <4>1, <4>2 DEF RejectsOf
        <3> QED BY <1>3, <3>1
    <2> QED BY <1>4, <2>1 DEF MemInv
<1> HIDE DEF more
<1>6. ASSUME c \notin state.mem.captures,
             state' = [state EXCEPT !.at = @ + 1, !.batch = Append(@, c)]
      PROVE  ReviewInv(state')
    <2> DEFINE batch == Append(state.batch, c)
               n == Len(state.batch)
    <2>1. /\ n \in Nat /\ Len(batch) = n + 1 /\ batch[n + 1] = c
          /\ \A i \in 1 .. n : batch[i] = state.batch[i] /\ state.batch[i] \in 1 .. Len(captures)
          /\ batch \in Seq(1 .. Len(captures))
        BY <1>2, <1>3 DEF ReviewTypes
    <2>2. /\ state'.captures = captures /\ state'.out = state.out
          /\ state'.rejects = state.rejects /\ state'.phase = "reading"
          /\ state'.mem = state.mem /\ state'.at = c + 1 /\ state'.batch = batch
          /\ state'.writes = <<>>
        BY <1>1, <1>2, <1>4, <1>6 DEF ReviewTypes
    <2>3. ReviewTypes(state')
        BY <1>2, <1>3, <1>6, <2>1 DEF ReviewTypes
    <2> HIDE DEF batch, n
    <2>4. ~DecidedIn(state.out, state.rejects, c)
        BY <1>3, <1>4, <1>6 DEF MemInv
    <2>5. \A i \in 1 .. n : state.batch[i] < c
                            /\ ~DecidedIn(state.out, state.rejects, state.batch[i])
        BY <1>4 DEF BatchInv, n
    <2>6. \A i \in 1 .. Len(batch) : i \in 1 .. n \/ i = n + 1
        BY <2>1
    <2>7. BatchInv(state.out, state.rejects, batch, c + 1)
        <3>1. \A i \in 1 .. Len(batch) : batch[i] < c + 1
                                         /\ ~DecidedIn(state.out, state.rejects, batch[i])
            <4>1. \A i \in 1 .. n : batch[i] < c + 1
                                    /\ ~DecidedIn(state.out, state.rejects, batch[i])
                <5> SUFFICES ASSUME NEW i \in 1 .. n
                             PROVE  batch[i] < c + 1 /\ ~DecidedIn(state.out, state.rejects, batch[i])
                    OBVIOUS
                <5>1. batch[i] \in 1 .. Len(captures) /\ batch[i] < c
                      /\ ~DecidedIn(state.out, state.rejects, batch[i])
                    BY <2>1, <2>5
                <5> QED BY <1>3, <5>1
            <4>2. batch[n + 1] < c + 1 /\ ~DecidedIn(state.out, state.rejects, batch[n + 1])
                BY <1>3, <2>1, <2>4
            <4> QED BY <2>6, <4>1, <4>2
        <3>2. \A i, j \in 1 .. n : state.batch[i] = state.batch[j] => i = j
            BY <1>4 DEF BatchInv, n
        <3>3. \A i \in 1 .. n : batch[i] # batch[n + 1]
            <4> SUFFICES ASSUME NEW i \in 1 .. n PROVE batch[i] # batch[n + 1]
                OBVIOUS
            <4>1. batch[i] \in 1 .. Len(captures) /\ batch[i] < c /\ batch[n + 1] = c
                BY <2>1, <2>5
            <4> QED BY <1>3, <4>1
        <3>4. \A i, j \in 1 .. Len(batch) : batch[i] = batch[j] => i = j
            BY <2>1, <2>6, <3>2, <3>3
        <3> QED BY <3>1, <3>4 DEF BatchInv
    <2>8. CoverInv(state.out, state.rejects, batch, <<>>, c + 1)
        <3> SUFFICES ASSUME NEW d \in 1 .. (c + 1) - 1
                     PROVE  DecidedIn(state.out, state.rejects, d)
                              \/ \E i \in 1 .. Len(batch) : batch[i] = d
            BY DEF CoverInv
        <3>1. CASE d = c
            BY <2>1, <3>1
        <3>2. CASE d # c
            <4>1. d \in 1 .. c - 1
                BY <1>3, <3>2
            <4>2. DecidedIn(state.out, state.rejects, d) \/ \E i \in 1 .. n : state.batch[i] = d
                BY <1>4, <4>1 DEF CoverInv, n
            <4>3. \A i \in 1 .. n : i \in 1 .. Len(batch) /\ batch[i] = state.batch[i]
                BY <2>1
            <4> QED BY <4>2, <4>3
        <3> QED BY <3>1, <3>2
    <2>9. PhaseInv(state')
        BY <1>5, <2>2, <2>8 DEF PhaseInv
    <2> QED BY <1>4, <2>2, <2>3, <2>7, <2>9, NothingPending DEF ReviewInv
<1>7. ASSUME c \in state.mem.captures,
             state' = [state EXCEPT !.at = @ + 1, !.proposals = @ \o more]
      PROVE  ReviewInv(state')
    <2>2. /\ state'.captures = captures /\ state'.out = state.out
          /\ state'.rejects = state.rejects /\ state'.phase = "reading"
          /\ state'.mem = state.mem /\ state'.at = c + 1 /\ state'.batch = state.batch
          /\ state'.writes = <<>>
        BY <1>1, <1>2, <1>4, <1>7 DEF ReviewTypes
    <2>3. ReviewTypes(state')
        <3>1. state.proposals \o more \in Seq(AlternativesOf(captures))
            BY <1>2, <1>3, ConcatProperties DEF ReviewTypes
        <3> QED BY <1>2, <1>3, <1>7, <3>1 DEF ReviewTypes
    <2>4. DecidedIn(state.out, state.rejects, c)
        BY <1>4, <1>7 DEF MemInv
    <2>5. BatchInv(state.out, state.rejects, state.batch, c + 1)
        <3>1. \A i \in 1 .. Len(state.batch) : state.batch[i] \in 1 .. Len(captures)
            BY <1>2 DEF ReviewTypes
        <3> QED BY <1>3, <1>4, <3>1 DEF BatchInv
    <2>6. CoverInv(state.out, state.rejects, state.batch, <<>>, c + 1)
        <3>1. \A d \in 1 .. (c + 1) - 1 : d = c \/ d \in 1 .. c - 1
            BY <1>3
        <3> QED BY <1>4, <2>4, <3>1 DEF CoverInv
    <2>7. PhaseInv(state')
        BY <1>5, <2>2, <2>6 DEF PhaseInv
    <2> QED BY <1>4, <2>2, <2>3, <2>5, <2>7, NothingPending DEF ReviewInv
<1> QED BY <1>1, <1>6, <1>7

LEMMA BatchKeeps ==
    ASSUME ReviewInv(state), Reviews!Review PROVE ReviewInv(state')
<1> DEFINE captures == state.captures
           batch == state.batch
           N == Len(batch)
           C == {batch[i] : i \in 1 .. N}
<1>1. ReviewTypes(state) /\ state.phase = "reading" /\ batch # <<>>
    BY DEF ReviewInv, Reviews!Review
<1>2. /\ Len(captures) \in Nat /\ N \in Nat \ {0} /\ DOMAIN batch = 1 .. N
      /\ batch \in [1 .. N -> 1 .. Len(captures)]
    <2>1. Len(captures) \in Nat
        BY <1>1, CapturesAre DEF ReviewTypes
    <2>2. batch \in Seq(1 .. Len(captures))
        BY <1>1 DEF ReviewTypes
    <2>3. N \in Nat \ {0} /\ DOMAIN batch = 1 .. N /\ batch \in [1 .. N -> 1 .. Len(captures)]
        BY <1>1, <2>2
    <2> QED BY <2>1, <2>3
<1>3. PICK outcome \in [1 .. N -> UNION {Reviews!Outcomes(c) : c \in Reviews!ToSet(batch)}] :
          /\ \A i \in DOMAIN outcome : outcome[i] \in Reviews!Outcomes(batch[i])
          /\ state' = [state EXCEPT
                !.phase = "writing", !.batch = <<>>,
                !.writes = Reviews!FlattenSeq(outcome),
                !.proposals = @ \o Reviews!FlattenSeq(
                    [i \in DOMAIN outcome |->
                       IF "label" \in DOMAIN outcome[i][1] /\ outcome[i][1].label = "valid"
                       THEN Reviews!Proposals(batch[i]) ELSE <<>>])]
    BY DEF Reviews!Review
<1> DEFINE writes == Reviews!FlattenSeq(outcome)
           more == [i \in 1 .. N |->
                       IF "label" \in DOMAIN outcome[i][1] /\ outcome[i][1].label = "valid"
                       THEN Reviews!Proposals(batch[i]) ELSE <<>>]
           proposed == Reviews!FlattenSeq(more)
<1>4. /\ outcome = [i \in 1 .. N |-> outcome[i]] /\ DOMAIN outcome = 1 .. N
      /\ \A i \in 1 .. N : outcome[i] \in Reviews!Outcomes(batch[i])
    <2>1. DOMAIN outcome = 1 .. N /\ outcome = [i \in 1 .. N |-> outcome[i]]
        OBVIOUS
    <2> QED BY <1>3, <2>1
<1>5. state' = [state EXCEPT !.phase = "writing", !.batch = <<>>, !.writes = writes,
                             !.proposals = @ \o proposed]
    BY <1>3, <1>4
<1>6. /\ \A i, j \in 1 .. N : batch[i] = batch[j] => i = j
      /\ \A i \in 1 .. N : batch[i] < state.at /\ ~DecidedIn(state.out, state.rejects, batch[i])
    BY DEF ReviewInv, BatchInv
<1>7. writes \in Seq(WritesOf(captures)) /\ Settles(writes, C)
    <2>1. Reviewed(captures, batch, N, outcome)
        BY <1>2, <1>4, <1>6 DEF Reviewed
    <2> HIDE DEF N, batch, captures
    <2> QED BY ONLY <1>2, <2>1, BatchSettles
<1>8. proposed \in Seq(AlternativesOf(captures))
    <2> DEFINE W == AlternativesOf(captures)
    <2>1. \A i \in 1 .. N : more[i] \in Seq(W)
        <3> SUFFICES ASSUME NEW i \in 1 .. N PROVE more[i] \in Seq(W)
            OBVIOUS
        <3>1. Reviews!Proposals(batch[i]) \in Seq(W)
            BY <1>2, ProposalsAre
        <3>2. <<>> \in Seq(W)
            OBVIOUS
        <3> QED BY <3>1, <3>2
    <2>2. Lists(more, W, N)
        BY <2>1 DEF Lists
    <2> HIDE DEF more, W, N
    <2>3. PICK f : Joins(f, more, W, N) /\ Reviews!FlattenSeq(more) = f[N]
        BY ONLY <2>2, <1>2, FlattenStepwise
    <2>4. f[N] \in Seq(W)
        BY <1>2, <2>3 DEF Joins
    <2> QED BY <2>3, <2>4 DEF W
<1> HIDE DEF writes, more, proposed
<1>9. /\ state'.captures = captures /\ state'.out = state.out
      /\ state'.rejects = state.rejects /\ state'.phase = "writing"
      /\ state'.mem = state.mem /\ state'.at = state.at /\ state'.batch = <<>>
      /\ state'.writes = writes
    BY <1>1, <1>5 DEF ReviewTypes
<1>10. ReviewTypes(state')
    <2>1. state.proposals \o proposed \in Seq(AlternativesOf(captures))
        BY <1>1, <1>8, ConcatProperties DEF ReviewTypes
    <2>2. <<>> \in Seq(1 .. Len(captures))
        OBVIOUS
    <2> QED BY <1>1, <1>5, <1>7, <2>1, <2>2 DEF ReviewTypes
<1>11. MemInv(captures, state.out, state.rejects, state.mem, state.at)
       /\ CoverInv(state.out, state.rejects, batch, <<>>, state.at)
    BY <1>1 DEF ReviewInv, PhaseInv
<1>12. WritesInv(state.out, state.rejects, writes, state.at)
    <2>1. \A c \in C : c < state.at /\ ~DecidedIn(state.out, state.rejects, c)
        BY <1>6
    <2> HIDE DEF C
    <2> QED BY <1>7, <2>1 DEF WritesInv, Settles
<1>13. CoverInv(state.out, state.rejects, <<>>, writes, state.at)
    <2>1. \A c \in 1 .. state.at - 1 : DecidedIn(state.out, state.rejects, c) \/ c \in C
        BY <1>11 DEF CoverInv
    <2> HIDE DEF C
    <2> QED BY <1>7, <2>1 DEF CoverInv, Settles
<1>14. PhaseInv(state')
    BY <1>9, <1>11, <1>13 DEF PhaseInv
<1> QED BY <1>9, <1>10, <1>12, <1>14, NothingPending DEF ReviewInv

LEMMA WrittenKeeps ==
    ASSUME ReviewInv(state), Reviews!Written PROVE ReviewInv(state')
<1>1. /\ ReviewTypes(state) /\ state.phase = "writing" /\ state.writes = <<>>
      /\ state' = [state EXCEPT !.phase = "reading"]
    BY DEF Reviews!Written, ReviewInv
<1>2. /\ state'.captures = state.captures /\ state'.out = state.out
      /\ state'.rejects = state.rejects /\ state'.phase = "reading"
      /\ state'.mem = state.mem /\ state'.at = state.at /\ state'.batch = state.batch
      /\ state'.writes = state.writes
    BY <1>1 DEF ReviewTypes
<1>3. ReviewTypes(state')
    BY <1>1 DEF ReviewTypes
<1>4. PhaseInv(state')
    BY <1>1, <1>2 DEF ReviewInv, PhaseInv
<1> QED BY <1>2, <1>3, <1>4 DEF ReviewInv

\* The counts that a process has are numbers.
LEMMA CountsAre ==
    ASSUME NEW captures, NEW S, NEW out \in Seq(S), NEW rejects,
           FilesInv(captures, out, rejects)
    PROVE  /\ Replay(captures, out).real \in Nat /\ Replay(captures, out).alternatives \in Nat
           /\ Replay(captures, out).perGroup \in [Groups -> Nat]
<1>1. Booked(captures, out, Replay(captures, out))
    BY DEF FilesInv
<1>2. Len(out) \in Nat /\ \A bucket : OfIn(out, bucket) \in SUBSET (1 .. Len(out))
    BY DEF OfIn
<1>3. \A bucket : Cardinality(OfIn(out, bucket)) \in Nat
    BY <1>2, PlacesFinite
<1> QED BY <1>1, <1>3 DEF Booked

\* The alternatives that are still allowed are within the share.
LEMMA RemainingFits ==
    ASSUME NEW real \in Nat, NEW alternatives \in Nat, alternatives * AlternativesPer <= real,
           NEW remaining,
           remaining = IF real \div AlternativesPer > alternatives
                       THEN (real \div AlternativesPer) - alternatives ELSE 0
    PROVE  remaining \in Nat /\ (alternatives + remaining) * AlternativesPer <= real
<1> DEFINE per == AlternativesPer
           allowed == real \div per
<1>1. per \in Nat /\ per > 0
    BY ReviewAssumption
<1>2. allowed \in Nat /\ real = per * allowed + (real % per) /\ real % per \in Nat
    BY <1>1
<1>3. allowed * per <= real
    <2>1. per * allowed \in Nat /\ per * allowed = allowed * per
        BY <1>1, <1>2
    <2> QED BY <1>2, <2>1
<1> HIDE DEF per, allowed
<1>4. CASE allowed > alternatives
    <2>1. remaining = allowed - alternatives
        BY <1>4 DEF per, allowed
    <2>2. alternatives + remaining = allowed /\ remaining \in Nat
        BY <1>2, <1>4, <2>1
    <2> QED BY <1>3, <2>2 DEF per
<1>5. CASE ~(allowed > alternatives)
    <2>1. remaining = 0
        BY <1>5 DEF per, allowed
    <2>2. alternatives + remaining = alternatives
        BY <2>1
    <2> QED BY <2>1, <2>2
<1> QED BY <1>4, <1>5

LEMMA BeginAlternativesKeeps ==
    ASSUME ReviewInv(state), Reviews!BeginAlternatives PROVE ReviewInv(state')
<1> DEFINE left == Reviews!Remaining(state.mem)
           told == Replay(state.captures, state.out)
<1>1. /\ ReviewTypes(state) /\ state.phase = "reading" /\ state.batch = <<>>
      /\ state.at > Len(state.captures)
      /\ state' = [state EXCEPT !.phase = "alternatives", !.remaining = left]
    BY DEF Reviews!BeginAlternatives, ReviewInv
<1>2. Len(state.captures) \in Nat /\ state.at = Len(state.captures) + 1
    <2>1. Len(state.captures) \in Nat
        BY <1>1, CapturesAre DEF ReviewTypes
    <2> QED BY <1>1, <2>1 DEF ReviewTypes
<1>3. /\ MemInv(state.captures, state.out, state.rejects, state.mem, state.at)
      /\ CoverInv(state.out, state.rejects, state.batch, state.writes, state.at)
      /\ state.writes = <<>> /\ FilesInv(state.captures, state.out, state.rejects)
    BY <1>1 DEF ReviewInv, PhaseInv
<1>4. told.real \in Nat /\ told.alternatives \in Nat
    <2>1. state.out \in Seq(RowsOf(state.captures))
        BY <1>1 DEF ReviewTypes
    <2> QED BY <1>3, <2>1, CountsAre
<1>5. state.mem.real = told.real /\ state.mem.alternatives = told.alternatives
    <2>1. state.mem = [told EXCEPT !.captures = state.mem.captures]
        BY <1>3 DEF MemInv
    <2>2. told = [captures |-> told.captures, rows |-> told.rows, valid |-> told.valid,
                  perGroup |-> told.perGroup, real |-> told.real,
                  alternatives |-> told.alternatives]
        BY <1>3 DEF FilesInv, Booked
    <2> HIDE DEF told
    <2> QED BY <2>1, <2>2
<1>6. told.alternatives * AlternativesPer <= told.real
    BY <1>3 DEF FilesInv
<1>7. left \in Nat /\ (told.alternatives + left) * AlternativesPer <= told.real
    <2>1. left = IF told.real \div AlternativesPer > told.alternatives
                 THEN (told.real \div AlternativesPer) - told.alternatives ELSE 0
        BY <1>5 DEF Reviews!Remaining
    <2> HIDE DEF told, left
    <2> QED BY <1>4, <1>6, <2>1, RemainingFits
<1>8. ShareInv(state.captures, state.out, left)
    BY <1>7 DEF ShareInv
<1> HIDE DEF left, told
<1>9. /\ state'.captures = state.captures /\ state'.out = state.out
      /\ state'.rejects = state.rejects /\ state'.phase = "alternatives"
      /\ state'.mem = state.mem /\ state'.at = state.at /\ state'.batch = <<>>
      /\ state'.writes = <<>> /\ state'.remaining = left
    BY <1>1, <1>3 DEF ReviewTypes
<1>10. ReviewTypes(state')
    BY <1>1, <1>7 DEF ReviewTypes
<1>11. PhaseInv(state')
    BY <1>1, <1>2, <1>3, <1>8, <1>9 DEF PhaseInv
<1> QED BY <1>3, <1>9, <1>10, <1>11, NothingPending DEF ReviewInv

LEMMA DoneKeeps ==
    ASSUME ReviewInv(state), Reviews!Done PROVE ReviewInv(state')
<1>1. /\ ReviewTypes(state) /\ state.phase = "alternatives"
      /\ state' = [state EXCEPT !.phase = "done", !.proposals = <<>>]
    BY DEF Reviews!Done, ReviewInv
<1>2. /\ state'.captures = state.captures /\ state'.out = state.out
      /\ state'.rejects = state.rejects /\ state'.phase = "done"
      /\ state'.at = state.at /\ state'.batch = state.batch
      /\ state'.writes = state.writes
    BY <1>1 DEF ReviewTypes
<1>3. ReviewTypes(state')
    <2>1. <<>> \in Seq(AlternativesOf(state.captures))
        OBVIOUS
    <2> QED BY <1>1, <2>1 DEF ReviewTypes
<1>4. PhaseInv(state')
    BY <1>1, <1>2 DEF ReviewInv, PhaseInv
<1> QED BY <1>2, <1>3, <1>4 DEF ReviewInv

LEMMA CrashKeeps ==
    ASSUME ReviewInv(state), Reviews!Crash PROVE ReviewInv(state')
<1>1. /\ ReviewTypes(state)
      /\ state' = [state EXCEPT !.phase = "stopped", !.mem = Reviews!Fresh, !.batch = <<>>,
                                !.writes = <<>>, !.proposals = <<>>, !.remaining = 0]
    BY DEF Reviews!Crash, ReviewInv
<1>2. /\ state'.captures = state.captures /\ state'.out = state.out
      /\ state'.rejects = state.rejects /\ state'.phase = "stopped"
      /\ state'.at = state.at /\ state'.batch = <<>> /\ state'.writes = <<>>
    BY <1>1 DEF ReviewTypes
<1>3. ReviewTypes(state')
    <2>1. \A S : <<>> \in Seq(S)
        OBVIOUS
    <2> QED BY <1>1, <2>1 DEF ReviewTypes
<1>4. PhaseInv(state')
    BY <1>2 DEF PhaseInv
<1> QED BY <1>2, <1>3, <1>4, NothingPending DEF ReviewInv

\* What is written decides what it was to decide, and the rest stays to be written.
Decided(out, rejects, more, refusals, write) ==
    \A c : DecidedIn(more, refusals, c) <=> DecidedIn(out, rejects, c) \/ Decides(write, c)

LEMMA WritesDo ==
    ASSUME NEW W, NEW writes \in Seq(W), writes # <<>>, NEW out, NEW rejects, NEW at,
           WritesInv(out, rejects, writes, at), CoverInv(out, rejects, <<>>, writes, at),
           NEW more, NEW refusals, Decided(out, rejects, more, refusals, Head(writes))
    PROVE  /\ WritesInv(more, refusals, Tail(writes), at)
           /\ CoverInv(more, refusals, <<>>, Tail(writes), at)
<1> DEFINE n == Len(writes)
           rest == Tail(writes)
           write == Head(writes)
<1>1. /\ n \in Nat \ {0} /\ Len(rest) = n - 1 /\ write = writes[1]
      /\ \A k \in 1 .. n - 1 : rest[k] = writes[k + 1]
    OBVIOUS
<1>2. /\ \A k, l \in 1 .. n : \A c : Decides(writes[k], c) /\ Decides(writes[l], c) => k = l
      /\ \A k \in 1 .. n : \A c :
             Decides(writes[k], c) => c < at /\ ~DecidedIn(out, rejects, c)
    BY DEF WritesInv
<1>3. \A c : DecidedIn(more, refusals, c) <=> DecidedIn(out, rejects, c) \/ Decides(write, c)
    BY DEF Decided
<1>4. \A c \in 1 .. at - 1 :
          DecidedIn(out, rejects, c) \/ \E k \in 1 .. n : Decides(writes[k], c)
    BY DEF CoverInv
<1> HIDE DEF n, rest, write
<1>5. \A k \in 1 .. Len(rest) :
          rest[k] = writes[k + 1] /\ k + 1 \in 1 .. n /\ k + 1 # 1 /\ 1 \in 1 .. n
    BY <1>1
<1>6. ASSUME NEW k \in 1 .. Len(rest), NEW c, Decides(rest[k], c)
      PROVE  c < at /\ ~DecidedIn(more, refusals, c)
    <2>1. Decides(writes[k + 1], c) /\ ~Decides(writes[1], c)
        BY <1>2, <1>5, <1>6
    <2> QED BY <1>1, <1>2, <1>3, <1>5, <2>1
<1>7. ASSUME NEW k \in 1 .. Len(rest), NEW l \in 1 .. Len(rest), NEW c,
             Decides(rest[k], c), Decides(rest[l], c)
      PROVE  k = l
    <2>1. k + 1 = l + 1
        BY <1>2, <1>5, <1>7
    <2> QED BY <1>1, <2>1
<1>8. ASSUME NEW c \in 1 .. at - 1
      PROVE  DecidedIn(more, refusals, c) \/ \E k \in 1 .. Len(rest) : Decides(rest[k], c)
    <2> SUFFICES ASSUME ~DecidedIn(more, refusals, c)
                 PROVE  \E k \in 1 .. Len(rest) : Decides(rest[k], c)
        OBVIOUS
    <2>1. PICK k \in 1 .. n : Decides(writes[k], c)
        BY <1>3, <1>4
    <2>2. k # 1
        BY <1>1, <1>3, <2>1
    <2>3. k - 1 \in 1 .. Len(rest) /\ rest[k - 1] = writes[k]
        BY <1>1, <2>2
    <2> QED BY <2>1, <2>3
<1> QED BY <1>6, <1>7, <1>8 DEF WritesInv, CoverInv, rest

\* A row that is written is noted, and the process knows the file as before.
LEMMA NotedKnows ==
    ASSUME NEW captures, NEW S, NEW out \in Seq(S), NEW row \in S, NEW rejects, NEW mem, NEW at,
           FilesInv(captures, out, rejects), MemInv(captures, out, rejects, mem, at),
           \A c : RealIn(Append(out, row), c) <=>
                      RealIn(out, c) \/ (row.bucket = "real" /\ row.capture = c)
    PROVE  MemInv(captures, Append(out, row), rejects, Noted(captures, mem, row), at)
<1> DEFINE told == Replay(captures, out)
           more == Append(out, row)
           next == Noted(captures, mem, row)
           own == IF row.bucket = "real" THEN {row.capture} ELSE {}
<1>1. Replay(captures, more) = Noted(captures, told, row)
    BY ReplayAppend
<1>2. told = [captures |-> told.captures, rows |-> told.rows, valid |-> told.valid,
              perGroup |-> told.perGroup, real |-> told.real,
              alternatives |-> told.alternatives]
    BY DEF FilesInv, Booked
<1>3. mem = [told EXCEPT !.captures = mem.captures]
    BY DEF MemInv
<1> HIDE DEF told
<1>4. /\ mem.rows = told.rows /\ mem.valid = told.valid /\ mem.perGroup = told.perGroup
      /\ mem.real = told.real /\ mem.alternatives = told.alternatives
    BY <1>2, <1>3
<1>5. next = [Noted(captures, told, row) EXCEPT !.captures = next.captures]
      /\ next.captures = mem.captures \cup own
    <2> DEFINE known == Noted(captures, told, row)
    <2>1. /\ next = [captures |-> next.captures, rows |-> next.rows, valid |-> next.valid,
                     perGroup |-> next.perGroup, real |-> next.real,
                     alternatives |-> next.alternatives]
          /\ known = [captures |-> known.captures, rows |-> known.rows, valid |-> known.valid,
                      perGroup |-> known.perGroup, real |-> known.real,
                      alternatives |-> known.alternatives]
          /\ next.captures = mem.captures \cup own
        BY DEF Noted
    <2>2. next.rows = known.rows /\ next.valid = known.valid
        BY <1>4 DEF Noted
    <2>3. next.perGroup = known.perGroup
        BY <1>4 DEF Noted
    <2>4. next.real = known.real /\ next.alternatives = known.alternatives
        BY <1>4 DEF Noted
    <2> HIDE DEF next, known, own
    <2>5. next = [known EXCEPT !.captures = next.captures]
        BY <2>1, <2>2, <2>3, <2>4
    <2> QED BY <2>1, <2>5 DEF known
<1>6. \A c : RealIn(more, c) <=> RealIn(out, c) \/ c \in own
    OBVIOUS
<1>7. /\ \A c \in mem.captures : DecidedIn(out, rejects, c)
      /\ \A c : DecidedIn(out, rejects, c) =>
                    c \in mem.captures \/ (RefusedIn(rejects, c) /\ c < at)
    BY DEF MemInv
<1> HIDE DEF next, own, more
<1>8. \A c \in next.captures : DecidedIn(more, rejects, c)
    BY <1>5, <1>6, <1>7 DEF DecidedIn
<1>9. \A c : DecidedIn(more, rejects, c) =>
                 c \in next.captures \/ (RefusedIn(rejects, c) /\ c < at)
    BY <1>5, <1>6, <1>7 DEF DecidedIn
<1>10. MemInv(captures, more, rejects, next, at)
    BY <1>1, <1>5, <1>8, <1>9 DEF MemInv
<1> QED BY <1>10 DEF more, next

LEMMA WriteKeeps ==
    ASSUME ReviewInv(state), Reviews!Write PROVE ReviewInv(state')
<1> DEFINE captures == state.captures
           write == Head(state.writes)
           rest == Tail(state.writes)
           W == WritesOf(captures)
<1>1. /\ ReviewTypes(state) /\ state.phase = "writing" /\ state.writes # <<>>
      /\ state' = [(IF "bucket" \in DOMAIN write
                    THEN [state EXCEPT !.out = Append(@, write),
                                       !.mem = Reviews!Recorded(@, write)]
                    ELSE [state EXCEPT !.rejects = Append(@, write)]) EXCEPT !.writes = Tail(@)]
    BY DEF Reviews!Write, Reviews!AppendRow, ReviewInv
<1>2. /\ state.writes \in Seq(W) /\ write \in W /\ rest \in Seq(W)
      /\ state.writes[1] = write /\ 1 \in 1 .. Len(state.writes)
    <2>1. state.writes \in Seq(W)
        BY <1>1 DEF ReviewTypes
    <2> HIDE DEF W
    <2> QED BY <1>1, <2>1
<1>3. /\ FilesInv(captures, state.out, state.rejects)
      /\ WritesInv(state.out, state.rejects, state.writes, state.at)
      /\ MemInv(captures, state.out, state.rejects, state.mem, state.at)
      /\ CoverInv(state.out, state.rejects, <<>>, state.writes, state.at)
      /\ state.batch = <<>>
    BY <1>1 DEF ReviewInv, PhaseInv
<1>4. \A c : Decides(write, c) => c < state.at /\ ~DecidedIn(state.out, state.rejects, c)
    BY <1>2, <1>3 DEF WritesInv
<1>5. /\ Len(captures) \in Nat /\ \A i \in 1 .. Len(captures) : captures[i].group \in Groups
      /\ state.out \in Seq(RowsOf(captures)) /\ state.rejects \in Seq(RejectsOf(captures))
    BY <1>1, CapturesAre DEF ReviewTypes
<1>6. CASE IsRow(write)
    <2> DEFINE out == Append(state.out, write)
               mem == Noted(captures, state.mem, write)
    <2>1. write \in RowsOf(captures) /\ write.bucket # "alternative"
        BY <1>2, <1>6 DEF WritesOf, RejectsOf, IsRow
    <2>2. state' = [state EXCEPT !.out = out, !.mem = mem, !.writes = rest]
        BY <1>1, <1>6, NotedIs DEF ReviewTypes, IsRow
    <2>3. \A c : RealIn(out, c) <=>
                     RealIn(state.out, c) \/ (write.bucket = "real" /\ write.capture = c)
        BY <1>5, <2>1, PlacesGrow
    <2>4. Decided(state.out, state.rejects, out, state.rejects, write)
        BY <1>6, <2>3 DEF Decided, DecidedIn, Decides
    <2>5. FilesInv(captures, out, state.rejects)
        <3>1. write.bucket = "real" => ~DecidedIn(state.out, state.rejects, write.capture)
            BY <1>4, <1>6 DEF Decides
        <3> QED BY <1>3, <1>5, <2>1, <3>1, RowKeepsFiles
    <2>6. MemInv(captures, out, state.rejects, mem, state.at)
        BY <1>3, <1>5, <2>1, <2>3, NotedKnows
    <2>7. /\ WritesInv(out, state.rejects, rest, state.at)
          /\ CoverInv(out, state.rejects, <<>>, rest, state.at)
        <3> HIDE DEF out, W
        <3> QED BY <1>1, <1>2, <1>3, <2>4, WritesDo
    <2>8. out \in Seq(RowsOf(captures))
        BY <1>5, <2>1
    <2> HIDE DEF out, mem, rest
    <2>9. /\ state'.captures = captures /\ state'.out = out
          /\ state'.rejects = state.rejects /\ state'.phase = "writing"
          /\ state'.mem = mem /\ state'.at = state.at /\ state'.batch = <<>>
          /\ state'.writes = rest
        BY <1>1, <1>3, <2>2 DEF ReviewTypes
    <2>10. ReviewTypes(state')
        BY <1>1, <1>2, <2>2, <2>8 DEF ReviewTypes
    <2>11. PhaseInv(state')
        BY <2>6, <2>7, <2>9 DEF PhaseInv
    <2> QED BY <2>5, <2>7, <2>9, <2>10, <2>11, NothingPending DEF ReviewInv
<1>7. CASE ~IsRow(write)
    <2> DEFINE rejects == Append(state.rejects, write)
    <2>1. write \in RejectsOf(captures)
        BY <1>2, <1>7 DEF WritesOf, RowsOf, IsRow
    <2>2. state' = [state EXCEPT !.rejects = rejects, !.writes = rest]
        BY <1>1, <1>7 DEF ReviewTypes, IsRow
    <2>3. \A c : RefusedIn(rejects, c) <=>
                     RefusedIn(state.rejects, c) \/ (write.reason = "capture" /\ write.capture = c)
        BY <1>5, <2>1, RejectsGrow
    <2>4. Decided(state.out, state.rejects, state.out, rejects, write)
        BY <1>7, <2>3 DEF Decided, DecidedIn, Decides
    <2>5. FilesInv(captures, state.out, rejects)
        <3>1. write.reason = "capture" => ~DecidedIn(state.out, state.rejects, write.capture)
            BY <1>4, <1>7 DEF Decides
        <3> QED BY <1>3, <1>5, <2>1, <3>1, RefusalKeepsFiles
    <2>6. MemInv(captures, state.out, rejects, state.mem, state.at)
        <3>1. \A c : Decides(write, c) => RefusedIn(rejects, c) /\ c < state.at
            BY <1>4, <1>7, <2>3 DEF Decides
        <3>2. \A c : DecidedIn(state.out, rejects, c) <=>
                         DecidedIn(state.out, state.rejects, c) \/ Decides(write, c)
            BY <2>4 DEF Decided
        <3> HIDE DEF rejects
        <3>3. \A c : RefusedIn(state.rejects, c) => RefusedIn(rejects, c)
            BY <2>3
        <3> QED BY <1>3, <3>1, <3>2, <3>3 DEF MemInv
    <2>7. /\ WritesInv(state.out, rejects, rest, state.at)
          /\ CoverInv(state.out, rejects, <<>>, rest, state.at)
        <3> HIDE DEF rejects, W
        <3> QED BY <1>1, <1>2, <1>3, <2>4, WritesDo
    <2>8. rejects \in Seq(RejectsOf(captures))
        BY <1>5, <2>1
    <2> HIDE DEF rejects, rest
    <2>9. /\ state'.captures = captures /\ state'.out = state.out
          /\ state'.rejects = rejects /\ state'.phase = "writing"
          /\ state'.mem = state.mem /\ state'.at = state.at /\ state'.batch = <<>>
          /\ state'.writes = rest
        BY <1>1, <1>3, <2>2 DEF ReviewTypes
    <2>10. ReviewTypes(state')
        BY <1>1, <1>2, <2>2, <2>8 DEF ReviewTypes
    <2>11. PhaseInv(state')
        BY <2>6, <2>7, <2>9 DEF PhaseInv
    <2> QED BY <2>5, <2>7, <2>9, <2>10, <2>11, NothingPending DEF ReviewInv
<1> QED BY <1>6, <1>7

\* The numbers of elements that the model speaks of.
LEMMA CountingIs == \A S : Reviews!Cardinality(S) = Cardinality(S)
BY DEF Cardinality, Reviews!Cardinality

LEMMA AlternativeKeeps ==
    ASSUME ReviewInv(state), Reviews!Alternative PROVE ReviewInv(state')
<1> DEFINE captures == state.captures
           row == Head(state.proposals)
           rest == Tail(state.proposals)
           told == Replay(captures, state.out)
           g == captures[row.capture].group
           A == AlternativesOf(captures)
           refusal == [capture |-> row.capture, reason |-> "alternative"]
           passed == \/ Reviews!RowKey(row) \in state.mem.rows
                     \/ state.mem.perGroup[Reviews!GroupOf(row.capture)] >= MaxPerGroup
<1>1. /\ ReviewTypes(state) /\ state.phase = "alternatives" /\ state.proposals # <<>>
      /\ state.remaining > 0
      /\ \/ passed /\ state' = [state EXCEPT !.proposals = Tail(@)]
         \/ /\ ~passed
            /\ state' = [[state EXCEPT !.out = Append(@, row), !.mem = Reviews!Recorded(@, row)]
                            EXCEPT !.proposals = Tail(@), !.remaining = @ - 1]
         \/ /\ ~passed
            /\ state' = [[state EXCEPT !.proposals = Tail(@)]
                            EXCEPT !.rejects = Append(@, refusal)]
    BY DEF Reviews!Alternative, Reviews!AppendRow, ReviewInv
<1>2. row \in A /\ rest \in Seq(A)
    <2>1. state.proposals \in Seq(A)
        BY <1>1 DEF ReviewTypes
    <2> HIDE DEF A
    <2> QED BY <1>1, <2>1
<1>3. row \in RowsOf(captures) /\ row.bucket = "alternative"
    BY <1>2 DEF AlternativesOf
<1>4. /\ FilesInv(captures, state.out, state.rejects)
      /\ MemInv(captures, state.out, state.rejects, state.mem, state.at)
      /\ CoverInv(state.out, state.rejects, <<>>, <<>>, state.at)
      /\ ShareInv(captures, state.out, state.remaining)
      /\ state.batch = <<>> /\ state.writes = <<>> /\ state.at = Len(captures) + 1
    BY <1>1 DEF ReviewInv, PhaseInv
<1>5. /\ Len(captures) \in Nat /\ \A i \in 1 .. Len(captures) : captures[i].group \in Groups
      /\ state.out \in Seq(RowsOf(captures)) /\ state.rejects \in Seq(RejectsOf(captures))
      /\ state.remaining \in Nat
    BY <1>1, CapturesAre DEF ReviewTypes
<1> HIDE DEF passed
<1>6. ASSUME passed, state' = [state EXCEPT !.proposals = Tail(@)] PROVE ReviewInv(state')
    <2>1. state' = [state EXCEPT !.proposals = rest]
        BY <1>6
    <2> HIDE DEF rest, row, A
    <2>2. /\ state'.captures = captures /\ state'.out = state.out
          /\ state'.rejects = state.rejects /\ state'.phase = "alternatives"
          /\ state'.mem = state.mem /\ state'.at = state.at /\ state'.batch = <<>>
          /\ state'.writes = <<>> /\ state'.remaining = state.remaining
        BY <1>1, <1>4, <2>1 DEF ReviewTypes
    <2>3. ReviewTypes(state')
        BY <1>1, <1>2, <2>1 DEF ReviewTypes, A
    <2>4. PhaseInv(state')
        BY <1>4, <2>2 DEF PhaseInv
    <2> QED BY <1>4, <2>2, <2>3, <2>4, NothingPending DEF ReviewInv
<1>7. ASSUME ~passed,
             state' = [[state EXCEPT !.out = Append(@, row), !.mem = Reviews!Recorded(@, row)]
                          EXCEPT !.proposals = Tail(@), !.remaining = @ - 1]
      PROVE  ReviewInv(state')
    <2> DEFINE out == Append(state.out, row)
               mem == Noted(captures, state.mem, row)
    <2>1. state' = [state EXCEPT !.out = out, !.mem = mem, !.proposals = rest,
                                 !.remaining = @ - 1]
        BY <1>1, <1>7, NotedIs DEF ReviewTypes
    <2>2. /\ told.real \in Nat /\ told.alternatives \in Nat
          /\ told.perGroup \in [Groups -> Nat] /\ g \in Groups
        <3>1. g \in Groups
            BY <1>3, <1>5 DEF RowsOf
        <3> QED BY <1>4, <1>5, <3>1, CountsAre
    <2>3. KeyIn(captures, row) \notin told.rows /\ told.perGroup[g] < MaxPerGroup
        <3>1. KeyIn(captures, row) \notin state.mem.rows /\ ~(state.mem.perGroup[g] >= MaxPerGroup)
            BY <1>7, KeyIs DEF passed, Reviews!GroupOf
        <3>2. state.mem.rows = told.rows /\ state.mem.perGroup = told.perGroup
            <4>1. state.mem = [told EXCEPT !.captures = state.mem.captures]
                BY <1>4 DEF MemInv
            <4>2. told = [captures |-> told.captures, rows |-> told.rows, valid |-> told.valid,
                          perGroup |-> told.perGroup, real |-> told.real,
                          alternatives |-> told.alternatives]
                BY <1>4 DEF FilesInv, Booked
            <4> HIDE DEF told
            <4> QED BY <4>1, <4>2
        <3> HIDE DEF told, g
        <3>3. told.perGroup[g] \in Nat /\ MaxPerGroup \in Nat
            BY <2>2, ReviewAssumption
        <3> QED BY <3>1, <3>2, <3>3
    <2>4. (told.alternatives + 1) * AlternativesPer <= told.real
        <3>1. (told.alternatives + state.remaining) * AlternativesPer <= told.real
            BY <1>4 DEF ShareInv
        <3> HIDE DEF told
        <3>2. PICK further \in Nat : state.remaining = further + 1
            <4>1. state.remaining - 1 \in Nat /\ state.remaining = (state.remaining - 1) + 1
                BY <1>1, <1>5
            <4> QED BY <4>1
        <3>3. /\ told.alternatives + state.remaining = (told.alternatives + 1) + further
              /\ AlternativesPer \in Nat /\ told.alternatives + 1 \in Nat
            BY <2>2, <3>2, ReviewAssumption
        <3>4. \A m, n, p \in Nat : (m + n) * p = m * p + n * p /\ m * p \in Nat /\ n * p \in Nat
            OBVIOUS
        <3>5. (told.alternatives + 1) * AlternativesPer
                  <= ((told.alternatives + 1) + further) * AlternativesPer
            <4> DEFINE m == told.alternatives + 1
                       x == m * AlternativesPer
                       y == further * AlternativesPer
            <4>1. (m + further) * AlternativesPer = x + y /\ x \in Nat /\ y \in Nat
                BY <3>2, <3>3, <3>4
            <4> HIDE DEF x, y, m
            <4>2. x <= x + y
                BY <4>1
            <4> QED BY <4>1, <4>2 DEF x, m
        <3>6. (told.alternatives + 1) * AlternativesPer \in Nat
              /\ (told.alternatives + state.remaining) * AlternativesPer \in Nat
            <4>1. told.alternatives + state.remaining \in Nat
                BY <1>5, <2>2
            <4>2. \A m, n \in Nat : m * n \in Nat
                OBVIOUS
            <4> QED BY <3>3, <4>1, <4>2
        <3> QED BY <2>2, <3>1, <3>3, <3>5, <3>6
    <2>5. FilesInv(captures, out, state.rejects)
        <3> QED BY <1>3, <1>4, <1>5, <2>3, <2>4, RowKeepsFiles
    <2>6. \A c : RealIn(out, c) <=> RealIn(state.out, c)
        BY <1>3, <1>5, PlacesGrow
    <2>7. MemInv(captures, out, state.rejects, mem, state.at)
        BY <1>3, <1>4, <1>5, <2>6, NotedKnows
    <2>8. CoverInv(out, state.rejects, <<>>, <<>>, state.at)
        BY <1>4, <2>6 DEF CoverInv, DecidedIn
    <2>9. ShareInv(captures, out, state.remaining - 1)
        <3>1. Replay(captures, out) = Noted(captures, told, row)
            BY <1>3, <1>5, ReplayAppend
        <3> HIDE DEF told
        <3>2. /\ Noted(captures, told, row).alternatives = told.alternatives + 1
              /\ Noted(captures, told, row).real = told.real
            BY <1>3, <2>2 DEF Noted
        <3>3. (told.alternatives + 1) + (state.remaining - 1) = told.alternatives + state.remaining
            BY <1>5, <2>2
        <3> HIDE DEF out
        <3> QED BY <1>4, <3>1, <3>2, <3>3 DEF ShareInv, told
    <2>10. out \in Seq(RowsOf(captures))
        BY <1>3, <1>5
    <2>11. state.remaining - 1 \in Nat
        BY <1>1, <1>5
    <2> HIDE DEF out, mem, rest, row, A, told
    <2>12. /\ state'.captures = captures /\ state'.out = out
          /\ state'.rejects = state.rejects /\ state'.phase = "alternatives"
          /\ state'.mem = mem /\ state'.at = state.at /\ state'.batch = <<>>
          /\ state'.writes = <<>> /\ state'.remaining = state.remaining - 1
        BY <1>1, <1>4, <2>1 DEF ReviewTypes
    <2>13. ReviewTypes(state')
        BY <1>1, <1>2, <2>1, <2>10, <2>11 DEF ReviewTypes, A
    <2>14. PhaseInv(state')
        BY <1>4, <2>7, <2>8, <2>9, <2>12 DEF PhaseInv
    <2> QED BY <2>5, <2>12, <2>13, <2>14, NothingPending DEF ReviewInv
<1>8. ASSUME state' = [[state EXCEPT !.proposals = Tail(@)] EXCEPT !.rejects = Append(@, refusal)]
      PROVE  ReviewInv(state')
    <2> DEFINE rejects == Append(state.rejects, refusal)
    <2>1. state' = [state EXCEPT !.rejects = rejects, !.proposals = rest]
        BY <1>1, <1>8 DEF ReviewTypes
    <2>2. refusal \in RejectsOf(captures) /\ refusal.reason # "capture"
        BY <1>3 DEF RejectsOf, RowsOf
    <2> HIDE DEF refusal
    <2>3. \A c : RefusedIn(rejects, c) <=> RefusedIn(state.rejects, c)
        BY <1>5, <2>2, RejectsGrow
    <2>4. FilesInv(captures, state.out, rejects)
        BY <1>4, <1>5, <2>2, RefusalKeepsFiles
    <2>5. rejects \in Seq(RejectsOf(captures))
        BY <1>5, <2>2
    <2> HIDE DEF rejects, rest, row, A
    <2>6. \A c : DecidedIn(state.out, rejects, c) <=> DecidedIn(state.out, state.rejects, c)
        BY <2>3 DEF DecidedIn
    <2>7. MemInv(captures, state.out, rejects, state.mem, state.at)
        BY <1>4, <2>3, <2>6 DEF MemInv
    <2>8. CoverInv(state.out, rejects, <<>>, <<>>, state.at)
        BY <1>4, <2>6 DEF CoverInv
    <2>9. /\ state'.captures = captures /\ state'.out = state.out
          /\ state'.rejects = rejects /\ state'.phase = "alternatives"
          /\ state'.mem = state.mem /\ state'.at = state.at /\ state'.batch = <<>>
          /\ state'.writes = <<>> /\ state'.remaining = state.remaining
        BY <1>1, <1>4, <2>1 DEF ReviewTypes
    <2>10. ReviewTypes(state')
        BY <1>1, <1>2, <2>1, <2>5 DEF ReviewTypes, A
    <2>11. PhaseInv(state')
        BY <1>4, <2>7, <2>8, <2>9 DEF PhaseInv
    <2> QED BY <2>4, <2>9, <2>10, <2>11, NothingPending DEF ReviewInv
<1> QED BY <1>1, <1>6, <1>7, <1>8

\* The invariant tells that a review resumes.
LEMMA ReviewInvImplies == ASSUME ReviewInv(state) PROVE Reviews!ReviewResumes
<1> DEFINE captures == state.captures
           out == state.out
           rejects == state.rejects
           told == Replay(captures, out)
           real == OfIn(out, "real")
           alternatives == OfIn(out, "alternative")
<1>1. ReviewTypes(state) /\ FilesInv(captures, out, rejects) /\ PhaseInv(state)
    BY DEF ReviewInv
<1>2. /\ Len(captures) \in Nat /\ DOMAIN captures = 1 .. Len(captures)
      /\ out \in Seq(RowsOf(captures)) /\ rejects \in Seq(RejectsOf(captures))
      /\ DOMAIN out = 1 .. Len(out) /\ DOMAIN rejects = 1 .. Len(rejects)
    <2>1. out \in Seq(RowsOf(captures)) /\ rejects \in Seq(RejectsOf(captures))
        BY <1>1 DEF ReviewTypes
    <2>2. Len(captures) \in Nat /\ DOMAIN captures = 1 .. Len(captures)
        BY <1>1, CapturesAre DEF ReviewTypes
    <2>3. DOMAIN out = 1 .. Len(out) /\ DOMAIN rejects = 1 .. Len(rejects)
        BY <2>1
    <2> QED BY <2>1, <2>2, <2>3
<1>3. /\ \A bucket : Reviews!Of(bucket) = OfIn(out, bucket)
      /\ Reviews!Refused = {i \in 1 .. Len(rejects) : rejects[i].reason = "capture"}
    BY <1>2 DEF Reviews!Of, OfIn, Reviews!Refused, Reviews!MarksProcessed
<1>4. ASSUME NEW c
      PROVE  (Reviews!Decided(c) <=> RealIn(out, c)) /\ (Reviews!Rejected(c) <=> RefusedIn(rejects, c))
    BY <1>3 DEF Reviews!Decided, RealIn, Reviews!Rejected, RefusedIn
<1>5. Booked(captures, out, told)
    BY <1>1 DEF FilesInv
<1>6. Cardinality(alternatives) * AlternativesPer <= Cardinality(real)
    BY <1>1, <1>5 DEF FilesInv, Booked
<1>7. ASSUME NEW g \in Groups
      PROVE  Cardinality({i \in alternatives : Reviews!GroupOf(out[i].capture) = g}) <= MaxPerGroup
    <2>1. GroupIn(captures, out, g) =
              {i \in alternatives : Reviews!GroupOf(out[i].capture) = g}
        BY DEF GroupIn, Reviews!GroupOf
    <2>2. Cardinality(GroupIn(captures, out, g)) <= MaxPerGroup
        BY <1>1, <1>5 DEF FilesInv, Booked
    <2> QED BY <2>1, <2>2
<1>8. ASSUME NEW c \in 1 .. Len(captures), state.phase = "done"
      PROVE  Reviews!Decided(c) \/ Reviews!Rejected(c)
    <2>1. CoverInv(out, rejects, <<>>, <<>>, Len(captures) + 1)
        BY <1>1, <1>8 DEF PhaseInv
    <2>2. c \in 1 .. (Len(captures) + 1) - 1
        BY <1>2
    <2> QED BY <1>4, <2>1, <2>2 DEF CoverInv, DecidedIn
<1>9. ASSUME state.phase \notin {"stopped", "done"}
      PROVE  /\ state.mem = [Reviews!Loaded EXCEPT !.captures = state.mem.captures]
             /\ state.mem.captures \subseteq Reviews!Loaded.captures
             /\ \A c \in Reviews!Loaded.captures \ state.mem.captures : Reviews!Rejected(c)
    <2>1. MemInv(captures, out, rejects, Reviews!Loaded, 1)
        BY <1>1, <1>2, LoadedKnows
    <2>2. MemInv(captures, out, rejects, state.mem, state.at)
        BY <1>1, <1>9 DEF PhaseInv, ReviewTypes
    <2>3. told = [captures |-> told.captures, rows |-> told.rows, valid |-> told.valid,
                  perGroup |-> told.perGroup, real |-> told.real,
                  alternatives |-> told.alternatives]
        BY <1>5 DEF Booked
    <2>4. Reviews!Loaded = [told EXCEPT !.captures = Reviews!Loaded.captures]
          /\ state.mem = [told EXCEPT !.captures = state.mem.captures]
        BY <2>1, <2>2 DEF MemInv
    <2> HIDE DEF told
    <2>5. state.mem = [Reviews!Loaded EXCEPT !.captures = state.mem.captures]
        BY <2>3, <2>4
    <2>6. \A c : RefusedIn(rejects, c) => c \in 1 .. Len(captures)
        <3> SUFFICES ASSUME NEW c, RefusedIn(rejects, c) PROVE c \in 1 .. Len(captures)
            OBVIOUS
        <3>1. PICK i \in 1 .. Len(rejects) : rejects[i].capture = c
            BY DEF RefusedIn
        <3>2. rejects[i] \in RejectsOf(captures)
            BY <1>2
        <3> QED BY <3>1, <3>2 DEF RejectsOf
    <2>7. \A c : DecidedIn(out, rejects, c) => c \in Reviews!Loaded.captures
        <3> SUFFICES ASSUME NEW c, DecidedIn(out, rejects, c) PROVE c \in Reviews!Loaded.captures
            OBVIOUS
        <3>1. c \in Reviews!Loaded.captures \/ (RefusedIn(rejects, c) /\ c < 1)
            BY <2>1 DEF MemInv
        <3>2. RefusedIn(rejects, c) => ~(c < 1)
            BY <2>6
        <3> QED BY <3>1, <3>2
    <2>8. \A c \in Reviews!Loaded.captures \ state.mem.captures : RefusedIn(rejects, c)
        BY <2>1, <2>2 DEF MemInv
    <2>9. \A c \in state.mem.captures : DecidedIn(out, rejects, c)
        BY <2>2 DEF MemInv
    <2> QED BY <1>4, <2>5, <2>7, <2>8, <2>9
<1>10. /\ \A i, j \in real : out[i].capture = out[j].capture => i = j
       /\ \A i, j \in alternatives :
             Reviews!RowKey(out[i]) = Reviews!RowKey(out[j]) => i = j
       /\ \A i, j \in Reviews!Refused : rejects[i].capture = rejects[j].capture => i = j
       /\ \A c : ~(Reviews!Decided(c) /\ Reviews!Rejected(c))
    BY <1>1, <1>3, <1>4, KeyIs DEF FilesInv
<1>11. Reviews!Of("real") = real /\ Reviews!Of("alternative") = alternatives
    BY <1>3
<1> HIDE DEF real, alternatives
<1>12. /\ \A i, j \in Reviews!Of("real") : out[i].capture = out[j].capture => i = j
       /\ \A i, j \in Reviews!Of("alternative") :
             Reviews!RowKey(out[i]) = Reviews!RowKey(out[j]) => i = j
    BY <1>10, <1>11
<1>13. Reviews!Cardinality(Reviews!Of("alternative")) * AlternativesPer
           <= Reviews!Cardinality(Reviews!Of("real"))
    BY <1>6, <1>11, CountingIs
<1>14. \A g \in Groups :
           Reviews!Cardinality({i \in Reviews!Of("alternative") :
                                   Reviews!GroupOf(out[i].capture) = g}) <= MaxPerGroup
    BY <1>7, <1>11, CountingIs
<1>15. \A c \in DOMAIN captures :
           /\ ~(Reviews!Decided(c) /\ Reviews!Rejected(c))
           /\ state.phase = "done" => Reviews!Decided(c) \/ Reviews!Rejected(c)
    BY <1>2, <1>8, <1>10
<1> QED BY <1>9, <1>10, <1>12, <1>13, <1>14, <1>15, Zenon DEF Reviews!ReviewResumes

\* A review that is killed and resumed decides every capture once, keeps to the share and
\* to the number per group, and knows what its files tell (bin/forge-dataset/review.rs).
THEOREM ReviewsResume == JudgesSpec => []ReviewResumes
<1> DEFINE Resumable == focus = "reviews" => ReviewInv(state)
<1>1. JudgesInit => Resumable
    BY ReviewStarts DEF JudgesInit
<1>2. Resumable /\ [JudgesStep /\ UNCHANGED focus]_vars => Resumable'
    <2> SUFFICES ASSUME Resumable, [JudgesStep /\ UNCHANGED focus]_vars, focus' = "reviews"
                 PROVE  ReviewInv(state')
        OBVIOUS
    <2>1. focus = "reviews" /\ ReviewInv(state)
        BY DEF vars
    <2>2. Reviews!Next \/ UNCHANGED state
        BY <2>1 DEF JudgesStep, vars
    <2>3. CASE UNCHANGED state
        BY <2>1, <2>3
    <2>4. CASE Reviews!Next
        BY <2>1, <2>4, StartKeeps, ReadKeeps, BatchKeeps, WriteKeeps, WrittenKeeps,
           BeginAlternativesKeeps, AlternativeKeeps, DoneKeeps, CrashKeeps
           DEF Reviews!Next
    <2> QED BY <2>2, <2>3, <2>4
<1>3. Resumable => ReviewResumes
    BY ReviewInvImplies DEF ReviewResumes
<1> QED BY <1>1, <1>2, <1>3, PTL DEF JudgesSpec

-----------------------------------------------------------------------------
(* The filters.                                                            *)

\* An output of a command: at least a line, each of a class of the command.
OutputOf(command, lines) ==
    /\ command \in DOMAIN Families!Classes
    /\ \E n \in 1 .. MaxOutput : lines \in [1 .. n -> Families!Classes[command]]

\* A result that does not look well: it shows or counts a line that tells of a failure.
Tells(lines, out) == out.more > 0 \/ out.shown \cap Families!Of(lines, Families!Telling) # {}

FamilyInv ==
    /\ state = [command |-> state.command, lines |-> state.lines, shown |-> state.shown,
                more |-> state.more, done |-> state.done]
    /\ OutputOf(state.command, state.lines)
    /\ Families!NoFalseAllClear

LEMMA FamiliesFocus ==
    ASSUME [JudgesStep /\ UNCHANGED focus]_vars, focus = "families"
    PROVE  focus' = "families" /\ (Families!Next \/ UNCHANGED state)
BY DEF JudgesStep, vars

\* The filters count the lines they leave out as they are.
LEMMA FilterCounts == \A S : Families!Cardinality(S) = Cardinality(S)
BY DEF Families!Cardinality, Cardinality

\* The places of an output are numbers, finitely many, and each has a line of the command.
LEMMA OutputPlaces ==
    ASSUME NEW command, NEW lines, OutputOf(command, lines)
    PROVE  /\ DOMAIN lines = 1 .. Len(lines) /\ Len(lines) \in Nat
           /\ IsFiniteSet(DOMAIN lines)
           /\ \A i \in DOMAIN lines : lines[i] \in Families!Classes[command]
           /\ \A S \in SUBSET DOMAIN lines : Families!Cardinality(S) \in Nat
           /\ \A S \in SUBSET DOMAIN lines : S # {} => Families!Cardinality(S) > 0
<1>1. PICK n \in 1 .. MaxOutput : lines \in [1 .. n -> Families!Classes[command]]
    BY DEF OutputOf
<1>2. n \in Nat
    BY FilterAssumption
<1>3. DOMAIN lines = 1 .. n /\ Len(lines) = n
    BY <1>1, <1>2
<1>4. IsFiniteSet(1 .. n)
    BY <1>2, FS_Interval
<1>5. ASSUME NEW S \in SUBSET (1 .. n)
      PROVE  Families!Cardinality(S) \in Nat /\ (S # {} => Families!Cardinality(S) > 0)
    <2>1. IsFiniteSet(S)
        BY <1>4, FS_Subset
    <2>2. Cardinality(S) \in Nat /\ (Cardinality(S) = 0 <=> S = {})
        BY <2>1, FS_CardinalityType, FS_EmptySet
    <2>3. Families!Cardinality(S) = Cardinality(S)
        BY FilterCounts, Zenon
    <2>4. Cardinality(S) # 0 /\ Cardinality(S) \in Nat => Cardinality(S) > 0
        OBVIOUS
    <2> QED BY <2>2, <2>3, <2>4
<1> QED BY <1>1, <1>2, <1>3, <1>4, <1>5

\* A report of some failures shows one or counts one.
LEMMA ReportTells ==
    ASSUME NEW command, NEW lines, OutputOf(command, lines),
           NEW failures \in SUBSET Families!Of(lines, Families!Telling), failures # {},
           NEW beside
    PROVE  Tells(lines, Families!Report(failures, beside))
<1> DEFINE first == {i \in failures :
                        Families!Cardinality({j \in failures : j <= i}) <= MaxShown}
<1>1. Families!Report(failures, beside)
        = [shown |-> first \cup beside, more |-> Families!Cardinality(failures \ first)]
    BY DEF Families!Report
<1>2. first \subseteq failures /\ failures \subseteq DOMAIN lines
    BY DEF Families!Of
<1>3. CASE first = {}
    <2>1. failures \ first # {} /\ failures \ first \in SUBSET DOMAIN lines
        BY <1>2, <1>3
    <2>2. Families!Cardinality(failures \ first) > 0
        BY <2>1, OutputPlaces
    <2> QED BY <1>1, <2>2 DEF Tells
<1>4. CASE first # {}
    BY <1>1, <1>2, <1>4 DEF Tells
<1> QED BY <1>3, <1>4

\* An output kept whole, or shown in some lines that tell of a failure, tells of it.
LEMMA KeptTells ==
    ASSUME NEW lines, NEW shown, NEW more,
           shown \cap Families!Of(lines, Families!Telling) # {}
    PROVE  Tells(lines, [shown |-> shown, more |-> more])
BY DEF Tells

LEMMA AllTells ==
    ASSUME NEW lines, Families!Of(lines, Families!Telling) # {}
    PROVE  Tells(lines, Families!All(lines)) /\ Tells(lines, Families!Unknown(lines))
<1>1. Tells(lines, Families!All(lines))
    BY DEF Families!All, Families!Of, Tells
<1>2. ~ (Families!Range(lines) \subseteq {"blank"})
    BY Zenon DEF Families!Range, Families!Of, Families!Telling
<1> QED BY <1>1, <1>2 DEF Families!Unknown

\* Failures come first, then a summary: it must not hide a failure that is none of them.
LEMMA FailuresOrSummaryTells ==
    ASSUME NEW command, NEW lines, OutputOf(command, lines),
           Families!Of(lines, Families!Telling) # {},
           NEW failures \in SUBSET Families!Of(lines, Families!Telling), NEW summary,
           failures = {} /\ summary # {} =>
               summary \cap Families!Of(lines, Families!Telling) # {}
    PROVE  Tells(lines, Families!FailuresOrSummary(lines, failures, summary))
<1>1. CASE failures # {}
    BY <1>1, ReportTells DEF Families!FailuresOrSummary
<1>2. CASE failures = {} /\ summary # {}
    BY <1>2, KeptTells DEF Families!FailuresOrSummary
<1>3. CASE failures = {} /\ summary = {}
    BY <1>3, AllTells DEF Families!FailuresOrSummary
<1> QED BY <1>1, <1>2, <1>3

\* What npm shows for itself is needed only when no line, or too many, have errors.
LEMMA NpmTells ==
    ASSUME NEW lines, NEW rest,
           \/ /\ Families!Of(lines, {"error"}) # {}
              /\ Families!Cardinality(Families!Of(lines, {"error"})) * 2 < Len(lines)
           \/ Tells(lines, rest)
    PROVE  Tells(lines, Families!Npm(lines, rest))
<1>1. Families!Of(lines, {"error"}) \subseteq Families!Of(lines, Families!Telling)
    BY Zenon DEF Families!Of, Families!Telling
<1>2. CASE /\ Families!Of(lines, {"error"}) # {}
           /\ Families!Cardinality(Families!Of(lines, {"error"})) * 2 < Len(lines)
    BY <1>1, <1>2, KeptTells DEF Families!Npm
<1>3. CASE /\ Tells(lines, rest)
           /\ ~ (/\ Families!Of(lines, {"error"}) # {}
                 /\ Families!Cardinality(Families!Of(lines, {"error"})) * 2 < Len(lines))
    BY <1>3 DEF Families!Npm
<1> QED BY <1>2, <1>3

\* The build of cargo: a block of warnings without an error is one of the losses.
LEMMA CargoBuildTells ==
    ASSUME NEW lines, OutputOf("cargo_build", lines),
           Families!Of(lines, Families!Telling) # {}, ~Families!Lost("cargo_build", lines)
    PROVE  Tells(lines, Families!CargoBuild(lines))
<1> DEFINE json == Families!Of(lines, {"json error", "json warning"})
           errors == Families!Of(lines, {"code error", "no compile"})
           blocks == Families!InBlock(lines, {"code error", "warning block"}, {"blank"})
           reported == Families!Of(lines, {"json error"})
<1>1. /\ errors \in SUBSET Families!Of(lines, Families!Telling)
      /\ reported \in SUBSET Families!Of(lines, Families!Telling)
    BY Zenon DEF Families!Of, Families!Telling
<1>2. CASE json # {}
    <2>1. reported # {}
        BY <1>2, Zenon DEF Families!Lost, Families!Range, Families!Of
    <2>2. Tells(lines, Families!Report(reported, Families!Of(lines, {"json warning"})))
        BY <1>1, <2>1, ReportTells, Zenon
    <2> QED BY <1>2, <2>2, Zenon DEF Families!CargoBuild
<1>3. CASE json = {} /\ errors \cup blocks # {}
    <2>1. errors # {}
        <3>1. SUFFICES ASSUME errors = {} PROVE FALSE
            BY Zenon
        <3>2. PICK i \in blocks : TRUE
            BY <1>3, <3>1, Zenon
        <3>3. PICK h \in Families!Of(lines, {"code error", "warning block"}) : TRUE
            BY <3>2, Zenon DEF Families!InBlock
        <3>4. h \in DOMAIN lines /\ lines[h] = "warning block"
            BY <3>1, <3>3, Zenon DEF Families!Of
        <3>5. {"code error", "no compile", "json error"} \cap Families!Range(lines) = {}
            BY <1>3, <3>1, Zenon DEF Families!Range, Families!Of
        <3> QED BY <3>4, <3>5, Zenon DEF Families!Lost, Families!Range
    <2>2. Tells(lines, Families!Report(errors, blocks))
        BY <1>1, <2>1, ReportTells, Zenon
    <2> QED BY <1>3, <2>2, Zenon DEF Families!CargoBuild
<1>4. CASE json = {} /\ errors \cup blocks = {}
    BY <1>4, AllTells, Zenon DEF Families!CargoBuild
<1> QED BY <1>2, <1>3, <1>4, Zenon

\* The tests: what tells of a failure is a failure of the filter or a line of its summary.
LEMMA TestsTell ==
    ASSUME NEW command \in {"cargo_test", "pytest", "go_test", "test", "ls"}, NEW lines,
           OutputOf(command, lines),
           Families!Of(lines, Families!Telling) # {}, ~Families!Lost(command, lines)
    PROVE  Tells(lines, Families!Filtered(command, lines))
<1> DEFINE telling == Families!Of(lines, Families!Telling)
<1>0. PICK t \in DOMAIN lines : lines[t] \in Families!Telling
    BY DEF Families!Of
<1>1. lines[t] \in Families!Classes[command]
    BY OutputPlaces
<1>2. CASE command = "cargo_test"
    <2> DEFINE failures == Families!Of(lines, {"failed test", "code error"})
    <2>1. failures \in SUBSET telling
        BY Zenon DEF Families!Of, Families!Telling
    <2>2. lines[t] \in {"failed test", "code error"}
        BY <1>0, <1>1, <1>2, Zenon DEF Families!Classes, Families!Telling
    <2>3. failures # {}
        BY <1>0, <2>2, Zenon DEF Families!Of
    <2>4. Tells(lines, Families!FailuresOrSummary(lines, failures,
                           Families!Of(lines, {"test result"})))
        BY <2>1, <2>3, FailuresOrSummaryTells, Zenon
    <2> QED BY <1>2, <2>4, Zenon DEF Families!Filtered, Families!CargoTest
<1>3. CASE command = "pytest"
    <2> DEFINE failures == Families!Of(lines, {"header"})
               names == Families!Of(lines, {"failed name"})
               beside == Families!InBlock(lines, {"header"}, {"rule", "blank"}) \cup names
    <2>1. failures \in SUBSET telling /\ names \in SUBSET telling
        BY Zenon DEF Families!Of, Families!Telling
    <2>2. CASE failures = {}
        <3>1. Tells(lines, Families!FailuresOrSummary(lines, {}, names))
            BY <2>1, FailuresOrSummaryTells, Zenon
        <3> QED BY <1>3, <2>2, <3>1, Zenon DEF Families!Filtered, Families!Pytest
    <2>3. CASE failures # {}
        <3>1. Tells(lines, Families!Report(failures, beside))
            BY <2>1, <2>3, ReportTells, Zenon
        <3> QED BY <1>3, <2>3, <3>1, Zenon DEF Families!Filtered, Families!Pytest
    <2> QED BY <2>2, <2>3
<1>4. CASE command = "go_test"
    <2> DEFINE failures == Families!Of(lines, {"fail case"})
               summary == Families!Of(lines, {"ok", "space fail"})
    <2>1. failures \in SUBSET telling
        BY Zenon DEF Families!Of, Families!Telling
    <2>2. failures = {} /\ summary # {} => summary \cap telling # {}
        <3>1. SUFFICES ASSUME failures = {}, summary # {}, summary \cap telling = {}
                       PROVE  FALSE
            BY Zenon
        <3>2. "ok" \in Families!Range(lines)
            BY <3>1, Zenon DEF Families!Range, Families!Of, Families!Telling
        <3>3. ASSUME NEW i \in DOMAIN lines
              PROVE  lines[i] # "fail case" /\ lines[i] # "space fail"
            <4>1. lines[i] # "fail case"
                BY <3>1, Zenon DEF Families!Of
            <4>2. lines[i] = "space fail" => i \in summary \cap telling
                BY Zenon DEF Families!Of, Families!Telling
            <4> QED BY <3>1, <4>1, <4>2, Zenon
        <3>4. {"fail case", "space fail"} \cap Families!Range(lines) = {}
            BY <3>3, Zenon DEF Families!Range
        <3> QED BY <1>4, <3>2, <3>4, Zenon DEF Families!Lost
    <2>3. Tells(lines, Families!FailuresOrSummary(lines, failures, summary))
        BY <2>1, <2>2, FailuresOrSummaryTells, Zenon
    <2> QED BY <1>4, <2>3, Zenon DEF Families!Filtered, Families!GoTest
<1>5. CASE command = "test"
    <2> DEFINE failures == Families!Of(lines, {"error"})
               summary == Families!Of(lines, {"error", "passed"})
    <2>1. failures \in SUBSET telling
        BY Zenon DEF Families!Of, Families!Telling
    <2>2. lines[t] = "error"
        BY <1>0, <1>1, <1>5, Zenon DEF Families!Classes, Families!Telling
    <2>3. failures # {}
        BY <1>0, <2>2 DEF Families!Of
    <2>4. Tells(lines, Families!FailuresOrSummary(lines, failures, summary))
        BY <2>1, <2>3, FailuresOrSummaryTells
    <2> QED BY <1>5, <2>4 DEF Families!Filtered, Families!OtherTest
<1>6. CASE command = "ls"
    <2> DEFINE failures == Families!Of(lines, {"entry"})
    <2>1. failures \in SUBSET telling
        BY Zenon DEF Families!Of, Families!Telling
    <2>2. Tells(lines, Families!FailuresOrSummary(lines, failures, {}))
        BY <2>1, FailuresOrSummaryTells
    <2> QED BY <1>6, <2>2 DEF Families!Filtered, Families!Ls
<1> QED BY <1>2, <1>3, <1>4, <1>5, <1>6

\* The commands of npm: an installation loses its errors when they are many.
LEMMA NpmCommandsTell ==
    ASSUME NEW command \in {"npm_install", "npm_test", "npm_lint"}, NEW lines,
           OutputOf(command, lines),
           Families!Of(lines, Families!Telling) # {}, ~Families!Lost(command, lines)
    PROVE  Tells(lines, Families!Filtered(command, lines))
<1> DEFINE telling == Families!Of(lines, Families!Telling)
           errors == Families!Of(lines, {"error"})
<1>0. PICK t \in DOMAIN lines : lines[t] \in Families!Telling
    BY DEF Families!Of
<1>1. lines[t] \in Families!Classes[command]
    BY OutputPlaces
<1>2. CASE command = "npm_install"
    <2>1. lines[t] = "error"
        BY <1>0, <1>1, <1>2, Zenon DEF Families!Classes, Families!Telling
    <2>2. errors # {} /\ errors \in SUBSET DOMAIN lines
        BY <1>0, <2>1 DEF Families!Of
    <2>3. Families!Cardinality(errors) \in Nat /\ Len(lines) \in Nat
        BY <2>2, OutputPlaces
    <2>4. CASE Families!Cardinality(errors) * 2 < Len(lines)
        <3>1. Tells(lines, Families!Npm(lines, Families!NpmInstall(lines)))
            BY <2>2, <2>4, NpmTells
        <3> QED BY <1>2, <3>1 DEF Families!Filtered
    <2>5. CASE Families!Cardinality(errors) * 2 >= Len(lines)
        <3>1. {"added", "warn"} \cap Families!Range(lines) = {}
            BY <1>2, <2>5 DEF Families!Lost
        <3>2. Families!Of(lines, {"added", "warn"}) = {}
            BY <3>1 DEF Families!Range, Families!Of
        <3>3. Tells(lines, Families!NpmInstall(lines))
            BY <3>2, AllTells DEF Families!NpmInstall
        <3>4. Tells(lines, Families!Npm(lines, Families!NpmInstall(lines)))
            BY <3>3, NpmTells
        <3> QED BY <1>2, <3>4 DEF Families!Filtered
    <2> QED BY <2>3, <2>4, <2>5
<1>3. CASE command = "npm_test"
    <2> DEFINE failures == Families!Of(lines, {"error", "fail file"})
               summary == Families!Of(lines, {"test summary", "fail file"})
    <2>1. failures \in SUBSET telling
        BY Zenon DEF Families!Of, Families!Telling
    <2>2. lines[t] \in {"error", "fail file"}
        BY <1>0, <1>1, <1>3, Zenon DEF Families!Classes, Families!Telling
    <2>3. failures # {}
        BY <1>0, <2>2, Zenon DEF Families!Of
    <2>4. Tells(lines, Families!FailuresOrSummary(lines, failures, summary))
        BY <2>1, <2>3, FailuresOrSummaryTells, Zenon
    <2>5. Tells(lines, Families!Npm(lines, Families!NpmTest(lines)))
        BY <2>4, NpmTells, Zenon DEF Families!NpmTest
    <2> QED BY <1>3, <2>5 DEF Families!Filtered
<1>4. CASE command = "npm_lint"
    <2>1. errors \in SUBSET telling
        BY Zenon DEF Families!Of, Families!Telling
    <2>2. lines[t] = "error"
        BY <1>0, <1>1, <1>4, Zenon DEF Families!Classes, Families!Telling
    <2>3. errors # {}
        BY <1>0, <2>2 DEF Families!Of
    <2>4. Tells(lines, Families!FailuresOrSummary(lines, errors, Families!Of(lines, {"warn"})))
        BY <2>1, <2>3, FailuresOrSummaryTells
    <2>5. Tells(lines, Families!Npm(lines, Families!NpmLint(lines)))
        BY <2>4, NpmTells DEF Families!NpmLint
    <2> QED BY <1>4, <2>5 DEF Families!Filtered
<1> QED BY <1>2, <1>3, <1>4

\* Docker, pip and make lose only their progress; git and grep keep what they know.
LEMMA LinesTell ==
    ASSUME NEW command \in {"docker", "pip", "make", "git_status", "grep"}, NEW lines,
           OutputOf(command, lines),
           Families!Of(lines, Families!Telling) # {}, ~Families!Lost(command, lines)
    PROVE  Tells(lines, Families!Filtered(command, lines))
<1> DEFINE telling == Families!Of(lines, Families!Telling)
<1>0. PICK t \in DOMAIN lines : lines[t] \in Families!Telling
    BY DEF Families!Of
<1>1. lines[t] \in Families!Classes[command] /\ t \in telling
    BY <1>0, OutputPlaces DEF Families!Of
<1>2. ASSUME NEW progress \in {{"progress"}, {"progress", "satisfied"}}, lines[t] = "error"
      PROVE  Tells(lines, Families!WithoutProgress(lines, progress))
    <2> DEFINE kept == DOMAIN lines \ Families!Of(lines, progress \cup {"blank"})
    <2>1. t \in kept
        BY <1>0, <1>2 DEF Families!Of
    <2>2. Tells(lines, [shown |-> kept, more |-> 0])
        BY <1>1, <2>1, KeptTells
    <2> QED BY <2>1, <2>2 DEF Families!WithoutProgress
<1>3. CASE command = "docker"
    <2>1. lines[t] = "error"
        BY <1>0, <1>1, <1>3, Zenon DEF Families!Classes, Families!Telling
    <2> QED BY <1>2, <1>3, <2>1 DEF Families!Filtered
<1>4. CASE command = "pip"
    <2>1. lines[t] = "error"
        BY <1>0, <1>1, <1>4, Zenon DEF Families!Classes, Families!Telling
    <2> QED BY <1>2, <1>4, <2>1 DEF Families!Filtered
<1>5. CASE command = "make"
    <2> DEFINE kept == {i \in DOMAIN lines :
                           \/ lines[i] # "progress"
                           \/ \E j \in {i - 1, i + 1} \cap DOMAIN lines : lines[j] = "error"}
    <2>1. t \in kept
        BY <1>0, Zenon DEF Families!Telling
    <2>2. Tells(lines, [shown |-> kept, more |-> 0])
        BY <1>1, <2>1, KeptTells
    <2>3. Tells(lines, Families!Make(lines))
        BY <2>1, <2>2 DEF Families!Make
    <2> QED BY <1>5, <2>3 DEF Families!Filtered
<1>6. CASE command = "git_status"
    <2>1. CASE Families!Of(lines, {"error"}) # {}
        <3>1. Tells(lines, Families!GitStatus(lines))
            BY <2>1, AllTells DEF Families!GitStatus
        <3> QED BY <1>6, <3>1 DEF Families!Filtered
    <2>2. CASE Families!Of(lines, {"error"}) = {}
        <3>1. Families!Of(lines, {"change"}) \cap telling # {}
            <4>1. {"error", "change"} \cap Families!Range(lines) # {}
                BY <1>6 DEF Families!Lost
            <4>2. PICK i \in DOMAIN lines : lines[i] \in {"error", "change"}
                BY <4>1 DEF Families!Range
            <4>3. lines[i] = "change"
                BY <2>2, <4>2 DEF Families!Of
            <4>4. i \in Families!Of(lines, {"change"}) /\ i \in telling
                BY <4>3, Zenon DEF Families!Of, Families!Telling
            <4> QED BY <4>4
        <3>2. Tells(lines, Families!GitStatus(lines))
            BY <2>2, <3>1, KeptTells DEF Families!GitStatus
        <3> QED BY <1>6, <3>2 DEF Families!Filtered
    <2> QED BY <2>1, <2>2
<1>7. CASE command = "grep"
    <2> DEFINE matches == Families!Of(lines, {"match", "more match"})
               first == {i \in matches :
                   Families!Cardinality({j \in matches : lines[j] = lines[i] /\ j <= i})
                       <= MaxShown}
               out == [shown |-> first \cup Families!Of(lines, {"diagnostic"}),
                       more |-> IF first = matches THEN 0 ELSE 1]
    <2>1. lines[t] = "match"
        BY <1>0, <1>1, <1>7, Zenon DEF Families!Classes, Families!Telling
    <2>2. t \in matches
        BY <1>0, <2>1 DEF Families!Of
    <2>3. Tells(lines, out)
        <3>1. CASE first = matches
            BY <1>1, <2>2, <3>1, Zenon DEF Tells
        <3>2. CASE first # matches
            <4>1. out = [shown |-> first \cup Families!Of(lines, {"diagnostic"}), more |-> 1]
                BY <3>2, Zenon
            <4> HIDE DEF out, first
            <4>2. out.more = 1
                BY <4>1
            <4> QED BY <4>2 DEF Tells
        <3> QED BY <3>1, <3>2, Zenon
    <2>4. Families!Grep(lines) = out
        BY <2>2, Zenon DEF Families!Grep
    <2> QED BY <1>7, <2>3, <2>4, Zenon DEF Families!Filtered
<1> QED BY <1>3, <1>4, <1>5, <1>6, <1>7

\* What any filter shows of an output that tells of a failure tells of it.
LEMMA FilteredTells ==
    ASSUME NEW command, NEW lines, OutputOf(command, lines),
           Families!Of(lines, Families!Telling) # {}, ~Families!Lost(command, lines)
    PROVE  Tells(lines, Families!Filtered(command, lines))
<1>1. command \in {"cargo_build", "cargo_test", "pytest", "go_test", "test", "npm_install",
                   "npm_test", "npm_lint", "docker", "pip", "make", "git_status", "grep", "ls"}
    BY Zenon DEF OutputOf, Families!Classes
<1>2. CASE command = "cargo_build"
    <2>1. Tells(lines, Families!CargoBuild(lines))
        BY <1>2, CargoBuildTells
    <2> QED BY <1>2, <2>1 DEF Families!Filtered
<1> QED BY <1>1, <1>2, TestsTell, NpmCommandsTell, LinesTell

LEMMA FamilyInvInit == ASSUME Families!Init PROVE FamilyInv
<1>1. PICK command \in DOMAIN Families!Classes, n \in 1 .. MaxOutput :
          \E lines \in [1 .. n -> Families!Classes[command]] :
              state = [command |-> command, lines |-> lines, shown |-> {}, more |-> 0,
                       done |-> FALSE]
    BY DEF Families!Init
<1> QED BY <1>1 DEF FamilyInv, OutputOf, Families!NoFalseAllClear

LEMMA FilterKeeps == ASSUME FamilyInv, Families!Next PROVE FamilyInv'
<1> DEFINE out == Families!Filtered(state.command, state.lines)
<1>1. /\ state = [command |-> state.command, lines |-> state.lines, shown |-> state.shown,
                  more |-> state.more, done |-> state.done]
      /\ OutputOf(state.command, state.lines)
    BY DEF FamilyInv
<1>2. state' = [command |-> state.command, lines |-> state.lines, shown |-> out.shown,
                more |-> out.more, done |-> TRUE]
    BY <1>1 DEF Families!Next, Families!Filter
<1>3. /\ state'.command = state.command /\ state'.lines = state.lines
      /\ state'.shown = out.shown /\ state'.more = out.more
    BY <1>2
<1>4. Families!NoFalseAllClear'
    BY <1>1, <1>3, FilteredTells DEF Families!NoFalseAllClear, Tells
<1>5. OutputOf(state'.command, state'.lines)
    BY <1>1, <1>3
<1> QED BY <1>1, <1>2, <1>4, <1>5 DEF FamilyInv, OutputOf

\* No filter makes an output that tells of a failure look well, however many lines it
\* has and however few failures are shown (tool_output/families, filters): but for the
\* losses that Lost names, a line that tells of one is shown, or counted.
THEOREM FailuresStayVisible == JudgesSpec => []NoFalseAllClear
<1> DEFINE Inv == focus = "families" => FamilyInv
<1>1. JudgesInit => Inv
    BY FamilyInvInit DEF JudgesInit
<1>2. Inv /\ [JudgesStep /\ UNCHANGED focus]_vars => Inv'
    <2>1. ASSUME Inv, [JudgesStep /\ UNCHANGED focus]_vars, focus = "families" PROVE FamilyInv'
        <3>1. FamilyInv /\ (Families!Next \/ UNCHANGED state)
            BY <2>1, FamiliesFocus
        <3>2. CASE UNCHANGED state
            BY <3>1, <3>2 DEF FamilyInv, OutputOf, Families!NoFalseAllClear
        <3> QED BY <3>1, <3>2, FilterKeeps
    <2>2. [JudgesStep /\ UNCHANGED focus]_vars => focus' = focus
        BY DEF vars
    <2> QED BY <2>1, <2>2
<1>3. Inv => NoFalseAllClear
    BY DEF FamilyInv, NoFalseAllClear
<1> QED BY <1>1, <1>2, <1>3, PTL DEF JudgesSpec

-----------------------------------------------------------------------------
(* The cap.                                                                *)

\* A non-empty set of offsets has a last one and a first one.
LEMMA LastOffset ==
    ASSUME NEW n \in Nat, NEW S \in SUBSET (0 .. n), S # {}
    PROVE  Filters!Max(S) \in S /\ \A k \in S : k <= Filters!Max(S)
<1> DEFINE bounds == {top \in Nat : \A k \in S : k <= top}
<1>1. n \in bounds
    OBVIOUS
<1>2. PICK top \in bounds : \A c \in bounds : top <= c
    <2>1. bounds \in SUBSET Nat /\ bounds # {}
        BY <1>1
    <2> HIDE DEF bounds
    <2> QED BY <2>1, LeastNatural
<1>3. top \in S
    <2> SUFFICES ASSUME top \notin S PROVE FALSE
        OBVIOUS
    <2>1. \A k \in S : k \in Nat /\ k >= 0 /\ k <= top - 1
        BY <1>2
    <2>2. top - 1 \in bounds
        <3>1. PICK k \in S : TRUE
            OBVIOUS
        <3> QED BY <2>1, <3>1
    <2> QED BY <1>2, <2>2
<1>4. \E x \in S : \A y \in S : x >= y
    BY <1>2, <1>3
<1>5. Filters!Max(S) \in S /\ \A y \in S : Filters!Max(S) >= y
    BY <1>4 DEF Filters!Max
<1> QED BY <1>5

LEMMA FirstOffset ==
    ASSUME NEW S \in SUBSET Nat, S # {}
    PROVE  Filters!Min(S) \in S /\ \A k \in S : Filters!Min(S) <= k
<1>1. \E n \in S : \A m \in S : n <= m
    BY LeastNatural
<1> QED BY <1>1 DEF Filters!Min

\* A sum over a sequence, as the folds define it: over its places, the last one first.
Sums(w, f, N) ==
    f = [s \in SUBSET (1 .. N) |->
            IF s = {} THEN 0 ELSE f[s \ {Filters!Max(s)}] + w[Filters!Max(s)]]

LEMMA Summable == ASSUME NEW w, NEW N \in Nat PROVE \E f : Sums(w, f, N)
<1> DEFINE stuck == {k \in 0 .. N : ~ \E f : Sums(w, f, k)}
<1>0. N \in 0 .. N
    OBVIOUS
<1> SUFFICES ASSUME stuck # {} PROVE FALSE
    BY <1>0, Zenon
<1>1. PICK k \in stuck : \A l \in stuck : k <= l
    <2>1. stuck \in SUBSET Nat
        OBVIOUS
    <2> HIDE DEF stuck
    <2> QED BY <2>1, LeastNatural
<1>2. k # 0
    <2> DEFINE f == [s \in SUBSET (1 .. 0) |-> 0]
    <2>1. \A s \in SUBSET (1 .. 0) : s = {}
        OBVIOUS
    <2>2. Sums(w, f, 0)
        BY <2>1 DEF Sums
    <2> QED BY <2>2
<1>3. k \in 0 .. N /\ k - 1 \in 0 .. N /\ k \in Nat /\ k - 1 \in Nat /\ ~(k <= k - 1)
    BY <1>2
<1>4. PICK f : Sums(w, f, k - 1)
    BY <1>1, <1>3
<1> DEFINE longer == [s \in SUBSET (1 .. k) |->
                        IF k \in s THEN f[s \ {k}] + w[k] ELSE f[s]]
<1>5. ASSUME NEW s \in SUBSET (1 .. k)
      PROVE  longer[s] = IF s = {} THEN 0
                         ELSE longer[s \ {Filters!Max(s)}] + w[Filters!Max(s)]
    <2>0. s \in SUBSET (0 .. k)
        BY <1>3
    <2>1. CASE k \in s
        <3>1. s # {}
            BY <2>1
        <3>2. Filters!Max(s) \in s /\ k <= Filters!Max(s)
            BY <1>3, <2>0, <2>1, LastOffset
        <3>3. Filters!Max(s) = k
            <4>1. Filters!Max(s) \in 1 .. k
                BY <3>2
            <4> QED BY <1>3, <3>2, <4>1
        <3>4. longer[s \ {k}] = f[s \ {k}]
            <4>1. s \ {k} \in SUBSET (1 .. k) /\ k \notin s \ {k}
                OBVIOUS
            <4> QED BY <4>1
        <3>5. longer[s] = f[s \ {k}] + w[k]
            BY <2>1
        <3> QED BY <3>1, <3>3, <3>4, <3>5
    <2>2. CASE k \notin s
        <3>1. s \in SUBSET (1 .. k - 1)
            BY <1>3, <2>2
        <3>2. f[s] = IF s = {} THEN 0 ELSE f[s \ {Filters!Max(s)}] + w[Filters!Max(s)]
            BY <1>4, <3>1 DEF Sums
        <3>3. longer[s] = f[s]
            BY <2>2
        <3>4. s \ {Filters!Max(s)} \in SUBSET (1 .. k) /\ k \notin s \ {Filters!Max(s)}
            BY <2>2
        <3>5. longer[s \ {Filters!Max(s)}] = f[s \ {Filters!Max(s)}]
            BY <3>4
        <3> QED BY <3>2, <3>3, <3>5
    <2> QED BY <2>1, <2>2
<1>6. Sums(w, longer, k)
    BY <1>5 DEF Sums
<1> QED BY <1>1, <1>6

LEMMA SumsStepwise ==
    ASSUME NEW w, NEW f, NEW N \in Nat, Sums(w, f, N)
    PROVE  f[1 .. 0] = 0 /\ \A n \in 1 .. N : f[1 .. n] = f[1 .. (n - 1)] + w[n]
<1>1. f[1 .. 0] = 0
    <2>1. 1 .. 0 = {} /\ {} \in SUBSET (1 .. N)
        OBVIOUS
    <2> QED BY <2>1 DEF Sums
<1>2. ASSUME NEW n \in 1 .. N PROVE f[1 .. n] = f[1 .. (n - 1)] + w[n]
    <2>1. /\ 1 .. n \in SUBSET (1 .. N) /\ 1 .. n # {} /\ n \in 1 .. n /\ n \in Nat
          /\ 1 .. n \in SUBSET (0 .. n)
        OBVIOUS
    <2>2. Filters!Max(1 .. n) \in 1 .. n /\ n <= Filters!Max(1 .. n)
        BY <2>1, LastOffset
    <2>3. Filters!Max(1 .. n) = n /\ (1 .. n) \ {n} = 1 .. (n - 1)
        BY <2>2
    <2>4. f[1 .. n] = f[(1 .. n) \ {Filters!Max(1 .. n)}] + w[Filters!Max(1 .. n)]
        BY <2>1 DEF Sums
    <2> QED BY <2>3, <2>4
<1> QED BY <1>1, <1>2

\* A scale tells of every offset how many bytes lie before it.
Chars == {"a", "wide", "newline", "error"}

Scale(text, f) ==
    /\ text \in Seq(Chars)
    /\ f \in [0 .. Len(text) -> Nat]
    /\ f[0] = 0
    /\ \A n \in 1 .. Len(text) : f[n] = f[n - 1] + Filters!Width(text[n])

Weighed(text) ==
    LET iter[s \in SUBSET DOMAIN text] ==
            IF s = {} THEN 0
            ELSE LET x == Filters!Max(s) IN iter[s \ {x}] + Filters!Width(text[x])
    IN  iter[DOMAIN text]

LEMMA BytesWeighed == ASSUME NEW text PROVE Filters!Bytes(text) = Weighed(text)
BY DEF Filters!Bytes, Filters!FoldLeft, Filters!MapThenFoldSet, Weighed

LEMMA BytesSummed ==
    ASSUME NEW text, NEW N \in Nat, DOMAIN text = 1 .. N
    PROVE  \E f : Sums([n \in 1 .. N |-> Filters!Width(text[n])], f, N)
                    /\ Filters!Bytes(text) = f[1 .. N]
<1> DEFINE w == [n \in 1 .. N |-> Filters!Width(text[n])]
           Value(f, s) == IF s = {} THEN 0
                          ELSE f[s \ {Filters!Max(s)}] + Filters!Width(text[Filters!Max(s)])
           iter == CHOOSE f : f = [s \in SUBSET (1 .. N) |-> Value(f, s)]
<1>1. ASSUME NEW f
      PROVE  [s \in SUBSET (1 .. N) |-> Value(f, s)]
                 = [s \in SUBSET (1 .. N) |->
                       IF s = {} THEN 0 ELSE f[s \ {Filters!Max(s)}] + w[Filters!Max(s)]]
    <2>1. ASSUME NEW s \in SUBSET (1 .. N), s # {} PROVE Filters!Max(s) \in 1 .. N
        <3>1. s \in SUBSET (0 .. N)
            OBVIOUS
        <3> QED BY <2>1, <3>1, LastOffset
    <2>2. ASSUME NEW s \in SUBSET (1 .. N), s # {}
          PROVE  w[Filters!Max(s)] = Filters!Width(text[Filters!Max(s)])
        BY <2>1, <2>2
    <2> HIDE DEF w
    <2> QED BY <2>2
<1>2. PICK g : Sums(w, g, N)
    BY Summable
<1>3. g = [s \in SUBSET (1 .. N) |-> Value(g, s)]
    BY <1>1, <1>2 DEF Sums
<1>4. iter = [s \in SUBSET (1 .. N) |-> Value(iter, s)]
    BY <1>3
<1>5. Filters!Bytes(text) = iter[1 .. N]
    BY BytesWeighed DEF Weighed
<1> HIDE DEF iter
<1>6. Sums(w, iter, N)
    BY <1>1, <1>4 DEF Sums
<1> QED BY <1>5, <1>6

LEMMA WidthIs == ASSUME NEW char PROVE Filters!Width(char) \in {1, 2}
BY DEF Filters!Width

LEMMA BytesOnScale ==
    ASSUME NEW text, NEW f, Scale(text, f)
    PROVE  Filters!Bytes(text) = f[Len(text)]
<1>1. /\ text \in Seq(Chars) /\ Len(text) \in Nat /\ DOMAIN text = 1 .. Len(text)
      /\ f[0] = 0
      /\ \A n \in 1 .. Len(text) : f[n] = f[n - 1] + Filters!Width(text[n])
    BY DEF Scale
<1> DEFINE N == Len(text)
           w == [n \in 1 .. N |-> Filters!Width(text[n])]
<1>2. PICK g : Sums(w, g, N) /\ Filters!Bytes(text) = g[1 .. N]
    BY <1>1, BytesSummed
<1>3. g[1 .. 0] = 0 /\ \A n \in 1 .. N : g[1 .. n] = g[1 .. (n - 1)] + w[n]
    <2> HIDE DEF w
    <2> QED BY <1>1, <1>2, SumsStepwise
<1> DEFINE same == {n \in 0 .. N : g[1 .. n] = f[n]}
<1>4. 0 \in same
    BY <1>1, <1>3
<1>5. \A n \in 1 .. N : n - 1 \in same => n \in same
    BY <1>1, <1>3
<1>6. N \in same
    <2> HIDE DEF same
    <2>1. \A n \in 0 .. N : n \in same
        BY <1>1, <1>4, <1>5, UpTo, Zenon
    <2> QED BY <1>1, <2>1
<1> QED BY <1>2, <1>6

LEMMA ScaleExists == ASSUME NEW text \in Seq(Chars) PROVE \E f : Scale(text, f)
<1>1. Len(text) \in Nat /\ DOMAIN text = 1 .. Len(text)
    OBVIOUS
<1> DEFINE N == Len(text)
           w == [n \in 1 .. N |-> Filters!Width(text[n])]
<1>2. PICK g : Sums(w, g, N)
    BY <1>1, Summable
<1>3. g[1 .. 0] = 0 /\ \A n \in 1 .. N : g[1 .. n] = g[1 .. (n - 1)] + w[n]
    <2> HIDE DEF w
    <2> QED BY <1>1, <1>2, SumsStepwise
<1> DEFINE f == [n \in 0 .. N |-> g[1 .. n]]
           counted == {n \in 0 .. N : g[1 .. n] \in Nat}
<1>4. 0 \in counted
    BY <1>1, <1>3
<1>5. ASSUME NEW n \in 1 .. N, n - 1 \in counted PROVE n \in counted
    <2>1. w[n] \in {1, 2}
        BY WidthIs
    <2> HIDE DEF w
    <2> QED BY <1>1, <1>3, <1>5, <2>1
<1>6. \A n \in 0 .. N : n \in counted
    <2> HIDE DEF counted
    <2>1. \A n \in 1 .. N : n - 1 \in counted => n \in counted
        BY <1>5
    <2> QED BY <1>1, <1>4, <2>1, UpTo, Zenon
<1>7. f \in [0 .. N -> Nat] /\ f[0] = 0
    BY <1>1, <1>3, <1>6
<1>8. ASSUME NEW n \in 1 .. N PROVE f[n] = f[n - 1] + Filters!Width(text[n])
    BY <1>1, <1>3
<1> HIDE DEF f
<1> QED BY <1>7, <1>8 DEF Scale

LEMMA ScaleGrows ==
    ASSUME NEW text, NEW f, Scale(text, f),
           NEW a \in 0 .. Len(text), NEW b \in 0 .. Len(text), a <= b
    PROVE  f[a] <= f[b] /\ f[a] \in Nat /\ f[b] \in Nat
<1>1. /\ Len(text) \in Nat /\ f \in [0 .. Len(text) -> Nat]
      /\ \A n \in 1 .. Len(text) : f[n] = f[n - 1] + Filters!Width(text[n])
    BY DEF Scale
<1> DEFINE reached == {d \in 0 .. (b - a) : f[a] <= f[a + d]}
<1>2. b - a \in Nat
    BY <1>1
<1>3. 0 \in reached
    <2>1. a + 0 = a /\ f[a] \in Nat /\ 0 \in 0 .. (b - a)
        BY <1>1, <1>2
    <2>2. f[a] <= f[a]
        BY <2>1
    <2> QED BY <2>1, <2>2
<1>4. ASSUME NEW d \in 1 .. (b - a), d - 1 \in reached PROVE d \in reached
    <2>1. a + d \in 1 .. Len(text) /\ (a + d) - 1 = a + (d - 1) /\ (a + d) - 1 \in 0 .. Len(text)
        BY <1>1
    <2>2. f[a + d] = f[a + (d - 1)] + Filters!Width(text[a + d])
        BY <1>1, <2>1
    <2>3. Filters!Width(text[a + d]) \in {1, 2}
        BY WidthIs
    <2>4. f[a] \in Nat /\ f[a + d] \in Nat /\ f[a + (d - 1)] \in Nat
        BY <1>1, <2>1
    <2>5. f[a] <= f[a + (d - 1)]
        BY <1>4
    <2>6. f[a] <= f[a + d]
        BY <2>2, <2>3, <2>4, <2>5
    <2> QED BY <2>6
<1>5. \A d \in 0 .. (b - a) : d \in reached
    <2> HIDE DEF reached
    <2>1. \A d \in 1 .. (b - a) : d - 1 \in reached => d \in reached
        BY <1>4
    <2> QED BY <1>2, <1>3, <2>1, UpTo, Zenon
<1>6. b - a \in reached /\ a + (b - a) = b
    <2>1. b - a \in 0 .. (b - a) /\ a + (b - a) = b
        BY <1>1, <1>2
    <2> HIDE DEF reached
    <2> QED BY <1>5, <2>1
<1> QED BY <1>1, <1>6

\* A stretch of a text has a scale of its own.
LEMMA StretchScale ==
    ASSUME NEW text, NEW f, Scale(text, f),
           NEW a \in 0 .. Len(text), NEW b \in 0 .. Len(text), a <= b
    PROVE  /\ Scale(SubSeq(text, a + 1, b), [k \in 0 .. (b - a) |-> f[a + k] - f[a]])
           /\ Len(SubSeq(text, a + 1, b)) = b - a
<1>1. /\ text \in Seq(Chars) /\ Len(text) \in Nat /\ f \in [0 .. Len(text) -> Nat]
      /\ \A n \in 1 .. Len(text) : f[n] = f[n - 1] + Filters!Width(text[n])
    BY DEF Scale
<1> DEFINE sub == SubSeq(text, a + 1, b)
           g == [k \in 0 .. (b - a) |-> f[a + k] - f[a]]
<1>2. /\ sub \in Seq(Chars) /\ Len(sub) = b - a
      /\ \A k \in 1 .. (b - a) : sub[k] = text[a + k]
    <2>1. a + 1 \in 1 .. (Len(text) + 1) /\ b \in a .. Len(text) /\ b - a \in Nat
        BY <1>1
    <2>2. /\ Len(sub) = b - a /\ DOMAIN sub = 1 .. (b - a)
          /\ \A k \in 1 .. (b - a) : sub[k] = text[a + k]
        BY <1>1, <2>1
    <2>3. \A k \in 1 .. (b - a) : a + k \in 1 .. Len(text) /\ text[a + k] \in Chars
        BY <1>1, <2>1
    <2>4. sub \in Seq(Chars)
        BY <1>1, <2>1, <2>2, <2>3
    <2> QED BY <2>2, <2>4
<1> HIDE DEF sub
<1>3. g \in [0 .. (b - a) -> Nat] /\ g[0] = 0
    <2>1. ASSUME NEW k \in 0 .. (b - a) PROVE f[a + k] - f[a] \in Nat
        <3>1. a + k \in 0 .. Len(text) /\ a <= a + k
            BY <1>1
        <3>2. f[a] <= f[a + k] /\ f[a] \in Nat /\ f[a + k] \in Nat
            BY <3>1, ScaleGrows
        <3> QED BY <3>2
    <2>2. f[a + 0] - f[a] = 0 /\ 0 \in 0 .. (b - a)
        BY <1>1
    <2> QED BY <2>1, <2>2
<1>4. ASSUME NEW n \in 1 .. (b - a) PROVE g[n] = g[n - 1] + Filters!Width(sub[n])
    <2>1. a + n \in 1 .. Len(text) /\ a + (n - 1) = (a + n) - 1 /\ n - 1 \in 0 .. (b - a)
        BY <1>1
    <2>2. f[a + n] = f[a + (n - 1)] + Filters!Width(text[a + n])
        BY <1>1, <2>1
    <2>3. g[n] = f[a + n] - f[a] /\ g[n - 1] = f[a + (n - 1)] - f[a]
        BY <2>1
    <2>4. /\ f[a] \in Nat /\ f[a + (n - 1)] \in Nat
          /\ Filters!Width(text[a + n]) \in {1, 2} /\ sub[n] = text[a + n]
        BY <1>1, <1>2, <2>1, WidthIs
    <2>5. Filters!Width(sub[n]) = Filters!Width(text[a + n])
        BY <2>4
    <2>6. \A x, y, z, width : y \in Nat /\ z \in Nat /\ width \in {1, 2} /\ x = y + width =>
              x - z = (y - z) + width
        OBVIOUS
    <2>7. f[a + n] - f[a] = (f[a + (n - 1)] - f[a]) + Filters!Width(text[a + n])
        BY <2>2, <2>4, <2>6
    <2> HIDE DEF g
    <2> QED BY <2>3, <2>5, <2>7
<1> HIDE DEF g
<1>5. Scale(sub, g)
    BY <1>2, <1>3, <1>4 DEF Scale
<1> QED BY <1>2, <1>5 DEF sub, g

LEMMA StretchBytes ==
    ASSUME NEW text, NEW f, Scale(text, f),
           NEW a \in 0 .. Len(text), NEW b \in 0 .. Len(text), a <= b
    PROVE  Filters!Bytes(SubSeq(text, a + 1, b)) = f[b] - f[a]
<1> DEFINE g == [k \in 0 .. (b - a) |-> f[a + k] - f[a]]
<1>1. Scale(SubSeq(text, a + 1, b), g) /\ Len(SubSeq(text, a + 1, b)) = b - a
    BY StretchScale
<1>2. Len(text) \in Nat
    BY DEF Scale
<1>3. g[b - a] = f[b] - f[a]
    <2>1. b - a \in 0 .. (b - a) /\ a + (b - a) = b
        BY <1>2
    <2> QED BY <2>1
<1> HIDE DEF g
<1> QED BY <1>1, <1>3, BytesOnScale

LEMMA PrefixBytes ==
    ASSUME NEW text, NEW f, Scale(text, f), NEW n \in 0 .. Len(text)
    PROVE  Filters!Before(text, n) = f[n] /\ f[n] \in Nat
<1>1. Len(text) \in Nat /\ 0 \in 0 .. Len(text) /\ 0 <= n /\ 0 + 1 = 1
      /\ f[0] = 0 /\ f \in [0 .. Len(text) -> Nat]
    BY DEF Scale
<1>2. Filters!Bytes(SubSeq(text, 0 + 1, n)) = f[n] - f[0]
    BY <1>1, StretchBytes
<1>3. f[n] \in Nat /\ f[n] - f[0] = f[n]
    BY <1>1
<1> QED BY <1>1, <1>2, <1>3 DEF Filters!Before

\* The head and the tail of a text fit their limits, and the tail begins with the first
\* character that allows it.
LEMMA HeadFits ==
    ASSUME NEW text, NEW f, Scale(text, f), NEW limit \in Nat
    PROVE  /\ Filters!HeadEnd(text, limit) \in 0 .. Len(text)
           /\ f[Filters!HeadEnd(text, limit)] <= limit
<1> DEFINE ends == {n \in 0 .. Len(text) : Filters!Before(text, n) <= limit}
<1>1. Len(text) \in Nat /\ f[0] = 0
    BY DEF Scale
<1>2. 0 \in ends
    <2>1. Filters!Before(text, 0) = 0
        BY <1>1, PrefixBytes
    <2> QED BY <1>1, <2>1
<1>3. Filters!Max(ends) \in ends
    <2>1. ends \in SUBSET (0 .. Len(text)) /\ ends # {}
        BY <1>2
    <2> HIDE DEF ends
    <2> QED BY <1>1, <2>1, LastOffset
<1>4. Filters!HeadEnd(text, limit) \in ends
    BY <1>3 DEF Filters!HeadEnd
<1> QED BY <1>4, PrefixBytes

LEMMA TailFits ==
    ASSUME NEW text, NEW f, Scale(text, f), NEW limit \in Nat, NEW t,
           t = Filters!TailStart(text, limit)
    PROVE  /\ t \in 0 .. Len(text)
           /\ f[Len(text)] - f[t] <= limit
           /\ \A n \in 0 .. (Len(text) - 1) : f[n] >= f[Len(text)] - limit => t <= n
<1>1. /\ Len(text) \in Nat /\ f \in [0 .. Len(text) -> Nat] /\ f[0] = 0
      /\ Filters!Bytes(text) = f[Len(text)]
    <2>1. Filters!Bytes(text) = f[Len(text)]
        BY BytesOnScale
    <2> QED BY <2>1 DEF Scale
<1>2. CASE f[Len(text)] <= limit
    <2>1. t = 0
        BY <1>1, <1>2 DEF Filters!TailStart
    <2> QED BY <1>1, <1>2, <2>1
<1>3. CASE ~ (f[Len(text)] <= limit)
    <2> DEFINE starts == {n \in 0 .. (Len(text) - 1) :
                             Filters!Before(text, n) >= Filters!Bytes(text) - limit}
    <2>1. \A n \in 0 .. (Len(text) - 1) :
              n \in starts <=> f[n] >= f[Len(text)] - limit
        <3>1. ASSUME NEW n \in 0 .. (Len(text) - 1) PROVE Filters!Before(text, n) = f[n]
            <4>1. n \in 0 .. Len(text)
                BY <1>1
            <4> QED BY <4>1, PrefixBytes
        <3> QED BY <1>1, <3>1
    <2>2. starts \in SUBSET (0 .. (Len(text) - 1))
        OBVIOUS
    <2>3. t = IF starts = {} THEN Len(text) ELSE Filters!Min(starts)
        BY <1>1, <1>3 DEF Filters!TailStart
    <2> HIDE DEF starts
    <2>4. CASE starts = {}
        <3>1. t = Len(text)
            BY <2>3, <2>4
        <3>2. Len(text) \in 0 .. Len(text) /\ f[Len(text)] - f[Len(text)] = 0
            BY <1>1
        <3>3. \A n \in 0 .. (Len(text) - 1) : ~ (f[n] >= f[Len(text)] - limit)
            BY <2>1, <2>4
        <3> QED BY <3>1, <3>2, <3>3
    <2>5. CASE starts # {}
        <3>1. starts \in SUBSET Nat
            BY <1>1, <2>2
        <3>2. t \in starts /\ \A k \in starts : t <= k
            BY <2>3, <2>5, <3>1, FirstOffset, Zenon
        <3>3. t \in 0 .. (Len(text) - 1) /\ f[t] >= f[Len(text)] - limit
            BY <2>1, <2>2, <3>2
        <3>4. t \in 0 .. Len(text) /\ f[t] \in Nat /\ f[Len(text)] \in Nat
            BY <1>1, <3>3
        <3>5. f[Len(text)] - f[t] <= limit
            BY <3>3, <3>4
        <3> QED BY <2>1, <3>2, <3>4, <3>5
    <2> QED BY <2>4, <2>5
<1> QED BY <1>2, <1>3

\* What CapKeeps says of a text, a limit and the windows that are kept.
BytesKept(text, out) ==
    LET Add(sum, w) == sum + Filters!Bytes(SubSeq(text, w[1] + 1, w[2]))
    IN  Filters!FoldLeft(Add, 0, out)

Share(max) == (max * 3) \div 5

WholeLine(text, max, n) ==
    \/ Filters!Before(text, Filters!LineEnd(text, n)) <= Share(max)
    \/ n >= Filters!TailStart(text, max - Share(max))

Apart(out) ==
    /\ \A i \in 1 .. Len(out) : out[i][1] <= out[i][2]
    /\ \A i \in 1 .. (Len(out) - 1) : out[i][2] <= out[i + 1][1]

KeepsError(text, max, out) ==
    \E n \in Filters!Signals(text) :
        /\ ~WholeLine(text, max, n)
        /\ \A m \in Filters!Signals(text) : m < n => WholeLine(text, max, m)
        /\ \E i \in DOMAIN out : out[i][1] <= n /\ n < out[i][2]

CapsWell(text, max, out) ==
    Apart(out) /\ BytesKept(text, out) <= max /\ (Len(out) = 3 => KeepsError(text, max, out))

LEMMA Shares ==
    ASSUME NEW max \in Nat
    PROVE  /\ Share(max) \in Nat /\ max - Share(max) \in Nat
           /\ (max * 45) \div 100 \in Nat /\ (max * 20) \div 100 \in Nat
           /\ max - (max * 45) \div 100 - (max * 20) \div 100 \in Nat
BY DEF Share

\* What is kept is the sum of the windows.
WeighedWindows(text, out) ==
    LET iter[s \in SUBSET DOMAIN out] ==
            IF s = {} THEN 0
            ELSE LET x == Filters!Max(s)
                 IN  iter[s \ {x}] + Filters!Bytes(SubSeq(text, out[x][1] + 1, out[x][2]))
    IN  iter[DOMAIN out]

LEMMA KeptWeighed == ASSUME NEW text, NEW out PROVE BytesKept(text, out) = WeighedWindows(text, out)
BY DEF BytesKept, Filters!FoldLeft, Filters!MapThenFoldSet, WeighedWindows

Weights(text, out, N) ==
    [i \in 1 .. N |-> Filters!Bytes(SubSeq(text, out[i][1] + 1, out[i][2]))]

LEMMA KeptSummed ==
    ASSUME NEW text, NEW out, NEW N \in Nat, DOMAIN out = 1 .. N
    PROVE  \E f : Sums(Weights(text, out, N), f, N) /\ BytesKept(text, out) = f[1 .. N]
<1> DEFINE w == Weights(text, out, N)
<1> DEFINE Piece(x) == Filters!Bytes(SubSeq(text, out[x][1] + 1, out[x][2]))
           Value(f, s) == IF s = {} THEN 0
                          ELSE f[s \ {Filters!Max(s)}] + Piece(Filters!Max(s))
           iter == CHOOSE f : f = [s \in SUBSET (1 .. N) |-> Value(f, s)]
<1>0. \A i \in 1 .. N : w[i] = Piece(i)
    BY DEF Weights
<1> HIDE DEF w
<1>1. ASSUME NEW f
      PROVE  [s \in SUBSET (1 .. N) |-> Value(f, s)]
                 = [s \in SUBSET (1 .. N) |->
                       IF s = {} THEN 0 ELSE f[s \ {Filters!Max(s)}] + w[Filters!Max(s)]]
    <2>1. ASSUME NEW s \in SUBSET (1 .. N), s # {} PROVE Filters!Max(s) \in 1 .. N
        <3>1. s \in SUBSET (0 .. N)
            OBVIOUS
        <3> QED BY <2>1, <3>1, LastOffset
    <2>2. ASSUME NEW s \in SUBSET (1 .. N), s # {}
          PROVE  w[Filters!Max(s)] = Piece(Filters!Max(s))
        BY <1>0, <2>1, <2>2
    <2> HIDE DEF Piece
    <2> QED BY <2>2
<1>2. PICK g : Sums(w, g, N)
    BY Summable
<1>3. g = [s \in SUBSET (1 .. N) |-> Value(g, s)]
    BY <1>1, <1>2 DEF Sums
<1>4. iter = [s \in SUBSET (1 .. N) |-> Value(iter, s)]
    BY <1>3
<1>5. BytesKept(text, out) = iter[1 .. N]
    BY KeptWeighed DEF WeighedWindows
<1> HIDE DEF iter
<1>6. Sums(w, iter, N)
    BY <1>1, <1>4 DEF Sums
<1> QED BY <1>5, <1>6 DEF w

LEMMA KeptStepwise ==
    ASSUME NEW text, NEW out, NEW N \in {1, 2, 3}, DOMAIN out = 1 .. N, NEW w,
           w = Weights(text, out, N), w[1] \in Nat
    PROVE  /\ N = 1 => BytesKept(text, out) = w[1]
           /\ N = 2 => BytesKept(text, out) = w[1] + w[2]
           /\ N = 3 => BytesKept(text, out) = (w[1] + w[2]) + w[3]
<1>0. N \in Nat
    OBVIOUS
<1>1. PICK h : Sums(w, h, N) /\ BytesKept(text, out) = h[1 .. N]
    BY <1>0, KeptSummed
<1>2. h[1 .. 0] = 0 /\ \A n \in 1 .. N : h[1 .. n] = h[1 .. (n - 1)] + w[n]
    BY <1>0, <1>1, SumsStepwise
<1>3. h[1 .. 1] = w[1]
    <2>1. 1 \in 1 .. N /\ 1 - 1 = 0
        OBVIOUS
    <2>2. h[1 .. 1] = h[1 .. 0] + w[1]
        BY <1>2, <2>1
    <2> QED BY <1>2, <2>2
<1>4. CASE N = 1
    BY <1>1, <1>3, <1>4
<1>5. ASSUME N \in {2, 3} PROVE h[1 .. 2] = w[1] + w[2]
    <2>1. 2 \in 1 .. N /\ 2 - 1 = 1
        BY <1>5
    <2>2. h[1 .. 2] = h[1 .. 1] + w[2]
        BY <1>2, <2>1
    <2> QED BY <1>3, <2>2
<1>6. CASE N = 2
    BY <1>1, <1>5, <1>6
<1>7. CASE N = 3
    <2>1. 3 \in 1 .. N /\ 3 - 1 = 2
        BY <1>7
    <2>2. h[1 .. 3] = h[1 .. 2] + w[3]
        BY <1>2, <2>1
    <2> QED BY <1>1, <1>5, <1>7, <2>2
<1> QED BY <1>4, <1>6, <1>7

LEMMA KeptOfOne ==
    ASSUME NEW text, NEW f, Scale(text, f),
           NEW a \in 0 .. Len(text), NEW b \in 0 .. Len(text), a <= b
    PROVE  BytesKept(text, <<<<a, b>>>>) = f[b] - f[a]
<1>1. Filters!Bytes(SubSeq(text, a + 1, b)) = f[b] - f[a]
    BY StretchBytes
<1>2. f[b] - f[a] \in Nat
    <2>1. f[a] <= f[b] /\ f[a] \in Nat /\ f[b] \in Nat
        BY ScaleGrows
    <2> QED BY <2>1
<1> DEFINE out == <<<<a, b>>>>
           w == Weights(text, out, 1)
<1>3. DOMAIN out = 1 .. 1 /\ out[1] = <<a, b>>
    OBVIOUS
<1> HIDE DEF out
<1>4. w[1] = f[b] - f[a]
    BY <1>1, <1>3 DEF Weights
<1>5. w = Weights(text, out, 1)
    OBVIOUS
<1> HIDE DEF w
<1>6. BytesKept(text, out) = w[1]
    BY <1>2, <1>3, <1>4, <1>5, KeptStepwise
<1> QED BY <1>4, <1>6 DEF out

LEMMA KeptOfTwo ==
    ASSUME NEW text, NEW f, Scale(text, f),
           NEW a \in 0 .. Len(text), NEW b \in 0 .. Len(text),
           NEW c \in 0 .. Len(text), NEW d \in 0 .. Len(text), a <= b, c <= d
    PROVE  BytesKept(text, <<<<a, b>>, <<c, d>>>>) = (f[b] - f[a]) + (f[d] - f[c])
<1>1. /\ Filters!Bytes(SubSeq(text, a + 1, b)) = f[b] - f[a]
      /\ Filters!Bytes(SubSeq(text, c + 1, d)) = f[d] - f[c]
    BY StretchBytes
<1>2. f[b] - f[a] \in Nat
    <2>1. f[a] <= f[b] /\ f[a] \in Nat /\ f[b] \in Nat
        BY ScaleGrows
    <2> QED BY <2>1
<1> DEFINE out == <<<<a, b>>, <<c, d>>>>
           w == Weights(text, out, 2)
<1>3. DOMAIN out = 1 .. 2 /\ out[1] = <<a, b>> /\ out[2] = <<c, d>>
    OBVIOUS
<1> HIDE DEF out
<1>4. w[1] = f[b] - f[a] /\ w[2] = f[d] - f[c]
    BY <1>1, <1>3 DEF Weights
<1>5. w = Weights(text, out, 2)
    OBVIOUS
<1> HIDE DEF w
<1>6. BytesKept(text, out) = w[1] + w[2]
    BY <1>2, <1>3, <1>4, <1>5, KeptStepwise
<1> QED BY <1>4, <1>6 DEF out

LEMMA KeptOfThree ==
    ASSUME NEW text, NEW f, Scale(text, f), NEW out, DOMAIN out = 1 .. 3,
           \A i \in 1 .. 3 : /\ out[i][1] \in 0 .. Len(text) /\ out[i][2] \in 0 .. Len(text)
                            /\ out[i][1] <= out[i][2]
    PROVE  BytesKept(text, out)
               = ((f[out[1][2]] - f[out[1][1]]) + (f[out[2][2]] - f[out[2][1]]))
                     + (f[out[3][2]] - f[out[3][1]])
<1> DEFINE w == Weights(text, out, 3)
<1>1. ASSUME NEW i \in 1 .. 3 PROVE w[i] = f[out[i][2]] - f[out[i][1]] /\ w[i] \in Nat
    <2> DEFINE a == out[i][1]
               b == out[i][2]
    <2>1. w[i] = Filters!Bytes(SubSeq(text, a + 1, b))
        BY DEF Weights
    <2>2. a \in 0 .. Len(text) /\ b \in 0 .. Len(text) /\ a <= b
        OBVIOUS
    <2> HIDE DEF a, b, w
    <2>3. Filters!Bytes(SubSeq(text, a + 1, b)) = f[b] - f[a]
        BY <2>2, StretchBytes
    <2>4. f[a] <= f[b] /\ f[a] \in Nat /\ f[b] \in Nat
        BY <2>2, ScaleGrows
    <2>5. f[b] - f[a] \in Nat
        BY <2>4
    <2> QED BY <2>1, <2>3, <2>5 DEF a, b
<1>2. w = Weights(text, out, 3)
    OBVIOUS
<1> HIDE DEF w
<1>3. w[1] \in Nat
    BY <1>1
<1>4. BytesKept(text, out) = (w[1] + w[2]) + w[3]
    BY <1>2, <1>3, KeptStepwise
<1>5. 1 \in 1 .. 3 /\ 2 \in 1 .. 3 /\ 3 \in 1 .. 3
    OBVIOUS
<1>6. /\ w[1] = f[out[1][2]] - f[out[1][1]] /\ w[2] = f[out[2][2]] - f[out[2][1]]
      /\ w[3] = f[out[3][2]] - f[out[3][1]]
    BY <1>1, <1>5, Zenon
<1> QED BY <1>4, <1>6

\* A text within the limit is kept whole.
LEMMA WholeKeeps ==
    ASSUME NEW text, NEW f, Scale(text, f), NEW max \in Nat, Filters!Bytes(text) <= max
    PROVE  CapsWell(text, max, <<<<0, Len(text)>>>>)
<1>1. Len(text) \in Nat /\ f[0] = 0 /\ f \in [0 .. Len(text) -> Nat]
    BY DEF Scale
<1>2. f[Len(text)] <= max
    BY BytesOnScale
<1>3. BytesKept(text, <<<<0, Len(text)>>>>) = f[Len(text)] - f[0]
    <2>1. 0 \in 0 .. Len(text) /\ Len(text) \in 0 .. Len(text) /\ 0 <= Len(text)
        BY <1>1
    <2> QED BY <2>1, KeptOfOne
<1>4. BytesKept(text, <<<<0, Len(text)>>>>) <= max
    BY <1>1, <1>2, <1>3
<1>5. Len(<<<<0, Len(text)>>>>) = 1
    OBVIOUS
<1>6. Apart(<<<<0, Len(text)>>>>)
    BY <1>1 DEF Apart
<1> QED BY <1>4, <1>5, <1>6 DEF CapsWell

\* A head and a tail that have less than the text between them do not meet.
LEMMA HeadBeforeTail ==
    ASSUME NEW text, NEW f, Scale(text, f), NEW first \in Nat, NEW last \in Nat,
           first + last < Filters!Bytes(text), NEW head, NEW tail,
           head = Filters!HeadEnd(text, first), tail = Filters!TailStart(text, last)
    PROVE  /\ head \in 0 .. Len(text) /\ tail \in 0 .. Len(text) /\ head <= tail
           /\ f[head] <= first /\ f[Len(text)] - f[tail] <= last
<1>1. Len(text) \in Nat /\ f \in [0 .. Len(text) -> Nat]
    BY DEF Scale
<1>2. first + last < f[Len(text)]
    BY BytesOnScale
<1>3. head \in 0 .. Len(text) /\ f[head] <= first
    BY HeadFits
<1>4. tail \in 0 .. Len(text) /\ f[Len(text)] - f[tail] <= last
    BY TailFits
<1>5. f[head] \in Nat /\ f[tail] \in Nat /\ f[Len(text)] \in Nat
    BY <1>1, <1>3, <1>4
<1>6. f[head] < f[tail]
    BY <1>2, <1>3, <1>4, <1>5
<1>7. head <= tail
    <2> SUFFICES ASSUME tail <= head PROVE FALSE
        BY <1>1, <1>3, <1>4
    <2>1. f[tail] <= f[head]
        BY <1>3, <1>4, ScaleGrows
    <2> QED BY <1>5, <1>6, <2>1
<1> QED BY <1>3, <1>4, <1>7

LEMMA PlainKeeps ==
    ASSUME NEW text, NEW f, Scale(text, f), NEW max \in Nat, max < Filters!Bytes(text)
    PROVE  CapsWell(text, max, Filters!Plain(text, max))
<1>1. Len(text) \in Nat /\ f[0] = 0 /\ f \in [0 .. Len(text) -> Nat]
    BY DEF Scale
<1>2. Share(max) \in Nat /\ max - Share(max) \in Nat /\ Share(max) + (max - Share(max)) = max
    BY Shares
<1> DEFINE head == Filters!HeadEnd(text, Share(max))
           tail == Filters!TailStart(text, max - Share(max))
           out == <<<<0, head>>, <<tail, Len(text)>>>>
<1>3. /\ head \in 0 .. Len(text) /\ tail \in 0 .. Len(text) /\ head <= tail
      /\ f[head] <= Share(max) /\ f[Len(text)] - f[tail] <= max - Share(max)
    BY <1>2, HeadBeforeTail
<1>4. Filters!Plain(text, max) = out
    BY DEF Filters!Plain, Share
<1> HIDE DEF head, tail
<1>5. BytesKept(text, out) = (f[head] - f[0]) + (f[Len(text)] - f[tail])
    <2>1. /\ 0 \in 0 .. Len(text) /\ 0 <= head /\ Len(text) \in 0 .. Len(text)
          /\ tail <= Len(text)
        BY <1>1, <1>3
    <2> QED BY <1>3, <2>1, KeptOfTwo
<1>6. BytesKept(text, out) <= max
    <2>1. f[head] \in Nat /\ f[Len(text)] \in Nat /\ f[tail] \in Nat
        BY <1>1, <1>3
    <2> HIDE DEF out
    <2> QED BY <1>1, <1>2, <1>3, <1>5, <2>1
<1>7. Len(out) = 2 /\ Apart(out)
    BY <1>1, <1>3 DEF Apart
<1> HIDE DEF out
<1> QED BY <1>4, <1>6, <1>7 DEF CapsWell

LEMMA LineEndIs ==
    ASSUME NEW text, Len(text) \in Nat, NEW n \in 0 .. (Len(text) - 1)
    PROVE  Filters!LineEnd(text, n) \in 0 .. Len(text)
<1> DEFINE ends == {k \in n .. Len(text) : k = Len(text) \/ text[k + 1] = "newline"}
<1>1. ends \in SUBSET Nat /\ ends \in SUBSET (0 .. Len(text)) /\ Len(text) \in ends
    OBVIOUS
<1> HIDE DEF ends
<1>2. Filters!Min(ends) \in ends
    BY <1>1, FirstOffset
<1> QED BY <1>1, <1>2 DEF Filters!LineEnd, ends

LEMMA SignalPlaces ==
    ASSUME NEW text, Len(text) \in Nat
    PROVE  /\ Filters!Signals(text) \subseteq 0 .. (Len(text) - 1)
           /\ IsFiniteSet(Filters!Signals(text))
<1>1. Filters!Signals(text) \subseteq 0 .. (Len(text) - 1)
    BY DEF Filters!Signals, Filters!LineStarts
<1>2. IsFiniteSet(0 .. (Len(text) - 1))
    BY FS_Interval
<1> QED BY <1>1, <1>2, FS_Subset

\* The signals scanned before an earlier one are fewer.
LEMMA ScannedEarlier ==
    ASSUME NEW S, IsFiniteSet(S), S \subseteq Nat, NEW m \in S, NEW n \in S, m < n
    PROVE  Filters!Cardinality({k \in S : k < m}) <= Filters!Cardinality({k \in S : k < n})
           /\ Filters!Cardinality({k \in S : k < m}) \in Nat
           /\ Filters!Cardinality({k \in S : k < n}) \in Nat
<1> DEFINE fewer == {k \in S : k < m}
           more == {k \in S : k < n}
<1>1. fewer \subseteq more /\ more \subseteq S
    <2>1. m \in Nat /\ n \in Nat /\ \A k \in S : k \in Nat
        OBVIOUS
    <2>2. \A k \in S : k < m => k < n
        BY <2>1
    <2> QED BY <2>2
<1>2. IsFiniteSet(more)
    BY <1>1, FS_Subset
<1>3. Cardinality(fewer) <= Cardinality(more) /\ IsFiniteSet(fewer)
    BY <1>1, <1>2, FS_Subset
<1>4. Cardinality(fewer) \in Nat /\ Cardinality(more) \in Nat
    BY <1>2, <1>3, FS_CardinalityType
<1>5. \A set : Filters!Cardinality(set) = Cardinality(set)
    BY DEF Filters!Cardinality, Cardinality
<1>6. Filters!Cardinality(fewer) = Cardinality(fewer) /\ Filters!Cardinality(more) = Cardinality(more)
    BY <1>5, Zenon
<1> QED BY <1>3, <1>4, <1>6

\* What the scan finds is the first signal that the plain split does not keep whole.
LEMMA FirstCut ==
    ASSUME NEW text, NEW f, Scale(text, f), NEW max \in Nat, NEW U, U # {}, NEW n,
           U = Filters!Uncovered(text, Share(max),
                                 Filters!Bytes(text) - (max - Share(max))),
           n = Filters!Min(U)
    PROVE  /\ n \in Filters!Signals(text) /\ n \in 0 .. (Len(text) - 1)
           /\ ~WholeLine(text, max, n)
           /\ \A m \in Filters!Signals(text) : m < n => WholeLine(text, max, m)
<1> DEFINE S == Filters!Signals(text)
           share == Share(max)
           rest == max - share
           end == f[Len(text)]
           t == Filters!TailStart(text, rest)
<1>1. /\ Len(text) \in Nat /\ f \in [0 .. Len(text) -> Nat] /\ text \in Seq(Chars)
      /\ share \in Nat /\ rest \in Nat
    <2>1. share \in Nat /\ rest \in Nat
        BY Shares
    <2> HIDE DEF share, rest, end, t, S
    <2> QED BY <2>1 DEF Scale
<1>2. S \subseteq 0 .. (Len(text) - 1) /\ IsFiniteSet(S) /\ S \subseteq Nat
    <2>1. S \subseteq 0 .. (Len(text) - 1) /\ IsFiniteSet(S)
        BY <1>1, SignalPlaces
    <2> QED BY <1>1, <2>1
<1>3. Filters!Bytes(text) = end /\ end \in Nat
    <2>1. Filters!Bytes(text) = end
        BY BytesOnScale
    <2> QED BY <1>1, <2>1
<1>4. /\ t \in 0 .. Len(text) /\ end - f[t] <= rest
      /\ \A k \in 0 .. (Len(text) - 1) : f[k] >= end - rest => t <= k
    <2> HIDE DEF rest
    <2> QED BY <1>1, TailFits
<1> DEFINE line(k) == Filters!Before(text, Filters!LineEnd(text, k))
<1>5. ASSUME NEW k \in S
      PROVE  /\ k \in 0 .. Len(text) /\ k \in 0 .. (Len(text) - 1) /\ line(k) \in Nat
             /\ Filters!Before(text, k) = f[k] /\ f[k] \in Nat
    <2>1. k \in 0 .. (Len(text) - 1) /\ k \in 0 .. Len(text)
        BY <1>1, <1>2
    <2>2. Filters!LineEnd(text, k) \in 0 .. Len(text)
        BY <1>1, <2>1, LineEndIs
    <2>3. line(k) \in Nat
        <3>1. line(k) = f[Filters!LineEnd(text, k)]
            BY <2>2, PrefixBytes
        <3> QED BY <1>1, <2>2, <3>1
    <2> QED BY <2>1, <2>3, PrefixBytes
<1> DEFINE scanned(k) == Filters!Cardinality({m \in S : m < k})
<1>6. U = {k \in S : /\ scanned(k) < ScanLimit
                     /\ line(k) > share
                     /\ Filters!Before(text, k) < end - rest}
    BY <1>3 DEF Filters!Uncovered
<1>7. \A m, k \in S : m < k => /\ scanned(m) <= scanned(k)
                               /\ scanned(m) \in Nat /\ scanned(k) \in Nat
    BY <1>2, ScannedEarlier
<1>8. \A k : WholeLine(text, max, k) <=> line(k) <= share \/ k >= t
    BY DEF WholeLine
<1>9. ScanLimit \in Nat
    BY CapAssumption
<1> HIDE DEF S, share, rest, end, t, line, scanned
<1>10. U \subseteq S /\ U \in SUBSET Nat
    BY <1>2, <1>6
<1>11. n \in U /\ \A k \in U : n <= k
    BY <1>10, FirstOffset
<1>12. n \in S /\ scanned(n) < ScanLimit /\ line(n) > share /\ f[n] < end - rest
    BY <1>5, <1>6, <1>11
<1>13. n < t
    <2> SUFFICES ASSUME t <= n PROVE FALSE
        BY <1>1, <1>4, <1>5, <1>12
    <2>1. n \in 0 .. Len(text)
        BY <1>5, <1>12
    <2>2. f[t] <= f[n] /\ f[t] \in Nat /\ f[n] \in Nat
        BY <1>4, <2>1, ScaleGrows
    <2> QED BY <1>1, <1>3, <1>4, <1>12, <2>2
<1>14. ~WholeLine(text, max, n)
    <2>1. line(n) \in Nat /\ n \in Nat /\ t \in Nat
        BY <1>1, <1>2, <1>4, <1>5, <1>12
    <2> QED BY <1>1, <1>8, <1>12, <1>13, <2>1
<1>15. ASSUME NEW m \in S, m < n PROVE WholeLine(text, max, m)
    <2>1. m \notin U
        BY <1>2, <1>11, <1>12, <1>15
    <2>2. scanned(m) < ScanLimit
        BY <1>7, <1>9, <1>12, <1>15
    <2>3. ~(line(m) > share) \/ ~(f[m] < end - rest)
        BY <1>5, <1>6, <2>1, <2>2
    <2>4. line(m) \in Nat /\ f[m] \in Nat /\ m \in 0 .. (Len(text) - 1) /\ m \in Nat
        BY <1>2, <1>5
    <2>5. CASE ~(line(m) > share)
        BY <1>1, <1>8, <2>4, <2>5
    <2>6. CASE ~(f[m] < end - rest)
        <3>1. f[m] >= end - rest
            BY <1>1, <1>3, <2>4, <2>6
        <3>2. t <= m /\ t \in Nat
            BY <1>1, <1>4, <2>4, <3>1
        <3> QED BY <1>8, <2>4, <3>2
    <2> QED BY <2>3, <2>5, <2>6
<1>16. n \in 0 .. (Len(text) - 1)
    BY <1>5, <1>12
<1> QED BY <1>12, <1>14, <1>15, <1>16 DEF S

\* The window at a signal lies between the head and the tail, and one of the three holds
\* the signal.
LEMMA WindowedKeeps ==
    ASSUME NEW text, NEW f, Scale(text, f), NEW max \in Nat, max < Filters!Bytes(text),
           NEW n \in 0 .. (Len(text) - 1), Filters!Windowed(text, max, n) # <<>>
    PROVE  LET out == Filters!Windowed(text, max, n)
           IN  /\ Apart(out) /\ BytesKept(text, out) <= max
               /\ \E i \in DOMAIN out : out[i][1] <= n /\ n < out[i][2]
<1> DEFINE first == (max * 45) \div 100
           middle == (max * 20) \div 100
           last == max - first - middle
           head == Filters!HeadEnd(text, first)
           tail == Filters!TailStart(text, last)
           from == Filters!Min({Filters!Max({n, head}), tail})
           window == from + Filters!HeadEnd(SubSeq(text, from + 1, tail), middle)
           out == <<<<0, head>>, <<from, window>>, <<tail, Len(text)>>>>
<1>1. /\ first \in Nat /\ middle \in Nat /\ last \in Nat /\ (first + middle) + last = max
      /\ Len(text) \in Nat /\ f[0] = 0 /\ f \in [0 .. Len(text) -> Nat]
    <2>1. first \in Nat /\ middle \in Nat /\ last \in Nat
        BY Shares
    <2> HIDE DEF first, middle
    <2>2. (first + middle) + last = max
        BY <2>1
    <2> HIDE DEF last, head, tail, from, window, out
    <2> QED BY <2>1, <2>2 DEF Scale
<1>2. Filters!Windowed(text, max, n) = out /\ window # from
    BY DEF Filters!Windowed
<1> HIDE DEF first, middle, last, out
<1>3. /\ head \in 0 .. Len(text) /\ tail \in 0 .. Len(text) /\ head <= tail
      /\ f[head] <= first /\ f[Len(text)] - f[tail] <= last
    <2>1. Filters!Bytes(text) = f[Len(text)] /\ f[Len(text)] \in Nat
        <3>1. Filters!Bytes(text) = f[Len(text)]
            BY BytesOnScale
        <3> QED BY <1>1, <3>1
    <2>2. first + last < Filters!Bytes(text)
        BY <1>1, <2>1
    <2> QED BY <1>1, <2>2, HeadBeforeTail
<1> HIDE DEF head, tail
<1>4. n \in Nat /\ head \in Nat /\ tail \in Nat
    BY <1>1, <1>3
<1>5. from = IF tail <= n \/ tail <= head THEN tail ELSE IF n <= head THEN head ELSE n
    <2>1. Filters!Max({n, head}) \in {n, head} /\ n <= Filters!Max({n, head})
              /\ head <= Filters!Max({n, head})
        <3> DEFINE top == n + head
        <3>1. {n, head} \in SUBSET (0 .. top) /\ {n, head} # {} /\ top \in Nat
            BY <1>4
        <3> HIDE DEF top
        <3> QED BY <3>1, LastOffset
    <2> DEFINE later == Filters!Max({n, head})
    <2>2. later \in {n, head} /\ n <= later /\ head <= later
        BY <2>1
    <2> HIDE DEF later
    <2>3. later \in Nat
        BY <1>4, <2>2
    <2>4. /\ Filters!Min({later, tail}) \in {later, tail}
          /\ Filters!Min({later, tail}) <= later /\ Filters!Min({later, tail}) <= tail
        <3>1. {later, tail} \in SUBSET Nat /\ {later, tail} # {}
            BY <1>4, <2>3
        <3> QED BY <3>1, FirstOffset
    <2>5. from = Filters!Min({later, tail})
        BY DEF later
    <2> HIDE DEF from
    <2> QED BY <1>4, <2>2, <2>3, <2>4, <2>5
<1>6. from \in 0 .. Len(text) /\ head <= from /\ from <= tail
    BY <1>1, <1>3, <1>4, <1>5
<1> HIDE DEF from
<1> DEFINE sub == SubSeq(text, from + 1, tail)
           g == [k \in 0 .. (tail - from) |-> f[from + k] - f[from]]
           size == Filters!HeadEnd(sub, middle)
<1>7. Scale(sub, g) /\ Len(sub) = tail - from
    BY <1>3, <1>6, StretchScale
<1>8. window = from + size
    OBVIOUS
<1>9. size \in 0 .. (tail - from) /\ g[size] <= middle
    <2> HIDE DEF g, sub
    <2>1. Filters!HeadEnd(sub, middle) \in 0 .. Len(sub)
              /\ g[Filters!HeadEnd(sub, middle)] <= middle
        BY <1>1, <1>7, HeadFits
    <2> QED BY <1>7, <2>1
<1> HIDE DEF size
<1>10. f[from + size] - f[from] <= middle
    BY <1>9
<1> HIDE DEF g, sub, window
<1>11. /\ window \in 0 .. Len(text) /\ from <= window /\ window <= tail
       /\ f[window] - f[from] <= middle /\ from < window
    <2>0. size \in Nat /\ from \in Nat /\ size <= tail - from /\ tail <= Len(text)
        BY <1>1, <1>3, <1>4, <1>6, <1>9
    <2>1. /\ window \in 0 .. Len(text) /\ from <= window /\ window <= tail
          /\ size \in Nat /\ from \in Nat
        BY <1>1, <1>4, <1>8, <2>0
    <2>2. from < window
        BY <1>2, <1>4, <2>1
    <2> QED BY <1>8, <1>10, <2>1, <2>2
<1>12. BytesKept(text, out)
           = ((f[head] - f[0]) + (f[window] - f[from])) + (f[Len(text)] - f[tail])
    <2>1. /\ 0 \in 0 .. Len(text) /\ head \in 0 .. Len(text) /\ from \in 0 .. Len(text)
          /\ window \in 0 .. Len(text) /\ tail \in 0 .. Len(text)
          /\ Len(text) \in 0 .. Len(text)
        BY <1>1, <1>3, <1>6, <1>11
    <2>2. 0 <= head /\ from <= window /\ tail <= Len(text)
        BY <1>1, <1>3, <1>11
    <2>3. /\ DOMAIN out = 1 .. 3
          /\ out[1][1] = 0 /\ out[1][2] = head
          /\ out[2][1] = from /\ out[2][2] = window
          /\ out[3][1] = tail /\ out[3][2] = Len(text)
        BY DEF out
    <2>4. \A i \in 1 .. 3 : /\ out[i][1] \in 0 .. Len(text) /\ out[i][2] \in 0 .. Len(text)
                            /\ out[i][1] <= out[i][2]
        <3>1. 1 .. 3 = {1, 2, 3}
            OBVIOUS
        <3> QED BY <2>1, <2>2, <2>3, <3>1, Zenon
    <2>5. BytesKept(text, out)
              = ((f[out[1][2]] - f[out[1][1]]) + (f[out[2][2]] - f[out[2][1]]))
                    + (f[out[3][2]] - f[out[3][1]])
        BY <2>3, <2>4, KeptOfThree
    <2> QED BY <2>3, <2>5
<1>13. BytesKept(text, out) <= max
    <2>1. f[head] \in Nat /\ f[tail] \in Nat /\ f[from] \in Nat
        BY <1>1, <1>3, <1>6
    <2>2. f[window] \in Nat /\ f[Len(text)] \in Nat
        BY <1>1, <1>11
    <2>3. f[head] <= first /\ f[window] - f[from] <= middle /\ f[Len(text)] - f[tail] <= last
        BY <1>3, <1>11
    <2>4. \A x, y, z, u, v \in Nat :
              x <= first /\ y - z <= middle /\ u - v <= last =>
                  ((x - 0) + (y - z)) + (u - v) <= max
        BY <1>1
    <2>5. BytesKept(text, out)
              = ((f[head] - 0) + (f[window] - f[from])) + (f[Len(text)] - f[tail])
        BY <1>1, <1>12
    <2>6. ((f[head] - 0) + (f[window] - f[from])) + (f[Len(text)] - f[tail]) <= max
        BY <2>1, <2>2, <2>3, <2>4
    <2> QED BY <2>5, <2>6
<1>14. Apart(out)
    <2>1. Len(out) = 3
        BY DEF out
    <2>2. /\ out[1] = <<0, head>> /\ out[2] = <<from, window>> /\ out[3] = <<tail, Len(text)>>
        BY DEF out
    <2>3. /\ 0 <= head /\ from <= window /\ tail <= Len(text) /\ head <= from /\ window <= tail
        BY <1>1, <1>3, <1>6, <1>11
    <2>4. \A i \in 1 .. 3 : out[i][1] <= out[i][2]
        BY <2>2, <2>3
    <2>5. \A i \in 1 .. 2 : out[i][2] <= out[i + 1][1]
        <3>1. out[1][2] <= out[1 + 1][1] /\ out[2][2] <= out[2 + 1][1]
            BY <2>2, <2>3
        <3>2. 1 .. 2 = {1, 2}
            OBVIOUS
        <3> QED BY <3>1, <3>2
    <2> QED BY <2>1, <2>4, <2>5 DEF Apart
<1>15. \E i \in DOMAIN out : out[i][1] <= n /\ n < out[i][2]
    <2>1. /\ out[1] = <<0, head>> /\ out[2] = <<from, window>> /\ out[3] = <<tail, Len(text)>>
          /\ DOMAIN out = 1 .. 3
        BY DEF out
    <2>2. CASE n < head
        <3>1. out[1][1] <= n /\ n < out[1][2] /\ 1 \in DOMAIN out
            BY <1>4, <2>1, <2>2
        <3> QED BY <3>1
    <2>3. CASE tail <= n
        <3>1. out[3][1] <= n /\ n < out[3][2] /\ 3 \in DOMAIN out
            BY <1>1, <2>1, <2>3
        <3> QED BY <3>1
    <2>4. CASE head <= n /\ n < tail
        <3>1. from = n
            BY <1>3, <1>4, <1>5, <2>4
        <3>2. out[2][1] <= n /\ n < out[2][2] /\ 2 \in DOMAIN out
            BY <1>4, <1>11, <2>1, <3>1
        <3> QED BY <3>2
    <2> QED BY <1>4, <2>2, <2>3, <2>4
<1> QED BY <1>2, <1>13, <1>14, <1>15

\* cap_output: whole, around the first signal it would lose, or plain.
LEMMA CappedKeeps ==
    ASSUME NEW text \in Seq(Chars), NEW max \in Nat
    PROVE  CapsWell(text, max, Filters!Capped(text, max))
<1>1. PICK f : Scale(text, f)
    BY ScaleExists
<1>2. Filters!Bytes(text) \in Nat /\ Len(text) \in Nat
    <2>1. Filters!Bytes(text) = f[Len(text)]
        BY <1>1, BytesOnScale
    <2> QED BY <1>1, <2>1 DEF Scale
<1> DEFINE U == Filters!Uncovered(text, Share(max), Filters!Bytes(text) - (max - Share(max)))
           windowed == IF U = {} THEN <<>> ELSE Filters!Windowed(text, max, Filters!Min(U))
<1>3. Filters!Capped(text, max) =
          IF Filters!Bytes(text) <= max THEN <<<<0, Len(text)>>>>
          ELSE IF windowed # <<>> THEN windowed ELSE Filters!Plain(text, max)
    BY DEF Filters!Capped, Share
<1> HIDE DEF U
<1>4. CASE Filters!Bytes(text) <= max
    BY <1>1, <1>3, <1>4, WholeKeeps
<1>5. CASE max < Filters!Bytes(text) /\ windowed = <<>>
    <2>1. CapsWell(text, max, Filters!Plain(text, max))
        BY <1>1, <1>5, PlainKeeps
    <2>2. Filters!Capped(text, max) = Filters!Plain(text, max)
        BY <1>2, <1>3, <1>5
    <2> QED BY <2>1, <2>2
<1>6. CASE max < Filters!Bytes(text) /\ windowed # <<>>
    <2> DEFINE n == Filters!Min(U)
               out == Filters!Windowed(text, max, n)
    <2>1. U # {} /\ out # <<>> /\ Filters!Capped(text, max) = out
        BY <1>2, <1>3, <1>6
    <2>2. /\ n \in Filters!Signals(text) /\ n \in 0 .. (Len(text) - 1)
          /\ ~WholeLine(text, max, n)
          /\ \A m \in Filters!Signals(text) : m < n => WholeLine(text, max, m)
        BY <1>1, <2>1, FirstCut DEF U
    <2>3. /\ Apart(out) /\ BytesKept(text, out) <= max
          /\ \E i \in DOMAIN out : out[i][1] <= n /\ n < out[i][2]
        <3> HIDE DEF n
        <3> QED BY <1>1, <1>6, <2>1, <2>2, WindowedKeeps
    <2> HIDE DEF n, out
    <2>4. KeepsError(text, max, out)
        BY <2>2, <2>3 DEF KeepsError
    <2> QED BY <2>1, <2>3, <2>4 DEF CapsWell
<1> QED BY <1>2, <1>4, <1>5, <1>6

CapInv ==
    /\ state.does = "cap" => /\ state = [does |-> state.does, text |-> state.text,
                                         max |-> state.max, output |-> state.output]
                             /\ state.text \in Seq(Chars) /\ state.max \in Nat
    /\ state.does = "fold" => state = [does |-> state.does, lines |-> state.lines,
                                       output |-> state.output]
    /\ state.does = "table" => state = [does |-> state.does, rows |-> state.rows,
                                        output |-> state.output]
    /\ state.does = "capped" => CapsWell(state.text, state.max, state.output)

LEMMA CapsFocus ==
    ASSUME [JudgesStep /\ UNCHANGED focus]_vars, focus = "filters"
    PROVE  focus' = "filters" /\ (Filters!Next \/ UNCHANGED state)
BY DEF JudgesStep, vars

LEMMA CapInvInit == ASSUME Filters!Init PROVE CapInv
<1>1. CASE \E text \in Filters!Seqs({"a", "wide", "newline", "error"}, 1, MaxCapped),
                max \in CapLimits :
               state = [does |-> "cap", text |-> text, max |-> max, output |-> <<>>]
    <2>1. PICK text \in Filters!Seqs({"a", "wide", "newline", "error"}, 1, MaxCapped),
               max \in CapLimits :
                   state = [does |-> "cap", text |-> text, max |-> max, output |-> <<>>]
        BY <1>1
    <2>2. PICK n \in 1 .. MaxCapped : text \in [1 .. n -> Chars]
        BY DEF Filters!Seqs, Chars
    <2>3. text \in Seq(Chars) /\ max \in Nat
        <3>1. n \in Nat
            BY CapAssumption
        <3> QED BY <2>2, <3>1, CapAssumption
    <2> QED BY <2>1, <2>3 DEF CapInv
<1>2. CASE \E lines \in Filters!Seqs({"a", "b"}, 3, MaxFolded) :
               state = [does |-> "fold", lines |-> lines, output |-> <<>>]
    BY <1>2 DEF CapInv
<1>3. CASE \E rows \in Filters!Seqs(Filters!Objects, 2, MaxRows) :
               state = [does |-> "table", rows |-> rows, output |-> <<>>]
    BY <1>3 DEF CapInv
<1> QED BY <1>1, <1>2, <1>3 DEF Filters!Init

LEMMA FiltersKeep == ASSUME CapInv, Filters!Next PROVE CapInv'
<1>1. CASE Filters!Cap
    <2>1. /\ state = [does |-> state.does, text |-> state.text,
                      max |-> state.max, output |-> state.output]
          /\ state.text \in Seq(Chars) /\ state.max \in Nat
        BY <1>1 DEF CapInv, Filters!Cap
    <2> DEFINE out == Filters!Capped(state.text, state.max)
    <2>2. CapsWell(state.text, state.max, out)
        BY <2>1, CappedKeeps
    <2>3. state' = [state EXCEPT !.does = "capped", !.output = out]
        BY <1>1 DEF Filters!Cap
    <2> HIDE DEF out
    <2>4. state' = [does |-> "capped", text |-> state.text, max |-> state.max, output |-> out]
        BY <2>1, <2>3
    <2>5. /\ state'.does = "capped" /\ state'.text = state.text /\ state'.max = state.max
          /\ state'.output = out
        BY <2>4
    <2>6. CapsWell(state'.text, state'.max, state'.output)
        BY <2>2, <2>5
    <2> QED BY <2>5, <2>6 DEF CapInv
<1>2. CASE Filters!Fold
    <2>1. state = [does |-> state.does, lines |-> state.lines, output |-> state.output]
        BY <1>2 DEF CapInv, Filters!Fold
    <2>2. state' = [state EXCEPT !.does = "folded", !.output = Filters!Folded(state.lines)]
        BY <1>2 DEF Filters!Fold
    <2>3. state'.does = "folded"
        BY <2>1, <2>2
    <2> QED BY <2>3 DEF CapInv
<1>3. CASE Filters!Tabulate
    <2>1. state = [does |-> state.does, rows |-> state.rows, output |-> state.output]
        BY <1>3 DEF CapInv, Filters!Tabulate
    <2>2. state' = [state EXCEPT !.does = "tabulated", !.output = Filters!Table(state.rows)]
        BY <1>3 DEF Filters!Tabulate
    <2>3. state'.does = "tabulated"
        BY <2>1, <2>2
    <2> QED BY <2>3 DEF CapInv
<1> QED BY <1>1, <1>2, <1>3 DEF Filters!Next

LEMMA CapInvImplies == ASSUME CapInv PROVE Filters!CapKeeps
<1>1. CASE state.does = "capped"
    <2>1. CapsWell(state.text, state.max, state.output)
        BY <1>1 DEF CapInv
    <2>2. Filters!Plain(state.text, state.max)[2][1]
              = Filters!TailStart(state.text, state.max - Share(state.max))
        BY DEF Filters!Plain, Share
    <2>3. Filters!FoldLeft(LAMBDA sum, w : sum + Filters!Bytes(
                               SubSeq(state.text, w[1] + 1, w[2])), 0, state.output)
              = BytesKept(state.text, state.output)
        BY Zenon DEF BytesKept
    <2>4. \A n : WholeLine(state.text, state.max, n) <=>
              \/ Filters!Before(state.text, Filters!LineEnd(state.text, n))
                     <= (state.max * 3) \div 5
              \/ n >= Filters!Plain(state.text, state.max)[2][1]
        BY <2>2 DEF WholeLine, Share
    <2> QED BY <1>1, <2>1, <2>3, <2>4, Zenon DEF Filters!CapKeeps, CapsWell, Apart, KeepsError
<1>2. CASE state.does # "capped"
    BY <1>2, Zenon DEF Filters!CapKeeps
<1> QED BY <1>1, <1>2

\* Whatever the text and the limit, a capped output stays within the limit, its windows
\* lie apart and in order, and the first error signal that the plain cut would have lost
\* begins in one of the three windows of cap_output_error_aware (tool_output/safety.rs).
THEOREM CapsKeep == JudgesSpec => []CapKeeps
<1> DEFINE Inv == focus = "filters" => CapInv
<1>1. JudgesInit => Inv
    BY CapInvInit DEF JudgesInit
<1>2. Inv /\ [JudgesStep /\ UNCHANGED focus]_vars => Inv'
    <2>1. ASSUME Inv, [JudgesStep /\ UNCHANGED focus]_vars, focus = "filters" PROVE CapInv'
        <3>1. CapInv /\ (Filters!Next \/ UNCHANGED state)
            BY <2>1, CapsFocus
        <3>2. CASE UNCHANGED state
            BY <3>1, <3>2 DEF CapInv
        <3> QED BY <3>1, <3>2, FiltersKeep
    <2>2. [JudgesStep /\ UNCHANGED focus]_vars => focus' = focus
        BY DEF vars
    <2> QED BY <2>1, <2>2
<1>3. Inv => CapKeeps
    BY CapInvImplies DEF CapKeeps
<1> QED BY <1>1, <1>2, <1>3, PTL DEF JudgesSpec

=============================================================================
