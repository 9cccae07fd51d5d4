------------------------- MODULE GuardedProxyProofs -------------------------
(***************************************************************************)
(* Proofs about GuardedProxy: types, the guard, and what an unscreened     *)
(* request may cost the model.                                             *)
(***************************************************************************)
EXTENDS GuardedProxy, TLAPS

\* What p inferences may send: each as many attempts as there are retries and one.
Cost(p) == p * (MaxRetries + 1)

\* The counters of a request in the loop are within their budgets: the step that
\* exceeds one of them closes the request.
InBudget ==
    \A r \in Requests :
        /\ pc[r] \in {"new", "queued", "handle"} =>
              retries[r] = 0 /\ premature[r] = 0 /\ upstream[r] = 0
        /\ pc[r] \in {"infer", "judge"} =>
              retries[r] <= MaxRetries /\ premature[r] <= MaxPremature

\* An inference in progress has sent as many requests as it has used retries.
Accounted ==
    \A r \in Requests :
        form[r] # None /\ ~form[r].screened =>
            /\ pc[r] = "infer" => upstream[r] <= Cost(premature[r]) + retries[r]
            /\ pc[r] = "judge" => upstream[r] <= Cost(premature[r] + 1)

IInv == TypeOK /\ GuardHeld /\ AttemptsBounded /\ InBudget /\ Accounted

-----------------------------------------------------------------------------
\* The arithmetic of the bound: one more inference costs one more round of
\* attempts, and the last one tolerated stays within AttemptBound.
LEMMA CostFacts ==
    /\ AttemptBound \in Nat /\ AttemptBound >= 1
    /\ Cost(0) = 0
    /\ \A p \in 0 .. MaxPremature :
          /\ Cost(p) \in Nat
          /\ Cost(p + 1) = Cost(p) + MaxRetries + 1
          /\ Cost(p + 1) <= AttemptBound
<1>. DEFINE R == MaxRetries + 1
            P == MaxPremature + 1
<1>1. R \in Nat /\ R >= 1 /\ P \in Nat /\ P >= 1
  BY ProxyAssumption
<1>2. \A p, q \in Nat : p <= q => p * R <= q * R
  <2>. SUFFICES ASSUME NEW p \in Nat, NEW q \in Nat, p <= q
               PROVE  p * R <= q * R
    OBVIOUS
  <2>1. (q - p) * R >= 0
    BY <1>1
  <2>2. (q - p) * R = q * R - p * R
    BY <1>1
  <2>. QED  BY <1>1, <2>1, <2>2
<1>3. AttemptBound = P * R
  BY DEF AttemptBound
<1>4. 1 * R <= P * R /\ P * R \in Nat
  BY <1>1, <1>2
<1>5. ASSUME NEW p \in 0 .. MaxPremature
      PROVE  /\ Cost(p) \in Nat
             /\ Cost(p + 1) = Cost(p) + MaxRetries + 1
             /\ Cost(p + 1) <= AttemptBound
  <2>1. p \in Nat /\ p + 1 \in Nat /\ p + 1 <= P
    BY ProxyAssumption
  <2>2. Cost(p) = p * R /\ Cost(p + 1) = (p + 1) * R
    BY DEF Cost
  <2>3. p * R \in Nat /\ (p + 1) * R = p * R + R
    <3>1. \A a, b \in Nat : a * b \in Nat /\ (a + 1) * b = a * b + b
      OBVIOUS
    <3>. HIDE DEF R
    <3>. QED  BY <1>1, <2>1, <3>1
  <2>4. (p + 1) * R <= P * R
    BY <1>1, <1>2, <2>1
  <2>. HIDE DEF R, P
  <2>5. p * R + R = p * R + MaxRetries + 1
    BY <2>3, ProxyAssumption DEF R
  <2>. QED  BY <1>3, <2>2, <2>3, <2>4, <2>5
<1>6. Cost(0) = 0
  BY <1>1 DEF Cost
<1>. QED  BY <1>1, <1>3, <1>4, <1>5, <1>6

\* Leaving the queue of the mutex leaves a queue.
LEMMA RemoveAtType ==
    ASSUME NEW s \in Seq(Requests), NEW i \in DOMAIN s
    PROVE  RemoveAt(s, i) \in Seq(Requests)
BY DEF RemoveAt

-----------------------------------------------------------------------------
\* Nothing has been received, nothing is held, nothing was sent.
LEMMA InitIInv == Init => IInv
<1>. SUFFICES ASSUME Init PROVE IInv
  OBVIOUS
<1>. USE DEF Init
<1>1. TypeOK
  BY CostFacts, ProxyAssumption DEF TypeOK, Pcs
<1>2. GuardHeld
  BY ProxyAssumption DEF GuardHeld, Active
<1>3. AttemptsBounded
  BY DEF AttemptsBounded
<1>4. InBudget
  BY DEF InBudget
<1>5. Accounted
  BY DEF Accounted
<1>. QED  BY <1>1, <1>2, <1>3, <1>4, <1>5 DEF IInv

\* A send is counted once, and saturates one beyond the bound.
LEMMA SendCounts ==
    ASSUME TypeOK, NEW r \in Requests, Send(r)
    PROVE  /\ upstream' \in [Requests -> 0 .. AttemptBound + 1]
           /\ upstream'[r] <= upstream[r] + 1
           /\ \A s \in Requests : s # r => upstream'[s] = upstream[s]
<1>1. upstream[r] \in 0 .. AttemptBound + 1 /\ AttemptBound \in Nat
  BY CostFacts DEF TypeOK
<1>2. upstream' = [upstream EXCEPT ![r] =
                      IF upstream[r] > AttemptBound THEN upstream[r] ELSE upstream[r] + 1]
  BY DEF Send
<1>. QED  BY <1>1, <1>2 DEF TypeOK

\* Types are preserved; the counters stop one beyond their budgets because the
\* loop is left there.
LEMMA NextType == IInv /\ [Next]_vars => TypeOK'
<1>. SUFFICES ASSUME IInv, [Next]_vars PROVE TypeOK'
  OBVIOUS
<1>. USE ProxyAssumption DEF IInv, TypeOK, Pcs
<1>1. ASSUME NEW r \in Requests, Reject(r) PROVE TypeOK'
  BY <1>1 DEF Reject, Close, counters
<1>2. ASSUME NEW r \in Requests, Receive(r) PROVE TypeOK'
  <2>1. Append(waiters, r) \in Seq(Requests)
    OBVIOUS
  <2>. QED  BY <1>2, <2>1 DEF Receive, counters
<1>3. ASSUME NEW r \in Requests, Acquire(r) PROVE TypeOK'
  <2>1. Tail(waiters) \in Seq(Requests)
    BY <1>3 DEF Acquire
  <2>. QED  BY <1>3, <2>1 DEF Acquire, counters
<1>4. ASSUME NEW r \in Requests, Refuse(r) PROVE TypeOK'
  BY <1>4 DEF Refuse, Close, counters
<1>5. ASSUME NEW r \in Requests, Forward(r) PROVE TypeOK'
  BY <1>5, SendCounts DEF Forward, Close, GoTo, lock, counters
<1>6. ASSUME NEW r \in Requests, Guard(r) PROVE TypeOK'
  BY <1>6 DEF Guard, GoTo, lock, counters
<1>7. ASSUME NEW r \in Requests, UpstreamFails(r) PROVE TypeOK'
  BY <1>7, SendCounts DEF UpstreamFails, Attempt, Close, counters
<1>8. ASSUME NEW r \in Requests, Invalid(r) PROVE TypeOK'
  <2>1. retries' \in [Requests -> 0 .. MaxRetries + 1]
    BY <1>8 DEF Invalid, Attempt, InBudget
  <2>. QED  BY <1>8, <2>1, SendCounts DEF Invalid, Attempt, Deliver, Close, GoTo, lock
<1>9. ASSUME NEW r \in Requests, Valid(r) PROVE TypeOK'
  BY <1>9, SendCounts DEF Valid, Attempt, GoTo, lock
<1>10. ASSUME NEW r \in Requests, PrematureNudge(r) PROVE TypeOK'
  <2>1. premature[r] + 1 \in 0 .. MaxPremature + 1
    <3>1. premature[r] <= MaxPremature
      BY <1>10 DEF PrematureNudge, InBudget
    <3>. QED  BY <3>1
  <2>2. premature' = [premature EXCEPT ![r] = premature[r] + 1]
    BY <1>10 DEF PrematureNudge
  <2>3. premature' \in [Requests -> 0 .. MaxPremature + 1]
    BY <2>1, <2>2
  <2>. QED  BY <1>10, <2>3 DEF PrematureNudge, Close, GoTo, lock
<1>11. ASSUME NEW r \in Requests, Objection(r) PROVE TypeOK'
  <2>1. retries[r] + 1 \in 0 .. MaxRetries + 1
    <3>1. retries[r] <= MaxRetries
      BY <1>11 DEF Objection, InBudget
    <3>. QED  BY <3>1
  <2>2. retries' = [retries EXCEPT ![r] = retries[r] + 1]
    BY <1>11 DEF Objection
  <2>3. retries' \in [Requests -> 0 .. MaxRetries + 1]
    BY <2>1, <2>2
  <2>. QED  BY <1>11, <2>3 DEF Objection, Close, GoTo, lock
<1>12. ASSUME NEW r \in Requests, Accept(r) PROVE TypeOK'
  BY <1>12 DEF Accept, Deliver, Close, GoTo, lock, counters
<1>13. ASSUME NEW r \in Requests, StreamEnds(r) PROVE TypeOK'
  BY <1>13 DEF StreamEnds, Close, counters
<1>14. ASSUME NEW r \in Requests, Disconnect(r) PROVE TypeOK'
  <2>1. waiters' \in Seq(Requests)
    BY <1>14, RemoveAtType DEF Disconnect
  <2>. QED  BY <1>14, <2>1 DEF Disconnect, counters
<1>15. CASE UNCHANGED vars
  BY <1>15 DEF vars, lock, counters
<1>. QED
  BY <1>1, <1>2, <1>3, <1>4, <1>5, <1>6, <1>7, <1>8, <1>9, <1>10, <1>11, <1>12, <1>13,
     <1>14, <1>15 DEF Next, Serve

\* The guard follows its request: a step of the handler or of the stream either
\* keeps both or gives up both.
LEMMA NextGuard == TypeOK /\ GuardHeld /\ [Next]_vars => GuardHeld'
<1>. SUFFICES ASSUME TypeOK, GuardHeld, [Next]_vars PROVE GuardHeld'
  OBVIOUS
<1>. USE ProxyAssumption DEF TypeOK, GuardHeld, Active, Pcs
<1>1. ASSUME NEW r \in Requests, pc[r] \in Active, Close(r) PROVE GuardHeld'
  BY <1>1 DEF Close
<1>2. ASSUME NEW r \in Requests, pc[r] \in Active, NEW place \in Active, GoTo(r, place)
      PROVE  GuardHeld'
  BY <1>2 DEF GoTo, lock
<1>3. ASSUME NEW r \in Requests, pc[r] \in Active, Deliver(r) PROVE GuardHeld'
  BY <1>1, <1>2, <1>3 DEF Deliver
<1>4. ASSUME NEW r \in Requests, Reject(r) PROVE GuardHeld'
  BY <1>4 DEF Reject, Close
<1>5. ASSUME NEW r \in Requests, Receive(r) PROVE GuardHeld'
  BY <1>5 DEF Receive
<1>6. ASSUME NEW r \in Requests, Acquire(r) PROVE GuardHeld'
  BY <1>6 DEF Acquire
<1>7. ASSUME NEW r \in Requests, Refuse(r) \/ Forward(r) \/ Guard(r) PROVE GuardHeld'
  BY <1>1, <1>2, <1>7 DEF Refuse, Forward, Guard
<1>8. ASSUME NEW r \in Requests, UpstreamFails(r) \/ Invalid(r) \/ Valid(r)
      PROVE  GuardHeld'
  BY <1>1, <1>2, <1>3, <1>8 DEF UpstreamFails, Invalid, Valid, Attempt
<1>9. ASSUME NEW r \in Requests, PrematureNudge(r) \/ Objection(r) \/ Accept(r)
      PROVE  GuardHeld'
  BY <1>1, <1>2, <1>3, <1>9 DEF PrematureNudge, Objection, Accept
<1>10. ASSUME NEW r \in Requests, StreamEnds(r) PROVE GuardHeld'
  BY <1>1, <1>10 DEF StreamEnds
<1>11. ASSUME NEW r \in Requests, Disconnect(r) PROVE GuardHeld'
  BY <1>11 DEF Disconnect
<1>12. CASE UNCHANGED vars
  BY <1>12 DEF vars, lock
<1>. QED
  BY <1>4, <1>5, <1>6, <1>7, <1>8, <1>9, <1>10, <1>11, <1>12 DEF Next, Serve

\* The counters stay within their budgets while a request is in the loop.
LEMMA NextBudget == TypeOK /\ InBudget /\ [Next]_vars => InBudget'
<1>. SUFFICES ASSUME TypeOK, InBudget, [Next]_vars PROVE InBudget'
  OBVIOUS
<1>. USE ProxyAssumption DEF TypeOK, InBudget
<1>1. ASSUME NEW r \in Requests, Close(r),
             \A s \in Requests \ {r} : /\ retries'[s] = retries[s]
                                       /\ premature'[s] = premature[s]
                                       /\ upstream'[s] = upstream[s]
      PROVE  InBudget'
  BY <1>1 DEF Close
<1>2. ASSUME NEW r \in Requests, NEW place \in {"infer", "judge", "relay", "replay"},
             GoTo(r, place),
             retries'[r] <= MaxRetries, premature'[r] <= MaxPremature,
             \A s \in Requests \ {r} : /\ retries'[s] = retries[s]
                                       /\ premature'[s] = premature[s]
                                       /\ upstream'[s] = upstream[s]
      PROVE  InBudget'
  BY <1>2 DEF GoTo
<1>3. ASSUME NEW r \in Requests, Reject(r) \/ Refuse(r) \/ StreamEnds(r)
      PROVE  InBudget'
  BY <1>1, <1>3 DEF Reject, Refuse, StreamEnds, counters
<1>4. ASSUME NEW r \in Requests, Receive(r) PROVE InBudget'
  BY <1>4 DEF Receive, counters
<1>5. ASSUME NEW r \in Requests, Acquire(r) PROVE InBudget'
  BY <1>5 DEF Acquire, counters
<1>6. ASSUME NEW r \in Requests, Forward(r) PROVE InBudget'
  <2>1. retries'[r] <= MaxRetries /\ premature'[r] <= MaxPremature
    BY <1>6 DEF Forward, counters
  <2>. QED  BY <1>1, <1>2, <1>6, <2>1, SendCounts DEF Forward, counters
<1>7. ASSUME NEW r \in Requests, Guard(r) PROVE InBudget'
  BY <1>7 DEF Guard, GoTo, counters
<1>8. ASSUME NEW r \in Requests, UpstreamFails(r) PROVE InBudget'
  BY <1>1, <1>8, SendCounts DEF UpstreamFails, Attempt, counters
<1>9. ASSUME NEW r \in Requests, Invalid(r) PROVE InBudget'
  <2>1. /\ retries'[r] = retries[r] + 1 /\ premature'[r] <= MaxPremature
        /\ \A s \in Requests \ {r} : /\ retries'[s] = retries[s]
                                     /\ premature'[s] = premature[s]
                                     /\ upstream'[s] = upstream[s]
    BY <1>9, SendCounts DEF Invalid, Attempt
  <2>2. CASE retries[r] + 1 > MaxRetries
    <3>1. Close(r) \/ GoTo(r, "replay")
      BY <1>9, <2>2 DEF Invalid, Deliver
    <3>2. CASE GoTo(r, "replay")
      BY <2>1, <3>2 DEF GoTo
    <3>. QED  BY <1>1, <2>1, <3>1, <3>2
  <2>3. CASE ~(retries[r] + 1 > MaxRetries)
    <3>1. GoTo(r, "infer")
      BY <1>9, <2>3 DEF Invalid
    <3>2. retries'[r] <= MaxRetries
      BY <2>1, <2>3
    <3>. QED  BY <1>2, <2>1, <3>1, <3>2
  <2>. QED  BY <2>2, <2>3
<1>10. ASSUME NEW r \in Requests, Valid(r) PROVE InBudget'
  <2>1. /\ pc[r] = "infer" /\ Send(r) /\ GoTo(r, "judge")
        /\ retries' = [retries EXCEPT ![r] = 0] /\ premature' = premature
    BY <1>10 DEF Valid, Attempt
  <2>2. retries'[r] <= MaxRetries /\ premature'[r] <= MaxPremature
    BY <2>1
  <2>3. \A s \in Requests \ {r} : upstream'[s] = upstream[s]
    BY <2>1, SendCounts
  <2>4. \A s \in Requests \ {r} : retries'[s] = retries[s] /\ premature'[s] = premature[s]
    BY <2>1
  <2>. QED  BY <1>2, <2>1, <2>2, <2>3, <2>4
<1>11. ASSUME NEW r \in Requests, PrematureNudge(r) PROVE InBudget'
  <2>1. premature'[r] = premature[r] + 1 /\ retries'[r] <= MaxRetries
    BY <1>11 DEF PrematureNudge
  <2>. QED  BY <1>1, <1>2, <1>11, <2>1 DEF PrematureNudge
<1>12. ASSUME NEW r \in Requests, Objection(r) PROVE InBudget'
  <2>1. retries'[r] = retries[r] + 1 /\ premature'[r] <= MaxPremature
    BY <1>12 DEF Objection
  <2>. QED  BY <1>1, <1>2, <1>12, <2>1 DEF Objection
<1>13. ASSUME NEW r \in Requests, Accept(r) PROVE InBudget'
  BY <1>1, <1>2, <1>13 DEF Accept, Deliver, counters
<1>14. ASSUME NEW r \in Requests, Disconnect(r) PROVE InBudget'
  BY <1>14 DEF Disconnect, counters
<1>15. CASE UNCHANGED vars
  BY <1>15 DEF vars, counters
<1>. QED
  BY <1>3, <1>4, <1>5, <1>6, <1>7, <1>8, <1>9, <1>10, <1>11, <1>12, <1>13, <1>14, <1>15
     DEF Next, Serve

-----------------------------------------------------------------------------
\* What the others have spent is not touched by a request's step, and what it has
\* spent matters only while it is in the loop.
LEMMA SpendingIsLocal ==
    ASSUME TypeOK, Accounted, NEW r \in Requests,
           \A s \in Requests \ {r} :
               /\ (pc'[s] = "infer" \/ pc'[s] = "judge") => pc'[s] = pc[s]
               /\ form'[s] = form[s] /\ upstream'[s] = upstream[s]
               /\ retries'[s] = retries[s] /\ premature'[s] = premature[s],
           form'[r] # None /\ ~form'[r].screened =>
               /\ pc'[r] = "infer" => upstream'[r] <= Cost(premature'[r]) + retries'[r]
               /\ pc'[r] = "judge" => upstream'[r] <= Cost(premature'[r] + 1)
    PROVE  Accounted'
<1>. SUFFICES ASSUME NEW s \in Requests, form'[s] # None, ~form'[s].screened
              PROVE  /\ pc'[s] = "infer" =>
                            upstream'[s] <= Cost(premature'[s]) + retries'[s]
                     /\ pc'[s] = "judge" => upstream'[s] <= Cost(premature'[s] + 1)
  BY DEF Accounted, Cost
<1>1. CASE s = r
  BY <1>1
<1>2. CASE s # r
  BY <1>2 DEF Accounted
<1>. QED  BY <1>1, <1>2

\* Each attempt is paid for by a retry, and each further inference by a premature
\* batch: a valid batch turns the retries used into one round of attempts.
LEMMA NextAccounted == TypeOK /\ InBudget /\ Accounted /\ [Next]_vars => Accounted'
<1>. SUFFICES ASSUME TypeOK, InBudget, Accounted, [Next]_vars PROVE Accounted'
  OBVIOUS
<1>. USE ProxyAssumption DEF TypeOK
<1>0. AttemptBound \in Nat
  BY CostFacts
<1>1. ASSUME NEW r \in Requests,
             Reject(r) \/ Receive(r) \/ Acquire(r) \/ Refuse(r) \/ StreamEnds(r)
             \/ Disconnect(r) \/ Accept(r)
      PROVE  Accounted'
  <2>1. /\ pc'[r] \notin {"infer", "judge"}
        /\ \A s \in Requests \ {r} :
               pc'[s] = pc[s] /\ form'[s] = form[s] /\ UNCHANGED counters /\ UNCHANGED upstream
    BY <1>1 DEF Reject, Receive, Acquire, Refuse, StreamEnds, Disconnect, Accept,
                Close, Deliver, GoTo
  <2>. QED  BY <2>1, SpendingIsLocal DEF counters
<1>2. ASSUME NEW r \in Requests, Forward(r) \/ UpstreamFails(r) PROVE Accounted'
  <2>1. /\ pc'[r] \notin {"infer", "judge"}
        /\ \A s \in Requests \ {r} : pc'[s] = pc[s]
        /\ UNCHANGED <<form, counters>> /\ Send(r)
    BY <1>2 DEF Forward, UpstreamFails, Attempt, Close, GoTo
  <2>. QED  BY <2>1, SpendingIsLocal, SendCounts DEF counters
<1>3. ASSUME NEW r \in Requests, Guard(r) PROVE Accounted'
  <2>1. upstream'[r] = 0 /\ premature'[r] = 0 /\ retries'[r] = 0 /\ pc'[r] = "infer"
    BY <1>3 DEF Guard, GoTo, InBudget, counters
  <2>2. \A s \in Requests \ {r} : pc'[s] = pc[s]
    BY <1>3 DEF Guard, GoTo
  <2>3. Cost(premature'[r]) + retries'[r] = 0
    <3>1. Cost(0) = 0
      BY CostFacts
    <3>. QED  BY <2>1, <3>1
  <2>4. UNCHANGED <<form, counters, upstream>>
    BY <1>3 DEF Guard
  <2>5. pc'[r] = "infer" => upstream'[r] <= Cost(premature'[r]) + retries'[r]
    BY <2>1, <2>3
  <2>. QED  BY <2>1, <2>2, <2>4, <2>5, SpendingIsLocal DEF counters
<1>4. ASSUME NEW r \in Requests, Invalid(r) PROVE Accounted'
  <2>1. /\ pc[r] = "infer" /\ pc'[r] # "judge" /\ UNCHANGED <<form, premature>>
        /\ retries'[r] = retries[r] + 1
        /\ Send(r)
        /\ \A s \in Requests \ {r} : pc'[s] = pc[s] /\ retries'[s] = retries[s]
    BY <1>4 DEF Invalid, Attempt, Close, Deliver, GoTo
  <2>2. premature[r] \in 0 .. MaxPremature
    BY <2>1 DEF InBudget
  <2>3. form[r] # None /\ ~form[r].screened =>
            upstream'[r] <= Cost(premature[r]) + retries[r] + 1
    <3>1. form[r] # None /\ ~form[r].screened => upstream[r] <= Cost(premature[r]) + retries[r]
      BY <2>1 DEF Accounted
    <3>2. Cost(premature[r]) \in Nat /\ retries[r] \in Nat
      BY <2>2, CostFacts
    <3>3. upstream[r] \in Nat /\ upstream'[r] \in Nat /\ upstream'[r] <= upstream[r] + 1
      BY <1>0, <2>1, SendCounts
    <3>. QED  BY <3>1, <3>2, <3>3
  <2>4. Cost(premature[r]) + retries[r] + 1 = Cost(premature'[r]) + retries'[r]
    <3>1. Cost(premature[r]) \in Nat /\ retries[r] \in Nat
      BY <2>2, CostFacts
    <3>. QED  BY <2>1, <3>1
  <2>5. \A s \in Requests \ {r} : upstream'[s] = upstream[s]
    BY <2>1, SendCounts
  <2>6. form[r] # None /\ ~form[r].screened =>
            upstream'[r] <= Cost(premature'[r]) + retries'[r]
    BY <2>3, <2>4
  <2>. QED  BY <2>1, <2>5, <2>6, SpendingIsLocal
<1>5. ASSUME NEW r \in Requests, Valid(r) PROVE Accounted'
  <2>1. /\ pc[r] = "infer" /\ pc'[r] = "judge" /\ UNCHANGED <<form, premature>>
        /\ Send(r)
        /\ \A s \in Requests \ {r} : pc'[s] = pc[s] /\ retries'[s] = retries[s]
    BY <1>5 DEF Valid, Attempt, GoTo
  <2>2. premature[r] \in 0 .. MaxPremature /\ retries[r] <= MaxRetries
    BY <2>1 DEF InBudget
  <2>3. form[r] # None /\ ~form[r].screened => upstream'[r] <= Cost(premature[r] + 1)
    <3>1. form[r] # None /\ ~form[r].screened => upstream[r] <= Cost(premature[r]) + retries[r]
      BY <2>1 DEF Accounted
    <3>2. /\ Cost(premature[r]) \in Nat
          /\ Cost(premature[r] + 1) = Cost(premature[r]) + MaxRetries + 1
          /\ retries[r] \in Nat
      BY <2>2, CostFacts
    <3>3. upstream[r] \in Nat /\ upstream'[r] \in Nat /\ upstream'[r] <= upstream[r] + 1
      BY <1>0, <2>1, SendCounts
    <3>. QED  BY <2>2, <3>1, <3>2, <3>3
  <2>4. \A s \in Requests \ {r} : upstream'[s] = upstream[s]
    BY <2>1, SendCounts
  <2>. QED  BY <2>1, <2>3, <2>4, SpendingIsLocal
<1>6. ASSUME NEW r \in Requests, PrematureNudge(r) PROVE Accounted'
  <2>1. /\ pc[r] = "judge" /\ pc'[r] # "judge" /\ UNCHANGED <<form, retries, upstream>>
        /\ premature'[r] = premature[r] + 1
        /\ \A s \in Requests \ {r} : pc'[s] = pc[s] /\ premature'[s] = premature[s]
    BY <1>6 DEF PrematureNudge, Close, GoTo
  <2>2. premature[r] \in 0 .. MaxPremature
    BY <2>1 DEF InBudget
  <2>3. form[r] # None /\ ~form[r].screened => upstream'[r] <= Cost(premature'[r]) + retries'[r]
    <3>1. form[r] # None /\ ~form[r].screened => upstream[r] <= Cost(premature[r] + 1)
      BY <2>1 DEF Accounted
    <3>2. Cost(premature[r] + 1) \in Nat
      <4>1. Cost(premature[r]) \in Nat
        BY <2>2, CostFacts
      <4>2. Cost(premature[r] + 1) = Cost(premature[r]) + MaxRetries + 1
        BY <2>2, CostFacts
      <4>. QED  BY <4>1, <4>2
    <3>3. upstream[r] \in Nat /\ retries[r] \in Nat
      BY <1>0
    <3>. QED  BY <2>1, <3>1, <3>2, <3>3
  <2>. QED  BY <2>1, <2>3, SpendingIsLocal
<1>7. ASSUME NEW r \in Requests, Objection(r) PROVE Accounted'
  <2>1. /\ pc'[r] # "judge" /\ UNCHANGED <<form, premature, upstream>>
        /\ form[r].screened
        /\ \A s \in Requests \ {r} : pc'[s] = pc[s] /\ retries'[s] = retries[s]
    BY <1>7 DEF Objection, Close, GoTo
  <2>. QED  BY <2>1, SpendingIsLocal
<1>8. CASE UNCHANGED vars
  BY <1>8 DEF Accounted, Cost, vars, counters
<1>. QED
  BY <1>1, <1>2, <1>3, <1>4, <1>5, <1>6, <1>7, <1>8 DEF Next, Serve

\* What is spent in the loop is bounded because the counters are.
LEMMA SpendingIsBounded == TypeOK /\ InBudget /\ Accounted /\ AttemptsBounded /\ [Next]_vars
                               => AttemptsBounded'
<1>. SUFFICES ASSUME TypeOK, InBudget, Accounted, AttemptsBounded, [Next]_vars,
                     NEW s \in Requests, form'[s] # None, ~form'[s].screened
              PROVE  upstream'[s] <= AttemptBound
  BY DEF AttemptsBounded
<1>. USE ProxyAssumption DEF TypeOK
<1>0. AttemptBound \in Nat /\ AttemptBound >= 1
  BY CostFacts
<1>1. CASE upstream'[s] = upstream[s] /\ form'[s] = form[s]
  BY <1>1 DEF AttemptsBounded
<1>2. ASSUME NEW r \in Requests, Send(r), UNCHANGED form, pc[r] \in {"handle", "infer"}
      PROVE  upstream'[s] <= AttemptBound
  <2>1. CASE s # r
    BY <1>1, <1>2, <2>1, SendCounts
  <2>2. CASE s = r /\ pc[r] = "handle"
    BY <1>0, <1>2, <2>2, SendCounts DEF InBudget
  <2>3. CASE s = r /\ pc[r] = "infer"
    <3>1. premature[r] \in 0 .. MaxPremature /\ retries[r] \in 0 .. MaxRetries
      BY <2>3 DEF InBudget
    <3>2. upstream[r] <= Cost(premature[r]) + retries[r]
      BY <1>2, <2>3 DEF Accounted
    <3>3. /\ Cost(premature[r]) \in Nat
          /\ Cost(premature[r] + 1) = Cost(premature[r]) + MaxRetries + 1
          /\ Cost(premature[r] + 1) <= AttemptBound
      BY <3>1, CostFacts
    <3>4. upstream[r] \in Nat /\ upstream'[r] \in Nat /\ upstream'[r] <= upstream[r] + 1
      BY <1>0, <1>2, SendCounts
    <3>5. upstream[r] + 1 <= Cost(premature[r]) + MaxRetries + 1
      BY <3>1, <3>2, <3>3, <3>4
    <3>. QED  BY <1>0, <2>3, <3>3, <3>4, <3>5
  <2>. QED  BY <1>2, <2>1, <2>2, <2>3
<1>3. ASSUME NEW r \in Requests, Receive(r) PROVE upstream'[s] <= AttemptBound
  <2>1. CASE s = r
    BY <1>0, <1>3, <2>1 DEF Receive, InBudget
  <2>2. CASE s # r
    BY <1>1, <1>3, <2>2 DEF Receive
  <2>. QED  BY <2>1, <2>2
<1>4. ASSUME NEW r \in Requests,
             Forward(r) \/ UpstreamFails(r) \/ Invalid(r) \/ Valid(r)
      PROVE  upstream'[s] <= AttemptBound
  BY <1>2, <1>4 DEF Forward, UpstreamFails, Invalid, Valid, Attempt, counters
<1>5. ASSUME NEW r \in Requests,
             Reject(r) \/ Acquire(r) \/ Refuse(r) \/ Guard(r) \/ PrematureNudge(r)
             \/ Objection(r) \/ Accept(r) \/ StreamEnds(r) \/ Disconnect(r)
      PROVE  upstream'[s] <= AttemptBound
  BY <1>1, <1>5 DEF Reject, Acquire, Refuse, Guard, PrematureNudge, Objection, Accept,
                    StreamEnds, Disconnect
<1>6. CASE UNCHANGED vars
  BY <1>1, <1>6 DEF vars
<1>. QED  BY <1>3, <1>4, <1>5, <1>6 DEF Next, Serve

-----------------------------------------------------------------------------
\* The inductive invariant: types, the guard, and the accounts of every request.
THEOREM Invariance == Spec => []IInv
<1>1. IInv /\ [Next]_vars => IInv'
  <2>. SUFFICES ASSUME IInv, [Next]_vars PROVE IInv'
    OBVIOUS
  <2>1. TypeOK'
    BY NextType
  <2>2. GuardHeld'
    BY NextGuard DEF IInv
  <2>3. InBudget'
    BY NextBudget DEF IInv
  <2>4. Accounted'
    BY NextAccounted DEF IInv
  <2>5. AttemptsBounded'
    BY SpendingIsBounded DEF IInv
  <2>. QED  BY <2>1, <2>2, <2>3, <2>4, <2>5 DEF IInv
<1>. QED  BY <1>1, InitIInv, PTL DEF Spec

\* The variables of the proxy always have their types; the counters never pass
\* their budgets by more than the step that notices it.
THEOREM TypeCorrect == Spec => []TypeOK
<1>1. IInv => TypeOK
  BY DEF IInv
<1>. QED  BY <1>1, Invariance, PTL

\* request_mutex serialises requests from their handlers to the last event of their
\* streams, and is free whenever no request is served.
THEOREM OneAtATime == Spec => []GuardHeld
<1>1. IInv => GuardHeld
  BY DEF IInv
<1>. QED  BY <1>1, Invariance, PTL

\* For every max_retries: the retries of validation, which start over, and the
\* premature batches, which do not, bound the attempts of an unscreened request.
THEOREM AttemptsAreBounded == Spec => []AttemptsBounded
<1>1. IInv => AttemptsBounded
  BY DEF IInv
<1>. QED  BY <1>1, Invariance, PTL

=============================================================================
