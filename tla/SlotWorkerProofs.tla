-------------------------- MODULE SlotWorkerProofs --------------------------
(***************************************************************************)
(* Proofs about SlotWorker for every set of tasks, every assignment of     *)
(* priorities and every iteration limit.                                   *)
(***************************************************************************)
EXTENDS SlotWorker, TLAPS, WellFoundedInduction, SequenceTheorems

-----------------------------------------------------------------------------
(* Facts about the queue operations.                                       *)

\* A non-empty set of natural numbers has a least element.
LEMMA LeastNatural ==
    ASSUME NEW S \in SUBSET Nat, S # {}
    PROVE  \E n \in S : \A m \in S : n <= m
<1>1. PICK n \in S : \A m \in S : ~ (<<m, n>> \in OpToRel(<, Nat))
    BY NatLessThanWellFounded, WFMin, Zenon
<1>2. OpToRel(<, Nat) = {p \in Nat \X Nat : p[1] < p[2]}
    BY Zenon DEF OpToRel
<1>3. ASSUME NEW m \in S PROVE n <= m
    <2>1. <<m, n>> \in Nat \X Nat /\ <<m, n>>[1] = m /\ <<m, n>>[2] = n
        OBVIOUS
    <2>2. ~ (m < n)
        BY <1>1, <1>2, <2>1
    <2> QED BY <2>2
<1> QED BY <1>3

\* InsertAt makes room for one element and keeps the order of the others.
LEMMA InsertAtProperties ==
    ASSUME NEW A, NEW s \in Seq(A), NEW e \in A, NEW i \in 1 .. Len(s) + 1
    PROVE  /\ InsertAt(s, i, e) \in Seq(A)
           /\ Len(InsertAt(s, i, e)) = Len(s) + 1
           /\ \A k \in 1 .. Len(s) + 1 :
                 InsertAt(s, i, e)[k] = IF k < i THEN s[k]
                                        ELSE IF k = i THEN e ELSE s[k - 1]
<1> DEFINE front == SubSeq(s, 1, i - 1)
           back == SubSeq(s, i, Len(s))
<1>0. Len(s) \in Nat
    BY LenProperties
<1>1. /\ front \in Seq(A) /\ Len(front) = i - 1
      /\ \A k \in 1 .. i - 1 : front[k] = s[k]
    BY <1>0, SubSeqProperties
<1>2. /\ back \in Seq(A) /\ Len(back) = Len(s) - i + 1
      /\ \A k \in 1 .. Len(s) - i + 1 : back[k] = s[i + k - 1]
    BY <1>0, SubSeqProperties
<1>3. <<e>> \in Seq(A) /\ Len(<<e>>) = 1 /\ <<e>>[1] = e
    OBVIOUS
<1> HIDE DEF front, back
<1> DEFINE pre == front \o <<e>>
<1>4. /\ pre \in Seq(A) /\ Len(pre) = i
      /\ \A k \in 1 .. i : pre[k] = IF k < i THEN s[k] ELSE e
    BY <1>0, <1>1, <1>3, ConcatProperties
<1> HIDE DEF pre
<1>5. /\ pre \o back \in Seq(A)
      /\ Len(pre \o back) = Len(s) + 1
      /\ \A k \in 1 .. Len(s) + 1 :
            (pre \o back)[k] = IF k < i THEN s[k] ELSE IF k = i THEN e ELSE s[k - 1]
    <2>1. /\ pre \o back \in Seq(A)
          /\ Len(pre \o back) = Len(pre) + Len(back)
          /\ \A k \in 1 .. Len(pre) + Len(back) :
                (pre \o back)[k] = IF k <= Len(pre) THEN pre[k] ELSE back[k - Len(pre)]
        BY <1>2, <1>4, ConcatProperties, Zenon
    <2> DEFINE whole == pre \o back
    <2>5. /\ whole \in Seq(A)
          /\ Len(whole) = Len(s) + 1
          /\ \A k \in 1 .. Len(s) + 1 : whole[k] = IF k <= i THEN pre[k] ELSE back[k - i]
        BY <1>0, <1>2, <1>4, <2>1
    <2> HIDE DEF whole
    <2>2. ASSUME NEW k \in 1 .. Len(s) + 1
          PROVE  whole[k] = IF k < i THEN s[k] ELSE IF k = i THEN e ELSE s[k - 1]
        <3>1. CASE k <= i
            <4>1. k \in 1 .. i BY <1>0, <3>1
            <4>2. whole[k] = pre[k] BY <2>5, <3>1
            <4> QED BY <1>0, <1>4, <3>1, <4>1, <4>2
        <3>2. CASE k > i
            <4>1. k - i \in 1 .. Len(s) - i + 1 BY <1>0, <3>2
            <4>2. whole[k] = back[k - i] BY <1>0, <2>5, <3>2
            <4>3. back[k - i] = s[i + (k - i) - 1] BY <1>2, <4>1
            <4>4. i + (k - i) - 1 = k - 1 BY <1>0
            <4>5. whole[k] = s[k - 1] BY <4>2, <4>3, <4>4
            <4>6. ~ (k < i) /\ k # i BY <1>0, <3>2
            <4> QED BY <4>5, <4>6
        <3> QED BY <1>0, <3>1, <3>2
    <2> QED BY <2>5, <2>2 DEF whole
<1>6. InsertAt(s, i, e) = pre \o back
    BY DEF InsertAt, pre, front, back
<1> QED BY <1>5, <1>6

\* submit inserts behind every task it does not precede, and the tasks from there
\* on are the first that it precedes and whatever follows it.
LEMMA InsertPositionProperties ==
    ASSUME NEW q \in Seq(Tasks), NEW t \in Tasks
    PROVE  /\ InsertPosition(q, t) \in 1 .. Len(q) + 1
           /\ \A j \in 1 .. Len(q) : j < InsertPosition(q, t) => Priority[q[j]] <= Priority[t]
           /\ InsertPosition(q, t) <= Len(q) => Priority[t] < Priority[q[InsertPosition(q, t)]]
<1> DEFINE later == {i \in DOMAIN q : Priority[t] < Priority[q[i]]}
<1>0. Len(q) \in Nat /\ DOMAIN q = 1 .. Len(q) /\ \A j \in 1 .. Len(q) : q[j] \in Tasks
    BY LenProperties, ElementOfSeq
<1>1. \A j \in 1 .. Len(q) : j \notin later => Priority[q[j]] <= Priority[t]
    BY <1>0, PriorityAssumption
<1>2. CASE later = {}
    <2>1. InsertPosition(q, t) = Len(q) + 1
        BY <1>2 DEF InsertPosition
    <2> QED BY <1>0, <1>1, <1>2, <2>1
<1>3. CASE later # {}
    <2>0. later \in SUBSET Nat
        BY <1>0
    <2>1. \E i \in later : \A j \in later : i <= j
        BY <1>3, <2>0, LeastNatural, Zenon
    <2>2. /\ InsertPosition(q, t) \in later
          /\ \A j \in later : InsertPosition(q, t) <= j
        BY <1>3, <2>1 DEF InsertPosition
    <2> HIDE DEF later
    <2>3. InsertPosition(q, t) \in 1 .. Len(q)
        BY <1>0, <2>2 DEF later
    <2>4. Priority[t] < Priority[q[InsertPosition(q, t)]]
        BY <2>2 DEF later
    <2> QED BY <1>0, <1>1, <2>2, <2>3, <2>4
<1> QED BY <1>2, <1>3

\* What pop takes and what it leaves.
LEMMA PopProperties ==
    ASSUME NEW A, NEW q \in Seq(A), q # <<>>
    PROVE  /\ Len(q) \in Nat \ {0}
           /\ Head(q) = q[1] /\ Head(q) \in A
           /\ Tail(q) \in Seq(A)
           /\ Len(Tail(q)) = Len(q) - 1
           /\ \A i \in 1 .. Len(q) - 1 : Tail(q)[i] = q[i + 1]
<1> QED BY HeadTailProperties, LenProperties, ElementOfSeq

-----------------------------------------------------------------------------
(* Type correctness.                                                       *)

\* run works on a task exactly while it is past its pop.
HasTask == pc \notin {"check", "park", "pop"} => task # None

TypeInv == TypeOK /\ HasTask

\* The initial state has its types.
LEMMA InitType == Init => TypeInv
<1>1. <<>> \in Seq(Tasks)
    OBVIOUS
<1>2. 0 \in 0 .. MaxIterations
    BY IterationAssumption
<1>3. Init => /\ submitPc \in [Tasks -> SubmitPcs]
              /\ cancelFlag \in [Tasks -> BOOLEAN]
              /\ result \in [Tasks -> Results]
              /\ arrivedAt \in [Tasks -> Nat]
    BY DEF Init, SubmitPcs, Results
<1>4. Init => /\ queue \in Seq(Tasks)
              /\ pc \in WorkerPcs /\ HasTask
              /\ task \in Tasks \cup {None}
              /\ dropped \subseteq Tasks /\ permit \in BOOLEAN
              /\ outcome \in {"none", "finished", "cancelled"}
    BY <1>1 DEF Init, WorkerPcs, HasTask
<1>5. Init => /\ currentPriority \in Int \cup {None}
              /\ currentCancel \in Tasks \cup {None}
              /\ clock \in Nat
              /\ iterations \in 0 .. MaxIterations
              /\ signals \subseteq (Tasks \cup {Operator}) \X Tasks
    BY <1>2 DEF Init
<1> QED BY <1>3, <1>4, <1>5 DEF TypeInv, TypeOK

\* Every step keeps them.
LEMMA NextType == TypeInv /\ [Next]_vars => TypeInv'
<1> SUFFICES ASSUME TypeInv, [Next]_vars PROVE TypeInv'
    OBVIOUS
<1> USE DEF TypeInv, TypeOK, HasTask, SubmitPcs, WorkerPcs, Results, submitVars, currentVars,
            workerVars, arrivalVars
<1>1. CASE WorkerCheck BY <1>1 DEF WorkerCheck
<1>2. CASE WorkerPark BY <1>2 DEF WorkerPark
<1>3. CASE WorkerPop
    <2>1. CASE queue = <<>> BY <1>3, <2>1 DEF WorkerPop
    <2>2. CASE queue # <<>>
        <3>1. Head(queue) \in Tasks /\ Tail(queue) \in Seq(Tasks)
            BY <2>2, PopProperties
        <3> QED BY <1>3, <2>2, <3>1, NoneAssumption DEF WorkerPop
    <2> QED BY <2>1, <2>2
<1>4. CASE WorkerScreen BY <1>4 DEF WorkerScreen
<1>5. CASE WorkerSetCancel BY <1>5 DEF WorkerSetCancel
<1>6. CASE WorkerSetPriority BY <1>6, PriorityAssumption DEF WorkerSetPriority
<1>7. CASE WorkerSubscribe BY <1>7, IterationAssumption DEF WorkerSubscribe
<1>8. CASE RunHead BY <1>8, IterationAssumption DEF RunHead
<1>9. CASE RunStep BY <1>9 DEF RunStep
<1>10. CASE WorkerClearCancel BY <1>10 DEF WorkerClearCancel
<1>11. CASE WorkerClearPriority BY <1>11 DEF WorkerClearPriority
<1>12. CASE WorkerDeliver BY <1>12 DEF WorkerDeliver
<1>13. CASE CancelCurrent BY <1>13 DEF CancelCurrent, Send
<1>14. ASSUME NEW t \in Tasks, SubmitStep(t) \/ AbandonSubmit(t) \/ DropReceiver(t)
       PROVE  TypeInv'
    <2>1. CASE SubmitCompare(t) BY <2>1 DEF SubmitCompare
    <2>2. CASE SubmitSignal(t) BY <2>2 DEF SubmitSignal, Send
    <2>3. CASE SubmitEnqueue(t)
        <3>1. InsertAt(queue, InsertPosition(queue, t), t) \in Seq(Tasks)
            BY InsertPositionProperties, InsertAtProperties
        <3> QED BY <2>3, <3>1 DEF SubmitEnqueue
    <2>4. CASE SubmitNotify(t) BY <2>4 DEF SubmitNotify
    <2>5. CASE AbandonSubmit(t) BY <2>5 DEF AbandonSubmit
    <2>6. CASE DropReceiver(t) BY <2>6 DEF DropReceiver
    <2> QED BY <1>14, <2>1, <2>2, <2>3, <2>4, <2>5, <2>6 DEF SubmitStep
<1>15. CASE UNCHANGED vars BY <1>15 DEF vars
<1> QED
    BY <1>1, <1>2, <1>3, <1>4, <1>5, <1>6, <1>7, <1>8, <1>9, <1>10, <1>11, <1>12,
       <1>13, <1>14, <1>15 DEF Next, WorkerStep

\* Every variable of the slot worker keeps its type.
THEOREM TypeCorrect == Spec => []TypeOK
<1>1. TypeInv => TypeOK BY DEF TypeInv
<1> QED BY <1>1, InitType, NextType, PTL DEF Spec

-----------------------------------------------------------------------------
(* The inductive invariant.                                                *)

\* The guard on current_priority is exclusive, and what submit read under it stays
\* true while it waits for current_cancel.
LockInv ==
    /\ \A s, t \in Tasks : submitPc[s] = "signal" /\ submitPc[t] = "signal" => s = t
    /\ \A t \in Tasks :
          submitPc[t] = "signal" => currentPriority # None /\ Priority[t] < currentPriority

\* What current_cancel and current_priority hold, by where run stands.
SlotInv ==
    /\ pc \in {"check", "park", "pop"} => task = None
    /\ pc \in {"check", "park", "pop", "screen", "setCancel", "deliver"} =>
          currentCancel = None /\ currentPriority = None
    /\ pc = "setPriority" => currentCancel = task /\ currentPriority = None
    /\ pc \in {"subscribe", "head", "step", "clearCancel"} =>
          currentCancel = task /\ currentPriority = Priority[task]
    /\ pc = "clearPriority" => currentCancel = None /\ currentPriority = Priority[task]

\* A task that is told to stop, or has stopped, was signalled.
CauseInv ==
    /\ \A t \in Tasks : cancelFlag[t] =>
          \E who \in Tasks \cup {Operator} : <<who, t>> \in signals
    /\ outcome = "cancelled" =>
          \E who \in Tasks \cup {Operator} : <<who, task>> \in signals
    /\ outcome # "none" <=> pc \in {"clearCancel", "clearPriority", "deliver"}

\* t is served before u, given when each arrived.
Precedes(at, t, u) ==
    Priority[t] < Priority[u] \/ (Priority[t] = Priority[u] /\ at[t] < at[u])

\* The queue is sorted by priority and arrival.
QueueOrder ==
    \A i, j \in 1 .. Len(queue) : i < j => Precedes(arrivedAt, queue[i], queue[j])

\* Where a submission is, without counting occurrences: QueueOrder excludes two.
Placement ==
    /\ \A t \in Tasks : submitPc[t] \in {"notify", "returned"} <=> arrivedAt[t] # 0
    /\ \A t \in Tasks : arrivedAt[t] <= clock
    /\ \A t \in Tasks : arrivedAt[t] = 0 => result[t] = "none"
    /\ \A i \in 1 .. Len(queue) :
          queue[i] # task /\ result[queue[i]] = "none" /\ arrivedAt[queue[i]] # 0
    /\ task # None => result[task] = "none" /\ arrivedAt[task] # 0
    /\ \A t \in Tasks : arrivedAt[t] # 0 =>
          (\E i \in 1 .. Len(queue) : queue[i] = t) \/ task = t \/ result[t] # "none"

IInv == /\ TypeInv /\ LockInv /\ SlotInv /\ SignalsOutranked /\ CauseInv
        /\ QueueOrder /\ Placement

\* The comparison of submit survives every step.
LEMMA NextLock == TypeInv /\ LockInv /\ [Next]_vars => LockInv'
<1> SUFFICES ASSUME TypeInv /\ LockInv, [Next]_vars PROVE LockInv'
    OBVIOUS
<1> USE DEF TypeInv, TypeOK, HasTask, LockInv, SubmitPcs, WorkerPcs, submitVars, currentVars, workerVars, arrivalVars
<1>1. CASE WorkerCheck BY <1>1 DEF WorkerCheck
<1>2. CASE WorkerPark BY <1>2 DEF WorkerPark
<1>3. CASE WorkerPop BY <1>3 DEF WorkerPop
<1>4. CASE WorkerScreen BY <1>4 DEF WorkerScreen
<1>5. CASE WorkerSetCancel BY <1>5 DEF WorkerSetCancel
<1>6. CASE WorkerSetPriority BY <1>6 DEF WorkerSetPriority, PriorityLocked
<1>7. CASE WorkerSubscribe BY <1>7 DEF WorkerSubscribe
<1>8. CASE RunHead BY <1>8 DEF RunHead
<1>9. CASE RunStep BY <1>9 DEF RunStep
<1>10. CASE WorkerClearCancel BY <1>10 DEF WorkerClearCancel
<1>11. CASE WorkerClearPriority BY <1>11 DEF WorkerClearPriority, PriorityLocked
<1>12. CASE WorkerDeliver BY <1>12 DEF WorkerDeliver
<1>13. CASE CancelCurrent BY <1>13 DEF CancelCurrent, Send
<1>14. ASSUME NEW t \in Tasks, SubmitStep(t) \/ AbandonSubmit(t) \/ DropReceiver(t)
      PROVE  LockInv'
    <2>1. CASE SubmitCompare(t) BY <2>1 DEF SubmitCompare, Outranks, PriorityLocked
    <2>2. CASE SubmitSignal(t) BY <2>2 DEF SubmitSignal, Send
    <2>3. CASE SubmitEnqueue(t) BY <2>3 DEF SubmitEnqueue
    <2>4. CASE SubmitNotify(t) BY <2>4 DEF SubmitNotify
    <2>5. CASE AbandonSubmit(t) BY <2>5 DEF AbandonSubmit
    <2>6. CASE DropReceiver(t) BY <2>6 DEF DropReceiver
    <2> QED BY <1>14, <2>1, <2>2, <2>3, <2>4, <2>5, <2>6 DEF SubmitStep
<1>15. CASE UNCHANGED vars BY <1>15 DEF vars
<1> QED
    BY <1>1, <1>2, <1>3, <1>4, <1>5, <1>6, <1>7, <1>8,
       <1>9, <1>10, <1>11, <1>12, <1>13, <1>14, <1>15 DEF Next, WorkerStep

\* current_cancel and current_priority follow the steps of run.
LEMMA NextSlot == TypeInv /\ SlotInv /\ [Next]_vars => SlotInv'
<1> SUFFICES ASSUME TypeInv /\ SlotInv, [Next]_vars PROVE SlotInv'
    OBVIOUS
<1> USE DEF TypeInv, TypeOK, HasTask, SlotInv, SubmitPcs, WorkerPcs, submitVars, currentVars, workerVars, arrivalVars
<1>1. CASE WorkerCheck BY <1>1 DEF WorkerCheck
<1>2. CASE WorkerPark BY <1>2 DEF WorkerPark
<1>3. CASE WorkerPop BY <1>3 DEF WorkerPop
<1>4. CASE WorkerScreen BY <1>4 DEF WorkerScreen
<1>5. CASE WorkerSetCancel BY <1>5 DEF WorkerSetCancel
<1>6. CASE WorkerSetPriority BY <1>6 DEF WorkerSetPriority
<1>7. CASE WorkerSubscribe BY <1>7 DEF WorkerSubscribe
<1>8. CASE RunHead BY <1>8 DEF RunHead
<1>9. CASE RunStep BY <1>9 DEF RunStep
<1>10. CASE WorkerClearCancel BY <1>10 DEF WorkerClearCancel
<1>11. CASE WorkerClearPriority BY <1>11 DEF WorkerClearPriority
<1>12. CASE WorkerDeliver BY <1>12 DEF WorkerDeliver
<1>13. CASE CancelCurrent BY <1>13 DEF CancelCurrent, Send
<1>14. ASSUME NEW t \in Tasks, SubmitStep(t) \/ AbandonSubmit(t) \/ DropReceiver(t)
      PROVE  SlotInv'
    <2>1. CASE SubmitCompare(t) BY <2>1 DEF SubmitCompare
    <2>2. CASE SubmitSignal(t) BY <2>2 DEF SubmitSignal, Send
    <2>3. CASE SubmitEnqueue(t) BY <2>3 DEF SubmitEnqueue
    <2>4. CASE SubmitNotify(t) BY <2>4 DEF SubmitNotify
    <2>5. CASE AbandonSubmit(t) BY <2>5 DEF AbandonSubmit
    <2>6. CASE DropReceiver(t) BY <2>6 DEF DropReceiver
    <2> QED BY <1>14, <2>1, <2>2, <2>3, <2>4, <2>5, <2>6 DEF SubmitStep
<1>15. CASE UNCHANGED vars BY <1>15 DEF vars
<1> QED
    BY <1>1, <1>2, <1>3, <1>4, <1>5, <1>6, <1>7, <1>8,
       <1>9, <1>10, <1>11, <1>12, <1>13, <1>14, <1>15 DEF Next, WorkerStep

\* A signal goes to the task submit compared with.
LEMMA NextSignals == TypeInv /\ LockInv /\ SlotInv /\ SignalsOutranked /\ [Next]_vars => SignalsOutranked'
<1> SUFFICES ASSUME TypeInv /\ LockInv /\ SlotInv /\ SignalsOutranked, [Next]_vars PROVE SignalsOutranked'
    OBVIOUS
<1> USE DEF TypeInv, TypeOK, HasTask, SignalsOutranked, SubmitPcs, WorkerPcs, submitVars, currentVars, workerVars, arrivalVars
<1>1. CASE WorkerCheck BY <1>1 DEF WorkerCheck
<1>2. CASE WorkerPark BY <1>2 DEF WorkerPark
<1>3. CASE WorkerPop BY <1>3 DEF WorkerPop
<1>4. CASE WorkerScreen BY <1>4 DEF WorkerScreen
<1>5. CASE WorkerSetCancel BY <1>5 DEF WorkerSetCancel
<1>6. CASE WorkerSetPriority BY <1>6 DEF WorkerSetPriority
<1>7. CASE WorkerSubscribe BY <1>7 DEF WorkerSubscribe
<1>8. CASE RunHead BY <1>8 DEF RunHead
<1>9. CASE RunStep BY <1>9 DEF RunStep
<1>10. CASE WorkerClearCancel BY <1>10 DEF WorkerClearCancel
<1>11. CASE WorkerClearPriority BY <1>11 DEF WorkerClearPriority
<1>12. CASE WorkerDeliver BY <1>12 DEF WorkerDeliver
<1>13. CASE CancelCurrent BY <1>13, OperatorAssumption DEF CancelCurrent, Send
<1>14. ASSUME NEW t \in Tasks, SubmitStep(t) \/ AbandonSubmit(t) \/ DropReceiver(t)
      PROVE  SignalsOutranked'
    <2>1. CASE SubmitCompare(t) BY <2>1 DEF SubmitCompare
    <2>2. CASE SubmitSignal(t) BY <2>2, PriorityAssumption, NoneAssumption DEF SubmitSignal, Send, LockInv, SlotInv, CancelLocked
    <2>3. CASE SubmitEnqueue(t) BY <2>3 DEF SubmitEnqueue
    <2>4. CASE SubmitNotify(t) BY <2>4 DEF SubmitNotify
    <2>5. CASE AbandonSubmit(t) BY <2>5 DEF AbandonSubmit
    <2>6. CASE DropReceiver(t) BY <2>6 DEF DropReceiver
    <2> QED BY <1>14, <2>1, <2>2, <2>3, <2>4, <2>5, <2>6 DEF SubmitStep
<1>15. CASE UNCHANGED vars BY <1>15 DEF vars
<1> QED
    BY <1>1, <1>2, <1>3, <1>4, <1>5, <1>6, <1>7, <1>8,
       <1>9, <1>10, <1>11, <1>12, <1>13, <1>14, <1>15 DEF Next, WorkerStep

\* Sender::send keeps every flag accounted for.
LEMMA SendCause ==
    ASSUME TypeInv, CauseInv, NEW who \in Tasks \cup {Operator}, Send(who)
    PROVE  /\ \A t \in Tasks : cancelFlag'[t] =>
                 \E w \in Tasks \cup {Operator} : <<w, t>> \in signals'
           /\ signals \subseteq signals'
<1>1. signals \subseteq signals'
    BY DEF Send
<1>2. ASSUME NEW t \in Tasks, cancelFlag'[t]
      PROVE  \E w \in Tasks \cup {Operator} : <<w, t>> \in signals'
    <2>1. CASE cancelFlag[t] BY <1>1, <2>1 DEF CauseInv
    <2>2. CASE ~ cancelFlag[t]
        <3>1. t = currentCancel BY <1>2, <2>2 DEF Send
        <3>2. t # None BY NoneAssumption
        <3>3. <<who, t>> \in signals' BY <3>1, <3>2 DEF Send
        <3> QED BY <3>3
    <2> QED BY <2>1, <2>2
<1> QED BY <1>1, <1>2

\* Nothing is told to stop without a signal.
LEMMA NextCause == TypeInv /\ SlotInv /\ CauseInv /\ [Next]_vars => CauseInv'
<1> SUFFICES ASSUME TypeInv /\ SlotInv /\ CauseInv, [Next]_vars PROVE CauseInv'
    OBVIOUS
<1> USE DEF TypeInv, TypeOK, HasTask, CauseInv, SubmitPcs, WorkerPcs, submitVars, currentVars, workerVars, arrivalVars
<1>1. CASE WorkerCheck BY <1>1 DEF WorkerCheck
<1>2. CASE WorkerPark BY <1>2 DEF WorkerPark
<1>3. CASE WorkerPop BY <1>3 DEF WorkerPop
<1>4. CASE WorkerScreen BY <1>4 DEF WorkerScreen
<1>5. CASE WorkerSetCancel BY <1>5 DEF WorkerSetCancel
<1>6. CASE WorkerSetPriority BY <1>6 DEF WorkerSetPriority
<1>7. CASE WorkerSubscribe BY <1>7 DEF WorkerSubscribe
<1>8. CASE RunHead BY <1>8 DEF RunHead
<1>9. CASE RunStep BY <1>9 DEF RunStep
<1>10. CASE WorkerClearCancel BY <1>10 DEF WorkerClearCancel
<1>11. CASE WorkerClearPriority BY <1>11 DEF WorkerClearPriority
<1>12. CASE WorkerDeliver BY <1>12 DEF WorkerDeliver
<1>13. CASE CancelCurrent BY <1>13, SendCause DEF CancelCurrent
<1>14. ASSUME NEW t \in Tasks, SubmitStep(t) \/ AbandonSubmit(t) \/ DropReceiver(t)
      PROVE  CauseInv'
    <2>1. CASE SubmitCompare(t) BY <2>1 DEF SubmitCompare
    <2>2. CASE SubmitSignal(t) BY <2>2, SendCause DEF SubmitSignal
    <2>3. CASE SubmitEnqueue(t) BY <2>3 DEF SubmitEnqueue
    <2>4. CASE SubmitNotify(t) BY <2>4 DEF SubmitNotify
    <2>5. CASE AbandonSubmit(t) BY <2>5 DEF AbandonSubmit
    <2>6. CASE DropReceiver(t) BY <2>6 DEF DropReceiver
    <2> QED BY <1>14, <2>1, <2>2, <2>3, <2>4, <2>5, <2>6 DEF SubmitStep
<1>15. CASE UNCHANGED vars BY <1>15 DEF vars
<1> QED
    BY <1>1, <1>2, <1>3, <1>4, <1>5, <1>6, <1>7, <1>8,
       <1>9, <1>10, <1>11, <1>12, <1>13, <1>14, <1>15 DEF Next, WorkerStep

\* submit inserts at the place of the new task, and run takes the first.
LEMMA NextOrder == TypeInv /\ Placement /\ QueueOrder /\ [Next]_vars => QueueOrder'
<1> SUFFICES ASSUME TypeInv /\ Placement /\ QueueOrder, [Next]_vars PROVE QueueOrder'
    OBVIOUS
<1> USE DEF TypeInv, TypeOK, HasTask, SubmitPcs, WorkerPcs, submitVars, currentVars, workerVars, arrivalVars
<1>1. CASE WorkerCheck BY <1>1 DEF WorkerCheck, QueueOrder, Precedes
<1>2. CASE WorkerPark BY <1>2 DEF WorkerPark, QueueOrder, Precedes
<1>3. CASE WorkerPop
    <2>1. CASE queue = <<>> BY <1>3, <2>1 DEF WorkerPop, QueueOrder, Precedes
    <2>2. CASE queue # <<>>
        <3>1. /\ Len(queue) \in Nat \ {0}
              /\ Len(Tail(queue)) = Len(queue) - 1
              /\ \A i \in 1 .. Len(queue) - 1 : Tail(queue)[i] = queue[i + 1]
            BY <2>2, PopProperties
        <3>2. queue' = Tail(queue) /\ UNCHANGED arrivedAt
            BY <1>3, <2>2 DEF WorkerPop
        <3>3. ASSUME NEW i \in 1 .. Len(queue'), NEW j \in 1 .. Len(queue'), i < j
              PROVE  Precedes(arrivedAt, queue[i + 1], queue[j + 1])
            <4>1. i + 1 \in 1 .. Len(queue) /\ j + 1 \in 1 .. Len(queue) /\ i + 1 < j + 1
                BY <3>1, <3>2, <3>3
            <4> QED BY <4>1 DEF QueueOrder
        <3>4. \A i \in 1 .. Len(queue') : queue'[i] = queue[i + 1]
            BY <3>1, <3>2
        <3>5. ASSUME NEW i \in 1 .. Len(queue'), NEW j \in 1 .. Len(queue'), i < j
              PROVE  Precedes(arrivedAt', queue'[i], queue'[j])
            <4>1. Precedes(arrivedAt, queue[i + 1], queue[j + 1]) BY <3>3, <3>5
            <4>2. queue'[i] = queue[i + 1] /\ queue'[j] = queue[j + 1] BY <3>4
            <4> QED BY <3>2, <4>1, <4>2
        <3> QED BY <3>5 DEF QueueOrder
    <2> QED BY <2>1, <2>2
<1>4. CASE WorkerScreen BY <1>4 DEF WorkerScreen, QueueOrder, Precedes
<1>5. CASE WorkerSetCancel BY <1>5 DEF WorkerSetCancel, QueueOrder, Precedes
<1>6. CASE WorkerSetPriority BY <1>6 DEF WorkerSetPriority, QueueOrder, Precedes
<1>7. CASE WorkerSubscribe BY <1>7 DEF WorkerSubscribe, QueueOrder, Precedes
<1>8. CASE RunHead BY <1>8 DEF RunHead, QueueOrder, Precedes
<1>9. CASE RunStep BY <1>9 DEF RunStep, QueueOrder, Precedes
<1>10. CASE WorkerClearCancel BY <1>10 DEF WorkerClearCancel, QueueOrder, Precedes
<1>11. CASE WorkerClearPriority BY <1>11 DEF WorkerClearPriority, QueueOrder, Precedes
<1>12. CASE WorkerDeliver BY <1>12 DEF WorkerDeliver, QueueOrder, Precedes
<1>13. CASE CancelCurrent BY <1>13 DEF CancelCurrent, QueueOrder, Precedes
<1>14. ASSUME NEW t \in Tasks, SubmitStep(t) \/ AbandonSubmit(t) \/ DropReceiver(t)
      PROVE  QueueOrder'
    <2>1. CASE SubmitCompare(t) BY <2>1 DEF SubmitCompare, QueueOrder, Precedes
    <2>2. CASE SubmitSignal(t) BY <2>2 DEF SubmitSignal, QueueOrder, Precedes
    <2>3. CASE SubmitEnqueue(t)
        <3> DEFINE p == InsertPosition(queue, t)
                   q == InsertAt(queue, p, t)
        <3>1. queue' = q /\ arrivedAt' = [arrivedAt EXCEPT ![t] = clock + 1]
            BY <2>3 DEF SubmitEnqueue
        <3>2. /\ p \in 1 .. Len(queue) + 1
              /\ \A j \in 1 .. Len(queue) : j < p => Priority[queue[j]] <= Priority[t]
              /\ p <= Len(queue) => Priority[t] < Priority[queue[p]]
            BY InsertPositionProperties
        <3> HIDE DEF p
        <3>3. /\ Len(q) = Len(queue) + 1
              /\ \A k \in 1 .. Len(queue) + 1 :
                    q[k] = IF k < p THEN queue[k] ELSE IF k = p THEN t ELSE queue[k - 1]
            BY <3>2, InsertAtProperties
        <3> HIDE DEF q
        <3>4. Len(queue) \in Nat /\ \A k \in 1 .. Len(queue) : queue[k] \in Tasks
            BY LenProperties, ElementOfSeq
        <3>5. arrivedAt[t] = 0
            BY <2>3 DEF SubmitEnqueue, Placement
        <3>6. \A k \in 1 .. Len(queue) :
                 queue[k] # t /\ arrivedAt'[queue[k]] = arrivedAt[queue[k]]
            BY <3>1, <3>4, <3>5 DEF Placement
        <3>7. arrivedAt'[t] = clock + 1
            BY <3>1
        <3>8. \A k \in 1 .. Len(queue) : k >= p => Priority[t] < Priority[queue[k]]
            <4> TAKE k \in 1 .. Len(queue)
            <4> HAVE k >= p
            <4>1. p \in 1 .. Len(queue) BY <3>2, <3>4
            <4>2. /\ Priority[t] \in Int /\ Priority[queue[p]] \in Int /\ Priority[queue[k]] \in Int
                  /\ Priority[t] < Priority[queue[p]]
                BY <3>2, <3>4, <4>1, PriorityAssumption
            <4>3. CASE k = p BY <4>2, <4>3
            <4>4. CASE k > p
                <5>1. Precedes(arrivedAt, queue[p], queue[k]) BY <4>1, <4>4 DEF QueueOrder
                <5> QED BY <4>2, <5>1 DEF Precedes
            <4> QED BY <3>2, <4>3, <4>4
        <3>9. ASSUME NEW i \in 1 .. Len(queue), NEW j \in 1 .. Len(queue), i < j
              PROVE  Precedes(arrivedAt', queue[i], queue[j])
            <4>1. Precedes(arrivedAt, queue[i], queue[j]) BY <3>9 DEF QueueOrder
            <4> QED BY <3>6, <4>1 DEF Precedes
        <3>10. ASSUME NEW i \in 1 .. Len(q), NEW j \in 1 .. Len(q), i < j
              PROVE  Precedes(arrivedAt', q[i], q[j])
            <4>1. CASE j < p
                <5>1. i \in 1 .. Len(queue) /\ j \in 1 .. Len(queue)
                    BY <3>2, <3>3, <3>4, <3>10, <4>1
                <5>2. q[i] = queue[i] /\ q[j] = queue[j]
                    BY <3>2, <3>3, <3>4, <3>10, <4>1
                <5> QED BY <3>10, <3>9, <5>1, <5>2
            <4>2. CASE j = p
                <5>1. i \in 1 .. Len(queue) /\ i < p
                    BY <3>2, <3>3, <3>4, <3>10, <4>2
                <5>2. q[i] = queue[i] /\ q[j] = t
                    BY <3>2, <3>3, <3>4, <3>10, <4>2
                <5>3. arrivedAt[queue[i]] <= clock
                    BY <3>4, <5>1 DEF Placement
                <5>4. /\ Priority[queue[i]] <= Priority[t]
                      /\ Priority[queue[i]] \in Int /\ Priority[t] \in Int
                    BY <3>2, <3>4, <5>1, PriorityAssumption
                <5>5. arrivedAt'[queue[i]] < arrivedAt'[t]
                    <6>1. arrivedAt'[queue[i]] = arrivedAt[queue[i]] /\ arrivedAt[queue[i]] \in Nat
                        BY <3>4, <3>6, <5>1
                    <6> QED BY <3>7, <5>3, <6>1
                <5> QED BY <5>2, <5>4, <5>5 DEF Precedes
            <4>3. CASE j > p
                <5>1. j - 1 \in 1 .. Len(queue) /\ q[j] = queue[j - 1]
                    BY <3>2, <3>3, <3>4, <4>3
                <5>2. CASE i < p
                    <6>1. i \in 1 .. Len(queue) /\ q[i] = queue[i] /\ i < j - 1
                        BY <3>2, <3>3, <3>4, <4>3, <5>2
                    <6> QED BY <3>9, <5>1, <6>1
                <5>3. CASE i = p
                    <6>1. q[i] = t BY <3>3, <5>3
                    <6>2. j - 1 >= p BY <3>2, <3>4, <4>3
                    <6> QED BY <3>8, <5>1, <6>1, <6>2 DEF Precedes
                <5>4. CASE i > p
                    <6>1. i - 1 \in 1 .. Len(queue) /\ q[i] = queue[i - 1] /\ i - 1 < j - 1
                        BY <3>2, <3>3, <3>4, <3>10, <5>4
                    <6> QED BY <3>9, <5>1, <6>1
                <5> QED BY <3>2, <3>3, <3>4, <5>2, <5>3, <5>4
            <4> QED BY <3>2, <3>3, <3>4, <4>1, <4>2, <4>3
        <3> QED BY <3>1, <3>10 DEF QueueOrder
    <2>4. CASE SubmitNotify(t) BY <2>4 DEF SubmitNotify, QueueOrder, Precedes
    <2>5. CASE AbandonSubmit(t) BY <2>5 DEF AbandonSubmit, QueueOrder, Precedes
    <2>6. CASE DropReceiver(t) BY <2>6 DEF DropReceiver, QueueOrder, Precedes
    <2> QED BY <1>14, <2>1, <2>2, <2>3, <2>4, <2>5, <2>6 DEF SubmitStep
<1>15. CASE UNCHANGED vars BY <1>15 DEF vars, QueueOrder, Precedes
<1> QED
    BY <1>1, <1>2, <1>3, <1>4, <1>5, <1>6, <1>7, <1>8,
       <1>9, <1>10, <1>11, <1>12, <1>13, <1>14, <1>15 DEF Next, WorkerStep

\* No step loses or duplicates a submission.
LEMMA NextPlacement == TypeInv /\ SlotInv /\ CauseInv /\ QueueOrder /\ Placement /\ [Next]_vars => Placement'
<1> SUFFICES ASSUME TypeInv /\ SlotInv /\ CauseInv /\ QueueOrder /\ Placement, [Next]_vars PROVE Placement'
    OBVIOUS
<1> USE DEF TypeInv, TypeOK, HasTask, SubmitPcs, WorkerPcs, submitVars, currentVars, workerVars, arrivalVars
<1>1. CASE WorkerCheck BY <1>1 DEF WorkerCheck, Placement
<1>2. CASE WorkerPark BY <1>2 DEF WorkerPark, Placement
<1>3. CASE WorkerPop
    <2>1. CASE queue = <<>> BY <1>3, <2>1 DEF WorkerPop, Placement
    <2>2. CASE queue # <<>>
        <3>1. /\ Len(queue) \in Nat \ {0}
              /\ Head(queue) = queue[1]
              /\ Len(Tail(queue)) = Len(queue) - 1
              /\ \A i \in 1 .. Len(queue) - 1 : Tail(queue)[i] = queue[i + 1]
            BY <2>2, PopProperties
        <3>2. /\ queue' = Tail(queue) /\ task' = queue[1]
              /\ UNCHANGED <<submitPc, arrivedAt, clock, result>>
            BY <1>3, <2>2, <3>1 DEF WorkerPop
        <3>3. task = None
            BY <1>3 DEF WorkerPop, SlotInv
        <3>4. \A i \in 1 .. Len(queue') : i + 1 \in 1 .. Len(queue) /\ queue'[i] = queue[i + 1]
            BY <3>1, <3>2
        <3>5. \A i \in 2 .. Len(queue) : queue[1] # queue[i]
            <4> TAKE i \in 2 .. Len(queue)
            <4>1. 1 \in 1 .. Len(queue) /\ i \in 1 .. Len(queue) /\ 1 < i BY <3>1
            <4>2. queue[1] \in Tasks BY <4>1, ElementOfSeq
            <4>3. Precedes(arrivedAt, queue[1], queue[i]) BY <4>1 DEF QueueOrder
            <4> QED BY <4>2, <4>3, PriorityAssumption DEF Precedes
        <3>6. \A i \in 1 .. Len(queue') :
                 queue'[i] # task' /\ result[queue'[i]] = "none" /\ arrivedAt[queue'[i]] # 0
            <4> TAKE i \in 1 .. Len(queue')
            <4>1. i + 1 \in 2 .. Len(queue) BY <3>1, <3>2
            <4> QED BY <3>2, <3>4, <3>5, <4>1 DEF Placement
        <3>7. result[task'] = "none" /\ arrivedAt[task'] # 0
            BY <3>1, <3>2 DEF Placement
        <3>8. ASSUME NEW u \in Tasks, arrivedAt[u] # 0, result[u] = "none", u # queue[1]
              PROVE  \E k \in 1 .. Len(queue') : queue'[k] = u
            <4>1. PICK i \in 1 .. Len(queue) : queue[i] = u
                BY <3>3, <3>8, NoneAssumption DEF Placement
            <4>2. i # 1 BY <3>8, <4>1
            <4>3. i - 1 \in 1 .. Len(queue) - 1 BY <3>1, <4>2
            <4>4. Tail(queue)[i - 1] = queue[(i - 1) + 1] BY <3>1, <4>3
            <4>5. (i - 1) + 1 = i BY <3>1
            <4> QED BY <3>1, <3>2, <4>1, <4>3, <4>4, <4>5
        <3> QED BY <3>2, <3>6, <3>7, <3>8 DEF Placement
    <2> QED BY <2>1, <2>2
<1>4. CASE WorkerScreen
    <2>1. Len(queue) \in Nat /\ \A i \in 1 .. Len(queue) : queue[i] \in Tasks
        BY LenProperties, ElementOfSeq
    <2>2. CASE task \in dropped
        <3>1. /\ result' = [result EXCEPT ![task] = "skipped"] /\ task' = None
              /\ UNCHANGED <<submitPc, queue, clock, arrivedAt>>
              /\ task \in Tasks
            BY <1>4, <2>2 DEF WorkerScreen
        <3> QED BY <2>1, <3>1, NoneAssumption DEF Placement
    <2>3. CASE task \notin dropped BY <1>4, <2>3 DEF WorkerScreen, Placement
    <2> QED BY <2>2, <2>3
<1>5. CASE WorkerSetCancel BY <1>5 DEF WorkerSetCancel, Placement
<1>6. CASE WorkerSetPriority BY <1>6 DEF WorkerSetPriority, Placement
<1>7. CASE WorkerSubscribe BY <1>7 DEF WorkerSubscribe, Placement
<1>8. CASE RunHead BY <1>8 DEF RunHead, Placement
<1>9. CASE RunStep BY <1>9 DEF RunStep, Placement
<1>10. CASE WorkerClearCancel BY <1>10 DEF WorkerClearCancel, Placement
<1>11. CASE WorkerClearPriority BY <1>11 DEF WorkerClearPriority, Placement
<1>12. CASE WorkerDeliver
    <2>1. Len(queue) \in Nat /\ \A i \in 1 .. Len(queue) : queue[i] \in Tasks
        BY LenProperties, ElementOfSeq
    <2>2. /\ result' = [result EXCEPT ![task] = outcome] /\ task' = None
          /\ UNCHANGED <<submitPc, queue, clock, arrivedAt>>
          /\ task \in Tasks /\ outcome # "none"
        BY <1>12 DEF WorkerDeliver, CauseInv
    <2> QED BY <2>1, <2>2, NoneAssumption DEF Placement
<1>13. CASE CancelCurrent BY <1>13 DEF CancelCurrent, Placement
<1>14. ASSUME NEW t \in Tasks, SubmitStep(t) \/ AbandonSubmit(t) \/ DropReceiver(t)
      PROVE  Placement'
    <2>1. CASE SubmitCompare(t) BY <2>1 DEF SubmitCompare, Placement
    <2>2. CASE SubmitSignal(t) BY <2>2 DEF SubmitSignal, Placement
    <2>3. CASE SubmitEnqueue(t)
        <3> DEFINE p == InsertPosition(queue, t)
                   q == InsertAt(queue, p, t)
        <3>1. /\ queue' = q /\ arrivedAt' = [arrivedAt EXCEPT ![t] = clock + 1]
              /\ clock' = clock + 1
              /\ submitPc' = [submitPc EXCEPT ![t] = "notify"]
              /\ UNCHANGED <<task, result>>
            BY <2>3 DEF SubmitEnqueue
        <3>2. p \in 1 .. Len(queue) + 1
            BY InsertPositionProperties
        <3> HIDE DEF p
        <3>3. /\ Len(q) = Len(queue) + 1
              /\ \A k \in 1 .. Len(queue) + 1 :
                    q[k] = IF k < p THEN queue[k] ELSE IF k = p THEN t ELSE queue[k - 1]
            BY <3>2, InsertAtProperties
        <3> HIDE DEF q
        <3>4. Len(queue) \in Nat /\ \A k \in 1 .. Len(queue) : queue[k] \in Tasks
            BY LenProperties, ElementOfSeq
        <3>5. arrivedAt[t] = 0 /\ result[t] = "none" /\ task # t
            BY <2>3, NoneAssumption DEF SubmitEnqueue, Placement
        <3>6. \A k \in 1 .. Len(q) : q[k] = t \/ \E i \in 1 .. Len(queue) : q[k] = queue[i]
            <4> TAKE k \in 1 .. Len(q)
            <4>1. CASE k < p
                <5>1. k \in 1 .. Len(queue) /\ q[k] = queue[k] BY <3>2, <3>3, <3>4, <4>1
                <5> QED BY <5>1
            <4>2. CASE k = p BY <3>3, <4>2
            <4>3. CASE k > p
                <5>1. k - 1 \in 1 .. Len(queue) /\ q[k] = queue[k - 1]
                    BY <3>2, <3>3, <3>4, <4>3
                <5> QED BY <5>1
            <4> QED BY <3>2, <3>3, <3>4, <4>1, <4>2, <4>3
        <3>7. ASSUME NEW i \in 1 .. Len(queue) PROVE \E k \in 1 .. Len(q) : q[k] = queue[i]
            <4>1. CASE i < p
                <5>1. i \in 1 .. Len(q) /\ q[i] = queue[i] BY <3>2, <3>3, <3>4, <4>1
                <5> QED BY <5>1
            <4>2. CASE i >= p
                <5>1. i + 1 \in 1 .. Len(queue) + 1 /\ ~ (i + 1 < p) /\ i + 1 # p
                    BY <3>2, <3>4, <4>2
                <5>2. i + 1 \in 1 .. Len(q) /\ q[i + 1] = queue[(i + 1) - 1]
                    BY <3>3, <5>1
                <5>3. (i + 1) - 1 = i BY <3>4
                <5> QED BY <5>2, <5>3
            <4> QED BY <3>2, <3>4, <4>1, <4>2
        <3>8. \E k \in 1 .. Len(q) : q[k] = t
            BY <3>2, <3>3
        <3>9. \A k \in 1 .. Len(q) :
                 q[k] # task /\ result[q[k]] = "none" /\ arrivedAt'[q[k]] # 0
            BY <3>1, <3>4, <3>5, <3>6 DEF Placement
        <3>10. ASSUME NEW u \in Tasks, arrivedAt'[u] # 0
               PROVE  (\E k \in 1 .. Len(q) : q[k] = u) \/ task = u \/ result[u] # "none"
            <4>1. CASE u = t BY <3>8, <4>1
            <4>2. CASE u # t
                <5>1. arrivedAt[u] # 0 BY <3>1, <3>10, <4>2
                <5>2. (\E i \in 1 .. Len(queue) : queue[i] = u) \/ task = u \/ result[u] # "none"
                    BY <5>1 DEF Placement
                <5> QED BY <3>7, <5>2
            <4> QED BY <4>1, <4>2
        <3>11. /\ \A u \in Tasks : submitPc'[u] \in {"notify", "returned"} <=> arrivedAt'[u] # 0
               /\ \A u \in Tasks : arrivedAt'[u] <= clock'
               /\ \A u \in Tasks : arrivedAt'[u] = 0 => result[u] = "none"
               /\ task # None => result[task] = "none" /\ arrivedAt'[task] # 0
            BY <3>1, <3>5 DEF Placement
        <3> QED BY <3>1, <3>9, <3>10, <3>11 DEF Placement
    <2>4. CASE SubmitNotify(t) BY <2>4 DEF SubmitNotify, Placement
    <2>5. CASE AbandonSubmit(t) BY <2>5 DEF AbandonSubmit, Placement
    <2>6. CASE DropReceiver(t) BY <2>6 DEF DropReceiver, Placement
    <2> QED BY <1>14, <2>1, <2>2, <2>3, <2>4, <2>5, <2>6 DEF SubmitStep
<1>15. CASE UNCHANGED vars BY <1>15 DEF vars, Placement
<1> QED
    BY <1>1, <1>2, <1>3, <1>4, <1>5, <1>6, <1>7, <1>8,
       <1>9, <1>10, <1>11, <1>12, <1>13, <1>14, <1>15 DEF Next, WorkerStep

\* The inductive invariant holds initially.
LEMMA InitIInv == Init => IInv
<1> SUFFICES ASSUME Init PROVE IInv
    OBVIOUS
<1>1. TypeInv BY InitType
<1>2. Len(queue) = 0 BY DEF Init
<1>3. LockInv /\ SlotInv /\ SignalsOutranked BY DEF Init, LockInv, SlotInv, SignalsOutranked
<1>4. CauseInv BY DEF Init, CauseInv
<1>5. QueueOrder BY <1>2 DEF QueueOrder
<1>6. Placement BY <1>2 DEF Init, Placement
<1> QED BY <1>1, <1>3, <1>4, <1>5, <1>6 DEF IInv

\* Every step preserves the inductive invariant.
LEMMA NextIInv == IInv /\ [Next]_vars => IInv'
<1> QED BY NextType, NextLock, NextSlot, NextSignals, NextCause, NextOrder, NextPlacement
       DEF IInv

\* The inductive invariant holds throughout.
THEOREM Invariance == Spec => []IInv
<1> QED BY InitIInv, NextIInv, PTL DEF Spec

\* A submission signals only a task it outranks: between the comparison and the
\* signal the current task cannot change, although submit waits for a lock there.
THEOREM SignalsAreJustified == Spec => []SignalsOutranked
<1>1. IInv => SignalsOutranked BY DEF IInv
<1> QED BY <1>1, Invariance, PTL

\* Outside the windows in which run holds current_cancel, both current_* values are
\* empty or both describe the task that runs.
THEOREM CurrentAgrees == Spec => []SlotConsistent
<1>1. IInv => SlotConsistent
    BY DEF IInv, TypeInv, TypeOK, HasTask, SlotInv, SlotConsistent, CancelLocked, WorkerPcs
<1> QED BY <1>1, Invariance, PTL

\* In a sorted queue no submission stands twice.
LEMMA PlacementCounts == IInv => ExactlyOnePlace
<1> SUFFICES ASSUME IInv PROVE ExactlyOnePlace
    OBVIOUS
<1> USE DEF IInv, TypeInv, TypeOK
<1>1. Len(queue) \in Nat /\ DOMAIN queue = 1 .. Len(queue)
      /\ \A i \in 1 .. Len(queue) : queue[i] \in Tasks
    BY LenProperties, ElementOfSeq
<1>2. ASSUME NEW i \in DOMAIN queue, NEW j \in DOMAIN queue, queue[i] = queue[j]
      PROVE  i = j
    <2>1. ASSUME NEW k \in DOMAIN queue, NEW l \in DOMAIN queue, k < l
          PROVE  queue[k] # queue[l]
        <3>1. Precedes(arrivedAt, queue[k], queue[l]) BY <1>1, <2>1 DEF QueueOrder
        <3> QED BY <1>1, <3>1, PriorityAssumption DEF Precedes
    <2>2. ~ (i < j) /\ ~ (j < i) BY <1>2, <2>1
    <2> QED BY <1>1, <2>2
<1>3. ASSUME NEW t \in Tasks
      PROVE  LET queued == {i \in DOMAIN queue : queue[i] = t}
             IN  IF arrivedAt[t] = 0
                 THEN queued = {} /\ task # t /\ result[t] = "none"
                 ELSE \/ (\E i \in DOMAIN queue : queued = {i}) /\ task # t /\ result[t] = "none"
                      \/ queued = {} /\ task = t /\ result[t] = "none"
                      \/ queued = {} /\ task # t /\ result[t] # "none"
    <2> DEFINE queued == {i \in DOMAIN queue : queue[i] = t}
    <2>1. CASE arrivedAt[t] = 0
        <3>1. queued = {} BY <1>1, <2>1 DEF Placement
        <3>2. task # t /\ result[t] = "none" BY <2>1, NoneAssumption DEF Placement
        <3> QED BY <2>1, <3>1, <3>2
    <2>2. CASE arrivedAt[t] # 0 /\ \E i \in DOMAIN queue : queue[i] = t
        <3>1. PICK i \in DOMAIN queue : queue[i] = t BY <2>2
        <3>2. queued = {i} BY <1>2, <3>1
        <3>3. task # t /\ result[t] = "none" BY <1>1, <3>1 DEF Placement
        <3> QED BY <2>2, <3>2, <3>3
    <2>3. CASE arrivedAt[t] # 0 /\ ~ \E i \in DOMAIN queue : queue[i] = t
        <3>1. queued = {} BY <2>3
        <3>2. task = t \/ result[t] # "none" BY <1>1, <2>3 DEF Placement
        <3>3. task = t => result[t] = "none" BY NoneAssumption DEF Placement
        <3> QED BY <2>3, <3>1, <3>2, <3>3
    <2> QED BY <2>1, <2>2, <2>3
<1> QED BY <1>3 DEF ExactlyOnePlace

\* No enqueued submission is lost, duplicated or settled twice.
THEOREM NothingLost == Spec => []ExactlyOnePlace
<1> QED BY PlacementCounts, Invariance, PTL

\* The permit and the notifications outstanding cover the queue at every step.
LEMMA NextWakeup == TypeInv /\ NoLostWakeup /\ [Next]_vars => NoLostWakeup'
<1> SUFFICES ASSUME TypeInv /\ NoLostWakeup, [Next]_vars PROVE NoLostWakeup'
    OBVIOUS
<1> USE DEF TypeInv, TypeOK, HasTask, SubmitPcs, WorkerPcs, NoLostWakeup, submitVars, currentVars, workerVars, arrivalVars
<1>1. CASE WorkerCheck BY <1>1 DEF WorkerCheck
<1>2. CASE WorkerPark BY <1>2 DEF WorkerPark
<1>3. CASE WorkerPop BY <1>3 DEF WorkerPop
<1>4. CASE WorkerScreen BY <1>4 DEF WorkerScreen
<1>5. CASE WorkerSetCancel BY <1>5 DEF WorkerSetCancel
<1>6. CASE WorkerSetPriority BY <1>6 DEF WorkerSetPriority
<1>7. CASE WorkerSubscribe BY <1>7 DEF WorkerSubscribe
<1>8. CASE RunHead BY <1>8 DEF RunHead
<1>9. CASE RunStep BY <1>9 DEF RunStep
<1>10. CASE WorkerClearCancel BY <1>10 DEF WorkerClearCancel
<1>11. CASE WorkerClearPriority BY <1>11 DEF WorkerClearPriority
<1>12. CASE WorkerDeliver BY <1>12 DEF WorkerDeliver
<1>13. CASE CancelCurrent BY <1>13 DEF CancelCurrent, Send
<1>14. ASSUME NEW t \in Tasks, SubmitStep(t) \/ AbandonSubmit(t) \/ DropReceiver(t)
      PROVE  NoLostWakeup'
    <2>1. CASE SubmitCompare(t) BY <2>1 DEF SubmitCompare
    <2>2. CASE SubmitSignal(t) BY <2>2 DEF SubmitSignal, Send
    <2>3. CASE SubmitEnqueue(t) BY <2>3 DEF SubmitEnqueue
    <2>4. CASE SubmitNotify(t) BY <2>4 DEF SubmitNotify
    <2>5. CASE AbandonSubmit(t) BY <2>5 DEF AbandonSubmit
    <2>6. CASE DropReceiver(t) BY <2>6 DEF DropReceiver
    <2> QED BY <1>14, <2>1, <2>2, <2>3, <2>4, <2>5, <2>6 DEF SubmitStep
<1>15. CASE UNCHANGED vars BY <1>15 DEF vars
<1> QED
    BY <1>1, <1>2, <1>3, <1>4, <1>5, <1>6, <1>7, <1>8,
       <1>9, <1>10, <1>11, <1>12, <1>13, <1>14, <1>15 DEF Next, WorkerStep


\* The worker never sleeps through a submission.
THEOREM WorkerWakesUp == Spec => []NoLostWakeup
<1>1. Init => NoLostWakeup BY DEF Init, NoLostWakeup
<1>2. Init => TypeInv /\ NoLostWakeup BY <1>1, InitType
<1>3. TypeInv /\ NoLostWakeup /\ [Next]_vars => (TypeInv /\ NoLostWakeup)'
    BY NextType, NextWakeup
<1> QED BY <1>2, <1>3, PTL DEF Spec

-----------------------------------------------------------------------------
(* SlotWorker implements SlotService.                                      *)

\* A step that leaves the service's variables alone is a stutter of the service.
LEMMA ServiceStutter ==
    UNCHANGED <<queue, task, result, clock, arrivedAt, signals>> => UNCHANGED Service!vars
<1> QED BY DEF Service!vars, ToSet

\* A signal through current_cancel reaches the task in service, if it reaches any.
LEMMA SignalStep ==
    ASSUME IInv, NEW who \in Tasks \cup {Operator}, Send(who), ~CancelLocked,
           UNCHANGED <<queue, task, result, clock, arrivedAt>>,
           who = Operator \/ (currentCancel # None => Priority[who] < Priority[currentCancel])
    PROVE  [Service!Next]_Service!vars
<1>1. CASE currentCancel = None
    <2>1. signals' = signals BY <1>1 DEF Send
    <2> QED BY <2>1, ServiceStutter
<1>2. CASE currentCancel # None
    <2>1. currentCancel = task /\ task # None
        BY <1>2 DEF IInv, TypeInv, TypeOK, HasTask, SlotInv, CancelLocked, WorkerPcs
    <2>2. signals' = signals \cup {<<who, task>>}
        BY <2>1 DEF Send
    <2>3. UNCHANGED ToSet(queue) BY DEF ToSet
    <2>4. Service!Signal(who)
        BY <1>2, <2>1, <2>2, <2>3 DEF Service!Signal, Operator, Service!Operator
    <2>5. who \in Tasks \cup {Service!Operator} BY DEF Operator, Service!Operator
    <2> QED BY <2>4, <2>5 DEF Service!Next
<1> QED BY <1>1, <1>2

\* Settling a task is one step of the service.
LEMMA SettleStep ==
    ASSUME IInv, task # None, NEW r \in {"finished", "cancelled", "skipped"},
           result' = [result EXCEPT ![task] = r], task' = None,
           r = "cancelled" => \E who \in Tasks \cup {Operator} : <<who, task>> \in signals,
           UNCHANGED <<queue, clock, arrivedAt, signals>>
    PROVE  Service!Next
<1>1. result[task] = "none" BY DEF IInv, Placement
<1>2. UNCHANGED ToSet(queue) BY DEF ToSet
<1>3. Service!Settle(r) BY <1>1, <1>2 DEF Service!Settle, Operator, Service!Operator
<1> QED BY <1>3 DEF Service!Next

\* Inserting an element adds it to the set of elements.
LEMMA ToSetInsert ==
    ASSUME NEW s \in Seq(Tasks), NEW e \in Tasks, NEW p \in 1 .. Len(s) + 1
    PROVE  ToSet(InsertAt(s, p, e)) = ToSet(s) \cup {e}
<1>1. Len(s) \in Nat /\ DOMAIN s = 1 .. Len(s)
    BY LenProperties
<1> DEFINE q == InsertAt(s, p, e)
<1>2. /\ q \in Seq(Tasks) /\ Len(q) = Len(s) + 1
      /\ \A k \in 1 .. Len(s) + 1 :
            q[k] = IF k < p THEN s[k] ELSE IF k = p THEN e ELSE s[k - 1]
    BY InsertAtProperties
<1> HIDE DEF q
<1>3. DOMAIN q = 1 .. Len(s) + 1
    BY <1>2, LenProperties
<1>4. ASSUME NEW k \in 1 .. Len(s) + 1 PROVE q[k] \in ToSet(s) \cup {e}
    <2>1. CASE k < p
        <3>1. k \in 1 .. Len(s) /\ q[k] = s[k] BY <1>1, <1>2, <2>1
        <3> QED BY <1>1, <3>1 DEF ToSet
    <2>2. CASE k = p BY <1>2, <2>2
    <2>3. CASE k > p
        <3>1. k - 1 \in 1 .. Len(s) /\ q[k] = s[k - 1] BY <1>1, <1>2, <2>3
        <3> QED BY <1>1, <3>1 DEF ToSet
    <2> QED BY <1>1, <2>1, <2>2, <2>3
<1>5. e \in ToSet(q)
    BY <1>1, <1>2, <1>3 DEF ToSet
<1>6. ASSUME NEW k \in 1 .. Len(s) PROVE s[k] \in ToSet(q)
    <2>1. CASE k < p
        <3>1. k \in 1 .. Len(s) + 1 /\ q[k] = s[k] BY <1>1, <1>2, <2>1
        <3> QED BY <1>3, <3>1 DEF ToSet
    <2>2. CASE k >= p
        <3>1. k + 1 \in 1 .. Len(s) + 1 /\ ~ (k + 1 < p) /\ k + 1 # p /\ (k + 1) - 1 = k
            BY <1>1, <2>2
        <3>2. q[k + 1] = s[k] BY <1>2, <3>1
        <3> QED BY <1>3, <3>1, <3>2 DEF ToSet
    <2> QED BY <1>1, <2>1, <2>2
<1>7. \A x \in ToSet(q) : x \in ToSet(s) \cup {e}
    BY <1>3, <1>4 DEF ToSet
<1>8. \A x \in ToSet(s) \cup {e} : x \in ToSet(q)
    BY <1>1, <1>5, <1>6 DEF ToSet
<1>9. ToSet(q) = ToSet(s) \cup {e}
    BY <1>7, <1>8
<1> QED BY <1>9 DEF q

\* Every step of the slot worker is a step of the service or a stutter.
LEMMA NextService == IInv /\ [Next]_vars => [Service!Next]_Service!vars
<1> SUFFICES ASSUME IInv, [Next]_vars PROVE [Service!Next]_Service!vars
    OBVIOUS
<1> USE DEF IInv, TypeInv, TypeOK, HasTask, SubmitPcs, WorkerPcs, submitVars, currentVars, workerVars, arrivalVars
<1>1. CASE WorkerCheck BY <1>1, ServiceStutter DEF WorkerCheck
<1>2. CASE WorkerPark BY <1>2, ServiceStutter DEF WorkerPark
<1>3. CASE WorkerPop
    <2>1. CASE queue = <<>> BY <1>3, <2>1, ServiceStutter DEF WorkerPop
    <2>2. CASE queue # <<>>
        <3> DEFINE t == queue[1]
        <3>1. /\ Len(queue) \in Nat \ {0} /\ DOMAIN queue = 1 .. Len(queue)
              /\ Head(queue) = t /\ t \in Tasks
              /\ Len(Tail(queue)) = Len(queue) - 1 /\ Tail(queue) \in Seq(Tasks)
              /\ \A i \in 1 .. Len(queue) - 1 : Tail(queue)[i] = queue[i + 1]
            BY <2>2, PopProperties, LenProperties
        <3>2. /\ queue' = Tail(queue) /\ task' = t /\ task = None
              /\ UNCHANGED <<result, clock, arrivedAt, signals>>
            BY <1>3, <2>2, <3>1 DEF WorkerPop, SlotInv
        <3>3. \A i \in 2 .. Len(queue) : Precedes(arrivedAt, t, queue[i]) /\ queue[i] # t
            <4> TAKE i \in 2 .. Len(queue)
            <4>1. 1 \in 1 .. Len(queue) /\ i \in 1 .. Len(queue) /\ 1 < i BY <3>1
            <4>2. Precedes(arrivedAt, t, queue[i]) BY <4>1 DEF QueueOrder
            <4> QED BY <3>1, <4>2, PriorityAssumption DEF Precedes
        <3>4. ToSet(queue) = {t} \cup {queue[i] : i \in 2 .. Len(queue)}
            <4>1. 1 .. Len(queue) = {1} \cup 2 .. Len(queue) BY <3>1
            <4> QED BY <3>1, <4>1 DEF ToSet
        <3>5. ToSet(Tail(queue)) = {queue[i] : i \in 2 .. Len(queue)}
            <4>1. DOMAIN Tail(queue) = 1 .. Len(queue) - 1 BY <3>1, LenProperties
            <4>2. ASSUME NEW x \in ToSet(Tail(queue)) PROVE x \in {queue[i] : i \in 2 .. Len(queue)}
                <5>1. PICK i \in 1 .. Len(queue) - 1 : x = Tail(queue)[i] BY <4>1, <4>2 DEF ToSet
                <5>2. i + 1 \in 2 .. Len(queue) /\ x = queue[i + 1] BY <3>1, <5>1
                <5> QED BY <5>2
            <4>3. ASSUME NEW i \in 2 .. Len(queue) PROVE queue[i] \in ToSet(Tail(queue))
                <5>1. i - 1 \in 1 .. Len(queue) - 1 /\ (i - 1) + 1 = i BY <3>1
                <5>2. Tail(queue)[i - 1] = queue[i] BY <3>1, <5>1
                <5> QED BY <4>1, <5>1, <5>2 DEF ToSet
            <4> QED BY <4>2, <4>3
        <3>6. /\ t \in ToSet(queue)
              /\ ToSet(queue') = ToSet(queue) \ {t}
              /\ \A u \in ToSet(queue) \ {t} : Precedes(arrivedAt, t, u)
            <4> HIDE DEF t
            <4> QED BY <3>2, <3>3, <3>4, <3>5
        <3> HIDE DEF t
        <3>7. Service!Begin(t)
            BY <3>2, <3>6 DEF Service!Begin, Service!Precedes, Precedes
        <3> QED BY <3>1, <3>7 DEF Service!Next
    <2> QED BY <2>1, <2>2
<1>4. CASE WorkerScreen
    <2>1. CASE task \in dropped
        <3>1. task # None BY <1>4 DEF WorkerScreen
        <3>2. Service!Next BY <1>4, <2>1, <3>1, SettleStep DEF WorkerScreen
        <3> QED BY <3>2
    <2>2. CASE task \notin dropped BY <1>4, <2>2, ServiceStutter DEF WorkerScreen
    <2> QED BY <2>1, <2>2
<1>5. CASE WorkerSetCancel BY <1>5, ServiceStutter DEF WorkerSetCancel
<1>6. CASE WorkerSetPriority BY <1>6, ServiceStutter DEF WorkerSetPriority
<1>7. CASE WorkerSubscribe BY <1>7, ServiceStutter DEF WorkerSubscribe
<1>8. CASE RunHead BY <1>8, ServiceStutter DEF RunHead
<1>9. CASE RunStep BY <1>9, ServiceStutter DEF RunStep
<1>10. CASE WorkerClearCancel BY <1>10, ServiceStutter DEF WorkerClearCancel
<1>11. CASE WorkerClearPriority BY <1>11, ServiceStutter DEF WorkerClearPriority
<1>12. CASE WorkerDeliver
    <2>1. task # None BY <1>12 DEF WorkerDeliver
    <2>2. outcome \in {"finished", "cancelled"} BY <1>12 DEF WorkerDeliver, CauseInv
    <2>3. outcome = "cancelled" => \E who \in Tasks \cup {Operator} : <<who, task>> \in signals
        BY DEF CauseInv
    <2>4. Service!Next BY <1>12, <2>1, <2>2, <2>3, SettleStep DEF WorkerDeliver
    <2> QED BY <2>4
<1>13. CASE CancelCurrent
    <2> QED BY <1>13, SignalStep DEF CancelCurrent
<1>14. ASSUME NEW t \in Tasks, SubmitStep(t) \/ AbandonSubmit(t) \/ DropReceiver(t)
      PROVE  [Service!Next]_Service!vars
    <2>1. CASE SubmitCompare(t) BY <2>1, ServiceStutter DEF SubmitCompare
    <2>2. CASE SubmitSignal(t)
        <3>1. currentCancel # None => Priority[t] < Priority[currentCancel]
            BY <2>2 DEF SubmitSignal, LockInv, SlotInv, CancelLocked
        <3> QED BY <2>2, <3>1, SignalStep DEF SubmitSignal
    <2>3. CASE SubmitEnqueue(t)
        <3> DEFINE p == InsertPosition(queue, t)
        <3>1. p \in 1 .. Len(queue) + 1
            BY InsertPositionProperties
        <3> HIDE DEF p
        <3>2. /\ Len(InsertAt(queue, p, t)) = Len(queue) + 1
              /\ InsertAt(queue, p, t) \in Seq(Tasks)
              /\ \A k \in 1 .. Len(queue) + 1 :
                    InsertAt(queue, p, t)[k] = IF k < p THEN queue[k]
                                               ELSE IF k = p THEN t ELSE queue[k - 1]
            BY <3>1, InsertAtProperties
        <3>3. ToSet(InsertAt(queue, p, t)) = ToSet(queue) \cup {t}
            BY <3>1, <3>2, ToSetInsert
        <3>4. /\ queue' = InsertAt(queue, p, t)
              /\ clock' = clock + 1
              /\ arrivedAt' = [arrivedAt EXCEPT ![t] = clock + 1]
              /\ UNCHANGED <<task, result, signals>>
            BY <2>3 DEF SubmitEnqueue, p
        <3>5. arrivedAt[t] = 0 BY <2>3 DEF SubmitEnqueue, Placement
        <3>6. Service!Arrive(t) BY <3>3, <3>4, <3>5 DEF Service!Arrive
        <3> QED BY <3>6 DEF Service!Next
    <2>4. CASE SubmitNotify(t) BY <2>4, ServiceStutter DEF SubmitNotify
    <2>5. CASE AbandonSubmit(t) BY <2>5, ServiceStutter DEF AbandonSubmit
    <2>6. CASE DropReceiver(t) BY <2>6, ServiceStutter DEF DropReceiver
    <2> QED BY <1>14, <2>1, <2>2, <2>3, <2>4, <2>5, <2>6 DEF SubmitStep
<1>15. CASE UNCHANGED vars BY <1>15, ServiceStutter DEF vars
<1> QED
    BY <1>1, <1>2, <1>3, <1>4, <1>5, <1>6, <1>7, <1>8,
       <1>9, <1>10, <1>11, <1>12, <1>13, <1>14, <1>15 DEF Next, WorkerStep


\* The slot worker implements its service: one task at a time, best priority first
\* and oldest among equals, cancelled only for cause, settled once.
THEOREM Refinement == Spec => ImplementsService
<1>1. Init => Service!Init
    <2> SUFFICES ASSUME Init PROVE Service!Init
        OBVIOUS
    <2>1. ToSet(queue) = {} BY DEF Init, ToSet
    <2> QED BY <2>1 DEF Init, Service!Init
<1> QED BY <1>1, Invariance, NextService, PTL DEF Spec, ImplementsService, Service!Spec

=============================================================================
