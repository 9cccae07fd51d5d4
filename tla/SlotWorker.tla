----------------------------- MODULE SlotWorker -----------------------------
(***************************************************************************)
(* SlotWorker (src/core/slot_worker.rs): workflows submitted by concurrent *)
(* callers are run one at a time on a single inference slot, in priority   *)
(* order (a lower integer is served first), and a caller of higher         *)
(* priority signals the running task to stop.                              *)
(*                                                                         *)
(* Every await of the code is a point where another future may run, so a   *)
(* step of this module is the code between two awaits.  The two mutexes    *)
(* that guard the current task are nested, in one order by submit and in   *)
(* the other by run; who holds them across an await follows from where     *)
(* that future stands, see PriorityLocked and CancelLocked.                *)
(***************************************************************************)
EXTENDS Integers, Sequences, SequencesExt

CONSTANTS
    Tasks,          \* the submissions made in a behaviour
    Priority,       \* the i32 each of them is submitted with
    MaxIterations,  \* WorkflowRunner::max_iterations
    None            \* Option::None

ASSUME PriorityAssumption == Priority \in [Tasks -> Int]
ASSUME IterationAssumption == MaxIterations \in Nat
ASSUME NoneAssumption == None \notin Tasks /\ None \notin Int

VARIABLES
    submitPc,        \* where each call of submit stands
    dropped,         \* the receivers their callers have dropped
    queue,           \* SlotWorker::queue
    permit,          \* Notify: a stored permit, or the wake-up of the parked worker
    currentPriority, \* SlotWorker::current_priority
    currentCancel,   \* SlotWorker::current_cancel, as the task whose sender it is
    cancelFlag,      \* the value each task's watch channel holds
    pc,              \* where run stands
    task,            \* the SlotTask run has taken off the queue
    iterations,      \* iterations WorkflowRunner::run has begun for it
    outcome,         \* what WorkflowRunner::run returned for it
    result,          \* what was sent on each task's oneshot channel
    clock,           \* history: how many tasks have been enqueued
    arrivedAt,       \* history: the clock when each task was enqueued, 0 before
    signals          \* history: <<who, whom>> for each cancellation sent

submitVars == <<submitPc, dropped>>
currentVars == <<currentPriority, currentCancel>>
arrivalVars == <<clock, arrivedAt>>
workerVars == <<pc, task, iterations, outcome>>
vars == <<submitVars, queue, permit, currentVars, cancelFlag, workerVars,
          result, arrivalVars, signals>>

SubmitPcs == {"idle", "signal", "enqueue", "notify", "returned", "abandoned"}
WorkerPcs == {"check", "park", "pop", "screen", "setCancel", "setPriority",
              "subscribe", "head", "step", "clearCancel", "clearPriority",
              "deliver"}
Results == {"none", "finished", "cancelled", "skipped"}

\* The callers of cancel_current, as the author of a signal.
Operator == "operator"

ASSUME OperatorAssumption == Operator \notin Tasks

-----------------------------------------------------------------------------
\* Mutant: submit drops its guard on current_priority before it locks current_cancel.
PriorityReleasedEarly == FALSE

\* submit holds current_priority while it waits for current_cancel.
PriorityLocked == \E t \in Tasks : submitPc[t] = "signal"

\* run holds current_cancel while it waits for current_priority.
CancelLocked == pc \in {"setPriority", "clearPriority"}

\* A watch channel stores a value only while a receiver is alive: the one submit
\* creates lives until submit returns, the one run subscribes until the run ends.
ReceiverAlive(t) == \/ submitPc[t] \in {"signal", "enqueue", "notify"}
                    \/ task = t /\ pc \in {"head", "step"}

\* Sender::send(true) through current_cancel: nothing if it is None, and no
\* effect on the channel if the channel has no receiver.
Send(who) ==
    /\ cancelFlag' = [t \in Tasks |-> cancelFlag[t]
                         \/ (t = currentCancel /\ ReceiverAlive(t))]
    /\ signals' = signals \cup {<<who, t>> : t \in {currentCancel} \ {None}}

\* Mutant: a task is put before the waiting tasks of its own priority.
InsertBeforeEquals(q, t) ==
    LET later == {i \in DOMAIN q : Priority[t] <= Priority[q[i]]}
    IN  IF later = {} THEN Len(q) + 1
                      ELSE CHOOSE i \in later : \A j \in later : i <= j

\* Before the first task that task t precedes, or at the end.
InsertPosition(q, t) ==
    LET later == {i \in DOMAIN q : Priority[t] < Priority[q[i]]}
    IN  IF later = {} THEN Len(q) + 1
                      ELSE CHOOSE i \in later : \A j \in later : i <= j

Init ==
    /\ submitPc = [t \in Tasks |-> "idle"]
    /\ dropped = {}
    /\ queue = <<>>
    /\ permit = FALSE
    /\ currentPriority = None
    /\ currentCancel = None
    /\ cancelFlag = [t \in Tasks |-> FALSE]
    /\ pc = "check"
    /\ task = None
    /\ iterations = 0
    /\ outcome = "none"
    /\ result = [t \in Tasks |-> "none"]
    /\ clock = 0
    /\ arrivedAt = [t \in Tasks |-> 0]
    /\ signals = {}

-----------------------------------------------------------------------------
(* The callers: submit, the receiver it returns, cancel_current.           *)

Outranks(t) == currentPriority # None /\ Priority[t] < currentPriority

\* Lock current_priority and compare; keep the lock only to signal.
SubmitCompare(t) ==
    /\ submitPc[t] = "idle"
    /\ ~PriorityLocked
    /\ submitPc' = [submitPc EXCEPT ![t] = IF Outranks(t) THEN "signal" ELSE "enqueue"]
    /\ UNCHANGED <<dropped, queue, permit, currentVars, cancelFlag, workerVars,
                   result, arrivalVars, signals>>

\* Lock current_cancel as well, send, release both locks.
SubmitSignal(t) ==
    /\ submitPc[t] = "signal"
    /\ ~CancelLocked
    /\ Send(t)
    /\ submitPc' = [submitPc EXCEPT ![t] = "enqueue"]
    /\ UNCHANGED <<dropped, queue, permit, currentVars, workerVars, result, arrivalVars>>

SubmitEnqueue(t) ==
    /\ submitPc[t] = "enqueue"
    /\ queue' = InsertAt(queue, InsertPosition(queue, t), t)
    /\ clock' = clock + 1
    /\ arrivedAt' = [arrivedAt EXCEPT ![t] = clock + 1]
    /\ submitPc' = [submitPc EXCEPT ![t] = "notify"]
    /\ UNCHANGED <<dropped, permit, currentVars, cancelFlag, workerVars, result, signals>>

\* Mutant: only the task that finds itself alone in the queue wakes the worker.
SubmitNotifyFirst(t) ==
    /\ submitPc[t] = "notify"
    /\ permit' = (permit \/ queue = <<t>>)
    /\ submitPc' = [submitPc EXCEPT ![t] = "returned"]
    /\ UNCHANGED <<dropped, queue, currentVars, cancelFlag, workerVars, result,
                   arrivalVars, signals>>

SubmitNotify(t) ==
    /\ submitPc[t] = "notify"
    /\ permit' = TRUE
    /\ submitPc' = [submitPc EXCEPT ![t] = "returned"]
    /\ UNCHANGED <<dropped, queue, currentVars, cancelFlag, workerVars, result,
                   arrivalVars, signals>>

\* A caller may drop the future of submit at an await, which releases its lock.
AbandonSubmit(t) ==
    /\ submitPc[t] \in {"signal", "enqueue"}
    /\ submitPc' = [submitPc EXCEPT ![t] = "abandoned"]
    /\ UNCHANGED <<dropped, queue, permit, currentVars, cancelFlag, workerVars,
                   result, arrivalVars, signals>>

\* A caller may drop the receiver submit returned.
DropReceiver(t) ==
    /\ submitPc[t] = "returned"
    /\ t \notin dropped
    /\ result[t] = "none"
    /\ dropped' = dropped \cup {t}
    /\ UNCHANGED <<submitPc, queue, permit, currentVars, cancelFlag, workerVars,
                   result, arrivalVars, signals>>

CancelCurrent ==
    /\ ~CancelLocked
    /\ Send(Operator)
    /\ UNCHANGED <<submitVars, queue, permit, currentVars, workerVars, result, arrivalVars>>

-----------------------------------------------------------------------------
(* The worker: run, and the loop of WorkflowRunner::run as far as it looks *)
(* at the cancellation it was given.                                       *)

WorkerCheck ==
    /\ pc = "check"
    /\ pc' = IF queue = <<>> THEN "park" ELSE "pop"
    /\ UNCHANGED <<submitVars, queue, permit, currentVars, cancelFlag, task, iterations,
                   outcome, result, arrivalVars, signals>>

\* notified().await returns once there is a permit, which it consumes.
WorkerPark ==
    /\ pc = "park"
    /\ permit
    /\ permit' = FALSE
    /\ pc' = "check"
    /\ UNCHANGED <<submitVars, queue, currentVars, cancelFlag, task, iterations, outcome,
                   result, arrivalVars, signals>>

\* Mutant: the task is read but left in the queue.
WorkerPeek ==
    /\ pc = "pop"
    /\ IF queue = <<>>
       THEN pc' = "check" /\ UNCHANGED task
       ELSE pc' = "screen" /\ task' = Head(queue)
    /\ UNCHANGED <<submitVars, queue, permit, currentVars, cancelFlag, iterations, outcome,
                   result, arrivalVars, signals>>

WorkerPop ==
    /\ pc = "pop"
    /\ IF queue = <<>>
       THEN pc' = "check" /\ UNCHANGED <<queue, task>>
       ELSE pc' = "screen" /\ task' = Head(queue) /\ queue' = Tail(queue)
    /\ UNCHANGED <<submitVars, permit, currentVars, cancelFlag, iterations, outcome,
                   result, arrivalVars, signals>>

\* A task whose receiver is gone is thrown away.
WorkerScreen ==
    /\ pc = "screen"
    /\ IF task \in dropped
       THEN /\ result' = [result EXCEPT ![task] = "skipped"]
            /\ task' = None
            /\ pc' = "check"
       ELSE pc' = "setCancel" /\ UNCHANGED <<result, task>>
    /\ UNCHANGED <<submitVars, queue, permit, currentVars, cancelFlag, iterations,
                   outcome, arrivalVars, signals>>

\* Lock current_cancel and keep it ...
WorkerSetCancel ==
    /\ pc = "setCancel"
    /\ currentCancel' = task
    /\ pc' = "setPriority"
    /\ UNCHANGED <<submitVars, queue, permit, currentPriority, cancelFlag, task,
                   iterations, outcome, result, arrivalVars, signals>>

\* ... while waiting for current_priority; then release both.
WorkerSetPriority ==
    /\ pc = "setPriority"
    /\ ~PriorityLocked
    /\ currentPriority' = Priority[task]
    /\ pc' = "subscribe"
    /\ UNCHANGED <<submitVars, queue, permit, currentCancel, cancelFlag, task,
                   iterations, outcome, result, arrivalVars, signals>>

WorkerSubscribe ==
    /\ pc = "subscribe"
    /\ iterations' = 0
    /\ pc' = "head"
    /\ UNCHANGED <<submitVars, queue, permit, currentVars, cancelFlag, task, outcome,
                   result, arrivalVars, signals>>

\* Mutant: one iteration too many.
RunHeadOffByOne ==
    /\ pc = "head"
    /\ \/ /\ iterations > MaxIterations
          /\ outcome' = "finished" /\ pc' = "clearCancel" /\ UNCHANGED iterations
       \/ /\ iterations <= MaxIterations
          /\ iterations' = iterations + 1 /\ pc' = "step" /\ UNCHANGED outcome
    /\ UNCHANGED <<submitVars, queue, permit, currentVars, cancelFlag, task, result,
                   arrivalVars, signals>>

\* The head of the runner's loop: out of iterations, cancelled, or one more.
RunHead ==
    /\ pc = "head"
    /\ \/ /\ iterations >= MaxIterations
          /\ outcome' = "finished" /\ pc' = "clearCancel" /\ UNCHANGED iterations
       \/ /\ iterations < MaxIterations /\ cancelFlag[task]
          /\ outcome' = "cancelled" /\ pc' = "clearCancel" /\ UNCHANGED iterations
       \/ /\ iterations < MaxIterations /\ ~cancelFlag[task]
          /\ iterations' = iterations + 1 /\ pc' = "step" /\ UNCHANGED outcome
    /\ UNCHANGED <<submitVars, queue, permit, currentVars, cancelFlag, task, result,
                   arrivalVars, signals>>

\* The rest of an iteration: it ends the run, with a value or an error, or not.
RunStep ==
    /\ pc = "step"
    /\ \/ outcome' = "finished" /\ pc' = "clearCancel"
       \/ pc' = "head" /\ UNCHANGED outcome
    /\ UNCHANGED <<submitVars, queue, permit, currentVars, cancelFlag, task, iterations,
                   result, arrivalVars, signals>>

WorkerClearCancel ==
    /\ pc = "clearCancel"
    /\ currentCancel' = None
    /\ pc' = "clearPriority"
    /\ UNCHANGED <<submitVars, queue, permit, currentPriority, cancelFlag, task,
                   iterations, outcome, result, arrivalVars, signals>>

\* Mutant: only current_cancel is cleared.
WorkerKeepPriority ==
    /\ pc = "clearPriority"
    /\ ~PriorityLocked
    /\ pc' = "deliver"
    /\ UNCHANGED <<submitVars, queue, permit, currentVars, cancelFlag, task,
                   iterations, outcome, result, arrivalVars, signals>>

WorkerClearPriority ==
    /\ pc = "clearPriority"
    /\ ~PriorityLocked
    /\ currentPriority' = None
    /\ pc' = "deliver"
    /\ UNCHANGED <<submitVars, queue, permit, currentCancel, cancelFlag, task,
                   iterations, outcome, result, arrivalVars, signals>>

WorkerDeliver ==
    /\ pc = "deliver"
    /\ result' = [result EXCEPT ![task] = outcome]
    /\ task' = None
    /\ outcome' = "none"
    /\ pc' = "check"
    /\ UNCHANGED <<submitVars, queue, permit, currentVars, cancelFlag, iterations,
                   arrivalVars, signals>>

-----------------------------------------------------------------------------
SubmitStep(t) ==
    SubmitCompare(t) \/ SubmitSignal(t) \/ SubmitEnqueue(t) \/ SubmitNotify(t)

WorkerStep ==
    \/ WorkerCheck \/ WorkerPark \/ WorkerPop \/ WorkerScreen
    \/ WorkerSetCancel \/ WorkerSetPriority \/ WorkerSubscribe
    \/ RunHead \/ RunStep
    \/ WorkerClearCancel \/ WorkerClearPriority \/ WorkerDeliver

Next ==
    \/ WorkerStep
    \/ CancelCurrent
    \/ \E t \in Tasks : SubmitStep(t) \/ AbandonSubmit(t) \/ DropReceiver(t)

Spec == Init /\ [][Next]_vars

\* The runtime polls the worker and every submit that has begun; a caller need
\* not call, drop or cancel anything.
FairSpec ==
    /\ Spec
    /\ WF_vars(WorkerStep)
    /\ \A t \in Tasks : WF_vars(SubmitSignal(t) \/ SubmitEnqueue(t) \/ SubmitNotify(t))

-----------------------------------------------------------------------------
\* The types; run never begins more iterations than it is allowed.
TypeOK ==
    /\ submitPc \in [Tasks -> SubmitPcs]
    /\ dropped \subseteq Tasks
    /\ queue \in Seq(Tasks)
    /\ permit \in BOOLEAN
    /\ currentPriority \in Int \cup {None}
    /\ currentCancel \in Tasks \cup {None}
    /\ cancelFlag \in [Tasks -> BOOLEAN]
    /\ pc \in WorkerPcs
    /\ task \in Tasks \cup {None}
    /\ iterations \in 0 .. MaxIterations
    /\ outcome \in {"none", "finished", "cancelled"}
    /\ result \in [Tasks -> Results]
    /\ clock \in Nat
    /\ arrivedAt \in [Tasks -> Nat]
    /\ signals \subseteq (Tasks \cup {Operator}) \X Tasks

\* The worker cannot sleep through a submission: if it waits for a permit that is
\* not there while the queue holds a task, a caller is about to give the permit.
\* (run checks the queue and waits in two steps, submit inserts and notifies in
\* two steps, and run consumes permits that older submissions left behind.)
NoLostWakeup ==
    pc = "park" /\ ~permit /\ queue # <<>> => \E t \in Tasks : submitPc[t] = "notify"

\* submit compares with one task and signals through current_cancel after another
\* wait: the task it signals is still the one it compared with.
SignalsOutranked ==
    \A s, t \in Tasks : <<s, t>> \in signals => Priority[s] < Priority[t]

\* A submission that was enqueued is in exactly one place: once in the queue, with
\* the worker, or settled; and one that was not is nowhere.
ExactlyOnePlace ==
    \A t \in Tasks :
        LET queued == {i \in DOMAIN queue : queue[i] = t}
        IN  IF arrivedAt[t] = 0
            THEN queued = {} /\ task # t /\ result[t] = "none"
            ELSE \/ (\E i \in DOMAIN queue : queued = {i}) /\ task # t /\ result[t] = "none"
                 \/ queued = {} /\ task = t /\ result[t] = "none"
                 \/ queued = {} /\ task # t /\ result[t] # "none"

\* Whoever holds both mutexes finds them in agreement about the task that runs.
SlotConsistent ==
    ~CancelLocked =>
        \/ currentCancel = None /\ currentPriority = None
        \/ /\ currentCancel = task /\ task # None
           /\ currentPriority = Priority[task]

\* A task that was signalled begins no further iteration of the runner's loop.
SignalledTaskStops ==
    [][iterations' = iterations + 1 =>
         \A who \in Tasks \cup {Operator} : <<who, task>> \notin signals]_vars

\* "Returns a oneshot receiver that resolves": every receiver a caller keeps is
\* sent a result.
SubmissionResolves ==
    \A t \in Tasks :
        submitPc[t] = "returned" /\ t \notin dropped ~> result[t] # "none" \/ t \in dropped

\* So it is unless a submit stands for ever between its two locks: again and again
\* every receiver that is kept has its result, in every order of submissions,
\* cancellations and dropped receivers.  A task is submitted once, so that one
\* receiver that waited for ever would put an end to that.
ResolvesUnlessLocked ==
    []<>(\/ PriorityLocked
         \/ \A t \in Tasks : submitPc[t] = "returned" /\ t \notin dropped => result[t] # "none")

\* What SlotService promises, over the queue, the task in service and the results.
Service == INSTANCE SlotService
               WITH waiting <- ToSet(queue), serving <- task

ImplementsService == Service!Spec

=============================================================================
