----------------------- MODULE ServerLifecycleProofs -----------------------
(***************************************************************************)
(* Proofs about ServerLifecycle, for any number of processes, files and    *)
(* configurations.                                                         *)
(***************************************************************************)
EXTENDS ServerLifecycle, TLAPS

\* Where a call stands tells what it has given up and what it has got.
Progress ==
    /\ spawned # None <=> pc = "store"
    /\ pc \in {"restarted", "port", "spawn", "store", "failing", "stopping", "dropped"}
          => process = None
    /\ pc \in {"port", "spawn", "store", "watch", "probe", "publish", "failed", "failing"}
          => config = None
    /\ pc \in {"poll", "restart", "restarted", "port", "spawn", "store", "watch", "probe",
               "publish", "failed", "failing"} => ask \in Asks
    /\ pc \in {"poll", "restart", "restarted", "port", "spawn"} => Len(procs) < MaxSpawns
    /\ pc = "poll" => config = ask.config
    /\ pc = "store" => procs[spawned].config = ask.config
    /\ pc \in {"watch", "probe", "publish"} => procs[process].config = ask.config
    /\ pc \in {"idle", "poll", "restart", "stop"} /\ config # None
          => process # None /\ procs[process].config = config

IInv == TypeOK /\ NoOrphan /\ Progress

Process == [config : Configs, file : Files, life : {"loading", "serving", "dead"}]

-----------------------------------------------------------------------------
\* Killing a process changes nothing but its life.
LEMMA KillFacts ==
    ASSUME procs \in Seq(Process), NEW p \in Processes
    PROVE  /\ Kill(p) \in Seq(Process)
           /\ Len(Kill(p)) = Len(procs)
           /\ \A q \in Processes : /\ Kill(p)[q].config = procs[q].config
                                   /\ Kill(p)[q].file = procs[q].file
                                   /\ q # p => Kill(p)[q] = procs[q]
           /\ Kill(p)[p].life = "dead"
<1>1. procs[p] \in Process
  BY DEF Processes
<1>2. [procs[p] EXCEPT !.life = "dead"] \in Process
  BY <1>1 DEF Process
<1>3. Kill(p) \in Seq(Process) /\ Len(Kill(p)) = Len(procs)
  BY <1>2 DEF Kill, Processes
<1>4. \A q \in Processes : q # p => Kill(p)[q] = procs[q]
  BY DEF Kill, Processes
<1>5. /\ Kill(p)[p].config = procs[p].config
      /\ Kill(p)[p].file = procs[p].file
      /\ Kill(p)[p].life = "dead"
  BY <1>1 DEF Kill, Processes, Process
<1>. QED  BY <1>3, <1>4, <1>5

\* A process that loads serves, and is otherwise what it was.
LEMMA LoadFacts ==
    ASSUME procs \in Seq(Process), NEW p \in Processes, Loads(p)
    PROVE  /\ procs' \in Seq(Process)
           /\ Len(procs') = Len(procs)
           /\ \A q \in Processes : /\ procs'[q].config = procs[q].config
                                   /\ q # p => procs'[q] = procs[q]
           /\ Alive(p)
<1>1. procs[p] \in Process
  BY DEF Processes
<1>2. [procs[p] EXCEPT !.life = "serving"] \in Process
  BY <1>1 DEF Process
<1>3. procs' = [procs EXCEPT ![p] = [procs[p] EXCEPT !.life = "serving"]]
  BY DEF Loads
<1>4. procs' \in Seq(Process) /\ Len(procs') = Len(procs)
  BY <1>2, <1>3 DEF Processes
<1>5. \A q \in Processes : q # p => procs'[q] = procs[q]
  BY <1>3 DEF Processes
<1>6. procs'[p].config = procs[p].config
  BY <1>1, <1>3 DEF Processes, Process
<1>7. \A q \in Processes : procs'[q].config = procs[q].config
  BY <1>5, <1>6
<1>8. Alive(p)
  BY DEF Loads, Alive
<1>. QED  BY <1>4, <1>5, <1>7, <1>8

-----------------------------------------------------------------------------
\* A manager that was just created has nothing and remembers nothing.
LEMMA InitIInv == Init => IInv
<1>. SUFFICES ASSUME Init PROVE IInv
  OBVIOUS
<1>1. /\ procs \in Seq([config : Configs, file : Files, life : {"loading", "serving", "dead"}])
      /\ Len(procs) = 0 /\ Processes = {}
  BY DEF Init, Processes
<1>2. TypeOK
  <2>1. Len(procs) <= MaxSpawns
    BY <1>1, LifecycleAssumption
  <2>2. /\ pc = "idle" /\ late = FALSE /\ foreign = FALSE
        /\ ask = None /\ spawned = None /\ process = None /\ config = None
    BY DEF Init
  <2>. QED  BY <1>1, <2>1, <2>2, Zenon DEF TypeOK, Places
<1>3. NoOrphan
  BY <1>1 DEF NoOrphan
<1>4. Progress
  BY DEF Init, Progress
<1>. QED  BY <1>2, <1>3, <1>4 DEF IInv

\* Types, the reach of the next stop, and the progress of a call survive each step.
LEMMA NextIInv == IInv /\ [Next]_vars => IInv'
<1>. SUFFICES ASSUME IInv, [Next]_vars PROVE IInv'
  OBVIOUS
<1>. USE LifecycleAssumption DEF GoTo, managerVars
<1>0. /\ procs \in Seq(Process) /\ Processes = 1 .. Len(procs)
      /\ None \notin Processes
  BY DEF IInv, TypeOK, Process, Processes
<1>1. ASSUME NEW p \in Processes, Loads(p) PROVE IInv'
  <2>1. TypeOK'
    BY <1>0, <1>1, LoadFacts DEF IInv, TypeOK, Loads, callVars, Processes, Process
  <2>2. NoOrphan'
    BY <1>0, <1>1, LoadFacts DEF IInv, NoOrphan, Loads, callVars, Processes, Alive
  <2>3. Progress'
    BY <1>0, <1>1, LoadFacts DEF IInv, TypeOK, Progress, Loads, callVars, Processes
  <2>. QED  BY <2>1, <2>2, <2>3 DEF IInv
<1>2. ASSUME NEW p \in Processes, Dies(p) PROVE IInv'
  <2>1. TypeOK'
    BY <1>0, <1>2, KillFacts DEF IInv, TypeOK, Dies, callVars, Processes, Process
  <2>2. NoOrphan'
    BY <1>0, <1>2, KillFacts DEF IInv, NoOrphan, Dies, callVars, Processes, Alive
  <2>3. Progress'
    BY <1>0, <1>2, KillFacts DEF IInv, TypeOK, Progress, Dies, callVars, Processes
  <2>. QED  BY <2>1, <2>2, <2>3 DEF IInv
<1>3. ASSUME UNCHANGED <<callVars, managerVars, procs>>, foreign' \in BOOLEAN PROVE IInv'
  BY <1>3 DEF IInv, TypeOK, NoOrphan, Progress, callVars, Processes, Alive
<1>4. CASE Deadline
  BY <1>4 DEF IInv, TypeOK, NoOrphan, Progress, Deadline, Processes, Alive
<1>5. ASSUME NEW a \in Asks, Start(a) PROVE IInv'
  BY <1>5 DEF IInv, TypeOK, NoOrphan, Progress, Start, Processes, Alive, Places, Asks
<1>6. CASE Poll \/ Watch \/ CheckPort
  BY <1>6 DEF IInv, TypeOK, NoOrphan, Progress, Poll, Watch, CheckPort, Processes, Alive,
              Places
<1>7. CASE Probe
  BY <1>7 DEF IInv, TypeOK, NoOrphan, Progress, Probe, Processes, Alive, Places
<1>8. ASSUME NEW place, NEW next, Terminate(place, next),
             <<place, next>> \in {<<"restart", "restarted">>, <<"failed", "failing">>,
                                  <<"stop", "stopping">>, <<"idle", "dropped">>}
      PROVE  IInv'
  <2>1. /\ procs' \in Seq(Process) /\ Len(procs') = Len(procs)
        /\ \A q \in Processes : q # process => procs'[q] = procs[q]
        /\ process # None => process \in Processes /\ procs'[process].life = "dead"
    BY <1>0, <1>8, KillFacts DEF Terminate, IInv, TypeOK
  <2>2. TypeOK'
    BY <1>0, <1>8, <2>1 DEF IInv, TypeOK, Terminate, Processes, Process, Places
  <2>3. NoOrphan'
    BY <1>0, <1>8, <2>1 DEF IInv, NoOrphan, Terminate, Processes, Alive
  <2>4. Progress'
    BY <1>0, <1>8, <2>1 DEF IInv, TypeOK, Progress, Terminate, Processes
  <2>. QED  BY <2>2, <2>3, <2>4 DEF IInv
<1>9. ASSUME NEW place, NEW next, Forget(place, next),
             <<place, next>> \in {<<"restarted", "port">>, <<"failing", "idle">>,
                                  <<"stopping", "idle">>}
      PROVE  IInv'
  BY <1>9 DEF IInv, TypeOK, NoOrphan, Progress, Forget, Processes, Alive, Places
<1>10. CASE Spawn
  <2>1. CASE UNCHANGED <<procs, spawned>> /\ pc' = "idle"
    BY <1>10, <2>1 DEF IInv, TypeOK, NoOrphan, Progress, Spawn, Processes, Alive, Places
  <2>2. CASE /\ procs' = Append(procs, [config |-> ask.config, file |-> ask.file,
                                        life |-> "loading"])
             /\ spawned' = Len(procs')
             /\ pc' = "store"
    <3>. DEFINE new == [config |-> ask.config, file |-> ask.file, life |-> "loading"]
    <3>1. ask \in Asks /\ process = None /\ config = None /\ pc = "spawn"
      BY <1>10 DEF IInv, Progress, Spawn
    <3>0. Len(procs) < MaxSpawns
      BY <1>10 DEF IInv, Progress, Spawn
    <3>2. new \in Process
      BY <3>1 DEF Asks, Process
    <3>3. /\ procs' \in Seq(Process) /\ Len(procs') = Len(procs) + 1
          /\ procs'[Len(procs')] = new
          /\ \A q \in Processes : procs'[q] = procs[q]
      BY <1>0, <2>2, <3>2
    <3>4. UNCHANGED <<ask, late, managerVars, foreign>>
      BY <1>10 DEF Spawn
    <3>5. TypeOK'
      BY <1>0, <2>2, <3>0, <3>1, <3>3, <3>4 DEF IInv, TypeOK, Processes, Process, Places
    <3>6. NoOrphan'
      BY <1>0, <2>2, <3>1, <3>3, <3>4 DEF IInv, Progress, NoOrphan, Processes, Alive
    <3>7. Progress'
      BY <1>0, <2>2, <3>1, <3>3, <3>4 DEF IInv, TypeOK, Progress, Processes
    <3>. QED  BY <3>5, <3>6, <3>7 DEF IInv
  <2>. QED  BY <1>10, <2>1, <2>2 DEF Spawn
<1>11. CASE Store
  BY <1>11 DEF IInv, TypeOK, NoOrphan, Progress, Store, Processes, Alive, Places
<1>12. CASE Publish
  BY <1>12 DEF IInv, TypeOK, NoOrphan, Progress, Publish, Processes, Alive, Places, Asks
<1>13. CASE CallStop
  BY <1>13 DEF IInv, TypeOK, NoOrphan, Progress, CallStop, Processes, Alive, Places
<1>14. CASE UNCHANGED vars
  BY <1>3, <1>14 DEF vars, IInv, TypeOK
<1>. QED
  BY <1>1, <1>2, <1>3, <1>4, <1>5, <1>6, <1>7, <1>8, <1>9, <1>10, <1>11, <1>12, <1>13, <1>14
     DEF Next, Environment, Begin, Continue, PortTaken, PortFreed, StopBeforeStart,
         StopAfterFailure, Stop, Drop

-----------------------------------------------------------------------------
\* The inductive invariant of the manager.
THEOREM Invariance == Spec => []IInv
BY InitIInv, NextIInv, PTL DEF Spec

\* The variables of the manager always have their types, and a readiness loop has a
\* child to wait for.
THEOREM TypeCorrect == Spec => []TypeOK
<1>1. IInv => TypeOK
  BY DEF IInv
<1>. QED  BY <1>1, Invariance, PTL

\* No process outlives the manager's knowledge of it: the next stop, or the drop,
\* ends whatever is still running.
THEOREM NothingIsOrphaned == Spec => []NoOrphan
<1>1. IInv => NoOrphan
  BY DEF IInv
<1>. QED  BY <1>1, Invariance, PTL

\* What decides on reuse is true of the process that would be reused.
THEOREM ConfigurationsMatch == Spec => []ConfigMatches
<1>1. IInv => ConfigMatches
  BY DEF IInv, Progress, ConfigMatches
<1>. QED  BY <1>1, Invariance, PTL

\* Success means the configuration that was asked for, by reuse or by a new process.
THEOREM StartsDeliver == Spec => StartDelivers
<1>1. IInv /\ IInv' /\ [Next]_vars
        => [Returns => /\ process' # None
                       /\ procs'[process'].config = ask.config
                       /\ pc = "poll" => procs'[process'].life # "dead"]_vars
  <2>. SUFFICES ASSUME IInv, Next, Returns
                PROVE  /\ process' # None
                       /\ procs'[process'].config = ask.config
                       /\ pc = "poll" => procs'[process'].life # "dead"
    BY DEF Returns, vars, callVars
  <2>1. Poll \/ Publish
    BY DEF Returns, Next, Environment, Loads, Dies, PortTaken, PortFreed, Deadline, Begin,
           Start, CallStop, Drop, Continue, StopBeforeStart, CheckPort, Spawn, Store,
           Watch, Probe, StopAfterFailure, Stop, Terminate, Forget, callVars
  <2>2. CASE Poll
    <3>1. process # None /\ Alive(process) /\ UNCHANGED <<process, config, procs>>
      BY <2>2 DEF Returns, Poll, GoTo, managerVars
    <3>2. config = ask.config /\ ask \in Asks
      BY <2>2 DEF IInv, Progress, Poll
    <3>3. config # None /\ pc = "poll"
      BY <2>2, <3>2, LifecycleAssumption DEF Asks, Poll
    <3>4. procs[process].config = ask.config
      BY <3>2, <3>3 DEF IInv, Progress
    <3>. QED  BY <3>1, <3>4 DEF Alive
  <2>3. CASE Publish
    BY <2>3, LifecycleAssumption DEF Returns, Publish, GoTo, IInv, TypeOK, Progress
  <2>. QED  BY <2>1, <2>2, <2>3
<1>. QED  BY <1>1, Invariance, PTL DEF Spec, StartDelivers

=============================================================================
