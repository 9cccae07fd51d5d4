-------------------------- MODULE ServerLifecycle --------------------------
(***************************************************************************)
(* ServerManager (src/server/manager.rs, src/server/lifecycle.rs) for the  *)
(* backends it spawns: start, stop and drop, as their owner calls them one *)
(* after the other, against processes that may die and a port that others  *)
(* may use at any time between two of its steps.                           *)
(*                                                                         *)
(* start and stop block while they wait for a process; the waits that end  *)
(* in a kill are one step here, the wait for readiness is a loop.          *)
(***************************************************************************)
EXTENDS Integers, Sequences

CONSTANTS
    Configs,     \* RunConfig
    Files,       \* gguf_path
    MaxSpawns,   \* bound: the processes spawned in a behaviour
    None

ASSUME LifecycleAssumption ==
    /\ MaxSpawns \in Nat
    /\ None \notin Configs
    /\ None \notin Nat

VARIABLES
    pc,        \* where start, stop or drop stands
    ask,       \* the arguments of the start in progress
    late,      \* its readiness deadline has passed
    spawned,   \* the child it has spawned and not stored yet
    process,   \* ServerManager::process
    config,    \* ServerManager::current_config
    procs,     \* history: the processes spawned, in their order
    foreign    \* a process that is not ours accepts connections on the port

managerVars == <<process, config>>
callVars == <<pc, ask, late, spawned>>
vars == <<callVars, managerVars, procs, foreign>>

Asks == [config : Configs, file : Files]
Processes == DOMAIN procs
Alive(p) == procs[p].life \in {"loading", "serving"}

-----------------------------------------------------------------------------
Init ==
    /\ pc = "idle"
    /\ ask = None
    /\ late = FALSE
    /\ spawned = None
    /\ process = None
    /\ config = None
    /\ procs = <<>>
    /\ foreign = FALSE

GoTo(place) == pc' = place

Kill(p) == [procs EXCEPT ![p].life = "dead"]

-----------------------------------------------------------------------------
(* The environment: processes and the port.                                *)

Loads(p) ==
    /\ procs[p].life = "loading"
    /\ ~foreign /\ \A q \in Processes : procs[q].life # "serving"
    /\ procs' = [procs EXCEPT ![p].life = "serving"]
    /\ UNCHANGED <<callVars, managerVars, foreign>>

Dies(p) ==
    /\ Alive(p)
    /\ procs' = Kill(p)
    /\ UNCHANGED <<callVars, managerVars, foreign>>

PortTaken ==
    /\ ~foreign /\ \A q \in Processes : procs[q].life # "serving"
    /\ foreign' = TRUE
    /\ UNCHANGED <<callVars, managerVars, procs>>

PortFreed ==
    /\ foreign
    /\ foreign' = FALSE
    /\ UNCHANGED <<callVars, managerVars, procs>>

Deadline ==
    /\ pc \in {"watch", "probe"} /\ ~late
    /\ late' = TRUE
    /\ UNCHANGED <<pc, ask, spawned, managerVars, procs, foreign>>

-----------------------------------------------------------------------------
(* start_with_options                                                      *)

\* The configuration is compared under its own lock, before the process is polled.
\* The file is not part of it.
Start(a) ==
    /\ pc = "idle"
    /\ Len(procs) < MaxSpawns
    /\ ask' = a
    /\ GoTo(IF config = a.config THEN "poll" ELSE "restart")
    /\ UNCHANGED <<late, spawned, managerVars, procs, foreign>>

\* Mutant: an equal configuration is enough to reuse the process.
PollUnchecked ==
    /\ pc = "poll"
    /\ GoTo("idle")
    /\ UNCHANGED <<ask, late, spawned, managerVars, procs, foreign>>

\* child_state: only a process that still runs is reused.
Poll ==
    /\ pc = "poll"
    /\ GoTo(IF process # None /\ Alive(process) THEN "idle" ELSE "restart")
    /\ UNCHANGED <<ask, late, spawned, managerVars, procs, foreign>>

\* stop_with_options holds the lock on the process until it is gone.
Terminate(place, next) ==
    /\ pc = place
    /\ procs' = IF process = None THEN procs ELSE Kill(process)
    /\ process' = None
    /\ GoTo(next)
    /\ UNCHANGED <<ask, late, spawned, config, foreign>>

\* Mutant: stop leaves the configuration of the process it has ended.
ForgetNothing(place, next) ==
    /\ pc = place
    /\ GoTo(next)
    /\ UNCHANGED <<ask, late, spawned, managerVars, procs, foreign>>

\* Then, under its own lock, the configuration goes.
Forget(place, next) ==
    /\ pc = place
    /\ config' = None
    /\ GoTo(next)
    /\ UNCHANGED <<ask, late, spawned, process, procs, foreign>>

StopBeforeStart == Terminate("restart", "restarted") \/ Forget("restarted", "port")

\* ensure_backend_port_available, and the errors before it.
CheckPort ==
    /\ pc = "port"
    /\ \/ ~foreign /\ (\A p \in Processes : procs[p].life # "serving") /\ GoTo("spawn")
       \/ GoTo("idle")
    /\ UNCHANGED <<ask, late, spawned, managerVars, procs, foreign>>

Spawn ==
    /\ pc = "spawn"
    /\ \/ /\ procs' = Append(procs, [config |-> ask.config, file |-> ask.file,
                                     life |-> "loading"])
          /\ spawned' = Len(procs')
          /\ GoTo("store")
       \/ GoTo("idle") /\ UNCHANGED <<procs, spawned>>
    /\ UNCHANGED <<ask, late, managerVars, foreign>>

\* Mutant: the child is not kept.
StoreNothing ==
    /\ pc = "store"
    /\ spawned' = None
    /\ late' = FALSE
    /\ GoTo("watch")
    /\ UNCHANGED <<ask, managerVars, procs, foreign>>

Store ==
    /\ pc = "store"
    /\ process' = spawned
    /\ spawned' = None
    /\ late' = FALSE
    /\ GoTo("watch")
    /\ UNCHANGED <<ask, config, procs, foreign>>

\* wait_until_ready: is the child still there?
Watch ==
    /\ pc = "watch"
    /\ GoTo(IF process # None /\ Alive(process) THEN "probe" ELSE "failed")
    /\ UNCHANGED <<ask, late, spawned, managerVars, procs, foreign>>

\* Mutant: there is no deadline.
ProbeForever ==
    /\ pc = "probe"
    /\ \/ (foreign \/ \E p \in Processes : procs[p].life = "serving") /\ GoTo("publish")
       \/ (\A p \in Processes : procs[p].life # "serving") /\ GoTo("watch")
    /\ UNCHANGED <<ask, late, spawned, managerVars, procs, foreign>>

\* Does the port answer?  Whoever is behind it; a foreign server may, or may not.
Probe ==
    /\ pc = "probe"
    /\ \/ (foreign \/ \E p \in Processes : procs[p].life = "serving") /\ GoTo("publish")
       \/ (\A p \in Processes : procs[p].life # "serving")
             /\ GoTo(IF late THEN "failed" ELSE "watch")
    /\ UNCHANGED <<ask, late, spawned, managerVars, procs, foreign>>

\* Mutant: a start that fails drops the handle of its child, which does not end it.
StopAfterFailureDetaches ==
    \/ /\ pc = "failed"
       /\ process' = None
       /\ GoTo("failing")
       /\ UNCHANGED <<ask, late, spawned, config, procs, foreign>>
    \/ Forget("failing", "idle")

StopAfterFailure == Terminate("failed", "failing") \/ Forget("failing", "idle")

Publish ==
    /\ pc = "publish"
    /\ config' = ask.config
    /\ GoTo("idle")
    /\ UNCHANGED <<ask, late, spawned, process, procs, foreign>>

-----------------------------------------------------------------------------
(* stop, and the drop that ends the manager.                               *)

CallStop ==
    /\ pc = "idle"
    /\ GoTo("stop")
    /\ UNCHANGED <<ask, late, spawned, managerVars, procs, foreign>>

Stop == Terminate("stop", "stopping") \/ Forget("stopping", "idle")

Drop == Terminate("idle", "dropped")

-----------------------------------------------------------------------------
Environment ==
    \/ \E p \in Processes : Loads(p) \/ Dies(p)
    \/ PortTaken \/ PortFreed

Begin == (\E a \in Asks : Start(a)) \/ CallStop \/ Drop

Continue ==
    \/ Poll \/ StopBeforeStart \/ CheckPort \/ Spawn \/ Store \/ Watch \/ Probe
    \/ StopAfterFailure \/ Publish \/ Stop

Next == Environment \/ Deadline \/ Begin \/ Continue

Spec == Init /\ [][Next]_vars

\* A call that has begun goes on, and its deadline comes.
FairSpec == Spec /\ WF_vars(Continue) /\ WF_vars(Deadline)

-----------------------------------------------------------------------------
Places == {"idle", "poll", "restart", "restarted", "port", "spawn", "store", "watch",
           "probe", "publish", "failed", "failing", "stop", "stopping", "dropped"}

\* The types: whatever start waits for or publishes has been stored by it.
TypeOK ==
    /\ pc \in Places
    /\ ask \in Asks \cup {None}
    /\ late \in BOOLEAN
    /\ procs \in Seq([config : Configs, file : Files, life : {"loading", "serving", "dead"}])
    /\ Len(procs) <= MaxSpawns
    /\ spawned \in Processes \cup {None}
    /\ process \in Processes \cup {None}
    /\ config \in Configs \cup {None}
    /\ foreign \in BOOLEAN
    /\ pc \in {"watch", "probe", "publish", "failed"} => process # None

\* A process that lives is within reach of the next stop, whatever start met on the
\* way: a port taken, a child that died, a deadline.
NoOrphan == \A p \in Processes : Alive(p) => p \in {process, spawned}

\* Between two calls the configuration that decides on reuse is the one the stored
\* process was spawned with.
ConfigMatches ==
    pc = "idle" /\ config # None => process # None /\ procs[process].config = config

Returns == pc \in {"poll", "publish"} /\ pc' = "idle"

\* A start that succeeds has the configuration it was asked for behind it, and
\* reuses no process that has died.
StartDelivers ==
    [][Returns => /\ process' # None
                  /\ procs'[process'].config = ask.config
                  /\ pc = "poll" => procs'[process'].life # "dead"]_vars

\* However its processes and the port behave, a call comes to an end.
CallsReturn == (pc # "idle") ~> (pc \in {"idle", "dropped"})

=============================================================================
