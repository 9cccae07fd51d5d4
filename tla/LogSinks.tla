------------------------------ MODULE LogSinks ------------------------------
(***************************************************************************)
(* One of the three JSONL sinks of the proxy: classifier events            *)
(* (src/proxy/handler/classifier_log.rs), training captures                *)
(* (training_capture.rs) and compression events (compression.rs); they     *)
(* differ in what an event holds.  A static slot holds the sink in use; an *)
(* emitter takes it from the slot under the lock, opening one when there   *)
(* is none, and sends after the lock is released; a writer thread drains   *)
(* the queue of each sink and ends once nobody can send to it.             *)
(*                                                                         *)
(* shutdown empties the slot, and the next event opens a second sink on    *)
(* the same file while the first writer may still be draining.             *)
(***************************************************************************)
EXTENDS Integers, Sequences, Functions

CONSTANTS
    Emitters,       \* request tasks
    QueueCapacity,  \* queue_capacity
    MaxEvents,      \* bound: events
    MaxSinks        \* bound: sinks opened

VARIABLE log        \* the slot, the sinks, the emitters, the file

NoSink == 0

Init ==
    \E configured \in BOOLEAN :
        log = [configured |-> configured, slot |-> NoSink, warned |-> FALSE,
               queues |-> <<>>, ended |-> {},
               held |-> [e \in Emitters |-> NoSink], event |-> [e \in Emitters |-> 0],
               emitted |-> 0, dropped |-> {}, written |-> <<>>]

\* A sink is opened, unless the file cannot be.
Opens == Len(log.queues) < MaxSinks

Idle(e) == log.held[e] = NoSink

\* *_sink_from_env, by an emitter with its next event.
Look(e) ==
    /\ log.configured
    /\ Idle(e)
    /\ log.emitted < MaxEvents
    /\ LET event == log.emitted + 1
           base == [log EXCEPT !.emitted = event, !.event[e] = event]
       IN  \/ log.slot # NoSink /\ log' = [base EXCEPT !.held[e] = log.slot]
           \/ /\ log.slot = NoSink
              /\ Opens
              /\ LET sink == Len(log.queues) + 1
                 IN  log' = [base EXCEPT !.queues = Append(@, <<>>), !.slot = sink,
                                         !.held[e] = sink]
           \/ /\ log.slot = NoSink
              /\ log' = [base EXCEPT !.warned = TRUE, !.dropped = @ \cup {event}]

\* emit: try_send; a full queue drops the event.
Send(e) ==
    /\ ~Idle(e)
    /\ LET sink == log.held[e]
           event == log.event[e]
       IN  log' = IF Len(log.queues[sink]) < QueueCapacity
                  THEN [log EXCEPT !.held[e] = NoSink,
                                   !.queues[sink] = Append(@, event)]
                  ELSE [log EXCEPT !.held[e] = NoSink, !.dropped = @ \cup {event}]

\* Nobody can send to it.
Closed(sink) == log.slot # sink /\ \A e \in Emitters : log.held[e] # sink

\* writer_loop: an event is written unless it is oversized, or cannot be serialized or
\* written.
Write(sink) ==
    /\ log.queues[sink] # <<>>
    /\ LET event == Head(log.queues[sink])
           rest == [log EXCEPT !.queues[sink] = Tail(@)]
       IN  \/ log' = [rest EXCEPT !.written = Append(@, event)]
           \/ log' = [rest EXCEPT !.dropped = @ \cup {event}]

\* Mutant: the writer ends with the last sender.
EndsUndrained(sink) == Closed(sink)
Ends(sink) == Closed(sink) /\ log.queues[sink] = <<>>

End(sink) ==
    /\ Ends(sink)
    /\ log' = [log EXCEPT !.ended = @ \cup {sink}]

Shutdown ==
    /\ log.slot # NoSink
    /\ log' = [log EXCEPT !.slot = NoSink]

Next ==
    \/ \E e \in Emitters : Look(e) \/ Send(e)
    \/ \E sink \in DOMAIN log.queues \ log.ended : Write(sink) \/ End(sink)
    \/ Shutdown

-----------------------------------------------------------------------------
Queued == UNION {Range(log.queues[s]) : s \in DOMAIN log.queues \ log.ended}
Held == {log.event[e] : e \in {f \in Emitters : ~Idle(f)}}

\* Every event was written once, or dropped for a reason the sink reports, or is still
\* on its way to a writer that is there to write it: none is left behind by a shutdown
\* that races it, or sent to a sink whose writer has ended (classifier_log.rs, 87-123).
EventsAccounted ==
    /\ 1 .. log.emitted = Range(log.written) \cup log.dropped \cup Queued \cup Held
    /\ IsInjective(log.written)
    /\ \A e \in Emitters : log.held[e] \notin log.ended
=============================================================================
