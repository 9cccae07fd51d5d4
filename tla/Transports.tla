------------------------------ MODULE Transports ------------------------------
(***************************************************************************)
(* The components between a run, the proxy, its backend, its clients and   *)
(* its log: what a conversation keeps to be sent, the messages on the      *)
(* wire, the requests and their retries, the streams, the sinks of the     *)
(* classifier log and the startup of the proxy.                            *)
(***************************************************************************)
EXTENDS Integers, Sequences, FiniteSets, Focus

CONSTANTS
    \* Conversation
    KeepRecent, Triggers, Thresholds, MaxTurns,
    \* LogSinks
    Emitters, QueueCapacity, MaxEvents, MaxSinks,
    \* StreamAssembly
    MaxCalls, ArgPieces, MaxTexts,
    \* WireMessages, ClientRequests
    MaxMessages, MaxUpstreamRetries, MaxAttempts,
    \* ProxyStartup
    Full, Manual, Slots, Elsewhere, Default, Vram

\* The command line may name any number of slots.
ASSUME StartupAssumption ==
    /\ Full \in Nat /\ Slots \subseteq Int

\* Arguments are a number of pieces.
ASSUME AssemblyAssumption == ArgPieces \in Nat

\* keep_recent is any number of steps.
ASSUME CompactionAssumption == KeepRecent \in Nat

Talk == INSTANCE Conversation WITH talk <- state

Sinks == INSTANCE LogSinks WITH log <- state

Streams == INSTANCE StreamAssembly WITH stream <- state

Wire == INSTANCE WireMessages WITH wire <- state

Requests == INSTANCE ClientRequests WITH MaxRetries <- MaxUpstreamRetries, client <- state

Startup == INSTANCE ProxyStartup WITH boot <- state

-----------------------------------------------------------------------------
TransportsInit ==
    \/ focus = "talk" /\ Talk!Init
    \/ focus = "sinks" /\ Sinks!Init
    \/ focus = "streams" /\ Streams!Init
    \/ focus = "wire" /\ Wire!Init
    \/ focus = "requests" /\ Requests!Init
    \/ focus = "startup" /\ Startup!Init

TransportsStep ==
    \/ focus = "talk" /\ Talk!Next
    \/ focus = "sinks" /\ Sinks!Next
    \/ focus = "streams" /\ Streams!Next
    \/ focus = "wire" /\ Wire!Next
    \/ focus = "requests" /\ Requests!Next
    \/ focus = "startup" /\ Startup!Next

TransportsSpec == TransportsInit /\ [][TransportsStep /\ UNCHANGED focus]_vars

-----------------------------------------------------------------------------
\* Compaction sends no result without its call and keeps the recent steps
\* (context/strategies.rs, core/inference.rs).
CompactionKeeps == focus = "talk" => Talk!CompactionKeeps

\* Every call that is sent is answered: "Compacted transcripts must stay
\* provider-valid" (docs/PARITY.md).
CallsAnswered == focus = "talk" => Talk!CallsAnswered

\* No event is left behind by the sinks (proxy/handler/classifier_log.rs).
EventsAccounted == focus = "sinks" => Sinks!EventsAccounted

\* A stream is handed on with the calls the server made (clients/*/streaming.rs).
StreamDelivers == focus = "streams" => Streams!StreamDelivers

\* Calls and results pair on the wire (clients/openai_compat.rs,
\* clients/anthropic/convert.rs, clients/llamafile/helpers.rs).
WirePairs == focus = "wire" => Wire!WirePairs

\* No retry has a completion served twice (clients/retry.rs).
ServedOnce == focus = "requests" => Requests!ServedOnce

\* The proxy leaves no backend behind and serves the context its backend has
\* (bin/forge-guardrails-proxy, server/budget.rs).
StartupSound == focus = "startup" => Startup!StartupSound

=============================================================================
