--------------------------- MODULE ClientRequests ---------------------------
(***************************************************************************)
(* How a client gets one completion out of its backend: the shared retry   *)
(* loop of src/clients/retry.rs (anyllm and Anthropic), llamafile's own    *)
(* loop and the mode it learns (llamafile/request.rs, llamafile/mod.rs),   *)
(* and ollama's second try without thinking (ollama/request.rs).           *)
(*                                                                         *)
(* Two sends share one client, whose mode and thinking they read before a  *)
(* post and write after it.  An answer is the class the handlers tell      *)
(* apart; waiting between attempts is left out.                            *)
(***************************************************************************)
EXTENDS Integers

CONSTANTS
    MaxRetries,  \* FORGE_UPSTREAM_MAX_RETRIES, of the shared loop
    MaxAttempts  \* UPSTREAM_SEND_MAX_ATTEMPTS, of llamafile's

VARIABLE client  \* its kind, what it learned, its two sends

Kinds == {"anyllm", "anthropic", "llamafile", "ollama"}
Senders == {1, 2}

\* A transient status, taken to be one the backend did not serve; one that will
\* not clear; a post that never left, or may have been served without an answer.
Transient == {"500", "429", "503"}
Lasting == {"400", "quota", "no_thinking"}
Unanswered == {"dropped", "timeout"}
Served == Unanswered \cup {"ok"}

Idle == [phase |-> "idle", body |-> "none", streams |-> FALSE, probes |-> FALSE,
         resolved |-> FALSE, attempt |-> 0, served |-> 0, outcome |-> "none"]

Init ==
    \E kind \in Kinds : \E mode \in {"none", "native", "prompt"} : \E think, resolved \in BOOLEAN :
        /\ kind # "llamafile" => mode = "none"
        /\ kind # "ollama" => ~think /\ ~resolved
        /\ client = [kind |-> kind, mode |-> mode, think |-> think, resolved |-> resolved,
                     sends |-> [s \in Senders |-> Idle]]

Send(s) == client.sends[s]
Set(s, send) == [client EXCEPT !.sends[s] = send]

\* send_with_options, send_stream_with_options: a llamafile client that knows
\* no mode tries the tools natively, and a stream tries a whole send first.
Begin(s) ==
    /\ Send(s).phase = "idle"
    /\ \E streams, tools \in BOOLEAN :
          LET unknown == client.kind = "llamafile" /\ client.mode = "none"
              send == [Idle EXCEPT !.phase = "posted", !.streams = streams,
                         !.probes = unknown /\ tools, !.resolved = client.resolved, !.attempt = 1,
                         !.body = CASE client.kind = "llamafile" /\ ~unknown -> client.mode
                                    [] client.kind = "ollama" /\ client.think -> "think"
                                    [] OTHER -> "native"]
          IN  client' = [Set(s, send) EXCEPT
                           !.mode = IF unknown /\ ~tools /\ ~streams THEN "native" ELSE @]

\* A plausible slip: any transport error is retried.
RetriedAny(send, answer) ==
    send.attempt <= MaxRetries /\ answer \in Transient \cup Unanswered \cup {"not_sent"}

\* send_post_with_retry; llamafile's loop does not look at statuses, and
\* ollama posts once.
Retried(send, answer) ==
    CASE client.kind \in {"anyllm", "anthropic"} ->
            send.attempt <= MaxRetries /\ answer \in Transient \cup {"not_sent"}
      [] client.kind = "llamafile" ->
            send.attempt < MaxAttempts /\ answer \in {"not_sent", "dropped"}
      [] OTHER -> FALSE

\* The local servers' own 500 is handed on as a text, and the second answer to
\* an ollama stream is read as a stream whatever its status.
Good(send, answer) ==
    \/ answer = "ok"
    \/ client.kind \in {"llamafile", "ollama"} /\ answer = "500"
    \/ send.body = "unthinking" /\ send.streams /\ answer \in Transient \cup Lasting

Over(send, answer) ==
    [send EXCEPT !.phase = "done", !.outcome = IF Good(send, answer) THEN "response" ELSE "error"]
Again(send, body) == [send EXCEPT !.body = body, !.attempt = 1]

\* The first answer in an unknown mode settles it; after a failure the send
\* goes on in prompt mode, and a stream begins anew whatever the trial gave.
Probed(s, send, answer) ==
    LET mode == IF Good(send, answer) THEN "native" ELSE "prompt"
    IN  IF ~Good(send, answer) THEN [Set(s, [Again(send, "prompt") EXCEPT !.probes = FALSE,
                                         !.phase = IF send.streams THEN "trial" ELSE "posted"])
                                  EXCEPT !.mode = mode]
        ELSE [Set(s, IF send.streams THEN [Again(send, mode) EXCEPT !.probes = FALSE]
                     ELSE Over(send, answer)) EXCEPT !.mode = mode]

\* The model refuses to think: the client never asks again and this send goes
\* on without, unless the client had settled the matter before it.
Unthinking(s, send, answer) ==
    IF send.resolved THEN Set(s, Over(send, answer))
    ELSE [Set(s, Again(send, "unthinking")) EXCEPT !.think = FALSE, !.resolved = TRUE]

Answer(s) ==
    /\ Send(s).phase \in {"posted", "trial"}
    /\ \E answer \in Transient \cup Lasting \cup Served \cup {"not_sent"} :
          LET send == [Send(s) EXCEPT !.served = @ + (IF answer \in Served THEN 1 ELSE 0)]
          IN  /\ answer = "no_thinking" => send.body = "think"
              /\ client' =
                    CASE Retried(send, answer) -> Set(s, [send EXCEPT !.attempt = @ + 1])
                      [] ~Retried(send, answer) /\ send.probes -> Probed(s, send, answer)
                      [] ~Retried(send, answer) /\ send.phase = "trial" ->
                            Set(s, [Again(send, client.mode) EXCEPT !.phase = "posted"])
                      [] ~Retried(send, answer) /\ answer = "no_thinking" ->
                            Unthinking(s, send, answer)
                      [] OTHER ->
                            [Set(s, Over(send, answer)) EXCEPT
                               !.resolved = @ \/ (client.kind = "ollama" /\ answer = "ok")]

Next == \E s \in Senders : Begin(s) \/ Answer(s)

-----------------------------------------------------------------------------
\* "a retry cannot duplicate a (billable, non-idempotent) completion"
\* (src/clients/retry.rs:42): whatever the answers, the switch of modes and
\* the other send, no client but llamafile has one send served twice, a send
\* that was served without an answer ends in an error, and a response comes
\* from a send that was served (or from a local server's 500).
ServedOnce ==
    client.kind # "llamafile" =>
        \A s \in Senders :
            /\ Send(s).served <= 1
            /\ Send(s).outcome = "response" => Send(s).served = 1 \/ client.kind = "ollama"
            /\ Send(s).served = 1 => Send(s).phase = "done"
=============================================================================
