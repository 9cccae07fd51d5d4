--------------------------- MODULE StreamAssembly ---------------------------
(***************************************************************************)
(* How each client puts a streamed answer together: llamafile/streaming.rs,*)
(* anyllm_proxy/streaming.rs (its own server or a library runtime),        *)
(* ollama/streaming.rs, anthropic/transport.rs and anthropic/streaming.rs, *)
(* and the end of the stream as the inference loop sees it                 *)
(* (src/core/inference.rs).                                                *)
(*                                                                         *)
(* The server writes an answer event by event and may be cut off after any *)
(* of them.  A text is the number of its pieces; the arguments of a call   *)
(* come in pieces, and parse when they are all there, or when there are    *)
(* none.  Events arrive whole: the buffering of lines is left out.         *)
(***************************************************************************)
EXTENDS Integers, SequencesExt

CONSTANTS
    MaxCalls,   \* bound: calls of an answer
    ArgPieces,  \* pieces of complete arguments
    MaxTexts    \* bound: pieces of text

VARIABLE stream  \* the answer meant, the accumulators, the outcome

Clients == {"llamafile", "anyllm", "ollama", "anthropic"}
NoResponse == [kind |-> "none"]

Init ==
    \E client \in Clients :
        stream = [client |-> client, meant |-> <<>>, ended |-> FALSE,
                  misnumbered |-> FALSE,
                  text |-> 0, tools |-> <<>>,
                  ready |-> NoResponse, outcome |-> "open", response |-> NoResponse]

Going == stream.outcome = "open"
Complete(pieces) == pieces \in {0, ArgPieces}
AllComplete(calls) == \A i \in DOMAIN calls : Complete(calls[i].args)

\* The server may go on to something else.
AtRest == ~stream.ended /\ AllComplete(stream.meant)

-----------------------------------------------------------------------------
(* final_response_from_parts, final_stream_response and their kin.         *)

TextOf(pieces) == [kind |-> "text", text |-> pieces]
CallsOf(calls) == [kind |-> "calls", calls |-> calls]

\* Arguments that do not parse turn the answer into text, or into a call with none.
Assembled(parts) ==
    IF parts.tools = <<>> THEN TextOf(parts.text)
    ELSE IF parts.client \in {"llamafile", "ollama"}
         THEN IF AllComplete(parts.tools) THEN CallsOf(parts.tools) ELSE TextOf(parts.text)
         ELSE CallsOf([i \in DOMAIN parts.tools |->
                         [parts.tools[i] EXCEPT !.args = IF Complete(@) THEN @ ELSE 0]])

Finished(parts, response) == [parts EXCEPT !.outcome = "final", !.response = response]
Failed == [stream EXCEPT !.outcome = "error"]

-----------------------------------------------------------------------------
(* The events.                                                             *)

Text ==
    /\ Going
    /\ AtRest
    /\ stream.meant = <<>>
    /\ stream.text < MaxTexts
    /\ stream' = [stream EXCEPT !.text = @ + 1]

NewCall == [id |-> Len(stream.meant) + 1, args |-> 0]

\* A call is announced; ollama sends calls whole, and a later list replaces the first.
Call ==
    /\ Going
    /\ AtRest
    /\ Len(stream.meant) < MaxCalls
    /\ IF stream.client = "ollama"
       THEN \E pieces \in {0, ArgPieces} :
                LET call == [NewCall EXCEPT !.args = pieces]
                IN  stream' = [stream EXCEPT !.meant = Append(@, call), !.tools = <<call>>]
       ELSE stream' = [stream EXCEPT !.meant = Append(@, NewCall), !.tools = Append(@, NewCall)]

\* A call with an index that skips one: refused, or padded with a call with no name.
Misnumbered ==
    /\ Going
    /\ AtRest
    /\ Len(stream.meant) < MaxCalls
    /\ stream.client \in {"llamafile", "anyllm"}
    /\ stream' =
           IF stream.client = "anyllm" THEN [Failed EXCEPT !.misnumbered = TRUE]
           ELSE [stream EXCEPT !.meant = Append(@, NewCall), !.misnumbered = TRUE,
                               !.tools = @ \o <<[id |-> 0, args |-> 0], NewCall>>]

Args ==
    /\ Going
    /\ ~stream.ended
    /\ stream.client # "ollama"
    /\ stream.meant # <<>>
    /\ Last(stream.meant).args < ArgPieces
    /\ stream' = [stream EXCEPT !.meant[Len(stream.meant)].args = @ + 1,
                                !.tools[Len(stream.tools)].args = @ + 1]

\* finish_reason, done, message_stop.  The first is what llamafile waits for before it
\* makes its answer; anyllm does not look at it.
Finish ==
    /\ Going
    /\ AtRest
    /\ LET over == [stream EXCEPT !.ended = TRUE]
       IN  stream' = CASE stream.client = "llamafile" -> [over EXCEPT !.ready = Assembled(over)]
                       [] stream.client = "anyllm" -> over
                       [] OTHER -> Finished(over, Assembled(over))

\* Mutant: the end of the bytes ends the answer.
AtEndUnfinished(parts) == Finished(parts, Assembled(parts))

\* [DONE] or the end of the bytes.  With no answer ready the stream ends in an error, its
\* own or that of the inference loop (no final chunk).
AtEnd(parts) ==
    IF parts.client = "anyllm" THEN Finished(parts, Assembled(parts))
    ELSE IF parts.ready # NoResponse THEN Finished(parts, parts.ready)
    ELSE [parts EXCEPT !.outcome = "error"]

Done == Going /\ stream.ended /\ stream' = AtEnd(stream)
Cut == Going /\ ~stream.ended /\ stream' = AtEnd(stream)

\* The transport reports an error, or an event of anthropic does not parse.
Fail == Going /\ stream' = Failed

Next == Text \/ Call \/ Misnumbered \/ Args \/ Finish \/ Done \/ Cut \/ Fail

-----------------------------------------------------------------------------
Delivered == IF stream.response.kind = "calls" THEN stream.response.calls ELSE <<>>

\* An answer that was finished is handed on with the calls the server made, each with its
\* own arguments, and for all clients but anyllm only a finished answer is handed on
\* (llamafile/streaming.rs 27-137, anthropic/streaming.rs, ollama/streaming.rs).
StreamDelivers ==
    stream.outcome = "final" =>
        /\ stream.client # "anyllm" => stream.ended
        /\ stream.ended /\ ~stream.misnumbered =>
               Delivered = IF stream.client = "ollama" /\ stream.meant # <<>>
                           THEN <<Last(stream.meant)>> ELSE stream.meant
=============================================================================
