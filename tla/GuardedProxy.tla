---------------------------- MODULE GuardedProxy ----------------------------
(***************************************************************************)
(* The requests of the proxy: the routes that queue them behind            *)
(* request_mutex (bin/forge-guardrails-proxy/routes/handlers.rs), the loop *)
(* that guards one of them (proxy/handler.rs, proxy/handler/nudge.rs, over *)
(* core/inference.rs), and the response stream that takes the mutex guard  *)
(* along (bin/forge-guardrails-proxy/response.rs).  Clients, scorers and   *)
(* the model behind the proxy are the environment.                         *)
(*                                                                         *)
(* With MaxRetries \in Nat the inference loop returns an answer or an      *)
(* error: its "out of attempts" exit needs a negative budget, which the    *)
(* command line refuses.                                                   *)
(***************************************************************************)
EXTENDS Integers, SequencesExt

CONSTANTS
    Requests,
    Forms,         \* what a request may ask for
    Serialize,     \* ProxyConfig::serialize_requests
    MaxRetries,    \* ProxyConfig::max_retries
    MaxPremature,  \* the 3 of handle_chat_completions_impl
    None

\* guarded: it declares tools; pending: required steps that no earlier result
\* completes; screened: a scorer is installed or a tool-call policy is on.
AllForms == [guarded : BOOLEAN, stream : BOOLEAN, pending : BOOLEAN, screened : BOOLEAN]

ASSUME ProxyAssumption ==
    /\ Forms \subseteq AllForms
    /\ Serialize \in BOOLEAN
    /\ MaxRetries \in Nat
    /\ MaxPremature \in Nat
    /\ None \notin Requests
    /\ None \notin AllForms

VARIABLES
    pc,         \* where the future of each request stands
    form,       \* what it asked for
    holder,     \* the request whose future or stream owns the guard
    waiters,    \* the queue of request_mutex
    retries,    \* ErrorTracker::consecutive_retries
    premature,  \* StepEnforcer::premature_attempts
    early,      \* the batch under judgement calls a terminal tool
    upstream    \* history: the requests sent to the model, up to one beyond the bound

lock == <<holder, waiters>>
counters == <<retries, premature, early>>
vars == <<pc, form, lock, counters, upstream>>

Pcs == {"new", "queued", "handle", "infer", "judge", "relay", "replay", "closed"}

\* Between the acquisition of the guard and its release.
Active == {"handle", "infer", "judge", "relay", "replay"}

\* As many inferences as premature batches are tolerated and one, each of
\* as many attempts as retries are and one.
AttemptBound == (MaxPremature + 1) * (MaxRetries + 1)

-----------------------------------------------------------------------------
Init ==
    /\ pc = [r \in Requests |-> "new"]
    /\ form = [r \in Requests |-> None]
    /\ holder = None
    /\ waiters = <<>>
    /\ retries = [r \in Requests |-> 0]
    /\ premature = [r \in Requests |-> 0]
    /\ early = [r \in Requests |-> FALSE]
    /\ upstream = [r \in Requests |-> 0]

GoTo(r, place) == pc' = [pc EXCEPT ![r] = place] /\ UNCHANGED lock

\* The future or the stream is gone, and the guard with it.
Close(r) ==
    /\ pc' = [pc EXCEPT ![r] = "closed"]
    /\ holder' = IF holder = r THEN None ELSE holder
    /\ UNCHANGED waiters

\* Mutant: only the handler holds the guard, not the stream it returns.
DeliverUnguarded(r) ==
    /\ pc' = [pc EXCEPT ![r] = IF form[r].stream THEN "replay" ELSE "closed"]
    /\ holder' = IF holder = r THEN None ELSE holder
    /\ UNCHANGED waiters

\* A JSON response ends the request; a stream of buffered events takes the guard.
Deliver(r) == IF form[r].stream THEN GoTo(r, "replay") ELSE Close(r)

Send(r) ==
    upstream' = [upstream EXCEPT ![r] = IF @ > AttemptBound THEN @ ELSE @ + 1]

-----------------------------------------------------------------------------
(* The routes.                                                             *)

\* A body that does not parse, a secret that cannot be redacted, no model.
Reject(r) ==
    /\ pc[r] = "new"
    /\ Close(r)
    /\ UNCHANGED <<form, counters, upstream>>

Receive(r) ==
    /\ pc[r] = "new"
    /\ \E f \in Forms : form' = [form EXCEPT ![r] = f]
    /\ pc' = [pc EXCEPT ![r] = IF Serialize THEN "queued" ELSE "handle"]
    /\ waiters' = IF Serialize THEN Append(waiters, r) ELSE waiters
    /\ UNCHANGED <<holder, counters, upstream>>

\* The mutex is handed to its waiters in their order.
Acquire(r) ==
    /\ pc[r] = "queued"
    /\ holder = None
    /\ waiters # <<>> /\ Head(waiters) = r
    /\ pc' = [pc EXCEPT ![r] = "handle"]
    /\ holder' = r
    /\ waiters' = Tail(waiters)
    /\ UNCHANGED <<form, counters, upstream>>

-----------------------------------------------------------------------------
(* handle_chat_completions_impl before its loop.                           *)

\* The errors in the fields, messages, tools and contract of a request.
Refuse(r) ==
    /\ pc[r] = "handle"
    /\ Close(r)
    /\ UNCHANGED <<form, counters, upstream>>

\* Without tools, and then without required steps, the answer is passed on or its
\* stream is relayed live.
Forward(r) ==
    /\ pc[r] = "handle"
    /\ ~form[r].guarded /\ ~form[r].pending
    /\ Send(r)
    /\ \/ Close(r)
       \/ form[r].stream /\ GoTo(r, "relay")
    /\ UNCHANGED <<form, counters>>

Guard(r) ==
    /\ pc[r] = "handle"
    /\ form[r].guarded
    /\ GoTo(r, "infer")
    /\ UNCHANGED <<form, counters, upstream>>

-----------------------------------------------------------------------------
(* The loop: an attempt of run_inference, then the checks of its batch.    *)

Attempt(r) == pc[r] = "infer" /\ Send(r) /\ UNCHANGED form

UpstreamFails(r) == Attempt(r) /\ Close(r) /\ UNCHANGED counters

\* Mutant: a response the validator rejects is tried again for ever.
InvalidUnbounded(r) ==
    /\ Attempt(r)
    /\ retries' = [retries EXCEPT ![r] = @ + 1]
    /\ GoTo(r, "infer")
    /\ UNCHANGED <<premature, early>>

\* Out of retries: an error or, if the request asks for it, the raw text.
Invalid(r) ==
    /\ Attempt(r)
    /\ retries' = [retries EXCEPT ![r] = @ + 1]
    /\ IF retries[r] + 1 > MaxRetries THEN Close(r) \/ Deliver(r) ELSE GoTo(r, "infer")
    /\ UNCHANGED <<premature, early>>

\* Mutant: a valid batch starts the count of premature attempts over too.
ValidForgetsPremature(r) ==
    /\ Attempt(r)
    /\ retries' = [retries EXCEPT ![r] = 0]
    /\ premature' = [premature EXCEPT ![r] = 0]
    /\ \E e \in BOOLEAN : early' = [early EXCEPT ![r] = e]
    /\ GoTo(r, "judge")

Valid(r) ==
    /\ Attempt(r)
    /\ retries' = [retries EXCEPT ![r] = 0]
    /\ \E e \in BOOLEAN : early' = [early EXCEPT ![r] = e]
    /\ GoTo(r, "judge")
    /\ UNCHANGED premature

Premature(r) == form[r].pending /\ early[r]

PrematureNudge(r) ==
    /\ pc[r] = "judge"
    /\ Premature(r)
    /\ premature' = [premature EXCEPT ![r] = @ + 1]
    /\ IF premature[r] + 1 > MaxPremature THEN Close(r) ELSE GoTo(r, "infer")
    /\ UNCHANGED <<form, retries, early, upstream>>

\* The tool-call policy, the tool-call scorer or the final-response scorer.
Objection(r) ==
    /\ pc[r] = "judge"
    /\ ~Premature(r)
    /\ form[r].screened
    /\ retries' = [retries EXCEPT ![r] = @ + 1]
    /\ IF retries[r] + 1 > MaxRetries THEN Close(r) ELSE GoTo(r, "infer")
    /\ UNCHANGED <<form, premature, early, upstream>>

Accept(r) ==
    /\ pc[r] = "judge"
    /\ ~Premature(r)
    /\ Deliver(r)
    /\ UNCHANGED <<form, counters, upstream>>

-----------------------------------------------------------------------------
(* The response stream, and clients that hang up.                          *)

\* Mutant: the guard outlives the stream.
StreamEndsGuarded(r) ==
    /\ pc[r] \in {"relay", "replay"}
    /\ pc' = [pc EXCEPT ![r] = "closed"]
    /\ UNCHANGED <<form, lock, counters, upstream>>

\* The last event or an error.
StreamEnds(r) ==
    /\ pc[r] \in {"relay", "replay"}
    /\ Close(r)
    /\ UNCHANGED <<form, counters, upstream>>

\* The server drops the future or the stream of a client that is gone, and its
\* place in the queue of the mutex.
Disconnect(r) ==
    /\ pc[r] \notin {"new", "closed"}
    /\ pc' = [pc EXCEPT ![r] = "closed"]
    /\ holder' = IF holder = r THEN None ELSE holder
    /\ IF pc[r] = "queued"
       THEN \E i \in DOMAIN waiters : waiters[i] = r /\ waiters' = RemoveAt(waiters, i)
       ELSE UNCHANGED waiters
    /\ UNCHANGED <<form, counters, upstream>>

-----------------------------------------------------------------------------
\* What the runtime, the model and the reader of a stream do for a request.
Serve(r) ==
    \/ Acquire(r) \/ Refuse(r) \/ Forward(r) \/ Guard(r)
    \/ UpstreamFails(r) \/ Invalid(r) \/ Valid(r)
    \/ PrematureNudge(r) \/ Objection(r) \/ Accept(r)
    \/ StreamEnds(r)

Next == \E r \in Requests : Reject(r) \/ Receive(r) \/ Serve(r) \/ Disconnect(r)

Spec == Init /\ [][Next]_vars

\* Futures are polled, the model answers, streams are read to their end.
FairSpec == Spec /\ \A r \in Requests : WF_vars(Serve(r))

\* Besides, nobody objects for ever to what the model proposes.
PatientSpec == FairSpec /\ \A r \in Requests : SF_vars(Accept(r))

-----------------------------------------------------------------------------
\* The types, with the bounds of the three counters: no request asks the model more
\* than once beyond a limit, and a request is known from its reception on.
TypeOK ==
    /\ pc \in [Requests -> Pcs]
    /\ form \in [Requests -> Forms \cup {None}]
    /\ \A r \in Requests : pc[r] \notin {"new", "closed"} => form[r] # None
    /\ holder \in Requests \cup {None}
    /\ waiters \in Seq(Requests)
    /\ retries \in [Requests -> 0 .. MaxRetries + 1]
    /\ premature \in [Requests -> 0 .. MaxPremature + 1]
    /\ early \in [Requests -> BOOLEAN]
    /\ upstream \in [Requests -> 0 .. AttemptBound + 1]

\* One request at a time from its handler to the last event of its stream, and no
\* guard without a request: whatever ends a request ends its hold on the mutex.
GuardHeld ==
    Serialize => \A r \in Requests : holder = r <=> pc[r] \in Active

\* Retries start over with every valid batch and premature batches are counted
\* apart: together they bound what an unscreened request costs the model.
AttemptsBounded ==
    \A r \in Requests :
        form[r] # None /\ ~form[r].screened => upstream[r] <= AttemptBound

\* A request that was received is answered, or its client hung up.
RequestSettles == \A r \in Requests : (pc[r] # "new") ~> (pc[r] = "closed")

-----------------------------------------------------------------------------
(* An instance: requests without tools that are streamed, and guarded ones *)
(* of several forms.                                                       *)

Form(g, s, p, c) == [guarded |-> g, stream |-> s, pending |-> p, screened |-> c]

MixedForms ==
    {Form(FALSE, TRUE, FALSE, FALSE), Form(TRUE, TRUE, TRUE, FALSE),
     Form(TRUE, FALSE, TRUE, TRUE)}

\* A policy or a scorer watches over each of them.
ScreenedForms == {Form(TRUE, FALSE, FALSE, TRUE)}

=============================================================================
