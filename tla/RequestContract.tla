-------------------------- MODULE RequestContract ---------------------------
(***************************************************************************)
(* What handle_chat_completions_impl decides about a request before it     *)
(* calls a model (src/proxy/handler.rs 435-583, with request_contract.rs,  *)
(* tool_specs.rs and request_options.rs of src/proxy): refuse it, pass it  *)
(* through, or guard it under a contract of required steps and terminal    *)
(* tools; and which fields of it travel on.                                *)
(*                                                                         *)
(* A request names tools, may carry a contract in its _forge field, a      *)
(* tool_choice, and one field that does not parse.                         *)
(***************************************************************************)
EXTENDS Integers, SequencesExt

CONSTANTS
    Tools,       \* the names a client may give its tools
    Respond,     \* RESPOND_TOOL_NAME
    Unknown,     \* a name no tool of a request has
    MaxNames     \* bound on the length of a list of names

VARIABLE request  \* the form of a request, and what became of it

Absent == "absent"

Lists(names) == UNION {[1 .. n -> names] : n \in 0 .. MaxNames}

Names == Tools \cup {Respond, Unknown}

\* The fields the handler parses before it converts the messages.
Fields == {"stream_options", "tools", "required_steps", "terminal_tools",
            "return_raw_on_guardrail_failure", "tool_output_compression",
            "schema_compression", "debug", "tool_call_policy"}

Forms ==
    [wire : {"openai", "anthropic"}, tools : Lists(Tools \cup {Respond}),
     required : Lists(Names) \cup {<<Absent>>}, terminal : Lists(Names) \cup {<<Absent>>},
     choice : {Absent, "auto", "none", "forced"},
     malformed : Fields \cup {Absent, "messages"}, formatted : BOOLEAN]

Init ==
    \E form \in Forms :
        /\ form.malformed = Absent \/ form.tools = <<>>
        /\ form.formatted => form.choice = Absent
        /\ request = [form |-> form, outcome |-> [verdict |-> "new"]]

-----------------------------------------------------------------------------
\* extract_proxy_step_contract: a contract is there as soon as one of its
\* lists is; the terminal tools are then respond unless they are named.
Declared(form) == form.required # <<Absent>> \/ form.terminal # <<Absent>>

RequiredSteps(form) == IF form.required = <<Absent>> THEN <<>> ELSE form.required

TerminalTools(form) == IF form.terminal = <<Absent>> THEN <<Respond>> ELSE form.terminal

\* add_proxy_respond_tool_if_needed.
RespondInjected(form) ==
    ~(Declared(form) /\ \E tool \in ToSet(TerminalTools(form)) : tool # Respond)

Offered(form) == ToSet(form.tools) \cup (IF RespondInjected(form) THEN {Respond} ELSE {})

\* normalize_proxy_terminal_tools.
Normalized(form) ==
    LET named == IF TerminalTools(form) = <<>> THEN <<Respond>> ELSE TerminalTools(form)
    IN  IF RespondInjected(form) THEN named
        ELSE SelectSeq(named, LAMBDA tool : tool # Respond)

\* parse_tool_specs: respond is reserved, and names are distinct.
ToolsParse(form) == Respond \notin ToSet(form.tools) /\ IsInjective(form.tools)

\* Mutant: a terminal tool may be a required step.
ContractValidOverlapping(form) ==
    LET required == RequiredSteps(form)
        terminal == Normalized(form)
    IN  Declared(form) =>
            /\ IsInjective(required) /\ ToSet(required) \subseteq Offered(form)
            /\ ToSet(terminal) # {} /\ IsInjective(terminal)
            /\ ToSet(terminal) \subseteq Offered(form)

\* validate_proxy_step_contract.
ContractValid(form) ==
    LET required == RequiredSteps(form)
        terminal == Normalized(form)
    IN  Declared(form) =>
            /\ IsInjective(required) /\ ToSet(required) \subseteq Offered(form)
            /\ ToSet(terminal) # {} /\ IsInjective(terminal)
            /\ ToSet(terminal) \subseteq Offered(form)
            /\ ToSet(required) \cap ToSet(terminal) = {}

\* validate_guarded_openai_tool_choice, validate_guarded_anthropic_tool_choice.
ChoiceAllowed(form) ==
    form.choice # "none" /\ (form.choice = "forced" => RequiredSteps(form) = <<>>)

-----------------------------------------------------------------------------
Inbound(form) ==
    {"messages", "tools", "model"}
        \cup (IF Declared(form) THEN {"_forge"} ELSE {})
        \cup (IF form.choice = Absent THEN {} ELSE {"tool_choice"})
        \cup (IF form.formatted THEN {"response_format"} ELSE {})

\* extract_passthrough, and sanitize_guarded_passthrough for a guarded request.
Passthrough(form, guarded) ==
    Inbound(form) \ ({"messages", "tools", "stream", "system", "_forge"}
                        \cup (IF guarded THEN {"response_format"} ELSE {}))

\* Mutant: the raw body of the inbound Anthropic request keeps its extension.
RawBodyUnstripped(form, guarded) ==
    IF form.wire = "openai" THEN {}
    ELSE Inbound(form) \ (IF guarded THEN {"_forge", "response_format"} ELSE {})

\* strip_forge_extension_from_body, then sanitize_guarded_anthropic_body.
RawBody(form, guarded) ==
    IF form.wire = "openai" THEN {}
    ELSE Inbound(form) \ ({"_forge"} \cup (IF guarded THEN {"response_format"} ELSE {}))

Outcome(form) ==
    IF \/ form.malformed # Absent
       \/ form.tools = <<>> /\ RequiredSteps(form) # <<>>
    THEN [verdict |-> "refused"]
    ELSE IF form.tools = <<>>
    THEN [verdict |-> "passed", sent |-> Passthrough(form, FALSE) \cup RawBody(form, FALSE)]
    ELSE IF ~(ToolsParse(form) /\ ContractValid(form) /\ ChoiceAllowed(form))
    THEN [verdict |-> "refused"]
    ELSE [verdict |-> "guarded", sent |-> Passthrough(form, TRUE) \cup RawBody(form, TRUE),
          tools |-> Offered(form),
          required |-> ToSet(RequiredSteps(form)),
          terminal |-> IF Declared(form) THEN ToSet(Normalized(form)) ELSE {}]

Decide ==
    /\ request.outcome.verdict = "new"
    /\ request' = [request EXCEPT !.outcome = Outcome(request.form)]

Next == Decide

-----------------------------------------------------------------------------
Guarded == request.outcome.verdict = "guarded"

\* The calls a guarded request may still take in: any tool until a terminal
\* one, and no terminal one before the required steps.  Some order of them ends
\* the contract, with every tool the contract names among those offered.
Completable ==
    Guarded /\ Declared(request.form) =>
        LET out == request.outcome
        IN  \E calls \in SetToSeqs(out.required), last \in out.tools :
                /\ ToSet(calls) \cup {last} \subseteq out.tools
                /\ last \in out.terminal
                /\ \A i \in DOMAIN calls : calls[i] \notin out.terminal
                /\ request.form.choice = "forced" => calls = <<>>

\* Upstream never sees the extension, nor, beside guarded tools, a response
\* format they would have to honour.
ForgeStaysHome ==
    /\ request.outcome.verdict \in {"passed", "guarded"} =>
           "_forge" \notin request.outcome.sent
    /\ Guarded => "response_format" \notin request.outcome.sent

=============================================================================
