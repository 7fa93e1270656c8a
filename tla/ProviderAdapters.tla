-------------------------- MODULE ProviderAdapters ---------------------------
(***************************************************************************)
(* The model providers as a run sees them: the adapters of their formats,  *)
(* and the chain that asks them one after the other.  The two share no     *)
(* state; each has its own variables, initial states and next-state        *)
(* relation.                                                               *)
(***************************************************************************)
EXTENDS Integers, Sequences, FiniteSets, Functions

CONSTANTS
    Providers,      \* subset of {"openai", "ollama", "anthropic", "foundry"}
    Declared,       \* the capabilities each provider declares
    ServerIds,      \* identifiers servers give to calls
    Reasons,        \* stop reasons servers report
    MaxTurns,       \* bound: answers in a dialogue
    MaxCalls,       \* bound: calls in an answer
    MaxCount,       \* bound: token counts
    Chain,          \* sequence of providers: the capabilities each declares
    ChainRequests,
    MaxFailures     \* bound: counted failures of a provider

VARIABLES
    dialogue,       \* the run's history
    wants,          \* the capabilities the run needs
    asking,         \* the request under way
    turns,          \* answers taken
    repeated,       \* some server gave an identifier twice
    counted,        \* the run's usage, and what its servers processed
    chainCall,      \* [ChainRequests -> the call under way]
    failures        \* _failures

-----------------------------------------------------------------------------
(***************************************************************************)
(* The adapters of the model providers (agents/openai_adapter.py,          *)
(* ollama_adapter.py, anthropic_adapter.py, foundry_adapter.py with        *)
(* runtime/anthropic.py) and what the runtime does with their answers: the *)
(* dialogue of one run is converted for a provider, the provider's answer  *)
(* is parsed, and the answer with the results of its tool calls is part of *)
(* the next request, perhaps to another provider of the fallback chain.    *)
(* A server's answer is a list of calls, each with the identifier the      *)
(* server gave it or Missing, a form of text, a reason and token counts.   *)
(***************************************************************************)

adapterVars == <<dialogue, wants, asking, turns, repeated, counted>>

Missing == [by |-> "none", id |-> "none"]
Supplied(i) == [by |-> "server", id |-> i]
Say(role, calls, answers) == [role |-> role, calls |-> calls, answers |-> answers]
Asking(stage, p, form, said) == [stage |-> stage, provider |-> p, form |-> form, said |-> said]
Idle == Asking("idle", "none", "none", "none")
Uncounted == [input |-> 0, read |-> 0, write |-> 0, processed |-> 0]

(* _provider_requirements(): tools, images and a response contract. *)
AdapterInit ==
    /\ wants \in SUBSET {"native_tools", "images", "json_mode"}
    /\ dialogue = <<Say("user", <<>>, Missing)>>
    /\ asking = Idle
    /\ turns = 0 /\ repeated = FALSE /\ counted = Uncounted

\* ------------------------------------------------------- converting a history

IdsOf(calls) == {calls[i].id : i \in DOMAIN calls}

(* The identifiers of the calls before position i. *)
IdsBefore(d, i) == UNION {IdsOf(d[j].calls) : j \in 1 .. i - 1}

(* _typed_messages(): no identifier twice, results only of earlier calls. *)
OllamaMessages(d) ==
    \A i \in DOMAIN d :
        /\ \A j \in DOMAIN d[i].calls :
               d[i].calls[j].id \notin
                   IdsBefore(d, i) \cup IdsOf(SubSeq(d[i].calls, 1, j - 1))
        /\ d[i].role = "tool" => d[i].answers \in IdsBefore(d, i)

(* _message_payload() of the OpenAI adapter: a result names its call. *)
OpenAIMessages(d) == \A i \in DOMAIN d : d[i].role = "tool" => d[i].answers # Missing

(* anthropic_request(): anything converts; the answer to a contract is     *)
(* begun with a brace, except for Foundry.                                 *)
AnthropicPrefills(p) == p = "anthropic" /\ "json_mode" \in wants

UsesTools(d) == \E i \in DOMAIN d : d[i].calls # <<>> \/ d[i].role = "tool"

(* missing(), with get_provider_capabilities(). *)
MissingCapabilities(p) == wants \ Declared[p]

(* complete() of the Ollama adapter. *)
OllamaRequest ==
    IF UsesTools(dialogue) /\ "native_tools" \notin Declared["ollama"] THEN "unsupported"
    ELSE IF ~OllamaMessages(dialogue) THEN "refused"
    ELSE IF /\ "images" \in wants
            /\ "native_tools" \in wants \/ UsesTools(dialogue)
            /\ "vision_native_tools" \notin Declared["ollama"]
    THEN "unsupported"
    ELSE IF "json_mode" \in wants /\ "json_schema" \notin Declared["ollama"]
    THEN "unsupported" ELSE "sent"

(* complete() of the OpenAI adapter. *)
OpenAIRequest == IF OpenAIMessages(dialogue) THEN "sent" ELSE "refused"

(* The runtime rejects a provider that lacks a capability; an adapter      *)
(* converts the history and sends the request.                             *)
Request(p) ==
    /\ asking.stage = "idle"
    /\ asking' = Asking(IF MissingCapabilities(p) # {} THEN "unsupported"
                        ELSE CASE p = "ollama" -> OllamaRequest
                               [] p = "openai" -> OpenAIRequest
                               [] OTHER        -> "sent",
                        p, "none", "none")
    /\ UNCHANGED <<dialogue, wants, turns, repeated, counted>>

\* --------------------------------------------------------- parsing an answer

(* _request_namespace(): a digest of what was sent, identifiers excluded. *)
RequestNamespace(d) == [i \in DOMAIN d |-> <<d[i].role, [j \in DOMAIN d[i].calls |-> d[i].calls[j].name]>>]

(* _generated_call_id() *)
GeneratedCallId(index, name, namespace) == [by |-> "adapter", id |-> <<index, name, namespace>>]

NoneTwice(calls) == Cardinality(IdsOf(calls)) = Len(calls)

(* _parse_tool_calls() of the Ollama adapter. *)
OllamaCalls(calls) ==
    [i \in DOMAIN calls |->
        IF calls[i].id = Missing
        THEN [calls[i] EXCEPT !.id = GeneratedCallId(i, calls[i].name, RequestNamespace(dialogue))]
        ELSE calls[i]]

(* _parse_response() of the Ollama adapter: text or calls, and calls only  *)
(* from a model that declares them.                                        *)
OllamaResponse(calls, text) ==
    /\ NoneTwice(calls)
    /\ calls = <<>> => text # "none"
    /\ calls # <<>> => "native_tools" \in Declared["ollama"]

(* _parse_tool_calls() of the OpenAI adapter; ModelResponse refuses an     *)
(* answer with neither text nor calls.                                     *)
OpenAIResponse(calls, text) ==
    /\ \A i \in DOMAIN calls : calls[i].id # Missing
    /\ NoneTwice(calls)
    /\ calls = <<>> => text # "none"

(* normalize_json_mode_content(): only an exact fence is removed. *)
NormalizeJson(text) == IF text = "fenced" THEN "object" ELSE text

(* anthropic_response(): what follows a prefilled brace gets it back. *)
AnthropicText(p, text) ==
    LET plain == IF "json_mode" \in wants THEN NormalizeJson(text) ELSE text
    IN IF AnthropicPrefills(p) /\ plain \notin {"object", "none"}
       THEN IF plain = "continuation" THEN "object" ELSE "prose"
       ELSE plain

AnthropicResponse(calls, text) == calls = <<>> => text # "none"

(* normalize_anthropic_usage(): input_tokens excludes the cached part. *)
AnthropicUsage(prompt, read, write) == [input |-> prompt + read + write, read |-> read, write |-> write]

(* _usage() of the OpenAI adapter: prompt_tokens includes it. *)
OpenAIUsage(prompt, read) == [input |-> prompt, read |-> read, write |-> 0]

(* TokenUsage.__add__(), beside what the servers processed. *)
AddUsage(usage, processed) ==
    counted' = [input |-> counted.input + usage.input, read |-> counted.read + usage.read,
                write |-> counted.write + usage.write, processed |-> counted.processed + processed]

(* _normalize_provider_stop_reason() *)
ProviderStop(reason, hasCalls) ==
    CASE reason = "tool_calls" -> IF hasCalls THEN "none" ELSE "provider_error"
      [] reason = "stop"       -> "completed"
      [] reason = "length"     -> "length_limit"
      [] OTHER                 -> "provider_error"

(* _snapshot_provider_tool_calls(): calls without an identifier stop the run. *)
SnapshotFails(calls) == \E i \in DOMAIN calls : calls[i].id = Missing

RepeatedId(calls) ==
    \E i \in DOMAIN calls :
        /\ calls[i].id.by = "server"
        /\ calls[i].id \in IdsBefore(dialogue, Len(dialogue) + 1)
                           \cup IdsOf(SubSeq(calls, 1, i - 1))

(* The runtime takes an answer: it is counted, its calls are copied, its   *)
(* reason decides whether the run goes on, and it joins the history.       *)
TakeAnswer(calls, text, form, reason, usage, processed) ==
    /\ AddUsage(usage, processed)
    /\ turns' = turns + 1
    /\ IF SnapshotFails(calls) \/ ProviderStop(reason, calls # <<>>) \notin {"none", "completed"}
       THEN /\ asking' = Asking("stopped", asking.provider, "none", "none")
            /\ UNCHANGED <<dialogue, repeated>>
       ELSE /\ dialogue' = Append(dialogue, Say("assistant", calls, Missing))
            /\ repeated' = (repeated \/ RepeatedId(calls))
            /\ asking' = IF calls = <<>> THEN Asking("answered", asking.provider, form, text)
                         ELSE Asking("calling", asking.provider, "none", "none")

(* A bad answer is an error of the adapter. *)
Invalid ==
    /\ asking' = Asking("invalid", asking.provider, "none", "none")
    /\ UNCHANGED <<dialogue, turns, repeated, counted>>

ServerCalls == UNION {[1..n -> [name : {"tool"}, id : {Missing} \cup {Supplied(i) : i \in ServerIds}]] : n \in 0..MaxCalls}

OpenAIAnswers(calls, form, reason, prompt, read) ==
    /\ asking.stage = "sent" /\ asking.provider = "openai" /\ form # "continuation"
    /\ IF OpenAIResponse(calls, form) /\ read <= prompt
       THEN TakeAnswer(calls, form, form, reason, OpenAIUsage(prompt, read), prompt)
       ELSE Invalid

OllamaAnswers(calls, form, reason, prompt) ==
    /\ asking.stage = "sent" /\ asking.provider = "ollama" /\ form # "continuation"
    /\ IF OllamaResponse(OllamaCalls(calls), form)
       THEN TakeAnswer(OllamaCalls(calls), form, form, reason, OpenAIUsage(prompt, 0), prompt)
       ELSE Invalid

(* Of a prefilled answer only what follows the brace is sent. *)
AnthropicAnswers(p, calls, form, reason, prompt, read, write) ==
    /\ asking.stage = "sent" /\ asking.provider = p
    /\ form = "continuation" => AnthropicPrefills(p)
    /\ IF AnthropicResponse(calls, form)
       THEN TakeAnswer(calls, AnthropicText(p, form), form, reason,
                       AnthropicUsage(prompt, read, write), prompt + read + write)
       ELSE Invalid

(* complete() of the Foundry adapter: the same parser, nothing prefilled. *)
FoundryAnswers(calls, form, reason, prompt, read, write) ==
    AnthropicAnswers("foundry", calls, form, reason, prompt, read, write)

(* _send(): the transport fails, or the answer is not JSON. *)
SendFails ==
    /\ asking.stage = "sent" /\ Invalid /\ UNCHANGED wants

Answered ==
    /\ turns < MaxTurns
    /\ \E calls \in ServerCalls, form \in {"object", "prose", "fenced", "continuation", "none"}, reason \in Reasons :
           \E prompt, read \in 0..MaxCount :
            /\ \/ OpenAIAnswers(calls, form, reason, prompt, read)
               \/ read = 0 /\ OllamaAnswers(calls, form, reason, prompt)
               \/ \E write \in 0..MaxCount :
                      \/ AnthropicAnswers("anthropic", calls, form, reason, prompt, read, write)
                      \/ FoundryAnswers(calls, form, reason, prompt, read, write)
            /\ UNCHANGED wants

\* ---------------------------------------------------------------- the runtime

(* The results of the calls, or the refusals of _append_unexecuted_tool_results(), in order. *)
AppendResults ==
    /\ asking.stage = "calling"
    /\ dialogue' = dialogue \o [i \in DOMAIN dialogue[Len(dialogue)].calls |->
                                   Say("tool", <<>>, dialogue[Len(dialogue)].calls[i].id)]
    /\ asking' = Idle
    /\ UNCHANGED <<wants, turns, repeated, counted>>

(* The fallback chain asks the next provider with the same history. *)
AskNext ==
    /\ asking.stage \in {"invalid", "unsupported"}
    /\ asking' = Idle
    /\ UNCHANGED <<dialogue, wants, turns, repeated, counted>>

AdapterNext ==
    \/ Answered \/ SendFails \/ AppendResults \/ AskNext
    \/ \E p \in Providers : Request(p)

\* ------------------------------------------------------------------ properties

(* A dialogue the adapters built can be sent to any of them: identifiers   *)
(* that Ollama's adapter makes up never collide, in an answer or across    *)
(* answers, although they are digests; only a server that gives an         *)
(* identifier twice makes a later request fail.                            *)
HistoryStaysSendable == asking.stage = "refused" => repeated

(* Every token the servers of a run processed is counted once in its       *)
(* usage, whichever way a server splits its prompt, and the cached parts   *)
(* lie within it, as the price of a call assumes.                          *)
UsageIsTheWholePrompt ==
    /\ counted.input = counted.processed
    /\ counted.read + counted.write <= counted.input

(* The forms of JSON an adapter understands.  Where the server is told the *)
(* schema, a fence is not looked for.                                      *)
JsonForms(p) == IF p \in {"anthropic", "foundry"} THEN {"object", "fenced", "continuation"} ELSE {"object"}

(* An answer to a contract that the server gave as JSON reaches the        *)
(* validator as JSON: whole or, from Anthropic's models, inside a fence or *)
(* as what follows the brace the request began it with.                    *)
ContractsAreAnsweredInJson ==
    (asking.stage = "answered" /\ "json_mode" \in wants /\ asking.form \in JsonForms(asking.provider))
        => asking.said = "object"

-----------------------------------------------------------------------------
(***************************************************************************)
(* The chain of model providers (agents/fallback_chain.py).  Two requests  *)
(* share the chain and its failure counts: complete() is typed and skips   *)
(* candidates that lack a capability, chat() is the older API.             *)
(***************************************************************************)

chainVars == <<chainCall, failures>>

Capabilities == {"native_tools", "images", "json_mode"}
Unasked == [stage |-> "idle", needs |-> {}, typed |-> TRUE, left |-> <<>>, tried |-> <<>>, by |-> 0]

ChainInit ==
    /\ chainCall = [r \in ChainRequests |-> Unasked]
    /\ failures = [i \in DOMAIN Chain |-> 0]

(* _required_capabilities(), merged with what the caller demands. *)
Required(tools, images, json, explicit) ==
    (IF tools THEN {"native_tools"} ELSE {}) \cup (IF images THEN {"images"} ELSE {})
        \cup (IF json THEN {"json_mode"} ELSE {}) \cup explicit

(* The members of s at the positions of S, in their order. *)
Picked(s, S) ==
    LET taken[i \in 0 .. Len(s)] ==
            IF i = 0 THEN <<>> ELSE taken[i - 1] \o (IF i \in S THEN <<s[i]>> ELSE <<>>)
    IN  taken[Len(s)]

Compatible(needs) ==
    Picked([i \in DOMAIN Chain |-> i], {i \in DOMAIN Chain : needs \subseteq Chain[i]})

(* _union_capabilities(): what the chain declares to its own caller. *)
Union == UNION {Chain[i] : i \in DOMAIN Chain}

Complete(r, needs) ==
    /\ chainCall[r].stage = "idle"
    /\ chainCall' = [chainCall EXCEPT ![r] =
           [Unasked EXCEPT !.needs = needs, !.left = Compatible(needs),
                           !.stage = IF Compatible(needs) = <<>> THEN "incompatible" ELSE "trying"]]
    /\ UNCHANGED failures

Chat(r) ==
    /\ chainCall[r].stage = "idle"
    /\ chainCall' = [chainCall EXCEPT ![r] =
           [Unasked EXCEPT !.typed = FALSE, !.left = [i \in DOMAIN Chain |-> i], !.stage = "trying"]]
    /\ UNCHANGED failures

Trying(r) == chainCall[r].stage = "trying" /\ chainCall[r].left # <<>>

CandidateAnswers(r) ==
    /\ Trying(r)
    /\ chainCall' = [chainCall EXCEPT ![r].stage = "answered", ![r].by = Head(chainCall[r].left)]
    /\ UNCHANGED failures

(* Any other failure is counted, and the next candidate is tried. *)
CandidateFails(r) ==
    LET i == Head(chainCall[r].left)
    IN  /\ Trying(r) /\ failures[i] < MaxFailures
        /\ failures' = [failures EXCEPT ![i] = @ + 1]
        /\ chainCall' = [chainCall EXCEPT ![r].left = Tail(chainCall[r].left),
                                          ![r].tried = Append(chainCall[r].tried, i)]

(* A candidate that refuses what it declared stops a typed call at once.    *)
CandidateRefuses(r) ==
    /\ Trying(r) /\ chainCall[r].typed
    /\ chainCall' = [chainCall EXCEPT ![r].stage = "refused"]
    /\ UNCHANGED failures

Exhausted(r) ==
    /\ chainCall[r].stage = "trying" /\ chainCall[r].left = <<>>
    /\ chainCall' = [chainCall EXCEPT ![r].stage = "exhausted"]
    /\ UNCHANGED failures

ChainNext ==
    \E r \in ChainRequests :
        \/ \E t, i, j \in BOOLEAN : \E e \in {{}, {"images"}} : Complete(r, Required(t, i, j, e))
        \/ Chat(r) \/ CandidateAnswers(r) \/ CandidateFails(r) \/ CandidateRefuses(r) \/ Exhausted(r)

-----------------------------------------------------------------------------
(* A typed answer comes from the first provider of the chain that has every *)
(* capability the request needs and did not fail it; the request is given   *)
(* up only when every such provider failed, although the chain announces    *)
(* the union of all capabilities (complete, fallback_chain.py:134-226).     *)
AnsweredByTheFirstFit ==
    \A r \in ChainRequests :
        LET c == chainCall[r]
            fit == {i \in DOMAIN Chain : c.needs \subseteq Chain[i]}
        IN  /\ c.stage = "answered" /\ c.typed =>
                  c.by \in fit /\ {i \in fit : i < c.by} = Range(c.tried)
            /\ c.stage = "exhausted" => Range(c.tried) = fit
            /\ c.stage = "incompatible" => fit = {}

=============================================================================
