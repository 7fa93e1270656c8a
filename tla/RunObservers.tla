---------------------------- MODULE RunObservers -----------------------------
(***************************************************************************)
(* What watches a run: the hooks around its event sink, and the sink that  *)
(* keeps its spans.  The two share no state; each has its own variables,   *)
(* initial states and next-state relation.                                 *)
(***************************************************************************)
EXTENDS Integers, Sequences, Functions

CONSTANTS
    HookPool,       \* the registrations clients ask for
    Emits,          \* events being dispatched
    EventData,      \* what events carry: sets of "path", "command", "evidence", "secret"
    MaxHooks,       \* max_hooks_per_event
    CallIds,        \* tool call identifiers of the provider
    MaxSpanTurns,   \* bound: iterations
    MaxToolSpans    \* bound: tool spans started

VARIABLES
    hooks,          \* the registrations of the kind, in dispatch order
    emit,           \* [Emits -> the dispatch of an event]
    delivered,      \* events the inner sink received, with their data
    turn,           \* iterations so far
    expects,        \* what the runtime emits next
    runSpan,        \* _run is open
    modelSpan,      \* _model_span is open
    toolSpans,      \* the spans _tools holds, one per tool call id
    toolsStarted,   \* tool spans started so far
    spansOpened,    \* history: spans started
    spansClosed,    \* history: spans finished, as <<span, outcome>>
    unstored        \* history: an event did not reach the ledger

-----------------------------------------------------------------------------
(***************************************************************************)
(* User-registered hooks around the event sink (runtime/hooks.py), the     *)
(* built-in handlers (runtime/builtin_hooks.py) and the routes that        *)
(* register and remove them (routes/hooks.py).  An emit takes the list of  *)
(* hooks under the lock and then awaits each handler, while other requests *)
(* change the registry.  One event kind is modelled.                       *)
(***************************************************************************)

hookVars == <<hooks, emit, delivered>>

HookOf(id, phase, priority, handler) == [id |-> id, phase |-> phase, priority |-> priority, handler |-> handler]
NoEmit == [stage |-> "idle", todo |-> <<>>, ran |-> <<>>, blocked |-> FALSE, data |-> {}]

HookInit == hooks = <<>> /\ emit = [e \in Emits |-> NoEmit] /\ delivered = {}

\* ------------------------------------------------------------------- registry

(* The members of s at the positions of S, in their order. *)
Picked(s, S) ==
    LET taken[i \in 0 .. Len(s)] ==
            IF i = 0 THEN <<>> ELSE taken[i - 1] \o (IF i \in S THEN <<s[i]>> ELSE <<>>)
    IN  taken[Len(s)]

(* The list is kept sorted by priority, the order of arrival among equals. *)
SortedIn(s, h) ==
    Picked(s, {i \in DOMAIN s : s[i].priority <= h.priority}) \o <<h>>
        \o Picked(s, {i \in DOMAIN s : s[i].priority > h.priority})

(* register(): refused when the kind is full or the identifier is taken. *)
RegisterHook(h) ==
    /\ Len(hooks) < MaxHooks /\ \A x \in Range(hooks) : x.id # h.id
    /\ hooks' = SortedIn(hooks, h)

(* _BUILTIN_FACTORIES: the types a request may name. *)
BuiltinTypes == {"protected_paths", "protected_commands", "stop_verification", "output_sanitizer"}

(* POST /api/hooks: an unknown type is refused. *)
RegisterRoute(h) ==
    /\ h.handler \in BuiltinTypes
    /\ RegisterHook(h)
    /\ UNCHANGED <<emit, delivered>>

(* DELETE /api/hooks/{hook_id} *)
UnregisterHook(id) ==
    /\ \E x \in Range(hooks) : x.id = id
    /\ hooks' = Picked(hooks, {i \in DOMAIN hooks : hooks[i].id # id})
    /\ UNCHANGED <<emit, delivered>>

(* DELETE /api/hooks *)
ClearHooks == hooks # <<>> /\ hooks' = <<>> /\ UNCHANGED <<emit, delivered>>

(* _get_hooks(): the list of a phase, copied under the lock. *)
HooksOf(phase) == Picked(hooks, {i \in DOMAIN hooks : hooks[i].phase = phase})

\* ----------------------------------------------------------- built-in handlers

(* protected_paths_hook(): an argument lies in a protected path. *)
ProtectedPaths(data) == "path" \in data

(* protected_commands_hook(): an argument contains a blocked command. *)
ProtectedCommands(data) == "command" \in data

(* stop_verification_hook(): no evidence is present. *)
UnverifiedStop(data) == "evidence" \notin data

Blocks(h, data) ==
    \/ h.handler = "protected_paths" /\ ProtectedPaths(data)
    \/ h.handler = "protected_commands" /\ ProtectedCommands(data)
    \/ h.handler = "stop_verification" /\ UnverifiedStop(data)

(* tool_output_sanitizer_hook(): matches in the output are replaced. *)
Sanitized(h, data) == IF h.handler = "output_sanitizer" THEN data \ {"secret"} ELSE data

\* ------------------------------------------------------------------- dispatch

BeginEmit(e, data) ==
    /\ emit[e].stage = "idle"
    /\ emit' = [emit EXCEPT ![e] = [NoEmit EXCEPT !.stage = "before", !.todo = HooksOf("before"), !.data = data]]
    /\ UNCHANGED <<hooks, delivered>>

Took(d, failed) == [d EXCEPT !.todo = Tail(@), !.ran = Append(@, [hook |-> Head(d.todo), failed |-> failed])]

(* A before-hook blocks, which skips the rest, or modifies the event that   *)
(* the next hook and the sink are given.                                    *)
HookAnswers(e) ==
    /\ emit[e].stage = "before" /\ emit[e].todo # <<>>
    /\ LET d == Took(emit[e], FALSE)
           h == Head(emit[e].todo)
       IN emit' = [emit EXCEPT ![e] =
                     IF Blocks(h, d.data) THEN [d EXCEPT !.blocked = TRUE, !.todo = <<>>]
                     ELSE [d EXCEPT !.data = Sanitized(h, @)]]
    /\ UNCHANGED <<hooks, delivered>>

(* A handler raises or exceeds hook_timeout_seconds: logged, and skipped. *)
HookFails(e) ==
    /\ emit[e].stage \in {"before", "after"} /\ emit[e].todo # <<>>
    /\ emit' = [emit EXCEPT ![e] = Took(@, TRUE)]
    /\ UNCHANGED <<hooks, delivered>>

(* The event is forwarded unless it was blocked. *)
Forward(e) ==
    /\ emit[e].stage = "before" /\ emit[e].todo = <<>>
    /\ delivered' = IF emit[e].blocked THEN delivered
                    ELSE delivered \cup {[event |-> e, data |-> emit[e].data]}
    /\ emit' = [emit EXCEPT ![e].stage = "forwarded"]
    /\ UNCHANGED hooks

(* The after-hooks are looked up when the event has been forwarded. *)
BeginAfter(e) ==
    /\ emit[e].stage = "forwarded"
    /\ emit' = [emit EXCEPT ![e].stage = "after", ![e].todo = HooksOf("after"), ![e].ran = <<>>]
    /\ UNCHANGED <<hooks, delivered>>

AfterHook(e) ==
    /\ emit[e].stage = "after" /\ emit[e].todo # <<>>
    /\ emit' = [emit EXCEPT ![e] = Took(@, FALSE)]
    /\ UNCHANGED <<hooks, delivered>>

EndEmit(e) ==
    /\ emit[e].stage = "after" /\ emit[e].todo = <<>>
    /\ emit' = [emit EXCEPT ![e] = [NoEmit EXCEPT !.stage = "done"]]
    /\ UNCHANGED <<hooks, delivered>>

HookNext ==
    \/ \E h \in HookPool : RegisterRoute(h)
    \/ \E id \in {h.id : h \in HookPool} : UnregisterHook(id)
    \/ ClearHooks
    \/ \E e \in Emits : \/ \E data \in EventData : BeginEmit(e, data)
                        \/ HookAnswers(e) \/ HookFails(e) \/ Forward(e)
                        \/ BeginAfter(e) \/ AfterHook(e) \/ EndEmit(e)

\* ------------------------------------------------------------------ properties

(* An event is lost exactly when a handler that ran objected to it: a       *)
(* failing or slow handler, or a change of the registry during the          *)
(* dispatch, never loses one (emit(), hooks.py).                            *)
LostOnlyWhenBlocked ==
    \A e \in Emits : emit[e].stage = "forwarded" =>
        ((\A d \in delivered : d.event # e) <=>
            \E i \in DOMAIN emit[e].ran : ~emit[e].ran[i].failed /\ Blocks(emit[e].ran[i].hook, emit[e].data))

(* What reaches the sink has been through every handler that ran: no match  *)
(* of a sanitizer survives, whatever ran after it (builtin_hooks.py).       *)
DeliveredIsSanitized ==
    \A e \in Emits, d \in delivered :
        (d.event = e /\ emit[e].stage = "forwarded") =>
            \A i \in DOMAIN emit[e].ran :
                ~emit[e].ran[i].failed => Sanitized(emit[e].ran[i].hook, d.data) = d.data

(* Whatever is registered during a dispatch, its handlers run in the order  *)
(* of their priorities (register(), hooks.py).                              *)
PriorityOrder ==
    \A e \in Emits : \A i, j \in DOMAIN emit[e].ran :
        i < j => emit[e].ran[i].hook.priority <= emit[e].ran[j].hook.priority

-----------------------------------------------------------------------------
(***************************************************************************)
(* The event sink of a run (observability/runtime_events.py): it opens and *)
(* closes the spans of the run, the model call and the tool calls, and     *)
(* hands each event to the run ledger.  Events come in the order in which  *)
(* the runtime emits them; the run may stop after any of them.             *)
(***************************************************************************)

spanVars == <<turn, expects, runSpan, modelSpan, toolSpans, toolsStarted, spansOpened, spansClosed,
              unstored>>

SpanInit ==
    /\ turn = 0 /\ expects = "run_started" /\ runSpan = FALSE /\ modelSpan = FALSE
    /\ toolSpans = {} /\ toolsStarted = 0 /\ spansOpened = {} /\ spansClosed = {} /\ unstored = FALSE

(* The tail of emit(): the ledger's append may fail and is then only logged. *)
Persist == unstored' \in {unstored, TRUE}

RunStarted ==
    /\ expects = "run_started" /\ expects' = "turn"
    /\ runSpan' = TRUE /\ spansOpened' = spansOpened \cup {<<"run">>}
    /\ Persist /\ UNCHANGED <<turn, modelSpan, toolSpans, toolsStarted, spansClosed>>

IterationStarted ==
    /\ expects \in {"turn", "tools"} /\ turn < MaxSpanTurns
    /\ turn' = turn + 1 /\ expects' = "response"
    /\ modelSpan' = TRUE /\ spansOpened' = spansOpened \cup {<<"model", turn'>>}
    /\ Persist /\ UNCHANGED <<runSpan, toolSpans, toolsStarted, spansClosed>>

ModelResponse ==
    /\ expects = "response" /\ expects' = "tools"
    /\ modelSpan' = FALSE
    /\ spansClosed' = spansClosed \cup {<<<<"model", turn>>, "ok">>}
    /\ Persist /\ UNCHANGED <<turn, runSpan, toolSpans, toolsStarted, spansOpened>>

(* The response of the final synthesis has no iteration before it: its span *)
(* is opened late.                                                          *)
FinalResponse ==
    /\ expects = "tools" /\ expects' = "ending"
    /\ spansOpened' = spansOpened \cup {<<"model", MaxSpanTurns + 1>>}
    /\ spansClosed' = spansClosed \cup {<<<<"model", MaxSpanTurns + 1>>, "ok">>}
    /\ Persist /\ UNCHANGED <<turn, runSpan, modelSpan, toolSpans, toolsStarted>>

NewToolSpan(id) == <<"tool", id, toolsStarted + 1>>

(* A span is kept under the provider's call id; an id that is used again    *)
(* takes the place of the span that was there, which nobody finishes then.  *)
ToolCallRequested(id) ==
    /\ expects = "tools" /\ toolsStarted < MaxToolSpans
    /\ toolsStarted' = toolsStarted + 1
    /\ toolSpans' = {s \in toolSpans : s[2] # id} \cup {NewToolSpan(id)}
    /\ spansOpened' = spansOpened \cup {NewToolSpan(id)}
    /\ Persist /\ UNCHANGED <<turn, expects, runSpan, modelSpan, spansClosed>>

ToolCallCompleted(s) ==
    /\ expects = "tools" /\ s \in toolSpans
    /\ toolSpans' = toolSpans \ {s}
    /\ spansClosed' = spansClosed \cup {<<s, "ok">>}
    /\ Persist /\ UNCHANGED <<turn, expects, runSpan, modelSpan, toolsStarted, spansOpened>>

(* The id has no span: the first of two calls with it took it.  One is     *)
(* started late.                                                           *)
ToolCallCompletedLate(id) ==
    /\ expects = "tools" /\ toolsStarted < MaxToolSpans
    /\ \E n \in 1 .. toolsStarted : <<"tool", id, n>> \in spansOpened
    /\ \A s \in toolSpans : s[2] # id
    /\ toolsStarted' = toolsStarted + 1
    /\ spansOpened' = spansOpened \cup {NewToolSpan(id)}
    /\ spansClosed' = spansClosed \cup {<<NewToolSpan(id), "ok">>}
    /\ Persist /\ UNCHANGED <<turn, expects, runSpan, modelSpan, toolSpans>>

(* RUN_STOPPED closes what is open: the tools and the model call as failed. *)
StopClosing(tools, model) ==
    /\ expects \notin {"stopped"} /\ expects' = "stopped"
    /\ spansClosed' = spansClosed \cup {<<s, "failed">> : s \in tools}
                        \cup (IF model THEN {<<<<"model", turn>>, "failed">>} ELSE {})
                        \cup {<<<<"run">>, "ok">>}
    /\ spansOpened' = spansOpened \cup {<<"run">>}
    /\ toolSpans' = {} /\ modelSpan' = FALSE /\ runSpan' = FALSE
    /\ Persist /\ UNCHANGED <<turn, toolsStarted>>

RunStopped == StopClosing(toolSpans, modelSpan)

SpanNext ==
    \/ RunStarted \/ IterationStarted \/ ModelResponse \/ FinalResponse \/ RunStopped
    \/ \E id \in CallIds : ToolCallRequested(id) \/ ToolCallCompletedLate(id)
    \/ \E s \in toolSpans : ToolCallCompleted(s)

-----------------------------------------------------------------------------
(* A later span was started under the same tool call id. *)
Replaced(s) ==
    \E id \in CallIds : \E n \in 1 .. toolsStarted : \E m \in 1 .. n - 1 :
        s = <<"tool", id, m>> /\ <<"tool", id, n>> \in spansOpened

(* When a run has stopped, every span that was started is finished, with    *)
(* one outcome, the denied and interrupted tool calls and a model call that *)
(* failed included; the only span that may be left is one of a tool call    *)
(* whose id the provider used again (emit, runtime_events.py:239-430).      *)
EverySpanIsClosedOnce ==
    expects = "stopped" =>
        /\ {c[1] : c \in spansClosed} \subseteq spansOpened
        /\ \A c, d \in spansClosed : c[1] = d[1] => c = d
        /\ \A s \in spansOpened : (\E c \in spansClosed : c[1] = s) \/ Replaced(s)

=============================================================================
