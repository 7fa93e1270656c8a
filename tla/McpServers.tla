----------------------------- MODULE McpServers ------------------------------
(***************************************************************************)
(* External MCP servers: the inventory of their tools with its users, and  *)
(* the client that talks to one server.  The two share no state; each has  *)
(* its own variables, initial states and next-state relation.              *)
(***************************************************************************)
EXTENDS Integers, Sequences, FiniteSets, Functions

CONSTANTS
    McpOwners, McpIds,      \* owners (with their project), ids of servers
    ServerNames, Profiles,  \* names, ids of the profiles the deployment allows
    TransportOf,            \* [Profiles -> transport], profile_transport()
    RemoteNames, Listings,  \* tool names; the sets of descriptors a server may list
    Enforceable,            \* the schemas normalize_input_schema() accepts
    Jobs, MaxToolIds,       \* concurrent tasks; bound: tool rows ever inserted
    Cursors,            \* what a server may return as the next cursor
    PageTools,          \* tools of a page: name, defect ("none" or an error code), hints
    MaxPages,           \* _MAX_DISCOVERY_PAGES
    MaxBytes,           \* max_result_bytes, in pages' worth
    MaxListed,          \* _MAX_DISCOVERY_TOOLS
    ReconnectAttempts   \* reconnect_attempts

VARIABLES
    server,         \* [McpIds -> row of mcp_servers]
    toolRows,       \* rows of mcp_tools
    toolIds,        \* uuids given out
    mcpTask,        \* [Jobs -> the discovery, selection or call under way]
    bindings,       \* the _Binding values handed to runs
    consents,       \* history: what an owner has enabled, under which profile
    mcpSent,        \* history: the calls sent to a server
    listing,    \* the list_tools() operation
    remoteCall, \* the call_tool() operation
    probe       \* the health_check() loop

-----------------------------------------------------------------------------
(***************************************************************************)
(* The inventory of external MCP servers and the tools bound from it:      *)
(* mcp/repository.py (rows), mcp/inventory.py (discovery), mcp/runtime.py  *)
(* (bindings and calls) and routes/mcp.py (what a user may change).        *)
(* Discoveries, selections and calls read the database, wait for something *)
(* slow and come back; users edit the same rows meanwhile.                 *)
(***************************************************************************)

mcpVars == <<server, toolRows, toolIds, mcpTask, bindings, consents, mcpSent>>

NoServer == [state |-> "unborn"]
NoTask == [kind |-> "none"]

McpInit ==
    /\ server = [s \in McpIds |-> NoServer]
    /\ toolRows = {} /\ toolIds = 0 /\ bindings = {} /\ consents = {} /\ mcpSent = {}
    /\ mcpTask = [j \in Jobs |-> NoTask]

(* _scope(): every lookup names the owner and the project of the server. *)
InScope(o, s) == server[s].state = "row" /\ server[s].owner = o

NameTaken(o, n, s) ==
    \E t \in McpIds \ {s} : InScope(o, t) /\ server[t].name = n

FirstHealth(enabled) == IF enabled THEN "unknown" ELSE "disabled"

ToolsOf(s) == {t \in toolRows : t.server = s}

-----------------------------------------------------------------------------
(* A row of mcp_servers; the transport is the profile's. *)
Row(o, n, p, on, health, error, seen) ==
    [state |-> "row", owner |-> o, name |-> n, profile |-> p, transport |-> TransportOf[p],
     enabled |-> on, health |-> health, error |-> error, seen |-> seen]

(* create_server(): the profile is on the allowlist, the name is new. *)
CreateServer(o, s, n, p, on) ==
    /\ server[s] = NoServer /\ ~NameTaken(o, n, s)
    /\ server' = [server EXCEPT ![s] = Row(o, n, p, on, FirstHealth(on), "", FALSE)]
    /\ UNCHANGED <<toolRows, toolIds, mcpTask, bindings, consents, mcpSent>>

(* MCPRepository.update(): the row is locked; another profile or transport *)
(* forgets the tools, the error and when the server was last seen.          *)
Update(s, n, p, on) ==
    LET moved == p # server[s].profile \/ TransportOf[p] # server[s].transport
        reset == moved \/ on # server[s].enabled
    IN  /\ ~NameTaken(server[s].owner, n, s)
        /\ server' = [server EXCEPT ![s] =
               Row(@.owner, n, p, on, IF reset THEN FirstHealth(on) ELSE @.health,
                   IF reset THEN "" ELSE @.error, ~moved /\ @.seen)]
        /\ toolRows' = IF moved THEN toolRows \ ToolsOf(s) ELSE toolRows

UpdateServer(o, s, n, p, on) ==
    /\ InScope(o, s)
    /\ Update(s, n, p, on)
    /\ UNCHANGED <<toolIds, mcpTask, bindings, consents, mcpSent>>

DeleteServer(o, s) ==
    /\ InScope(o, s)
    /\ server' = [server EXCEPT ![s] = [state |-> "gone"]]
    /\ toolRows' = toolRows \ ToolsOf(s)
    /\ UNCHANGED <<toolIds, mcpTask, bindings, consents, mcpSent>>

(* set_tool_enabled() by name: whatever row carries the name at that moment. *)
SetToolEnabled(o, s, n, on) ==
    LET named == {t \in ToolsOf(s) : t.name = n}
    IN  /\ InScope(o, s) /\ named # {}
        /\ toolRows' = (toolRows \ named) \cup {[t EXCEPT !.enabled = on] : t \in named}
        /\ consents' = consents \cup
               (IF on THEN {<<s, server[s].profile, t.name, t.schema>> : t \in named} ELSE {})
        /\ UNCHANGED <<server, toolIds, mcpTask, bindings, mcpSent>>

(* disable_tool(): by id, whatever the schema is. *)
DisableTool(s, i) ==
    {IF t.id = i /\ t.server = s THEN [t EXCEPT !.enabled = FALSE] ELSE t : t \in toolRows}

-----------------------------------------------------------------------------
(* update_health() with the profile the caller expects in its WHERE clause. *)
SetHealth(s, expected, health, code, seen) ==
    server' = IF server[s].state = "row" /\ server[s].profile = expected
              THEN [server EXCEPT ![s] =
                       Row(@.owner, @.name, @.profile, @.enabled, health, code, seen \/ @.seen)]
              ELSE server

(* discover(): a disabled server is refused, otherwise the client lists. *)
Discover(j, o, s) ==
    /\ mcpTask[j] = NoTask /\ InScope(o, s)
    /\ IF ~server[s].enabled
       THEN /\ SetHealth(s, server[s].profile, "disabled", "", FALSE)
            /\ UNCHANGED mcpTask
       ELSE /\ mcpTask' = [mcpTask EXCEPT ![j] =
                   [kind |-> "listing", server |-> s, profile |-> server[s].profile]]
            /\ UNCHANGED server
    /\ UNCHANGED <<toolRows, toolIds, bindings, consents, mcpSent>>

(* A listing with a duplicate name is refused. *)
Prepared(ds) == \A d, e \in ds : d.name = e.name => d = e

(* Mutant: a tool stays enabled when its schema changes. *)
StaysEnabledByName(s, d) == \E t \in ToolsOf(s) : t.name = d.name /\ t.enabled

StaysEnabled(s, d) == \E t \in ToolsOf(s) : t.name = d.name /\ t.enabled /\ t.schema = d.schema

(* replace_inventory(): under the server's lock and only for the profile   *)
(* that was listed; every row gets a new id.                               *)
ReplaceInventory(s, expected, ds) ==
    /\ server[s].state = "row" /\ server[s].profile = expected
    /\ toolIds' = toolIds + 1
    /\ toolRows' = (toolRows \ ToolsOf(s)) \cup
           {[id |-> <<toolIds + 1, d.name>>, server |-> s, name |-> d.name, schema |-> d.schema,
             flags |-> d.flags, enabled |-> StaysEnabled(s, d), origin |-> expected] : d \in ds}

Listed(j, ds) ==
    /\ mcpTask[j].kind = "listing" /\ Prepared(ds) /\ toolIds < MaxToolIds
    /\ ReplaceInventory(mcpTask[j].server, mcpTask[j].profile, ds)
    /\ mcpTask' = [mcpTask EXCEPT ![j].kind = "listed"]
    /\ UNCHANGED <<server, bindings, consents, mcpSent>>

(* The second transaction of discover(), and its failure path _fail(). *)
MarkHealthy(j) ==
    /\ mcpTask[j].kind = "listed"
    /\ SetHealth(mcpTask[j].server, mcpTask[j].profile, "healthy", "", TRUE)
    /\ mcpTask' = [mcpTask EXCEPT ![j] = NoTask]
    /\ UNCHANGED <<toolRows, toolIds, bindings, consents, mcpSent>>

DiscoveryFails(j) ==
    /\ mcpTask[j].kind = "listing"
    /\ SetHealth(mcpTask[j].server, mcpTask[j].profile, "error", "code", FALSE)
    /\ mcpTask' = [mcpTask EXCEPT ![j] = NoTask]
    /\ UNCHANGED <<toolRows, toolIds, bindings, consents, mcpSent>>

-----------------------------------------------------------------------------
(* _risks(): what the policy engine is told about a tool. *)
Risks(flags) ==
    {"network"} \cup (IF "read_only" \in flags THEN {"read"} ELSE {"write", "external_side_effect"})
                \cup (IF "destructive" \in flags THEN {"write", "external_side_effect"} ELSE {})

Denied(t, denied) == Risks(t.flags) \cap denied # {}

Usable(s) == server[s].state = "row" /\ server[s].enabled /\ server[s].health = "healthy"

(* _metadata_candidates(): the usable servers are read ... *)
SelectServer(j, o, s) ==
    /\ mcpTask[j] = NoTask /\ InScope(o, s) /\ Usable(s)
    /\ mcpTask' = [mcpTask EXCEPT ![j] =
           [kind |-> "selecting", server |-> s,
            row |-> [name |-> server[s].name, profile |-> server[s].profile]]]
    /\ UNCHANGED <<server, toolRows, toolIds, bindings, consents, mcpSent>>

(* ... and then, in another transaction, the enabled tools of each.         *)
Candidates(s, denied) == {t \in ToolsOf(s) : t.enabled /\ ~Denied(t, denied)}

(* for_scope() up to the selection: ranking and budgets pick one, or none.  *)
SelectTool(j, denied) ==
    /\ mcpTask[j].kind = "selecting"
    /\ \/ \E t \in Candidates(mcpTask[j].server, denied) :
              mcpTask' = [mcpTask EXCEPT ![j] =
                  [kind |-> "selected", tool |-> t, row |-> mcpTask[j].row]]
       \/ mcpTask' = [mcpTask EXCEPT ![j] = NoTask]
    /\ UNCHANGED <<server, toolRows, toolIds, bindings, consents, mcpSent>>

(* The selected row is loaded again: it must still be enabled with the      *)
(* hash that was ranked and a schema that can be enforced, or it is         *)
(* disabled.  The binding takes the server's fields from the first read and *)
(* the tool's from the second.                                              *)
Materialise(j) ==
    LET old == mcpTask[j].tool
        good == {t \in toolRows : /\ t.server = old.server /\ t.id = old.id /\ t.enabled
                                  /\ t.schema = old.schema /\ t.schema \in Enforceable}
    IN  /\ mcpTask[j].kind = "selected"
        /\ bindings' = bindings \cup
               {[server |-> t.server, serverName |-> mcpTask[j].row.name,
                 profile |-> mcpTask[j].row.profile, tool |-> t.id, name |-> t.name,
                 schema |-> old.schema, flags |-> t.flags] : t \in good}
        /\ toolRows' = IF good = {} THEN DisableTool(old.server, old.id) ELSE toolRows
        /\ mcpTask' = [mcpTask EXCEPT ![j] = NoTask]
        /\ UNCHANGED <<server, toolIds, consents, mcpSent>>

(* _call(): the server is read and compared with the binding ... *)
CallReadsServer(j, b) ==
    /\ mcpTask[j] = NoTask
    /\ Usable(b.server)
    /\ server[b.server].name = b.serverName /\ server[b.server].profile = b.profile
    /\ server[b.server].transport = TransportOf[b.profile]
    /\ mcpTask' = [mcpTask EXCEPT ![j] = [kind |-> "calling", binding |-> b]]
    /\ UNCHANGED <<server, toolRows, toolIds, bindings, consents, mcpSent>>

BindingHolds(b, t) ==
    /\ t.server = b.server /\ t.id = b.tool /\ t.enabled
    /\ t.name = b.name /\ t.schema = b.schema /\ t.flags = b.flags

(* ... then the tool, in another transaction, and the call is sent.         *)
CallReadsTool(j) ==
    LET b == mcpTask[j].binding
    IN  /\ mcpTask[j].kind = "calling"
        /\ mcpSent' = IF \E t \in toolRows : BindingHolds(b, t) /\ t.schema \in Enforceable
                      THEN mcpSent \cup {b} ELSE mcpSent
        /\ mcpTask' = [mcpTask EXCEPT ![j] = NoTask]
        /\ UNCHANGED <<server, toolRows, toolIds, bindings, consents>>

McpNext ==
    \/ \E o \in McpOwners, s \in McpIds :
           \/ \E n \in ServerNames, p \in Profiles, on \in BOOLEAN :
                  CreateServer(o, s, n, p, on) \/ UpdateServer(o, s, n, p, on)
           \/ DeleteServer(o, s)
           \/ \E n \in RemoteNames, on \in BOOLEAN : SetToolEnabled(o, s, n, on)
           \/ \E j \in Jobs : Discover(j, o, s) \/ SelectServer(j, o, s)
    \/ \E j \in Jobs :
           \/ \E ds \in Listings : Listed(j, ds)
           \/ MarkHealthy(j) \/ DiscoveryFails(j) \/ Materialise(j) \/ CallReadsTool(j)
           \/ \E d \in {{}, {"write"}} : SelectTool(j, d)
           \/ \E b \in bindings : CallReadsServer(j, b)

-----------------------------------------------------------------------------
(* A call reaches a server only for a tool and a schema that an owner has   *)
(* enabled while the server had that very profile: neither a changed        *)
(* schema, nor a changed profile, nor a binding that outlived the row is    *)
(* trusted (replace_inventory, update, _call).                              *)
CallsHaveConsent ==
    \A b \in mcpSent : <<b.server, b.profile, b.name, b.schema>> \in consents

(* The tools stored for a server were listed from the profile it has now,   *)
(* although the listing runs for seconds without a lock (inventory.py:115). *)
InventoryIsOfTheProfile ==
    \A t \in toolRows : server[t.server].state = "row" /\ t.origin = server[t.server].profile

-----------------------------------------------------------------------------
(***************************************************************************)
(* The MCP client (mcp/client.py): listing the tools of a server page by   *)
(* page, calling one, and probing it with bounded reconnects.  The server  *)
(* on the other side may answer anything; each page's cursor is its word.  *)
(***************************************************************************)

clientVars == <<listing, remoteCall, probe>>

NoCursor == "none"

ClientInit ==
    /\ listing = [state |-> "running", tools |-> <<>>, asked |-> <<NoCursor>>, seen |-> {},
                  bytes |-> 0, whole |-> FALSE, code |-> "none"]
    /\ remoteCall = [state |-> "idle", code |-> "none"]
    /\ probe = [state |-> "probing", attempt |-> 0, waits |-> <<>>, lastCode |-> "none"]

(* _normalize_tool(): missing hints are read conservatively. *)
Normalize(t) ==
    [name |-> t.name, readOnly |-> t.readOnlyHint = "yes", destructive |-> t.destructiveHint # "no"]

(* _credential_headers(): resolved for each connection, never trusted.      *)
Credentials(ref, resolved, safe) ==
    CASE ref = "none" -> {}
      [] ~resolved    -> {"credentials_unavailable"}
      [] ~safe        -> {"invalid_credentials"}
      [] OTHER        -> {}

(* _guard_origin(): no request leaves the origin of the profile. *)
Guarded(origin, target) == IF origin = target THEN {} ELSE {"unsafe_redirect"}

ClientCodes == {"credentials_unavailable", "invalid_credentials", "unsafe_redirect"}

(* What _with_session() makes of the failures inside a session, which may   *)
(* arrive as a group: a timeout first, then the client's own code.          *)
SessionCode(causes) ==
    IF "timeout" \in causes THEN "timeout"
    ELSE IF causes \cap ClientCodes # {} THEN CHOOSE c \in causes \cap ClientCodes : TRUE
    ELSE "transport_error"

(* The ways a session can fail: what the connection did and what the        *)
(* client's own checks made of it.                                          *)
SessionCauses ==
    {causes \in {net \cup Credentials(ref, resolved, safe) \cup Guarded("home", target) :
                     net \in SUBSET {"timeout", "other"}, ref \in {"none", "ref"},
                     resolved, safe \in BOOLEAN, target \in {"home", "elsewhere"}} : causes # {}}

UniqueNames(tools) == IsInjective([i \in DOMAIN tools |-> tools[i].name])

Fails(code) == listing' = [listing EXCEPT !.state = "failed", !.code = code, !.tools = <<>>, !.bytes = 0]

(* A cursor the server has returned before. *)
Repeated(c) == c \in listing.seen

(* One page: its size, its tools in order, its cursor. *)
PageArrives(size, page, cursor) ==
    LET all == listing.tools \o [i \in DOMAIN page |-> Normalize(page[i])]
        \* the first of these in page order is raised
        defects == ({page[i].defect : i \in DOMAIN page} \ {"none"})
                       \cup (IF UniqueNames(all) THEN {} ELSE {"duplicate_tool_name"})
                       \cup (IF Len(all) > MaxListed THEN {"result_too_large"} ELSE {})
    IN  /\ listing.state = "running"
        /\ UNCHANGED <<remoteCall, probe>>
        /\ IF listing.bytes + size > MaxBytes THEN Fails("result_too_large")
           ELSE IF defects # {} THEN \E d \in defects : Fails(d)
           ELSE IF cursor = NoCursor
                THEN listing' = [listing EXCEPT !.state = "listed", !.tools = all, !.whole = TRUE]
           ELSE IF Repeated(cursor) THEN Fails("invalid_pagination")
           ELSE IF Len(listing.asked) = MaxPages THEN Fails("result_too_large")
           ELSE listing' = [listing EXCEPT !.tools = all, !.bytes = @ + size,
                                           !.seen = @ \cup {cursor}, !.asked = Append(@, cursor)]

SessionFails(causes) ==
    /\ listing.state = "running"
    /\ Fails(SessionCode(causes))
    /\ UNCHANGED <<remoteCall, probe>>

(* call_tool(): refused before a session when malformed; a result that is   *)
(* too large or not made of objects is an error, not a result.              *)
CallOutcome(valid, size, objects) ==
    CASE ~valid          -> "invalid_call"
      [] size > MaxBytes -> "result_too_large"
      [] ~objects        -> "invalid_result"
      [] OTHER           -> "none"

CallTool(valid, size, objects) ==
    /\ remoteCall.state = "idle"
    /\ remoteCall' = [state |-> "ended", code |-> CallOutcome(valid, size, objects)]
    /\ UNCHANGED <<listing, probe>>

CallFails(causes) ==
    /\ remoteCall.state = "idle"
    /\ remoteCall' = [state |-> "ended", code |-> SessionCode(causes)]
    /\ UNCHANGED <<listing, probe>>

Transient == {"timeout", "transport_error"}

Retryable(code) == code \in Transient

(* health_check(): one attempt of initialize(). *)
ProbeSucceeds ==
    /\ probe.state = "probing"
    /\ probe' = [probe EXCEPT !.state = "available"]
    /\ UNCHANGED <<listing, remoteCall>>

ProbeFails(code) ==
    /\ probe.state = "probing"
    /\ probe' = IF ~Retryable(code) \/ probe.attempt = ReconnectAttempts
                THEN [probe EXCEPT !.state = "unavailable", !.lastCode = code]
                ELSE [probe EXCEPT !.attempt = @ + 1, !.lastCode = code,
                                   !.waits = Append(@, 2 ^ probe.attempt)]
    /\ UNCHANGED <<listing, remoteCall>>

ClientNext ==
    \/ \E size \in {1, 2}, page \in UNION {[1..n -> PageTools] : n \in 0..2}, c \in Cursors \cup {NoCursor} :
           PageArrives(size, page, c)
    \/ \E causes \in SessionCauses : SessionFails(causes) \/ CallFails(causes)
    \/ \E valid, objects \in BOOLEAN, size \in {0, MaxBytes + 1} : CallTool(valid, size, objects)
    \/ ProbeSucceeds
    \/ \E code \in Transient \cup ClientCodes : ProbeFails(code)

-----------------------------------------------------------------------------
(* A listing ends within its page limit whatever cursors the server makes   *)
(* up: no cursor is asked for twice, and tools are returned only when the   *)
(* last page said there are no more (list_tools, client.py:136).            *)
ListingIsWholeAndBounded ==
    /\ IsInjective(listing.asked) /\ Len(listing.asked) <= MaxPages
    /\ listing.state = "listed" => listing.whole /\ UniqueNames(listing.tools)

(* A server that refuses the client is not asked again: every attempt but   *)
(* the last ended in a transient failure, each wait doubled the one before  *)
(* (health_check, client.py:361).                                           *)
ReconnectsAreBounded ==
    /\ Len(probe.waits) = probe.attempt /\ probe.attempt <= ReconnectAttempts
    /\ probe.state = "probing" => probe.lastCode \in Transient \cup {"none"}
    /\ \A i \in 2..Len(probe.waits) : probe.waits[i] = 2 * probe.waits[i - 1]

=============================================================================
