------------------------------ MODULE ToolPolicy ------------------------------
(***************************************************************************)
(* The tool registry (tools/registry.py) and the rule engine that decides  *)
(* about its calls (security/policy.py, security/default_policy.py).  A    *)
(* path or a host is a sequence of one-letter labels, outermost first; a   *)
(* tool name is a sequence of one label.                                   *)
(***************************************************************************)
EXTENDS Integers, Sequences, FiniteSets, FiniteSetsExt

CONSTANTS
    ToolNames,      \* canonical tool names
    Definitions,    \* [name, capability, risks, schema, asks, permissions]: what may be registered
    RuleBook,       \* rules an operator may write
    Calls,          \* [name, fields, typed, resources]: what a provider may ask for
    MaxRules        \* bound: rules of an engine

VARIABLES
    rules,          \* the rules of the engine, in order
    tools,          \* [ToolNames -> ToolDefinition, or unregistered]
    disabled,       \* _disabled_capability_ids
    denied,         \* _denied_permissions
    admitted,       \* calls of execute() that await the permission check
    ran,            \* history: calls whose handler ran, and whether the tool had been
                    \* disabled when execute() looked at it
    banned          \* history: capabilities that were ever disabled

policyVars == <<rules, tools, disabled, denied, admitted, ran, banned>>

Risks == {"read", "write", "execute", "network", "secret", "external_side_effect"}
Effectful == {"write", "execute", "external_side_effect"}
Unregistered == [registered |-> FALSE]

Tool(d) ==
    [registered |-> TRUE, name |-> d.name, capability |-> d.capability, risks |-> d.risks,
     schema |-> d.schema, asks |-> d.asks, permissions |-> d.permissions, effectful |-> d.risks \cap Effectful # {}]

-----------------------------------------------------------------------------
(* _resource_matches(): an exact pattern, or a wildcard over what lies     *)
(* strictly under its prefix (of a path) or its suffix (of a host).        *)
Under(prefix, concrete) == Len(prefix) < Len(concrete) /\ SubSeq(concrete, 1, Len(prefix)) = prefix

ResourceMatches(pattern, concrete) ==
    /\ pattern.kind = concrete.kind
    /\ IF pattern.wildcard
       THEN pattern.kind = "tool" \/ pattern.labels = <<>> \/ Under(pattern.labels, concrete.labels)
       ELSE pattern.labels = concrete.labels

(* _specificity(): exact resources, literal characters, a risk filter.     *)
Literal(p) ==
    CASE p.kind = "tool" -> Len(p.labels)
      [] p.kind = "path" -> 2 * Len(p.labels) + (IF p.wildcard \/ p.labels = <<>> THEN 1 ELSE 0)
      [] p.kind = "host" -> IF p.wildcard THEN 2 * Len(p.labels)
                            ELSE 2 * Len(p.labels) - 1

Specificity(rule) ==
    <<Cardinality({p \in rule.resources : ~p.wildcard}),
      MapThenSumSet(Literal, rule.resources),
      IF rule.risks = {} THEN 0 ELSE 1>>

Below(s, t) ==
    \/ s[1] < t[1]
    \/ s[1] = t[1] /\ s[2] < t[2]
    \/ s[1] = t[1] /\ s[2] = t[2] /\ s[3] < t[3]

(* A DENY rule applies to any of its risks, a permit only to requests none *)
(* of whose risks is outside its own.                                      *)
RiskApplies(rule, request) ==
    rule.risks # {} =>
        IF rule.action = "deny" THEN rule.risks \cap request.risks # {}
        ELSE request.risks \subseteq rule.risks

Matches(rule, request) ==
    /\ rule.enabled /\ RiskApplies(rule, request)
    /\ \A p \in rule.resources : \E concrete \in request.resources : ResourceMatches(p, concrete)

(* RulePolicyEngine.evaluate() *)
Winner(rs, request) ==
    LET matching == {i \in DOMAIN rs : Matches(rs[i], request)}
        tied == {i \in matching : \A j \in matching : ~Below(Specificity(rs[i]), Specificity(rs[j]))}
        denying == {i \in tied : rs[i].action = "deny"}
    IN  IF matching = {} THEN 0 ELSE Max(IF denying # {} THEN denying ELSE tied)

Evaluate(rs, default, request) ==
    IF request.risks = {} THEN "deny"
    ELSE IF Winner(rs, request) # 0 THEN rs[Winner(rs, request)].action
    ELSE IF request.asks THEN "ask"
    ELSE IF request.risks # {"read"} THEN "deny"
    ELSE default

(* default_policy_rules(): only pure reads and the exact web_search pass.  *)
DefaultRules ==
    <<[action |-> "ask", risks |-> Risks, resources |-> {}, enabled |-> TRUE],
      [action |-> "allow", risks |-> {"read"}, resources |-> {}, enabled |-> TRUE],
      [action |-> "allow", risks |-> {"network"}, enabled |-> TRUE,
       resources |-> {[kind |-> "tool", wildcard |-> FALSE, labels |-> <<"web_search">>]}]>>

-----------------------------------------------------------------------------
(* The registry. *)
Identifiers(t) == {t.name, t.capability}

Visible(t) ==
    t.registered /\ Identifiers(t) \cap disabled = {} /\ t.permissions \cap denied = {}

(* _validate_arguments() *)
ValidArguments(t, call) ==
    /\ t.schema.required \subseteq call.fields
    /\ t.schema.open \/ call.fields \subseteq t.schema.allowed
    /\ call.typed

(* policy_request(): the tool and what its resolver makes of the arguments; *)
(* every failure is a refusal.                                              *)
Requestable(t, call) == Visible(t) /\ t.risks # {} /\ ValidArguments(t, call)

PolicyRequest(t, call) ==
    [risks |-> t.risks, asks |-> t.asks,
     resources |-> call.resources \cup
         {[kind |-> "tool", wildcard |-> FALSE, labels |-> <<t.name>>]}]

PolicyInit ==
    /\ rules \in UNION {[1 .. n -> RuleBook] : n \in 0 .. MaxRules}
    /\ tools = [n \in ToolNames |-> Unregistered]
    /\ disabled = {} /\ denied = {} /\ admitted = {} /\ ran = {} /\ banned = {}

Register(d) ==
    /\ ~tools[d.name].registered
    /\ tools' = [tools EXCEPT ![d.name] = Tool(d)]
    /\ UNCHANGED <<rules, disabled, denied, admitted, ran, banned>>

(* By the capability's id or by the name of the tool. *)
RemoveCapability(id, name) ==
    /\ tools[name].registered /\ id \in Identifiers(tools[name])
    /\ tools' = [tools EXCEPT ![name] = Unregistered]
    /\ UNCHANGED <<rules, disabled, denied, admitted, ran, banned>>

(* apply_capability_policy() only tightens. *)
ApplyCapabilityPolicy(ids, perms) ==
    /\ disabled' = disabled \cup ids /\ denied' = denied \cup perms
    /\ banned' = banned \cup ids
    /\ UNCHANGED <<rules, tools, admitted, ran>>

(* execute() of a call that the policy allows: the registry checks that the *)
(* tool is visible and the arguments are valid again.  The compliance       *)
(* profile may refuse an effectful one, which changes nothing here.         *)
Execute(call) ==
    LET t == tools[call.name]
    IN  /\ t.registered /\ Requestable(t, call)
        /\ Evaluate(rules, "deny", PolicyRequest(t, call)) = "allow"
        /\ admitted' = admitted \cup
               {[name |-> t.name, gated |-> t.permissions # {},
                 banned |-> Identifiers(t) \cap banned # {}]}
        /\ UNCHANGED <<rules, tools, disabled, denied, ran, banned>>

(* _execute_registered(): each permission of the tool is awaited, one that  *)
(* is denied raises; then the handler runs, whatever was disabled meanwhile.*)
PermissionDenied(call) ==
    /\ call \in admitted /\ call.gated
    /\ admitted' = admitted \ {call}
    /\ UNCHANGED <<rules, tools, disabled, denied, ran, banned>>

RunHandler(call) ==
    /\ call \in admitted
    /\ admitted' = admitted \ {call} /\ ran' = ran \cup {call}
    /\ UNCHANGED <<rules, tools, disabled, denied, banned>>

CapabilityIds == UNION {Identifiers(d) : d \in Definitions}

PolicyNext ==
    \/ \E d \in Definitions : Register(d)
    \/ \E id \in CapabilityIds, name \in ToolNames : RemoveCapability(id, name)
    \/ \E ids \in SUBSET CapabilityIds, perms \in {{}, {"files"}} : ApplyCapabilityPolicy(ids, perms)
    \/ \E call \in Calls : Execute(call)
    \/ \E call \in admitted : PermissionDenied(call) \/ RunHandler(call)

-----------------------------------------------------------------------------
Requests == {PolicyRequest(tools[c.name], c) : c \in {c \in Calls : tools[c.name].registered}}

(* What runs with an effect was permitted by a rule that covers all of its *)
(* risks, and no DENY rule as specific as that one speaks against it       *)
(* (RulePolicyEngine.evaluate, policy.py:319-384).                         *)
EffectsArePermitted ==
    \A request \in Requests : Evaluate(rules, "deny", request) = "allow" =>
        \E i \in DOMAIN rules :
            /\ rules[i].action = "allow" /\ Matches(rules[i], request)
            /\ rules[i].risks # {} => request.risks \subseteq rules[i].risks
            /\ \A j \in DOMAIN rules :
                   rules[j].action = "deny" /\ Matches(rules[j], request) =>
                       Below(Specificity(rules[j]), Specificity(rules[i]))

(* The default rules let only pure reads and web_search's network access    *)
(* pass without a human (default_policy.py).                                *)
DefaultPolicyIsConservative ==
    \A request \in Requests : Evaluate(DefaultRules, "deny", request) = "allow" =>
        \/ request.risks = {"read"}
        \/ request.risks = {"network"} /\
           \E p \in request.resources : p.kind = "tool" /\ p.labels = <<"web_search">>

(* A call taken up after its capability or its tool's name was disabled     *)
(* never runs, even if the tool was removed and registered anew meanwhile   *)
(* (apply_capability_policy); one already awaiting its permissions may.     *)
DisabledNeverRuns == \A r \in ran : ~r.banned
==============================================================================
