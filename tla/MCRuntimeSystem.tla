-------------------------- MODULE MCRuntimeSystem --------------------------
(***************************************************************************)
(* The instance of RuntimeSystem for TLC.                                  *)
(***************************************************************************)
EXTENDS RuntimeSystem, TLC

CONSTANTS k1, k2, k3, e1, t1, health, probe, s1

(* ToolPolicy: a file tool whose risks vary, a network tool that asks by   *)
(* itself, and rules of every action, two as specific as each other.       *)
Resource(kind, wildcard, labels) ==
    [kind |-> kind, wildcard |-> wildcard, labels |-> labels]
Rule(action, risks, resources) ==
    [action |-> action, risks |-> risks, resources |-> resources, enabled |-> TRUE]
EveryRisk ==
    {"read", "write", "execute", "network", "secret", "external_side_effect"}
MCRuleBook ==
    {Rule("deny", {"write"}, {}),
     Rule("allow", {"read", "write"}, {Resource("path", TRUE, <<"a">>)}),
     Rule("deny", {"write"}, {Resource("path", TRUE, <<"a">>)}),
     Rule("allow", {"read"}, {Resource("tool", FALSE, <<"files">>)}),
     Rule("ask", EveryRisk, {Resource("host", TRUE, <<>>)})}
Call(name, resource) ==
    [name |-> name, fields |-> {"path"}, typed |-> TRUE, resources |-> {resource}]
MCCalls ==
    {Call("files", Resource("path", FALSE, <<"a", "b">>)),
     Call("files", Resource("path", FALSE, <<"a">>)),
     Call("web_search", Resource("host", FALSE, <<"x", "y">>))}
MCDefinitions ==
    {[name |-> n, capability |-> IF n = "files" THEN "native.files" ELSE n, risks |-> r, asks |-> r = {"network"},
      schema |-> [required |-> {"path"}, allowed |-> {"path"}, open |-> FALSE],
      permissions |-> IF n = "files" THEN {"files"} ELSE {}] :
        n \in {"files", "web_search"},
        r \in {{"read"}, {"read", "write"}, {"network"}}}

(* RunObservers: hooks *)
Hook(id, when, priority, handler) ==
    [id |-> id, phase |-> when, priority |-> priority, handler |-> handler]
MCHookPool ==
    {Hook(1, "before", 2, "output_sanitizer"),
     Hook(2, "before", 1, "protected_commands"),
     Hook(3, "before", 2, "stop_verification"),
     Hook(2, "after", 1, "output_sanitizer")}

(* EvidenceVerifier: a good answer, a short one, one that cites what was   *)
(* delegated to another claim, and one that cites nothing.                 *)
MCDelegated == [c \in {"c1", "c2"} |-> IF c = "c1" THEN {"e1"} ELSE {"e2"}]
Verdict(claim, status, reason, cites) ==
    [claim |-> claim, status |-> status, reason |-> reason, cites |-> cites]
GoodAnswer ==
    <<Verdict("c1", "supported", "evidence_supports", {"e1"}),
      Verdict("c2", "rejected", "evidence_contradicts", {})>>
MCAnswers ==
    {GoodAnswer, <<GoodAnswer[1]>>,
     <<Verdict("c1", "supported", "evidence_supports", {"e2"}), GoodAnswer[2]>>,
     <<Verdict("c1", "supported", "evidence_supports", {}), GoodAnswer[2]>>}

(* Delegation: teams *)
MCParentTools ==
    {[name |-> "read_file", risks |-> {"read"}],
     [name |-> "web_search", risks |-> {"network", "write"}],
     [name |-> "shell", risks |-> {"execute"}]}
MCProfiles == <<"researcher", "analyst">>

(* ProviderAdapters: the chain *)
MCChain ==
    <<{"native_tools"}, {"native_tools", "json_mode"},
      {"images", "native_tools", "json_mode"}>>

(* WorkerPatterns *)
MCTasks == <<[worker |-> "w1"], [worker |-> "w2"], [worker |-> "w1"]>>
MCBatchCalls == <<"read_file", "write_file", "web_search", "custom">>
MCClasses ==
    [t \in {"read_file", "web_search", "write_file"} |->
        [readOnly |-> t # "write_file", concurrentSafe |-> t # "write_file"]]

(* EvidenceVerifier: its value *)
FixtureClaim(id, label, cites) == [id |-> id, label |-> label, cites |-> cites]
MCFixture ==
    {[key |-> "s", outcome |-> "supported", evidence |-> {"e"},
      claims |-> {FixtureClaim("a", "supported", {"e"}),
                  FixtureClaim("b", "supported", {})}],
     [key |-> "u", outcome |-> "unsupported", evidence |-> {"e"},
      claims |-> {FixtureClaim("a", "unsupported", {"e"}),
                  FixtureClaim("b", "unsupported", {})}],
     [key |-> "n", outcome |-> "no_evidence", evidence |-> {}, claims |-> {}]}

(* GroundedAnswers: two documents with one text that contradict each       *)
(* other, one whose text was altered since, and answers with claims that   *)
(* are supported, contradicted, numerically wrong, on altered evidence and *)
(* cited out of range.                                                     *)
Chunk(doc, hash, spans, numbers) ==
    [doc |-> doc, hash |-> hash, spans |-> spans, numbers |-> numbers, intact |-> hash = "h1"]
Affirms ==
    Chunk("d1", "h1", {[words |-> {"a", "b"}, neg |-> FALSE],
                       [words |-> {"c"}, neg |-> TRUE]}, {1})
Denies == Chunk("d2", "h1", {[words |-> {"a", "b"}, neg |-> TRUE]}, {})
Altered == Chunk("d3", "h2", {[words |-> {"a"}, neg |-> FALSE]}, {})
MCSearchResults == {<<>>, <<Affirms, Affirms, Denies, Altered>>}
Claim(words, numbers, neg, cites) ==
    [words |-> words, numbers |-> numbers, neg |-> neg, cites |-> cites]
MCModelAnswers ==
    {<<>>,
     <<Claim({"a", "b"}, {1}, FALSE, {1}), Claim({"c"}, {}, TRUE, {1})>>,
     <<Claim({"a", "b"}, {}, FALSE, {1, 2}), Claim({"a"}, {2}, FALSE, {1}),
       Claim({"a"}, {}, TRUE, {2}), Claim({"a"}, {}, FALSE, {3}),
       Claim({"a"}, {}, FALSE, {4})>>}

(* ModelPricing: -1 stands for a rate the table does not have. *)
Rates(input, output, read, write, providers) ==
    [input |-> input, output |-> output, cacheRead |-> read,
     cacheWrite |-> write, providers |-> providers]
MCPriceTable ==
    [opus |-> Rates(4, 9, 1, 6, {"anthropic", "foundry"}),
     gpt |-> Rates(3, 7, -1, -1, {"openai", "foundry"}),
     default |-> Rates(1, 2, -1, -1, {})]
MCFamilyOf ==
    [anthropic |-> "anthropic", foundry |-> "foundry", openai |-> "openai",
     openaiadapter |-> "openai"]

(* ReflectionLoop *)
Judged(decision, shape, issues, source, line) ==
    [decision |-> decision, shape |-> shape, issues |-> issues,
     source |-> source, line |-> line]
MCVerdicts ==
    {Judged("keep", TRUE, 0, "none", 0), Judged("keep", TRUE, 1, "none", 0),
     Judged("revise", TRUE, 1, "draft", 1), Judged("revise", TRUE, 1, "request", 2),
     Judged("revise", FALSE, 1, "none", 0)}

(* ProviderAdapters *)
MCDeclared ==
    [p \in Providers |->
        {"native_tools", "images", "json_mode"} \cup (IF p = "ollama" THEN {} ELSE {"json_schema"})]
=============================================================================
