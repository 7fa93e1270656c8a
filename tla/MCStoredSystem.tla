--------------------------- MODULE MCStoredSystem ---------------------------
(***************************************************************************)
(* The instance of StoredSystem for TLC.                                   *)
(***************************************************************************)
EXTENDS StoredSystem, TLC

CONSTANTS
    r1, r2, w1, w2, o1, p1, p2, n1, s1, s2, u1, u2, cx, h1, h2, i1, i2, x1,
    a1, c1, q1, q2, e1, e2, d1, d2, m1, m2, g1, none

(* RunLedger: two conversations of one user and one of another. *)
MCOwnerOf == [c \in {"c1", "c2", "d1"} |-> IF c = "d1" THEN "u2" ELSE "u1"]

(* ChatRequests: a good image, one that is not what it is declared to be,  *)
(* one with too many bytes when decoded; an answer without a block, one    *)
(* with repeated kinds, one with a block that is not closed.               *)
Image(actual, clean) ==
    [encoded |-> TRUE, declared |-> "png", actual |-> actual, width |-> 1,
     bytes |-> 1, clean |-> clean]
Block(kind, closed, long) == [kind |-> kind, closed |-> closed, long |-> long]
MCImages == {Image("png", 1), Image("jpeg", 1), Image("png", 2)}
MCChatAnswers ==
    {<<>>,
     <<Block("code", TRUE, TRUE), Block("html", TRUE, TRUE), Block("code", TRUE, FALSE)>>,
     <<Block("mermaid", TRUE, TRUE), Block("svg", FALSE, TRUE)>>}

(* McpServers: a tool whose schema changes, and a listing with a duplicate *)
(* name and a schema that cannot be enforced.                              *)
MCTransportOf == [p \in Profiles |-> "stdio"]
Listed(schema, flags) == [name |-> "t", schema |-> schema, flags |-> flags]
MCListings ==
    {{Listed("a", {"read_only"})}, {Listed("b", {"read_only"})},
     {Listed("odd", {}), Listed("a", {})}}

(* McpServers: the client *)
PageTool(name, defect, readOnly, destructive) ==
    [name |-> name, defect |-> defect, readOnlyHint |-> readOnly,
     destructiveHint |-> destructive]
MCPageTools ==
    {PageTool("t", "none", "yes", "no"), PageTool("v", "none", "none", "none"),
     PageTool("w", "invalid_tool_schema", "none", "none")}

(* Instructions: a diamond, a chain that is too deep, and                  *)
(* a cycle and a file that only the second candidate reaches.              *)
Tree(a, b, c) ==
    [f \in {"a", "b", "c", "d"} |->
        CASE f = "a" -> a [] f = "b" -> b [] f = "c" -> c [] OTHER -> <<>>]
MCFileTrees ==
    {Tree(<<"b", "c">>, <<"c">>, <<>>), Tree(<<"b">>, <<"a">>, <<>>),
     Tree(<<"b">>, <<"c">>, <<"d">>), Tree(<<>>, <<>>, <<"c">>),
     Tree(<<"b">>, <<>>, <<"d">>)}
MCCandidates == <<"a", "c">>

(* RequestContext: skills that do not fit together, that may not run, that *)
(* are excluded, disabled or irrelevant.                                   *)
Offer(id, enabled, needs, excluded, relevance, pinned, cost, length) ==
    [id |-> id, enabled |-> enabled, needs |-> needs, excluded |-> excluded,
     relevance |-> relevance, pinned |-> pinned, cost |-> cost, length |-> length]
MCSkillSets ==
    {{Offer(1, TRUE, {"read"}, FALSE, 2, FALSE, 3, 3), Offer(2, TRUE, {}, FALSE, 1, TRUE, 2, 2)},
     {Offer(1, TRUE, {"exec"}, FALSE, 2, FALSE, 1, 1), Offer(2, TRUE, {"odd"}, FALSE, 2, FALSE, 1, 1),
      Offer(3, TRUE, {"read"}, TRUE, 2, FALSE, 1, 1), Offer(4, FALSE, {}, FALSE, 1, FALSE, 1, 1)},
     {Offer(1, TRUE, {}, FALSE, 1, FALSE, 4, 1), Offer(2, TRUE, {}, FALSE, 1, FALSE, 2, 1),
      Offer(3, TRUE, {}, FALSE, 0, FALSE, 1, 1)},
     {Offer(1, TRUE, {}, FALSE, 2, FALSE, 1, 5), Offer(2, TRUE, {}, FALSE, 1, FALSE, 1, 3)}}
MCDecisions == [read |-> "allow", exec |-> "deny"]

(* Evaluations: two cases, and runs that pass, fail and never ended. *)
MCFixtureCases ==
    <<[key |-> "a", grounded |-> TRUE, contains |-> {"x"}, forbids |-> {}],
      [key |-> "b", grounded |-> FALSE, contains |-> {}, forbids |-> {"y"}]>>
Event(kind, supported, unsupported) ==
    [kind |-> kind, supported |-> supported, unsupported |-> unsupported]
MCRunFacts ==
    <<[done |-> TRUE, model |-> "m", says |-> {"x"},
       events |-> <<Event("claim_verified", 0, 1), Event("grounded_answer", 1, 0)>>],
      [done |-> TRUE, model |-> "m", says |-> {"y"},
       events |-> <<Event("claim_verified", 1, 0), Event("run_stopped", 0, 0),
                    Event("grounded_answer", 1, 0)>>],
      [done |-> TRUE, model |-> "n", says |-> {}, events |-> <<>>],
      [done |-> FALSE, model |-> "n", says |-> {}, events |-> <<>>]>>

(* DocumentIndex: P ends a paragraph and S is a space. *)
MCTexts == {<<"a", "P", "b", "c", "S", "a", "b", "c", "d">>, <<"a", "b">>}
MCSeparators == <<"P", "S">>

(* ScopedMemory *)
MCContents == {{"a"}, {"a", "b"}}

(* Sessions: a system message, an empty answer and a long tool result;     *)
(* a negative number, none and one message to keep.                        *)
Said(role, tool, text) == [role |-> role, tool |-> tool, text |-> text]
MCKinds ==
    {Said("system", "", "a"), Said("assistant", "", ""), Said("tool", "t", "long")}
MCKeeps == {-1, 0, 1}
=============================================================================
