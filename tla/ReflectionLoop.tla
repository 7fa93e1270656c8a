----------------------------- MODULE ReflectionLoop -----------------------------
(***************************************************************************)
(* Reflection on a final answer (reflection/service.py, models.py): one    *)
(* critique of the draft and, when it asks for it, one revision, each a    *)
(* model call without tools under shared limits of time, tokens and cost.  *)
(* Whatever goes wrong, the draft is the answer.  The provider may answer  *)
(* anything, late, or not at all.                                          *)
(***************************************************************************)
EXTENDS Integers, Sequences, FiniteSets, FiniteSetsExt

CONSTANTS
    ReflectionVerdicts, \* what the critique may say: see VerdictIsValid
    DraftLines, RequestLines,
    CritiqueSize, RevisionSize,     \* estimate_tokens() of the two prompts
    CritiqueCap,                    \* 512 in the code
    MaxReflectionIn, MaxReflectionOut, MaxReflectionTotal,
    InputPrice, OutputPrice, MaxReflectionCost,
    ReflectionTime,     \* min of the policy's and the run's remaining time
    MaxRevisions,
    ReportedExtra       \* bound on what a provider reports beyond its cap

VARIABLES
    reflection,         \* [pc, calls, cap, in, out, cost, verdict, selected, outcome]
    reflectionClock,
    reflectionEvents    \* kinds emitted, in order

reflectionVars == <<reflection, reflectionClock, reflectionEvents>>

NoVerdict == [decision |-> "none", shape |-> FALSE, issues |-> 0, source |-> "none", line |-> 0]

ReflectionInit ==
    /\ reflection = [pc |-> "idle", calls |-> 0, cap |-> 0, in |-> 0, out |-> 0, cost |-> 0,
                     verdict |-> NoVerdict, selected |-> "draft", outcome |-> "none"]
    /\ reflectionClock = 0 /\ reflectionEvents = <<>>

(* reflect() on an enabled policy. *)
StartReflection ==
    /\ reflection.pc = "idle"
    /\ reflection' = [reflection EXCEPT !.pc = "critique"]
    /\ reflectionEvents' = Append(reflectionEvents, "started")
    /\ UNCHANGED reflectionClock

(* _finish(): the completed event, then the result. *)
FinishReflection(r, outcome) ==
    /\ reflection' = [r EXCEPT !.pc = "done", !.outcome = outcome, !.cap = 0]
    /\ reflectionEvents' = Append(reflectionEvents, "completed")

-----------------------------------------------------------------------------
(* complete(): the guards before a call. *)

PromptSize == IF reflection.pc = "critique" THEN CritiqueSize ELSE RevisionSize
CallCap == IF reflection.pc = "critique" THEN CritiqueCap ELSE MaxReflectionOut

(* What the output of the call may cost, after the estimated input. *)
AfterInput == MaxReflectionCost - reflection.cost - PromptSize * InputPrice

(* The cap on the output before the cost is looked at. *)
TokenCap ==
    Min({CallCap, MaxReflectionOut - reflection.out,
         MaxReflectionTotal - reflection.in - reflection.out - PromptSize})

Affordable == IF OutputPrice > 0 THEN AfterInput \div OutputPrice ELSE MaxReflectionOut

OverTokens == reflection.in + PromptSize > MaxReflectionIn \/ TokenCap <= 0
OverCost == AfterInput < 0 \/ Affordable <= 0

CallOf(stage) == IF stage = "critique" THEN "critique-called" ELSE "revision-called"

(* The provider is called as a task of its own, or a limit refuses it. *)
CallProvider ==
    /\ reflection.pc \in {"critique", "revision"} /\ UNCHANGED reflectionClock
    /\ IF reflectionClock >= ReflectionTime THEN FinishReflection(reflection, "time_limit")
       ELSE IF OverTokens THEN FinishReflection(reflection, "token_limit")
       ELSE IF OverCost THEN FinishReflection(reflection, "cost_limit")
       ELSE /\ reflection' = [reflection EXCEPT !.pc = CallOf(@), !.calls = @ + 1,
                                                !.cap = Min({TokenCap, Affordable})]
            /\ UNCHANGED reflectionEvents

Called == reflection.pc \in {"critique-called", "revision-called"}
CalledSize == IF reflection.pc = "critique-called" THEN CritiqueSize ELSE RevisionSize

(* The timeout of asyncio.wait(). *)
Waited == Called

(* The wait ends without an answer, or with one that is late: the task is   *)
(* cancelled and what it spent is not counted.                              *)
CallTimesOut ==
    /\ Waited /\ reflectionClock >= ReflectionTime
    /\ FinishReflection(reflection, "time_limit") /\ UNCHANGED reflectionClock

(* The provider raises, or its usage is no count. *)
CallFails ==
    /\ Called /\ reflectionClock < ReflectionTime
    /\ FinishReflection(reflection, "provider_error") /\ UNCHANGED reflectionClock

(* A refusal of the monetary budget or a cancellation is the run's affair.  *)
CallRaises ==
    /\ Called /\ reflection' = [reflection EXCEPT !.pc = "raised", !.cap = 0]
    /\ UNCHANGED <<reflectionClock, reflectionEvents>>

(* The usage is what is reported, and at least the estimates of what was    *)
(* sent and of what can be seen.                                            *)
UsageAfter(sent, reported, floor) ==
    LET in == Max({sent, CalledSize})  out == Max({reported, floor})
    IN [reflection EXCEPT !.in = @ + in, !.out = @ + out,
                          !.cost = @ + in * InputPrice + out * OutputPrice]

WithinTokens(r, floor) ==
    /\ floor <= reflection.cap
    /\ r.in <= MaxReflectionIn /\ r.out <= MaxReflectionOut /\ r.in + r.out <= MaxReflectionTotal

(* The answer arrives in time; floor is the estimate of its text.  Limits   *)
(* are checked again on what it used, then tool calls are refused.          *)
AnswerLimit(r, floor, tools) ==
    IF ~WithinTokens(r, floor) THEN "token_limit"
    ELSE IF r.cost > MaxReflectionCost THEN "cost_limit"
    ELSE IF tools THEN "tool_call_blocked" ELSE "none"

(* ReflectionVerdict: keep has no issues, revise has some. *)
VerdictShape(v) == v.shape /\ (v.decision = "keep" <=> v.issues = 0)

(* _validate_evidence_locations() *)
EvidenceInside(v) ==
    /\ v.source = "draft" => v.line \in 1 .. DraftLines
    /\ v.source = "request" => v.line \in 1 .. RequestLines

(* The critique: an invalid verdict keeps the draft. *)
CritiqueAnswers(v, sent, reported, floor, tools) ==
    /\ reflection.pc = "critique-called" /\ reflectionClock < ReflectionTime
    /\ UNCHANGED reflectionClock
    /\ LET r == UsageAfter(sent, reported, floor)
           limit == AnswerLimit(r, floor, tools)
           heard == IF VerdictShape(v) THEN [r EXCEPT !.verdict = v] ELSE r
       IN IF limit # "none" THEN FinishReflection(r, limit)
          ELSE IF ~VerdictShape(v) \/ ~EvidenceInside(v) THEN FinishReflection(heard, "invalid_verdict")
          ELSE IF v.decision = "keep" \/ MaxRevisions = 0
          THEN /\ reflection' = [heard EXCEPT !.pc = "done", !.outcome = "kept", !.cap = 0]
               /\ reflectionEvents' = reflectionEvents \o <<"verdict", "completed">>
          ELSE /\ reflection' = [heard EXCEPT !.pc = "revision", !.cap = 0]
               /\ reflectionEvents' = Append(reflectionEvents, "verdict")

(* The revision replaces the draft unless nothing but blanks is left of it. *)
RevisionAnswers(sent, reported, floor, blank, tools) ==
    /\ reflection.pc = "revision-called" /\ reflectionClock < ReflectionTime
    /\ UNCHANGED reflectionClock
    /\ LET r == UsageAfter(sent, reported, floor)
           limit == AnswerLimit(r, floor, tools)
       IN IF limit # "none" THEN FinishReflection(r, limit)
          ELSE IF floor = 0 \/ blank THEN FinishReflection(r, "empty_revision")
          ELSE FinishReflection([r EXCEPT !.selected = "revision"], "revised")

ReflectionTick ==
    /\ reflection.pc \notin {"idle", "done", "raised"} /\ reflectionClock < ReflectionTime
    /\ reflectionClock' = reflectionClock + 1
    /\ UNCHANGED <<reflection, reflectionEvents>>

ReflectionNext ==
    \/ StartReflection \/ CallProvider \/ CallTimesOut \/ CallFails \/ CallRaises \/ ReflectionTick
    \/ \E floor \in 0 .. MaxReflectionOut, reported \in 0 .. MaxReflectionOut + ReportedExtra,
          sent \in 0 .. MaxReflectionIn, tools \in BOOLEAN :
           \/ \E blank \in BOOLEAN : RevisionAnswers(sent, reported, floor, blank, tools)
           \/ \E v \in ReflectionVerdicts : CritiqueAnswers(v, sent, reported, floor, tools)

(* asyncio.wait() has a timeout and the clock goes on; nothing is assumed   *)
(* of the provider.                                                         *)
ReflectionFairness ==
    /\ WF_reflectionVars(StartReflection) /\ WF_reflectionVars(CallProvider)
    /\ WF_reflectionVars(CallTimesOut) /\ WF_reflectionVars(ReflectionTick)

-----------------------------------------------------------------------------
(* The draft is replaced only on a verdict to revise whose evidence lies in *)
(* what was shown, by a call that kept within every limit together with the *)
(* one before it; in every other case the draft is the answer.              *)
DraftUnlessRevised ==
    /\ reflection.selected = "revision" =>
           /\ reflection.outcome = "revised" /\ reflection.calls = 2
           /\ reflection.verdict.decision = "revise" /\ reflection.verdict.issues > 0
           /\ reflection.verdict.line <= (IF reflection.verdict.source = "draft" THEN DraftLines ELSE RequestLines)
    /\ reflection.outcome \in {"kept", "revised"} =>
           /\ reflection.in <= MaxReflectionIn /\ reflection.out <= MaxReflectionOut
           /\ reflection.in + reflection.out <= MaxReflectionTotal
           /\ reflection.cost <= MaxReflectionCost

(* No call is made with a cap it may not use up: a provider that keeps to   *)
(* its cap, and counts the prompt as it was estimated, stays within the     *)
(* limits on tokens and on cost (complete()).                               *)
CapsArePayable ==
    Called =>
        /\ reflection.cap > 0 /\ reflection.out + reflection.cap <= MaxReflectionOut
        /\ reflection.in + CalledSize <= MaxReflectionIn
        /\ reflection.in + CalledSize + reflection.out + reflection.cap <= MaxReflectionTotal
        /\ reflection.cost + CalledSize * InputPrice + reflection.cap * OutputPrice <= MaxReflectionCost

(* A reflection that was started ends in time, whatever the provider does,  *)
(* with one completed event or an exception of the run's own.               *)
ReflectionEnds ==
    (reflection.pc = "critique") ~>
        (reflection.pc = "raised" \/ (reflection.pc = "done" /\ reflectionEvents[Len(reflectionEvents)] = "completed"))
=============================================================================
