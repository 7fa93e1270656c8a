--------------------------- MODULE CircuitBreaker ----------------------------
(***************************************************************************)
(* The circuit breaker that all requests of a process share in front of    *)
(* the model provider (security/circuit_breaker.py).  Calls overlap: a     *)
(* call is admitted in one state of the breaker and ends in another.  The  *)
(* blocks under the lock contain no await, so each is one action.          *)
(***************************************************************************)
EXTENDS Integers, FiniteSets, TLAPS

CONSTANTS
    Calls,              \* invocations of call()
    NoCall,
    FailureThreshold,
    RecoveryTimeout,
    MaxResets,          \* bound: invocations of reset()
    MaxClock            \* bound: end of time

ASSUME BreakerConstants ==
    /\ NoCall \notin Calls
    /\ FailureThreshold \in Nat \ {0} /\ RecoveryTimeout \in Nat \ {0}
    /\ MaxResets \in Nat /\ MaxClock \in Nat

VARIABLES
    state,          \* _state
    failureCount,   \* _failure_count
    lastFailure,    \* _last_failure_time
    probe,          \* _probe_token, and _probe_in_flight when it is a call
    epoch,          \* _epoch
    generation,     \* _generation
    now,            \* the clock
    pc,             \* [Calls -> where the call is]
    admission,      \* [Calls -> is_probe, admission_epoch and admission_generation]
    overlapped,     \* history: calls in flight when a failure was counted
    resets,         \* history: how often reset() ran
    resetEpoch      \* history: the epoch that the last reset() began

breaker == <<state, failureCount, lastFailure, probe, epoch, generation>>
history == <<overlapped, resets, resetEpoch>>
vars == <<breaker, now, pc, admission, history>>

States == {"closed", "open", "half_open"}
PCs == {"idle", "running", "succeeded", "failed", "abandoned", "rejected"}
Admission == [kind : {"none", "call", "probe"}, epoch : Nat, generation : Nat]

Init ==
    /\ state = "closed" /\ failureCount = 0 /\ lastFailure = 0 /\ probe = NoCall
    /\ epoch = 0 /\ generation = 0 /\ now = 0
    /\ pc = [c \in Calls |-> "idle"]
    /\ admission = [c \in Calls |-> [kind |-> "none", epoch |-> 0, generation |-> 0]]
    /\ overlapped = {} /\ resets = 0 /\ resetEpoch = 0

Running == {c \in Calls : pc[c] = "running"}
IsProbe(c) == admission[c].kind = "probe"

-----------------------------------------------------------------------------
(* The property state: an open breaker is half-open when its time is up. *)
Current ==
    IF state = "open" /\ now - lastFailure >= RecoveryTimeout THEN "half_open" ELSE state

Reject(c) ==
    /\ pc[c] = "idle"
    /\ Current = "open" \/ (Current = "half_open" /\ probe # NoCall)
    /\ pc' = [pc EXCEPT ![c] = "rejected"]
    /\ UNCHANGED <<breaker, now, admission, history>>

(* Mutant: a half-open breaker admits every call as a trial. *)
AdmitProbeAgain(c) ==
    /\ pc[c] = "idle"
    /\ Current = "half_open"
    /\ state' = "half_open" /\ probe' = c /\ epoch' = epoch + 1
    /\ pc' = [pc EXCEPT ![c] = "running"]
    /\ admission' = [admission EXCEPT ![c] =
                        [kind |-> "probe", epoch |-> epoch + 1, generation |-> generation]]
    /\ UNCHANGED <<failureCount, lastFailure, generation, now, history>>

(* call() of a half-open breaker: one trial call *)
AdmitProbe(c) ==
    /\ pc[c] = "idle"
    /\ Current = "half_open" /\ probe = NoCall
    /\ state' = "half_open" /\ probe' = c /\ epoch' = epoch + 1
    /\ pc' = [pc EXCEPT ![c] = "running"]
    /\ admission' = [admission EXCEPT ![c] =
                        [kind |-> "probe", epoch |-> epoch + 1, generation |-> generation]]
    /\ UNCHANGED <<failureCount, lastFailure, generation, now, history>>

(* call() of a closed breaker *)
AdmitCall(c) ==
    /\ pc[c] = "idle"
    /\ Current = "closed"
    /\ pc' = [pc EXCEPT ![c] = "running"]
    /\ admission' = [admission EXCEPT ![c] =
                        [kind |-> "call", epoch |-> epoch, generation |-> generation]]
    /\ UNCHANGED <<breaker, now, history>>

-----------------------------------------------------------------------------
(* The ends of a call *)

Ends(c, how) ==
    /\ pc[c] = "running"
    /\ pc' = [pc EXCEPT ![c] = how]
    /\ UNCHANGED <<now, admission, resets, resetEpoch>>

(* The trial call succeeds and closes the breaker. *)
ProbeSucceeds(c) ==
    /\ Ends(c, "succeeded") /\ IsProbe(c)
    /\ IF probe = c
       THEN /\ state' = "closed" /\ probe' = NoCall /\ failureCount' = 0
            /\ epoch' = epoch + 1 /\ generation' = generation + 1
            /\ UNCHANGED lastFailure
       ELSE UNCHANGED breaker
    /\ UNCHANGED overlapped

(* Mutant: every success of a closed breaker clears the count. *)
CallSucceedsAnyGeneration(c) ==
    /\ Ends(c, "succeeded") /\ ~IsProbe(c)
    /\ failureCount' = IF state = "closed" /\ admission[c].epoch = epoch THEN 0
                       ELSE failureCount
    /\ UNCHANGED <<state, lastFailure, probe, epoch, generation, overlapped>>

(* A success clears the failures of a closed breaker, if nothing was        *)
(* counted since the call was admitted.                                     *)
CallSucceeds(c) ==
    /\ Ends(c, "succeeded") /\ ~IsProbe(c)
    /\ failureCount' = IF /\ state = "closed" /\ admission[c].epoch = epoch
                          /\ admission[c].generation = generation
                       THEN 0 ELSE failureCount
    /\ UNCHANGED <<state, lastFailure, probe, epoch, generation, overlapped>>

(* The trial call fails and opens the breaker again. *)
ProbeFails(c) ==
    /\ Ends(c, "failed") /\ IsProbe(c)
    /\ IF probe = c
       THEN /\ state' = "open" /\ probe' = NoCall /\ failureCount' = failureCount + 1
            /\ lastFailure' = now /\ epoch' = epoch + 1 /\ generation' = generation + 1
            /\ overlapped' = Running \ {c}
       ELSE UNCHANGED <<breaker, overlapped>>

(* Mutant: every failure counts, whenever its call was admitted. *)
CallFailsAnyEpoch(c) ==
    /\ Ends(c, "failed") /\ ~IsProbe(c)
    /\ failureCount' = failureCount + 1 /\ lastFailure' = now
    /\ generation' = generation + 1 /\ overlapped' = Running \ {c}
    /\ IF failureCount + 1 >= FailureThreshold
       THEN state' = "open" /\ epoch' = epoch + 1 ELSE UNCHANGED <<state, epoch>>
    /\ UNCHANGED probe

(* Mutant: the breaker opens one failure too late. *)
CallFailsOffByOne(c) ==
    /\ Ends(c, "failed") /\ ~IsProbe(c)
    /\ IF admission[c].epoch = epoch
       THEN /\ failureCount' = failureCount + 1 /\ lastFailure' = now
            /\ generation' = generation + 1 /\ overlapped' = Running \ {c}
            /\ IF failureCount + 1 > FailureThreshold
               THEN state' = "open" /\ epoch' = epoch + 1 ELSE UNCHANGED <<state, epoch>>
            /\ UNCHANGED probe
       ELSE UNCHANGED <<breaker, overlapped>>

(* A failure counts in the epoch of its admission; the threshold opens the  *)
(* breaker.                                                                 *)
CallFails(c) ==
    /\ Ends(c, "failed") /\ ~IsProbe(c)
    /\ IF admission[c].epoch = epoch
       THEN /\ failureCount' = failureCount + 1 /\ lastFailure' = now
            /\ generation' = generation + 1 /\ overlapped' = Running \ {c}
            /\ IF failureCount + 1 >= FailureThreshold
               THEN state' = "open" /\ epoch' = epoch + 1 ELSE UNCHANGED <<state, epoch>>
            /\ UNCHANGED probe
       ELSE UNCHANGED <<breaker, overlapped>>

(* Mutant: a cancelled trial call keeps the probe. *)
AbandonKeepsProbe(c) == Ends(c, "abandoned") /\ UNCHANGED <<breaker, overlapped>>

(* A call is cancelled, aborted or refused for a missing capability: a      *)
(* trial call opens the breaker again, another leaves it alone.             *)
Abandon(c) ==
    /\ Ends(c, "abandoned")
    /\ IF IsProbe(c) /\ probe = c
       THEN /\ state' = "open" /\ probe' = NoCall /\ lastFailure' = now
            /\ epoch' = epoch + 1 /\ generation' = generation + 1
            /\ UNCHANGED failureCount
       ELSE UNCHANGED breaker
    /\ UNCHANGED overlapped

(* reset(), which takes no lock *)
Reset ==
    /\ resets < MaxResets /\ resets' = resets + 1 /\ resetEpoch' = epoch + 1
    /\ state' = "closed" /\ failureCount' = 0 /\ probe' = NoCall
    /\ epoch' = epoch + 1 /\ generation' = generation + 1
    /\ UNCHANGED <<lastFailure, now, pc, admission, overlapped>>

Tick ==
    /\ now < MaxClock /\ now' = now + 1
    /\ UNCHANGED <<breaker, pc, admission, history>>

Finish(c) ==
    ProbeSucceeds(c) \/ CallSucceeds(c) \/ ProbeFails(c) \/ CallFails(c) \/ Abandon(c)

Next ==
    \/ \E c \in Calls : Reject(c) \/ AdmitProbe(c) \/ AdmitCall(c) \/ Finish(c)
    \/ Reset \/ Tick

Spec == Init /\ [][Next]_vars

(* Calls end: the runtime bounds each by its deadline and cancels it. *)
FairSpec == Spec /\ \A c \in Calls : WF_vars(Finish(c))

-----------------------------------------------------------------------------
(* Properties *)

(* Every variable has its type. *)
TypeOK ==
    /\ state \in States /\ failureCount \in Nat /\ lastFailure \in Nat
    /\ probe \in Calls \cup {NoCall} /\ epoch \in Nat /\ generation \in Nat /\ now \in Nat
    /\ pc \in [Calls -> PCs] /\ admission \in [Calls -> Admission]
    /\ overlapped \subseteq Calls /\ resets \in Nat /\ resetEpoch \in Nat

(* The breaker is closed exactly while fewer failures than the threshold    *)
(* are counted: late results of overlapping calls neither clear the count   *)
(* of an open breaker nor leave a closed one with a full count.             *)
ThresholdDecides == state = "closed" <=> failureCount < FailureThreshold

(* One request at a time tests the provider: since the last reset() at most *)
(* one trial call is in flight, it holds the probe, and the breaker is      *)
(* half-open.                                                               *)
OneTrialCall ==
    /\ probe # NoCall => state = "half_open"
    /\ \A c \in Running : IsProbe(c) /\ admission[c].epoch > resetEpoch => c = probe

(* Failures that arrive while the breaker is open do not postpone its       *)
(* recovery.                                                                *)
LateFailuresDoNotPostpone ==
    [][state = "open" /\ state' = "open" => lastFailure' = lastFailure]_vars

(* A success does not erase a failure that was counted while it was in      *)
(* flight.                                                                  *)
OverlappedSuccessKeepsCount ==
    [][\A c \in overlapped :
          pc[c] = "running" /\ pc'[c] = "succeeded" => failureCount' = failureCount]_vars

(* A trial call never wedges the breaker: the probe is given back. *)
ProbeReturns == \A c \in Calls : probe = c ~> probe # c

-----------------------------------------------------------------------------
(* Proofs, for every number of calls, threshold and recovery time. *)

(* The probe is a trial call in flight of the current epoch, which began    *)
(* after the last reset(); a half-open breaker has one.                     *)
ProbeRuns ==
    /\ state = "half_open" <=> probe # NoCall
    /\ probe # NoCall => /\ pc[probe] = "running" /\ IsProbe(probe)
                         /\ admission[probe].epoch = epoch /\ epoch > resetEpoch

(* Admissions lie in the past; a call of the current epoch other than the   *)
(* probe was admitted by a breaker that has been closed ever since.         *)
Admitted ==
    /\ resetEpoch <= epoch
    /\ \A c \in Calls : /\ admission[c].epoch <= epoch
                        /\ admission[c].generation <= generation
    /\ \A c \in Running : ~IsProbe(c) /\ admission[c].epoch = epoch => state = "closed"

(* A failure counted in a call's flight starts a generation after its       *)
(* admission; the probe is never one of those calls.                        *)
Overlap ==
    \A c \in overlapped : /\ pc[c] # "idle" /\ c # probe
                          /\ admission[c].generation < generation

BreakerInv == TypeOK /\ ThresholdDecides /\ OneTrialCall /\ ProbeRuns /\ Admitted /\ Overlap

USE DEF States, PCs, Admission, Running, IsProbe

(* The initial state, from the constructor, satisfies the invariant. *)
LEMMA InitInv == Init => BreakerInv
  BY BreakerConstants DEF Init, BreakerInv, TypeOK, ThresholdDecides, OneTrialCall, ProbeRuns,
     Admitted, Overlap

(* Every step of a call, every reset() and every tick preserves it. *)
LEMMA NextInv == BreakerInv /\ [Next]_vars => BreakerInv'
<1> SUFFICES ASSUME BreakerInv, [Next]_vars PROVE BreakerInv'
  OBVIOUS
<1> USE BreakerConstants DEF BreakerInv, TypeOK, ThresholdDecides, OneTrialCall, ProbeRuns,
        Admitted, Overlap, breaker, history, Ends
<1>1. ASSUME NEW c \in Calls, Reject(c) PROVE BreakerInv'
  BY <1>1 DEF Reject
<1>2. ASSUME NEW c \in Calls, AdmitProbe(c) PROVE BreakerInv'
  BY <1>2 DEF AdmitProbe, Current
<1>3. ASSUME NEW c \in Calls, AdmitCall(c) PROVE BreakerInv'
  BY <1>3 DEF AdmitCall, Current
<1>4. ASSUME NEW c \in Calls, ProbeSucceeds(c) PROVE BreakerInv'
  BY <1>4 DEF ProbeSucceeds
<1>5. ASSUME NEW c \in Calls, CallSucceeds(c) PROVE BreakerInv'
  BY <1>5 DEF CallSucceeds
<1>6. ASSUME NEW c \in Calls, ProbeFails(c) PROVE BreakerInv'
  BY <1>6 DEF ProbeFails
<1>7. ASSUME NEW c \in Calls, CallFails(c) PROVE BreakerInv'
  BY <1>7 DEF CallFails
<1>8. ASSUME NEW c \in Calls, Abandon(c) PROVE BreakerInv'
  BY <1>8 DEF Abandon
<1>9. CASE Reset
  BY <1>9 DEF Reset
<1>10. CASE Tick
  BY <1>10 DEF Tick
<1>11. CASE UNCHANGED vars
  BY <1>11 DEF vars
<1>. QED
  BY <1>1, <1>2, <1>3, <1>4, <1>5, <1>6, <1>7, <1>8, <1>9, <1>10, <1>11 DEF Next, Finish

(* The invariant holds in every reachable state of the breaker. *)
THEOREM BreakerInvariant == Spec => []BreakerInv
  BY InitInv, NextInv, PTL DEF Spec

(* All variables of the breaker and of its calls keep their types. *)
THEOREM BreakerTypes == Spec => []TypeOK
<1>1. BreakerInv => TypeOK
  BY DEF BreakerInv
<1>. QED
  BY <1>1, BreakerInvariant, PTL

(* _state is closed exactly while _failure_count is below the threshold. *)
THEOREM ThresholdCorrect == Spec => []ThresholdDecides
<1>1. BreakerInv => ThresholdDecides
  BY DEF BreakerInv
<1>. QED
  BY <1>1, BreakerInvariant, PTL

(* At most one trial call since the last reset() is in flight. *)
THEOREM TrialExclusive == Spec => []OneTrialCall
<1>1. BreakerInv => OneTrialCall
  BY DEF BreakerInv
<1>. QED
  BY <1>1, BreakerInvariant, PTL

(* The failure branch of call() never moves _last_failure_time of an open   *)
(* breaker.                                                                 *)
THEOREM RecoveryOnTime == Spec => LateFailuresDoNotPostpone
<1>1. BreakerInv /\ [Next]_vars => [state = "open" /\ state' = "open" => lastFailure' = lastFailure]_vars
  <2> SUFFICES ASSUME BreakerInv, Next, state = "open", state' = "open"
               PROVE lastFailure' = lastFailure
    OBVIOUS
  <2> USE DEF BreakerInv, TypeOK, ProbeRuns, Admitted, breaker, Ends
  <2>1. ASSUME NEW c \in Calls, ProbeFails(c) \/ CallFails(c) \/ Abandon(c)
        PROVE lastFailure' = lastFailure
    BY <2>1, BreakerConstants DEF ProbeFails, CallFails, Abandon
  <2>2. ASSUME NEW c \in Calls,
               Reject(c) \/ AdmitProbe(c) \/ AdmitCall(c) \/ ProbeSucceeds(c) \/ CallSucceeds(c)
        PROVE lastFailure' = lastFailure
    BY <2>2 DEF Reject, AdmitProbe, AdmitCall, ProbeSucceeds, CallSucceeds
  <2>3. Reset \/ Tick => lastFailure' = lastFailure
    BY DEF Reset, Tick
  <2>. QED
    BY <2>1, <2>2, <2>3 DEF Next, Finish
<1>. QED
  BY <1>1, BreakerInvariant, PTL DEF Spec, LateFailuresDoNotPostpone

(* The success branch of call() never clears a failure that was counted     *)
(* while the call was in flight.                                            *)
THEOREM FailuresAreKept == Spec => OverlappedSuccessKeepsCount
<1>1. BreakerInv /\ [Next]_vars =>
        [\A c \in overlapped :
            pc[c] = "running" /\ pc'[c] = "succeeded" => failureCount' = failureCount]_vars
  <2> SUFFICES ASSUME BreakerInv, Next, NEW c \in overlapped,
                      pc[c] = "running", pc'[c] = "succeeded"
               PROVE failureCount' = failureCount
    OBVIOUS
  <2> USE DEF BreakerInv, TypeOK, Overlap, breaker, Ends
  <2>1. ASSUME NEW d \in Calls, ProbeSucceeds(d) \/ CallSucceeds(d)
        PROVE failureCount' = failureCount
    BY <2>1 DEF ProbeSucceeds, CallSucceeds
  <2>2. ASSUME NEW d \in Calls, Reject(d) \/ AdmitProbe(d) \/ AdmitCall(d) \/ ProbeFails(d)
                                \/ CallFails(d) \/ Abandon(d)
        PROVE failureCount' = failureCount
    BY <2>2 DEF Reject, AdmitProbe, AdmitCall, ProbeFails, CallFails, Abandon
  <2>3. Reset \/ Tick => failureCount' = failureCount
    BY DEF Reset, Tick
  <2>. QED
    BY <2>1, <2>2, <2>3 DEF Next, Finish
<1>. QED
  BY <1>1, BreakerInvariant, PTL DEF Spec, OverlappedSuccessKeepsCount
==============================================================================
