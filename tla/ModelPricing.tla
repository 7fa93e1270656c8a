------------------------------ MODULE ModelPricing ------------------------------
(***************************************************************************)
(* Prices of model calls (observability/cost_tracker.py).  Before a call   *)
(* the budget reserves a quote for the providers that may answer it; after *)
(* it the usage reported by the one that did is priced exactly, and the    *)
(* tracker of the response adds up its own figure, which is shown rounded  *)
(* to a micro-dollar.  Rates are integers in fractions of a nano-dollar,   *)
(* PerNano of them to one and PerMicro to a micro-dollar, so that a price  *)
(* may fall between two of either.                                         *)
(***************************************************************************)
EXTENDS Integers, FiniteSets, FiniteSetsExt

CONSTANTS
    Models,         \* the names a call may carry, "default" and unknown ones included
    PriceTable,     \* MODEL_PRICING: a record of rates per known model
    ProviderNames,  \* what adapters call themselves
    FamilyOf,       \* aliases of the names; "none" for an unknown one
    PerNano, PerMicro,
    MaxTokensIn, MaxTokensOut,  \* max_input_tokens, max_output_tokens of the quote
    PriceLimit,     \* 2^63 - 1
    MaxRecorded     \* bound on the calls one tracker records

VARIABLES
    quoted,         \* the call: [pc, candidates, amount]
    priced,         \* the last answer: [usage, pair, exact], or NoPrice
    tally           \* the tracker's conversation: [cost, calls, read, write], and
                    \* what the budget charged for it: [charged, budgeted]

pricingVars == <<quoted, priced, tally>>

NoRate == -1
Absent == -1        \* a counter that was not reported
Refused == -1

CeilDiv(a, b) == (a + b - 1) \div b
OrZero(count) == IF count = Absent THEN 0 ELSE count

(* validated_pricing_pair() *)
ValidPair(pair) ==
    /\ pair.model \in DOMAIN PriceTable \ {"default"}
    /\ FamilyOf[pair.provider] \in PriceTable[pair.model].providers

(* _supports_cache_pricing() *)
SupportsCachePricing(provider) == FamilyOf[provider] \in {"anthropic", "foundry"}

(* A cache rate where one is published and the provider bills by it. *)
RateOr(rate, provider, input) ==
    IF SupportsCachePricing(provider) /\ rate # NoRate THEN rate ELSE input

(* The subsets of the input fit in it. *)
UsageFits(u) == OrZero(u.read) + OrZero(u.write) <= u.input

(* Input not cached, read from and written to the cache, and output. *)
Amount(rates, provider, u) ==
    LET read == OrZero(u.read)  write == OrZero(u.write)
    IN (u.input - read - write) * rates.input
       + read * RateOr(rates.cacheRead, provider, rates.input)
       + write * RateOr(rates.cacheWrite, provider, rates.input)
       + u.output * rates.output

(* price_model_usage_nusd(): rounded up; outside BIGINT it raises. *)
PriceUsage(pair, u) ==
    IF ValidPair(pair) /\ UsageFits(u)
       /\ CeilDiv(Amount(PriceTable[pair.model], pair.provider, u), PerNano) <= PriceLimit
    THEN CeilDiv(Amount(PriceTable[pair.model], pair.provider, u), PerNano) ELSE Refused

Usage(input, output, read, write) == [input |-> input, output |-> output, read |-> read, write |-> write]

(* The price classes the whole input of a call may fall in. *)
InputClasses(pair) ==
    LET rates == PriceTable[pair.model]  cached == SupportsCachePricing(pair.provider)
    IN {Usage(MaxTokensIn, MaxTokensOut, Absent, Absent)}
       \union (IF cached /\ rates.cacheRead # NoRate
               THEN {Usage(MaxTokensIn, MaxTokensOut, MaxTokensIn, Absent)} ELSE {})
       \union (IF cached /\ rates.cacheWrite # NoRate
               THEN {Usage(MaxTokensIn, MaxTokensOut, Absent, MaxTokensIn)} ELSE {})

(* quote_model_call_nusd(): the dearest class of the dearest candidate; one *)
(* that cannot be priced fails the quote.                                   *)
QuoteCall(candidates) ==
    IF candidates # {} /\ \A c \in candidates : ValidPair(c) /\ \A u \in InputClasses(c) : PriceUsage(c, u) # Refused
    THEN Max(UNION {{PriceUsage(c, u) : u \in InputClasses(c)} : c \in candidates}) ELSE Refused

NoPrice == [usage |-> Usage(0, 0, Absent, Absent), pair |-> [provider |-> "none", model |-> "none"],
            exact |-> Refused]
EmptyTally == [cost |-> 0, calls |-> 0, read |-> Absent, write |-> Absent,
               charged |-> 0, budgeted |-> TRUE]
Pairs == [provider : ProviderNames, model : Models]

PricingInit ==
    /\ quoted = [pc |-> "idle", candidates |-> {}, amount |-> Refused]
    /\ priced = NoPrice /\ tally = EmptyTally

(* _pricing_candidates(): the configured provider and its fallbacks, as far *)
(* as they are the name of a family (an alias is passed over), each with    *)
(* the one configured model.                                                *)
PricingCandidates(names, model) ==
    {[provider |-> n, model |-> model] : n \in {x \in names : FamilyOf[x] = x}}

(* The budget asks for a quote; a refused one ends the call. *)
QuoteFor(candidates) ==
    /\ quoted.pc = "idle" /\ tally.calls < MaxRecorded
    /\ LET amount == QuoteCall(candidates)
       IN quoted' = [pc |-> IF amount = Refused THEN "idle" ELSE "calling",
                     candidates |-> IF amount = Refused THEN {} ELSE candidates, amount |-> amount]
    /\ UNCHANGED <<priced, tally>>

(* The rates record() uses: those of "default" for an unknown model, and no *)
(* cache rates for a provider or a model that has none.                     *)
TrackedAmount(pair, u) ==
    LET known == pair.model \in DOMAIN PriceTable
        rates == PriceTable[IF known THEN pair.model ELSE "default"]
    IN Amount(IF known THEN rates ELSE [rates EXCEPT !.cacheRead = NoRate, !.cacheWrite = NoRate],
              pair.provider, u)

PlusReported(bucket, value) == IF value = Absent THEN bucket ELSE OrZero(bucket) + value

(* CostTracker.record(): absent counters stay unknown.  The budget, where   *)
(* there is one, charges the exact price.                                   *)
TallyAfter(pair, u, exact) ==
    [cost |-> tally.cost + TrackedAmount(pair, u), calls |-> tally.calls + 1,
     read |-> PlusReported(tally.read, u.read), write |-> PlusReported(tally.write, u.write),
     charged |-> IF exact = Refused THEN tally.charged ELSE tally.charged + exact,
     budgeted |-> tally.budgeted /\ exact # Refused]

(* A candidate answers and reports its usage, within the bounds of the call.*)
AnswerWith(pair, u) ==
    /\ quoted.pc = "calling" /\ pair \in quoted.candidates /\ UsageFits(u)
    /\ priced' = [usage |-> u, pair |-> pair, exact |-> PriceUsage(pair, u)]
    /\ tally' = TallyAfter(pair, u, PriceUsage(pair, u))
    /\ quoted' = [quoted EXCEPT !.pc = "idle"]

(* Without a budget nothing is quoted, and the tracker sees every model. *)
AnswerUnbudgeted(pair, u) ==
    /\ quoted.pc = "idle" /\ tally.calls < MaxRecorded /\ UsageFits(u)
    /\ quoted' = [quoted EXCEPT !.amount = Refused]
    /\ priced' = [usage |-> u, pair |-> pair, exact |-> Refused]
    /\ tally' = TallyAfter(pair, u, Refused)

(* ResponseCostEventSink.totals: the sum to the nearest micro-dollar.  It   *)
(* was added up in floats, so a tie may go either way.                      *)
ShownTotals(cost) == {m \in 0 .. cost : 2 * m * PerMicro - 2 * cost \in (-PerMicro) .. PerMicro}

Usages == {Usage(i, o, r, w) : i \in {0, MaxTokensIn}, o \in 0 .. MaxTokensOut,
                               r \in {Absent} \union 0 .. MaxTokensIn, w \in {Absent, 0, 1}}

PricingNext ==
    \/ \E names \in SUBSET ProviderNames, model \in Models : QuoteFor(PricingCandidates(names, model))
    \/ \E u \in Usages : \/ \E pair \in quoted.candidates : AnswerWith(pair, u)
                         \/ \E pair \in Pairs : AnswerUnbudgeted(pair, u)

-----------------------------------------------------------------------------
(* Whoever of the candidates answers, and however its input was cached, the *)
(* exact price of the call is within the amount that was quoted for it, and *)
(* the call can be priced (quote_model_call_nusd()).                        *)
QuotesCoverTheCall ==
    quoted.pc = "idle" /\ quoted.amount # Refused /\ priced # NoPrice =>
        priced.exact \in 0 .. quoted.amount

(* The tracker and the budget are two computations of one bill: when every  *)
(* call was budgeted, the budget has charged at least the tracker's sum,    *)
(* and the total shown is off what was charged by at most half a            *)
(* micro-dollar and the nano-dollar each call may be rounded up by          *)
(* (record(), totals).                                                      *)
TrackerAgrees ==
    tally.budgeted =>
        /\ tally.charged * PerNano - tally.cost \in 0 .. (PerNano - 1) * tally.calls
        /\ \A m \in ShownTotals(tally.cost) :
               2 * m * PerMicro - 2 * (tally.charged * PerNano) \in
                   (-(PerMicro + 2 * (PerNano - 1) * tally.calls)) .. PerMicro
=============================================================================
