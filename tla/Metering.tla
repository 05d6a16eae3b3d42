------------------------------- MODULE Metering -------------------------------
(***************************************************************************)
(* What one request is charged: internal/gateway/handler.go from the       *)
(* parsed body to the metering event, internal/billing/pricing.go, the     *)
(* auto router, and the two tiers that price the event (orderFromEvent in  *)
(* settle.go, DetailSink.Emit in detail.go).  The price table may change   *)
(* between any two reads of it.                                            *)
(*                                                                         *)
(* PerUnit stands for the 1_000_000 of the price per 1M tokens and is small*)
(* in the instances, so that the rounding of CalculateAmount happens.      *)
(***************************************************************************)
EXTENDS Integers, Sequences, FiniteSetsExt

CONSTANTS
    MeteredRequests,  \* requests in flight
    PricedModels,     \* models of the requests
    AutoModel,        \* the model name "auto"
    AutoPool,         \* Config.AutoRouter.Models, a sequence; <<>> when there is none
    CostOf,           \* [PricedModels -> Nat], cheapest OutputPer1M of its channels
    CostQuality,      \* the dial, 0 .. 10
    Prompts,          \* what EstimatePromptTokens may return
    Features,         \* what complexity looks at: [length, hints, tool]
    MaxTokensSet,     \* values of max_tokens; NoMaxTokens when it is absent
    NoMaxTokens,
    Prices,           \* prices UpdatePrice may set: [in, out]
    PerUnit,          \* tokens a price is for
    CompletionCap,    \* the 16_000 of EstimatePreCharge
    LongOutput,       \* the 2000 of complexity
    ChunkTokens,      \* what CountText may return for one chunk, or usage report
    Routed,           \* whether the upstream is a RoutingUpstream
    MaxCompletion,    \* bound: completion tokens of one request
    MaxUpdates        \* bound: price changes

ASSUME MeteringAssumption ==
    /\ PerUnit \in Nat \ {0} /\ CompletionCap \in Nat
    /\ Prompts \subseteq Nat /\ ChunkTokens \subseteq Nat
    /\ Prices \subseteq [in : Nat, out : Nat]
    /\ MaxTokensSet \ {NoMaxTokens} \subseteq Int
    /\ AutoPool \in Seq(PricedModels) /\ CostOf \in [PricedModels -> Int]

VARIABLES
    priceTable,       \* the live PriceTable
    mreq,             \* the requests
    updates           \* number of UpdatePrice calls so far

meterVars == <<priceTable, mreq, updates>>

-------------------------------------------------------------------------------
(***************************************************************************)
(* internal/billing/pricing.go and internal/router/autorouter.go           *)
(***************************************************************************)

PriceFor(m) == priceTable[m]

CalculateAmount(prompt, completion, p) ==
    (prompt * p.in) \div PerUnit + (completion * p.out) \div PerUnit

\* Mutant of EstimatePreCharge: max_tokens is not reserved.
EstimatePromptOnly(prompt, maxTokens, p) ==
    LET est == CalculateAmount(prompt, 0, p)
    IN  est + est \div 10 + 1

EstimatePreCharge(prompt, maxTokens, p) ==
    LET completion == IF maxTokens # NoMaxTokens /\ maxTokens < CompletionCap
                      THEN maxTokens ELSE CompletionCap
        est == CalculateAmount(prompt, completion, p)
    IN  est + est \div 10 + 1

\* In hundredths: 0.4 for a long prompt, 0.1 per hint up to 0.3, 0.5 for a
\* tool message, 0.1 for a large max_tokens.
Complexity(f, maxTokens) ==
    LET long == maxTokens # NoMaxTokens /\ maxTokens > LongOutput
        score == f.length + 10 * (IF f.hints > 3 THEN 3 ELSE f.hints)
                 + (IF f.tool THEN 50 ELSE 0) + (IF long THEN 10 ELSE 0)
    IN  IF score > 100 THEN 100 ELSE score

\* The first candidate of the pool that no other one undercuts (outbids).
Cheapest ==
    AutoPool[Min({i \in DOMAIN AutoPool : \A j \in DOMAIN AutoPool :
                    CostOf[AutoPool[i]] <= CostOf[AutoPool[j]]})]

MostCapable ==
    AutoPool[Min({i \in DOMAIN AutoPool : \A j \in DOMAIN AutoPool :
                    CostOf[AutoPool[i]] >= CostOf[AutoPool[j]]})]

Pick(f, maxTokens) ==
    IF Len(AutoPool) = 1 THEN AutoPool[1]
    ELSE IF CostQuality = 0 THEN MostCapable
    ELSE IF CostQuality = 10 THEN Cheapest
    ELSE IF Complexity(f, maxTokens) >= (10 - CostQuality) * 9 THEN MostCapable
    ELSE Cheapest

-------------------------------------------------------------------------------
(***************************************************************************)
(* handler.go and the sinks                                                *)
(***************************************************************************)

Unpriced == [in |-> 0, out |-> 0]

IdleRequest ==
    [pc |-> "idle", model |-> AutoModel, stream |-> FALSE, prompt |-> 0,
     maxTokens |-> NoMaxTokens, pricing |-> Unpriced, startPrice |-> Unpriced,
     reserved |-> 0, repriced |-> FALSE, completion |-> 0, answered |-> FALSE,
     status |-> "none", order |-> -1, detail |-> -1]

MeterInit ==
    /\ priceTable \in [PricedModels -> Prices]
    /\ mreq = [r \in MeteredRequests |-> IdleRequest]
    /\ updates = 0

\* UpdatePrice: only requests that have yet to read the table see the new one.
UpdatePrice(m, p) ==
    /\ updates < MaxUpdates
    /\ updates' = updates + 1
    /\ priceTable' = [priceTable EXCEPT ![m] = p]
    /\ mreq' = [r \in MeteredRequests |->
                  IF mreq[r].pc = "precharge" /\ mreq[r].model = m
                  THEN [mreq[r] EXCEPT !.repriced = TRUE] ELSE mreq[r]]

\* handleChat up to the reservation: resolve the model, freeze its price,
\* estimate the prompt.  Without an auto router "auto" is a name like another.
StartRequest(r, model, stream, prompt, maxTokens, f) ==
    LET resolved == IF AutoPool # <<>> /\ model = AutoModel
                    THEN Pick(f, maxTokens) ELSE model
    IN  /\ mreq[r].pc = "idle"
        /\ mreq' = [mreq EXCEPT ![r] =
              [IdleRequest EXCEPT !.pc = "precharge", !.model = resolved,
                 !.stream = stream, !.prompt = prompt, !.maxTokens = maxTokens,
                 !.pricing = PriceFor(resolved), !.startPrice = priceTable[resolved]]]
        /\ UNCHANGED <<priceTable, updates>>

\* The limiter or the pre-charge refuses: no upstream call, no event.
RejectRequest(r) ==
    /\ mreq[r].pc = "precharge"
    /\ mreq' = [mreq EXCEPT ![r] = IdleRequest]
    /\ UNCHANGED <<priceTable, updates>>

\* The pre-charge closure of main.go reads the price table again.
PreChargeRequest(r) ==
    /\ mreq[r].pc = "precharge"
    /\ mreq' = [mreq EXCEPT ![r].pc = "upstream", ![r].reserved =
          EstimatePreCharge(mreq[r].prompt, mreq[r].maxTokens, PriceFor(mreq[r].model))]
    /\ UNCHANGED <<priceTable, updates>>

\* OnChunk: meter the delta and forward it.  Chunks come with a 200 only.
OnChunk(r, n) ==
    /\ mreq[r].pc = "upstream" /\ mreq[r].stream
    /\ mreq[r].completion + n <= MaxCompletion
    /\ mreq' = [mreq EXCEPT ![r].completion = @ + n, ![r].answered = TRUE]
    /\ UNCHANGED <<priceTable, updates>>

\* Mutant of RouterResult: the last answer is passed on.
RouterResultPassing(answer) == answer

\* RoutingUpstream.Chat: an answer that is not a 2xx becomes an error.
RouterResult(answer) == IF answer = "non2xx" THEN "error" ELSE answer

\* What upstream.Chat returns for the upstream's answer: HTTPUpstream passes
\* the answer on, streaming or not; RoutingUpstream wraps it.
ChatResult(answer) == IF Routed THEN RouterResult(answer) ELSE answer

\* handleStream looks at the error only, handleNonStream at the status code too.
EventStatus(r, result) ==
    IF result = "error" \/ (result = "non2xx" /\ ~mreq[r].stream)
    THEN "failed" ELSE "completed"

\* Chat returns and the event is emitted.  A streaming handler has metered the
\* chunks; the other one takes usage.completion_tokens of a 2xx body, if any.
ChatReturns(r, answer, usage) ==
    LET result == ChatResult(answer)
        status == EventStatus(r, result)
    IN  /\ mreq[r].pc = "upstream"
        /\ answer = "non2xx" => mreq[r].completion = 0 /\ ~mreq[r].answered
        /\ mreq' = [mreq EXCEPT ![r].pc = "emitted", ![r].status = status,
              ![r].answered = @ \/ answer = "2xx",
              ![r].completion = IF mreq[r].stream THEN @
                                ELSE IF result = "2xx" THEN usage ELSE 0]
        /\ UNCHANGED <<priceTable, updates>>

\* Mutant of PriceFromEvent: the price is read again.
PriceNow(q) == PriceFor(q.model)

\* The snapshot travels in the event; it is never absent, as WithPriceSnapshot
\* is always given and always answers.
PriceFromEvent(q) == q.pricing

\* Both tiers: a failed request is free, another one pays for its tokens.
EventAmount(q) ==
    IF q.status = "failed" THEN 0
    ELSE CalculateAmount(q.prompt, q.completion, PriceFromEvent(q))

\* orderFromEvent, called by Settler.Handle some time after the emit.
OrderPriced(r) ==
    /\ mreq[r].pc = "emitted" /\ mreq[r].order = -1
    /\ mreq' = [mreq EXCEPT ![r].order = EventAmount(mreq[r])]
    /\ UNCHANGED <<priceTable, updates>>

\* DetailSink.Emit.
DetailPriced(r) ==
    /\ mreq[r].pc = "emitted" /\ mreq[r].detail = -1
    /\ mreq' = [mreq EXCEPT ![r].detail = EventAmount(mreq[r])]
    /\ UNCHANGED <<priceTable, updates>>

AskedModels == PricedModels \cup (IF AutoPool = <<>> THEN {} ELSE {AutoModel})

MeterNext ==
    \/ \E m \in PricedModels, p \in Prices : UpdatePrice(m, p)
    \/ \E r \in MeteredRequests :
          \/ \E m \in AskedModels, stream \in BOOLEAN, prompt \in Prompts,
                maxTokens \in MaxTokensSet, f \in Features :
                StartRequest(r, m, stream, prompt, maxTokens, f)
          \/ RejectRequest(r)
          \/ PreChargeRequest(r)
          \/ \E n \in ChunkTokens : OnChunk(r, n)
          \/ \E a \in {"2xx", "non2xx", "error"}, n \in ChunkTokens \cup {0} :
                ChatReturns(r, a, n)
          \/ OrderPriced(r)
          \/ DetailPriced(r)

MeterSpec == MeterInit /\ [][MeterNext]_meterVars

-------------------------------------------------------------------------------
(***************************************************************************)
(* Properties                                                              *)
(***************************************************************************)

\* In-flight requests are not repriced: the order and the detail row, priced
\* at different times, both use what the table said when the request started,
\* and so agree.
ChargedAtStartPrice ==
    \A r \in MeteredRequests :
        LET q == mreq[r]
            due == IF q.status = "failed" THEN 0
                   ELSE CalculateAmount(q.prompt, q.completion, q.startPrice)
        IN  q.order \in {-1, due} /\ q.detail \in {-1, due}

\* The reservation covers the charge of every request whose completion stays
\* within its max_tokens and the cap, rounding included, unless the price
\* changed between the snapshot and the pre-charge, which reads it again.
ReservationCovers ==
    \A r \in MeteredRequests :
        LET q == mreq[r]
        IN  ( /\ q.order # -1
              /\ ~q.repriced
              /\ q.completion <= CompletionCap
              /\ q.maxTokens # NoMaxTokens => q.completion <= q.maxTokens )
            => q.order <= q.reserved

\* A request the upstream never answered with a 2xx pays nothing, not even
\* its prompt tokens.
UnansweredIsFree ==
    \A r \in MeteredRequests : ~mreq[r].answered => mreq[r].order \in {-1, 0}
===============================================================================
