------------------------------ MODULE MCServices ------------------------------
(***************************************************************************)
(* Instances for TLC of the services around the billing core.  They share  *)
(* no state, so they are checked side by side: focus says which of them    *)
(* moves in a behaviour while the others stay in their initial states, and *)
(* the state graph is the sum of theirs, not the product.  The cache is    *)
(* split further, as its entries do not interact: focus "key" moves an API *)
(* key, "chain" a user's budget chain.  So is the limiter: "windows" moves *)
(* the requests of a key with a rate limit, "slots" those of one with a    *)
(* concurrency limit, "budget" those of one with a concurrency limit whose *)
(* user has a budget.  And so is the router: "router" moves two callers    *)
(* over two channels, "breaker" three callers over one.                    *)
(***************************************************************************)
EXTENDS Refunds, KeyCache, Directory, Identity, Limiter, Router, Metering, TLC

CONSTANTS n1, n2, n3, w1, w2, s1, s2, x1, x2, a1, a2, a3, b1, b2,
          j1, j2, j3, j4, k1, k2, k3, l1, l2, q1, q2, q3, ch1, ch2, m1, m2

VARIABLE focus

servicesVars == <<refundVars, keyVars, dirVars, idVars, limiterVars,
                  routerVars, meterVars, focus>>

-----------------------------------------------------------------------------
(* Values of the constants *)

\* Refunds: two credits within AutoThreshold and one above it, on two shards; a
\* run of the admin API, which has both, and one of cmd/reconcile, which has one.
MCShardOfOrder == [o \in NegOrders |-> IF o = n2 THEN s2 ELSE s1]
MCCredit == [o \in NegOrders |-> IF o = n3 THEN 2 ELSE 1]
MCReachOf == w1 :> RefundShards @@ w2 :> {s1}

\* Directory: two organisations, two teams in one of them or in both, and below
\* them up to two projects and two users, attached or not.
Rows(parents) == [i \in DOMAIN parents |-> [parent |-> parents[i], limit |-> 0]]
Parents == UNION {[1 .. n -> 0 .. 2] : n \in 0 .. MaxRows}
MCFirstTables ==
    {d \in [org : {Rows(<<0, 0>>)},
            team : {Rows(<<1, 1>>), Rows(<<2, 1>>)},
            project : {Rows(p) : p \in Parents},
            user : {Rows(p) : p \in {<<>>, <<1>>, <<2>>, <<0, 1>>, <<1, 0>>,
                                     <<1, 1>>, <<1, 2>>, <<2, 1>>}},
            key : {<<>>}] :
        \A i \in DOMAIN d.user : d.user[i].parent <= Len(d.project)}

\* Identity: two tabs of one browser and one of another, used again and again;
\* a local user may already have a subject's email as name.
MCEmailOf == x1 :> "ann" @@ x2 :> "bob"
MCBrowserOf == a1 :> b1 @@ a2 :> b1 @@ a3 :> b2

\* Limiter: four requests of key "j", with 2 requests per window; three of key
\* "k", with one slot; two of key "l", with one slot, whose user has 3 tokens
\* per window, of which a request takes 2, and whose project has 1 request.
MCKeyOf == [r \in LimitedCalls |-> CASE r \in {j1, j2, j3, j4} -> "j"
                                     [] r \in {k1, k2, k3} -> "k"
                                     [] OTHER -> "l"]
MCEndUserScope == [k \in {"j", "k", "l"} |-> "e"]
MCBudgetsOf == "j" :> <<>> @@ "k" :> <<>> @@ "l" :> <<"user", "project">>
MCWindowLimit ==
    [w \in {"e", "j", "k", "l", "user", "project"} \X {"rpm", "tpm"} |->
        CASE w = <<"j", "rpm">> -> 2 [] w = <<"user", "tpm">> -> 3
          [] w = <<"project", "rpm">> -> 1 [] OTHER -> 0]
MCSlotLimit == "j" :> 0 @@ "k" :> 1 @@ "l" :> 1
MCWeight == [rpm |-> 1, tpm |-> 2]

\* Router: one model with two channels and one with a single channel.
MCRouteOf == "m" :> <<ch1, ch2>> @@ "n" :> <<ch1>>

\* Metering: prices that round, and requests of low and high complexity.
MCAutoPool == <<m1, m2>>
MCCostOf == m1 :> 1 @@ m2 :> 2
MCPrices == {[in |-> 1, out |-> 3], [in |-> 2, out |-> 1]}
MCFeatures == {[length |-> 0, hints |-> 0, tool |-> FALSE],
               [length |-> 10, hints |-> 4, tool |-> TRUE]}

-----------------------------------------------------------------------------
\* What does not move needs one initial state only.
SomeTables == CHOOSE d \in FirstTables : TRUE
SomePrices == CHOOSE t \in [PricedModels -> Prices] : TRUE

ServicesInit ==
    /\ focus \in {"refunds", "key", "chain", "directory", "identity",
                  "windows", "slots", "budget", "router", "breaker", "metering"}
    /\ RefundInit /\ KeyInit /\ IdInit
    /\ LimiterInit /\ RouterInit
    /\ DirInit /\ (focus = "directory" \/ tables = SomeTables)
    /\ MeterInit /\ (focus = "metering" \/ priceTable = SomePrices)

CacheMoves(items) ==
    /\ KeyNext
    /\ \A c \in KeyCallers : caller'[c].pc = "idle" \/ caller'[c].item \in items
    /\ \A i \in CacheItems \ items : stored'[i] = stored[i]

\* The requests of a key are alike: they arrive in a fixed order.  Redis and the
\* database fail for the first one only.
LimiterMoves(calls, until) ==
    \/ \E n \in DOMAIN calls :
         /\ n > 1 => call[calls[n - 1]] # NewCall
         /\ LimitedStep(calls[n]) \/ (n = 1 /\ LimitedFault(calls[n]))
    \/ clock < until /\ LimiterTick

RouterMoves(model, calls) ==
    /\ RouterNext
    /\ \A r \in RouteCalls :
         rcall'[r].pc = "idle" \/ (r \in calls /\ rcall'[r].model = model)

\* In "windows" no request is done: Done leaves the windows alone, and what it
\* does to the slots is seen in "slots" and "budget".
ServicesNext ==
    /\ UNCHANGED focus
    /\ \/ /\ focus = "refunds" /\ RefundNext
          /\ UNCHANGED <<keyVars, dirVars, idVars, limiterVars, routerVars, meterVars>>
       \/ /\ \/ focus = "key" /\ CacheMoves(RawKeys)
             \/ focus = "chain" /\ CacheMoves(ChainUsers)
          /\ UNCHANGED <<refundVars, dirVars, idVars, limiterVars, routerVars, meterVars>>
       \/ /\ focus = "directory" /\ DirNext
          /\ UNCHANGED <<refundVars, keyVars, idVars, limiterVars, routerVars, meterVars>>
       \/ /\ focus = "identity" /\ IdNext
          /\ UNCHANGED <<refundVars, keyVars, dirVars, limiterVars, routerVars, meterVars>>
       \/ /\ \/ /\ focus = "windows" /\ LimiterMoves(<<j1, j2, j3, j4>>, 5)
                /\ \A r \in {j1, j2, j3, j4} : call'[r].pc # "done"
             \/ focus = "slots" /\ LimiterMoves(<<k1, k2, k3>>, LimiterClock)
             \/ focus = "budget" /\ LimiterMoves(<<l1, l2>>, LimiterClock)
          /\ UNCHANGED <<refundVars, keyVars, dirVars, idVars, routerVars, meterVars>>
       \/ /\ \/ focus = "router" /\ RouterMoves("m", {q1, q2})
             \/ focus = "breaker" /\ RouterMoves("n", RouteCalls) /\ ch2 \in up'
          /\ UNCHANGED <<refundVars, keyVars, dirVars, idVars, limiterVars, meterVars>>
       \/ /\ focus = "metering" /\ MeterNext
          /\ UNCHANGED <<refundVars, keyVars, dirVars, idVars, limiterVars, routerVars>>

ServicesSpec == ServicesInit /\ [][ServicesNext]_servicesVars
=============================================================================
