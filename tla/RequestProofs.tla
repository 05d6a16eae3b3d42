---------------------------- MODULE RequestProofs -----------------------------
(***************************************************************************)
(* Proofs about what a request meets on its way: the routing with its      *)
(* failover (Router) and the price of its tokens (Metering), for any routes,*)
(* callers, prices and bounds.                                             *)
(***************************************************************************)
EXTENDS Router, Metering, WellFoundedInduction, TLAPS

\* Most leaves are first-order reasoning: Zenon is tried before the SMT solver.
USE ZenonT(10), SMTT(30)

-----------------------------------------------------------------------------
(* Router *)

CallRecords ==
    [pc : {"idle", "gate", "sent", "health", "record", "failed"},
     model : DOMAIN RouteOf \cup {IdleRoute.model}, chain : Seq(Channels), pos : Nat,
     outcome : {"none", "ok", "client", "server", "refused"}, gone : BOOLEAN]

RouterTypeOK == rcall \in [RouteCalls -> CallRecords]

\* A chain has the channels of the route, each place of it once.
Rearranges(chain, route) ==
    \E order \in Bijection(DOMAIN route, DOMAIN route) :
        chain = [i \in DOMAIN route |-> route[order[i]]]

\* Where a call is in its chain.
RouteOK(r) ==
    rcall[r].pc # "idle" =>
        /\ rcall[r].model \in DOMAIN RouteOf
        /\ Rearranges(rcall[r].chain, RouteOf[rcall[r].model])
        /\ rcall[r].pos \in 1 .. Len(rcall[r].chain)
        /\ rcall[r].pc = "failed" => rcall[r].pos = Len(rcall[r].chain)
        /\ rcall[r].pc \in {"gate", "sent", "failed"} => rcall[r].outcome # "client"

RouterInv ==
    /\ RouterTypeOK
    /\ \A r \in RouteCalls : RouteOK(r)

\* No call has a chain yet.
LEMMA IdleRouteType == IdleRoute \in CallRecords /\ IdleRoute.pc = "idle"
BY DEF IdleRoute, CallRecords

\* No call runs at first.
LEMMA RouterInvInit == RouterInit => RouterInv
<1> SUFFICES ASSUME RouterInit PROVE RouterInv
  OBVIOUS
<1>1. RouterTypeOK
  BY IdleRouteType DEF RouterInit, RouterTypeOK
<1>2. \A r \in RouteCalls : RouteOK(r)
  BY IdleRouteType DEF RouterInit, RouteOK
<1> QED BY <1>1, <1>2 DEF RouterInv

\* A rearranged route is a sequence as long as the route, with its channels.
LEMMA RearrangedRoute ==
    ASSUME NEW route \in Seq(Channels), NEW chain, Rearranges(chain, route)
    PROVE  /\ chain \in Seq(Channels) /\ Len(chain) = Len(route) /\ DOMAIN chain = DOMAIN route
           /\ \A n \in DOMAIN route : \E i \in DOMAIN chain : chain[i] = route[n]
           /\ \A i \in DOMAIN chain : \E n \in DOMAIN route : chain[i] = route[n]
           /\ IsInjective(route) => IsInjective(chain)
<1>1. PICK order \in Bijection(DOMAIN route, DOMAIN route) :
           chain = [i \in DOMAIN route |-> route[order[i]]]
  BY DEF Rearranges
<1>2. /\ order \in [DOMAIN route -> DOMAIN route]
      /\ \A a, b \in DOMAIN route : order[a] = order[b] => a = b
      /\ \A t \in DOMAIN route : \E s \in DOMAIN route : order[s] = t
  BY DEF Bijection, Injection, Surjection, IsInjective
<1>3. DOMAIN route = 1 .. Len(route) /\ Len(route) \in Nat
  OBVIOUS
<1>4. DOMAIN chain = 1 .. Len(route) /\ \A i \in DOMAIN chain : chain[i] \in Channels
  BY <1>1, <1>2, <1>3
<1>5. chain \in Seq(Channels) /\ Len(chain) = Len(route)
  <2>1. chain \in [1 .. Len(route) -> Channels]
    BY <1>1, <1>2, <1>3, <1>4
  <2> QED BY <1>3, <2>1
<1>6. IsInjective(route) => IsInjective(chain)
  BY <1>1, <1>2, <1>3, <1>4 DEF IsInjective
<1> QED BY <1>1, <1>2, <1>3, <1>4, <1>5, <1>6

\* A step of one call, whatever it does to breakers and health.
LEMMA CallOnly ==
    ASSUME RouterInv, NEW r \in RouteCalls, NEW x \in CallRecords,
           rcall' = [rcall EXCEPT ![r] = x], rcall'[r] = x => RouteOK(r)'
    PROVE  RouterInv'
<1>1. RouterTypeOK /\ \A q \in RouteCalls : RouteOK(q)
  BY DEF RouterInv
<1>2. rcall'[r] = x /\ \A q \in RouteCalls : q # r => rcall'[q] = rcall[q]
  BY <1>1 DEF RouterTypeOK
<1>3. RouterTypeOK'
  BY <1>1 DEF RouterTypeOK
<1> QED BY <1>1, <1>2, <1>3 DEF RouterInv, RouteOK

\* Route gives a call a rearrangement of its model's route.
LEMMA RouteStep ==
    ASSUME RouterInv, NEW r \in RouteCalls, NEW m \in DOMAIN RouteOf, Route(r, m)
    PROVE  RouterInv'
<1>1. PICK chain \in Select(RouteOf[m]) :
         rcall' = [rcall EXCEPT ![r] =
                     [IdleRoute EXCEPT !.pc = "gate", !.model = m, !.chain = chain]]
  BY DEF Route
<1>2. RouteOf[m] \in Seq(Channels) /\ RouteOf[m] # <<>>
  BY RouterAssumption DEF RouterAssumption
<1>3. Rearranges(chain, RouteOf[m])
  BY DEF Select, FallbackOrders, Rearranges
<1>4. chain \in Seq(Channels) /\ Len(chain) = Len(RouteOf[m])
  BY <1>2, <1>3, RearrangedRoute
<1>5. 1 \in 1 .. Len(chain)
  BY <1>2, <1>4
<1> DEFINE x == [IdleRoute EXCEPT !.pc = "gate", !.model = m, !.chain = chain]
<1>6. /\ x.pc = "gate" /\ x.model = m /\ x.chain = chain /\ x.pos = 1 /\ x.outcome = "none"
      /\ x \in CallRecords
  BY <1>4 DEF IdleRoute, CallRecords
<1>7. rcall' = [rcall EXCEPT ![r] = x]
  BY <1>1
<1> HIDE DEF x
<1>8. rcall'[r] = x => RouteOK(r)'
  BY <1>3, <1>5, <1>6 DEF RouteOK
<1> QED BY <1>6, <1>7, <1>8, CallOnly

\* Allow lets a call through, or refuses it.
LEMMA GateStep ==
    ASSUME RouterInv, NEW r \in RouteCalls, Gate(r)
    PROVE  RouterInv'
<1> DEFINE sent == [rcall[r] EXCEPT !.pc = "sent"]
           refused == [rcall[r] EXCEPT !.pc = "health", !.outcome = "refused"]
<1>1. rcall[r].pc = "gate" /\ rcall[r] \in CallRecords /\ RouteOK(r)
  BY DEF Gate, RouterInv, RouterTypeOK
<1>2. PICK x \in {sent, refused} : rcall' = [rcall EXCEPT ![r] = x]
  BY DEF Gate, AllowClosed, AllowOpen, AllowHalfOpen, Sent, Refused
<1>3. /\ x \in CallRecords /\ x.model = rcall[r].model
      /\ x.chain = rcall[r].chain /\ x.pos = rcall[r].pos
      /\ x.pc \in {"sent", "health"}
      /\ x.pc = "sent" => x.outcome = rcall[r].outcome
  <2>1. CASE x = sent
    BY <1>1, <2>1 DEF CallRecords
  <2>2. CASE x = refused
    BY <1>1, <2>2 DEF CallRecords
  <2> QED BY <2>1, <2>2
<1> HIDE DEF sent, refused
<1>4. rcall'[r] = x => RouteOK(r)'
  <2>1. /\ x.model \in DOMAIN RouteOf /\ Rearranges(x.chain, RouteOf[x.model])
        /\ x.pos \in 1 .. Len(x.chain)
    BY <1>1, <1>3 DEF RouteOK
  <2>2. x.pc # "failed" /\ (x.pc \in {"gate", "sent", "failed"} => x.outcome # "client")
    BY <1>1, <1>3 DEF RouteOK
  <2> QED BY <2>1, <2>2 DEF RouteOK
<1> QED BY <1>2, <1>3, <1>4, CallOnly

\* Once the outcome is recorded, Chat goes on to the next channel, or ends.
LEMMA RecordStep ==
    ASSUME RouterInv, NEW r \in RouteCalls, RecordBreaker(r)
    PROVE  RouterInv'
<1>1. rcall[r].pc = "record"
  BY DEF RecordBreaker
<1>2. rcall[r] \in CallRecords /\ RouteOK(r)
  BY DEF RouterInv, RouterTypeOK
<1>3. PICK x : /\ rcall' = [rcall EXCEPT ![r] = x]
                /\ x = IF Returns(rcall[r].outcome) THEN IdleRoute
                       ELSE IF rcall[r].pos = Len(rcall[r].chain)
                            THEN [rcall[r] EXCEPT !.pc = "failed"]
                            ELSE [rcall[r] EXCEPT !.pc = "gate", !.pos = @ + 1]
  BY DEF RecordBreaker
<1>4. x \in CallRecords /\ (rcall'[r] = x => RouteOK(r)')
  <2>1. CASE x = IdleRoute
    BY <2>1, IdleRouteType DEF RouteOK
  <2>2. CASE /\ ~Returns(rcall[r].outcome) /\ rcall[r].pos = Len(rcall[r].chain)
             /\ x = [rcall[r] EXCEPT !.pc = "failed"]
    <3>1. /\ x \in CallRecords /\ x.pc = "failed" /\ x.model = rcall[r].model
          /\ x.chain = rcall[r].chain /\ x.pos = rcall[r].pos /\ x.outcome = rcall[r].outcome
      BY <1>2, <2>2 DEF CallRecords
    <3> QED BY <1>1, <1>2, <2>2, <3>1 DEF RouteOK, Returns
  <2>3. CASE /\ ~Returns(rcall[r].outcome) /\ rcall[r].pos # Len(rcall[r].chain)
             /\ x = [rcall[r] EXCEPT !.pc = "gate", !.pos = @ + 1]
    <3>0. rcall[r].pos \in Nat
      BY <1>2 DEF CallRecords
    <3>1. /\ x \in CallRecords /\ x.pc = "gate" /\ x.model = rcall[r].model
          /\ x.chain = rcall[r].chain /\ x.pos = rcall[r].pos + 1
          /\ x.outcome = rcall[r].outcome
      <4> DEFINE n == rcall[r].pos + 1
      <4>1. x = [rcall[r] EXCEPT !.pc = "gate", !.pos = n] /\ n \in Nat
        BY <2>3, <3>0
      <4> HIDE DEF n
      <4>2. x \in CallRecords /\ x.pos = n
        BY <1>2, <4>1 DEF CallRecords
      <4> QED BY <1>2, <4>1, <4>2 DEF CallRecords, n
    <3>2. rcall[r].chain \in Seq(Channels) /\ rcall[r].pos \in 1 .. Len(rcall[r].chain)
      BY <1>1, <1>2 DEF CallRecords, RouteOK
    <3>3. rcall[r].pos + 1 \in 1 .. Len(rcall[r].chain)
      BY <2>3, <3>2
    <3> QED BY <1>1, <1>2, <2>3, <3>1, <3>3 DEF RouteOK, Returns
  <2> QED BY <1>3, <2>1, <2>2, <2>3
<1> QED BY <1>3, <1>4, CallOnly

\* Every step keeps the calls in their chains.
LEMMA RouterInvStep == RouterInv /\ [RouterNext]_routerVars => RouterInv'
<1> SUFFICES ASSUME RouterInv, [RouterNext]_routerVars PROVE RouterInv'
  OBVIOUS
<1>1. RouterTypeOK /\ \A q \in RouteCalls : RouteOK(q)
  BY DEF RouterInv
<1>2. ASSUME NEW r \in RouteCalls, NEW status \in {"ok", "client", "server"}, Answer(r, status)
      PROVE  RouterInv'
  <2> DEFINE x == [rcall[r] EXCEPT !.pc = "health", !.outcome = status]
  <2>1. /\ x \in CallRecords /\ x.pc = "health" /\ x.model = rcall[r].model
        /\ x.chain = rcall[r].chain /\ x.pos = rcall[r].pos
    BY <1>1 DEF RouterTypeOK, CallRecords
  <2>2. /\ rcall[r].pc = "sent" /\ rcall' = [rcall EXCEPT ![r] = x]
    BY <1>1, <1>2 DEF Answer, RouterTypeOK, CallRecords
  <2> HIDE DEF x
  <2>3. rcall'[r] = x => RouteOK(r)'
    BY <1>1, <2>1, <2>2 DEF RouteOK
  <2> QED BY <2>1, <2>2, <2>3, CallOnly
<1>3. ASSUME NEW r \in RouteCalls, RecordHealth(r) PROVE RouterInv'
  <2> DEFINE x == [rcall[r] EXCEPT !.pc = "record"]
  <2>1. /\ x \in CallRecords /\ x.pc = "record" /\ x.model = rcall[r].model
        /\ x.chain = rcall[r].chain /\ x.pos = rcall[r].pos
    BY <1>1 DEF RouterTypeOK, CallRecords
  <2>2. /\ rcall[r].pc = "health" /\ rcall' = [rcall EXCEPT ![r] = x]
    BY <1>1, <1>3 DEF RecordHealth, RouterTypeOK, CallRecords
  <2> HIDE DEF x
  <2>3. rcall'[r] = x => RouteOK(r)'
    BY <1>1, <2>1, <2>2 DEF RouteOK
  <2> QED BY <2>1, <2>2, <2>3, CallOnly
<1>4. ASSUME NEW r \in RouteCalls, ClientLeaves(r) PROVE RouterInv'
  <2> DEFINE x == [rcall[r] EXCEPT !.gone = TRUE]
  <2>1. /\ x \in CallRecords /\ x.pc = rcall[r].pc /\ x.model = rcall[r].model
        /\ x.chain = rcall[r].chain /\ x.pos = rcall[r].pos /\ x.outcome = rcall[r].outcome
    BY <1>1 DEF RouterTypeOK, CallRecords
  <2>2. rcall' = [rcall EXCEPT ![r] = x]
    BY <1>1, <1>4 DEF ClientLeaves, RouterTypeOK, CallRecords
  <2> HIDE DEF x
  <2>3. rcall'[r] = x => RouteOK(r)'
    BY <1>1, <2>1, <2>2 DEF RouteOK
  <2> QED BY <2>1, <2>2, <2>3, CallOnly
<1>5. CASE UNCHANGED rcall
  BY <1>1, <1>5 DEF RouterInv, RouterTypeOK, RouteOK
<1> QED
  BY <1>2, <1>3, <1>4, <1>5, RouteStep, GateStep, RecordStep
  DEF RouterNext, CallStep, Outage, Repair, RouterTick, routerVars

\* The invariant holds in every state of the router.
LEMMA RouterInvariant == RouterSpec => []RouterInv
BY RouterInvInit, RouterInvStep, PTL DEF RouterSpec

\* When no route names a channel twice, which BuildSnapshot leaves to the
\* configuration, a call tries no channel twice, and fails only after every
\* channel of its model failed or refused it.
THEOREM FailoverTriesAll ==
    ASSUME \A m \in DOMAIN RouteOf : IsInjective(RouteOf[m])
    PROVE  RouterSpec => []FailoverIsComplete
<1>1. RouterInv => FailoverIsComplete
  <2> SUFFICES ASSUME RouterInv, NEW r \in RouteCalls, rcall[r].pc # "idle"
               PROVE  /\ IsInjective(Tried(r))
                      /\ rcall[r].pc = "failed" =>
                           Range(Tried(r)) = Range(RouteOf[rcall[r].model])
                      /\ rcall[r].pc \in {"gate", "sent", "failed"} => rcall[r].outcome # "client"
    BY DEF FailoverIsComplete
  <2> DEFINE chain == rcall[r].chain
             route == RouteOf[rcall[r].model]
             pos == rcall[r].pos
  <2>1. /\ rcall[r].model \in DOMAIN RouteOf /\ Rearranges(chain, route)
        /\ pos \in 1 .. Len(chain) /\ (rcall[r].pc = "failed" => pos = Len(chain))
        /\ rcall[r].pc \in {"gate", "sent", "failed"} => rcall[r].outcome # "client"
    BY DEF RouterInv, RouteOK
  <2>2. route \in Seq(Channels) /\ IsInjective(route)
    BY <2>1, RouterAssumption DEF RouterAssumption
  <2>3. Tried(r) = SubSeq(chain, 1, pos)
    BY DEF Tried
  <2> HIDE DEF chain, route, pos
  <2>4. /\ chain \in Seq(Channels) /\ IsInjective(chain)
        /\ \A n \in DOMAIN route : \E i \in DOMAIN chain : chain[i] = route[n]
        /\ \A i \in DOMAIN chain : \E n \in DOMAIN route : chain[i] = route[n]
    BY <2>1, <2>2, RearrangedRoute
  <2>5. /\ DOMAIN Tried(r) = 1 .. pos /\ pos \in DOMAIN chain
        /\ \A i \in 1 .. pos : Tried(r)[i] = chain[i] /\ i \in DOMAIN chain
    BY <2>1, <2>3, <2>4
  <2>6. IsInjective(Tried(r))
    BY <2>4, <2>5 DEF IsInjective
  <2>7. rcall[r].pc = "failed" => Range(Tried(r)) = Range(route)
    <3> SUFFICES ASSUME pos = Len(chain) PROVE Range(Tried(r)) = Range(route)
      BY <2>1
    <3>1. DOMAIN chain = 1 .. pos
      BY <2>4
    <3> QED BY <2>4, <2>5, <3>1 DEF Range
  <2> QED BY <2>1, <2>6, <2>7 DEF route
<1> QED BY <1>1, RouterInvariant, PTL

-----------------------------------------------------------------------------
(* Metering *)

\* A set of naturals has a least element.
LEMMA LeastNatural ==
    ASSUME NEW T, T \subseteq Nat, T # {}
    PROVE  \E x \in T : \A y \in T : x <= y
<1>1. PICK x \in T : \A y \in T : ~(<<y, x>> \in OpToRel(<, Nat))
  BY NatLessThanWellFounded, WFMin
<1>2. ASSUME NEW y \in T PROVE x <= y
  <2>1. ~(y < x)
    BY <1>1 DEF OpToRel
  <2> QED BY <2>1
<1> QED BY <1>2

\* A non-empty list of integers has a largest one.
LEMMA LargestOfList ==
    ASSUME NEW n \in Nat \ {0}, NEW c \in [1 .. n -> Int]
    PROVE  \E i \in 1 .. n : \A j \in 1 .. n : c[i] >= c[j]
<1> DEFINE Has(m) == \E i \in 1 .. m : \A j \in 1 .. m : c[i] >= c[j]
           T == {m \in 1 .. n : ~Has(m)}
<1>0. \A m : Has(m) <=> \E i \in 1 .. m : \A j \in 1 .. m : c[i] >= c[j]
  OBVIOUS
<1> HIDE DEF Has
<1> SUFFICES ASSUME ~Has(n) PROVE FALSE
  BY <1>0
<1>1. T \subseteq Nat /\ n \in T
  OBVIOUS
<1> T # {}
  BY <1>1
<1>2. PICK m \in T : \A k \in T : m <= k
  BY <1>1, LeastNatural
<1>t. m \in 1 .. n /\ ~Has(m)
  OBVIOUS
<1> HIDE DEF T
<1>3. m # 1
  <2>1. Has(1)
    BY <1>0
  <2> QED BY <2>1, <1>t
<1>4. m - 1 \in 1 .. n /\ Has(m - 1)
  BY <1>2, <1>3, <1>t DEF T
<1>5. PICK i \in 1 .. m - 1 : \A j \in 1 .. m - 1 : c[i] >= c[j]
  BY <1>4, <1>0
<1>6. CASE c[i] >= c[m]
  <2>1. i \in 1 .. m /\ \A j \in 1 .. m : c[i] >= c[j]
    BY <1>5, <1>6, <1>t
  <2> QED BY <2>1, <1>0, <1>t
<1>7. CASE ~(c[i] >= c[m])
  <2>1. ASSUME NEW j \in 1 .. m PROVE c[m] >= c[j]
    <3>1. c[m] \in Int /\ c[i] \in Int /\ c[j] \in Int
      BY <1>t
    <3>2. j = m \/ j \in 1 .. m - 1
      BY <1>t
    <3>3. j = m \/ c[i] >= c[j]
      BY <3>2, <1>5
    <3> QED BY <1>7, <3>1, <3>3
  <2>2. m \in 1 .. m
    BY <1>t
  <2> QED BY <2>1, <2>2, <1>0, <1>t
<1> QED BY <1>6, <1>7

\* The auto router picks a model of its pool.
LEMMA PickPriced ==
    ASSUME AutoPool # <<>>, NEW f, NEW maxTokens
    PROVE  Pick(f, maxTokens) \in PricedModels
<1>1. /\ AutoPool \in Seq(PricedModels) /\ CostOf \in [PricedModels -> Int]
      /\ DOMAIN AutoPool = 1 .. Len(AutoPool) /\ Len(AutoPool) \in Nat \ {0}
  BY MeteringAssumption DEF MeteringAssumption
<1>n. PICK n \in Nat \ {0} : n = Len(AutoPool) /\ DOMAIN AutoPool = 1 .. n
  BY <1>1
<1> DEFINE cost == [i \in 1 .. n |-> CostOf[AutoPool[i]]]
           gain == [i \in 1 .. n |-> -CostOf[AutoPool[i]]]
<1>2. ASSUME NEW S, S \subseteq 1 .. n, S # {} PROVE AutoPool[Min(S)] \in PricedModels
  <2>0. S \subseteq Nat
    BY <1>2
  <2>1. \E x \in S : \A y \in S : x <= y
    BY <2>0, <1>2, LeastNatural
  <2>2. Min(S) \in S
    BY <2>1 DEF Min
  <2>3. Min(S) \in DOMAIN AutoPool
    BY <1>n, <1>2, <2>2
  <2> QED BY <1>1, <2>3
<1>3. cost \in [1 .. n -> Int] /\ gain \in [1 .. n -> Int]
  BY <1>1, <1>n
<1>4. MostCapable \in PricedModels
  <2>1. \E i \in 1 .. n : \A j \in 1 .. n : cost[i] >= cost[j]
    BY <1>3, LargestOfList
  <2> DEFINE S == {i \in DOMAIN AutoPool : \A j \in DOMAIN AutoPool :
                      CostOf[AutoPool[i]] >= CostOf[AutoPool[j]]}
  <2>2. S \subseteq 1 .. n /\ S # {}
    BY <1>n, <2>1
  <2>3. AutoPool[Min(S)] \in PricedModels
    BY <1>2, <2>2
  <2> QED BY <2>3 DEF MostCapable
<1>5. Cheapest \in PricedModels
  <2>1. PICK i \in 1 .. n : \A j \in 1 .. n : gain[i] >= gain[j]
    BY <1>3, LargestOfList
  <2> DEFINE S == {k \in DOMAIN AutoPool : \A j \in DOMAIN AutoPool :
                      CostOf[AutoPool[k]] <= CostOf[AutoPool[j]]}
  <2>2. \A j \in 1 .. n : CostOf[AutoPool[i]] <= CostOf[AutoPool[j]]
    <3>1. ASSUME NEW j \in 1 .. n PROVE CostOf[AutoPool[i]] <= CostOf[AutoPool[j]]
      <4>1. gain[i] >= gain[j] /\ gain[i] = -CostOf[AutoPool[i]] /\ gain[j] = -CostOf[AutoPool[j]]
        BY <2>1
      <4>2. CostOf[AutoPool[i]] \in Int /\ CostOf[AutoPool[j]] \in Int
        BY <1>1, <1>n
      <4> QED BY <4>1, <4>2
    <3> QED BY <3>1
  <2>3. S \subseteq 1 .. n /\ S # {}
    BY <1>n, <2>2
  <2>4. AutoPool[Min(S)] \in PricedModels
    BY <1>2, <2>3
  <2> QED BY <2>4 DEF Cheapest
<1>6. AutoPool[1] \in PricedModels
  BY <1>1
<1> QED BY <1>4, <1>5, <1>6 DEF Pick

\* More tokens cost no less, rounding included.
LEMMA DivMonotone ==
    ASSUME NEW a \in Nat, NEW b \in Nat, a <= b, NEW p \in Nat
    PROVE  /\ (a * p) \div PerUnit \in Nat
           /\ (a * p) \div PerUnit <= (b * p) \div PerUnit
<1>1. PerUnit \in Nat \ {0}
  BY MeteringAssumption DEF MeteringAssumption
<1>2. a * p \in Nat /\ b * p \in Nat /\ a * p <= b * p
  OBVIOUS
<1> QED BY <1>1, <1>2

PriceRecords == [in : Nat, out : Nat]

RequestRecords ==
    [pc : {"idle", "precharge", "upstream", "emitted"},
     model : PricedModels \cup {AutoModel}, stream : BOOLEAN, prompt : Nat,
     maxTokens : MaxTokensSet \cup {NoMaxTokens}, pricing : PriceRecords,
     startPrice : PriceRecords, reserved : Int, repriced : BOOLEAN,
     completion : Nat, answered : BOOLEAN,
     status : {"none", "failed", "completed"}, order : Int, detail : Int]

\* What the handler and the two tiers keep of one request: the snapshot is the
\* price at the start, and what a tier charged is what the event says.
ChargedAsEmitted(q) ==
    /\ q.pricing = q.startPrice
    /\ q.order # -1 => q.pc = "emitted" /\ q.order = EventAmount(q)
    /\ q.detail # -1 => q.pc = "emitted" /\ q.detail = EventAmount(q)

\* Behind the router, an event without an answer says failed.
FailedIfUnanswered(q) ==
    Routed /\ q.pc = "emitted" /\ ~q.answered => q.status = "failed"

\* Until the table changes under it, a request is reserved at its snapshot.
ReservedAtSnapshot(q) ==
    /\ q.pc = "precharge" => q.model \in PricedModels
    /\ q.pc = "precharge" /\ ~q.repriced => q.pricing = priceTable[q.model]
    /\ q.pc \in {"upstream", "emitted"} /\ ~q.repriced
          => q.reserved = EstimatePreCharge(q.prompt, q.maxTokens, q.pricing)

\* The four hold of one request.
RequestOK(q) ==
    /\ q \in RequestRecords
    /\ ChargedAsEmitted(q)
    /\ FailedIfUnanswered(q)
    /\ ReservedAtSnapshot(q)

MeterInv ==
    /\ priceTable \in [PricedModels -> Prices]
    /\ DOMAIN mreq = MeteredRequests
    /\ \A r \in MeteredRequests : RequestOK(mreq[r])

\* The amounts are numbers.
LEMMA AmountTyped ==
    ASSUME NEW a \in Nat, NEW b \in Nat, NEW price \in PriceRecords
    PROVE  CalculateAmount(a, b, price) \in Nat
<1>1. price.in \in Nat /\ price.out \in Nat
  BY DEF PriceRecords
<1> HIDE DEF PriceRecords
<1>2. (a * price.in) \div PerUnit \in Nat
  BY <1>1, DivMonotone, a <= a
<1>3. (b * price.out) \div PerUnit \in Nat
  BY <1>1, DivMonotone, b <= b
<1> QED BY <1>2, <1>3 DEF CalculateAmount

\* A reservation is a number, whatever max_tokens says.
LEMMA EstimateTyped ==
    ASSUME NEW a \in Nat, NEW m \in MaxTokensSet \cup {NoMaxTokens},
           NEW price \in PriceRecords
    PROVE  EstimatePreCharge(a, m, price) \in Int
<1> DEFINE n == IF m # NoMaxTokens /\ m < CompletionCap THEN m ELSE CompletionCap
           est == CalculateAmount(a, n, price)
<1>1. n \in Int
  BY MeteringAssumption DEF MeteringAssumption
<1>2. PerUnit \in Nat \ {0} /\ price.in \in Nat /\ price.out \in Nat
  BY MeteringAssumption DEF MeteringAssumption, PriceRecords
<1> HIDE DEF n
<1>3. a * price.in \in Int /\ n * price.out \in Int
  BY <1>1, <1>2
<1>4. est \in Int
  BY <1>2, <1>3 DEF CalculateAmount
<1> HIDE DEF est
<1>5. est + est \div 10 + 1 \in Int
  BY <1>4
<1> QED BY <1>5 DEF EstimatePreCharge, est, n

\* The event's amount is a number.
LEMMA EventTyped ==
    ASSUME NEW q \in RequestRecords
    PROVE  EventAmount(q) \in Nat
<1>1. q.prompt \in Nat /\ q.completion \in Nat /\ q.pricing \in PriceRecords
  BY DEF RequestRecords
<1> QED BY <1>1, AmountTyped DEF EventAmount, PriceFromEvent

\* A request that is not in flight has nothing to keep.
LEMMA IdleOK == RequestOK(IdleRequest)
  BY DEF RequestOK, IdleRequest, RequestRecords, PriceRecords, Unpriced,
         ChargedAsEmitted, FailedIfUnanswered, ReservedAtSnapshot

\* No request has been priced yet.
LEMMA MeterInitOK == MeterInit => MeterInv
  BY IdleOK DEF MeterInit, MeterInv, RequestOK, ReservedAtSnapshot, IdleRequest

\* A step of one request that leaves the price table alone.
LEMMA OneRequest ==
    ASSUME MeterInv, NEW r \in MeteredRequests, NEW q,
           mreq' = [mreq EXCEPT ![r] = q], UNCHANGED priceTable, RequestOK(q)
    PROVE  MeterInv'
<1>1. DOMAIN mreq' = MeteredRequests /\ priceTable' \in [PricedModels -> Prices]
  BY DEF MeterInv
<1>2. ASSUME NEW s \in MeteredRequests PROVE RequestOK(mreq[s])'
  <2>1. mreq'[s] = IF s = r THEN q ELSE mreq[s]
    BY DEF MeterInv
  <2>2. RequestOK(mreq'[s])
    BY <2>1 DEF MeterInv
  <2> QED BY <2>2 DEF RequestOK, ReservedAtSnapshot, ChargedAsEmitted, FailedIfUnanswered,
                      EventAmount, PriceFromEvent
<1> QED BY <1>1, <1>2 DEF MeterInv

\* UpdatePrice marks the requests between their two reads of the table.
LEMMA UpdatePriceOK ==
    ASSUME MeterInv, NEW m \in PricedModels, NEW price \in Prices, UpdatePrice(m, price)
    PROVE  MeterInv'
<1>1. DOMAIN mreq' = MeteredRequests /\ priceTable' \in [PricedModels -> Prices]
  BY DEF MeterInv, UpdatePrice
<1>2. ASSUME NEW r \in MeteredRequests PROVE RequestOK(mreq[r])'
  <2>1. PICK q : q = mreq[r] /\ RequestOK(q)
    BY DEF MeterInv
  <2>2. PICK n : n = mreq'[r]
    OBVIOUS
  <2>3. n = IF q.pc = "precharge" /\ q.model = m THEN [q EXCEPT !.repriced = TRUE] ELSE q
    BY <2>1, <2>2 DEF UpdatePrice
  <2>4. n \in RequestRecords
    BY <2>1, <2>3 DEF RequestOK, RequestRecords
  <2>5. ChargedAsEmitted(n) /\ FailedIfUnanswered(n)
    BY <2>1, <2>3 DEF RequestOK, RequestRecords, ChargedAsEmitted, FailedIfUnanswered,
                      EventAmount, PriceFromEvent
  <2>6. \A k \in PricedModels : k # m => priceTable'[k] = priceTable[k]
    BY DEF UpdatePrice, MeterInv
  <2>7. /\ n.pc = "precharge" => n.model \in PricedModels
        /\ n.pc = "precharge" /\ ~n.repriced => n.pricing = priceTable'[n.model]
        /\ n.pc \in {"upstream", "emitted"} /\ ~n.repriced
             => n.reserved = EstimatePreCharge(n.prompt, n.maxTokens, n.pricing)
    BY <2>1, <2>3, <2>6 DEF RequestOK, RequestRecords, ReservedAtSnapshot
  <2> QED BY <2>2, <2>4, <2>5, <2>7
          DEF RequestOK, ReservedAtSnapshot, ChargedAsEmitted, FailedIfUnanswered,
              EventAmount, PriceFromEvent
<1> QED BY <1>1, <1>2 DEF MeterInv

\* The handler freezes the price it reads, of a model that has one.
LEMMA StartRequestOK ==
    ASSUME MeterInv, NEW r \in MeteredRequests, NEW model \in AskedModels,
           NEW stream \in BOOLEAN, NEW prompt \in Prompts, NEW maxTokens \in MaxTokensSet,
           NEW f \in Features, StartRequest(r, model, stream, prompt, maxTokens, f)
    PROVE  MeterInv'
<1>1. PICK name : name = IF AutoPool # <<>> /\ model = AutoModel
                         THEN Pick(f, maxTokens) ELSE model
  OBVIOUS
<1>2. name \in PricedModels
  BY <1>1, PickPriced DEF AskedModels
<1>3. priceTable[name] \in PriceRecords /\ prompt \in Nat
  BY <1>2, MeteringAssumption DEF MeterInv, MeteringAssumption, PriceRecords
<1>4. PICK q : q = [IdleRequest EXCEPT !.pc = "precharge", !.model = name,
                      !.stream = stream, !.prompt = prompt, !.maxTokens = maxTokens,
                      !.pricing = priceTable[name], !.startPrice = priceTable[name]]
  OBVIOUS
<1>5. /\ q.pc = "precharge" /\ q.model = name /\ q.order = -1 /\ q.detail = -1
      /\ q.pricing = priceTable[name] /\ q.startPrice = priceTable[name]
  BY <1>4 DEF IdleRequest
<1>t. q \in RequestRecords
  <2>1. q = [pc |-> "precharge", model |-> name, stream |-> stream, prompt |-> prompt,
             maxTokens |-> maxTokens, pricing |-> priceTable[name],
             startPrice |-> priceTable[name], reserved |-> 0, repriced |-> FALSE,
             completion |-> 0, answered |-> FALSE, status |-> "none",
             order |-> -1, detail |-> -1]
    BY <1>4 DEF IdleRequest
  <2> QED BY <1>2, <1>3, <2>1 DEF RequestRecords
<1>k. RequestOK(q)
  BY <1>2, <1>5, <1>t DEF RequestOK, ChargedAsEmitted, FailedIfUnanswered, ReservedAtSnapshot
<1>6. mreq' = [mreq EXCEPT ![r] = q] /\ UNCHANGED priceTable
  BY <1>1, <1>4 DEF StartRequest, PriceFor
<1> QED BY <1>k, <1>6, OneRequest

\* A refused request leaves nothing behind.
LEMMA RejectOK ==
    ASSUME MeterInv, NEW r \in MeteredRequests, RejectRequest(r)
    PROVE  MeterInv'
  BY IdleOK, OneRequest DEF RejectRequest

\* The pre-charge reads the table again.
LEMMA PreChargeOK ==
    ASSUME MeterInv, NEW r \in MeteredRequests, PreChargeRequest(r)
    PROVE  MeterInv'
<1>1. PICK q : q = mreq[r] /\ RequestOK(q) /\ q.pc = "precharge"
  BY DEF MeterInv, PreChargeRequest
<1>2. PICK n : n = EstimatePreCharge(q.prompt, q.maxTokens, priceTable[q.model])
  OBVIOUS
<1>3. n \in Int
  <2>1. priceTable[q.model] \in PriceRecords
    BY <1>1, MeteringAssumption
       DEF MeterInv, RequestOK, ReservedAtSnapshot, MeteringAssumption, PriceRecords
  <2>2. q.prompt \in Nat /\ q.maxTokens \in MaxTokensSet \cup {NoMaxTokens}
    BY <1>1 DEF RequestOK, RequestRecords
  <2> QED BY <1>2, <2>1, <2>2, EstimateTyped
<1>4. PICK k : k = [q EXCEPT !.pc = "upstream", !.reserved = n]
  OBVIOUS
<1>5. RequestOK(k)
  <2>1. k \in RequestRecords
    BY <1>1, <1>3, <1>4 DEF RequestOK, RequestRecords
  <2>2. ChargedAsEmitted(k) /\ FailedIfUnanswered(k)
    BY <1>1, <1>4 DEF RequestOK, RequestRecords, ChargedAsEmitted, FailedIfUnanswered
  <2>3. ReservedAtSnapshot(k)
    BY <1>1, <1>2, <1>4 DEF RequestOK, RequestRecords, ReservedAtSnapshot
  <2> QED BY <2>1, <2>2, <2>3 DEF RequestOK
<1>6. mreq' = [mreq EXCEPT ![r] = k] /\ UNCHANGED priceTable
  BY <1>1, <1>2, <1>4 DEF PreChargeRequest, PriceFor, MeterInv
<1> QED BY <1>5, <1>6, OneRequest

\* A chunk is metered.
LEMMA OnChunkOK ==
    ASSUME MeterInv, NEW r \in MeteredRequests, NEW t \in ChunkTokens, OnChunk(r, t)
    PROVE  MeterInv'
<1>1. PICK q : q = mreq[r] /\ RequestOK(q) /\ q.pc = "upstream"
  BY DEF MeterInv, OnChunk
<1>2. PICK n : n = q.completion + t
  OBVIOUS
<1>3. n \in Nat
  BY <1>1, <1>2, MeteringAssumption DEF RequestOK, RequestRecords, MeteringAssumption
<1>4. PICK k : k = [q EXCEPT !.completion = n, !.answered = TRUE]
  OBVIOUS
<1>5. RequestOK(k)
  <2>1. k \in RequestRecords
    BY <1>1, <1>3, <1>4 DEF RequestOK, RequestRecords
  <2>2. ChargedAsEmitted(k) /\ FailedIfUnanswered(k)
    BY <1>1, <1>4 DEF RequestOK, RequestRecords, ChargedAsEmitted, FailedIfUnanswered
  <2>3. ReservedAtSnapshot(k)
    BY <1>1, <1>4 DEF RequestOK, RequestRecords, ReservedAtSnapshot
  <2> QED BY <2>1, <2>2, <2>3 DEF RequestOK
<1>6. mreq' = [mreq EXCEPT ![r] = k] /\ UNCHANGED priceTable
  BY <1>1, <1>2, <1>4 DEF OnChunk, MeterInv
<1> QED BY <1>5, <1>6, OneRequest

\* The event: behind the router, what is not a 2xx has become an error.
LEMMA ChatReturnsOK ==
    ASSUME MeterInv, NEW r \in MeteredRequests, NEW a \in {"2xx", "non2xx", "error"},
           NEW t \in ChunkTokens \cup {0}, ChatReturns(r, a, t)
    PROVE  MeterInv'
<1>1. PICK q : q = mreq[r] /\ RequestOK(q) /\ q.pc = "upstream"
  BY DEF MeterInv, ChatReturns
<1>2. PICK st : st = EventStatus(r, ChatResult(a))
  OBVIOUS
<1>3. PICK n : n = IF q.stream THEN q.completion
                   ELSE IF ChatResult(a) = "2xx" THEN t ELSE 0
  OBVIOUS
<1>4. n \in Nat /\ st \in {"failed", "completed"}
  BY <1>1, <1>2, <1>3, MeteringAssumption
     DEF RequestOK, RequestRecords, MeteringAssumption, EventStatus
<1>5. Routed /\ a # "2xx" => st = "failed"
  BY <1>2 DEF EventStatus, ChatResult, RouterResult
<1>6. PICK k : k = [q EXCEPT !.pc = "emitted", !.status = st,
                             !.answered = q.answered \/ a = "2xx", !.completion = n]
  OBVIOUS
<1>7. RequestOK(k)
  <2>1. k \in RequestRecords
    <3>1. q \in RequestRecords
      BY <1>1 DEF RequestOK
    <3>2. PICK b \in BOOLEAN : b = (q.answered \/ a = "2xx")
      OBVIOUS
    <3>3. k = [q EXCEPT !.pc = "emitted", !.status = st, !.answered = b, !.completion = n]
      BY <1>6, <3>2
    <3> QED BY <1>4, <3>1, <3>3 DEF RequestRecords
  <2>2. ChargedAsEmitted(k)
    BY <1>1, <1>6 DEF RequestOK, RequestRecords, ChargedAsEmitted
  <2>3. FailedIfUnanswered(k)
    BY <1>1, <1>5, <1>6 DEF RequestOK, RequestRecords, FailedIfUnanswered
  <2>4. ReservedAtSnapshot(k)
    BY <1>1, <1>6 DEF RequestOK, RequestRecords, ReservedAtSnapshot
  <2> QED BY <2>1, <2>2, <2>3, <2>4 DEF RequestOK
<1>8. mreq' = [mreq EXCEPT ![r] = k] /\ UNCHANGED priceTable
  BY <1>1, <1>2, <1>3, <1>6 DEF ChatReturns, MeterInv
<1> QED BY <1>7, <1>8, OneRequest

\* The order is priced from the event.
LEMMA OrderPricedOK ==
    ASSUME MeterInv, NEW r \in MeteredRequests, OrderPriced(r)
    PROVE  MeterInv'
<1>1. PICK q : q = mreq[r] /\ RequestOK(q) /\ q.pc = "emitted"
  BY DEF MeterInv, OrderPriced
<1>2. PICK n : n = EventAmount(q) /\ n \in Nat
  BY <1>1, EventTyped DEF RequestOK
<1>3. PICK k : k = [q EXCEPT !.order = n]
  OBVIOUS
<1>4. EventAmount(k) = n
  BY <1>1, <1>2, <1>3 DEF RequestOK, RequestRecords, EventAmount, PriceFromEvent
<1>5. RequestOK(k)
  <2>1. k \in RequestRecords
    BY <1>1, <1>2, <1>3 DEF RequestOK, RequestRecords
  <2>2. ChargedAsEmitted(k)
    BY <1>1, <1>2, <1>3, <1>4 DEF RequestOK, RequestRecords, ChargedAsEmitted
  <2>3. FailedIfUnanswered(k) /\ ReservedAtSnapshot(k)
    BY <1>1, <1>3 DEF RequestOK, RequestRecords, FailedIfUnanswered, ReservedAtSnapshot
  <2> QED BY <2>1, <2>2, <2>3 DEF RequestOK
<1>6. mreq' = [mreq EXCEPT ![r] = k] /\ UNCHANGED priceTable
  BY <1>1, <1>2, <1>3 DEF OrderPriced, MeterInv
<1> QED BY <1>5, <1>6, OneRequest

\* And so is the detail row.
LEMMA DetailPricedOK ==
    ASSUME MeterInv, NEW r \in MeteredRequests, DetailPriced(r)
    PROVE  MeterInv'
<1>1. PICK q : q = mreq[r] /\ RequestOK(q) /\ q.pc = "emitted"
  BY DEF MeterInv, DetailPriced
<1>2. PICK n : n = EventAmount(q) /\ n \in Nat
  BY <1>1, EventTyped DEF RequestOK
<1>3. PICK k : k = [q EXCEPT !.detail = n]
  OBVIOUS
<1>4. EventAmount(k) = n
  BY <1>1, <1>2, <1>3 DEF RequestOK, RequestRecords, EventAmount, PriceFromEvent
<1>5. RequestOK(k)
  <2>1. k \in RequestRecords
    BY <1>1, <1>2, <1>3 DEF RequestOK, RequestRecords
  <2>2. ChargedAsEmitted(k)
    BY <1>1, <1>2, <1>3, <1>4 DEF RequestOK, RequestRecords, ChargedAsEmitted
  <2>3. FailedIfUnanswered(k) /\ ReservedAtSnapshot(k)
    BY <1>1, <1>3 DEF RequestOK, RequestRecords, FailedIfUnanswered, ReservedAtSnapshot
  <2> QED BY <2>1, <2>2, <2>3 DEF RequestOK
<1>6. mreq' = [mreq EXCEPT ![r] = k] /\ UNCHANGED priceTable
  BY <1>1, <1>2, <1>3 DEF DetailPriced, MeterInv
<1> QED BY <1>5, <1>6, OneRequest

\* Every step of the handler, of UpdatePrice and of the tiers that price an event
\* keeps the account of each request.
LEMMA MeterStep == MeterInv /\ [MeterNext]_meterVars => MeterInv'
<1> SUFFICES ASSUME MeterInv, [MeterNext]_meterVars PROVE MeterInv'
  OBVIOUS
<1>1. CASE UNCHANGED meterVars
  BY <1>1 DEF meterVars, MeterInv, RequestOK, ReservedAtSnapshot, ChargedAsEmitted,
              FailedIfUnanswered, EventAmount, PriceFromEvent
<1>2. ASSUME NEW m \in PricedModels, NEW price \in Prices, UpdatePrice(m, price)
      PROVE  MeterInv'
  BY <1>2, UpdatePriceOK
<1>3. ASSUME NEW r \in MeteredRequests, NEW m \in AskedModels, NEW stream \in BOOLEAN,
             NEW prompt \in Prompts, NEW maxTokens \in MaxTokensSet, NEW f \in Features,
             StartRequest(r, m, stream, prompt, maxTokens, f)
      PROVE  MeterInv'
  BY <1>3, StartRequestOK
<1>4. ASSUME NEW r \in MeteredRequests, RejectRequest(r) PROVE MeterInv'
  BY <1>4, RejectOK
<1>5. ASSUME NEW r \in MeteredRequests, PreChargeRequest(r) PROVE MeterInv'
  BY <1>5, PreChargeOK
<1>6. ASSUME NEW r \in MeteredRequests, NEW n \in ChunkTokens, OnChunk(r, n) PROVE MeterInv'
  BY <1>6, OnChunkOK
<1>7. ASSUME NEW r \in MeteredRequests, NEW a \in {"2xx", "non2xx", "error"},
             NEW n \in ChunkTokens \cup {0}, ChatReturns(r, a, n)
      PROVE  MeterInv'
  BY <1>7, ChatReturnsOK
<1>8. ASSUME NEW r \in MeteredRequests, OrderPriced(r) PROVE MeterInv'
  BY <1>8, OrderPricedOK
<1>9. ASSUME NEW r \in MeteredRequests, DetailPriced(r) PROVE MeterInv'
  BY <1>9, DetailPricedOK
<1> QED BY <1>1, <1>2, <1>3, <1>4, <1>5, <1>6, <1>7, <1>8, <1>9 DEF MeterNext

\* The invariant of the handler and of the two tiers that price its event.
THEOREM MeterInvariant == MeterSpec => []MeterInv
  BY MeterInitOK, MeterStep, PTL DEF MeterSpec

\* PriceFromEvent: the order and the detail row are charged at what the price
\* table said when the request started, however often UpdatePrice runs and
\* whenever the tiers price the event.
THEOREM StartPriceIsCharged == MeterSpec => []ChargedAtStartPrice
<1>1. MeterInv => ChargedAtStartPrice
  BY DEF MeterInv, RequestOK, ChargedAsEmitted, ChargedAtStartPrice, EventAmount, PriceFromEvent
<1> QED BY <1>1, MeterInvariant, PTL

\* Behind RoutingUpstream.Chat, which turns every answer but a 2xx into an
\* error, a request that was never answered is free.
THEOREM UnansweredPaysNothing ==
    ASSUME Routed
    PROVE  MeterSpec => []UnansweredIsFree
<1>1. MeterInv => UnansweredIsFree
  BY DEF MeterInv, RequestOK, RequestRecords, ChargedAsEmitted, FailedIfUnanswered,
         UnansweredIsFree, EventAmount
<1> QED BY <1>1, MeterInvariant, PTL

\* EstimatePreCharge reserves at least what CalculateAmount charges for a
\* completion within max_tokens and the cap.
LEMMA EstimateCovers ==
    ASSUME NEW a \in Nat, NEW b \in Nat, NEW m \in MaxTokensSet \cup {NoMaxTokens},
           NEW price \in PriceRecords, b <= CompletionCap, m # NoMaxTokens => b <= m
    PROVE  /\ 0 <= EstimatePreCharge(a, m, price)
           /\ CalculateAmount(a, b, price) <= EstimatePreCharge(a, m, price)
<1> DEFINE n == IF m # NoMaxTokens /\ m < CompletionCap THEN m ELSE CompletionCap
           est == CalculateAmount(a, n, price)
<1>1. n \in Nat /\ b <= n
  BY MeteringAssumption DEF MeteringAssumption
<1> HIDE DEF n
<1>2. price.in \in Nat /\ price.out \in Nat
  BY DEF PriceRecords
<1>3. (b * price.out) \div PerUnit <= (n * price.out) \div PerUnit
  BY <1>1, <1>2, DivMonotone
<1>4. /\ (a * price.in) \div PerUnit \in Nat /\ (b * price.out) \div PerUnit \in Nat
      /\ (n * price.out) \div PerUnit \in Nat
  BY <1>1, <1>2, DivMonotone, a <= a, b <= b, n <= n
<1>5. est \in Nat /\ CalculateAmount(a, b, price) <= est /\ CalculateAmount(a, b, price) \in Nat
  BY <1>3, <1>4 DEF CalculateAmount
<1> HIDE DEF est
<1>6. EstimatePreCharge(a, m, price) = est + est \div 10 + 1
  BY DEF EstimatePreCharge, est, n
<1>7. est \div 10 \in Nat
  BY <1>5
<1> QED BY <1>5, <1>6, <1>7

\* The pre-charge closure's reservation covers the order of every request that
\* was not repriced between its two reads of the table and stays within its
\* max_tokens and the cap: the settlement of such a request only refunds.
THEOREM ReservationCoversCharge == MeterSpec => []ReservationCovers
<1>1. ASSUME MeterInv PROVE ReservationCovers
  <2> SUFFICES ASSUME NEW r \in MeteredRequests,
                      mreq[r].order # -1, ~mreq[r].repriced,
                      mreq[r].completion <= CompletionCap,
                      mreq[r].maxTokens # NoMaxTokens => mreq[r].completion <= mreq[r].maxTokens
               PROVE  mreq[r].order <= mreq[r].reserved
    BY DEF ReservationCovers
  <2>1. PICK q : q = mreq[r] /\ RequestOK(q)
    BY <1>1 DEF MeterInv
  <2>2. /\ q.prompt \in Nat /\ q.completion \in Nat /\ q.pricing \in PriceRecords
        /\ q.maxTokens \in MaxTokensSet \cup {NoMaxTokens}
    BY <2>1 DEF RequestOK, RequestRecords
  <2>3. /\ q.order = EventAmount(q)
        /\ q.reserved = EstimatePreCharge(q.prompt, q.maxTokens, q.pricing)
    BY <2>1 DEF RequestOK, ChargedAsEmitted, ReservedAtSnapshot
  <2>4. /\ 0 <= EstimatePreCharge(q.prompt, q.maxTokens, q.pricing)
        /\ CalculateAmount(q.prompt, q.completion, q.pricing)
             <= EstimatePreCharge(q.prompt, q.maxTokens, q.pricing)
    BY <2>1, <2>2, EstimateCovers
  <2> QED BY <2>1, <2>3, <2>4 DEF EventAmount, PriceFromEvent
<1> QED BY <1>1, MeterInvariant, PTL
=============================================================================
