-------------------------------- MODULE Router --------------------------------
(***************************************************************************)
(* Routing with failover (internal/router): Route and Select order a       *)
(* model's channels, RoutingUpstream.Chat tries them one by one, and every *)
(* outcome goes to the health tracker and to the channel's circuit         *)
(* breaker, each under a lock of its own.  Calls overlap, so outcomes      *)
(* arrive late and out of order.  Time is counted as what is left of       *)
(* openFor and as the age of the health window's seconds.                  *)
(***************************************************************************)
EXTENDS Integers, Sequences, FiniteSets, FiniteSetsExt

CONSTANTS
    Channels,
    RouteOf,          \* [models -> sequences of channels], BuildSnapshot's table
    RouteCalls,       \* concurrent callers
    MinRequests,      \* failures in a row that trip a breaker
    MaxProbes,
    OpenFor,          \* seconds a breaker stays open
    HealthWindow,     \* seconds of the failure window
    MaxOutcomes,      \* bound on the outcomes of one second
    MaxTroubles       \* bound on outages, bad requests and clients that go away

ASSUME RouterAssumption ==
    /\ \A m \in DOMAIN RouteOf : RouteOf[m] \in Seq(Channels) /\ RouteOf[m] # <<>>
    /\ MinRequests \in Nat \ {0} /\ MaxProbes \in Nat /\ OpenFor \in Nat \ {0}

VARIABLES
    breaker,          \* state, failures, probes, and what is left of openFor
    seconds,          \* the ring: fail and total of the last seconds, by age
    healthy,          \* the cached health bits
    rcall,            \* where a caller is
    up,               \* environment: the channels that serve
    troubles          \* environment: how much went wrong so far

routerVars == <<breaker, seconds, healthy, rcall, up, troubles>>

IdleRoute == [pc |-> "idle", model |-> CHOOSE m \in DOMAIN RouteOf : TRUE, chain |-> <<>>,
             pos |-> 1, outcome |-> "none", gone |-> FALSE]

\* The channel the call is at.
At(r) == rcall[r].chain[rcall[r].pos]

-----------------------------------------------------------------------------
(* Route and Select *)

IsOpen(c) == breaker[c].state = "open" /\ breaker[c].left > 0

Stable(c) == healthy[c] /\ ~IsOpen(c)

\* The orders Select may put the places of a route in.  The primary is a
\* weighted draw among the stable channels, or among all of them when none is
\* stable; the other stable ones follow, then the rest, as the route has them.
FallbackOrders(route) ==
    {order \in Bijection(DOMAIN route, DOMAIN route) :
        \A i, j \in DOMAIN route : i < j =>
            /\ Stable(route[order[j]]) => Stable(route[order[i]])
            /\ i > 1 /\ Stable(route[order[i]]) = Stable(route[order[j]]) => order[i] < order[j]}

\* Mutant of Select: unstable channels are dropped, not put last.
SelectStableOnly(route) ==
    LET last == {i \in DOMAIN route : i > 1 /\ ~Stable(route[i])} IN
    {SubSeq([i \in DOMAIN route |-> route[order[i]]], 1, Len(route) - Cardinality(last)) :
        order \in FallbackOrders(route)}

Select(route) ==
    {[i \in DOMAIN route |-> route[order[i]]] : order \in FallbackOrders(route)}

Route(r, m) ==
    /\ rcall[r].pc \in {"idle", "failed"}
    /\ \E chain \in Select(RouteOf[m]) :
          rcall' = [rcall EXCEPT ![r] =
                      [IdleRoute EXCEPT !.pc = "gate", !.model = m, !.chain = chain]]
    /\ UNCHANGED <<breaker, seconds, healthy, up, troubles>>

-----------------------------------------------------------------------------
(* Breaker.Allow and Record *)

Half(c) == [breaker[c] EXCEPT !.state = "half_open", !.probes = 0]
Open(c) == [breaker[c] EXCEPT !.state = "open", !.left = OpenFor]

Sent(r) == rcall' = [rcall EXCEPT ![r].pc = "sent"]
Refused(r) == rcall' = [rcall EXCEPT ![r].pc = "health", ![r].outcome = "refused"]

AllowClosed(r, c) ==
    /\ breaker[c].state = "closed"
    /\ Sent(r)
    /\ UNCHANGED breaker

AllowOpen(r, c) ==
    /\ breaker[c].state = "open"
    /\ IF breaker[c].left = 0
       THEN breaker' = [breaker EXCEPT ![c] = Half(c)] /\ Sent(r)
       ELSE Refused(r) /\ UNCHANGED breaker

AllowHalfOpen(r, c) ==
    /\ breaker[c].state = "half_open"
    /\ IF breaker[c].probes < MaxProbes
       THEN breaker' = [breaker EXCEPT ![c].probes = @ + 1] /\ Sent(r)
       ELSE breaker' = [breaker EXCEPT ![c] = Open(c)] /\ Refused(r)

Gate(r) ==
    LET c == At(r) IN
    /\ rcall[r].pc = "gate"
    /\ AllowClosed(r, c) \/ AllowOpen(r, c) \/ AllowHalfOpen(r, c)
    /\ UNCHANGED <<seconds, healthy, up, troubles>>

\* Breaker.Record: outcomes are ignored while open.
Recorded(c, ok) ==
    CASE breaker[c].state = "closed" /\ ok -> [breaker[c] EXCEPT !.failures = 0]
      [] breaker[c].state = "closed" /\ ~ok ->
            IF breaker[c].failures + 1 >= MinRequests
            THEN [Open(c) EXCEPT !.failures = @ + 1]
            ELSE [breaker[c] EXCEPT !.failures = @ + 1]
      [] breaker[c].state = "half_open" /\ ok ->
            [breaker[c] EXCEPT !.state = "closed", !.failures = 0]
      [] breaker[c].state = "half_open" /\ ~ok -> Open(c)
      [] OTHER -> breaker[c]

-----------------------------------------------------------------------------
(* RoutingUpstream.Chat *)

\* HTTPUpstream.Chat returns.  "server" is 5xx, 429, a network error, or a
\* context that the client's departure cancelled.
Answer(r, status) ==
    LET c == At(r) IN
    /\ rcall[r].pc = "sent"
    /\ \/ status = "ok" /\ c \in up /\ ~rcall[r].gone /\ UNCHANGED troubles
       \/ status = "server" /\ (c \notin up \/ rcall[r].gone) /\ UNCHANGED troubles
       \/ status = "client" /\ c \in up /\ troubles < MaxTroubles /\ troubles' = troubles + 1
    /\ rcall' = [rcall EXCEPT ![r].pc = "health", ![r].outcome = status]
    /\ UNCHANGED <<breaker, seconds, healthy, up>>

\* HealthTracker.Record: one ring for all channels; only this channel's bit
\* is recomputed, from the whole ring: unhealthy from half failures on.
RecordHealth(r) ==
    LET fail == IF rcall[r].outcome = "ok" THEN 0 ELSE 1
        now == [seconds EXCEPT ![0].fail = @ + fail, ![0].total = @ + 1]
        Sum(f) == FoldSet(LAMBDA age, sum : sum + f[age], 0, 0 .. HealthWindow)
    IN /\ rcall[r].pc = "health"
       /\ IF seconds[0].total < MaxOutcomes THEN seconds' = now ELSE UNCHANGED seconds
       /\ healthy' = [healthy EXCEPT ![At(r)] =
                        2 * Sum([a \in 0 .. HealthWindow |-> now[a].fail])
                            < Sum([a \in 0 .. HealthWindow |-> now[a].total])]
       /\ rcall' = [rcall EXCEPT ![r].pc = "record"]
       /\ UNCHANGED <<breaker, up, troubles>>

\* What ends the failover: an answer, or an error that IsRetryable rules out.
Returns(out) == out \in {"ok", "client"}

\* The outcome reaches the breaker, and Chat returns or goes on.
RecordBreaker(r) ==
    LET c == rcall[r] IN
    /\ c.pc = "record"
    /\ breaker' = [breaker EXCEPT ![At(r)] = Recorded(At(r), c.outcome = "ok")]
    /\ rcall' = [rcall EXCEPT ![r] =
                    IF Returns(c.outcome) THEN IdleRoute
                    ELSE IF c.pos = Len(c.chain) THEN [c EXCEPT !.pc = "failed"]
                    ELSE [c EXCEPT !.pc = "gate", !.pos = @ + 1]]
    /\ UNCHANGED <<seconds, healthy, up, troubles>>

-----------------------------------------------------------------------------
(* Environment *)

ClientLeaves(r) ==
    /\ rcall[r].pc = "sent" /\ ~rcall[r].gone /\ troubles < MaxTroubles
    /\ troubles' = troubles + 1
    /\ rcall' = [rcall EXCEPT ![r].gone = TRUE]
    /\ UNCHANGED <<breaker, seconds, healthy, up>>

Outage(c) ==
    /\ c \in up /\ troubles < MaxTroubles
    /\ up' = up \ {c}
    /\ troubles' = troubles + 1
    /\ UNCHANGED <<breaker, seconds, healthy, rcall>>

Repair(c) ==
    /\ c \notin up
    /\ up' = up \cup {c}
    /\ UNCHANGED <<breaker, seconds, healthy, rcall, troubles>>

RouterTick ==
    /\ breaker' = [c \in Channels |->
                     [breaker[c] EXCEPT !.left = IF @ = 0 THEN 0 ELSE @ - 1]]
    /\ seconds' = [a \in 0 .. HealthWindow |->
                     IF a = 0 THEN [fail |-> 0, total |-> 0] ELSE seconds[a - 1]]
    /\ UNCHANGED <<healthy, rcall, up, troubles>>

-----------------------------------------------------------------------------
RouterInit ==
    /\ breaker = [c \in Channels |-> [state |-> "closed", failures |-> 0, probes |-> 0, left |-> 0]]
    /\ seconds = [a \in 0 .. HealthWindow |-> [fail |-> 0, total |-> 0]]
    /\ healthy = [c \in Channels |-> TRUE]
    /\ rcall = [r \in RouteCalls |-> IdleRoute]
    /\ up = Channels
    /\ troubles = 0

CallStep(r) ==
    \/ \E m \in DOMAIN RouteOf : Route(r, m)
    \/ Gate(r)
    \/ \E status \in {"ok", "client", "server"} : Answer(r, status)
    \/ RecordHealth(r) \/ RecordBreaker(r)

RouterNext ==
    \/ \E r \in RouteCalls : CallStep(r) \/ ClientLeaves(r)
    \/ \E c \in Channels : Outage(c) \/ Repair(c)
    \/ RouterTick

RouterSpec == RouterInit /\ [][RouterNext]_routerVars

-----------------------------------------------------------------------------
(* Properties *)

Tried(r) == SubSeq(rcall[r].chain, 1, rcall[r].pos)

\* "4xx client errors never retry", and nothing else gives up early
\* (upstream.go): a call tries no channel twice, whatever Route saw of health
\* and breakers; it fails only after every channel of the model failed or
\* refused it; and it goes on only from a failure that is not the client's.
FailoverIsComplete ==
    \A r \in RouteCalls : rcall[r].pc # "idle" =>
        /\ IsInjective(Tried(r))
        /\ rcall[r].pc = "failed" => Range(Tried(r)) = Range(RouteOf[rcall[r].model])
        /\ rcall[r].pc \in {"gate", "sent", "failed"} => rcall[r].outcome # "client"
=============================================================================
