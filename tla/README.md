# MeterGate: verification of the gateway and its billing

MeterGate is a gateway in front of LLM providers. It reserves money before it
forwards a request, meters the answer, and settles the reservation afterwards,
through a queue, from a different goroutine and often in a different process.
Around that core it limits, routes and authenticates requests, takes payments
and refunds. This directory holds TLA+ models of that code, the TLC runs that
check them on small instances, and TLAPS proofs for every instance.

    tlc -workers 2 -config Settlement.cfg MCSettlement
    tlapm SettlementSafety.tla

## The system

| Part | Source | State it owns | Modelled by |
|---|---|---|---|
| request handler | `gateway/handler.go`, `server.go` | one request in flight | `Settlement`, `Metering` |
| pre-charge, fast path | `billing/precharge.go` | Redis `balance:`, `frozen:`, `precharge:` | `Settlement` |
| settler, slow path | `billing/settle.go` | shard buffers, deadlines, signals | `Settlement`, `SettlerClose` |
| order store | `billing/postgres.go`, `sharded.go` | `orders`, `refunds` rows | `Settlement`, `Refunds` |
| in-process sink | `billing/sink.go` | bounded channel | `InProcess` |
| event bus | `billing/kafka.go`, `kafkaconsumer.go` | writer queue, batch, offsets | `KafkaPipeline` |
| what a user is promised | the two tracks together | | `ChargeOnce` |
| detail tier | `billing/detail.go` | row buffer, deadline | `DetailSink` |
| metering, pricing, auto router | `metering/`, `billing/pricing.go`, `router/autorouter.go` | price table | `Metering` |
| payments | `payment/` | `recharges`, `payments` | `Payments` |
| reconciliation, refunds | `reconciliation/engine.go`, `billing/refund.go`, `cmd/reconcile` | `refunds` | `Refunds` |
| rate limiter | `ratelimit/`, `cmd/metergate/keylimiter.go` | Redis windows and slots | `Limiter` |
| router | `router/` | breakers, health ring | `Router` |
| key and chain cache | `auth/auth.go` (`CachedKeyStore`) | cache entries | `KeyCache` |
| organisations and quotas | `auth/auth.go`, `portal/portal.go` | five tables | `Directory` |
| accounts and OIDC login | `auth/auth.go`, `auth/oidc.go` | `users`, `external_identities`, cookies | `Identity` |
| quota monitor, metrics, ledger adapters | `quota/`, `obs/`, `ledger/` | | not modelled |

How a request passes through them:

    key -> KeyCache -> Limiter -> price snapshot (Metering)
       |
    handler --PreChargeScript--> Redis: balance -> frozen, marker precharge:<req>
       |
       | Router: channels, breakers, failover
       | one event
       +--> DetailSink -> ClickHouse
       v
    Sink channel  or  Kafka topic            (InProcess / KafkaPipeline)
       |
       v
    Settler.Handle -> shard buffer -> flush: INSERT orders, then SettleScript
                                             frozen -> spent, rest -> balance

Money enters by `Payments` and comes back by `Refunds`, both as `TopUp`.

## Modules

The billing modules form three levels; each one implements the one above it.

    ChargeOnce                       what a user sees
       ^  SettlementProvenance (proved), ImplementsChargeOnce (checked)
    Settlement                       scripts, handlers, shards, flushers, orders
       ^  InProcessProofs, KafkaProofs (proved), ImplementsSettlement (checked)
    InProcess   KafkaPipeline

**ChargeOnce** is the abstract ledger. A request is fresh, held, and then paid
or lapsed, never back. A hold is taken from money that is there; a capture is
for exactly the bill, which was written down before and never changes.

**Settlement** is the billing core. Each Lua script is one atomic action.
`Handle` is the critical section under the shard's mutex; `owed` counts calls
that have left it and have not yet executed `signalFlush`. A flusher is a
goroutine that calls `flush`: the shard's `flushLoop`, a goroutine of
`FlushSync`, or `Close`. Its program counter has a state between every two
critical sections: woken, insert (rows taken, not stored), settle (rows stored,
some settled). A pipeline of scripts is one action per script, because other
clients' commands run in between. A process may die at any point and is
restarted with empty memory. How events reach `Handle` is left open: any
process may be handed any emitted event, any number of times. The history
variables `credited`, `spent`, `shortfall`, `settled` and `lapsed` are read by
no action.

**InProcess** adds the sink's channel (`Emit` drops when it is full), its loop,
and the drain of `Close`. `main` closes the sink and not the Settler, so a
graceful end loses what the shards hold, like a crash.

**KafkaPipeline** adds the asynchronous producer, partition logs, one owner per
partition, committed offsets, and `KafkaConsumer.Run`: fetch, hand over one by
one, `FlushSync`, commit. The broker is external: it may deliver a message
twice, lose it (the writer gives up), move a partition at any time, and reject
a commit. Commits of a former owner are accepted. The history `ended` collects
the requests whose events were in a Settler when its process ended: they are the
only ones `NoLoss` gives up, since `kafka_race` shows that their offsets may be
committed. A message that was fetched and not yet handed over is never lost.

**SettlerClose** adds the goroutine that calls `Settler.Close`: close the done
channels, flush shard after shard, wait for the loops. Its steps are steps of
Settlement, among them `CloseDone` and `CallFlush`. `main` never makes this call:
the model says what it would give.

The other modules share no variables with the core or with each other.

**DetailSink**: an `Emit` appends under the mutex and flushes after the unlock,
so flushes of several Emits, of the loop and of `Close` overlap. `Close` waits
for the loop and for nothing else.

**Payments**: a call is one HTTP request, the pay handler's or the webhook's.
`SettleCallback`'s transaction is one step, the credit in Redis behind it
another; the process may die between them. Stripe's ids are stored nowhere, so
`SettleByTxn` looks in vain; the model has it so.

**Refunds**: a runner is one call of `RunDay` with refunds, by the admin API or
by `cmd/reconcile`. Insert, credit and mark are three steps, each of which may
fail before or after it took effect; runners are not serialised. Over a
`ShardedStore` the mark goes to every shard, whose serial ids are its own.

**Metering**: one request from its parsed body to the two amounts computed from
its event. `UpdatePrice` may come between any two reads of the table. Amounts
are computed as the code does, with its two roundings.

**Limiter**: `Allow` asks its layers one by one. `CheckRPM` and `CheckTPM` read
the gateway's clock and then run the script, which may be up to `MaxLag` later;
`Acquire` is four Redis commands. `Allow` passes the retry-after of the end user's
and the key's windows on; `checkAggregateLimits` drops it. A window is the sorted set of the script: members
named by their reading and by `INCR`. What an earlier layer took stays when a later
one rejects, `Done` decrements whether or not there was a slot, and is not sent
when the client has gone.

**Router**: `Select` orders the channels, `Chat` tries them; every outcome goes
to the health ring and then to the breaker, under different locks, so outcomes
of earlier calls arrive in later states.

**KeyCache**: a caller reads the clock, looks at the cache, queries without the
lock and stores later. The history `held` says when a query could last have
given an answer.

**Directory**: the tables, every admin write, the one-query reader the limiter
uses (`ChainOfUser`), and `OrgTree`, whose five queries other calls
interleave and which finds a team by its place in a slice (`TeamAt`). A query may
fail or break off (`ReadTable(n)` reads the first n rows): `OrgTree` skips a
failed one and never asks for `rows.Err`. The tables
a behaviour starts from satisfy the schema's foreign keys (`ForeignKeys`).

**Identity**: local accounts and the OIDC login, with tabs that share a cookie,
callbacks that overlap and a process that dies between their four exchanges.

The `MC` modules give the constants that are functions their values; the `.cfg`
files give the rest. `MCSettlement`, `MCGateway`, `MCKafkaBoth` and `MCServices`
check several questions in one run: a variable (`scenario` or `focus`), chosen initially, says
which component moves, or which faults may happen, and the others stay in
their initial states. Components that share no state lose no behaviour by this,
and the state graph is the sum of theirs, not the product.

Operators introduced as "Mutant of X" are faulty variants of X that no
specification uses; replacing X by one of them makes the property it is meant
for fail, which shows that the property depends on that code.

### Abstractions

* Money is an integer of a small set; the code uses int64 micros. Overflow is
  out of reach of realistic balances and is not modelled.
* In the core an event is a status and the amount `CalculateAmount` would give;
  how the amount comes about is Metering's. `aborted` is never emitted.
* Redis and PostgreSQL are configured. Without Redis there is no reservation
  and `flush` skips the settlement.
* The chunks of 1000 rows of `PostgresOrderStore.InsertOrders` fail like the
  stores of `ShardedStore`: some are stored, the others are not.
* Time is a choice: a deadline that is set may have passed, a marker may expire
  at any moment once `"expire"` is among the faults. Where readings of a clock
  are compared (Limiter, KeyCache, Router) there is a clock.
* `Flushable` is whether the handler's `ResponseWriter` is an `http.Flusher`.
  It is not when metrics are on (`statusRecorder`), which `main` always does.
  Whether a request asks for a stream is the client's free choice.
* A Redis script or command runs at most once per call. A client that retries
  on its own would credit twice: that is the mutant `CreditRetried`.
* The auto router's scores are hundredths, not floating-point numbers.
* How a text is tokenised, which words are hints of complexity and how sessions
  are signed are choices of values.

## Properties and runs

| Run | Instance | Checks | States |
|---|---|---|---|
| `settlement` | race: loop and FlushSync on one shard, 2 users in 2 stores, insert errors, crashes; data: 1 flusher, estimates 0 and 2, amounts -1, 1 and 3, all faults | `TypeOK`, `Conservation`, `FrozenIsReserved`, `OverdraftIsClawback`, `ChargeMatchesOrder`, `NoLostWakeup`, `ImplementsChargeOnce` | 310,572 |
| `gateway` | billing sink: channel of 1, batch of 2, 3 calm (r1 perhaps unreserved) or 2 faulty requests | `SinkTypeOK`, `HandedOver`, `CalmServedIsSettled`, `ImplementsSettlement` | 30,271 |
| | detail sink: 3 rows, batch of 2, failed batches, Close | `DetailOnce`, `GracefulCloseSends`, `AcceptedIsSent` | |
| | payments: 1 recharge, 3 calls, 2 clock readings, all faults | `CreditedOnce`, `PaidByOnePayment` | |
| `settler_close` | 2 shards, each with loop and closer, 3 requests | `ClosedIsDurable`, `CloseReturns` | 47,246 |
| `kafka` | calm: 1 process, 2 requests; faults: 2 processes, 1 request | `KafkaTypeOK`, `CalmPublishedIsSettled`, `ImplementsSettlement` | 13,768 |
| `kafka_rebalance` | 2 processes, 2 messages; partitions move, processes stop, die and restart | `NoLoss` | 392,042 |
| `services` | refunds: 3 orders on 2 shards, one above the threshold, 2 runners, one of which reaches 1 shard, all faults | `RefundedOnce`, `MarkFollowsCredit` | 671,173 |
| | key cache: 1 key, 1 user with 2 chains, 2 callers | `FreshAnswer` | |
| | directory: 2 organisations, 2 teams, up to 2 projects and 2 users, 1 write during the reads, 1 query that fails or breaks off | `TreeAgreesWithChain`, `AttachedTreeIsFull` | |
| | identity: 2 subjects, 3 tabs in 2 browsers, a local user with a subject's name | `OneAccountPerSubject` | |
| | limiter: 4 requests under 2 rpm; 3 requests of one slot; 2 of one slot below a user's tpm and a project's rpm | `WindowBound`, `RetrySuffices`, `SlotsBounded` | |
| | router: 2 callers over 2 channels; 3 callers over 1 | `FailoverIsComplete` | |
| | metering: 1 request, 2 models, 2 price lists, 1 price change | `ChargedAtStartPrice`, `ReservationCovers`, `UnansweredIsFree` | |

Deadlock checking is off everywhere: when every request is done, the system
rests.

What they show, beyond the billing core:

* An event is never in two places of a gateway's memory. It enters when it is
  emitted, unless the channel is full, and leaves settled, with the batch of a
  flush that failed, or with its process.
* Flushes of the detail sink that overlap send no row twice and leave none
  behind; a `Close` after the server has shut down sends everything.
* Whatever calls race, replay or die, a recharge is credited once, for the
  amount of its one payment. (That it is credited at all: `payments_crash`.)
* However many reconciliation runs overlap and fail, an order is refunded at
  most once, and a refund is marked EXECUTED only with the serial number of one
  that was credited. With one store it is that one; with more, see
  `refund_shards`.
* A revoked key is refused to every request that begins 60 s later, however slow
  a query that read it before; an active key is refused for 5 s after an error.
* Where the organisation tree shows a user, it shows the chain and the limits
  that the limiter's query would find in the tables as they were read, also when
  admins write or queries fail in between; without such a write, what the
  limiter enforces. Who is missing from it is another matter (below).
* Overlapping and dying logins never give a subject two accounts.
* A window lets no more through than its limit in any stretch of its length less
  the age of a clock reading; waiting as told by an end user's or a key's window
  suffices; slots are never over-committed while every decrement has its
  increment and the counter has not expired.
* Failover tries every channel once and gives up only then, whatever the breakers
  and the health bits say meanwhile.
* Price changes never reach a request in flight; the estimate covers the charge,
  roundings included, up to max_tokens and the cap.

Runs that show a statement of the repository to be wrong:

| Run | Statement | What happens |
|---|---|---|
| `inprocess_stream` | "Exactly one Event is emitted per request" (`metering/events.go:27`) | a streaming request behind the metrics middleware is pre-charged and answered 500, with no event |
| `inprocess_leak` | "TTL ensures a crashed gateway cannot leak frozen funds forever" (`precharge.go:98`) | the marker expires, `frozen:<user>` keeps the amount |
| `kafka_race` | "Durable-before-commit" (`kafkaconsumer.go:96`), "blocks until every batch is persisted" (`settle.go:185`) | FlushSync finds the buffer empty because the loop is inserting it; the offset is committed first |
| `kafka_insert` | "no loss" (`kafkaconsumer.go:97`) | the insert fails, FlushSync returns nil, the offset is committed |
| `refund_shards` | "executing it credits the user's Redis balance and marks the refund EXECUTED" (`engine.go:17`), "MANUAL left pending" (`engine.go:76`) | over two shards, executing a small refund also marks the large one with the same serial id on the other shard, uncredited and unapproved |
| `payments_crash` | "Credits the balance exactly once, inside the DB transaction that marks the recharge PAID" (`payment.go:111`; also lines 8, 9) | the credit follows the commit; a call that dies in between leaves the recharge PAID, and every later call returns early. Line 157 counts on reconciliation, which reads no recharge |

More that the models show, or that met the eye while modelling, without a run of
its own:

* A consumer group with no committed offset (`OldGroup = FALSE`) starts at the
  end of the log (`kafka.LastOffset`): `NoLoss` fails for what was published
  before the first assignment, or before the first commit when the partition
  then moves.
* The balance may go negative, although `precharge.go:61` calls it "guaranteed
  sufficient"; `OverdraftIsClawback` bounds how far.
* `DetailSink.Emit` is called "non-blocking, drops on full buffer"
  (`detail.go:104`). It does neither: the Emit that fills the buffer flushes it
  itself, waiting for ClickHouse, and the buffer has no limit. `DetailOnce` says
  what is true: only a failed batch loses rows.
* A half-open breaker lets `maxProbes + 1` calls through where `breaker.go:30`
  says `maxProbes`: the call that opens it half-way is not counted. A closed one
  counts failures in a row, where lines 14 and 95 speak of an error rate.
* All channels share one health ring (`health.go:107` never uses `channelID`),
  where line 8 says "per channel": after enough failures of one channel, another
  that has only ever succeeded is recorded as unhealthy. Only `Record` refreshes
  a bit; the ticker of lines 15 and 25 does not exist.
* A request over the budget of a user, project, team or organisation is told
  "Retry-After: 0" (`keylimiter.go:97`, `125`, `handler.go:88`), and one that met
  a Redis error 30 s, whatever the window holds.
* With a single `HTTPUpstream` a stream that is answered with an error status
  would be emitted as completed and pay for its prompt, against `settle.go:239`
  (`UnansweredIsFree` with `Routed = FALSE`). As the server is wired no stream
  gets that far: `handler.go:175` refuses it (`inprocess_stream`).
* Over a whole window the rate limit can be passed by requests whose clock was
  read before and whose script runs after a newer one's pruning
  (`WindowBound` with `MaxLag` left out of the stretch).
* A slot is kept, until its counter expires, by a request that a later layer
  rejects or whose client goes away, and decremented by requests that never had
  one (`keylimiter.go:139`).
* A late failure of a refused call re-opens a half-open breaker; clients that
  leave and 4xx answers count as failures of the channel.
* An OIDC login whose user name exists, also after a crash between `Register`
  and `linkSubject`, panics at `oidc.go:141`.
* `OrgTree` shows nothing behind the first project or user without a parent:
  scanning its NULL ends the result set. It also skips a query of teams, projects,
  users or keys that fails (`auth.go:324`, `342`, `364`, `386`) and takes rows
  that break off for the end, and returns no error either way.
  `AttachedTreeIsFull` says when it is complete.
* Stripe's transactions are stored nowhere before the webhook looks them up.
* `ShardedStore` merges replays in shard order where `ledger/adapter.go` says
  oldest first; the auto router's dial is not monotone (`autorouter.go:73`).
* `UpdatePrice` has no caller in the shipped commands: `ChargedAtStartPrice` and
  the exception in `ReservationCovers` are about a price change that an operator's
  code would make.

### Bounds

Two requests are the least that share a batch, a balance and a shard; a third
one makes a partial batch follow a full one. Two flushers on a shard are the
most that run at once (the loop and one of FlushSync or Close). `MaxBuf` and
`MaxLog` hold every request at least once, and a duplicate where duplicates are
the question. `Callers` is the number of goroutines that may be between unlock
and signal. `MaxCredit` caps what is credited to a user. `RebalanceBound` keeps
`kafka_rebalance` small: the log is full before the group first reads it, one of
the two processes is told to stop (both may die), a behaviour ends with the first
event that dies in a Settler, and at most two flushes are under way, one while a
process stops.

`settlement`, `gateway`, `kafka` and `services` choose a scenario in their initial state, so
TLC reports their next-state relations as one action each; the counts of the
expressions inside (`-coverage 1`) show that every action they combine is taken.

Three calls of one recharge are two that race and a replay. Two runners are the
least that overlap; three orders leave one for a later run to find, and two
shards let ids collide. `KeyClock`
passes a whole lifetime. Four requests at a limit of 2 are the least for which a
late script matters; `LimiterClock` passes a window and a counter's TTL. Three
callers of one channel are two probes and one refused; `OpenFor`,
`MinRequests` and `MaxProbes` are small, and `MaxTroubles` and `MaxOutcomes` cap
what the environment does and what a second of the health ring counts. `PerUnit`
is 2, so that both divisions round. `MaxWrites` is one admin call between the
five reads, `MaxCuts` one read that fails or breaks off. Redis and database errors of the limiter hit the first request only,
and the requests under a rate limit stay in service (`Done` leaves windows alone;
slots have instances of their own). In the race scenario of `settlement` the
amounts and estimates are fixed and each user has one request, and in its data
scenario the loop flushes one row at a time: each has the other's part. In the calm scenario of `gateway` only r1 may
be admitted without a reservation: one request without and two with one are the
batches that differ.

### Fairness

`SinkFairness`, `CloseFairness`, `KafkaFairness` and `DetailFairness` say that the Go scheduler runs every goroutine that can run (weak
fairness of each step), that a ticker ticks again, that an upstream call, a
batch and a handler's calls end (they have timeouts), that the Kafka writer
delivers and the group assigns free partitions; `ExpiryFairness`, that Redis
drops expired keys. `LoopExit` is strongly fair: `select` picks among ready
cases at random, so a closed done channel is not passed over forever. No fault
is ever fair, and no client has to send a request. The `Calm` properties are
about behaviours without faults, since after a crash or a failed insert the code
does lose events; `AcceptedIsSent` allows faults and names what they may cost.

## Proofs

Every safety property and every refinement that a passing run checks is also
proved, for all values of the constants.

| Module | About |
|---|---|
| `SettlementProvenance` | types, where charges come from, Settlement implements ChargeOnce, how a row leaves a shard |
| `SettlementSafety` | money, wake-ups, what is frozen; Settler.Close settles all |
| `InProcessProofs` | the sink implements Settlement; events are handed over |
| `KafkaProofs` | the event bus implements Settlement; consumers skip nothing |
| `ServicesProofs` | Payments, Refunds, DetailSink |
| `AccessProofs` | KeyCache, Identity, Directory |
| `RequestProofs` | Router, Metering |
| `LimiterProofs` | Limiter |

Each of them opens with `USE ZenonT(10), SMTT(30)`: most leaves are first-order,
and Zenon settles those in a fraction of the time the translation to SMT takes.

The constants are arbitrary up to the assumption each module names
(`ConstantsAssumption`, `OneLoopPerShard`, `SinkAssumption`, ...): functions have
their domains, amounts are integers, prices and limits natural numbers, a shard
has at most one loop and belongs to one process, `Close` visits every shard of
its process, lifetimes and capacities are positive, the first tables satisfy the
foreign keys. Where a theorem needs more, it says so itself:

| Theorem | Assumes | Otherwise |
|---|---|---|
| `OneCopy` | no failed insert, no failed pipeline, no crash | `HandedOver` says what may be lost |
| `ClosingSettlesAll` | no failed insert or pipeline | the batch is lost |
| `KafkaLosesNothing` | no failed insert; a group that has committed; events in the Settler of a process that ended are exempt | false: `kafka_insert`, `kafka.LastOffset`, `kafka_race` followed by a crash |
| `OneStoreExecutedIsCredited` | no runner reaches two shards | false: `refund_shards` |
| `FailoverTriesAll` | no route names a channel twice | a channel named twice is tried twice |
| `UnansweredPaysNothing` | requests go through `RoutingUpstream` | false: a single `HTTPUpstream`, see above |
| `AttachedUsersAreShown` | in its statement: no write meanwhile, no failed query, nobody detached | users are left out |
| `RetryAfterSuffices` | an end user's or a key's request window; a clock reading is at most a second old | false: the script's extra second no longer covers it |

The billing core:

* **TypeCorrect**, `Spec => []TypeOK`. Inductive as it stands.
* **MoneyIsConserved**, **OverdraftsAreClawbacks**. `Conservation` and
  `OverdraftIsClawback` together are inductive with `TypeOK`: each script moves
  an amount between two terms of the sum, which `PreChargeMoney` and
  `SettleMoney` show user by user.
* **FrozenIsWhatIsReserved**. The sum of a user's reservations is the number of
  its units, pairs of a request and a number up to the amount it reserved; so it
  is a cardinality and no recursion. `FrozenOK` is inductive: a script adds or
  removes the units of one request (`UnitsAddUp`), and others' units are
  elsewhere (`UnitsOfOthers`).
* **WakeupsAreNotLost**. `NoLostWakeup` is inductive: only `TakeBatch` clears a
  deadline, and it empties the buffer in the same critical section; only the
  loop consumes its signal, and then flushes.
* **ChargesMatchOrders**. Not inductive alone. The strengthening (`Provenance`)
  says that every buffered or taken row carries the order of the event its
  request emitted (`RowsAreFaithful`), that a flusher that settles holds only
  rows whose orders are stored (`SettlingIsDurable`), and that a request with a
  marker is neither settled nor lapsed (`OnePhase`). `OrdersAreStable` shows
  that an order is never rewritten.
* **SettlementImplementsChargeOnce**. With `Provenance`, each script maps to a
  step of `ChargeOnce`: `PreChargeScript` to Reserve, `SettleScript` to Capture,
  the TTL to Lapse, an insert to Bill; every other step stutters.

The deployments:

* **SinkImplementsSettlement**, **KafkaImplementsSettlement**. Each deployment's
  step is a step of Settlement.
  For the sink and the bus this needs that the channel holds requests, and that
  a message a consumer holds is in the log (`ConsumerOK`, `BrokerOK`), also
  after a rebalance. Hence **SinkChargesOnce**, **KafkaChargesOnce** and the
  type theorems of the deployments.
* **EventIsHandedOver**, `SinkSpec => HandedOver`. `NoTwoPlaces` says that an
  event has no place before it is emitted and one at most after it; each
  hand-over is shown to move it (`EmitPlaces`, `HandlePlaces`, `TakePlaces`,
  `SettlePlaces`). `AtHome` says that it stays in the process that served the
  request, so another process's death does not touch it. `RowLeaves` gives the
  three ways out of a shard. **OneCopy** adds that without faults only the
  settled way is left.
* **ClosingSettlesAll**. `CloseOK` follows the goroutine in `Close`: the shards
  it has passed are empty, or it is about to take their rows; what was handed
  over is in its shard or settled. `WaitFindsNothing` shows that when the loops have
  left, no row is anywhere.
* **KafkaLosesNothing**. `Custody` says why the highest fetched offset may be
  committed: everything before a message a consumer holds, and before the
  position it fetches from, is safe (stored, in a Settler, or lost with one) or
  in the same batch; so is everything before a committed offset.

The other services:

* **RechargeCreditedOnce**, **RechargePaidOnce**. `PayInv` adds what a call
  holds (`CallOK`: the recharge's amount, which no longer changes once the row
  is there) and that a call between commit and credit is the only one, of a PAID
  recharge that was not credited (`AboutToCredit`).
* **OrderRefundedOnce**, for any shards. `RefundInv` adds that a runner about to
  credit created the row, which is not credited yet, and is the only one.
* **MarksFollowCredits**, for any shards; **OneStoreExecutedIsCredited**.
  `MarkedInv` and `MarkInv` add that a shard's ids are unique and at most its
  serial (`UniqueIds`), and that a runner works on stores it reaches
  (`InReach`): what a mark touches on the credited refund's own shard is that
  refund.
* **DetailSentOnce**, **DetailCloseLosesNothing**. `DetailInv` says of a row
  that exactly one of the buffer, one flusher, the server and the lost batches
  has it (`RowPlaced`), and which phases of `Emit`, loop and `Close` go together
  (`FlushPhases`).
* **AnswersAreFresh**. `KeyInv` relates the cache to history: an entry that has
  not expired was the truth less than its lifetime before its expiry
  (`CacheInv`), a caller that read a value read it after its clock (`CallerOK`),
  and the stored value is the truth now (`HistoryInv`).
* **OneAccount**. `IdInv`: names are unique, and links, logins under way and
  sessions all lead to the account named as the person.
* **TreeAndChainAgree**, **AttachedUsersAreShown**. `DirInv` keeps the foreign
  keys and says that what `OrgTree` read is a prefix of what the tables hold, and
  all of it unless the query was cut, as long as nobody wrote in between. Two teams of an organisation have different places
  (`PlacesDiffer`, a fact about cardinalities), so the comparison of ids finds
  the one organisation of a project (`ProjectPlace`).
* **FailoverTriesAll**. `RouterInv` says that a call's chain is a permutation of
  its route, which it follows place by place, and that a call that failed is at
  its end.
* **StartPriceIsCharged**, **ReservationCoversCharge**,
  **UnansweredPaysNothing**. `MeterInv` says, phase by phase, at which prices a
  request was reserved, emitted and charged; the covering rests on the
  monotonicity of `CalculateAmount` under its two roundings.
* **WindowsAreBounded**. `LimiterInv`: what a sorted set has lost is older than
  all it has, and than any window a script may still ask for; `INCR` numbers
  members without a gap, which also gives **EveryUnitCounts**.
* **RetryAfterSuffices**. `RetryOK` keeps, for a rejected request, fewer than
  the limit behind the end of its wait, and that the window has been full since
  or has let in a later reading.
* **SlotsAreBounded**. `SlotOK`: an unskewed counter is at least the number of
  requests that have incremented it and not yet decremented.

Only model-checked: the liveness properties (`CalmServedIsSettled`,
`CalmPublishedIsSettled`, `AcceptedIsSent`, `CloseReturns`), since fairness is out
of the prover's reach, and the statements that the code refutes. No property
is about which model the auto router picks: `Complexity` and `Pick` decide the
model that a request is priced as, and the properties hold for every choice.

## Not modelled

* Reads that change nothing: the summary, anomalies, replay, usage and balance
  reports, the comparison with provider invoices, the portal's pages, `Lookup`.
* The quota monitor, the metrics and the collector: they sample and send, and
  nothing that is read depends on them.
* The ledger adapters, which delegate; configuration parsing; the HTTP server's
  plumbing, request ids and JSON.
* SSE scanning and token counting: their results are choices of numbers.
* bcrypt, JWT signatures and the verification of the provider's tokens.
* Integer overflow, and retries inside the Redis and PostgreSQL clients.
