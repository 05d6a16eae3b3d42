------------------------------ MODULE Settlement ------------------------------
(***************************************************************************)
(* The dual-track billing core shared by every deployment of the gateway.  *)
(*                                                                         *)
(*   fast path   internal/billing/precharge.go: one Lua script reserves an *)
(*               estimate from the user's Redis balance, another one       *)
(*               settles the reservation;                                  *)
(*   slow path   internal/billing/settle.go: events are buffered per shard,*)
(*               and flusher goroutines insert the buffered orders into    *)
(*               PostgreSQL and then settle their reservations.            *)
(*                                                                         *)
(* How an event travels from the request handler to Settler.Handle is left *)
(* open here: an emitted event may be handed to any process, any number of *)
(* times.  InProcess (the channel sink) and KafkaPipeline (the event bus)  *)
(* restrict that, and are shown to implement this specification.           *)
(***************************************************************************)
EXTENDS Integers, Sequences, FiniteSetsExt

CONSTANTS
    Users,        \* user ids
    Requests,     \* request ids; each is generated once (requestid.go)
    UserOf,       \* [Requests -> Users]
    Flushable,    \* whether the handler's ResponseWriter is an http.Flusher
    Procs,        \* gateway processes sharing one Redis and one order store
    Home,         \* [Requests -> Procs], the process that serves the request
    Shards,       \* the settle shards of all processes
    ProcOf,       \* [Shards -> Procs]
    ShardIndex,   \* [Procs -> [Requests -> Shards]], settle.go shardIndex
    Flushers,     \* goroutines that call flush on a shard
    Loops,        \* the flushers that are a shard's flushLoop
    Of,           \* [Flushers -> Shards]
    Stores,       \* the PostgreSQL shards behind the order store
    StoreOf,      \* [Users -> Stores], sharded.go shardFor
    Batch,        \* Settler.batch
    Estimates,    \* what EstimatePreCharge may return
    Amounts,      \* what CalculateAmount may return
    Credits,      \* amounts that TopUp is called with
    Faults,       \* which of "redis", "insert", "crash", "expire" may happen
    Callers,      \* goroutines of a process that may be inside Handle at once
    MaxCredit,    \* bound: total credited to one user
    MaxBuf        \* bound: rows in one shard's buffer (a slice in the code)

ASSUME ConstantsAssumption ==
    /\ UserOf \in [Requests -> Users]
    /\ Flushable \in BOOLEAN
    /\ Home \in [Requests -> Procs]
    /\ ProcOf \in [Shards -> Procs]
    /\ ShardIndex \in [Procs -> [Requests -> Shards]]
    /\ \A p \in Procs, r \in Requests : ProcOf[ShardIndex[p][r]] = p
    /\ Of \in [Flushers -> Shards]
    /\ Loops \subseteq Flushers
    /\ StoreOf \in [Users -> Stores]
    /\ Estimates \subseteq Int
    /\ Amounts \subseteq Int
    /\ Credits \subseteq Nat
    /\ Callers \in Nat
    /\ MaxCredit \in Nat
    /\ Batch \in Nat \ {0}
    /\ MaxBuf \in Nat

\* NewSettler starts one flushLoop goroutine per shard.
ASSUME OneLoopPerShard == \A f, g \in Loops : Of[f] = Of[g] => f = g

VARIABLES
    \* Redis
    balance,      \* balance:<user>
    frozen,       \* frozen:<user>
    precharge,    \* precharge:<request>, 0 when the key does not exist
    \* PostgreSQL
    orders,       \* orders row of a request, status "NONE" when there is none
    \* request handlers
    stage,        \* where the handler of a request is
    event,        \* the metering event it emitted, status "NONE" before
    \* Settler
    buf,          \* settleShard.buf and .pending, which always grow together
    flushAt,      \* settleShard.flushAt is set
    trigger,      \* settleShard.trigger holds a signal (capacity 1)
    owed,         \* Handle calls between the unlock and signalFlush
    done,         \* the shards' done channels of a process are closed
    pc,           \* where a flusher is
    batch,        \* the rows it took and has not finished with
    \* history variables, read by no action
    credited,     \* total ever credited to a user
    spent,        \* total charged to a user by settlements
    shortfall,    \* total clawed back from a user beyond the reservations
    settled,      \* what the settlement of a request charged, -1 before
    lapsed        \* reservation of a request dropped by the marker's TTL

redis   == <<balance, frozen, precharge>>
history == <<credited, spent, shortfall, settled, lapsed>>
handler == <<stage, event>>
shard   == <<buf, flushAt, trigger, owed, done>>
flusher == <<pc, batch>>
vars    == <<redis, orders, handler, shard, flusher, history>>

-----------------------------------------------------------------------------
(* Data *)

NoEvent == [status |-> "NONE", amount |-> 0]
NoOrder == [status |-> "NONE", amount |-> 0]

Stages == {"new", "refused", "admitted", "served", "gone"}

Event == [status : {"completed", "failed"}, amount : Amounts]

Order == [status : {"SETTLED"}, amount : Amounts]
            \cup [status : {"NO_CHARGE"}, amount : {0}]

Row == [req : Requests, order : Order]

\* orderFromEvent: a failed request becomes a NO_CHARGE order of amount 0.
OrderFromEvent(ev) ==
    IF ev.status = "failed" THEN [status |-> "NO_CHARGE", amount |-> 0]
                            ELSE [status |-> "SETTLED", amount |-> ev.amount]

\* The amount flush passes for an order, clamped by BatchSettle.
Charge(order) ==
    IF order.status = "NO_CHARGE" \/ order.amount < 0 THEN 0 ELSE order.amount

Positive(n) == IF n > 0 THEN n ELSE 0

-----------------------------------------------------------------------------
(* Redis: each Lua script is atomic *)

\* Mutant of PreChargeScript: no check of the balance.
PreChargeUnchecked(r, amount) ==
    LET u == UserOf[r] IN
    /\ balance' = [balance EXCEPT ![u] = @ - amount]
    /\ frozen' = [frozen EXCEPT ![u] = @ + amount]
    /\ precharge' = [precharge EXCEPT ![r] = amount]
    /\ UNCHANGED history

PreChargeScript(r, amount) ==
    LET u == UserOf[r] IN
    /\ balance[u] >= amount
    /\ balance' = [balance EXCEPT ![u] = @ - amount]
    /\ frozen' = [frozen EXCEPT ![u] = @ + amount]
    /\ precharge' = [precharge EXCEPT ![r] = amount]
    /\ UNCHANGED history

\* Mutants of SettleScript: what is given back, unfrozen and left as a marker.
WrongSettle(r, charged, back, unfrozen, left) ==
    LET u == UserOf[r] IN
    IF precharge[r] <= 0 THEN UNCHANGED <<redis, history>>
    ELSE /\ balance' = [balance EXCEPT ![u] = @ + back]
         /\ frozen' = [frozen EXCEPT ![u] = @ - unfrozen]
         /\ precharge' = [precharge EXCEPT ![r] = left]
         /\ spent' = [spent EXCEPT ![u] = @ + charged]
         /\ shortfall' = [shortfall EXCEPT ![u] = @ + Positive(charged - precharge[r])]
         /\ settled' = [settled EXCEPT ![r] = charged]
         /\ UNCHANGED <<credited, lapsed>>

SettleNoGiveBack(r, charged) == WrongSettle(r, charged, 0, precharge[r], 0)

SettleUnfreezesCharge(r, charged) ==
    WrongSettle(r, charged, precharge[r] - charged, charged, 0)

SettleKeepsMarker(r, charged) ==
    WrongSettle(r, charged, precharge[r] - charged, precharge[r], precharge[r])

SettleDecrementsMarker(r, charged) ==
    WrongSettle(r, charged, precharge[r] - charged, precharge[r], precharge[r] - charged)

\* A shortfall (charged > pre) is clawed back, a remainder is given back.
SettleScript(r, charged) ==
    LET u      == UserOf[r]
        pre    == precharge[r]
        refund == pre - charged
    IN
    IF pre <= 0 THEN UNCHANGED <<redis, history>>
    ELSE /\ balance' = [balance EXCEPT ![u] = @ + refund]
         /\ frozen' = [frozen EXCEPT ![u] = @ - pre]
         /\ precharge' = [precharge EXCEPT ![r] = 0]
         /\ spent' = [spent EXCEPT ![u] = @ + charged]
         /\ shortfall' = [shortfall EXCEPT ![u] = @ + Positive(-refund)]
         /\ settled' = [settled EXCEPT ![r] = charged]
         /\ UNCHANGED <<credited, lapsed>>

\* TopUp, the credit path of payments and refunds (INCRBY).
TopUp(u, amount) ==
    /\ amount > 0
    /\ credited[u] + amount <= MaxCredit
    /\ balance' = [balance EXCEPT ![u] = @ + amount]
    /\ credited' = [credited EXCEPT ![u] = @ + amount]
    /\ UNCHANGED <<frozen, precharge, orders, handler, shard, flusher,
                   spent, shortfall, settled, lapsed>>

\* The marker's TTL (48 h) runs out: Redis drops the key and nothing else.
Expire(r) ==
    /\ "expire" \in Faults
    /\ precharge[r] > 0
    /\ precharge' = [precharge EXCEPT ![r] = 0]
    /\ lapsed' = [lapsed EXCEPT ![r] = precharge[r]]
    /\ UNCHANGED <<balance, frozen, orders, handler, shard, flusher,
                   credited, spent, shortfall, settled>>

-----------------------------------------------------------------------------
(* The request handler (handleChat), from the pre-charge to its event *)

\* An estimate of 0 or less reserves nothing and leaves no marker.
AdmitUnreserved(r) ==
    /\ stage[r] = "new"
    /\ \E amount \in Estimates : amount <= 0
    /\ stage' = [stage EXCEPT ![r] = "admitted"]
    /\ UNCHANGED <<redis, orders, event, shard, flusher, history>>

\* The script reserves the estimate.
Admit(r, amount) ==
    /\ stage[r] = "new"
    /\ amount > 0
    /\ PreChargeScript(r, amount)
    /\ stage' = [stage EXCEPT ![r] = "admitted"]
    /\ UNCHANGED <<orders, event, shard, flusher>>

\* ErrInsufficientBalance, or an error before the script ran: 402.
Refuse(r, amount) ==
    /\ stage[r] = "new"
    /\ amount > 0
    /\ balance[UserOf[r]] < amount \/ "redis" \in Faults
    /\ stage' = [stage EXCEPT ![r] = "refused"]
    /\ UNCHANGED <<redis, orders, event, shard, flusher, history>>

\* The script ran and its reply was lost (timeout, cancelled context): 402 too.
RefuseAfterScript(r, amount) ==
    /\ "redis" \in Faults
    /\ stage[r] = "new"
    /\ amount > 0
    /\ PreChargeScript(r, amount)
    /\ stage' = [stage EXCEPT ![r] = "refused"]
    /\ UNCHANGED <<orders, event, shard, flusher>>

\* The upstream call has ended, one way or the other: the single emit.
Emit(r, ev) ==
    /\ stage[r] = "admitted"
    /\ event' = [event EXCEPT ![r] = ev]
    /\ stage' = [stage EXCEPT ![r] = "served"]
    /\ UNCHANGED <<redis, orders, shard, flusher, history>>

\* The request asked for a stream and the ResponseWriter is no http.Flusher:
\* handleStream answers 500 after the pre-charge and emits no event.
StreamingUnsupported(r) ==
    /\ stage[r] = "admitted"
    /\ ~Flushable
    /\ stage' = [stage EXCEPT ![r] = "gone"]
    /\ UNCHANGED <<redis, orders, event, shard, flusher, history>>

-----------------------------------------------------------------------------
(* Settler *)

\* Mutant of Handle: the first row of a batch sets no deadline.
HandleNoDeadline(p, r) ==
    LET k    == ShardIndex[p][r]
        full == Len(buf[k]) + 1 >= Batch
        row  == [req |-> r, order |-> OrderFromEvent(event[r])]
    IN
    /\ event[r].status # "NONE"
    /\ owed[k] < Callers
    /\ Len(buf[k]) < MaxBuf
    /\ buf' = [buf EXCEPT ![k] = Append(@, row)]
    /\ owed' = [owed EXCEPT ![k] = IF full THEN @ + 1 ELSE @]
    /\ UNCHANGED <<redis, orders, handler, flushAt, trigger, done, flusher, history>>

\* Handle: append under the shard's mutex; the signal is sent after the unlock.
Handle(p, r) ==
    LET k    == ShardIndex[p][r]
        full == Len(buf[k]) + 1 >= Batch
        row  == [req |-> r, order |-> OrderFromEvent(event[r])]
    IN
    /\ event[r].status # "NONE"
    /\ owed[k] < Callers
    /\ Len(buf[k]) < MaxBuf
    /\ buf' = [buf EXCEPT ![k] = Append(@, row)]
    /\ flushAt' = [flushAt EXCEPT ![k] = @ \/ ~full]
    /\ owed' = [owed EXCEPT ![k] = IF full THEN @ + 1 ELSE @]
    /\ UNCHANGED <<redis, orders, handler, trigger, done, flusher, history>>

\* signalFlush: a send on a channel of capacity 1 that never blocks.
SignalFlush(k) ==
    /\ owed[k] > 0
    /\ owed' = [owed EXCEPT ![k] = @ - 1]
    /\ trigger' = [trigger EXCEPT ![k] = TRUE]
    /\ UNCHANGED <<redis, orders, handler, buf, flushAt, done, flusher, history>>

\* flushLoop receives the batch-full signal.
WakeOnTrigger(f) ==
    /\ f \in Loops
    /\ pc[f] = "idle"
    /\ trigger[Of[f]]
    /\ trigger' = [trigger EXCEPT ![Of[f]] = FALSE]
    /\ pc' = [pc EXCEPT ![f] = "woken"]
    /\ UNCHANGED <<redis, orders, handler, buf, flushAt, owed, done, batch, history>>

\* flushLoop's ticker finds the deadline passed.
WakeOnTick(f) ==
    /\ f \in Loops
    /\ pc[f] = "idle"
    /\ flushAt[Of[f]]
    /\ pc' = [pc EXCEPT ![f] = "woken"]
    /\ UNCHANGED <<redis, orders, handler, shard, batch, history>>

\* FlushSync (one goroutine per shard) or Close (shard by shard) calls flush.
CallFlush(callers) ==
    /\ callers \subseteq Flushers \ Loops
    /\ \A f \in callers : pc[f] = "idle"
    /\ pc' = [f \in Flushers |-> IF f \in callers THEN "woken" ELSE pc[f]]
    /\ UNCHANGED <<redis, orders, handler, shard, batch, history>>

\* flush, under the mutex: take what is buffered and clear the deadline.
TakeBatch(f) ==
    LET k == Of[f] IN
    /\ pc[f] = "woken"
    /\ pc' = [pc EXCEPT ![f] = IF buf[k] = << >> THEN "idle" ELSE "insert"]
    /\ batch' = [batch EXCEPT ![f] = buf[k]]
    /\ flushAt' = [flushAt EXCEPT ![k] = IF buf[k] = << >> THEN @ ELSE FALSE]
    /\ buf' = [buf EXCEPT ![k] = << >>]
    /\ UNCHANGED <<redis, orders, handler, trigger, owed, done, history>>

\* INSERT ... ON CONFLICT (request_id) DO NOTHING of the rows of some stores.
InsertOrders(rows, stores) ==
    [r \in Requests |->
        IF /\ orders[r] = NoOrder
           /\ StoreOf[UserOf[r]] \in stores
           /\ \E i \in DOMAIN rows : rows[i].req = r
        THEN rows[CHOOSE i \in DOMAIN rows : rows[i].req = r].order
        ELSE orders[r]]

Insert(f) ==
    /\ pc[f] = "insert"
    /\ orders' = InsertOrders(batch[f], Stores)
    /\ pc' = [pc EXCEPT ![f] = "settle"]
    /\ UNCHANGED <<redis, handler, shard, batch, history>>

\* Mutant of InsertError: flush goes on to settle after a failed insert.
InsertErrorIgnored(f, stores) ==
    /\ "insert" \in Faults
    /\ pc[f] = "insert"
    /\ orders' = InsertOrders(batch[f], stores)
    /\ pc' = [pc EXCEPT ![f] = "settle"]
    /\ UNCHANGED <<redis, handler, shard, batch, history>>

\* InsertOrders fails after some stores committed: flush logs and gives up.
InsertError(f, stores) ==
    /\ "insert" \in Faults
    /\ pc[f] = "insert"
    /\ orders' = InsertOrders(batch[f], stores)
    /\ pc' = [pc EXCEPT ![f] = "idle"]
    /\ batch' = [batch EXCEPT ![f] = << >>]
    /\ UNCHANGED <<redis, handler, shard, history>>

\* BatchSettle: the next script of the pipeline runs.
BatchSettle(f) ==
    LET row  == Head(batch[f])
        rest == Tail(batch[f])
    IN
    /\ pc[f] = "settle"
    /\ batch[f] # << >>
    /\ SettleScript(row.req, Charge(row.order))
    /\ batch' = [batch EXCEPT ![f] = rest]
    /\ pc' = [pc EXCEPT ![f] = IF rest = << >> THEN "idle" ELSE "settle"]
    /\ UNCHANGED <<orders, handler, shard>>

\* The pipeline fails part-way; its error is discarded.
BatchSettleError(f) ==
    /\ "redis" \in Faults
    /\ pc[f] = "settle"
    /\ batch' = [batch EXCEPT ![f] = << >>]
    /\ pc' = [pc EXCEPT ![f] = "idle"]
    /\ UNCHANGED <<redis, orders, handler, shard, history>>

\* flush lets go of a batch it could not insert, or not settle.
LetsGo(f) == BatchSettleError(f) \/ \E stores \in SUBSET Stores : InsertError(f, stores)

\* Close: closes the done channels, then flushes (CallFlush) and waits.
CloseDone(p) ==
    /\ ~done[p]
    /\ done' = [done EXCEPT ![p] = TRUE]
    /\ UNCHANGED <<redis, orders, handler, buf, flushAt, trigger, owed, flusher, history>>

LoopExit(f) ==
    /\ f \in Loops
    /\ pc[f] = "idle"
    /\ done[ProcOf[Of[f]]]
    /\ pc' = [pc EXCEPT ![f] = "exited"]
    /\ UNCHANGED <<redis, orders, handler, shard, batch, history>>

\* A process dies and is started again: everything in its memory is gone.
Crash(p) ==
    LET lost(k) == ProcOf[k] = p IN
    /\ "crash" \in Faults
    /\ stage' = [r \in Requests |->
                    IF Home[r] = p /\ stage[r] = "admitted" THEN "gone" ELSE stage[r]]
    /\ buf' = [k \in Shards |-> IF lost(k) THEN << >> ELSE buf[k]]
    /\ flushAt' = [k \in Shards |-> ~lost(k) /\ flushAt[k]]
    /\ trigger' = [k \in Shards |-> ~lost(k) /\ trigger[k]]
    /\ owed' = [k \in Shards |-> IF lost(k) THEN 0 ELSE owed[k]]
    /\ done' = [done EXCEPT ![p] = FALSE]
    /\ pc' = [f \in Flushers |-> IF lost(Of[f]) THEN "idle" ELSE pc[f]]
    /\ batch' = [f \in Flushers |-> IF lost(Of[f]) THEN << >> ELSE batch[f]]
    /\ UNCHANGED <<redis, orders, event, history>>

-----------------------------------------------------------------------------
Init ==
    /\ balance = [u \in Users |-> 0]
    /\ frozen = [u \in Users |-> 0]
    /\ precharge = [r \in Requests |-> 0]
    /\ orders = [r \in Requests |-> NoOrder]
    /\ stage = [r \in Requests |-> "new"]
    /\ event = [r \in Requests |-> NoEvent]
    /\ buf = [k \in Shards |-> << >>]
    /\ flushAt = [k \in Shards |-> FALSE]
    /\ trigger = [k \in Shards |-> FALSE]
    /\ owed = [k \in Shards |-> 0]
    /\ done = [p \in Procs |-> FALSE]
    /\ pc = [f \in Flushers |-> "idle"]
    /\ batch = [f \in Flushers |-> << >>]
    /\ credited = [u \in Users |-> 0]
    /\ spent = [u \in Users |-> 0]
    /\ shortfall = [u \in Users |-> 0]
    /\ settled = [r \in Requests |-> -1]
    /\ lapsed = [r \in Requests |-> 0]

\* Everything a handler does except emitting, which each deployment extends.
AdmissionNext ==
    \E r \in Requests :
       \/ AdmitUnreserved(r)
       \/ StreamingUnsupported(r)
       \/ \E amount \in Estimates :
            \/ Admit(r, amount)
            \/ Refuse(r, amount)
            \/ RefuseAfterScript(r, amount)

HandlerNext == AdmissionNext \/ \E r \in Requests, ev \in Event : Emit(r, ev)

FlusherNext ==
    \/ \E k \in Shards : SignalFlush(k)
    \/ \E f \in Flushers :
         \/ WakeOnTrigger(f)
         \/ WakeOnTick(f)
         \/ TakeBatch(f)
         \/ Insert(f)
         \/ \E stores \in SUBSET Stores : InsertError(f, stores)
         \/ BatchSettle(f)
         \/ BatchSettleError(f)

RedisNext ==
    \/ \E u \in Users, amount \in Credits : TopUp(u, amount)
    \/ \E r \in Requests : Expire(r)

Next ==
    \/ RedisNext
    \/ HandlerNext
    \/ \E p \in Procs, r \in Requests : Handle(p, r)
    \/ FlusherNext
    \/ \E callers \in SUBSET (Flushers \ Loops) : CallFlush(callers)
    \/ \E f \in Flushers : LoopExit(f)
    \/ \E p \in Procs : CloseDone(p) \/ Crash(p)

Spec == Init /\ [][Next]_vars

\* What is asked of the deployments: their channel or bus, their loops, their
\* drain and their Close add nothing to the billing core.  An event is settled
\* from where emit() put it, however often it is delivered.
ImplementsSettlement == Spec

-----------------------------------------------------------------------------
(* Properties *)

TypeOK ==
    /\ balance \in [Users -> Int]
    /\ frozen \in [Users -> Int]
    /\ precharge \in [Requests -> Nat]
    /\ orders \in [Requests -> Order \cup {NoOrder}]
    /\ stage \in [Requests -> Stages]
    /\ event \in [Requests -> Event \cup {NoEvent}]
    /\ buf \in [Shards -> Seq(Row)]
    /\ flushAt \in [Shards -> BOOLEAN]
    /\ trigger \in [Shards -> BOOLEAN]
    /\ owed \in [Shards -> Nat]
    /\ done \in [Procs -> BOOLEAN]
    /\ pc \in [Flushers -> {"idle", "woken", "insert", "settle", "exited"}]
    /\ batch \in [Flushers -> Seq(Row)]
    /\ credited \in [Users -> Nat]
    /\ spent \in [Users -> Nat]
    /\ shortfall \in [Users -> Nat]
    /\ settled \in [Requests -> Nat \cup {-1}]
    /\ lapsed \in [Requests -> Nat]

\* No script creates or destroys money: what was credited to a user is in the
\* balance, frozen, or was charged, through every clawback and give-back.
Conservation ==
    \A u \in Users : balance[u] + frozen[u] + spent[u] = credited[u]

\* The units reserved from a user: one for each unit of a marker, or of a
\* reservation whose marker expired unsettled.
ReservedUnits(u) ==
    UNION {{r} \X (1 .. precharge[r] + lapsed[r]) : r \in {q \in Requests : UserOf[q] = u}}

\* frozen:<user> is exactly the sum of the user's reservation markers and of
\* the reservations whose marker expired unsettled: nothing else leaks.
FrozenIsReserved == \A u \in Users : frozen[u] = Cardinality(ReservedUnits(u))

\* A reservation is settled only once the request's order is durable, and for
\* exactly the amount of that order, however often the event was delivered
\* and whichever flushers raced (flush: InsertOrders, then BatchSettle).
ChargeMatchesOrder ==
    \A r \in Requests : settled[r] # -1 =>
        orders[r] # NoOrder /\ settled[r] = Charge(orders[r])

\* A balance is negative by no more than what settlements clawed back beyond
\* their reservations: PreChargeScript never overdraws it.
OverdraftIsClawback ==
    \A u \in Users : balance[u] + shortfall[u] >= 0

\* A shard with buffered rows always has a wake-up coming, although signalFlush
\* drops signals, full batches set no deadline and other flushers clear it.
NoLostWakeup ==
    \A f \in Loops :
        LET k == Of[f] IN
        buf[k] # << >> =>
            flushAt[k] \/ trigger[k] \/ owed[k] > 0 \/ pc[f] \in {"woken", "exited"}

-----------------------------------------------------------------------------
(* What the safety properties rest on: with them, an inductive invariant *)

\* A row carries the order of the event its request emitted.
Faithful(row) ==
    event[row.req] # NoEvent /\ row.order = OrderFromEvent(event[row.req])

RowsAreFaithful ==
    /\ \A k \in Shards : \A i \in DOMAIN buf[k] : Faithful(buf[k][i])
    /\ \A f \in Flushers : \A i \in DOMAIN batch[f] : Faithful(batch[f][i])
    /\ \A r \in Requests : event[r] # NoEvent => stage[r] = "served"
    /\ \A r \in Requests : orders[r] # NoOrder =>
          event[r] # NoEvent /\ orders[r] = OrderFromEvent(event[r])

\* A flusher that settles holds only rows whose orders are stored.
SettlingIsDurable ==
    \A f \in Flushers :
        /\ pc[f] \in {"insert", "settle"} => batch[f] # << >>
        /\ pc[f] = "settle" =>
              \A i \in DOMAIN batch[f] : orders[batch[f][i].req] # NoOrder

\* A request is reserved once, and then settled or lapsed, never both.
OnePhase ==
    \A r \in Requests :
        /\ stage[r] = "new" => precharge[r] = 0 /\ settled[r] = -1 /\ lapsed[r] = 0
        /\ precharge[r] > 0 => settled[r] = -1 /\ lapsed[r] = 0

-----------------------------------------------------------------------------
\* Refinement mapping to ChargeOnce.
Bill(r) == IF orders[r] = NoOrder THEN -1 ELSE Charge(orders[r])

Phase(r) ==
    IF settled[r] # -1 THEN "paid"
    ELSE IF precharge[r] > 0 THEN "held"
    ELSE IF lapsed[r] > 0 THEN "lapsed"
    ELSE "fresh"

Abstract == INSTANCE ChargeOnce WITH
    available <- balance,
    hold <- precharge,
    bill <- [r \in Requests |-> Bill(r)],
    phase <- [r \in Requests |-> Phase(r)]

\* Under crashes, failed inserts and pipelines, lost replies, expiring markers
\* and events delivered any number of times, a user sees ChargeOnce.
ImplementsChargeOnce == Abstract!Spec
=============================================================================
