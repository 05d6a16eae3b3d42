-------------------------------- MODULE Refunds --------------------------------
(***************************************************************************)
(* The automatic refunds of a reconciliation run                           *)
(* (internal/reconciliation/engine.go) over the refunds tables of the      *)
(* order stores (internal/billing/postgres.go, sharded.go).                *)
(*                                                                         *)
(* A runner is one call of RunDay with autoRefund: the admin API's, which  *)
(* reaches every shard, or cmd/reconcile's, which is given one store and   *)
(* perhaps no Redis.  Runners are not serialised.                          *)
(***************************************************************************)
EXTENDS Integers, FiniteSets

CONSTANTS
    NegOrders,        \* the orders of the day with a negative amount
    RefundShards,     \* the PostgreSQL shards
    ShardOfOrder,     \* [NegOrders -> RefundShards], shardFor(o.UserID)
    Credit,           \* [NegOrders -> Nat], the amount to give back
    AutoThreshold,    \* Reconciler.AutoThresholdMicros
    Runners,
    ReachOf,          \* [Runners -> SUBSET RefundShards], the runner's stores
    WithRedis,        \* the runners whose Reconciler has a Precharger
    NoOrder,          \* what a runner holds between two orders
    RunLimit,         \* LIMIT of the query for negative orders
    RefundFaults      \* which of "insert", "topup", "mark", "crash" may happen

ASSUME RefundsAssumption ==
    /\ ShardOfOrder \in [NegOrders -> RefundShards]
    /\ Credit \in [NegOrders -> Nat \ {0}]
    /\ ReachOf \in [Runners -> SUBSET RefundShards]
    /\ WithRedis \subseteq Runners
    /\ AutoThreshold \in Nat
    /\ RunLimit \in Nat
    /\ NoOrder \notin NegOrders

VARIABLES
    refund,           \* the refunds row of an order: status "NONE" when there is none
    serial,           \* the BIGSERIAL of a shard's refunds table
    runner,           \* where a runner is, what it has to do, what it holds
    refunded          \* history: how often an order's amount was credited

refundVars == <<refund, serial, runner, refunded>>

NoRefund == [status |-> "NONE", id |-> 0]
IdleRunner == [pc |-> "idle", todo |-> {}, id |-> 0, order |-> NoOrder]
DoneRunner == [IdleRunner EXCEPT !.pc = "done"]

Level(o) == IF Credit[o] > AutoThreshold THEN "MANUAL" ELSE "AUTO"

-----------------------------------------------------------------------------
\* NegativeAmountOrders: up to RunLimit rows of every shard, in no order.
NegativeAmountOrders(w, rows) ==
    \A s \in RefundShards :
        LET stored == IF s \in ReachOf[w] THEN {o \in NegOrders : ShardOfOrder[o] = s}
                                          ELSE {}
            got    == {o \in rows : ShardOfOrder[o] = s}
        IN /\ got \subseteq stored
           /\ \/ got = stored /\ Cardinality(got) <= RunLimit
              \/ Cardinality(got) = RunLimit

\* RunDay, after the summary, the anomalies and the frozen balance were read.
StartRun(w, rows) ==
    /\ runner[w].pc = "idle"
    /\ NegativeAmountOrders(w, rows)
    /\ runner' = [runner EXCEPT ![w].pc = "next", ![w].todo = rows]
    /\ UNCHANGED <<refund, serial, refunded>>

\* INSERT ... ON CONFLICT (idempotency_key): a conflict uses up an id too.
\* created tells the row's creator from everybody else.
Inserted(o) ==
    /\ serial' = [serial EXCEPT ![ShardOfOrder[o]] = @ + 1]
    /\ refund' = IF refund[o].status # "NONE" THEN refund
                 ELSE [refund EXCEPT ![o] = [status |-> "PENDING",
                                             id |-> serial[ShardOfOrder[o]] + 1]]

\* Mutant of InsertRefund: the caller does not look at created.
InsertRefundAlwaysCreated(w, o) ==
    /\ runner[w].pc = "next" /\ o \in runner[w].todo
    /\ Inserted(o)
    /\ runner' = [runner EXCEPT ![w] =
                    [pc |-> IF Level(o) = "AUTO" /\ w \in WithRedis THEN "topup" ELSE "next",
                     todo |-> @.todo \ {o}, id |-> refund'[o].id, order |-> o]]
    /\ UNCHANGED refunded

\* The next order: insert its refund; only the run that created the row, for
\* an AUTO refund and with Redis at hand, goes on to execute it.
InsertRefund(w, o) ==
    LET execute == refund[o].status = "NONE" /\ Level(o) = "AUTO" /\ w \in WithRedis IN
    /\ runner[w].pc = "next" /\ o \in runner[w].todo
    /\ Inserted(o)
    /\ runner' = [runner EXCEPT ![w] =
                    [pc |-> IF execute THEN "topup" ELSE "next",
                     todo |-> @.todo \ {o}, id |-> refund'[o].id, order |-> o]]
    /\ UNCHANGED refunded

\* InsertRefund fails, before or after PostgreSQL applied it: RunDay returns
\* the error.
InsertRefundError(w, o, applied) ==
    /\ "insert" \in RefundFaults
    /\ runner[w].pc = "next" /\ o \in runner[w].todo
    /\ IF applied THEN Inserted(o) ELSE UNCHANGED <<refund, serial>>
    /\ runner' = [runner EXCEPT ![w] = DoneRunner]
    /\ UNCHANGED refunded

Credited(w) == [refunded EXCEPT ![runner[w].order] = @ + 1]

\* TopUp, then MarkExecuted.
RefundTopUp(w) ==
    /\ runner[w].pc = "topup"
    /\ refunded' = Credited(w)
    /\ runner' = [runner EXCEPT ![w].pc = "mark"]
    /\ UNCHANGED <<refund, serial>>

\* TopUp returns an error, before or after Redis applied it: "continue".
RefundTopUpError(w, applied) ==
    /\ "topup" \in RefundFaults
    /\ runner[w].pc = "topup"
    /\ refunded' = IF applied THEN Credited(w) ELSE refunded
    /\ runner' = [runner EXCEPT ![w].pc = "next"]
    /\ UNCHANGED <<refund, serial>>

\* Mutant of MarkExecuted: a mark that goes by level, not by id.
MarkEveryAuto(w, shards) ==
    /\ runner[w].pc = "mark"
    /\ refund' = [o \in NegOrders |->
                    IF refund[o].status = "PENDING" /\ Level(o) = "AUTO"
                    THEN [refund[o] EXCEPT !.status = "EXECUTED"] ELSE refund[o]]
    /\ runner' = [runner EXCEPT ![w].pc = "next"]
    /\ UNCHANGED <<serial, refunded>>

\* MarkExecuted tries the id on every shard the runner has; some may fail.
MarkExecuted(w, shards) ==
    /\ runner[w].pc = "mark"
    /\ shards \subseteq ReachOf[w]
    /\ shards = ReachOf[w] \/ "mark" \in RefundFaults
    /\ refund' = [o \in NegOrders |->
                    IF /\ ShardOfOrder[o] \in shards
                       /\ refund[o] = [status |-> "PENDING", id |-> runner[w].id]
                    THEN [refund[o] EXCEPT !.status = "EXECUTED"] ELSE refund[o]]
    /\ runner' = [runner EXCEPT ![w].pc = "next"]
    /\ UNCHANGED <<serial, refunded>>

\* Nothing is left to do, or the process dies.
EndRun(w) ==
    /\ runner[w].pc \notin {"idle", "done"}
    /\ "crash" \in RefundFaults \/ (runner[w].pc = "next" /\ runner[w].todo = {})
    /\ runner' = [runner EXCEPT ![w] = DoneRunner]
    /\ UNCHANGED <<refund, serial, refunded>>

-----------------------------------------------------------------------------
RefundInit ==
    /\ refund = [o \in NegOrders |-> NoRefund]
    /\ serial = [s \in RefundShards |-> 0]
    /\ runner = [w \in Runners |-> IdleRunner]
    /\ refunded = [o \in NegOrders |-> 0]

RefundNext ==
    \E w \in Runners :
       \/ \E rows \in SUBSET NegOrders : StartRun(w, rows)
       \/ \E o \in NegOrders : InsertRefund(w, o)
       \/ \E o \in NegOrders, applied \in BOOLEAN : InsertRefundError(w, o, applied)
       \/ RefundTopUp(w)
       \/ \E applied \in BOOLEAN : RefundTopUpError(w, applied)
       \/ \E shards \in SUBSET RefundShards : MarkExecuted(w, shards)
       \/ EndRun(w)

RefundSpec == RefundInit /\ [][RefundNext]_refundVars

-----------------------------------------------------------------------------
(* Properties *)

RefundTypeOK ==
    /\ refund \in [NegOrders -> [status : {"NONE", "PENDING", "EXECUTED"}, id : Nat]]
    /\ serial \in [RefundShards -> Nat]
    /\ runner \in [Runners -> [pc : {"idle", "next", "topup", "mark", "done"},
                               todo : SUBSET NegOrders, id : Nat, order : NegOrders \cup {NoOrder}]]
    /\ refunded \in [NegOrders -> Nat]

\* "callers must not re-execute" (refund.go): however many runs overlap,
\* repeat, fail or die, an order is refunded at most once, and never one that
\* needs a manual approval.
RefundedOnce ==
    \A o \in NegOrders :
        refunded[o] <= 1 /\ (refunded[o] = 1 => Level(o) = "AUTO")

\* A mark is spent on a credit: beside the refund that was credited, what
\* MarkExecuted marks are rows of other shards that have the same id ("id
\* collision across shards is possible", sharded.go).  With one shard, what the
\* ledger counts as executed was credited.
MarkFollowsCredit ==
    \A o \in NegOrders : refund[o].status = "EXECUTED" =>
        \E q \in NegOrders :
           /\ refunded[q] = 1 /\ refund[q].id = refund[o].id
           /\ q = o \/ ShardOfOrder[q] # ShardOfOrder[o]

\* "executing it credits the user's Redis balance and marks the refund
\* EXECUTED" (engine.go): what the ledger counts as executed was credited.
ExecutedIsCredited ==
    \A o \in NegOrders : refund[o].status = "EXECUTED" => refunded[o] = 1
=============================================================================
