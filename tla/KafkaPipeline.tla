----------------------------- MODULE KafkaPipeline -----------------------------
(***************************************************************************)
(* The multi-instance deployment: handlers publish events with KafkaSink   *)
(* (internal/billing/kafka.go), and a consumer group of KafkaConsumers     *)
(* (internal/billing/kafkaconsumer.go), one per process, feeds the events  *)
(* to the Settlers and commits their offsets after Settler.FlushSync.      *)
(*                                                                         *)
(* The billing core is Settlement.  Kafka itself is external: partition    *)
(* logs, one owner per partition, committed offsets of the group.          *)
(***************************************************************************)
EXTENDS Settlement

CONSTANTS
    Partitions,
    PartitionOf,  \* [Requests -> Partitions], the Hash balancer on the key
    BatchN,       \* KafkaConsumer.batchN
    OldGroup,     \* the group has committed offsets from an earlier life
    MaxLog        \* bound: length of a partition's log

ASSUME KafkaAssumption ==
    /\ PartitionOf \in [Requests -> Partitions]
    /\ BatchN \in Nat \ {0}
    /\ OldGroup \in BOOLEAN
    /\ MaxLog \in Nat

VARIABLES
    \* Kafka
    log,          \* the requests whose events are in a partition
    committed,    \* offset the group committed, -1 when it never did
    assigned,     \* the process that owns a partition, if any: a set
    position,     \* offset up to which the owner has fetched
    \* KafkaSink
    outbox,       \* events the asynchronous writer of a process holds
    \* KafkaConsumer.Run
    held,         \* batch: the messages fetched since the last commit
    next,         \* how many of them were handed to Settler.Handle
    cpc,          \* where Run is
    stopping,     \* its context is cancelled
    ended         \* history: requests whose event died with a process's Settler

broker    == <<log, committed, assigned, position>>
consumer  == <<held, next, cpc, stopping, ended>>
kafka     == <<broker, outbox, consumer>>
kafkaVars == <<vars, kafka>>

Message == [part : Partitions, at : Nat]

\* The goroutines FlushSync of a process starts, one per shard.
Syncs(p) == {f \in Flushers \ Loops : ProcOf[Of[f]] = p}

\* Run calls Handle sequentially: the call before has sent its signal.
HandleReturned(p) == \A k \in Shards : ProcOf[k] = p => owed[k] = 0

\* What CommitMessages(batch...) commits: "group semantics: highest offset
\* commits everything before it", partition by partition.
Offsets == [Partitions -> -1 .. MaxLog]

OffsetsIn(messages, part) ==
    {messages[i].at : i \in {j \in DOMAIN messages : messages[j].part = part}}

Highest(messages, offsets) ==
    \A part \in Partitions :
        LET seen == OffsetsIn(messages, part) IN
        IF seen = {} THEN offsets[part] = committed[part]
        ELSE offsets[part] \in seen /\ \A at \in seen : at <= offsets[part]

-----------------------------------------------------------------------------
(* KafkaSink *)

\* Mutant of KafkaEmit: an event per chunk, while the request goes on.
EmitPerChunk(r, ev) ==
    /\ stage[r] = "admitted"
    /\ event' = [event EXCEPT ![r] = ev]
    /\ outbox' = [outbox EXCEPT ![Home[r]] = @ \cup {r}]
    /\ UNCHANGED <<redis, orders, stage, shard, flusher, history, broker, consumer>>

\* Emit: WriteMessages in asynchronous mode only queues the event.
KafkaEmit(r, ev) ==
    /\ Emit(r, ev)
    /\ outbox' = [outbox EXCEPT ![Home[r]] = @ \cup {r}]
    /\ UNCHANGED <<broker, consumer>>

\* The writer delivers an event.  When the acknowledgement is lost it keeps
\* the event and delivers it again.
Produce(p, r, acked) ==
    LET part == PartitionOf[r] IN
    /\ r \in outbox[p]
    /\ acked \/ "kafka" \in Faults
    /\ Len(log[part]) < MaxLog
    /\ log' = [log EXCEPT ![part] = Append(@, r)]
    /\ outbox' = [outbox EXCEPT ![p] = IF acked THEN @ \ {r} ELSE @]
    /\ UNCHANGED <<vars, committed, assigned, position, consumer>>

\* The writer gives up: Completion logs "event lost".
ProduceError(p, r) ==
    /\ "kafka" \in Faults
    /\ r \in outbox[p]
    /\ outbox' = [outbox EXCEPT ![p] = @ \ {r}]
    /\ UNCHANGED <<vars, broker, consumer>>

-----------------------------------------------------------------------------
(* The consumer group *)

\* Mutant of Assign: the start is off by one.
AssignPastEnd(part, p) ==
    /\ assigned[part] = {}
    /\ cpc[p] # "stopped"
    /\ assigned' = [assigned EXCEPT ![part] = {p}]
    /\ position' = [position EXCEPT ![part] =
                      IF committed[part] = -1 THEN Len(log[part]) + 1 ELSE committed[part]]
    /\ UNCHANGED <<vars, log, committed, outbox, consumer>>

\* A process becomes the owner: it starts at the committed offset, and at the
\* end of the log when there is none (StartOffset: kafka.LastOffset).
Assign(part, p) ==
    /\ assigned[part] = {}
    /\ cpc[p] # "stopped"
    /\ assigned' = [assigned EXCEPT ![part] = {p}]
    /\ position' = [position EXCEPT ![part] =
                      IF committed[part] = -1 THEN Len(log[part]) ELSE committed[part]]
    /\ UNCHANGED <<vars, log, committed, outbox, consumer>>

\* The group takes a partition away; what its owner holds stays in memory.
Revoke(part) ==
    /\ "rebalance" \in Faults
    /\ assigned[part] # {}
    /\ assigned' = [assigned EXCEPT ![part] = {}]
    /\ UNCHANGED <<vars, log, committed, position, outbox, consumer>>

-----------------------------------------------------------------------------
(* KafkaConsumer.Run *)

\* Mutant of Fetch: ReadMessage, which commits the message it returns.
ReadMessage(p, part) ==
    /\ cpc[p] = "fetch" /\ ~stopping[p]
    /\ p \in assigned[part]
    /\ position[part] < Len(log[part])
    /\ Len(held[p]) < BatchN
    /\ position' = [position EXCEPT ![part] = @ + 1]
    /\ committed' = [committed EXCEPT ![part] = position[part] + 1]
    /\ held' = [held EXCEPT ![p] = Append(@, [part |-> part, at |-> position[part] + 1])]
    /\ UNCHANGED <<vars, log, assigned, outbox, next, cpc, stopping, ended>>

\* FetchMessage returns a message and it is appended to the batch.
Fetch(p, part) ==
    /\ cpc[p] = "fetch" /\ ~stopping[p]
    /\ p \in assigned[part]
    /\ position[part] < Len(log[part])
    /\ Len(held[p]) < BatchN
    /\ position' = [position EXCEPT ![part] = @ + 1]
    /\ held' = [held EXCEPT ![p] = Append(@, [part |-> part, at |-> position[part] + 1])]
    /\ UNCHANGED <<vars, log, committed, assigned, outbox, next, cpc, stopping, ended>>

\* Mutant of BeginFlush: only a full batch is flushed.
BeginFlushWhenFull(p) ==
    /\ cpc[p] = "fetch"
    /\ Len(held[p]) >= BatchN
    /\ cpc' = [cpc EXCEPT ![p] = "handle"]
    /\ UNCHANGED <<vars, broker, outbox, held, next, stopping, ended>>

\* flush is called: the batch is full, maxWait has passed since its first
\* message, the fetch deadline fired, or the context was cancelled.
BeginFlush(p) ==
    /\ cpc[p] = "fetch"
    /\ held[p] # << >>
    /\ cpc' = [cpc EXCEPT ![p] = "handle"]
    /\ UNCHANGED <<vars, broker, outbox, held, next, stopping, ended>>

\* flush: the next message of the batch goes to Settler.Handle.
HandOver(p) ==
    LET m == held[p][next[p] + 1] IN
    /\ cpc[p] = "handle"
    /\ next[p] < Len(held[p])
    /\ HandleReturned(p)
    /\ Handle(p, log[m.part][m.at])
    /\ next' = [next EXCEPT ![p] = @ + 1]
    /\ UNCHANGED <<broker, outbox, held, cpc, stopping, ended>>

\* flush: FlushSync starts one flush per shard.
FlushSync(p) ==
    /\ cpc[p] = "handle"
    /\ next[p] = Len(held[p])
    /\ HandleReturned(p)
    /\ CallFlush(Syncs(p))
    /\ cpc' = [cpc EXCEPT ![p] = "sync"]
    /\ UNCHANGED <<broker, outbox, held, next, stopping, ended>>

\* FlushSync's wait is over (it returns nil whatever became of the inserts):
\* the whole batch is committed, and forgotten even if the commit failed.
Commit(p, offsets) ==
    /\ cpc[p] = "sync"
    /\ \A f \in Syncs(p) : pc[f] = "idle"
    /\ \/ Highest(held[p], offsets)
       \/ offsets = committed /\ "commit" \in Faults
    /\ committed' = offsets
    /\ held' = [held EXCEPT ![p] = << >>]
    /\ next' = [next EXCEPT ![p] = 0]
    /\ cpc' = [cpc EXCEPT ![p] = "fetch"]
    /\ UNCHANGED <<vars, log, assigned, position, outbox, stopping, ended>>

\* The process is told to stop: Run's context is cancelled.
Cancel(p) ==
    /\ "crash" \in Faults
    /\ ~stopping[p]
    /\ stopping' = [stopping EXCEPT ![p] = TRUE]
    /\ UNCHANGED <<vars, broker, outbox, held, next, cpc, ended>>

\* Run finds the context cancelled and nothing to flush: it closes the reader.
Stop(p) ==
    /\ stopping[p]
    /\ cpc[p] = "fetch"
    /\ held[p] = << >>
    /\ cpc' = [cpc EXCEPT ![p] = "stopped"]
    /\ assigned' = [part \in Partitions |-> assigned[part] \ {p}]
    /\ UNCHANGED <<vars, log, committed, position, outbox, held, next, stopping, ended>>

\* The requests whose events the Settler of a process buffers or flushes.
InSettler(p) ==
    {r \in Requests :
        \/ \E k \in Shards : ProcOf[k] = p /\ \E j \in DOMAIN buf[k] : buf[k][j].req = r
        \/ \E f \in Flushers :
              ProcOf[Of[f]] = p /\ \E j \in DOMAIN batch[f] : batch[f][j].req = r}

\* A crash, or main returning (it does not wait for Run), and a restart.
ProcessEnds(p) ==
    /\ Crash(p)
    /\ outbox' = [outbox EXCEPT ![p] = {}]
    /\ held' = [held EXCEPT ![p] = << >>]
    /\ next' = [next EXCEPT ![p] = 0]
    /\ cpc' = [cpc EXCEPT ![p] = "fetch"]
    /\ stopping' = [stopping EXCEPT ![p] = FALSE]
    /\ assigned' = [part \in Partitions |-> assigned[part] \ {p}]
    /\ ended' = ended \cup InSettler(p)
    /\ UNCHANGED <<log, committed, position>>

-----------------------------------------------------------------------------
KafkaInit ==
    /\ Init
    /\ log = [part \in Partitions |-> << >>]
    /\ committed = [part \in Partitions |-> IF OldGroup THEN 0 ELSE -1]
    /\ assigned = [part \in Partitions |-> {}]
    /\ position = [part \in Partitions |-> 0]
    /\ outbox = [p \in Procs |-> {}]
    /\ held = [p \in Procs |-> << >>]
    /\ next = [p \in Procs |-> 0]
    /\ cpc = [p \in Procs |-> "fetch"]
    /\ stopping = [p \in Procs |-> FALSE]
    /\ ended = {}

ConsumerNext ==
    \E p \in Procs :
       \/ \E part \in Partitions : Assign(part, p) \/ Fetch(p, part)
       \/ BeginFlush(p) \/ HandOver(p) \/ FlushSync(p)
       \/ \E offsets \in Offsets : Commit(p, offsets)
       \/ Cancel(p) \/ Stop(p) \/ ProcessEnds(p)

KafkaNext ==
    \/ (RedisNext \/ AdmissionNext \/ FlusherNext) /\ UNCHANGED kafka
    \/ \E r \in Requests, ev \in Event : KafkaEmit(r, ev)
    \/ \E p \in Procs, r \in Requests :
         (\E acked \in BOOLEAN : Produce(p, r, acked)) \/ ProduceError(p, r)
    \/ \E part \in Partitions : Revoke(part)
    \/ ConsumerNext

KafkaSpec == KafkaInit /\ [][KafkaNext]_kafkaVars

\* The writer delivers within BatchTimeout, the group assigns a free partition,
\* FetchMessage returns or its deadline flushes, and every goroutine runs.
KafkaFairness ==
    /\ \A p \in Procs, r \in Requests : WF_kafkaVars(Produce(p, r, TRUE))
    /\ \A part \in Partitions : WF_kafkaVars(\E p \in Procs : Assign(part, p))
    /\ \A p \in Procs :
         /\ WF_kafkaVars(\E part \in Partitions : Fetch(p, part))
         /\ WF_kafkaVars(BeginFlush(p))
         /\ WF_kafkaVars(HandOver(p))
         /\ WF_kafkaVars(FlushSync(p))
         /\ WF_kafkaVars(\E offsets \in Offsets : Commit(p, offsets))
    /\ \A k \in Shards : WF_kafkaVars(SignalFlush(k) /\ UNCHANGED kafka)
    /\ \A f \in Flushers :
         /\ WF_kafkaVars((WakeOnTrigger(f) \/ WakeOnTick(f)) /\ UNCHANGED kafka)
         /\ WF_kafkaVars(TakeBatch(f) /\ UNCHANGED kafka)
         /\ WF_kafkaVars((Insert(f) \/ \E s \in SUBSET Stores : InsertError(f, s))
                            /\ UNCHANGED kafka)
         /\ WF_kafkaVars((BatchSettle(f) \/ BatchSettleError(f)) /\ UNCHANGED kafka)

-----------------------------------------------------------------------------
(* Properties *)

KafkaTypeOK ==
    /\ TypeOK
    /\ log \in [Partitions -> Seq(Requests)]
    /\ committed \in Offsets
    /\ assigned \in [Partitions -> SUBSET Procs]
    /\ position \in [Partitions -> Nat]
    /\ \A part \in Partitions : position[part] <= Len(log[part])
    /\ outbox \in [Procs -> SUBSET Requests]
    /\ held \in [Procs -> Seq(Message)]
    /\ next \in [Procs -> Nat]
    /\ \A p \in Procs : next[p] <= Len(held[p])
    /\ cpc \in [Procs -> {"fetch", "handle", "sync", "stopped"}]
    /\ stopping \in [Procs -> BOOLEAN]
    /\ ended \subseteq Requests

\* A message some process still works on: fetched, buffered or being flushed.
InMemory(part, i) ==
    \/ \E p \in Procs : \E j \in DOMAIN held[p] : held[p][j] = [part |-> part, at |-> i]
    \/ \E k \in Shards : \E j \in DOMAIN buf[k] : buf[k][j].req = log[part][i]
    \/ \E f \in Flushers : \E j \in DOMAIN batch[f] : batch[f][j].req = log[part][i]

\* A message that will be fetched: by the owner, or by the next one.
ToBeFetched(part, i) ==
    \/ committed[part] # -1 /\ i > committed[part]
    \/ assigned[part] # {} /\ i > position[part]

\* "idempotent, no loss, no double charge" (kafkaconsumer.go, flush): a message
\* in the log is an order, is being worked on, or will be fetched (again),
\* through rebalances, redeliveries, late commits of former owners, shutdowns and
\* restarts.  The one exception: its event was in a Settler whose process ended.
NoLoss ==
    \A part \in Partitions : \A i \in DOMAIN log[part] :
        \/ orders[log[part][i]] # NoOrder
        \/ InMemory(part, i)
        \/ ToBeFetched(part, i)
        \/ log[part][i] \in ended

\* "Durable-before-commit" (kafkaconsumer.go, flush; FlushSync "closes the
\* commit before durable write loss window"): committed events are orders.
DurableBeforeCommit ==
    \A part \in Partitions : \A i \in DOMAIN log[part] :
        i <= committed[part] => orders[log[part][i]] # NoOrder
=============================================================================
