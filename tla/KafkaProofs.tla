------------------------------ MODULE KafkaProofs ------------------------------
(***************************************************************************)
(* The event-bus deployment implements the billing core: every theorem     *)
(* about Settlement holds of it, whatever the broker duplicates or replays.*)
(* While inserts do not fail, its consumers skip no message.               *)
(***************************************************************************)
EXTENDS KafkaPipeline, SettlementProvenance

\* Most leaves are first-order reasoning: Zenon is tried before the SMT solver.
USE ZenonT(10), SMTT(30)

BrokerOK ==
    /\ log \in [Partitions -> Seq(Requests)]
    /\ \A part \in Partitions : Len(log[part]) <= MaxLog
    /\ committed \in Offsets
    /\ \A part \in Partitions : committed[part] <= Len(log[part])
    /\ position \in [Partitions -> Nat]
    /\ \A part \in Partitions : position[part] <= Len(log[part])
    /\ assigned \in [Partitions -> SUBSET Procs]

\* A message a consumer holds is in the log, where it fetched it.
Logged(m) == m \in Message /\ m.at \in 1 .. Len(log[m.part])

ConsumerOK ==
    /\ held \in [Procs -> Seq(Message)]
    /\ \A p \in Procs : \A i \in DOMAIN held[p] : Logged(held[p][i])
    /\ next \in [Procs -> Nat]
    /\ \A p \in Procs : next[p] <= Len(held[p])
    /\ cpc \in [Procs -> {"fetch", "handle", "sync", "stopped"}]
    /\ stopping \in [Procs -> BOOLEAN]
    /\ ended \subseteq Requests
    /\ outbox \in [Procs -> SUBSET Requests]

\* The bus starts empty, its offsets unset or 0.
LEMMA BusInit == KafkaInit => BrokerOK /\ ConsumerOK
BY KafkaAssumption DEF KafkaInit, BrokerOK, ConsumerOK, Offsets, KafkaAssumption

\* A log only grows at its end: messages that were fetched stay where they are.
LEMMA LogGrows ==
    ASSUME BrokerOK, ConsumerOK, NEW p \in Procs, NEW r \in Requests,
           NEW acked \in BOOLEAN, Produce(p, r, acked)
    PROVE  BrokerOK' /\ ConsumerOK'
<1> DEFINE t == PartitionOf[r]
<1>1. t \in Partitions /\ log[t] \in Seq(Requests)
  BY KafkaAssumption DEF KafkaAssumption, BrokerOK
<1>2. /\ Append(log[t], r) \in Seq(Requests)
      /\ Len(Append(log[t], r)) = Len(log[t]) + 1
  BY <1>1
<1>3. /\ Len(log[t]) < MaxLog
      /\ log' = [log EXCEPT ![t] = Append(log[t], r)]
      /\ outbox' = [outbox EXCEPT ![p] = IF acked THEN outbox[p] \ {r} ELSE outbox[p]]
      /\ UNCHANGED <<committed, assigned, position, held, next, cpc, stopping, ended>>
  BY DEF Produce, consumer
<1>4. \A part \in Partitions : /\ log'[part] \in Seq(Requests)
                               /\ Len(log[part]) \in Nat
                               /\ Len(log'[part]) \in Nat
                               /\ Len(log'[part]) >= Len(log[part])
                               /\ Len(log'[part]) <= MaxLog
  <2> TAKE part \in Partitions
  <2>1. log[part] \in Seq(Requests) /\ Len(log[part]) <= MaxLog
    BY DEF BrokerOK
  <2>2. CASE part = t
    BY <1>1, <1>2, <1>3, <2>1, <2>2, KafkaAssumption DEF KafkaAssumption, BrokerOK
  <2>3. CASE part # t
    BY <1>1, <1>3, <2>1, <2>3, KafkaAssumption DEF KafkaAssumption, BrokerOK
  <2> QED BY <2>2, <2>3
<1> HIDE DEF t
<1>5. BrokerOK'
  <2>1. log' \in [Partitions -> Seq(Requests)]
    BY <1>1, <1>2, <1>3 DEF BrokerOK
  <2>2. \A part \in Partitions : committed[part] \in Int
    BY KafkaAssumption DEF BrokerOK, Offsets, KafkaAssumption
  <2> QED BY <1>3, <1>4, <2>1, <2>2 DEF BrokerOK, Offsets
<1>6. \A m : Logged(m) => Logged(m)'
  BY <1>4 DEF Logged, Message
<1>7. ConsumerOK'
  BY <1>3, <1>6 DEF ConsumerOK
<1> QED BY <1>5, <1>7

\* FetchMessage returns the message at the owner's position.
LEMMA FetchedIsLogged ==
    ASSUME BrokerOK, ConsumerOK, NEW p \in Procs, NEW part \in Partitions, Fetch(p, part)
    PROVE  BrokerOK' /\ ConsumerOK'
<1> DEFINE m == [part |-> part, at |-> position[part] + 1]
<1>1. /\ position[part] \in Nat
      /\ log[part] \in Seq(Requests)
      /\ position[part] < Len(log[part])
  BY DEF BrokerOK, Fetch
<1>2. Logged(m)
  BY <1>1 DEF Logged, Message
<1>3. /\ position' = [position EXCEPT ![part] = position[part] + 1]
      /\ held' = [held EXCEPT ![p] = Append(held[p], m)]
      /\ UNCHANGED <<log, committed, assigned, outbox, next, cpc, stopping, ended>>
  BY DEF Fetch
<1>4. BrokerOK'
  BY <1>1, <1>3 DEF BrokerOK, Offsets
<1>5. m \in Message /\ held[p] \in Seq(Message)
  BY <1>2 DEF Logged, ConsumerOK
<1> HIDE DEF m
<1>6. /\ Append(held[p], m) \in Seq(Message)
      /\ Len(Append(held[p], m)) = Len(held[p]) + 1
      /\ \A i \in DOMAIN Append(held[p], m) :
            Append(held[p], m)[i] = m \/ (i \in DOMAIN held[p]
                                            /\ Append(held[p], m)[i] = held[p][i])
  BY <1>5
<1>7. \A x : Logged(x) => Logged(x)'
  BY <1>3 DEF Logged
<1>8. held' \in [Procs -> Seq(Message)]
  BY <1>3, <1>6 DEF ConsumerOK
<1>9. (\A q \in Procs : \A i \in DOMAIN held[q] : Logged(held[q][i]))'
  <2> SUFFICES ASSUME NEW q \in Procs, NEW i \in DOMAIN held'[q]
               PROVE  Logged(held[q][i])'
    OBVIOUS
  <2>1. CASE q = p
    BY <1>2, <1>3, <1>6, <1>7, <2>1 DEF ConsumerOK
  <2>2. CASE q # p
    BY <1>3, <1>7, <2>2 DEF ConsumerOK
  <2> QED BY <2>1, <2>2
<1>10. \A q \in Procs : next'[q] <= Len(held'[q])
  <2> TAKE q \in Procs
  <2>1. next[q] \in Nat /\ Len(held[q]) \in Nat /\ next[q] <= Len(held[q])
    BY DEF ConsumerOK
  <2> QED BY <1>3, <1>6, <2>1 DEF ConsumerOK
<1>11. ConsumerOK'
  BY <1>3, <1>8, <1>9, <1>10 DEF ConsumerOK
<1> QED BY <1>4, <1>11

\* A commit names messages that were fetched, so it stays within the log.
LEMMA CommitStaysInLog ==
    ASSUME BrokerOK, ConsumerOK, NEW p \in Procs, NEW offsets \in Offsets, Commit(p, offsets)
    PROVE  BrokerOK' /\ ConsumerOK'
<1>1. /\ committed' = offsets
      /\ held' = [held EXCEPT ![p] = << >>]
      /\ next' = [next EXCEPT ![p] = 0]
      /\ cpc' = [cpc EXCEPT ![p] = "fetch"]
      /\ UNCHANGED <<log, assigned, position, outbox, stopping, ended>>
  BY DEF Commit
<1>2. \A part \in Partitions : offsets[part] <= Len(log[part])
  <2> TAKE part \in Partitions
  <2>1. CASE Highest(held[p], offsets) /\ OffsetsIn(held[p], part) # {}
    <3>1. PICK i \in DOMAIN held[p] :
             held[p][i].part = part /\ held[p][i].at = offsets[part]
      BY <2>1 DEF Highest, OffsetsIn
    <3>2. Logged(held[p][i])
      BY <3>1 DEF ConsumerOK
    <3>3. held[p][i].at \in 1 .. Len(log[part])
      BY <3>1, <3>2 DEF Logged
    <3> QED BY <3>1, <3>3 DEF BrokerOK
  <2>2. CASE offsets[part] = committed[part]
    BY <2>2 DEF BrokerOK
  <2> QED BY <2>1, <2>2 DEF Commit, Highest
<1>3. BrokerOK'
  BY <1>1, <1>2 DEF BrokerOK, Offsets
<1>4. \A m : Logged(m) => Logged(m)'
  BY <1>1 DEF Logged
<1>5. ConsumerOK'
  BY <1>1, <1>4 DEF ConsumerOK
<1> QED BY <1>3, <1>5

\* Every step keeps the messages the consumers hold, and the offsets, in the log.
LEMMA BusStep ==
    BrokerOK /\ ConsumerOK /\ [KafkaNext]_kafkaVars => BrokerOK' /\ ConsumerOK'
<1> SUFFICES ASSUME BrokerOK, ConsumerOK, [KafkaNext]_kafkaVars
             PROVE  BrokerOK' /\ ConsumerOK'
  OBVIOUS
<1>1. CASE UNCHANGED kafka
  BY <1>1 DEF BrokerOK, ConsumerOK, Offsets, Logged, kafka, broker, consumer
<1>2. ASSUME NEW r \in Requests, NEW ev \in Event, KafkaEmit(r, ev)
      PROVE  BrokerOK' /\ ConsumerOK'
  <2>1. Home[r] \in Procs
    BY ConstantsAssumption DEF ConstantsAssumption
  <2> QED
    BY <1>2, <2>1 DEF KafkaEmit, BrokerOK, ConsumerOK, Offsets, Logged, broker, consumer
<1>3. ASSUME NEW p \in Procs, NEW r \in Requests, ProduceError(p, r)
      PROVE  BrokerOK' /\ ConsumerOK'
  BY <1>3 DEF ProduceError, BrokerOK, ConsumerOK, Offsets, Logged, broker, consumer
<1>4. ASSUME NEW part \in Partitions, Revoke(part)
      PROVE  BrokerOK' /\ ConsumerOK'
  BY <1>4 DEF Revoke, BrokerOK, ConsumerOK, Offsets, Logged, consumer
<1>5. ASSUME NEW part \in Partitions, NEW p \in Procs, Assign(part, p)
      PROVE  BrokerOK' /\ ConsumerOK'
  <2> DEFINE start == IF committed[part] = -1 THEN Len(log[part]) ELSE committed[part]
  <2>1. start \in Nat /\ start <= Len(log[part])
    BY KafkaAssumption DEF BrokerOK, Offsets, KafkaAssumption
  <2>2. /\ assigned' = [assigned EXCEPT ![part] = {p}]
        /\ position' = [position EXCEPT ![part] = start]
        /\ UNCHANGED <<log, committed, outbox, held, next, cpc, stopping, ended>>
    BY <1>5 DEF Assign, consumer
  <2> HIDE DEF start
  <2>3. BrokerOK'
    BY <2>1, <2>2 DEF BrokerOK, Offsets
  <2>4. ConsumerOK'
    BY <2>2 DEF ConsumerOK, Logged
  <2> QED BY <2>3, <2>4
<1>6. ASSUME NEW p \in Procs, BeginFlush(p) \/ FlushSync(p) \/ Cancel(p)
      PROVE  BrokerOK' /\ ConsumerOK'
  BY <1>6
  DEF BeginFlush, FlushSync, Cancel, BrokerOK, ConsumerOK, Offsets, Logged, broker
<1>7. ASSUME NEW p \in Procs, HandOver(p)
      PROVE  BrokerOK' /\ ConsumerOK'
  <2>0. next[p] < Len(held[p])
    BY <1>7 DEF HandOver
  <2>1. next[p] \in Nat /\ Len(held[p]) \in Nat /\ next \in [Procs -> Nat]
    BY DEF ConsumerOK
  <2>2. /\ next' = [next EXCEPT ![p] = next[p] + 1]
        /\ UNCHANGED <<log, committed, assigned, position, outbox, held, cpc, stopping, ended>>
    BY <1>7 DEF HandOver, broker
  <2>3. next' \in [Procs -> Nat] /\ next'[p] <= Len(held[p])
    BY <2>0, <2>1, <2>2
  <2>4. \A q \in Procs : q # p => next'[q] = next[q]
    BY <2>1, <2>2
  <2>5. BrokerOK'
    BY <2>2 DEF BrokerOK, Offsets
  <2>6. \A m : Logged(m) => Logged(m)'
    BY <2>2 DEF Logged
  <2>7. ConsumerOK'
    BY <2>2, <2>3, <2>4, <2>6 DEF ConsumerOK
  <2> QED BY <2>5, <2>7
<1>8. ASSUME NEW p \in Procs, Stop(p)
      PROVE  BrokerOK' /\ ConsumerOK'
  BY <1>8 DEF Stop, BrokerOK, ConsumerOK, Offsets, Logged
<1>9. ASSUME NEW p \in Procs, ProcessEnds(p)
      PROVE  BrokerOK' /\ ConsumerOK'
  <2>1. /\ outbox' = [outbox EXCEPT ![p] = {}]
        /\ held' = [held EXCEPT ![p] = << >>]
        /\ next' = [next EXCEPT ![p] = 0]
        /\ cpc' = [cpc EXCEPT ![p] = "fetch"]
        /\ stopping' = [stopping EXCEPT ![p] = FALSE]
        /\ assigned' = [part \in Partitions |-> assigned[part] \ {p}]
        /\ UNCHANGED <<log, committed, position>>
        /\ ended' \subseteq ended \cup Requests
    BY <1>9 DEF ProcessEnds, InSettler
  <2>2. BrokerOK'
    BY <2>1 DEF BrokerOK, Offsets
  <2>3. \A m : Logged(m) => Logged(m)'
    BY <2>1 DEF Logged
  <2>4. ConsumerOK'
    BY <2>1, <2>3 DEF ConsumerOK
  <2> QED BY <2>2, <2>4
<1>10. CASE ConsumerNext
  BY <1>5, <1>6, <1>7, <1>8, <1>9, <1>10, FetchedIsLogged, CommitStaysInLog DEF ConsumerNext
<1> QED
  BY <1>1, <1>2, <1>3, <1>4, <1>10, LogGrows DEF KafkaNext, kafkaVars

\* Each step of the bus and its consumers is a step of the core in which no process
\* dies, or the end of a process.
LEMMA KafkaCalmStep ==
    ConsumerOK /\ BrokerOK /\ [KafkaNext]_kafkaVars =>
        CalmStep \/ \E p \in Procs : ProcessEnds(p)
<1> SUFFICES ASSUME ConsumerOK, BrokerOK, KafkaNext
             PROVE  CalmStep \/ \E p \in Procs : ProcessEnds(p)
  BY DEF kafkaVars, CalmStep
<1>1. CASE (RedisNext \/ AdmissionNext \/ FlusherNext) /\ UNCHANGED kafka
  BY <1>1 DEF CalmStep, HandlerNext
<1>2. CASE \E r \in Requests, ev \in Event : KafkaEmit(r, ev)
  BY <1>2 DEF KafkaEmit, CalmStep, HandlerNext
<1>3. ASSUME NEW p \in Procs, HandOver(p)
      PROVE  CalmStep
  <2> DEFINE m == held[p][next[p] + 1]
  <2>0. next[p] < Len(held[p])
    BY <1>3 DEF HandOver
  <2>1. next[p] + 1 \in DOMAIN held[p]
    BY <2>0 DEF ConsumerOK
  <2>2. Logged(m)
    BY <2>1 DEF ConsumerOK
  <2>3. log[m.part][m.at] \in Requests
    <3>1. m.part \in Partitions /\ m.at \in 1 .. Len(log[m.part])
      BY <2>2 DEF Logged, Message
    <3>2. log[m.part] \in Seq(Requests)
      BY <3>1 DEF BrokerOK
    <3> HIDE DEF m
    <3> QED BY <3>1, <3>2
  <2>4. Handle(p, log[m.part][m.at])
    BY <1>3 DEF HandOver
  <2> QED BY <2>3, <2>4 DEF CalmStep
<1>4. ASSUME NEW p \in Procs, FlushSync(p)
      PROVE  CalmStep
  <2>1. Syncs(p) \in SUBSET (Flushers \ Loops)
    BY DEF Syncs
  <2>2. CallFlush(Syncs(p))
    BY <1>4 DEF FlushSync
  <2> QED BY <2>1, <2>2 DEF CalmStep
<1>5. CASE ConsumerNext
  BY <1>3, <1>4, <1>5
  DEF ConsumerNext, Assign, Fetch, BeginFlush, Commit, Cancel, Stop, CalmStep
<1> QED
  BY <1>1, <1>2, <1>5 DEF KafkaNext, Produce, ProduceError, Revoke, CalmStep

\* Each step of the bus and its consumers is a step of the core, or leaves it alone.
LEMMA KafkaStep == ConsumerOK /\ BrokerOK /\ [KafkaNext]_kafkaVars => [Next]_vars
BY KafkaCalmStep DEF CalmStep, ProcessEnds, Next

\* The event bus, with lost, duplicated and replayed messages, rebalances and
\* crashes at any point of KafkaConsumer.Run, implements the billing core.
THEOREM KafkaImplementsSettlement == KafkaSpec => ImplementsSettlement
<1>1. KafkaInit => Init
  BY DEF KafkaInit
<1> QED
  BY <1>1, BusInit, BusStep, KafkaStep, PTL DEF KafkaSpec, ImplementsSettlement, Spec

\* The type invariant of the deployment; the consumers' positions and the
\* committed offsets never pass the end of a log.
THEOREM KafkaTypeCorrect == KafkaSpec => []KafkaTypeOK
<1>1. TypeOK /\ BrokerOK /\ ConsumerOK => KafkaTypeOK
  BY DEF BrokerOK, ConsumerOK, KafkaTypeOK
<1> QED
  BY <1>1, BusInit, BusStep, KafkaImplementsSettlement, TypeCorrect, PTL
  DEF KafkaSpec, ImplementsSettlement

\* A user of the multi-instance gateway sees ChargeOnce: "no double charge"
\* (kafkaconsumer.go), however often the group re-consumes an event.
THEOREM KafkaChargesOnce == KafkaSpec => ImplementsChargeOnce
BY KafkaImplementsSettlement, SettlementImplementsChargeOnce, PTL DEF ImplementsSettlement

-----------------------------------------------------------------------------
(* No loss *)

\* An event that is out of danger: its order is stored, a Settler has its row,
\* or it was in a Settler whose process ended, which NoLoss excepts.
Safe(r) ==
    \/ orders[r] # NoOrder
    \/ \E k \in Shards : InShard(k, r)
    \/ r \in ended

\* A message that is out of danger, or in the batch of a consumer.
Kept(p, part, i) ==
    \/ Safe(log[part][i])
    \/ \E j \in DOMAIN held[p] : held[p][j] = [part |-> part, at |-> i]

\* Why flush may commit the highest offsets it fetched: whatever was assigned,
\* revoked and assigned again since, everything before a message a consumer holds,
\* and before the position it fetches from, is out of danger or in the same batch.
Custody ==
    /\ \A part \in Partitions :
          /\ committed[part] >= 0
          /\ \A i \in 1 .. committed[part] : Safe(log[part][i])
          /\ \A p, q \in assigned[part] : p = q
          /\ \A p \in assigned[part] : \A i \in 1 .. position[part] : Kept(p, part, i)
    /\ \A p \in Procs :
          /\ \A j \in DOMAIN held[p] : \A i \in 1 .. held[p][j].at :
                Kept(p, held[p][j].part, i)
          /\ \A j \in 1 .. next[p] : Safe(log[held[p][j].part][held[p][j].at])
          /\ cpc[p] = "sync" => next[p] = Len(held[p])

\* The history of what died with a Settler only grows.
LEMMA EndedGrows == [KafkaNext]_kafkaVars => ended \subseteq ended'
BY DEF KafkaNext, ConsumerNext, kafkaVars, kafka, consumer, KafkaEmit, Produce, ProduceError,
       Revoke, Assign, Fetch, BeginFlush, HandOver, FlushSync, Commit, Cancel, Stop,
       ProcessEnds

\* While no insert fails, no step puts an event that is out of danger back in it.
LEMMA SafeStays ==
    ASSUME TypeOK, SettlingIsDurable, RestingIsEmpty, BrokerOK, ConsumerOK,
           [KafkaNext]_kafkaVars, "insert" \notin Faults, NEW r \in Requests, Safe(r)
    PROVE  Safe(r)'
<1>0. [Next]_vars
  BY KafkaStep
<1>1. CASE orders[r] # NoOrder
  BY <1>0, <1>1, OrdersAreStable DEF Safe
<1>2. CASE r \in ended
  BY <1>2, EndedGrows DEF Safe
<1>3. ASSUME NEW k \in Shards, InShard(k, r) PROVE Safe(r)'
  <2>1. CASE CalmStep
    BY <1>3, <2>1, RowLeavesSettled DEF Safe
  <2>2. ASSUME NEW p \in Procs, ProcessEnds(p) PROVE Safe(r)'
    <3>1. CASE ProcOf[k] = p
      <4>1. r \in InSettler(p)
        BY <1>3, <3>1 DEF InSettler, InShard, In
      <4> QED BY <2>2, <4>1 DEF ProcessEnds, Safe
    <3>2. CASE ProcOf[k] # p
      <4>1. /\ buf'[k] = buf[k]
            /\ \A f \in Flushers : Of[f] = k => batch'[f] = batch[f]
        BY <2>2, <3>2 DEF ProcessEnds, Crash
      <4>2. InShard(k, r)'
        BY <1>3, <4>1 DEF InShard, In
      <4> QED BY <4>2 DEF Safe
    <3> QED BY <3>1, <3>2
  <2> QED BY <2>1, <2>2, KafkaCalmStep
<1> QED BY <1>1, <1>2, <1>3 DEF Safe

\* A message at an offset of a log is a request.
LEMMA LogEntry ==
    ASSUME BrokerOK, NEW part \in Partitions, NEW i \in 1 .. Len(log[part])
    PROVE  log[part][i] \in Requests
BY DEF BrokerOK

\* What a step does to the log: existing messages stay where they are.
LogStays ==
    \A part \in Partitions : \A i \in 1 .. Len(log[part]) : log'[part][i] = log[part][i]

\* No step loses custody that leaves the batches, the offsets and the positions
\* alone: the core's steps, the writer's, and a partition taken from its owner.
LEMMA CustodyQuiet ==
    ASSUME BrokerOK, ConsumerOK, Custody, LogStays,
           \A r \in Requests : Safe(r) => Safe(r)',
           UNCHANGED <<held, next, committed, position>>,
           \A part \in Partitions : assigned'[part] \subseteq assigned[part],
           \A p \in Procs : cpc'[p] = "sync" => cpc[p] = "sync" \/ next[p] = Len(held[p])
    PROVE  Custody'
<1>1. ASSUME NEW part \in Partitions, NEW i \in 1 .. Len(log[part]), Safe(log[part][i])
      PROVE  Safe(log[part][i])'
  BY <1>1, LogEntry DEF LogStays, Safe, InShard, In
<1>2. ASSUME NEW p \in Procs, NEW part \in Partitions, NEW i \in 1 .. Len(log[part]),
             Kept(p, part, i)
      PROVE  Kept(p, part, i)'
  BY <1>1, <1>2 DEF Kept
<1>3. ASSUME NEW part \in Partitions
      PROVE  /\ committed'[part] >= 0
             /\ \A i \in 1 .. committed'[part] : Safe(log[part][i])'
             /\ \A p, q \in assigned'[part] : p = q
             /\ \A p \in assigned'[part] : \A i \in 1 .. position'[part] : Kept(p, part, i)'
  <2>1. /\ committed[part] \in Int /\ committed[part] <= Len(log[part])
        /\ position[part] \in Nat /\ position[part] <= Len(log[part])
        /\ Len(log[part]) \in Nat
        /\ assigned[part] \subseteq Procs
    BY KafkaAssumption DEF BrokerOK, Offsets, KafkaAssumption
  <2>2. \A i \in 1 .. committed[part] : i \in 1 .. Len(log[part])
    BY <2>1
  <2>3. \A i \in 1 .. position[part] : i \in 1 .. Len(log[part])
    BY <2>1
  <2>4. \A i \in 1 .. committed'[part] : Safe(log[part][i])'
    BY <1>1, <2>2 DEF Custody
  <2>5. \A p \in assigned'[part] : \A i \in 1 .. position'[part] : Kept(p, part, i)'
    BY <1>2, <2>1, <2>3 DEF Custody
  <2> QED BY <2>4, <2>5 DEF Custody
<1>4. ASSUME NEW p \in Procs
      PROVE  /\ \A j \in DOMAIN held'[p] : \A i \in 1 .. held'[p][j].at :
                   Kept(p, held[p][j].part, i)'
             /\ \A j \in 1 .. next'[p] : Safe(log[held[p][j].part][held[p][j].at])'
             /\ cpc'[p] = "sync" => next'[p] = Len(held'[p])
  <2>1. ASSUME NEW j \in DOMAIN held[p]
        PROVE  held[p][j].part \in Partitions /\ held[p][j].at \in 1 .. Len(log[held[p][j].part])
    BY DEF ConsumerOK, Logged, Message
  <2>2. ASSUME NEW j \in DOMAIN held'[p], NEW i \in 1 .. held'[p][j].at
        PROVE  Kept(p, held[p][j].part, i)'
    <3>1. i \in 1 .. Len(log[held[p][j].part])
      BY <2>1 DEF BrokerOK
    <3> QED BY <1>2, <2>1, <3>1 DEF Custody
  <2>3. ASSUME NEW j \in 1 .. next'[p]
        PROVE  Safe(log[held[p][j].part][held[p][j].at])'
    <3>1. j \in DOMAIN held[p]
      BY DEF ConsumerOK
    <3> QED BY <1>1, <2>1, <3>1 DEF Custody
  <2> QED BY <2>2, <2>3 DEF Custody
<1> QED BY <1>3, <1>4 DEF Custody

\* Offsets, positions and the messages of a batch name messages of the log.
LEMMA InTheLog ==
    ASSUME BrokerOK, ConsumerOK
    PROVE  /\ \A part \in Partitions :
                /\ Len(log[part]) \in Nat /\ committed[part] \in Int /\ position[part] \in Nat
                /\ assigned[part] \subseteq Procs
                /\ \A i \in 1 .. committed[part] : i \in 1 .. Len(log[part])
                /\ \A i \in 1 .. position[part] : i \in 1 .. Len(log[part])
           /\ \A p \in Procs :
                /\ held[p] \in Seq(Message) /\ Len(held[p]) \in Nat /\ next[p] \in Nat
                /\ \A j \in 1 .. next[p] : j \in DOMAIN held[p]
                /\ \A j \in DOMAIN held[p] :
                      /\ held[p][j].part \in Partitions
                      /\ held[p][j].at \in 1 .. Len(log[held[p][j].part])
                      /\ \A i \in 1 .. held[p][j].at : i \in 1 .. Len(log[held[p][j].part])
<1>1. ASSUME NEW part \in Partitions
      PROVE  /\ Len(log[part]) \in Nat /\ committed[part] \in Int /\ position[part] \in Nat
             /\ assigned[part] \subseteq Procs
             /\ \A i \in 1 .. committed[part] : i \in 1 .. Len(log[part])
             /\ \A i \in 1 .. position[part] : i \in 1 .. Len(log[part])
  <2>1. /\ committed[part] \in Int /\ committed[part] <= Len(log[part])
        /\ position[part] \in Nat /\ position[part] <= Len(log[part])
        /\ Len(log[part]) \in Nat /\ assigned[part] \subseteq Procs
    BY KafkaAssumption DEF BrokerOK, Offsets, KafkaAssumption
  <2> QED BY <2>1
<1>2. ASSUME NEW p \in Procs, NEW j \in DOMAIN held[p]
      PROVE  /\ held[p][j].part \in Partitions
             /\ held[p][j].at \in 1 .. Len(log[held[p][j].part])
             /\ \A i \in 1 .. held[p][j].at : i \in 1 .. Len(log[held[p][j].part])
  <2>1. /\ held[p][j].part \in Partitions
        /\ held[p][j].at \in 1 .. Len(log[held[p][j].part])
    BY DEF ConsumerOK, Logged, Message
  <2>2. Len(log[held[p][j].part]) \in Nat
    BY <1>1, <2>1
  <2> QED BY <2>1, <2>2
<1>3. ASSUME NEW p \in Procs
      PROVE  /\ held[p] \in Seq(Message) /\ Len(held[p]) \in Nat /\ next[p] \in Nat
             /\ \A j \in 1 .. next[p] : j \in DOMAIN held[p]
  <2>1. held[p] \in Seq(Message) /\ next[p] \in Nat /\ next[p] <= Len(held[p])
    BY DEF ConsumerOK
  <2> QED BY <2>1
<1> QED BY <1>1, <1>2, <1>3

\* A new owner starts behind the committed offset, where everything is safe.
LEMMA CustodyAssign ==
    ASSUME BrokerOK, ConsumerOK, Custody, \A r \in Requests : Safe(r) => Safe(r)',
           NEW t \in Partitions, NEW p \in Procs, Assign(t, p)
    PROVE  Custody'
<1>1. /\ assigned' = [assigned EXCEPT ![t] = {p}]
      /\ position' = [position EXCEPT ![t] = committed[t]]
      /\ UNCHANGED <<log, committed, held, next, cpc>>
  <2>1. committed[t] # -1
    BY InTheLog DEF Custody
  <2> QED BY <2>1 DEF Assign, consumer
<1>2. ASSUME NEW part \in Partitions, NEW i \in 1 .. Len(log[part]), Safe(log[part][i])
      PROVE  Safe(log[part][i])'
  BY <1>1, <1>2, LogEntry DEF Safe, InShard, In
<1>3. ASSUME NEW q \in Procs, NEW part \in Partitions, NEW i \in 1 .. Len(log[part]),
             Kept(q, part, i)
      PROVE  Kept(q, part, i)'
  BY <1>1, <1>2, <1>3 DEF Kept
<1>4. ASSUME NEW part \in Partitions
      PROVE  /\ committed'[part] >= 0
             /\ \A i \in 1 .. committed'[part] : Safe(log[part][i])'
  BY <1>1, <1>2, InTheLog DEF Custody
<1>5. ASSUME NEW part \in Partitions
      PROVE  /\ \A q, o \in assigned'[part] : q = o
             /\ \A q \in assigned'[part] : \A i \in 1 .. position'[part] : Kept(q, part, i)'
  <2>1. CASE part = t
    <3>1. assigned'[part] = {p} /\ position'[part] = committed[part]
      BY <1>1, <2>1 DEF BrokerOK
    <3> QED BY <1>1, <1>4, <3>1 DEF Kept
  <2>2. CASE part # t
    <3>1. assigned'[part] = assigned[part] /\ position'[part] = position[part]
      BY <1>1, <2>2 DEF BrokerOK
    <3> QED BY <1>3, <3>1, InTheLog DEF Custody
  <2> QED BY <2>1, <2>2
<1>6. ASSUME NEW q \in Procs
      PROVE  /\ \A j \in DOMAIN held'[q] : \A i \in 1 .. held'[q][j].at :
                   Kept(q, held[q][j].part, i)'
             /\ \A j \in 1 .. next'[q] : Safe(log[held[q][j].part][held[q][j].at])'
             /\ cpc'[q] = "sync" => next'[q] = Len(held'[q])
  <2>1. \A j \in DOMAIN held[q] : \A i \in 1 .. held[q][j].at : Kept(q, held[q][j].part, i)'
    BY <1>1, <1>3, InTheLog DEF Custody
  <2>2. \A j \in 1 .. next[q] : Safe(log[held[q][j].part][held[q][j].at])'
    BY <1>1, <1>2, InTheLog DEF Custody
  <2> QED BY <1>1, <2>1, <2>2 DEF Custody
<1> QED BY <1>4, <1>5, <1>6 DEF Custody

\* The message FetchMessage returns is the next one after what its owner has seen.
LEMMA CustodyFetch ==
    ASSUME BrokerOK, ConsumerOK, Custody, \A r \in Requests : Safe(r) => Safe(r)',
           NEW p \in Procs, NEW t \in Partitions, Fetch(p, t)
    PROVE  Custody'
<1> DEFINE m == [part |-> t, at |-> position[t] + 1]
<1>1. /\ position' = [position EXCEPT ![t] = position[t] + 1]
      /\ held' = [held EXCEPT ![p] = Append(held[p], m)]
      /\ p \in assigned[t] /\ cpc[p] = "fetch"
      /\ UNCHANGED <<log, committed, assigned, next, cpc>>
  BY DEF Fetch
<1>m. m \in Message /\ m.part = t /\ m.at = position[t] + 1 /\ position[t] \in Nat
  BY InTheLog DEF Message
<1> HIDE DEF m
<1>2. ASSUME NEW part \in Partitions, NEW i \in 1 .. Len(log[part]), Safe(log[part][i])
      PROVE  Safe(log[part][i])'
  BY <1>1, <1>2, LogEntry DEF Safe, InShard, In
<1>a. /\ DOMAIN Append(held[p], m) = 1 .. Len(held[p]) + 1
      /\ DOMAIN held[p] = 1 .. Len(held[p])
      /\ \A j \in DOMAIN held[p] : Append(held[p], m)[j] = held[p][j]
      /\ Append(held[p], m)[Len(held[p]) + 1] = m
      /\ Len(held[p]) \in Nat
  BY <1>m, InTheLog
<1>b. held'[p] = Append(held[p], m) /\ \A q \in Procs : q # p => held'[q] = held[q]
  BY <1>1 DEF ConsumerOK
<1>3. ASSUME NEW q \in Procs, NEW part \in Partitions, NEW i \in 1 .. Len(log[part]),
             Kept(q, part, i)
      PROVE  Kept(q, part, i)'
  <2>1. CASE Safe(log[part][i])
    BY <1>2, <2>1 DEF Kept
  <2>2. ASSUME NEW j \in DOMAIN held[q], held[q][j] = [part |-> part, at |-> i]
        PROVE  Kept(q, part, i)'
    <3>1. j \in DOMAIN held'[q] /\ held'[q][j] = held[q][j]
      BY <1>a, <1>b
    <3> QED BY <2>2, <3>1 DEF Kept
  <2> QED BY <1>3, <2>1, <2>2 DEF Kept
<1>4. ASSUME NEW i, i = position[t] + 1 PROVE Kept(p, t, i)'
  <2>1. /\ Len(held[p]) + 1 \in DOMAIN held'[p]
        /\ held'[p][Len(held[p]) + 1] = [part |-> t, at |-> i]
    BY <1>4, <1>a, <1>b DEF m
  <2> QED BY <2>1 DEF Kept
<1>5. \A i \in 1 .. position[t] + 1 : Kept(p, t, i)'
  <2> TAKE i \in 1 .. position[t] + 1
  <2>1. i \in 1 .. position[t] \/ i = position[t] + 1
    BY <1>m
  <2>2. CASE i \in 1 .. position[t]
    <3>1. Kept(p, t, i)
      BY <1>1, <2>2 DEF Custody
    <3> QED BY <1>3, <2>2, <3>1, InTheLog
  <2> QED BY <1>4, <2>1, <2>2
<1>6. ASSUME NEW part \in Partitions
      PROVE  /\ committed'[part] >= 0
             /\ \A i \in 1 .. committed'[part] : Safe(log[part][i])'
             /\ \A q, o \in assigned'[part] : q = o
             /\ \A q \in assigned'[part] : \A i \in 1 .. position'[part] : Kept(q, part, i)'
  <2>1. /\ committed'[part] >= 0
        /\ \A i \in 1 .. committed'[part] : Safe(log[part][i])'
        /\ \A q, o \in assigned'[part] : q = o
    BY <1>1, <1>2, InTheLog DEF Custody
  <2>2. CASE part = t
    <3>1. position'[part] = position[t] + 1 /\ \A q \in assigned'[part] : q = p
      BY <1>1, <2>1, <2>2 DEF BrokerOK
    <3> QED BY <1>5, <2>1, <2>2, <3>1
  <2>3. CASE part # t
    <3>1. position'[part] = position[part] /\ assigned'[part] = assigned[part]
      BY <1>1, <2>3 DEF BrokerOK
    <3>2. \A q \in assigned[part] : \A i \in 1 .. position[part] : Kept(q, part, i)'
      BY <1>3, InTheLog DEF Custody
    <3> QED BY <2>1, <3>1, <3>2
  <2> QED BY <2>2, <2>3
<1>7. ASSUME NEW q \in Procs
      PROVE  /\ \A j \in DOMAIN held'[q] : \A i \in 1 .. held'[q][j].at :
                   Kept(q, held[q][j].part, i)'
             /\ \A j \in 1 .. next'[q] : Safe(log[held[q][j].part][held[q][j].at])'
             /\ cpc'[q] = "sync" => next'[q] = Len(held'[q])
  <2>0. \A j \in DOMAIN held[q] : j \in DOMAIN held'[q] /\ held'[q][j] = held[q][j]
    BY <1>a, <1>b
  <2>1. ASSUME NEW j \in DOMAIN held[q], NEW i \in 1 .. held[q][j].at
        PROVE  Kept(q, held[q][j].part, i)'
    <3>1. PICK part \in Partitions : part = held[q][j].part
      BY InTheLog
    <3>2. Kept(q, part, i)'
      BY <1>3, <3>1, InTheLog DEF Custody
    <3> QED BY <2>0, <3>1, <3>2
  <2>2. ASSUME NEW j \in 1 .. next[q] PROVE Safe(log[held[q][j].part][held[q][j].at])'
    <3>1. j \in DOMAIN held[q] /\ Safe(log[held[q][j].part][held[q][j].at])
      BY InTheLog DEF Custody
    <3> QED BY <1>1, <1>2, <2>0, <3>1, InTheLog
  <2>3. CASE q = p
    <3>1. \A j \in DOMAIN held'[p] : \A i \in 1 .. held'[p][j].at : Kept(p, held[p][j].part, i)'
      <4> TAKE j \in DOMAIN held'[p]
      <4>1. j \in DOMAIN held[p] \/ j = Len(held[p]) + 1
        BY <1>a, <1>b
      <4>2. CASE j = Len(held[p]) + 1
        BY <1>5, <1>a, <1>b, <1>m, <4>2
      <4> QED BY <2>0, <2>1, <2>3, <4>1, <4>2
    <3> QED BY <1>1, <2>2, <2>3, <3>1
  <2>4. CASE q # p
    <3>1. cpc'[q] = "sync" => next'[q] = Len(held'[q])
      BY <1>1, <1>b, <2>4 DEF Custody
    <3> QED BY <1>1, <1>b, <2>0, <2>1, <2>2, <2>4, <3>1
  <2> QED BY <2>3, <2>4
<1> QED BY <1>6, <1>7 DEF Custody

\* Settler.Handle buffers the event before the next message is handed over.
LEMMA CustodyHandOver ==
    ASSUME TypeOK, BrokerOK, ConsumerOK, Custody, \A r \in Requests : Safe(r) => Safe(r)',
           NEW p \in Procs, HandOver(p)
    PROVE  Custody'
<1> DEFINE n == next[p] + 1
           r == log[held[p][n].part][held[p][n].at]
<1>1. /\ next' = [next EXCEPT ![p] = n] /\ cpc[p] = "handle"
      /\ UNCHANGED <<log, committed, assigned, position, held, cpc>>
      /\ Handle(p, r) /\ next[p] < Len(held[p])
  BY DEF HandOver, broker
<1>n. n \in DOMAIN held[p]
  <2>1. next[p] < Len(held[p])
    BY DEF HandOver
  <2> QED BY <2>1 DEF ConsumerOK
<1>r. r \in Requests
  BY <1>n, InTheLog, LogEntry
<1>2. ASSUME NEW part \in Partitions, NEW i \in 1 .. Len(log[part]), Safe(log[part][i])
      PROVE  Safe(log[part][i])'
  BY <1>1, <1>2, LogEntry DEF Safe, InShard, In
<1>3. ASSUME NEW q \in Procs, NEW part \in Partitions, NEW i \in 1 .. Len(log[part]),
             Kept(q, part, i)
      PROVE  Kept(q, part, i)'
  BY <1>1, <1>2, <1>3 DEF Kept
<1>4. \E k \in Shards : \E i \in DOMAIN buf'[k] : buf'[k][i].req = r
  <2> DEFINE k == ShardIndex[p][r]
             row == [req |-> r, order |-> OrderFromEvent(event[r])]
  <2>1. k \in Shards
    BY <1>r, Topology
  <2>2. buf' = [buf EXCEPT ![k] = Append(buf[k], row)] /\ row.req = r
    BY <1>1 DEF Handle
  <2>3. buf[k] \in Seq(Row) /\ buf'[k] = Append(buf[k], row)
    BY <2>1, <2>2 DEF TypeOK
  <2> HIDE DEF k, row, r
  <2>4. Len(buf[k]) + 1 \in DOMAIN buf'[k] /\ buf'[k][Len(buf[k]) + 1] = row
    BY <2>3
  <2> QED BY <2>1, <2>2, <2>4
<1>5. ASSUME NEW j, j = n PROVE Safe(log[held[p][j].part][held[p][j].at])'
  BY <1>1, <1>4, <1>5 DEF Safe, InShard, In
<1>6. ASSUME NEW part \in Partitions
      PROVE  /\ committed'[part] >= 0
             /\ \A i \in 1 .. committed'[part] : Safe(log[part][i])'
             /\ \A q, o \in assigned'[part] : q = o
             /\ \A q \in assigned'[part] : \A i \in 1 .. position'[part] : Kept(q, part, i)'
  <2>1. \A q \in assigned[part] : \A i \in 1 .. position[part] : Kept(q, part, i)'
    BY <1>3, InTheLog DEF Custody
  <2>2. \A i \in 1 .. committed[part] : Safe(log[part][i])'
    BY <1>1, <1>2, InTheLog DEF Custody
  <2> QED BY <1>1, <2>1, <2>2 DEF Custody
<1>7. ASSUME NEW q \in Procs
      PROVE  /\ \A j \in DOMAIN held'[q] : \A i \in 1 .. held'[q][j].at :
                   Kept(q, held[q][j].part, i)'
             /\ \A j \in 1 .. next'[q] : Safe(log[held[q][j].part][held[q][j].at])'
             /\ cpc'[q] = "sync" => next'[q] = Len(held'[q])
  <2>1. \A j \in DOMAIN held[q] : \A i \in 1 .. held[q][j].at : Kept(q, held[q][j].part, i)'
    BY <1>1, <1>3, InTheLog DEF Custody
  <2>2. \A j \in 1 .. next[q] : Safe(log[held[q][j].part][held[q][j].at])'
    BY <1>1, <1>2, InTheLog DEF Custody
  <2>3. CASE q = p
    <3>1. next'[q] = n /\ cpc'[q] = "handle"
      BY <1>1, <2>3 DEF ConsumerOK
    <3>2. \A j \in 1 .. n : j \in 1 .. next[q] \/ j = n
      BY <2>3, InTheLog
    <3>3. \A j \in 1 .. next'[q] : Safe(log[held[q][j].part][held[q][j].at])'
      BY <1>5, <2>2, <2>3, <3>1, <3>2
    <3> QED BY <1>1, <2>1, <3>1, <3>3
  <2>4. CASE q # p
    <3>1. next'[q] = next[q]
      BY <1>1, <2>4 DEF ConsumerOK
    <3> QED BY <1>1, <2>1, <2>2, <3>1 DEF Custody
  <2> QED BY <2>3, <2>4
<1> QED BY <1>6, <1>7 DEF Custody

\* When flush commits, everything in its batch was handed over, so everything up
\* to the offsets it commits is safe; so it is when the commit fails.
LEMMA CustodyCommit ==
    ASSUME BrokerOK, ConsumerOK, Custody, \A r \in Requests : Safe(r) => Safe(r)',
           NEW p \in Procs, NEW offsets \in Offsets, Commit(p, offsets)
    PROVE  Custody'
<1>1. /\ committed' = offsets
      /\ held' = [held EXCEPT ![p] = << >>]
      /\ next' = [next EXCEPT ![p] = 0]
      /\ cpc' = [cpc EXCEPT ![p] = "fetch"]
      /\ cpc[p] = "sync"
      /\ UNCHANGED <<log, assigned, position>>
  BY DEF Commit
<1>2. ASSUME NEW part \in Partitions, NEW i \in 1 .. Len(log[part]), Safe(log[part][i])
      PROVE  Safe(log[part][i])'
  BY <1>1, <1>2, LogEntry DEF Safe, InShard, In
<1>3. ASSUME NEW part \in Partitions, NEW i \in 1 .. Len(log[part]), Kept(p, part, i)
      PROVE  Safe(log[part][i])
  <2>1. ASSUME NEW j \in DOMAIN held[p], held[p][j] = [part |-> part, at |-> i]
        PROVE  Safe(log[part][i])
    <3>1. j \in 1 .. next[p]
      BY <1>1, InTheLog DEF Custody
    <3>2. Safe(log[held[p][j].part][held[p][j].at])
      BY <3>1 DEF Custody
    <3> QED BY <2>1, <3>2
  <2> QED BY <1>3, <2>1 DEF Kept
<1>4. ASSUME NEW q \in Procs, NEW part \in Partitions, NEW i \in 1 .. Len(log[part]),
             Kept(q, part, i)
      PROVE  Kept(q, part, i)'
  <2>1. CASE q = p
    BY <1>2, <1>3, <1>4, <2>1 DEF Kept
  <2>2. CASE q # p
    <3>1. held'[q] = held[q]
      BY <1>1, <2>2 DEF ConsumerOK
    <3> QED BY <1>2, <1>4, <3>1 DEF Kept
  <2> QED BY <2>1, <2>2
<1>5. ASSUME NEW part \in Partitions
      PROVE  offsets[part] >= 0 /\ \A i \in 1 .. offsets[part] : Safe(log[part][i])'
  <2>1. CASE Highest(held[p], offsets) /\ OffsetsIn(held[p], part) # {}
    <3>1. PICK j \in DOMAIN held[p] : held[p][j].part = part /\ held[p][j].at = offsets[part]
      BY <2>1 DEF Highest, OffsetsIn
    <3>2. held[p][j].at \in 1 .. Len(log[part]) /\ Len(log[part]) \in Nat
      BY <3>1, InTheLog
    <3>3. \A i \in 1 .. held[p][j].at : i \in 1 .. Len(log[part]) /\ Kept(p, part, i)
      BY <3>1, InTheLog DEF Custody
    <3>4. \A i \in 1 .. held[p][j].at : Safe(log[part][i])'
      BY <1>2, <1>3, <3>3
    <3> QED BY <3>1, <3>2, <3>4
  <2>2. CASE offsets[part] = committed[part]
    BY <1>2, <2>2, InTheLog DEF Custody
  <2> QED BY <2>1, <2>2 DEF Commit, Highest
<1>6. ASSUME NEW part \in Partitions
      PROVE  /\ \A q, o \in assigned'[part] : q = o
             /\ \A q \in assigned'[part] : \A i \in 1 .. position'[part] : Kept(q, part, i)'
  <2>1. \A q \in assigned[part] : \A i \in 1 .. position[part] : Kept(q, part, i)'
    BY <1>4, InTheLog DEF Custody
  <2> QED BY <1>1, <2>1 DEF Custody
<1>7. ASSUME NEW q \in Procs
      PROVE  /\ \A j \in DOMAIN held'[q] : \A i \in 1 .. held'[q][j].at :
                   Kept(q, held[q][j].part, i)'
             /\ \A j \in 1 .. next'[q] : Safe(log[held[q][j].part][held[q][j].at])'
             /\ cpc'[q] = "sync" => next'[q] = Len(held'[q])
  <2>1. CASE q = p
    <3>1. held'[q] = << >> /\ next'[q] = 0 /\ cpc'[q] = "fetch"
      BY <1>1, <2>1 DEF ConsumerOK
    <3> QED BY <3>1
  <2>2. CASE q # p
    <3>1. held'[q] = held[q] /\ next'[q] = next[q] /\ cpc'[q] = cpc[q]
      BY <1>1, <2>2 DEF ConsumerOK
    <3>2. \A j \in DOMAIN held[q] : \A i \in 1 .. held[q][j].at : Kept(q, held[q][j].part, i)'
      BY <1>4, <3>1, InTheLog DEF Custody
    <3>3. \A j \in 1 .. next[q] : Safe(log[held[q][j].part][held[q][j].at])'
      BY <1>1, <1>2, <3>1, InTheLog DEF Custody
    <3> QED BY <3>1, <3>2, <3>3 DEF Custody
  <2> QED BY <2>1, <2>2
<1> QED BY <1>1, <1>5, <1>6, <1>7 DEF Custody

\* A process that ends takes its batch with it and owns nothing afterwards.
LEMMA CustodyEnds ==
    ASSUME BrokerOK, ConsumerOK, Custody, \A r \in Requests : Safe(r) => Safe(r)',
           NEW p \in Procs, ProcessEnds(p)
    PROVE  Custody'
<1>1. /\ held' = [held EXCEPT ![p] = << >>]
      /\ next' = [next EXCEPT ![p] = 0]
      /\ cpc' = [cpc EXCEPT ![p] = "fetch"]
      /\ assigned' = [part \in Partitions |-> assigned[part] \ {p}]
      /\ UNCHANGED <<log, committed, position>>
  BY DEF ProcessEnds
<1>2. ASSUME NEW part \in Partitions, NEW i \in 1 .. Len(log[part]), Safe(log[part][i])
      PROVE  Safe(log[part][i])'
  BY <1>1, <1>2, LogEntry DEF Safe, InShard, In
<1>4. ASSUME NEW q \in Procs, q # p, NEW part \in Partitions, NEW i \in 1 .. Len(log[part]),
             Kept(q, part, i)
      PROVE  Kept(q, part, i)'
  <2>1. held'[q] = held[q]
    BY <1>1, <1>4 DEF ConsumerOK
  <2> QED BY <1>2, <1>4, <2>1 DEF Kept
<1>6. ASSUME NEW part \in Partitions
      PROVE  /\ committed'[part] >= 0
             /\ \A i \in 1 .. committed'[part] : Safe(log[part][i])'
             /\ \A q, o \in assigned'[part] : q = o
             /\ \A q \in assigned'[part] : \A i \in 1 .. position'[part] : Kept(q, part, i)'
  <2>1. \A i \in 1 .. committed[part] : Safe(log[part][i])'
    BY <1>1, <1>2, InTheLog DEF Custody
  <2>2. \A q \in assigned[part] \ {p} : \A i \in 1 .. position[part] : Kept(q, part, i)'
    BY <1>4, InTheLog DEF Custody
  <2>3. assigned'[part] = assigned[part] \ {p}
    BY <1>1
  <2> QED BY <1>1, <2>1, <2>2, <2>3 DEF Custody
<1>7. ASSUME NEW q \in Procs
      PROVE  /\ \A j \in DOMAIN held'[q] : \A i \in 1 .. held'[q][j].at :
                   Kept(q, held[q][j].part, i)'
             /\ \A j \in 1 .. next'[q] : Safe(log[held[q][j].part][held[q][j].at])'
             /\ cpc'[q] = "sync" => next'[q] = Len(held'[q])
  <2>1. CASE q = p
    <3>1. held'[q] = << >> /\ next'[q] = 0 /\ cpc'[q] = "fetch"
      BY <1>1, <2>1 DEF ConsumerOK
    <3> QED BY <3>1
  <2>2. CASE q # p
    <3>1. held'[q] = held[q] /\ next'[q] = next[q] /\ cpc'[q] = cpc[q]
      BY <1>1, <2>2 DEF ConsumerOK
    <3>2. \A j \in DOMAIN held[q] : \A i \in 1 .. held[q][j].at : Kept(q, held[q][j].part, i)'
      BY <1>4, <2>2, <3>1, InTheLog DEF Custody
    <3>3. \A j \in 1 .. next[q] : Safe(log[held[q][j].part][held[q][j].at])'
      BY <1>1, <1>2, <3>1, InTheLog DEF Custody
    <3> QED BY <3>1, <3>2, <3>3 DEF Custody
  <2> QED BY <2>1, <2>2
<1> QED BY <1>6, <1>7 DEF Custody

\* Every step of the bus and its consumers keeps custody of the messages.
LEMMA CustodyStep ==
    ASSUME TypeOK, SettlingIsDurable, RestingIsEmpty, BrokerOK, ConsumerOK, Custody,
           [KafkaNext]_kafkaVars, "insert" \notin Faults
    PROVE  Custody'
<1>0. \A r \in Requests : Safe(r) => Safe(r)'
  BY SafeStays
<1>1. CASE UNCHANGED <<log, held, next, committed, position, assigned, cpc>>
  BY <1>0, <1>1, CustodyQuiet DEF LogStays
<1>2. ASSUME NEW p \in Procs, NEW r \in Requests, NEW acked \in BOOLEAN, Produce(p, r, acked)
      PROVE  Custody'
  <2> DEFINE t == PartitionOf[r]
  <2>1. /\ log' = [log EXCEPT ![t] = Append(log[t], r)]
        /\ UNCHANGED <<held, next, committed, position, assigned, cpc>>
    BY <1>2 DEF Produce, consumer
  <2>2. t \in Partitions
    BY KafkaAssumption DEF KafkaAssumption
  <2> HIDE DEF t
  <2>3. ASSUME NEW part \in Partitions, NEW i \in 1 .. Len(log[part])
        PROVE  log'[part][i] = log[part][i]
    <3>1. log[part] \in Seq(Requests)
      BY DEF BrokerOK
    <3>2. log'[part] = log[part] \/ log'[part] = Append(log[part], r)
      BY <2>1, <2>2 DEF BrokerOK
    <3> QED BY <3>1, <3>2
  <2> QED BY <1>0, <2>1, <2>3, CustodyQuiet DEF LogStays
<1>3. ASSUME NEW part \in Partitions, Revoke(part)
      PROVE  Custody'
  <2>1. \A t \in Partitions : assigned'[t] \subseteq assigned[t]
    BY <1>3 DEF Revoke, BrokerOK
  <2>2. UNCHANGED <<log, held, next, committed, position, cpc>>
    BY <1>3 DEF Revoke, consumer
  <2> QED BY <1>0, <2>1, <2>2, CustodyQuiet DEF LogStays
<1>4. ASSUME NEW p \in Procs, BeginFlush(p) \/ FlushSync(p) \/ Stop(p)
      PROVE  Custody'
  <2>1. UNCHANGED <<log, held, next, committed, position>>
    BY <1>4 DEF BeginFlush, FlushSync, Stop, broker
  <2>2. \A t \in Partitions : assigned'[t] \subseteq assigned[t]
    BY <1>4 DEF BeginFlush, FlushSync, Stop, broker
  <2>3. \A q \in Procs : cpc'[q] = "sync" => cpc[q] = "sync" \/ next[q] = Len(held[q])
    BY <1>4 DEF BeginFlush, FlushSync, Stop, ConsumerOK
  <2> QED BY <1>0, <2>1, <2>2, <2>3, CustodyQuiet DEF LogStays
<1>5. CASE ConsumerNext
  <2>1. ASSUME NEW p \in Procs, HandOver(p) PROVE Custody'
    BY <1>0, <2>1, CustodyHandOver
  <2>2. ASSUME NEW p \in Procs, ProcessEnds(p) PROVE Custody'
    BY <1>0, <2>2, CustodyEnds
  <2>3. ASSUME NEW p \in Procs, Cancel(p) PROVE Custody'
    BY <1>1, <2>3 DEF Cancel, broker
  <2>4. ASSUME NEW p \in Procs, NEW part \in Partitions, Assign(part, p) \/ Fetch(p, part)
        PROVE  Custody'
    BY <1>0, <2>4, CustodyAssign, CustodyFetch
  <2>5. ASSUME NEW p \in Procs, NEW offsets \in Offsets, Commit(p, offsets) PROVE Custody'
    BY <1>0, <2>5, CustodyCommit
  <2> QED BY <1>4, <1>5, <2>1, <2>2, <2>3, <2>4, <2>5 DEF ConsumerNext
<1>6. CASE UNCHANGED kafka
  BY <1>1, <1>6 DEF kafka, broker, consumer
<1>7. ASSUME NEW r \in Requests, NEW ev \in Event, KafkaEmit(r, ev) PROVE Custody'
  BY <1>1, <1>7 DEF KafkaEmit, broker, consumer
<1>8. ASSUME NEW p \in Procs, NEW r \in Requests, ProduceError(p, r) PROVE Custody'
  BY <1>1, <1>8 DEF ProduceError, broker, consumer
<1> QED BY <1>2, <1>3, <1>5, <1>6, <1>7, <1>8 DEF KafkaNext, kafkaVars

\* Custody is all that "no loss" needs: what is not safe is not committed.
LEMMA CustodyIsNoLoss == BrokerOK /\ ConsumerOK /\ Custody => NoLoss
<1> SUFFICES ASSUME BrokerOK, ConsumerOK, Custody,
                    NEW part \in Partitions, NEW i \in DOMAIN log[part]
             PROVE  \/ orders[log[part][i]] # NoOrder \/ InMemory(part, i)
                    \/ ToBeFetched(part, i) \/ log[part][i] \in ended
  BY DEF NoLoss
<1>1. i \in 1 .. Len(log[part]) /\ committed[part] \in Int /\ committed[part] >= 0
  BY InTheLog DEF BrokerOK, Custody
<1>2. CASE i <= committed[part]
  <2>1. i \in 1 .. committed[part]
    BY <1>1, <1>2
  <2>2. Safe(log[part][i])
    BY <2>1 DEF Custody
  <2> QED BY <2>2 DEF Safe, InShard, In, InMemory
<1>3. CASE i > committed[part]
  BY <1>1, <1>3 DEF ToBeFetched
<1> QED BY <1>1, <1>2, <1>3

\* "idempotent, no loss, no double charge" (kafkaconsumer.go, flush): while no insert
\* fails, and once the group has committed offsets, no rebalance, redelivery, late or
\* failed commit makes the group skip an unsettled message, for any number of
\* processes, partitions and messages; nor does a shutdown or a crash, except for
\* the events that were in the Settler of the process that ended.  Those are
\* lost: main closes no Settler.  (With failing inserts, and in a group that has
\* never committed, the claim is false.)
THEOREM KafkaLosesNothing ==
    ASSUME OldGroup, "insert" \notin Faults
    PROVE  KafkaSpec => []NoLoss
<1>1. KafkaInit => Custody
  BY DEF KafkaInit, Custody
<1>2. TypeOK /\ Provenance /\ RestingIsEmpty /\ BrokerOK /\ ConsumerOK /\ Custody
        /\ [KafkaNext]_kafkaVars => Custody'
  BY CustodyStep DEF Provenance
<1>3. KafkaSpec => [](TypeOK /\ Provenance /\ RestingIsEmpty /\ BrokerOK /\ ConsumerOK)
  <2>1. Spec => []RestingIsEmpty
    BY RestingInit, RestingStep, TypeCorrect, PTL DEF Spec
  <2> QED
    BY <2>1, BusInit, BusStep, KafkaImplementsSettlement, TypeCorrect, ProvenanceInvariant, PTL
    DEF KafkaSpec, ImplementsSettlement
<1> QED BY <1>1, <1>2, <1>3, CustodyIsNoLoss, PTL DEF KafkaSpec
=============================================================================
