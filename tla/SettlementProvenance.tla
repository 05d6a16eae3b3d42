------------------------- MODULE SettlementProvenance -------------------------
(***************************************************************************)
(* What the operators of Settlement return, and its type correctness; where*)
(* its rows, orders and charges come from; that it implements ChargeOnce;  *)
(* and how a row leaves a shard.  All of it for every choice of its        *)
(* constants.                                                              *)
(***************************************************************************)
EXTENDS Settlement, TLAPS

\* Most leaves are first-order reasoning: Zenon is tried before the SMT solver.
USE ZenonT(10), SMTT(30)

\* A place of a sequence with one more element.
LEMMA AppendAt ==
    ASSUME NEW S, NEW s \in Seq(S), NEW x, NEW i \in DOMAIN Append(s, x)
    PROVE  (i \in DOMAIN s /\ Append(s, x)[i] = s[i]) \/ Append(s, x)[i] = x
BY SMT

\* A place of a sequence without its first element.
LEMMA TailAt ==
    ASSUME NEW S, NEW s \in Seq(S), s # << >>, NEW i \in DOMAIN Tail(s)
    PROVE  i + 1 \in DOMAIN s /\ Tail(s)[i] = s[i + 1]
BY SMT

-----------------------------------------------------------------------------
(* What the operators return *)

\* Every shard, flusher and request has the owner NewSettler and shardIndex give it.
LEMMA Topology ==
    /\ UserOf \in [Requests -> Users]
    /\ ProcOf \in [Shards -> Procs]
    /\ ShardIndex \in [Procs -> [Requests -> Shards]]
    /\ Of \in [Flushers -> Shards]
BY ConstantsAssumption DEF ConstantsAssumption

\* Estimates, priced amounts and credits are integers.
LEMMA InputTypes ==
    /\ \A a \in Amounts : a \in Int
    /\ \A a \in Estimates : a \in Int
    /\ \A a \in Credits : a \in Nat
BY ConstantsAssumption DEF ConstantsAssumption

\* The order of an event is an order row, never the absent one.
LEMMA OrderFromEventType ==
    ASSUME NEW ev \in Event
    PROVE  OrderFromEvent(ev) \in Order /\ OrderFromEvent(ev) # NoOrder
BY DEF Event, Order, OrderFromEvent, NoOrder

\* BatchSettle never passes a negative amount to the script.
LEMMA ChargeType ==
    ASSUME NEW order \in Order
    PROVE  Charge(order) \in Nat
<1>1. order.amount \in Int
  BY InputTypes DEF Order
<1> QED BY <1>1 DEF Charge

\* The absent event is not an event.
LEMMA NoEventIsNone == \A ev \in Event \cup {NoEvent} : ev.status # "NONE" <=> ev \in Event
BY DEF Event, NoEvent

\* BatchSettle starts with the first of the rows flush took.
LEMMA HeadOfRows ==
    ASSUME NEW rows \in Seq(Row), rows # << >>
    PROVE  Head(rows) = rows[1] /\ 1 \in DOMAIN rows /\ Head(rows) \in Row
<1>1. Len(rows) \in Nat /\ Len(rows) # 0 /\ DOMAIN rows = 1 .. Len(rows)
  OBVIOUS
<1>2. 1 \in DOMAIN rows
  BY <1>1
<1>3. rows[1] \in Row
  BY <1>2
<1> QED BY <1>1, <1>2, <1>3

\* An insert leaves every stored row alone and stores rows of the batch only.
LEMMA InsertOrdersRows ==
    ASSUME TypeOK, NEW rows \in Seq(Row), NEW stores, NEW r \in Requests
    PROVE  \/ InsertOrders(rows, stores)[r] = orders[r]
           \/ /\ orders[r] = NoOrder
              /\ \E i \in DOMAIN rows :
                    rows[i].req = r /\ InsertOrders(rows, stores)[r] = rows[i].order
BY DEF InsertOrders

\* InsertOrders leaves an order row or no row for every request.
LEMMA InsertOrdersType ==
    ASSUME TypeOK, NEW rows \in Seq(Row), NEW stores
    PROVE  InsertOrders(rows, stores) \in [Requests -> Order \cup {NoOrder}]
<1>1. ASSUME NEW r \in Requests
      PROVE  InsertOrders(rows, stores)[r] \in Order \cup {NoOrder}
  <2>1. CASE InsertOrders(rows, stores)[r] = orders[r]
    BY <2>1 DEF TypeOK
  <2>2. ASSUME NEW i \in DOMAIN rows,
               InsertOrders(rows, stores)[r] = rows[i].order
        PROVE  InsertOrders(rows, stores)[r] \in Order \cup {NoOrder}
    <3>1. rows[i] \in Row
      OBVIOUS
    <3> QED BY <2>2, <3>1 DEF Row
  <2> QED BY <2>1, <2>2, InsertOrdersRows
<1> QED BY <1>1 DEF InsertOrders

-----------------------------------------------------------------------------
(* Type correctness *)

\* A freshly started process has its types (NewSettler, empty Redis keys).
LEMMA TypeInit == Init => TypeOK
BY ConstantsAssumption DEF Init, TypeOK, ConstantsAssumption, Stages

\* What the script does to a reservation that exists.
LEMMA SettleScriptEffect ==
    ASSUME TypeOK, NEW r \in Requests, NEW charged \in Nat, SettleScript(r, charged),
           precharge[r] > 0
    PROVE  /\ balance' = [balance EXCEPT ![UserOf[r]] = @ + (precharge[r] - charged)]
           /\ frozen' = [frozen EXCEPT ![UserOf[r]] = @ - precharge[r]]
           /\ precharge' = [precharge EXCEPT ![r] = 0]
           /\ spent' = [spent EXCEPT ![UserOf[r]] = @ + charged]
           /\ shortfall' = [shortfall EXCEPT ![UserOf[r]] =
                              @ + Positive(-(precharge[r] - charged))]
           /\ settled' = [settled EXCEPT ![r] = charged]
           /\ credited' = credited /\ lapsed' = lapsed
<1>1. precharge[r] \in Nat
  BY DEF TypeOK
<1>2. ~(precharge[r] <= 0)
  BY <1>1
<1> QED BY <1>2 DEF SettleScript

\* A request without a reservation is not settled: the script is a no-op.
LEMMA SettleScriptNoMarker ==
    ASSUME TypeOK, NEW r \in Requests, NEW charged \in Nat, SettleScript(r, charged),
           ~(precharge[r] > 0)
    PROVE  UNCHANGED <<redis, history>>
<1>1. precharge[r] \in Nat
  BY DEF TypeOK
<1>2. precharge[r] <= 0
  BY <1>1
<1> QED BY <1>2 DEF SettleScript

\* PreChargeScript keeps the types: a marker holds the positive estimate.
LEMMA PreChargeType ==
    ASSUME TypeOK, NEW r \in Requests, NEW amount \in Estimates, amount > 0,
           PreChargeScript(r, amount)
    PROVE  /\ balance' \in [Users -> Int]
           /\ frozen' \in [Users -> Int]
           /\ precharge' \in [Requests -> Nat]
           /\ UNCHANGED history
<1>1. UserOf[r] \in Users /\ amount \in Nat
  BY Topology, InputTypes
<1>2. /\ balance' = [balance EXCEPT ![UserOf[r]] = @ - amount]
      /\ frozen' = [frozen EXCEPT ![UserOf[r]] = @ + amount]
      /\ precharge' = [precharge EXCEPT ![r] = amount]
      /\ UNCHANGED history
  BY DEF PreChargeScript
<1>t. /\ balance \in [Users -> Int] /\ frozen \in [Users -> Int]
      /\ precharge \in [Requests -> Nat]
  BY DEF TypeOK
<1>3. balance' \in [Users -> Int]
  BY <1>1, <1>2, <1>t
<1>4. frozen' \in [Users -> Int]
  BY <1>1, <1>2, <1>t
<1>5. precharge' \in [Requests -> Nat]
  BY <1>1, <1>2, <1>t
<1> QED BY <1>2, <1>3, <1>4, <1>5

\* settleScriptSrc keeps the types: a marker is never negative.
LEMMA SettleScriptType ==
    ASSUME TypeOK, NEW r \in Requests, NEW charged \in Nat, SettleScript(r, charged)
    PROVE  /\ balance' \in [Users -> Int]
           /\ frozen' \in [Users -> Int]
           /\ precharge' \in [Requests -> Nat]
           /\ spent' \in [Users -> Nat]
           /\ shortfall' \in [Users -> Nat]
           /\ settled' \in [Requests -> Nat \cup {-1}]
           /\ credited' = credited
           /\ lapsed' = lapsed
<1>1. CASE ~(precharge[r] > 0)
  BY <1>1, SettleScriptNoMarker DEF TypeOK, redis, history
<1>2. CASE precharge[r] > 0
  <2>1. UserOf[r] \in Users /\ precharge[r] \in Nat
    BY Topology DEF TypeOK
  <2>2. Positive(-(precharge[r] - charged)) \in Nat
    BY <2>1 DEF Positive
  <2>e. /\ balance' = [balance EXCEPT ![UserOf[r]] = @ + (precharge[r] - charged)]
           /\ frozen' = [frozen EXCEPT ![UserOf[r]] = @ - precharge[r]]
           /\ precharge' = [precharge EXCEPT ![r] = 0]
           /\ spent' = [spent EXCEPT ![UserOf[r]] = @ + charged]
           /\ shortfall' = [shortfall EXCEPT ![UserOf[r]] =
                              @ + Positive(-(precharge[r] - charged))]
           /\ settled' = [settled EXCEPT ![r] = charged]
           /\ credited' = credited /\ lapsed' = lapsed
    BY <1>2, SettleScriptEffect
  <2>t. /\ balance \in [Users -> Int] /\ frozen \in [Users -> Int]
        /\ precharge \in [Requests -> Nat]
        /\ spent \in [Users -> Nat] /\ shortfall \in [Users -> Nat]
        /\ settled \in [Requests -> Nat \cup {-1}]
    BY DEF TypeOK
  <2>3. balance' \in [Users -> Int]
    BY <2>1, <2>e, <2>t
  <2>4. frozen' \in [Users -> Int]
    BY <2>1, <2>e, <2>t
  <2>5. precharge' \in [Requests -> Nat]
    BY <2>e, <2>t
  <2>6. settled' \in [Requests -> Nat \cup {-1}]
    BY <2>e, <2>t
  <2>7. spent' \in [Users -> Nat]
    BY <2>1, <2>e, <2>t
  <2>8. shortfall' \in [Users -> Nat]
    BY <2>1, <2>2, <2>e, <2>t
  <2> QED BY <1>2, <2>3, <2>4, <2>5, <2>6, <2>7, <2>8, <2>e
<1> QED BY <1>1, <1>2

\* Each operation of the core keeps the types.
LEMMA TypeStep == TypeOK /\ [Next]_vars => TypeOK'
<1> SUFFICES ASSUME TypeOK, [Next]_vars PROVE TypeOK'
  OBVIOUS
<1> USE DEF TypeOK, redis, history, handler, shard, flusher, Stages
<1>1. ASSUME NEW u \in Users, NEW amount \in Credits, TopUp(u, amount) PROVE TypeOK'
  <2>1. amount \in Nat
    BY InputTypes
  <2>2. balance' \in [Users -> Int]
    BY <1>1, <2>1 DEF TopUp
  <2>3. credited' \in [Users -> Nat]
    BY <1>1, <2>1 DEF TopUp
  <2> QED BY <1>1, <2>2, <2>3 DEF TopUp
<1>2. ASSUME NEW r \in Requests, Expire(r) PROVE TypeOK'
  BY <1>2 DEF Expire
<1>3. ASSUME NEW r \in Requests, AdmitUnreserved(r) PROVE TypeOK'
  BY <1>3 DEF AdmitUnreserved
<1>4. ASSUME NEW r \in Requests, NEW amount \in Estimates, Admit(r, amount) PROVE TypeOK'
  BY <1>4, PreChargeType DEF Admit
<1>5. ASSUME NEW r \in Requests, NEW amount \in Estimates, Refuse(r, amount) PROVE TypeOK'
  BY <1>5 DEF Refuse
<1>6. ASSUME NEW r \in Requests, NEW amount \in Estimates, RefuseAfterScript(r, amount)
      PROVE TypeOK'
  BY <1>6, PreChargeType DEF RefuseAfterScript
<1>7. ASSUME NEW r \in Requests, NEW ev \in Event, Emit(r, ev) PROVE TypeOK'
  BY <1>7 DEF Emit
<1>8. ASSUME NEW r \in Requests, StreamingUnsupported(r) PROVE TypeOK'
  BY <1>8 DEF StreamingUnsupported
<1>9. ASSUME NEW p \in Procs, NEW r \in Requests, Handle(p, r) PROVE TypeOK'
  <2>1. OrderFromEvent(event[r]) \in Order
    BY <1>9, OrderFromEventType, NoEventIsNone DEF Handle
  <2>2. [req |-> r, order |-> OrderFromEvent(event[r])] \in Row
    BY <2>1 DEF Row
  <2>3. ShardIndex[p][r] \in Shards
    BY Topology
  <2>4. buf' \in [Shards -> Seq(Row)]
    <3>1. Append(buf[ShardIndex[p][r]], [req |-> r, order |-> OrderFromEvent(event[r])])
            \in Seq(Row)
      BY <2>2, <2>3
    <3>2. buf' = [buf EXCEPT ![ShardIndex[p][r]] =
                    Append(@, [req |-> r, order |-> OrderFromEvent(event[r])])]
      BY <1>9 DEF Handle
    <3>3. buf \in [Shards -> Seq(Row)]
      OBVIOUS
    <3> HIDE DEF TypeOK
    <3> QED BY <3>1, <3>2, <3>3
  <2>5. flushAt' \in [Shards -> BOOLEAN]
    BY <1>9, <2>3 DEF Handle
  <2>6. owed' \in [Shards -> Nat]
    BY <1>9, <2>3 DEF Handle
  <2> QED BY <1>9, <2>4, <2>5, <2>6 DEF Handle
<1>10. ASSUME NEW k \in Shards, SignalFlush(k) PROVE TypeOK'
  BY <1>10 DEF SignalFlush
<1>11. ASSUME NEW f \in Flushers, WakeOnTrigger(f) PROVE TypeOK'
  BY <1>11, Topology DEF WakeOnTrigger
<1>12. ASSUME NEW f \in Flushers, WakeOnTick(f) PROVE TypeOK'
  BY <1>12 DEF WakeOnTick
<1>13. ASSUME NEW callers \in SUBSET (Flushers \ Loops), CallFlush(callers) PROVE TypeOK'
  BY <1>13 DEF CallFlush
<1>14. ASSUME NEW f \in Flushers, TakeBatch(f) PROVE TypeOK'
  <2>0. << >> \in Seq(Row) /\ Of[f] \in Shards
    BY Topology
  <2>1. buf' \in [Shards -> Seq(Row)]
    BY <1>14, <2>0 DEF TakeBatch
  <2>4. batch' \in [Flushers -> Seq(Row)]
    BY <1>14, <2>0 DEF TakeBatch
  <2>2. flushAt' \in [Shards -> BOOLEAN]
    BY <1>14, Topology DEF TakeBatch
  <2>3. pc' \in [Flushers -> {"idle", "woken", "insert", "settle", "exited"}]
    BY <1>14, Topology DEF TakeBatch
  <2> QED BY <1>14, <2>1, <2>2, <2>3, <2>4 DEF TakeBatch
<1>15. ASSUME NEW f \in Flushers, Insert(f) PROVE TypeOK'
  BY <1>15, InsertOrdersType DEF Insert
<1>16. ASSUME NEW f \in Flushers, NEW stores \in SUBSET Stores, InsertError(f, stores)
       PROVE TypeOK'
  <2>1. orders' \in [Requests -> Order \cup {NoOrder}]
    BY <1>16, InsertOrdersType DEF InsertError
  <2>2. batch' \in [Flushers -> Seq(Row)]
    BY <1>16 DEF InsertError
  <2> QED BY <1>16, <2>1, <2>2 DEF InsertError
<1>17. ASSUME NEW f \in Flushers, BatchSettle(f) PROVE TypeOK'
  <2> DEFINE row == Head(batch[f])
  <2>1. row \in Row /\ Tail(batch[f]) \in Seq(Row)
    BY <1>17 DEF BatchSettle
  <2>2. row.req \in Requests /\ Charge(row.order) \in Nat
    BY <2>1, ChargeType DEF Row
  <2>3. /\ pc' \in [Flushers -> {"idle", "woken", "insert", "settle", "exited"}]
        /\ batch' \in [Flushers -> Seq(Row)]
    BY <1>17, <2>1 DEF BatchSettle
  <2>4. SettleScript(row.req, Charge(row.order))
    BY <1>17 DEF BatchSettle
  <2> HIDE DEF row
  <2> QED BY <1>17, <2>2, <2>3, <2>4, SettleScriptType DEF BatchSettle
<1>18. ASSUME NEW f \in Flushers, BatchSettleError(f) PROVE TypeOK'
  BY <1>18 DEF BatchSettleError
<1>19. ASSUME NEW p \in Procs, CloseDone(p) PROVE TypeOK'
  BY <1>19 DEF CloseDone
<1>20. ASSUME NEW f \in Flushers, LoopExit(f) PROVE TypeOK'
  BY <1>20 DEF LoopExit
<1>21. ASSUME NEW p \in Procs, Crash(p) PROVE TypeOK'
  BY <1>21 DEF Crash
<1>22. CASE UNCHANGED vars
  BY <1>22 DEF vars
<1> QED
  BY <1>1, <1>2, <1>3, <1>4, <1>5, <1>6, <1>7, <1>8, <1>9, <1>10, <1>11, <1>12,
     <1>13, <1>14, <1>15, <1>16, <1>17, <1>18, <1>19, <1>20, <1>21, <1>22
  DEF Next, RedisNext, HandlerNext, AdmissionNext, FlusherNext

\* Every reachable state is well typed: no counter of a user's charges is
\* negative, no marker holds a negative reservation, every order is one of the
\* two terminal kinds.
THEOREM TypeCorrect == Spec => []TypeOK
BY TypeInit, TypeStep, PTL DEF Spec

-----------------------------------------------------------------------------
(* Charges and orders *)

\* Nothing is buffered or stored at the start.
LEMMA FaithfulInit == Init => RowsAreFaithful
BY DEF Init, RowsAreFaithful

\* Handle, flush and InsertOrders carry the order of the emitted event unchanged.
LEMMA FaithfulStep == TypeOK /\ RowsAreFaithful /\ [Next]_vars => RowsAreFaithful'
<1> SUFFICES ASSUME TypeOK, RowsAreFaithful, [Next]_vars PROVE RowsAreFaithful'
  OBVIOUS
<1>1. ASSUME NEW r \in Requests, NEW ev \in Event, Emit(r, ev)
      PROVE  RowsAreFaithful'
  <2>1. /\ event' = [event EXCEPT ![r] = ev] /\ stage' = [stage EXCEPT ![r] = "served"]
        /\ UNCHANGED <<orders, buf, batch>>
    BY <1>1 DEF Emit, shard, flusher
  <2>2. event[r] = NoEvent /\ event'[r] = ev
    BY <1>1, <2>1 DEF Emit, RowsAreFaithful, TypeOK
  <2>3. \A q \in Requests : event[q] # NoEvent => event'[q] = event[q] /\ stage'[q] = "served"
    BY <2>1, <2>2 DEF RowsAreFaithful, TypeOK
  <2>4. ASSUME NEW row \in Row, Faithful(row) PROVE Faithful(row)'
    BY <2>3, <2>4 DEF Faithful, Row
  <2>5. \A k \in Shards : \A i \in DOMAIN buf[k] : buf[k][i] \in Row
    BY DEF TypeOK
  <2>6. \A f \in Flushers : \A i \in DOMAIN batch[f] : batch[f][i] \in Row
    BY DEF TypeOK
  <2>7. \A k \in Shards : \A i \in DOMAIN buf'[k] : Faithful(buf[k][i])'
    BY <2>1, <2>4, <2>5 DEF RowsAreFaithful
  <2>8. \A f \in Flushers : \A i \in DOMAIN batch'[f] : Faithful(batch[f][i])'
    BY <2>1, <2>4, <2>6 DEF RowsAreFaithful
  <2>9. \A q \in Requests : event'[q] # NoEvent => stage'[q] = "served"
    BY <2>1, <2>3 DEF TypeOK
  <2>10. \A q \in Requests : orders'[q] # NoOrder =>
            event'[q] # NoEvent /\ orders'[q] = OrderFromEvent(event'[q])
    BY <2>1, <2>3 DEF RowsAreFaithful
  <2> QED BY <2>7, <2>8, <2>9, <2>10 DEF RowsAreFaithful
<1>2. ASSUME NEW p \in Procs, NEW r \in Requests, Handle(p, r)
      PROVE  RowsAreFaithful'
  <2> DEFINE k == ShardIndex[p][r]
             row == [req |-> r, order |-> OrderFromEvent(event[r])]
  <2>1. /\ buf' = [buf EXCEPT ![k] = Append(@, row)]
        /\ UNCHANGED <<orders, stage, event, batch>>
    BY <1>2 DEF Handle, handler, flusher
  <2>2. k \in Shards
    BY Topology
  <2>3. row.req = r /\ row.order = OrderFromEvent(event[r]) /\ event[r] # NoEvent
    BY <1>2 DEF Handle, NoEvent
  <2>4. Faithful(row)
    BY <2>3 DEF Faithful
  <2> HIDE DEF k, row
  <2>5. ASSUME NEW j \in Shards, NEW i \in DOMAIN buf'[j]
        PROVE  Faithful(buf'[j][i])
    <3>1. buf[j] \in Seq(Row)
      BY DEF TypeOK
    <3>2. CASE j = k
      <4>1. buf'[j] = Append(buf[j], row)
        BY <2>1, <2>2, <3>2 DEF TypeOK
      <4>2. buf'[j][i] = row \/ (i \in DOMAIN buf[j] /\ buf'[j][i] = buf[j][i])
        BY <3>1, <4>1
      <4> QED BY <2>4, <4>2 DEF RowsAreFaithful
    <3>3. CASE j # k
      <4>1. buf'[j] = buf[j]
        BY <2>1, <2>2, <3>3 DEF TypeOK
      <4> QED BY <4>1 DEF RowsAreFaithful
    <3> QED BY <3>2, <3>3
  <2>6. \A j \in Shards : \A i \in DOMAIN buf'[j] : Faithful(buf[j][i])'
    BY <2>1, <2>5 DEF Faithful
  <2> QED BY <2>1, <2>6 DEF RowsAreFaithful, Faithful
<1>3. ASSUME NEW f \in Flushers, TakeBatch(f) PROVE RowsAreFaithful'
  <2>1. /\ batch' = [batch EXCEPT ![f] = buf[Of[f]]]
        /\ buf' = [buf EXCEPT ![Of[f]] = << >>]
        /\ UNCHANGED <<orders, stage, event>>
    BY <1>3 DEF TakeBatch, handler
  <2>2. Of[f] \in Shards
    BY Topology
  <2>3. \A k \in Shards : \A i \in DOMAIN buf'[k] : Faithful(buf'[k][i])
    BY <2>1, <2>2 DEF RowsAreFaithful, TypeOK
  <2>4. \A g \in Flushers : \A i \in DOMAIN batch'[g] : Faithful(batch'[g][i])
    BY <2>1, <2>2 DEF RowsAreFaithful, TypeOK
  <2>5. (\A k \in Shards : \A i \in DOMAIN buf[k] : Faithful(buf[k][i]))'
    BY <2>1, <2>3 DEF Faithful
  <2>6. (\A g \in Flushers : \A i \in DOMAIN batch[g] : Faithful(batch[g][i]))'
    BY <2>1, <2>4, ZenonT(30) DEF Faithful
  <2>7. /\ \A r \in Requests : event'[r] # NoEvent => stage'[r] = "served"
        /\ \A r \in Requests : orders'[r] # NoOrder =>
              event'[r] # NoEvent /\ orders'[r] = OrderFromEvent(event'[r])
    BY <2>1 DEF RowsAreFaithful
  <2> QED BY <2>5, <2>6, <2>7 DEF RowsAreFaithful
<1>4. ASSUME NEW f \in Flushers, NEW stores,
             orders' = InsertOrders(batch[f], stores),
             batch' = batch \/ batch' = [batch EXCEPT ![f] = << >>],
             UNCHANGED <<stage, event, buf>>
      PROVE  RowsAreFaithful'
  <2>0. \A g \in Flushers : batch'[g] = batch[g] \/ batch'[g] = << >>
    BY <1>4 DEF TypeOK
  <2>1. \A g \in Flushers : \A i \in DOMAIN batch'[g] : Faithful(batch'[g][i])
    BY <2>0 DEF RowsAreFaithful
  <2>2. ASSUME NEW r \in Requests, orders'[r] # NoOrder
        PROVE  event[r] # NoEvent /\ orders'[r] = OrderFromEvent(event[r])
    <3>1. batch[f] \in Seq(Row)
      BY DEF TypeOK
    <3>2. CASE orders'[r] = orders[r]
      BY <2>2, <3>2 DEF RowsAreFaithful
    <3>3. ASSUME NEW i \in DOMAIN batch[f], batch[f][i].req = r, orders'[r] = batch[f][i].order
          PROVE  event[r] # NoEvent /\ orders'[r] = OrderFromEvent(event[r])
      BY <3>3 DEF RowsAreFaithful, Faithful
    <3>4. \/ orders'[r] = orders[r]
          \/ \E i \in DOMAIN batch[f] :
                batch[f][i].req = r /\ orders'[r] = batch[f][i].order
      <4>1. PICK rows \in Seq(Row) : rows = batch[f]
        BY <3>1
      <4>2. orders'[r] = InsertOrders(rows, stores)[r]
        BY <1>4, <4>1
      <4> QED BY <4>1, <4>2, InsertOrdersRows
    <3> QED BY <3>2, <3>3, <3>4
  <2> QED BY <1>4, <2>1, <2>2, ZenonT(30) DEF RowsAreFaithful, Faithful
<1>5. ASSUME NEW f \in Flushers, BatchSettle(f) \/ BatchSettleError(f)
      PROVE  RowsAreFaithful'
  <2>1. UNCHANGED <<orders, stage, event, buf>>
    BY <1>5 DEF BatchSettle, BatchSettleError, handler, shard
  <2>2. \A i \in DOMAIN batch'[f] : Faithful(batch'[f][i])
    <3>1. batch[f] \in Seq(Row)
      BY DEF TypeOK
    <3>2. CASE BatchSettleError(f)
      BY <3>2 DEF BatchSettleError, TypeOK
    <3>3. CASE BatchSettle(f)
      <4>1. batch[f] # << >> /\ batch'[f] = Tail(batch[f])
        BY <3>3 DEF BatchSettle, TypeOK
      <4>2. \A i \in DOMAIN Tail(batch[f]) :
               i + 1 \in DOMAIN batch[f] /\ Tail(batch[f])[i] = batch[f][i + 1]
        BY <3>1, <4>1
      <4> QED BY <4>1, <4>2 DEF RowsAreFaithful
    <3> QED BY <1>5, <3>2, <3>3
  <2>3. \A g \in Flushers : g # f => batch'[g] = batch[g]
    BY <1>5 DEF BatchSettle, BatchSettleError, TypeOK
  <2>4. \A g \in Flushers : \A i \in DOMAIN batch'[g] : Faithful(batch'[g][i])
    BY <2>2, <2>3 DEF RowsAreFaithful
  <2> QED BY <2>1, <2>4 DEF RowsAreFaithful, Faithful
<1>6. ASSUME NEW p \in Procs, Crash(p) PROVE RowsAreFaithful'
  <2>1. UNCHANGED <<orders, event>>
    BY <1>6 DEF Crash
  <2>2. \A k \in Shards : buf'[k] = buf[k] \/ buf'[k] = << >>
    BY <1>6 DEF Crash
  <2>3. \A f \in Flushers : batch'[f] = batch[f] \/ batch'[f] = << >>
    BY <1>6 DEF Crash
  <2>4. \A r \in Requests : event[r] # NoEvent => stage'[r] = "served"
    BY <1>6 DEF Crash, RowsAreFaithful
  <2> QED BY <2>1, <2>2, <2>3, <2>4 DEF RowsAreFaithful, Faithful
<1>7. CASE /\ UNCHANGED <<orders, event, buf, batch>>
           /\ \A r \in Requests : stage[r] = "served" => stage'[r] = "served"
  BY <1>7 DEF RowsAreFaithful, Faithful
<1>8. ASSUME NEW f \in Flushers, Insert(f) PROVE RowsAreFaithful'
  BY <1>4, <1>8 DEF Insert, handler, shard
<1>9. ASSUME NEW f \in Flushers, NEW stores \in SUBSET Stores, InsertError(f, stores)
      PROVE  RowsAreFaithful'
  BY <1>4, <1>9 DEF InsertError, handler, shard
<1>10. ASSUME NEW r \in Requests,
              \/ AdmitUnreserved(r) \/ StreamingUnsupported(r)
              \/ \E amount \in Estimates :
                    Admit(r, amount) \/ Refuse(r, amount) \/ RefuseAfterScript(r, amount)
       PROVE  RowsAreFaithful'
  BY <1>7, <1>10
  DEF AdmitUnreserved, StreamingUnsupported, Admit, Refuse, RefuseAfterScript, TypeOK,
      shard, flusher
<1>11. CASE UNCHANGED <<orders, event, stage, buf, batch>>
  BY <1>7, <1>11
<1> QED
  BY <1>1, <1>2, <1>3, <1>5, <1>6, <1>8, <1>9, <1>10, <1>11
  DEF Next, RedisNext, HandlerNext, AdmissionNext, FlusherNext, vars, handler, shard, flusher,
      TopUp, Expire, SignalFlush, WakeOnTrigger, WakeOnTick, CallFlush, CloseDone, LoopExit

\* At the start nothing is being settled, reserved or charged.
LEMMA DurableInit == Init => SettlingIsDurable /\ OnePhase /\ ChargeMatchesOrder
BY DEF Init, SettlingIsDurable, OnePhase, ChargeMatchesOrder

\* An order row is never changed once it is stored.
LEMMA OrdersAreStable ==
    ASSUME TypeOK, [Next]_vars, NEW r \in Requests, orders[r] # NoOrder
    PROVE  orders'[r] = orders[r]
<1>1. ASSUME NEW f \in Flushers, NEW stores, orders' = InsertOrders(batch[f], stores)
      PROVE  orders'[r] = orders[r]
  BY <1>1 DEF InsertOrders
<1>2. ASSUME NEW f \in Flushers, Insert(f) PROVE orders'[r] = orders[r]
  BY <1>1, <1>2 DEF Insert
<1>3. ASSUME NEW f \in Flushers, NEW stores \in SUBSET Stores, InsertError(f, stores)
      PROVE  orders'[r] = orders[r]
  BY <1>1, <1>3 DEF InsertError
<1>4. CASE UNCHANGED orders
  BY <1>4
<1> QED
  BY <1>2, <1>3, <1>4
  DEF Next, RedisNext, HandlerNext, AdmissionNext, FlusherNext, vars, TopUp,
        Expire, AdmitUnreserved,
      Admit, Refuse, RefuseAfterScript, Emit, StreamingUnsupported, Handle, SignalFlush,
      WakeOnTrigger, WakeOnTick, CallFlush, TakeBatch, BatchSettle, BatchSettleError,
      CloseDone, LoopExit, Crash

\* flush reaches BatchSettle only behind a successful InsertOrders.
LEMMA DurableStep ==
    TypeOK /\ SettlingIsDurable /\ [Next]_vars => SettlingIsDurable'
<1> SUFFICES ASSUME TypeOK, SettlingIsDurable, [Next]_vars, NEW f \in Flushers
             PROVE  /\ pc'[f] \in {"insert", "settle"} => batch'[f] # << >>
                    /\ pc'[f] = "settle" =>
                          \A i \in DOMAIN batch'[f] : orders'[batch'[f][i].req] # NoOrder
  BY DEF SettlingIsDurable
<1> DEFINE Goal ==
      /\ pc'[f] \in {"insert", "settle"} => batch'[f] # << >>
      /\ pc'[f] = "settle" =>
            \A i \in DOMAIN batch'[f] : orders'[batch'[f][i].req] # NoOrder
<1> SUFFICES Goal
  OBVIOUS
<1>r. batch[f] \in Seq(Row)
  BY DEF TypeOK
<1>s. \A i \in DOMAIN batch[f] : batch[f][i] \in Row /\ batch[f][i].req \in Requests
  <2>1. \A i \in DOMAIN batch[f] : batch[f][i] \in Row
    BY <1>r
  <2> QED BY <2>1 DEF Row
<1>0. CASE pc'[f] = pc[f] /\ batch'[f] = batch[f]
  BY <1>0, <1>s, OrdersAreStable DEF SettlingIsDurable
<1>1. CASE pc'[f] \in {"idle", "woken", "exited"}
  BY <1>1
<1>2. CASE TakeBatch(f)
  <2>1. pc'[f] \in {"idle", "insert"} /\ (pc'[f] = "insert" => batch'[f] # << >>)
    BY <1>2 DEF TakeBatch, TypeOK
  <2> QED BY <2>1
<1>3. CASE Insert(f)
  <2>1. pc[f] = "insert" /\ batch' = batch /\ orders' = InsertOrders(batch[f], Stores)
    BY <1>3 DEF Insert
  <2>2. ASSUME NEW i \in DOMAIN batch[f] PROVE orders'[batch[f][i].req] # NoOrder
    <3> DEFINE r == batch[f][i].req
    <3>1. r \in Requests /\ StoreOf[UserOf[r]] \in Stores
      BY <1>s, ConstantsAssumption DEF ConstantsAssumption
    <3>2. CASE orders[r] # NoOrder
      BY <3>1, <3>2, OrdersAreStable
    <3>3. CASE orders[r] = NoOrder
      <4> DEFINE j == CHOOSE j \in DOMAIN batch[f] : batch[f][j].req = r
      <4>1. j \in DOMAIN batch[f] /\ batch[f][j].req = r
        OBVIOUS
      <4>2. orders'[r] = batch[f][j].order
        BY <2>1, <3>1, <3>3 DEF InsertOrders
      <4>3. batch[f][j] \in Row
        BY <1>s, <4>1
      <4> HIDE DEF j
      <4> QED BY <4>2, <4>3 DEF Row, Order, NoOrder
    <3> QED BY <3>2, <3>3
  <2> QED BY <2>1, <2>2 DEF SettlingIsDurable
<1>4. CASE BatchSettle(f)
  <2>1. /\ pc[f] = "settle" /\ batch[f] # << >>
        /\ batch'[f] = Tail(batch[f]) /\ orders' = orders
        /\ pc'[f] # "idle" => Tail(batch[f]) # << >>
    BY <1>4 DEF BatchSettle, TypeOK
  <2>2. \A i \in DOMAIN Tail(batch[f]) :
           i + 1 \in DOMAIN batch[f] /\ Tail(batch[f])[i] = batch[f][i + 1]
    BY <1>r, <2>1
  <2> QED BY <2>1, <2>2 DEF SettlingIsDurable
<1>5. ASSUME NEW g \in Flushers, Insert(g) \/ BatchSettle(g) \/ TakeBatch(g)
      PROVE  Goal
  <2>1. CASE g = f
    BY <1>2, <1>3, <1>4, <1>5, <2>1
  <2>2. CASE g # f
    <3>1. pc'[f] = pc[f] /\ batch'[f] = batch[f]
      BY <1>5, <2>2 DEF Insert, BatchSettle, TakeBatch, TypeOK
    <3> QED BY <1>0, <3>1
  <2> QED BY <2>1, <2>2
<1>6. ASSUME NEW g \in Flushers,
             \/ WakeOnTrigger(g) \/ WakeOnTick(g) \/ LoopExit(g)
             \/ BatchSettleError(g) \/ \E stores \in SUBSET Stores : InsertError(g, stores)
      PROVE  Goal
  <2>1. \/ pc'[f] = pc[f] /\ batch'[f] = batch[f]
        \/ pc'[f] \in {"idle", "woken", "exited"}
    BY <1>6
    DEF WakeOnTrigger, WakeOnTick, LoopExit, BatchSettleError, InsertError, TypeOK
  <2> QED BY <1>0, <1>1, <2>1
<1>7. ASSUME NEW p \in Procs, Crash(p) PROVE Goal
  <2>1. \/ pc'[f] = pc[f] /\ batch'[f] = batch[f]
        \/ pc'[f] = "idle"
    BY <1>7 DEF Crash
  <2> QED BY <1>0, <1>1, <2>1
<1>8. CASE UNCHANGED flusher
  BY <1>0, <1>8 DEF flusher
<1>c. ASSUME NEW callers \in SUBSET (Flushers \ Loops), CallFlush(callers) PROVE Goal
  <2>1. \/ pc'[f] = pc[f] /\ batch'[f] = batch[f]
        \/ pc'[f] = "woken"
    BY <1>c DEF CallFlush
  <2> QED BY <1>0, <1>1, <2>1
<1> HIDE DEF Goal
<1>9. CASE RedisNext
  BY <1>8, <1>9 DEF RedisNext, TopUp, Expire
<1>10. CASE HandlerNext
  BY <1>8, <1>10
  DEF HandlerNext, AdmissionNext, AdmitUnreserved, Admit, Refuse, RefuseAfterScript, Emit,
      StreamingUnsupported
<1>11. CASE FlusherNext
  BY <1>5, <1>6, <1>8, <1>11 DEF FlusherNext, SignalFlush
<1> QED BY <1>c, <1>6, <1>7, <1>8, <1>9, <1>10, <1>11 DEF Next, vars, Handle, CloseDone

\* A request id is reserved once, and its marker ends in one way only.
LEMMA PhaseStep == TypeOK /\ OnePhase /\ [Next]_vars => OnePhase'
<1> SUFFICES ASSUME TypeOK, OnePhase, [Next]_vars PROVE OnePhase'
  OBVIOUS
<1>1. ASSUME NEW r \in Requests, Expire(r) PROVE OnePhase'
  BY <1>1 DEF Expire, OnePhase, TypeOK, handler
<1>2. ASSUME NEW r \in Requests, NEW amount \in Estimates,
             Admit(r, amount) \/ RefuseAfterScript(r, amount)
      PROVE  OnePhase'
  <2>1. /\ precharge' = [precharge EXCEPT ![r] = amount]
        /\ stage[r] = "new" /\ stage'[r] # "new"
        /\ \A q \in Requests : q # r => stage'[q] = stage[q]
        /\ settled' = settled /\ lapsed' = lapsed
    BY <1>2 DEF Admit, RefuseAfterScript, PreChargeScript, history, TypeOK
  <2>2. settled[r] = -1 /\ lapsed[r] = 0
    BY <2>1 DEF OnePhase
  <2> QED BY <2>1, <2>2 DEF OnePhase, TypeOK
<1>3. ASSUME NEW f \in Flushers, BatchSettle(f) PROVE OnePhase'
  <2> DEFINE r == Head(batch[f]).req
             charged == Charge(Head(batch[f]).order)
  <2>1. Head(batch[f]) \in Row
    BY <1>3 DEF BatchSettle, TypeOK
  <2>2. r \in Requests /\ charged \in Nat
    BY <2>1, ChargeType DEF Row
  <2>3. SettleScript(r, charged) /\ stage' = stage
    BY <1>3 DEF BatchSettle, handler
  <2> HIDE DEF r, charged
  <2>4. CASE ~(precharge[r] > 0)
    <3>1. UNCHANGED <<redis, history>>
      BY <2>2, <2>3, <2>4, SettleScriptNoMarker
    <3> QED BY <2>3, <3>1 DEF OnePhase, redis, history
  <2>5. CASE precharge[r] > 0
    <3>1. /\ precharge' = [precharge EXCEPT ![r] = 0]
          /\ settled' = [settled EXCEPT ![r] = charged] /\ lapsed' = lapsed
      BY <2>2, <2>3, <2>5, SettleScriptEffect
    <3>2. stage[r] # "new"
      BY <2>2, <2>5 DEF OnePhase
    <3> QED BY <2>2, <2>3, <3>1, <3>2 DEF OnePhase, TypeOK
  <2> QED BY <2>4, <2>5
<1>4. CASE /\ UNCHANGED <<precharge, settled, lapsed>>
           /\ \A r \in Requests : stage'[r] = "new" => stage[r] = "new"
  BY <1>4 DEF OnePhase
<1>5. CASE HandlerNext
  <2>1. ASSUME NEW r \in Requests,
               \/ AdmitUnreserved(r) \/ StreamingUnsupported(r)
               \/ \E ev \in Event : Emit(r, ev)
               \/ \E amount \in Estimates : Refuse(r, amount)
        PROVE  OnePhase'
    BY <1>4, <2>1
    DEF AdmitUnreserved, StreamingUnsupported, Emit, Refuse, redis, history, TypeOK
  <2> QED BY <1>2, <1>5, <2>1 DEF HandlerNext, AdmissionNext
<1>6. ASSUME NEW p \in Procs, Crash(p) PROVE OnePhase'
  BY <1>4, <1>6 DEF Crash, redis, history
<1>7. CASE UNCHANGED <<precharge, stage, settled, lapsed>>
  BY <1>4, <1>7
<1>8. CASE RedisNext
  BY <1>1, <1>7, <1>8 DEF RedisNext, TopUp, handler
<1>9. CASE FlusherNext
  BY <1>3, <1>7, <1>9
  DEF FlusherNext, SignalFlush, WakeOnTrigger, WakeOnTick, TakeBatch, Insert, InsertError,
      BatchSettleError, redis, handler, history
<1> QED
  BY <1>5, <1>6, <1>7, <1>8, <1>9
  DEF Next, vars, redis, handler, history, Handle, CallFlush, LoopExit, CloseDone

\* BatchSettle charges the amount of the stored order, and later deliveries of
\* the event change neither.
LEMMA ChargeStep ==
    /\ TypeOK /\ RowsAreFaithful /\ SettlingIsDurable /\ ChargeMatchesOrder
    /\ [Next]_vars
    => ChargeMatchesOrder'
<1> SUFFICES ASSUME TypeOK, RowsAreFaithful, SettlingIsDurable, ChargeMatchesOrder,
                    [Next]_vars, NEW r \in Requests, settled'[r] # -1
             PROVE  orders'[r] # NoOrder /\ settled'[r] = Charge(orders'[r])
  BY DEF ChargeMatchesOrder
<1>1. CASE settled'[r] = settled[r]
  BY <1>1, OrdersAreStable DEF ChargeMatchesOrder
<1>2. ASSUME NEW f \in Flushers, BatchSettle(f)
      PROVE  orders'[r] # NoOrder /\ settled'[r] = Charge(orders'[r])
  <2> DEFINE row == Head(batch[f])
  <2>1. batch[f] \in Seq(Row) /\ batch[f] # << >> /\ pc[f] = "settle" /\ orders' = orders
    BY <1>2 DEF BatchSettle, TypeOK
  <2>2. row = batch[f][1] /\ 1 \in DOMAIN batch[f] /\ row \in Row
    BY <2>1, HeadOfRows
  <2>3. orders[row.req] # NoOrder
    BY <2>1, <2>2 DEF SettlingIsDurable
  <2>4. Faithful(row)
    BY <2>2 DEF RowsAreFaithful
  <2>5. row.req \in Requests /\ Charge(row.order) \in Nat
    BY <2>2, ChargeType DEF Row
  <2>6. row.order = orders[row.req]
    BY <2>3, <2>4, <2>5 DEF RowsAreFaithful, Faithful
  <2>7. SettleScript(row.req, Charge(row.order))
    BY <1>2 DEF BatchSettle
  <2> HIDE DEF row
  <2>8. CASE ~(precharge[row.req] > 0)
    <3>1. UNCHANGED <<redis, history>>
      BY <2>5, <2>7, <2>8, SettleScriptNoMarker
    <3> QED BY <1>1, <3>1 DEF history
  <2>9. CASE precharge[row.req] > 0
    <3>1. settled' = [settled EXCEPT ![row.req] = Charge(row.order)]
      BY <2>5, <2>7, <2>9, SettleScriptEffect
    <3>2. CASE r = row.req
      BY <2>1, <2>3, <2>6, <3>1, <3>2 DEF TypeOK
    <3>3. CASE r # row.req
      BY <1>1, <3>1, <3>3 DEF TypeOK
    <3> QED BY <3>2, <3>3
  <2> QED BY <2>8, <2>9
<1>3. CASE UNCHANGED settled
  BY <1>1, <1>3
<1>4. CASE RedisNext
  BY <1>3, <1>4 DEF RedisNext, TopUp, Expire
<1>5. CASE HandlerNext
  BY <1>3, <1>5
  DEF HandlerNext, AdmissionNext, AdmitUnreserved, Admit, Refuse, RefuseAfterScript,
      PreChargeScript, Emit,
      StreamingUnsupported, history
<1>6. CASE FlusherNext
  BY <1>2, <1>3, <1>6
  DEF FlusherNext, SignalFlush, WakeOnTrigger, WakeOnTick, TakeBatch, Insert, InsertError,
      BatchSettleError, history
<1> QED
  BY <1>3, <1>4, <1>5, <1>6
  DEF Next, vars, history, Handle, CallFlush, LoopExit, CloseDone, Crash

\* Rows, flights and phases, as one inductive invariant.
Provenance == RowsAreFaithful /\ SettlingIsDurable /\ OnePhase /\ ChargeMatchesOrder

\* Where rows, orders and charges come from, in every state of the core.
LEMMA ProvenanceInvariant == Spec => []Provenance
<1>1. Init => Provenance
  BY FaithfulInit, DurableInit DEF Provenance
<1>2. TypeOK /\ Provenance /\ [Next]_vars => Provenance'
  BY FaithfulStep, DurableStep, PhaseStep, ChargeStep DEF Provenance
<1> QED BY <1>1, <1>2, TypeCorrect, PTL DEF Spec

\* A reservation is settled only after the request's order is durable, and for
\* exactly that order's amount, whatever is delivered, retried or lost.
THEOREM ChargesMatchOrders == Spec => []ChargeMatchesOrder
<1>1. Provenance => ChargeMatchesOrder
  BY DEF Provenance
<1> QED BY <1>1, ProvenanceInvariant, PTL

-----------------------------------------------------------------------------
(* ChargeOnce *)

AbsPhase == [r \in Requests |-> Phase(r)]
AbsBill  == [r \in Requests |-> Bill(r)]

\* A core with empty Redis keys and no orders is an empty ledger.
LEMMA RefinesInit == Init => Abstract!Init
BY DEF Init, Abstract!Init, Bill, Phase, NoOrder

\* The reservation script is a Reserve step.
LEMMA ReserveRefines ==
    ASSUME TypeOK, Provenance, NEW r \in Requests, NEW amount \in Int, amount > 0,
           PreChargeScript(r, amount), stage[r] = "new", orders' = orders
    PROVE  Abstract!Reserve(r)
<1>1. UserOf[r] \in Users
  BY Topology
<1>2. /\ balance[UserOf[r]] >= amount
      /\ balance' = [balance EXCEPT ![UserOf[r]] = @ - amount]
      /\ precharge' = [precharge EXCEPT ![r] = amount]
      /\ settled' = settled /\ lapsed' = lapsed
  BY DEF PreChargeScript, history
<1>3. precharge[r] = 0 /\ settled[r] = -1 /\ lapsed[r] = 0
  BY DEF Provenance, OnePhase
<1>4. precharge'[r] = amount /\ balance[UserOf[r]] \in Int
  BY <1>1, <1>2 DEF TypeOK
<1>5. AbsPhase[r] = "fresh"
  BY <1>3 DEF Phase, AbsPhase
<1>6. AbsPhase' = [AbsPhase EXCEPT ![r] = "held"]
  <2>1. ASSUME NEW q \in Requests PROVE Phase(q)' = IF q = r THEN "held" ELSE Phase(q)
    <3>1. CASE q = r
      BY <1>2, <1>3, <1>4, <3>1 DEF Phase
    <3>2. CASE q # r
      <4>1. precharge'[q] = precharge[q]
        BY <1>2, <3>2 DEF TypeOK
      <4> QED BY <1>2, <3>2, <4>1 DEF Phase
    <3> QED BY <3>1, <3>2
  <2> QED BY <2>1 DEF AbsPhase
<1>7. AbsBill' = AbsBill
  BY DEF AbsBill, Bill
<1>8. precharge'[r] \in 1 .. balance[UserOf[r]]
  BY <1>2, <1>4
<1> QED BY <1>2, <1>4, <1>5, <1>6, <1>7, <1>8 DEF Abstract!Reserve, AbsPhase, AbsBill

\* A settlement that finds the marker is a Capture step.
LEMMA CaptureRefines ==
    ASSUME TypeOK, Provenance, NEW r \in Requests, NEW charged \in Nat,
           SettleScript(r, charged), precharge[r] > 0,
           orders[r] # NoOrder, charged = Charge(orders[r]), orders' = orders
    PROVE  Abstract!Capture(r)
<1>1. /\ balance' = [balance EXCEPT ![UserOf[r]] = @ + (precharge[r] - charged)]
      /\ precharge' = [precharge EXCEPT ![r] = 0]
      /\ settled' = [settled EXCEPT ![r] = charged]
      /\ lapsed' = lapsed
  BY SettleScriptEffect
<1>2. UserOf[r] \in Users /\ precharge[r] \in Nat
  BY Topology DEF TypeOK
<1>3. settled[r] = -1
  BY DEF Provenance, OnePhase
<1>4. AbsPhase[r] = "held"
  BY <1>3 DEF AbsPhase, Phase
<1>5. AbsBill[r] = charged /\ AbsBill' = AbsBill
  BY DEF AbsBill, Bill
<1>6. AbsPhase' = [AbsPhase EXCEPT ![r] = "paid"]
  <2>1. ASSUME NEW q \in Requests PROVE Phase(q)' = IF q = r THEN "paid" ELSE Phase(q)
    <3>1. CASE q = r
      <4>1. settled'[q] = charged
        BY <1>1, <3>1 DEF TypeOK
      <4> QED BY <3>1, <4>1 DEF Phase
    <3>2. CASE q # r
      <4>1. precharge'[q] = precharge[q] /\ settled'[q] = settled[q]
        BY <1>1, <3>2 DEF TypeOK
      <4> QED BY <1>1, <3>2, <4>1 DEF Phase
    <3> QED BY <3>1, <3>2
  <2> QED BY <2>1 DEF AbsPhase
<1>7. balance' = [balance EXCEPT ![UserOf[r]] = @ + precharge[r] - AbsBill[r]]
  <2>1. balance[UserOf[r]] + (precharge[r] - charged) = balance[UserOf[r]] + precharge[r] - charged
    BY <1>2 DEF TypeOK
  <2> QED BY <1>1, <1>5, <2>1
<1>8. AbsBill[r] >= 0
  BY <1>5
<1> QED BY <1>8, <1>1, <1>4, <1>5, <1>6, <1>7 DEF Abstract!Capture, AbsPhase, AbsBill

\* The marker's expiry is a Lapse step.
LEMMA LapseRefines ==
    ASSUME TypeOK, Provenance, NEW r \in Requests, Expire(r)
    PROVE  Abstract!Lapse(r)
<1>1. /\ precharge[r] > 0
      /\ precharge' = [precharge EXCEPT ![r] = 0]
      /\ lapsed' = [lapsed EXCEPT ![r] = precharge[r]]
      /\ balance' = balance /\ settled' = settled /\ orders' = orders
  BY DEF Expire
<1>2. settled[r] = -1
  BY <1>1 DEF Provenance, OnePhase
<1>3. AbsPhase[r] = "held"
  BY <1>1, <1>2 DEF AbsPhase, Phase
<1>4. AbsPhase' = [AbsPhase EXCEPT ![r] = "lapsed"]
  <2>1. ASSUME NEW q \in Requests PROVE Phase(q)' = IF q = r THEN "lapsed" ELSE Phase(q)
    <3>1. CASE q = r
      <4>1. precharge'[q] = 0 /\ lapsed'[q] = precharge[q]
        BY <1>1, <3>1 DEF TypeOK
      <4> QED BY <1>1, <1>2, <3>1, <4>1 DEF Phase
    <3>2. CASE q # r
      <4>1. precharge'[q] = precharge[q] /\ lapsed'[q] = lapsed[q]
        BY <1>1, <3>2 DEF TypeOK
      <4> QED BY <1>1, <3>2, <4>1 DEF Phase
    <3> QED BY <3>1, <3>2
  <2> QED BY <2>1 DEF AbsPhase
<1>5. AbsBill' = AbsBill
  BY <1>1 DEF AbsBill, Bill
<1> QED BY <1>1, <1>3, <1>4, <1>5 DEF Abstract!Lapse, AbsPhase, AbsBill

\* A batch insert, whole or partial, is a Bill step.
LEMMA InsertRefines ==
    ASSUME TypeOK, TypeOK', [Next]_vars, UNCHANGED <<redis, history>>
    PROVE  Abstract!Bill
<1>1. ASSUME NEW r \in Requests PROVE Bill(r)' \in Int
  <2>1. CASE orders'[r] = NoOrder
    BY <2>1 DEF Bill
  <2>2. CASE orders'[r] # NoOrder
    <3>1. orders'[r] \in Order
      BY <2>2 DEF TypeOK
    <3>2. Charge(orders'[r]) \in Nat
      BY <3>1, ChargeType
    <3> QED BY <2>2, <3>2 DEF Bill
  <2> QED BY <2>1, <2>2
<1>2. ASSUME NEW r \in Requests, Bill(r) # -1 PROVE Bill(r)' = Bill(r)
  <2>1. orders[r] # NoOrder
    BY <1>2 DEF Bill
  <2>2. orders'[r] = orders[r]
    BY <2>1, OrdersAreStable
  <2> QED BY <2>2 DEF Bill
<1>3. UNCHANGED AbsPhase
  BY DEF AbsPhase, Phase, redis, history
<1> QED BY <1>1, <1>2, <1>3 DEF Abstract!Bill, AbsPhase, redis

\* Every operation of the core is a step of the ledger, or invisible to it.
LEMMA RefinesStep ==
    TypeOK /\ TypeOK' /\ Provenance /\ [Next]_vars => [Abstract!Next]_(Abstract!vars)
<1> SUFFICES ASSUME TypeOK, TypeOK', Provenance, [Next]_vars
             PROVE  Abstract!Next \/ UNCHANGED Abstract!vars
  OBVIOUS
<1>1. ASSUME NEW u \in Users, NEW amount \in Credits, TopUp(u, amount)
      PROVE  Abstract!Next
  <2>1. /\ balance' = [balance EXCEPT ![u] = @ + amount] /\ amount > 0
        /\ UNCHANGED <<precharge, orders, settled, lapsed>>
    BY <1>1 DEF TopUp
  <2>2. amount \in Nat /\ balance[u] \in Int
    BY InputTypes DEF TypeOK
  <2>3. balance'[u] = balance[u] + amount
    BY <2>1 DEF TypeOK
  <2>4. UNCHANGED AbsPhase /\ UNCHANGED AbsBill
    BY <2>1 DEF AbsPhase, AbsBill, Phase, Bill
  <2>5. balance'[u] > balance[u]
    BY <2>1, <2>2, <2>3
  <2>6. balance' = [balance EXCEPT ![u] = balance'[u]]
    BY <2>1, <2>3
  <2>7. Abstract!Credit(u)
    BY <2>1, <2>4, <2>5, <2>6 DEF Abstract!Credit, AbsPhase, AbsBill
  <2> QED BY <2>7 DEF Abstract!Next
<1>2. ASSUME NEW r \in Requests, Expire(r) PROVE Abstract!Next
  BY <1>2, LapseRefines DEF Abstract!Next
<1>3. ASSUME NEW r \in Requests, NEW amount \in Estimates,
             Admit(r, amount) \/ RefuseAfterScript(r, amount)
      PROVE  Abstract!Next
  <2>1. amount \in Int /\ amount > 0
    BY <1>3, InputTypes DEF Admit, RefuseAfterScript
  <2>2. PreChargeScript(r, amount) /\ stage[r] = "new" /\ orders' = orders
    BY <1>3 DEF Admit, RefuseAfterScript
  <2>3. Abstract!Reserve(r)
    BY <2>1, <2>2, ReserveRefines
  <2> QED BY <2>3 DEF Abstract!Next
<1>4. ASSUME NEW f \in Flushers, BatchSettle(f)
      PROVE  Abstract!Next \/ UNCHANGED Abstract!vars
  <2> DEFINE row == Head(batch[f])
  <2>1. batch[f] \in Seq(Row) /\ batch[f] # << >> /\ pc[f] = "settle" /\ orders' = orders
    BY <1>4 DEF BatchSettle, TypeOK
  <2>2. row = batch[f][1] /\ 1 \in DOMAIN batch[f] /\ row \in Row
    BY <2>1
  <2>3. orders[row.req] # NoOrder
    BY <2>1, <2>2 DEF Provenance, SettlingIsDurable
  <2>4. Faithful(row)
    BY <2>2 DEF Provenance, RowsAreFaithful
  <2>5. row.req \in Requests /\ Charge(row.order) \in Nat
    BY <2>2, ChargeType DEF Row
  <2>6. row.order = orders[row.req]
    BY <2>3, <2>4, <2>5 DEF Provenance, RowsAreFaithful, Faithful
  <2>7. SettleScript(row.req, Charge(row.order))
    BY <1>4 DEF BatchSettle
  <2> HIDE DEF row
  <2>8. CASE ~(precharge[row.req] > 0)
    <3>1. UNCHANGED <<redis, history>>
      BY <2>5, <2>7, <2>8, SettleScriptNoMarker
    <3> QED BY <2>1, <3>1 DEF Abstract!vars, Phase, Bill, redis, history
  <2>9. CASE precharge[row.req] > 0
    <3>1. Abstract!Capture(row.req)
      BY <2>1, <2>3, <2>5, <2>6, <2>7, <2>9, CaptureRefines
    <3> QED BY <2>5, <3>1 DEF Abstract!Next
  <2> QED BY <2>8, <2>9
<1>5. ASSUME UNCHANGED <<redis, history>> PROVE Abstract!Next
  BY <1>5, InsertRefines DEF Abstract!Next
<1>6. CASE RedisNext
  BY <1>1, <1>2, <1>6 DEF RedisNext
<1>7. CASE HandlerNext
  BY <1>3, <1>5, <1>7
  DEF HandlerNext, AdmissionNext, AdmitUnreserved, Refuse, Emit, StreamingUnsupported
<1>8. CASE FlusherNext
  BY <1>4, <1>5, <1>8
  DEF FlusherNext, SignalFlush, WakeOnTrigger, WakeOnTick, TakeBatch, Insert, InsertError,
      BatchSettleError
<1> QED
  BY <1>5, <1>6, <1>7, <1>8
  DEF Next, vars, Handle, CallFlush, LoopExit, CloseDone, Crash

\* Every behaviour of the billing core, with any faults and any redeliveries,
\* is a behaviour of the charge-once ledger.
THEOREM SettlementImplementsChargeOnce == Spec => ImplementsChargeOnce
<1>1. Spec => [](TypeOK /\ Provenance)
  BY TypeCorrect, ProvenanceInvariant, PTL
<1> QED
  BY <1>1, RefinesInit, RefinesStep, PTL
  DEF Spec, ImplementsChargeOnce, Abstract!Spec

-----------------------------------------------------------------------------
(* Rows in a Settler *)

\* A flusher that is not between taking a batch and finishing it holds no row,
\* so flush overwrites nothing when it takes the next one.
RestingIsEmpty ==
    \A f \in Flushers : pc[f] \notin {"insert", "settle"} => batch[f] = << >>

\* A request's row is in a list of rows.
In(rows, r) == \E i \in DOMAIN rows : rows[i].req = r

\* A request's row is in a settle shard: buffered, or taken by one of its flushers.
InShard(k, r) == In(buf[k], r) \/ \E f \in Flushers : Of[f] = k /\ In(batch[f], r)

\* A step of the core in which no process dies.
CalmStep ==
    \/ RedisNext \/ HandlerNext \/ FlusherNext
    \/ \E p \in Procs : CloseDone(p) \/ \E r \in Requests : Handle(p, r)
    \/ \E callers \in SUBSET (Flushers \ Loops) : CallFlush(callers)
    \/ \E f \in Flushers : LoopExit(f)
    \/ UNCHANGED vars

\* The processes start with no rows.
LEMMA RestingInit == Init => RestingIsEmpty
BY DEF Init, RestingIsEmpty

\* Every way out of flush leaves the flusher without rows.
LEMMA RestingStep == TypeOK /\ RestingIsEmpty /\ [Next]_vars => RestingIsEmpty'
<1> SUFFICES ASSUME TypeOK, RestingIsEmpty, [Next]_vars, NEW f \in Flushers,
                    pc'[f] \notin {"insert", "settle"}
             PROVE  batch'[f] = << >>
  BY DEF RestingIsEmpty
<1>1. CASE pc'[f] = pc[f] /\ batch'[f] = batch[f]
  BY <1>1 DEF RestingIsEmpty
<1>2. CASE UNCHANGED flusher
  BY <1>1, <1>2 DEF flusher
<1>3. ASSUME NEW g \in Flushers,
             \/ TakeBatch(g) \/ Insert(g) \/ BatchSettle(g) \/ BatchSettleError(g)
             \/ \E stores \in SUBSET Stores : InsertError(g, stores)
      PROVE  batch'[f] = << >>
  <2>1. CASE g # f
    BY <1>1, <1>3, <2>1
    DEF TakeBatch, Insert, BatchSettle, BatchSettleError, InsertError, TypeOK
  <2>2. CASE g = f
    BY <1>3, <2>2
    DEF TakeBatch, Insert, BatchSettle, BatchSettleError, InsertError, TypeOK
  <2> QED BY <2>1, <2>2
<1>4. ASSUME NEW g \in Flushers, WakeOnTrigger(g) \/ WakeOnTick(g) \/ LoopExit(g)
      PROVE  batch'[f] = << >>
  BY <1>4 DEF WakeOnTrigger, WakeOnTick, LoopExit, RestingIsEmpty, TypeOK
<1>5. ASSUME NEW callers \in SUBSET (Flushers \ Loops), CallFlush(callers)
      PROVE  batch'[f] = << >>
  BY <1>5 DEF CallFlush, RestingIsEmpty
<1>6. ASSUME NEW p \in Procs, Crash(p) PROVE batch'[f] = << >>
  BY <1>6 DEF Crash, RestingIsEmpty
<1>7. CASE RedisNext \/ HandlerNext
  BY <1>2, <1>7
  DEF RedisNext, TopUp, Expire, HandlerNext, AdmissionNext, AdmitUnreserved, Admit, Refuse,
      RefuseAfterScript, Emit, StreamingUnsupported
<1>8. CASE FlusherNext
  BY <1>2, <1>3, <1>4, <1>8 DEF FlusherNext, SignalFlush
<1> QED BY <1>2, <1>4, <1>5, <1>6, <1>7, <1>8 DEF Next, vars, Handle, CloseDone

\* flush takes rows under the mutex, and forgets a row only when its order is
\* stored and its reservation settled, or with a batch that failed.
LEMMA RowLeaves ==
    ASSUME TypeOK, SettlingIsDurable, RestingIsEmpty, CalmStep,
           NEW k \in Shards, NEW r \in Requests, InShard(k, r)
    PROVE  \/ InShard(k, r)'
           \/ orders'[r] # NoOrder /\ precharge'[r] = 0
           \/ \E f \in Flushers : LetsGo(f) /\ In(batch[f], r)
<1> DEFINE Goal == \/ InShard(k, r)'
                   \/ orders'[r] # NoOrder /\ precharge'[r] = 0
                   \/ \E f \in Flushers : LetsGo(f) /\ In(batch[f], r)
<1> SUFFICES Goal
  OBVIOUS
<1>0. CASE UNCHANGED <<buf, batch>>
  BY <1>0 DEF InShard, In
<1>1. ASSUME NEW p \in Procs, NEW q \in Requests, Handle(p, q) PROVE Goal
  <2> DEFINE j == ShardIndex[p][q]
             row == [req |-> q, order |-> OrderFromEvent(event[q])]
  <2>1. buf' = [buf EXCEPT ![j] = Append(@, row)] /\ batch' = batch
    BY <1>1 DEF Handle, flusher
  <2>2. buf[k] \in Seq(Row) /\ j \in Shards /\ buf \in [Shards -> Seq(Row)]
    BY Topology DEF TypeOK
  <2> HIDE DEF j, row
  <2>3. ASSUME NEW i \in DOMAIN buf[k] PROVE i \in DOMAIN buf'[k] /\ buf'[k][i] = buf[k][i]
    <3>1. buf'[k] = buf[k] \/ buf'[k] = Append(buf[k], row)
      BY <2>1, <2>2
    <3> QED BY <2>2, <3>1
  <2> QED BY <2>1, <2>3 DEF InShard, In
<1>2. ASSUME NEW f \in Flushers, TakeBatch(f) PROVE Goal
  <2>1. /\ batch' = [batch EXCEPT ![f] = buf[Of[f]]]
        /\ buf' = [buf EXCEPT ![Of[f]] = << >>]
        /\ pc[f] = "woken"
    BY <1>2 DEF TakeBatch
  <2>2. batch[f] = << >> /\ Of[f] \in Shards
    BY <2>1, Topology DEF RestingIsEmpty
  <2>3. CASE In(buf[k], r)
    <3>1. CASE Of[f] = k
      <4>1. batch'[f] = buf[k]
        BY <2>1, <3>1 DEF TypeOK
      <4> QED BY <2>3, <3>1, <4>1 DEF InShard, In
    <3>2. CASE Of[f] # k
      <4>1. buf'[k] = buf[k]
        BY <2>1, <3>2 DEF TypeOK
      <4> QED BY <2>3, <4>1 DEF InShard, In
    <3> QED BY <3>1, <3>2
  <2>4. ASSUME NEW g \in Flushers, Of[g] = k, In(batch[g], r) PROVE Goal
    <3>1. g # f
      BY <2>2, <2>4 DEF In
    <3>2. batch'[g] = batch[g]
      BY <2>1, <3>1 DEF TypeOK
    <3> QED BY <2>4, <3>2 DEF InShard, In
  <2> QED BY <2>3, <2>4 DEF InShard
<1>3. ASSUME NEW f \in Flushers, BatchSettle(f) \/ LetsGo(f) PROVE Goal
  <2>1. /\ buf' = buf /\ batch[f] \in Seq(Row)
        /\ \A g \in Flushers : g # f => batch'[g] = batch[g]
    BY <1>3 DEF BatchSettle, LetsGo, BatchSettleError, InsertError, shard, TypeOK
  <2>2. CASE ~In(batch[f], r)
    <3>1. In(buf[k], r) \/ \E g \in Flushers : g # f /\ Of[g] = k /\ In(batch[g], r)
      BY <2>2 DEF InShard
    <3>2. CASE In(buf[k], r)
      BY <2>1, <3>2 DEF InShard, In
    <3>3. ASSUME NEW g \in Flushers, g # f, Of[g] = k, In(batch[g], r) PROVE Goal
      <4>1. In(batch[g], r)'
        BY <2>1, <3>3 DEF In
      <4> QED BY <3>3, <4>1 DEF InShard
    <3> QED BY <3>1, <3>2, <3>3
  <2>3. CASE In(batch[f], r)
    <3>1. BatchSettle(f) => orders'[r] # NoOrder /\ batch[f] # << >>
      BY <2>3 DEF BatchSettle, SettlingIsDurable, In
    <3>2. CASE LetsGo(f)
      BY <2>3, <3>2
    <3>3. CASE BatchSettle(f) /\ Head(batch[f]).req = r
      <4> DEFINE charged == Charge(Head(batch[f]).order)
      <4>1. Head(batch[f]) \in Row
        BY <2>1, <3>1, <3>3, HeadOfRows
      <4>2. charged \in Nat
        BY <4>1, ChargeType DEF Row
      <4>3. SettleScript(r, charged)
        BY <3>3 DEF BatchSettle
      <4> HIDE DEF charged
      <4>4. precharge'[r] = 0
        <5>1. CASE precharge[r] > 0
          BY <4>2, <4>3, <5>1, SettleScriptEffect, ZenonT(30) DEF TypeOK
        <5>2. CASE ~(precharge[r] > 0)
          <6>1. UNCHANGED precharge
            BY <4>2, <4>3, <5>2, SettleScriptNoMarker DEF redis
          <6>2. precharge[r] \in Nat
            BY DEF TypeOK
          <6> QED BY <5>2, <6>1, <6>2
        <5> QED BY <5>1, <5>2
      <4> QED BY <3>1, <3>3, <4>4
    <3>4. CASE BatchSettle(f) /\ Head(batch[f]).req # r
      <4>1. PICK i \in DOMAIN batch[f] : batch[f][i].req = r
        BY <2>3 DEF In
      <4>2. i \in 2 .. Len(batch[f])
        <5>1. i # 1
          BY <2>1, <3>1, <3>4, <4>1, HeadOfRows
        <5> QED BY <2>1, <5>1
      <4>3. batch'[f] = Tail(batch[f])
        BY <3>4 DEF BatchSettle, TypeOK
      <4>4. i - 1 \in DOMAIN Tail(batch[f]) /\ Tail(batch[f])[i - 1] = batch[f][i]
        BY <2>1, <4>2
      <4>5. In(batch[f], r)'
        BY <4>1, <4>3, <4>4 DEF In
      <4>6. CASE Of[f] = k
        BY <4>5, <4>6 DEF InShard
      <4>7. CASE Of[f] # k
        <5>1. In(buf[k], r) \/ \E g \in Flushers : g # f /\ Of[g] = k /\ In(batch[g], r)
          BY <4>7 DEF InShard
        <5> QED BY <2>1, <5>1 DEF InShard, In
      <4> QED BY <4>6, <4>7
    <3> QED BY <1>3, <3>2, <3>3, <3>4
  <2> QED BY <2>2, <2>3
<1> HIDE DEF Goal
<1>4. CASE RedisNext \/ HandlerNext
  BY <1>0, <1>4
  DEF RedisNext, TopUp, Expire, HandlerNext, AdmissionNext, AdmitUnreserved, Admit, Refuse,
      RefuseAfterScript, Emit, StreamingUnsupported, shard, flusher
<1>5. ASSUME NEW f \in Flushers, WakeOnTrigger(f) \/ WakeOnTick(f) \/ Insert(f) \/ LoopExit(f)
      PROVE  Goal
  BY <1>0, <1>5 DEF WakeOnTrigger, WakeOnTick, Insert, LoopExit, shard
<1>6. CASE FlusherNext
  BY <1>0, <1>2, <1>3, <1>5, <1>6 DEF FlusherNext, SignalFlush, LetsGo, flusher
<1> QED
  BY <1>0, <1>1, <1>4, <1>5, <1>6
  DEF CalmStep, CloseDone, CallFlush, LoopExit, vars, shard, flusher

\* While inserts do not fail, a row leaves its shard only when its order is
\* stored and (unless Redis failed) its reservation settled.
LEMMA RowLeavesSettled ==
    ASSUME TypeOK, SettlingIsDurable, RestingIsEmpty, CalmStep, "insert" \notin Faults,
           NEW k \in Shards, NEW r \in Requests, InShard(k, r)
    PROVE  \/ InShard(k, r)'
           \/ orders'[r] # NoOrder /\ ("redis" \in Faults \/ precharge'[r] = 0)
<1>1. ASSUME NEW f \in Flushers, LetsGo(f), In(batch[f], r)
      PROVE  orders'[r] # NoOrder /\ "redis" \in Faults
  <2>1. BatchSettleError(f)
    BY <1>1 DEF LetsGo, InsertError
  <2> QED BY <1>1, <2>1 DEF BatchSettleError, SettlingIsDurable, In
<1> QED BY <1>1, RowLeaves

\* A request whose order is stored and whose reservation is gone.
SettledFor(r) == orders[r] # NoOrder /\ precharge[r] = 0

\* Nothing reserves for a request again once its order is stored.
LEMMA SettledStays ==
    ASSUME TypeOK, RowsAreFaithful, [Next]_vars, NEW r \in Requests, SettledFor(r)
    PROVE  SettledFor(r)'
<1>1. orders'[r] # NoOrder
  BY OrdersAreStable DEF SettledFor
<1>2. stage[r] = "served"
  BY DEF RowsAreFaithful, SettledFor
<1>3. CASE UNCHANGED precharge
  BY <1>1, <1>3 DEF SettledFor
<1>4. ASSUME NEW q \in Requests, NEW amount \in Estimates,
             Admit(q, amount) \/ RefuseAfterScript(q, amount)
      PROVE  SettledFor(r)'
  <2>1. q # r /\ precharge' = [precharge EXCEPT ![q] = amount]
    BY <1>2, <1>4 DEF Admit, RefuseAfterScript, PreChargeScript
  <2> QED BY <1>1, <2>1 DEF SettledFor, TypeOK
<1>5. ASSUME NEW q \in Requests, Expire(q) PROVE SettledFor(r)'
  BY <1>1, <1>5 DEF Expire, SettledFor, TypeOK
<1>6. ASSUME NEW f \in Flushers, BatchSettle(f) PROVE SettledFor(r)'
  <2>1. UNCHANGED precharge \/ \E q : precharge' = [precharge EXCEPT ![q] = 0]
    BY <1>6 DEF BatchSettle, SettleScript, redis
  <2> QED BY <1>1, <2>1 DEF SettledFor, TypeOK
<1>7. CASE RedisNext
  BY <1>3, <1>5, <1>7 DEF RedisNext, TopUp
<1>8. CASE HandlerNext
  BY <1>3, <1>4, <1>8
  DEF HandlerNext, AdmissionNext, AdmitUnreserved, Refuse, Emit, StreamingUnsupported, redis
<1>9. CASE FlusherNext
  BY <1>3, <1>6, <1>9
  DEF FlusherNext, SignalFlush, WakeOnTrigger, WakeOnTick, TakeBatch, Insert, InsertError,
      BatchSettleError, redis
<1> QED
  BY <1>3, <1>7, <1>8, <1>9
  DEF Next, vars, redis, Handle, CallFlush, LoopExit, CloseDone, Crash
=============================================================================
