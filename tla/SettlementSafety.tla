--------------------------- MODULE SettlementSafety ---------------------------
(***************************************************************************)
(* What Settlement promises about money and wake-ups: money is conserved,  *)
(* what is frozen is what is reserved, no wake-up is lost, and Settler.Close*)
(* settles every row.  All of it for every choice of the constants.        *)
(***************************************************************************)
EXTENDS SettlerClose, SettlementProvenance, FiniteSetTheorems

\* Most leaves are first-order reasoning: Zenon is tried before the SMT solver.
USE ZenonT(10), SMTT(30)

-----------------------------------------------------------------------------
(* Money *)

Money == Conservation /\ OverdraftIsClawback

\* PreChargeScript moves money from balance to frozen and never overdraws.
LEMMA PreChargeMoney ==
    ASSUME TypeOK, Money, NEW r \in Requests, NEW amount \in Int, amount > 0,
           PreChargeScript(r, amount)
    PROVE  Money'
<1>1. UserOf[r] \in Users
  BY Topology
<1>2. /\ balance[UserOf[r]] >= amount
      /\ balance' = [balance EXCEPT ![UserOf[r]] = @ - amount]
      /\ frozen' = [frozen EXCEPT ![UserOf[r]] = @ + amount]
      /\ spent' = spent /\ credited' = credited /\ shortfall' = shortfall
  BY DEF PreChargeScript, history
<1>3. ASSUME NEW u \in Users
      PROVE  /\ balance'[u] + frozen'[u] + spent'[u] = credited'[u]
             /\ balance'[u] + shortfall'[u] >= 0
  <2>1. /\ balance[u] \in Int /\ frozen[u] \in Int /\ spent[u] \in Nat
        /\ credited[u] \in Nat /\ shortfall[u] \in Nat
    BY DEF TypeOK
  <2>2. balance[u] + frozen[u] + spent[u] = credited[u] /\ balance[u] + shortfall[u] >= 0
    BY DEF Money, Conservation, OverdraftIsClawback
  <2>3. CASE u = UserOf[r]
    <3>1. balance'[u] = balance[u] - amount /\ frozen'[u] = frozen[u] + amount
      BY <1>2, <2>3 DEF TypeOK
    <3> QED BY <1>2, <2>1, <2>2, <2>3, <3>1
  <2>4. CASE u # UserOf[r]
    <3>1. balance'[u] = balance[u] /\ frozen'[u] = frozen[u]
      BY <1>2, <2>4 DEF TypeOK
    <3> QED BY <1>2, <2>2, <3>1
  <2> QED BY <2>3, <2>4
<1> QED BY <1>3 DEF Money, Conservation, OverdraftIsClawback

\* settleScriptSrc moves a reservation to spent and balance, and a clawback
\* is booked as a shortfall.
LEMMA SettleMoney ==
    ASSUME TypeOK, Money, NEW r \in Requests, NEW charged \in Nat,
           SettleScript(r, charged)
    PROVE  Money'
<1>1. CASE ~(precharge[r] > 0)
  <2>1. UNCHANGED <<redis, history>>
    BY <1>1, SettleScriptNoMarker
  <2> QED BY <2>1 DEF redis, history, Money, Conservation, OverdraftIsClawback
<1>2. CASE precharge[r] > 0
  <2>1. /\ balance' = [balance EXCEPT ![UserOf[r]] = @ + (precharge[r] - charged)]
        /\ frozen' = [frozen EXCEPT ![UserOf[r]] = @ - precharge[r]]
        /\ spent' = [spent EXCEPT ![UserOf[r]] = @ + charged]
        /\ shortfall' = [shortfall EXCEPT ![UserOf[r]] =
                           @ + Positive(-(precharge[r] - charged))]
        /\ credited' = credited
    BY <1>2, SettleScriptEffect
  <2>2. UserOf[r] \in Users /\ precharge[r] \in Nat
    BY Topology DEF TypeOK
  <2>3. ASSUME NEW u \in Users
        PROVE  /\ balance'[u] + frozen'[u] + spent'[u] = credited'[u]
               /\ balance'[u] + shortfall'[u] >= 0
    <3>1. /\ balance[u] \in Int /\ frozen[u] \in Int /\ spent[u] \in Nat
          /\ credited[u] \in Nat /\ shortfall[u] \in Nat
      BY DEF TypeOK
    <3>2. balance[u] + frozen[u] + spent[u] = credited[u] /\ balance[u] + shortfall[u] >= 0
      BY DEF Money, Conservation, OverdraftIsClawback
    <3>3. CASE u = UserOf[r]
      <4>1. /\ balance'[u] = balance[u] + (precharge[r] - charged)
            /\ frozen'[u] = frozen[u] - precharge[r]
            /\ spent'[u] = spent[u] + charged
            /\ shortfall'[u] = shortfall[u] + Positive(-(precharge[r] - charged))
            /\ credited'[u] = credited[u]
        BY <2>1, <3>3 DEF TypeOK
      <4>2. balance'[u] + frozen'[u] + spent'[u] = credited'[u]
        BY <2>2, <3>1, <3>2, <4>1
      <4>3. balance'[u] + shortfall'[u] >= 0
        BY <2>2, <3>1, <3>2, <4>1 DEF Positive
      <4> QED BY <4>2, <4>3
    <3>4. CASE u # UserOf[r]
      <4>1. /\ balance'[u] = balance[u] /\ frozen'[u] = frozen[u]
            /\ spent'[u] = spent[u] /\ shortfall'[u] = shortfall[u]
        BY <2>1, <3>4 DEF TypeOK
      <4> QED BY <2>1, <3>2, <4>1
    <3> QED BY <3>3, <3>4
  <2> QED BY <2>3 DEF Money, Conservation, OverdraftIsClawback
<1> QED BY <1>1, <1>2

\* Before the first credit every amount is zero.
LEMMA MoneyInit == Init => Money
BY DEF Init, Money, Conservation, OverdraftIsClawback

\* Each operation of the core conserves the money of every user.
LEMMA MoneyStep == TypeOK /\ Money /\ [Next]_vars => Money'
<1> SUFFICES ASSUME TypeOK, Money, [Next]_vars PROVE Money'
  OBVIOUS
<1>1. ASSUME NEW u \in Users, NEW amount \in Credits, TopUp(u, amount) PROVE Money'
  <2>1. amount \in Nat
    BY InputTypes
  <2>2. /\ balance' = [balance EXCEPT ![u] = @ + amount]
        /\ credited' = [credited EXCEPT ![u] = @ + amount]
        /\ frozen' = frozen /\ spent' = spent /\ shortfall' = shortfall
    BY <1>1 DEF TopUp
  <2>3. ASSUME NEW v \in Users
        PROVE  /\ balance'[v] + frozen'[v] + spent'[v] = credited'[v]
               /\ balance'[v] + shortfall'[v] >= 0
    <3>1. /\ balance[v] \in Int /\ frozen[v] \in Int /\ spent[v] \in Nat
          /\ credited[v] \in Nat /\ shortfall[v] \in Nat
      BY DEF TypeOK
    <3>2. balance[v] + frozen[v] + spent[v] = credited[v] /\ balance[v] + shortfall[v] >= 0
      BY DEF Money, Conservation, OverdraftIsClawback
    <3>3. /\ balance'[v] = IF v = u THEN balance[v] + amount ELSE balance[v]
          /\ credited'[v] = IF v = u THEN credited[v] + amount ELSE credited[v]
      BY <2>2 DEF TypeOK
    <3> QED BY <2>1, <2>2, <3>1, <3>2, <3>3
  <2> QED BY <2>3 DEF Money, Conservation, OverdraftIsClawback
<1>2. ASSUME NEW r \in Requests, NEW amount \in Estimates,
             Admit(r, amount) \/ RefuseAfterScript(r, amount)
      PROVE  Money'
  <2>1. amount \in Int
    BY InputTypes
  <2> QED BY <1>2, <2>1, PreChargeMoney DEF Admit, RefuseAfterScript
<1>3. ASSUME NEW f \in Flushers, BatchSettle(f) PROVE Money'
  <2>1. Head(batch[f]) \in Row
    BY <1>3 DEF BatchSettle, TypeOK
  <2>2. Head(batch[f]).req \in Requests /\ Charge(Head(batch[f]).order) \in Nat
    BY <2>1, ChargeType DEF Row
  <2>3. SettleScript(Head(batch[f]).req, Charge(Head(batch[f]).order))
    BY <1>3 DEF BatchSettle
  <2> QED BY <2>2, <2>3, SettleMoney
<1>4. CASE UNCHANGED <<balance, frozen, spent, credited, shortfall>>
  BY <1>4 DEF Money, Conservation, OverdraftIsClawback
<1> QED
  BY <1>1, <1>2, <1>3, <1>4
  DEF Next, RedisNext, HandlerNext, AdmissionNext, FlusherNext, vars, redis, history, Expire,
      AdmitUnreserved, Refuse, Emit, StreamingUnsupported, Handle, SignalFlush,
      WakeOnTrigger, WakeOnTick, CallFlush, TakeBatch, Insert, InsertError,
      BatchSettleError, CloseDone, LoopExit, Crash

\* What the two theorems below share.
LEMMA MoneyHolds == Spec => []Money
BY TypeCorrect, MoneyInit, MoneyStep, PTL DEF Spec

\* The Redis scripts conserve money, for any number of users, requests,
\* processes and faults.
THEOREM MoneyIsConserved == Spec => []Conservation
<1>1. Money => Conservation
  BY DEF Money
<1> QED BY <1>1, MoneyHolds, PTL

\* PreChargeScript never overdraws a balance: it is negative by no more than
\* what settlements clawed back.
THEOREM OverdraftsAreClawbacks == Spec => []OverdraftIsClawback
<1>1. Money => OverdraftIsClawback
  BY DEF Money
<1> QED BY <1>1, MoneyHolds, PTL

-----------------------------------------------------------------------------
(* Wake-ups *)

\* Buffers start empty (NewSettler).
LEMMA WakeupInit == Init => NoLostWakeup
BY ConstantsAssumption DEF ConstantsAssumption, Init, NoLostWakeup

\* Handle, signalFlush, the loops and the other flushers keep a wake-up coming.
LEMMA WakeupStep == TypeOK /\ NoLostWakeup /\ [Next]_vars => NoLostWakeup'
<1> SUFFICES ASSUME TypeOK, NoLostWakeup, [Next]_vars,
                    NEW f \in Loops, buf'[Of[f]] # << >>
             PROVE  \/ flushAt'[Of[f]] \/ trigger'[Of[f]] \/ owed'[Of[f]] > 0
                    \/ pc'[f] \in {"woken", "exited"}
  BY DEF NoLostWakeup
<1> DEFINE k == Of[f]
<1>t. f \in Flushers /\ k \in Shards
  BY ConstantsAssumption, Topology DEF ConstantsAssumption
<1>o. owed[k] \in Nat
  BY <1>t DEF TypeOK
<1>i. buf[k] # << >> =>
        flushAt[k] \/ trigger[k] \/ owed[k] > 0 \/ pc[f] \in {"woken", "exited"}
  BY DEF NoLostWakeup
<1> USE DEF TypeOK
<1>1. ASSUME NEW p \in Procs, NEW r \in Requests, Handle(p, r)
      PROVE  flushAt'[k] \/ trigger'[k] \/ owed'[k] > 0 \/ pc'[f] \in {"woken", "exited"}
  <2>1. CASE ShardIndex[p][r] = k
    <3> DEFINE full == Len(buf[k]) + 1 >= Batch
    <3>1. /\ flushAt' = [flushAt EXCEPT ![k] = @ \/ ~full]
          /\ owed' = [owed EXCEPT ![k] = IF full THEN @ + 1 ELSE @]
      BY <1>1, <2>1 DEF Handle
    <3>2. CASE full
      <4>1. owed'[k] = owed[k] + 1
        BY <1>t, <3>1, <3>2
      <4> QED BY <1>o, <4>1
    <3>3. CASE ~full
      <4>1. flushAt'[k]
        BY <1>t, <3>1, <3>3
      <4> QED BY <4>1
    <3> HIDE DEF full
    <3> QED BY <3>2, <3>3
  <2>2. CASE ShardIndex[p][r] # k
    <3>1. /\ buf'[k] = buf[k] /\ flushAt'[k] = flushAt[k] /\ owed'[k] = owed[k]
          /\ trigger' = trigger /\ pc' = pc
      BY <1>1, <1>t, <2>2 DEF Handle, flusher
    <3> QED BY <1>i, <3>1
  <2> QED BY <2>1, <2>2
<1>2. ASSUME NEW j \in Shards, SignalFlush(j)
      PROVE  flushAt'[k] \/ trigger'[k] \/ owed'[k] > 0 \/ pc'[f] \in {"woken", "exited"}
  <2>1. CASE j = k
    BY <1>2, <1>t, <2>1 DEF SignalFlush
  <2>2. CASE j # k
    BY <1>2, <1>t, <1>i, <2>2 DEF SignalFlush, flusher
  <2> QED BY <2>1, <2>2
<1>3. ASSUME NEW g \in Flushers, WakeOnTrigger(g)
      PROVE  flushAt'[k] \/ trigger'[k] \/ owed'[k] > 0 \/ pc'[f] \in {"woken", "exited"}
  <2>1. CASE g = f
    BY <1>3, <1>t, <2>1 DEF WakeOnTrigger
  <2>2. CASE g # f
    <3>1. Of[g] # k
      BY <1>3, <2>2, OneLoopPerShard DEF WakeOnTrigger, OneLoopPerShard
    <3> QED BY <1>3, <1>t, <1>i, <2>2, <3>1 DEF WakeOnTrigger
  <2> QED BY <2>1, <2>2
<1>4. ASSUME NEW g \in Flushers, WakeOnTick(g)
      PROVE  flushAt'[k] \/ trigger'[k] \/ owed'[k] > 0 \/ pc'[f] \in {"woken", "exited"}
  BY <1>4, <1>t, <1>i DEF WakeOnTick, shard
<1>9. ASSUME NEW callers \in SUBSET (Flushers \ Loops), CallFlush(callers)
      PROVE  flushAt'[k] \/ trigger'[k] \/ owed'[k] > 0 \/ pc'[f] \in {"woken", "exited"}
  BY <1>9, <1>t, <1>i DEF CallFlush, shard
<1>5. ASSUME NEW g \in Flushers, TakeBatch(g)
      PROVE  flushAt'[k] \/ trigger'[k] \/ owed'[k] > 0 \/ pc'[f] \in {"woken", "exited"}
  <2>1. Of[g] \in Shards
    BY Topology
  <2>2. Of[g] # k
    BY <1>5, <2>1 DEF TakeBatch
  <2> QED BY <1>5, <1>t, <1>i, <2>1, <2>2 DEF TakeBatch
<1>6. ASSUME NEW g \in Flushers,
             \/ Insert(g) \/ BatchSettle(g) \/ BatchSettleError(g) \/ LoopExit(g)
             \/ \E stores \in SUBSET Stores : InsertError(g, stores)
      PROVE  flushAt'[k] \/ trigger'[k] \/ owed'[k] > 0 \/ pc'[f] \in {"woken", "exited"}
  <2>1. UNCHANGED shard
    BY <1>6 DEF Insert, BatchSettle, BatchSettleError, LoopExit, InsertError
  <2>2. pc[f] \in {"woken", "exited"} => pc'[f] \in {"woken", "exited"}
    BY <1>6, <1>t DEF Insert, BatchSettle, BatchSettleError, LoopExit, InsertError
  <2> QED BY <1>i, <2>1, <2>2 DEF shard
<1>7. ASSUME NEW p \in Procs, Crash(p)
      PROVE  flushAt'[k] \/ trigger'[k] \/ owed'[k] > 0 \/ pc'[f] \in {"woken", "exited"}
  <2>1. ProcOf[k] # p
    BY <1>7, <1>t DEF Crash
  <2> QED BY <1>7, <1>t, <1>i, <2>1 DEF Crash
<1>8. CASE UNCHANGED <<buf, flushAt, trigger, owed, pc>>
  BY <1>8, <1>i
<1> QED
  BY <1>1, <1>2, <1>3, <1>4, <1>5, <1>6, <1>7, <1>8, <1>9
  DEF Next, RedisNext, HandlerNext, AdmissionNext, FlusherNext, vars, shard,
        flusher, TopUp, Expire,
      AdmitUnreserved, Admit, Refuse, RefuseAfterScript, Emit, StreamingUnsupported,
      CloseDone

\* No interleaving of Handle, signalFlush, the flush loops, FlushSync, Close and
\* crashes leaves rows in a buffer that no loop will ever look at.
THEOREM WakeupsAreNotLost == Spec => []NoLostWakeup
BY TypeCorrect, WakeupInit, WakeupStep, PTL DEF Spec

-----------------------------------------------------------------------------
(* What is frozen *)

\* Of a user, finitely many units are reserved, and as many are frozen.
FrozenOK(u) == IsFiniteSet(ReservedUnits(u)) /\ frozen[u] = Cardinality(ReservedUnits(u))

\* The units of one reservation are as many as its amount, and add up with the
\* units of other requests: what INCRBY of frozen:<user> rests on.
LEMMA UnitsAddUp ==
    ASSUME NEW S, IsFiniteSet(S), NEW r, NEW n \in Nat, \A i : <<r, i>> \notin S
    PROVE  /\ IsFiniteSet(S \cup ({r} \X (1 .. n)))
           /\ Cardinality(S \cup ({r} \X (1 .. n))) = Cardinality(S) + n
<1> DEFINE T == {r} \X (1 .. n)
           g == [i \in 1 .. n |-> <<r, i>>]
<1>1. IsFiniteSet(1 .. n) /\ Cardinality(1 .. n) = n
  BY FS_Interval
<1>2. g \in Bijection(1 .. n, T)
  <2>1. g \in [1 .. n -> T]
    OBVIOUS
  <2>2. \A i, j \in 1 .. n : g[i] = g[j] => i = j
    OBVIOUS
  <2>3. \A t \in T : \E i \in 1 .. n : g[i] = t
    OBVIOUS
  <2> HIDE DEF g, T
  <2> QED BY <2>1, <2>2, <2>3 DEF Bijection, Injection, Surjection, IsInjective
<1>3. IsFiniteSet(T) /\ Cardinality(T) = n
  <2> HIDE DEF g, T
  <2> QED BY <1>1, <1>2, FS_Bijection DEF ExistsBijection
<1>4. S \cap T = {}
  OBVIOUS
<1>5. Cardinality(S) \in Nat
  BY FS_CardinalityType
<1> HIDE DEF T
<1>6. IsFiniteSet(S \cup T) /\ Cardinality(S \cup T) = Cardinality(S) + Cardinality(T) - 0
  <2>1. /\ IsFiniteSet(S \cup T)
        /\ Cardinality(S \cup T) = Cardinality(S) + Cardinality(T) - Cardinality(S \cap T)
    BY <1>3, FS_Union
  <2>2. Cardinality(S \cap T) = 0
    BY <1>4, FS_EmptySet
  <2> QED BY <2>1, <2>2
<1> QED BY <1>3, <1>5, <1>6 DEF T

\* A script that writes the marker of one request leaves the units of the
\* others alone.
LEMMA UnitsOfOthers ==
    ASSUME TypeOK, NEW r \in Requests, NEW u \in Users,
           \A q \in Requests \ {r} : precharge'[q] = precharge[q] /\ lapsed'[q] = lapsed[q]
    PROVE  /\ UserOf[r] # u => ReservedUnits(u)' = ReservedUnits(u)
           /\ \A q, i : q # r => (<<q, i>> \in ReservedUnits(u)' <=> <<q, i>> \in ReservedUnits(u))
BY DEF ReservedUnits

\* A reservation and its settlement freeze and unfreeze its units, and an
\* expired marker keeps them frozen.
LEMMA FrozenStep ==
    ASSUME TypeOK, OnePhase, \A u \in Users : FrozenOK(u), [Next]_vars
    PROVE  \A u \in Users : FrozenOK(u)'
<1>t. /\ frozen \in [Users -> Int] /\ precharge \in [Requests -> Nat]
      /\ lapsed \in [Requests -> Nat] /\ UserOf \in [Requests -> Users]
  BY Topology DEF TypeOK
<1>c. CASE UNCHANGED <<frozen, precharge, lapsed>>
  BY <1>c DEF FrozenOK, ReservedUnits
<1>1. ASSUME NEW r \in Requests, Expire(r), NEW u \in Users PROVE FrozenOK(u)'
  <2>1. /\ precharge' = [precharge EXCEPT ![r] = 0] /\ UNCHANGED frozen
        /\ lapsed' = [lapsed EXCEPT ![r] = precharge[r]] /\ lapsed[r] = 0
    BY <1>1 DEF Expire, OnePhase
  <2>2. \A q \in Requests : precharge'[q] + lapsed'[q] = precharge[q] + lapsed[q]
    BY <1>t, <2>1
  <2>3. ReservedUnits(u)' = ReservedUnits(u)
    BY <2>2 DEF ReservedUnits
  <2> QED BY <2>1, <2>3 DEF FrozenOK
<1>2. ASSUME NEW r \in Requests, NEW amount \in Estimates,
             Admit(r, amount) \/ RefuseAfterScript(r, amount), NEW u \in Users
      PROVE  FrozenOK(u)'
  <2>1. /\ precharge' = [precharge EXCEPT ![r] = amount] /\ UNCHANGED lapsed
        /\ frozen' = [frozen EXCEPT ![UserOf[r]] = @ + amount]
        /\ precharge[r] = 0 /\ lapsed[r] = 0 /\ amount \in Nat
    BY <1>2, InputTypes DEF Admit, RefuseAfterScript, PreChargeScript, history, OnePhase
  <2>2. \A q \in Requests \ {r} : precharge'[q] = precharge[q] /\ lapsed'[q] = lapsed[q]
    BY <1>t, <2>1
  <2>3. CASE UserOf[r] # u
    <3>1. ReservedUnits(u)' = ReservedUnits(u) /\ frozen'[u] = frozen[u]
      BY <1>t, <2>1, <2>2, <2>3, UnitsOfOthers
    <3> QED BY <3>1 DEF FrozenOK
  <2>4. CASE UserOf[r] = u
    <3>1. \A i : <<r, i>> \notin ReservedUnits(u)
      BY <1>t, <2>1 DEF ReservedUnits
    <3>2. ReservedUnits(u)' = ReservedUnits(u) \cup ({r} \X (1 .. amount))
      <4>1. precharge'[r] + lapsed'[r] = amount
        BY <1>t, <2>1
      <4>2. \A i : <<r, i>> \in ReservedUnits(u)' <=> i \in 1 .. amount
        BY <2>4, <4>1 DEF ReservedUnits
      <4>3. \A e \in ReservedUnits(u) \cup ReservedUnits(u)' : e = <<e[1], e[2]>>
        BY DEF ReservedUnits
      <4>4. \A q, i : q # r => (<<q, i>> \in ReservedUnits(u)' <=> <<q, i>> \in ReservedUnits(u))
        BY <2>2, UnitsOfOthers
      <4>5. PICK A, B : A = ReservedUnits(u)' /\ B = ReservedUnits(u)
        OBVIOUS
      <4>6. ASSUME NEW e \in A \cup B PROVE e \in A <=> e \in B \cup ({r} \X (1 .. amount))
        <5>1. PICK q, i : e = <<q, i>>
          BY <4>3, <4>5
        <5>2. CASE q = r
          BY <3>1, <4>2, <4>5, <5>1, <5>2
        <5>3. CASE q # r
          BY <4>4, <4>5, <5>1, <5>3
        <5> QED BY <5>2, <5>3
      <4>7. \A e \in {r} \X (1 .. amount) : e \in A
        BY <4>2, <4>5
      <4>8. A = B \cup ({r} \X (1 .. amount))
        BY <4>6, <4>7
      <4> QED BY <4>5, <4>8
    <3>3. frozen'[u] = frozen[u] + amount
      BY <1>t, <2>1, <2>4
    <3>4. PICK B : B = ReservedUnits(u)
      OBVIOUS
    <3>5. /\ IsFiniteSet(B \cup ({r} \X (1 .. amount)))
          /\ Cardinality(B \cup ({r} \X (1 .. amount))) = Cardinality(B) + amount
      <4>1. IsFiniteSet(B)
        BY <3>4 DEF FrozenOK
      <4>2. amount \in Nat /\ \A i : <<r, i>> \notin B
        BY <2>1, <3>1, <3>4
      <4> QED BY <4>1, <4>2, UnitsAddUp
    <3> QED BY <3>2, <3>3, <3>4, <3>5 DEF FrozenOK
  <2> QED BY <2>3, <2>4
<1>3. ASSUME NEW f \in Flushers, BatchSettle(f), NEW u \in Users PROVE FrozenOK(u)'
  <2> DEFINE r == Head(batch[f]).req
             charged == Charge(Head(batch[f]).order)
  <2>1. Head(batch[f]) \in Row
    BY <1>3 DEF BatchSettle, TypeOK
  <2>2. r \in Requests /\ charged \in Nat
    BY <2>1, ChargeType DEF Row
  <2>3. SettleScript(r, charged)
    BY <1>3 DEF BatchSettle
  <2> HIDE DEF r, charged
  <2>4. CASE ~(precharge[r] > 0)
    <3>1. UNCHANGED <<redis, history>>
      BY <2>2, <2>3, <2>4, SettleScriptNoMarker
    <3> QED BY <1>c, <3>1 DEF redis, history
  <2>5. CASE precharge[r] > 0
    <3>1. /\ precharge' = [precharge EXCEPT ![r] = 0] /\ UNCHANGED lapsed
          /\ frozen' = [frozen EXCEPT ![UserOf[r]] = @ - precharge[r]] /\ lapsed[r] = 0
      BY <2>2, <2>3, <2>5, SettleScriptEffect DEF OnePhase
    <3>2. PICK n \in Nat : n = precharge[r]
      BY <1>t, <2>2
    <3>3. \A q \in Requests \ {r} : precharge'[q] = precharge[q] /\ lapsed'[q] = lapsed[q]
      BY <1>t, <3>1
    <3>4. CASE UserOf[r] # u
      <4>1. ReservedUnits(u)' = ReservedUnits(u) /\ frozen'[u] = frozen[u]
        BY <1>t, <2>2, <3>1, <3>3, <3>4, UnitsOfOthers
      <4> QED BY <4>1 DEF FrozenOK
    <3>5. CASE UserOf[r] = u
      <4>1. \A i : <<r, i>> \notin ReservedUnits(u)'
        BY <1>t, <2>2, <3>1 DEF ReservedUnits
      <4>2. \A i : <<r, i>> \in ReservedUnits(u) <=> i \in 1 .. n
        BY <1>t, <2>2, <3>1, <3>2, <3>5 DEF ReservedUnits
      <4>3. \A e \in ReservedUnits(u) \cup ReservedUnits(u)' : e = <<e[1], e[2]>>
        BY DEF ReservedUnits
      <4>4. \A q, i : q # r => (<<q, i>> \in ReservedUnits(u)' <=> <<q, i>> \in ReservedUnits(u))
        BY <2>2, <3>3, UnitsOfOthers
      <4>5. PICK A, B : A = ReservedUnits(u)' /\ B = ReservedUnits(u)
        OBVIOUS
      <4>6. B = A \cup ({r} \X (1 .. n)) /\ A \subseteq B
        BY <4>1, <4>2, <4>3, <4>4, <4>5
      <4>7. IsFiniteSet(A) /\ Cardinality(A) \in Nat
        BY <4>5, <4>6, FS_Subset, FS_CardinalityType DEF FrozenOK
      <4>8. Cardinality(B) = Cardinality(A) + n
        <5>1. \A i : <<r, i>> \notin A
          BY <4>1, <4>5
        <5>2. Cardinality(A \cup ({r} \X (1 .. n))) = Cardinality(A) + n
          BY <4>7, <5>1, UnitsAddUp
        <5> QED BY <4>6, <5>2
      <4>9. frozen'[u] = frozen[u] - n /\ frozen[u] = Cardinality(B)
        BY <1>t, <3>1, <3>2, <3>5, <4>5 DEF FrozenOK
      <4>10. frozen'[u] = Cardinality(A)
        BY <4>7, <4>8, <4>9
      <4> QED BY <4>5, <4>7, <4>10 DEF FrozenOK
    <3> QED BY <3>4, <3>5
  <2> QED BY <2>4, <2>5
<1>4. CASE RedisNext
  BY <1>c, <1>1, <1>4 DEF RedisNext, TopUp
<1>5. CASE HandlerNext
  BY <1>c, <1>2, <1>5
  DEF HandlerNext, AdmissionNext, AdmitUnreserved, Refuse, Emit, StreamingUnsupported,
      redis, history
<1>6. CASE FlusherNext
  BY <1>c, <1>3, <1>6
  DEF FlusherNext, SignalFlush, WakeOnTrigger, WakeOnTick, TakeBatch, Insert, InsertError,
      BatchSettleError, redis, history
<1> QED
  BY <1>c, <1>4, <1>5, <1>6
  DEF Next, vars, redis, history, Handle, CallFlush, LoopExit, CloseDone, Crash

\* frozen:<user> is the sum of the user's reservations that are neither
\* settled nor forgotten, through lost replies, failed pipelines, crashes and
\* expired markers, for any number of requests.
THEOREM FrozenIsWhatIsReserved == Spec => []FrozenIsReserved
<1> DEFINE Frozen == \A u \in Users : FrozenOK(u)
<1>1. Init => Frozen
  <2> SUFFICES ASSUME Init, NEW u \in Users PROVE FrozenOK(u)
    OBVIOUS
  <2>1. ReservedUnits(u) = {} /\ frozen[u] = 0
    <3>1. \A r \in Requests : precharge[r] + lapsed[r] = 0
      BY DEF Init
    <3>2. \A r \in Requests : 1 .. precharge[r] + lapsed[r] = {}
      BY <3>1
    <3> QED BY <3>2 DEF Init, ReservedUnits
  <2> QED BY <2>1, FS_EmptySet DEF FrozenOK
<1>2. TypeOK /\ Provenance /\ Frozen /\ [Next]_vars => Frozen'
  BY FrozenStep DEF Provenance
<1>3. Frozen => FrozenIsReserved
  BY DEF FrozenOK, FrozenIsReserved
<1> QED BY <1>1, <1>2, <1>3, TypeCorrect, ProvenanceInvariant, PTL DEF Spec

-----------------------------------------------------------------------------
(* Settler.Close *)

\* Each step of Close is a step of the core in which no process dies.
LEMMA CloseCalmStep == [CloseNext]_closeVars => CalmStep
<1> SUFFICES ASSUME CloseNext PROVE CalmStep
  BY DEF closeVars, CalmStep
<1>1. CASE \/ (RedisNext \/ HandlerNext \/ FlusherNext) /\ UNCHANGED closerVars
           \/ \E f \in Flushers : LoopExit(f) /\ UNCHANGED closerVars
  BY <1>1 DEF CalmStep
<1>2. CASE \E r \in Requests : HandleThenClose(r)
  BY <1>2, CloseAssumption DEF HandleThenClose, CalmStep, CloseAssumption
<1>3. CASE StartClose
  BY <1>3, CloseAssumption DEF StartClose, CalmStep, CloseAssumption
<1>4. CASE CloseFlush
  <2>1. Closers(step) \in SUBSET (Flushers \ Loops)
    BY DEF Closers
  <2>2. CallFlush(Closers(step))
    BY <1>4 DEF CloseFlush
  <2> QED BY <2>1, <2>2 DEF CalmStep
<1>5. CASE Wait
  BY <1>5 DEF Wait, CalmStep
<1> QED
  BY <1>1, <1>2, <1>3, <1>4, <1>5 DEF CloseNext

\* Each step of Close is a step of the core, or leaves it alone.
LEMMA CloseStep == [CloseNext]_closeVars => [Next]_vars
BY CloseCalmStep DEF CalmStep, Next

\* Behaviours of a Settler that is closed are behaviours of the core.
LEMMA CloseImplementsSettlement == CloseSpec => ImplementsSettlement
<1>1. CloseInit => Init
  BY DEF CloseInit
<1> QED
  BY <1>1, CloseStep, PTL DEF CloseSpec, ImplementsSettlement, Spec

\* Where Close is, and what it has left behind: a row handed over is in its shard
\* or settled; a shard that was flushed is empty, or Close is about to take its
\* rows; no flush of Close but the last is still running.
CloseOK ==
    /\ step \in 0 .. N + 2
    /\ handed \subseteq Requests
    /\ \A r \in handed : InShard(ShardIndex[Worker][r], r) \/ SettledFor(r)
    /\ \A i \in 1 .. N : i < step =>
          \/ buf[ShardSeq[i]] = << >>
          \/ i = step - 1 /\ \E f \in Closers(i) : pc[f] = "woken"
    /\ \A f \in Flushers \ Loops : pc[f] # "idle" =>
          step \in 2 .. N + 1 /\ f \in Closers(step - 1)
    /\ ClosedIsDurable

\* What the other goroutines do to the shards Close flushes: they fill no buffer,
\* wake none of its flushes, and a flush it called ends with an empty buffer.
LEMMA OthersWhileClosing ==
    ASSUME TypeOK,
           RedisNext \/ HandlerNext \/ FlusherNext \/ \E f \in Flushers : LoopExit(f)
    PROVE  /\ \A k \in Shards : buf'[k] = buf[k] \/ buf'[k] = << >>
           /\ \A f \in Flushers \ Loops :
                 /\ pc[f] = "idle" => pc'[f] = "idle"
                 /\ pc[f] = "woken" => pc'[f] = "woken" \/ buf'[Of[f]] = << >>
<1>1. CASE UNCHANGED <<buf, pc>>
  BY <1>1
<1>2. CASE RedisNext \/ HandlerNext
  BY <1>1, <1>2
  DEF RedisNext, TopUp, Expire, HandlerNext, AdmissionNext, AdmitUnreserved, Admit, Refuse,
      RefuseAfterScript, Emit, StreamingUnsupported, shard, flusher
<1>3. ASSUME NEW g \in Flushers,
             \/ WakeOnTrigger(g) \/ WakeOnTick(g) \/ LoopExit(g)
             \/ Insert(g) \/ BatchSettle(g) \/ BatchSettleError(g)
             \/ \E stores \in SUBSET Stores : InsertError(g, stores)
      PROVE  /\ buf' = buf
             /\ \A f \in Flushers \ Loops :
                   /\ pc[f] = "idle" => pc'[f] = "idle"
                   /\ pc[f] = "woken" => pc'[f] = "woken"
  <2>1. buf' = buf
    BY <1>3
    DEF WakeOnTrigger, WakeOnTick, LoopExit, Insert, BatchSettle, BatchSettleError,
        InsertError, shard
  <2>2. \A f \in Flushers : f # g => pc'[f] = pc[f]
    BY <1>3
    DEF WakeOnTrigger, WakeOnTick, LoopExit, Insert, BatchSettle, BatchSettleError,
        InsertError, TypeOK
  <2>3. g \in Loops \/ pc[g] \in {"insert", "settle"}
    BY <1>3
    DEF WakeOnTrigger, WakeOnTick, LoopExit, Insert, BatchSettle, BatchSettleError,
        InsertError
  <2> QED BY <2>1, <2>2, <2>3
<1>4. ASSUME NEW g \in Flushers, TakeBatch(g)
      PROVE  /\ \A k \in Shards : buf'[k] = buf[k] \/ buf'[k] = << >>
             /\ \A f \in Flushers \ Loops :
                   /\ pc[f] = "idle" => pc'[f] = "idle"
                   /\ pc[f] = "woken" => pc'[f] = "woken" \/ buf'[Of[f]] = << >>
  BY <1>4, Topology DEF TakeBatch, TypeOK
<1> QED
  BY <1>1, <1>2, <1>3, <1>4 DEF FlusherNext, SignalFlush, flusher

\* Close calls a flush on every shard of its Settler.
LEMMA EveryShardIsFlushed ==
    /\ Worker \in Procs /\ N \in Nat
    /\ \A i \in 1 .. N : ShardSeq[i] \in Shards /\ Closers(i) # {}
    /\ \A r \in Requests :
          /\ ShardIndex[Worker][r] \in Shards
          /\ ProcOf[ShardIndex[Worker][r]] = Worker
          /\ \E i \in 1 .. N : ShardSeq[i] = ShardIndex[Worker][r]
<1>1. Worker \in Procs /\ ShardSeq \in Seq(Shards) /\ N \in Nat /\ DOMAIN ShardSeq = 1 .. N
  BY CloseAssumption DEF CloseAssumption, N
<1>2. ASSUME NEW i \in 1 .. N PROVE ShardSeq[i] \in Shards /\ Closers(i) # {}
  <2>1. ShardSeq[i] \in Shards /\ ProcOf[ShardSeq[i]] = Worker
    BY <1>1, CloseAssumption DEF CloseAssumption
  <2>2. \E f \in Flushers \ Loops : Of[f] = ShardSeq[i]
    BY <2>1, CloseAssumption DEF CloseAssumption
  <2> QED BY <2>1, <2>2 DEF Closers
<1>3. ASSUME NEW r \in Requests
      PROVE  /\ ShardIndex[Worker][r] \in Shards
             /\ ProcOf[ShardIndex[Worker][r]] = Worker
             /\ \E i \in 1 .. N : ShardSeq[i] = ShardIndex[Worker][r]
  <2>1. ShardIndex[Worker][r] \in Shards /\ ProcOf[ShardIndex[Worker][r]] = Worker
    BY <1>1, Topology, ConstantsAssumption DEF ConstantsAssumption
  <2> QED BY <1>1, <2>1, CloseAssumption DEF CloseAssumption
<1> QED BY <1>1, <1>2, <1>3

\* When wg.Wait returns, the shards of the Settler are empty: its loops have
\* exited, its own flushes have returned, and each of them emptied its buffer.
LEMMA WaitFindsNothing ==
    ASSUME RestingIsEmpty, CloseOK, Wait, NEW r \in Requests
    PROVE  ~InShard(ShardIndex[Worker][r], r)
<1> DEFINE k == ShardIndex[Worker][r]
<1>1. PICK i \in 1 .. N : ShardSeq[i] = k
  BY EveryShardIsFlushed
<1>2. step = N + 1 /\ N \in Nat
  BY EveryShardIsFlushed DEF Wait
<1>3. \A f \in Closers(N) : pc[f] = "idle"
  BY DEF Wait
<1>4. buf[k] = << >>
  <2>1. CASE i = N
    BY <1>1, <1>2, <1>3, <2>1 DEF CloseOK
  <2>2. CASE i # N
    BY <1>1, <1>2, <2>2 DEF CloseOK
  <2> QED BY <2>1, <2>2
<1>5. ASSUME NEW f \in Flushers, Of[f] = k PROVE batch[f] = << >>
  <2>1. CASE f \in Loops
    <3>1. f \in WorkerLoops
      BY <1>5, <2>1, EveryShardIsFlushed DEF WorkerLoops
    <3> QED BY <3>1 DEF Wait, RestingIsEmpty
  <2>2. CASE f \notin Loops
    <3>1. pc[f] = "idle"
      <4>1. pc[f] # "idle" => f \in Closers(N)
        BY <1>2, <2>2 DEF CloseOK
      <4> QED BY <1>3, <4>1
    <3> QED BY <3>1 DEF RestingIsEmpty
  <2> QED BY <2>1, <2>2
<1> HIDE DEF k
<1>6. ~InShard(k, r)
  BY <1>4, <1>5 DEF InShard, In
<1> QED BY <1>6 DEF k

\* Close starts with nothing handed over and no flush called.
LEMMA CloseOKInit == CloseInit => CloseOK
BY EveryShardIsFlushed DEF CloseInit, Init, CloseOK, ClosedIsDurable, Closed

\* Every step of Close, of its caller and of the goroutines it races keeps its account.
LEMMA CloseOKStep ==
    ASSUME TypeOK, Provenance, RestingIsEmpty, CloseOK, [CloseNext]_closeVars,
           "insert" \notin Faults, "redis" \notin Faults
    PROVE  CloseOK'
<1>0. CalmStep /\ [Next]_vars /\ N \in Nat
  BY CloseCalmStep, CloseStep, EveryShardIsFlushed
<1>1. ASSUME NEW r \in handed, SettledFor(r) PROVE SettledFor(r)'
  BY <1>0, <1>1, SettledStays DEF Provenance, CloseOK
<1>2. ASSUME NEW r \in handed
      PROVE  InShard(ShardIndex[Worker][r], r)' \/ SettledFor(r)'
  <2>1. r \in Requests /\ ShardIndex[Worker][r] \in Shards
    BY EveryShardIsFlushed DEF CloseOK
  <2>2. PICK k \in Shards : k = ShardIndex[Worker][r]
    BY <2>1
  <2>3. InShard(k, r) \/ SettledFor(r)
    BY <2>2 DEF CloseOK
  <2>4. InShard(k, r) => InShard(k, r)' \/ SettledFor(r)'
    BY <1>0, <2>1, RowLeavesSettled DEF Provenance, SettledFor
  <2> QED BY <1>1, <2>2, <2>3, <2>4
<1>3. ClosedIsDurable /\ UNCHANGED closerVars => ClosedIsDurable'
  BY <1>1 DEF ClosedIsDurable, Closed, SettledFor, closerVars
<1>4. CASE UNCHANGED <<buf, pc, step, handed>>
  BY <1>2, <1>3, <1>4 DEF CloseOK, closerVars
<1>5. CASE /\ RedisNext \/ HandlerNext \/ FlusherNext \/ \E f \in Flushers : LoopExit(f)
           /\ UNCHANGED closerVars
  <2>1. step' = step /\ handed' = handed
    BY <1>5 DEF closerVars
  <2>2. ASSUME NEW i \in 1 .. N, i < step
        PROVE  \/ buf'[ShardSeq[i]] = << >>
               \/ i = step - 1 /\ \E f \in Closers(i) : pc'[f] = "woken"
    <3>1. ShardSeq[i] \in Shards
      BY EveryShardIsFlushed
    <3>2. CASE buf[ShardSeq[i]] = << >>
      BY <1>5, <3>1, <3>2, OthersWhileClosing
    <3>3. ASSUME i = step - 1, NEW f \in Closers(i), pc[f] = "woken"
          PROVE  pc'[f] = "woken" \/ buf'[ShardSeq[i]] = << >>
      BY <1>5, <3>3, OthersWhileClosing DEF Closers
    <3> QED BY <2>2, <3>2, <3>3 DEF CloseOK
  <2>3. ASSUME NEW f \in Flushers \ Loops, pc'[f] # "idle"
        PROVE  step \in 2 .. N + 1 /\ f \in Closers(step - 1)
    BY <1>5, <2>3, OthersWhileClosing DEF CloseOK
  <2>4. ClosedIsDurable'
    BY <1>3, <1>5 DEF CloseOK
  <2> QED BY <1>2, <2>1, <2>2, <2>3, <2>4 DEF CloseOK, Closers
<1>6. ASSUME NEW r \in Requests, HandleThenClose(r) PROVE CloseOK'
  <2> DEFINE k == ShardIndex[Worker][r]
             row == [req |-> r, order |-> OrderFromEvent(event[r])]
  <2>1. /\ step = 0 /\ step' = 0 /\ handed' = handed \cup {r}
        /\ buf' = [buf EXCEPT ![k] = Append(buf[k], row)] /\ pc' = pc /\ row.req = r
    BY <1>6 DEF HandleThenClose, Handle, flusher
  <2>2. k \in Shards /\ buf[k] \in Seq(Row) /\ buf'[k] = Append(buf[k], row)
    BY <2>1, EveryShardIsFlushed DEF TypeOK
  <2>3. In(buf'[k], r)
    <3> HIDE DEF k, row
    <3>1. Len(buf[k]) + 1 \in DOMAIN buf'[k] /\ buf'[k][Len(buf[k]) + 1] = row
      BY <2>2
    <3> QED BY <2>1, <3>1 DEF In
  <2>4. InShard(ShardIndex[Worker][r], r)'
    BY <2>3 DEF InShard, In
  <2>5. \A q \in handed' : InShard(ShardIndex[Worker][q], q)' \/ SettledFor(q)'
    BY <1>2, <2>1, <2>4
  <2>6. ClosedIsDurable'
    BY <1>0, <2>1 DEF ClosedIsDurable, Closed
  <2>7. \A f \in Flushers \ Loops : pc'[f] = "idle"
    BY <2>1 DEF CloseOK
  <2>8. handed' \subseteq Requests /\ step' \in 0 .. N + 2
    BY <1>0, <2>1 DEF CloseOK
  <2>9. \A i \in 1 .. N : ~(i < step')
    BY <1>0, <2>1
  <2> QED BY <2>5, <2>6, <2>7, <2>8, <2>9 DEF CloseOK
<1>7. CASE StartClose
  <2>1. step = 0 /\ step' = 1 /\ UNCHANGED <<handed, buf, pc>>
    BY <1>7 DEF StartClose, CloseDone, flusher
  <2>2. \A f \in Flushers \ Loops : pc'[f] = "idle"
    BY <2>1 DEF CloseOK
  <2>3. ClosedIsDurable' /\ step' \in 0 .. N + 2
    BY <1>0, <2>1 DEF ClosedIsDurable, Closed
  <2>4. \A i \in 1 .. N : ~(i < step')
    BY <1>0, <2>1
  <2> QED BY <1>2, <2>1, <2>2, <2>3, <2>4 DEF CloseOK
<1>8. CASE CloseFlush
  <2>1. /\ step \in 1 .. N /\ step' = step + 1 /\ handed' = handed /\ buf' = buf
        /\ \A f \in Closers(step) : pc[f] = "idle"
        /\ step > 1 => \A f \in Closers(step - 1) : pc[f] = "idle"
        /\ pc' = [f \in Flushers |-> IF f \in Closers(step) THEN "woken" ELSE pc[f]]
    BY <1>8 DEF CloseFlush, CallFlush, shard
  <2>2. ASSUME NEW i \in 1 .. N, i < step'
        PROVE  \/ buf'[ShardSeq[i]] = << >>
               \/ i = step' - 1 /\ \E f \in Closers(i) : pc'[f] = "woken"
    <3>1. CASE i = step
      <4>1. PICK f \in Closers(i) : TRUE
        BY EveryShardIsFlushed
      <4>2. pc'[f] = "woken"
        BY <2>1, <3>1 DEF Closers
      <4> QED BY <1>0, <2>1, <3>1, <4>2
    <3>2. CASE i < step
      <4>1. buf[ShardSeq[i]] = << >>
        BY <2>1, <3>2 DEF CloseOK
      <4> QED BY <2>1, <4>1
    <3> QED BY <1>0, <2>1, <2>2, <3>1, <3>2
  <2>3. ASSUME NEW f \in Flushers \ Loops, pc'[f] # "idle"
        PROVE  step' \in 2 .. N + 1 /\ f \in Closers(step' - 1)
    <3>1. f \in Closers(step)
      <4>1. CASE f \notin Closers(step)
        <5>1. pc'[f] = pc[f]
          BY <2>1, <4>1
        <5>2. step \in 2 .. N + 1 /\ f \in Closers(step - 1)
          BY <2>3, <5>1 DEF CloseOK
        <5>3. step > 1
          BY <1>0, <5>2
        <5> QED BY <2>1, <2>3, <5>1, <5>2, <5>3
      <4> QED BY <4>1
    <3>2. step' - 1 = step
      BY <1>0, <2>1
    <3> QED BY <1>0, <2>1, <3>1, <3>2
  <2>4. ClosedIsDurable' /\ step' \in 0 .. N + 2
    BY <1>0, <2>1 DEF ClosedIsDurable, Closed
  <2> QED BY <1>2, <2>1, <2>2, <2>3, <2>4 DEF CloseOK, Closers
<1>9. CASE Wait
  <2>1. step = N + 1 /\ step' = N + 2 /\ UNCHANGED <<vars, handed>>
    BY <1>0, <1>9 DEF Wait
  <2>2. UNCHANGED <<buf, pc, batch, orders, precharge>>
    BY <2>1 DEF vars, shard, flusher, redis
  <2>3. ASSUME NEW f \in Flushers \ Loops PROVE pc'[f] = "idle"
    <3>1. pc[f] # "idle" => f \in Closers(N)
      BY <1>0, <2>1 DEF CloseOK
    <3> QED BY <1>9, <2>2, <3>1 DEF Wait
  <2>4. ASSUME NEW i \in 1 .. N PROVE buf'[ShardSeq[i]] = << >>
    <3>1. i < step
      BY <1>0, <2>1
    <3>2. \A f \in Flushers \ Loops : pc[f] = "idle"
      BY <2>2, <2>3
    <3> QED BY <2>2, <3>1, <3>2 DEF CloseOK, Closers
  <2>5. \A r \in handed : SettledFor(r)
    BY <1>9, WaitFindsNothing DEF CloseOK
  <2>6. ClosedIsDurable'
    BY <2>1, <2>2, <2>5 DEF ClosedIsDurable, SettledFor
  <2>7. step' \in 0 .. N + 2
    BY <1>0, <2>1
  <2> QED BY <1>2, <2>1, <2>3, <2>4, <2>6, <2>7 DEF CloseOK
<1> QED
  BY <1>4, <1>5, <1>6, <1>7, <1>8, <1>9
  DEF CloseNext, closeVars, closerVars, vars, shard, flusher

\* Once Close has returned, every event that was handed over is an order and its
\* reservation is released, for any number of shards and events and whatever the
\* flushLoops were doing when Close began, as long as no insert and no Redis
\* pipeline fails.
THEOREM ClosingSettlesAll ==
    ASSUME "insert" \notin Faults, "redis" \notin Faults
    PROVE  CloseSpec => []ClosedIsDurable
<1>1. CloseSpec => [](TypeOK /\ Provenance /\ RestingIsEmpty)
  <2>1. Spec => []RestingIsEmpty
    BY RestingInit, RestingStep, TypeCorrect, PTL DEF Spec
  <2> QED
    BY <2>1, CloseImplementsSettlement, TypeCorrect, ProvenanceInvariant, PTL
    DEF ImplementsSettlement
<1>2. TypeOK /\ Provenance /\ RestingIsEmpty /\ CloseOK /\ [CloseNext]_closeVars => CloseOK'
  BY CloseOKStep
<1>3. CloseOK => ClosedIsDurable
  BY DEF CloseOK
<1> QED BY <1>1, <1>2, <1>3, CloseOKInit, PTL DEF CloseSpec
=============================================================================
