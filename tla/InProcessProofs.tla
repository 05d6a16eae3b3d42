--------------------------- MODULE InProcessProofs ----------------------------
(***************************************************************************)
(* The single-node deployment implements the billing core, so every        *)
(* theorem about Settlement holds of it, for every capacity of the channel.*)
(* Events are handed over and never copied.                                *)
(***************************************************************************)
EXTENDS InProcess, SettlementProvenance, FiniteSetTheorems

\* Most leaves are first-order reasoning: Zenon is tried before the SMT solver.
USE ZenonT(10), SMTT(30)

\* The bounded channel of a process.
SinkBounded ==
    /\ sink \in [Procs -> Seq(Requests)]
    /\ \A p \in Procs : Len(sink[p]) <= SinkCap
    /\ closing \in [Procs -> {"no", "draining", "drained"}]
    /\ dropped \in SUBSET Requests

\* The channels start empty.
LEMMA SinkBoundedInit == SinkInit => SinkBounded
BY SinkAssumption DEF SinkInit, SinkBounded

\* Emit drops when the channel is full, and only handlers send: the channel
\* never holds more than its capacity.
LEMMA SinkBoundedStep == SinkBounded /\ [SinkNext]_allVars => SinkBounded'
<1> SUFFICES ASSUME SinkBounded, [SinkNext]_allVars PROVE SinkBounded'
  OBVIOUS
<1>1. CASE UNCHANGED sinkVars
  BY <1>1 DEF SinkBounded, sinkVars
<1>2. ASSUME NEW r \in Requests, NEW ev \in Event, SinkEmit(r, ev)
      PROVE  SinkBounded'
  <2>1. Home[r] \in Procs
    BY ConstantsAssumption DEF ConstantsAssumption
  <2>2. CASE Len(sink[Home[r]]) < SinkCap
    <3>1. sink[Home[r]] \in Seq(Requests)
      BY <2>1 DEF SinkBounded
    <3>2. /\ Append(sink[Home[r]], r) \in Seq(Requests)
          /\ Len(Append(sink[Home[r]], r)) = Len(sink[Home[r]]) + 1
      BY <3>1
    <3>3. Len(Append(sink[Home[r]], r)) <= SinkCap
      BY <2>2, <3>1, <3>2, SinkAssumption DEF SinkAssumption
    <3>4. /\ sink' = [sink EXCEPT ![Home[r]] = Append(sink[Home[r]], r)]
          /\ UNCHANGED <<dropped, closing>>
      BY <1>2, <2>2 DEF SinkEmit
    <3> QED BY <2>1, <3>2, <3>3, <3>4 DEF SinkBounded
  <2>3. CASE ~(Len(sink[Home[r]]) < SinkCap)
    BY <1>2, <2>3 DEF SinkEmit, SinkBounded
  <2> QED BY <2>2, <2>3
<1>3. ASSUME NEW p \in Procs, SinkHandle(p)
      PROVE  SinkBounded'
  <2>1. sink[p] \in Seq(Requests) /\ sink[p] # << >>
    BY <1>3 DEF SinkHandle, SinkBounded
  <2>2. Tail(sink[p]) \in Seq(Requests) /\ Len(Tail(sink[p])) <= Len(sink[p])
    BY <2>1
  <2> QED
    BY <1>3, <2>2, SinkAssumption DEF SinkHandle, SinkBounded, SinkAssumption
<1>4. ASSUME NEW p \in Procs, SinkClose(p) \/ SinkDrained(p)
      PROVE  SinkBounded'
  BY <1>4 DEF SinkClose, SinkDrained, SinkBounded
<1>5. ASSUME NEW p \in Procs, ProcessEnds(p)
      PROVE  SinkBounded'
  BY <1>5, SinkAssumption DEF ProcessEnds, SinkBounded, SinkAssumption
<1> QED
  BY <1>1, <1>2, <1>3, <1>4, <1>5 DEF SinkNext, allVars, sinkVars

\* Each step of the channel sink is a step of the core, or leaves it alone.
LEMMA SinkStep == SinkBounded /\ [SinkNext]_allVars => [Next]_vars
<1> SUFFICES ASSUME SinkBounded, SinkNext PROVE [Next]_vars
  BY DEF allVars
<1>1. CASE (RedisNext \/ AdmissionNext \/ FlusherNext) /\ UNCHANGED sinkVars
  BY <1>1 DEF Next, HandlerNext
<1>2. CASE \E r \in Requests, ev \in Event : SinkEmit(r, ev)
  BY <1>2 DEF SinkEmit, Next, HandlerNext
<1>3. ASSUME NEW p \in Procs, SinkHandle(p)
      PROVE  [Next]_vars
  <2>1. sink[p] \in Seq(Requests) /\ sink[p] # << >>
    BY <1>3 DEF SinkHandle, SinkBounded
  <2>2. Head(sink[p]) \in Requests
    BY <2>1
  <2> QED
    BY <1>3, <2>2 DEF SinkHandle, Next
<1>4. CASE \E p \in Procs : SinkClose(p) \/ SinkDrained(p) \/ ProcessEnds(p)
  BY <1>4 DEF SinkClose, SinkDrained, ProcessEnds, Next
<1> QED
  BY <1>1, <1>2, <1>3, <1>4 DEF SinkNext

\* The channel between the handlers and the Settler, with its drops, its
\* drain on Close and its loss on a crash, implements the billing core.
THEOREM SinkImplementsSettlement == SinkSpec => ImplementsSettlement
<1>1. SinkInit => Init
  BY DEF SinkInit
<1> QED
  BY <1>1, SinkBoundedInit, SinkBoundedStep, SinkStep, PTL
  DEF SinkSpec, ImplementsSettlement, Spec

\* The type invariant of the deployment: that of the core, and a channel that
\* never holds more events than its capacity.
THEOREM SinkTypeCorrect == SinkSpec => []SinkTypeOK
<1>1. TypeOK /\ SinkBounded => SinkTypeOK
  BY DEF SinkBounded, SinkTypeOK
<1> QED
  BY <1>1, SinkBoundedInit, SinkBoundedStep, SinkImplementsSettlement, TypeCorrect, PTL
  DEF SinkSpec, ImplementsSettlement

\* A user of the single-node gateway sees ChargeOnce: one reservation, at most
\* one capture, of the billed amount.
THEOREM SinkChargesOnce == SinkSpec => ImplementsChargeOnce
BY SinkImplementsSettlement, SettlementImplementsChargeOnce, PTL DEF ImplementsSettlement

-----------------------------------------------------------------------------
(* One copy *)

\* The places a request's event may be in.
SinkAt(r, p, i)  == p \in Procs /\ i \in DOMAIN sink[p] /\ sink[p][i] = r
BufAt(r, k, i)   == k \in Shards /\ i \in DOMAIN buf[k] /\ buf[k][i].req = r
TakenAt(r, f, i) == f \in Flushers /\ i \in DOMAIN batch[f] /\ batch[f][i].req = r

Somewhere(r) ==
    \E o, i : SinkAt(r, o, i) \/ BufAt(r, o, i) \/ TakenAt(r, o, i)

\* No two places hold the same event.
OnePlace(r) ==
    /\ \A o, i, q, j : SinkAt(r, o, i) /\ SinkAt(r, q, j) => o = q /\ i = j
    /\ \A o, i, q, j : BufAt(r, o, i) /\ BufAt(r, q, j) => o = q /\ i = j
    /\ \A o, i, q, j : TakenAt(r, o, i) /\ TakenAt(r, q, j) => o = q /\ i = j
    /\ (\E o, i : SinkAt(r, o, i)) => ~\E q, j : BufAt(r, q, j) \/ TakenAt(r, q, j)
    /\ (\E o, i : BufAt(r, o, i)) => ~\E q, j : TakenAt(r, q, j)

\* An event has no place before it is emitted, and one at most after it.
NoTwoPlaces ==
    \A r \in Requests :
        /\ OnePlace(r)
        /\ stage[r] # "served" => ~Somewhere(r)

\* The processes start with no event anywhere.
LEMMA NoTwoPlacesInit == SinkInit => NoTwoPlaces
BY DEF SinkInit, Init, NoTwoPlaces, OnePlace, Somewhere, SinkAt, BufAt, TakenAt

\* Steps that only remove copies: a failed insert or pipeline, the end of a process.
LEMMA RemovingKeepsOne ==
    ASSUME NoTwoPlaces, NEW r \in Requests,
           stage[r] = "served" => stage'[r] = "served",
           \A o, i : /\ SinkAt(r, o, i)' => SinkAt(r, o, i)
                     /\ BufAt(r, o, i)' => BufAt(r, o, i)
                     /\ TakenAt(r, o, i)' => TakenAt(r, o, i)
    PROVE  OnePlace(r)' /\ (stage'[r] # "served" => ~Somewhere(r)')
<1>1. OnePlace(r) /\ (stage[r] # "served" => ~Somewhere(r))
  BY DEF NoTwoPlaces
<1>2. Somewhere(r)' => Somewhere(r)
  BY DEF Somewhere
<1>3. OnePlace(r)'
  BY <1>1 DEF OnePlace
<1> QED BY <1>1, <1>2, <1>3

\* Emit puts one copy of an event that had none into the channel.
LEMMA EmitPlaces ==
    ASSUME SinkBounded, NoTwoPlaces, TypeOK,
           NEW e \in Requests, NEW ev \in Event, SinkEmit(e, ev), NEW r \in Requests
    PROVE  OnePlace(r)' /\ (stage'[r] # "served" => ~Somewhere(r)')
<1> DEFINE p == Home[e]
<1>1. /\ UNCHANGED <<buf, batch>> /\ stage' = [stage EXCEPT ![e] = "served"]
      /\ stage[e] = "admitted"
      /\ sink' = sink \/ sink' = [sink EXCEPT ![p] = Append(sink[p], e)]
  BY DEF SinkEmit, Emit, shard, flusher
<1>2. p \in Procs /\ sink[p] \in Seq(Requests)
  BY ConstantsAssumption DEF ConstantsAssumption, SinkBounded
<1> HIDE DEF p
<1>3. \A o, i : /\ BufAt(r, o, i)' <=> BufAt(r, o, i)
                /\ TakenAt(r, o, i)' <=> TakenAt(r, o, i)
  BY <1>1 DEF BufAt, TakenAt
<1>4. ASSUME NEW o, NEW i, SinkAt(r, o, i)'
      PROVE  SinkAt(r, o, i) \/ (o = p /\ i = Len(sink[p]) + 1 /\ r = e)
  <2>1. CASE sink' = sink
    BY <1>4, <2>1 DEF SinkAt
  <2>2. CASE sink' = [sink EXCEPT ![p] = Append(sink[p], e)]
    <3>1. CASE o = p
      <4>1. sink'[o] = Append(sink[p], e)
        BY <1>2, <2>2, <3>1 DEF SinkBounded
      <4>2. i \in 1 .. Len(sink[p]) + 1 /\ Append(sink[p], e)[i] = r
        BY <1>2, <1>4, <4>1 DEF SinkAt
      <4> QED BY <1>2, <3>1, <4>2 DEF SinkAt
    <3>2. CASE o # p
      BY <1>4, <2>2, <3>2 DEF SinkAt, SinkBounded
    <3> QED BY <3>1, <3>2
  <2> QED BY <1>1, <2>1, <2>2
<1>5. stage[r] = "served" => stage'[r] = "served"
  BY <1>1 DEF TypeOK
<1>6. CASE r # e
  BY <1>3, <1>4, <1>5, <1>6, RemovingKeepsOne
<1>7. CASE r = e
  <2>1. ~Somewhere(r)
    BY <1>1, <1>7 DEF NoTwoPlaces
  <2>2. \A o, i : ~SinkAt(r, o, i) /\ ~BufAt(r, o, i) /\ ~TakenAt(r, o, i)
    BY <2>1 DEF Somewhere
  <2>3. OnePlace(r)'
    BY <1>3, <1>4, <2>2 DEF OnePlace
  <2> QED BY <1>1, <1>7, <2>3 DEF TypeOK
<1> QED BY <1>6, <1>7

\* loop, or the drain, moves the first event of the channel into a shard's buffer.
LEMMA HandlePlaces ==
    ASSUME SinkBounded, NoTwoPlaces, TypeOK, NEW p \in Procs, SinkHandle(p), NEW r \in Requests
    PROVE  /\ OnePlace(r)' /\ (stage'[r] # "served" => ~Somewhere(r)')
           /\ Somewhere(r) => Somewhere(r)'
<1> DEFINE e == Head(sink[p])
           k == ShardIndex[p][e]
           row == [req |-> e, order |-> OrderFromEvent(event[e])]
<1>1. /\ sink[p] \in Seq(Requests) /\ sink[p] # << >> /\ e \in Requests
      /\ e = sink[p][1] /\ 1 \in DOMAIN sink[p]
  BY DEF SinkHandle, SinkBounded
<1>2. /\ sink' = [sink EXCEPT ![p] = Tail(sink[p])]
      /\ buf' = [buf EXCEPT ![k] = Append(buf[k], row)] /\ row.req = e
      /\ UNCHANGED <<batch, stage>>
  BY DEF SinkHandle, Handle, flusher, handler
<1> HIDE DEF e, row
<1>3. k \in Shards /\ buf[k] \in Seq(Row)
  <2>1. k \in Shards
    BY <1>1, Topology
  <2> QED BY <2>1 DEF TypeOK
<1> HIDE DEF k
<1>4. \A o, i : TakenAt(r, o, i)' <=> TakenAt(r, o, i)
  BY <1>2 DEF TakenAt
<1>5. ASSUME NEW o, NEW i
      PROVE  BufAt(r, o, i)' <=> \/ BufAt(r, o, i)
                                 \/ o = k /\ i = Len(buf[k]) + 1 /\ r = e
  <2>1. CASE o = k
    <3>1. buf'[o] = Append(buf[k], row)
      BY <1>2, <1>3, <2>1 DEF TypeOK
    <3>2. /\ DOMAIN buf'[o] = 1 .. Len(buf[k]) + 1 /\ DOMAIN buf[k] = 1 .. Len(buf[k])
          /\ \A j \in DOMAIN buf[k] : buf'[o][j] = buf[k][j]
          /\ buf'[o][Len(buf[k]) + 1] = row
          /\ Len(buf[k]) \in Nat
      BY <1>3, <3>1
    <3> QED BY <1>2, <1>3, <2>1, <3>2 DEF BufAt
  <2>2. CASE o # k
    BY <1>2, <2>2 DEF BufAt, TypeOK
  <2> QED BY <2>1, <2>2
<1>6. ASSUME NEW o, NEW i
      PROVE  SinkAt(r, o, i)' <=> \/ o # p /\ SinkAt(r, o, i)
                                  \/ o = p /\ i \in Nat /\ i >= 1 /\ SinkAt(r, p, i + 1)
  <2>1. CASE o = p
    <3>1. sink'[o] = Tail(sink[p])
      BY <1>2, <2>1 DEF SinkBounded
    <3>2. /\ DOMAIN sink'[o] = 1 .. Len(sink[p]) - 1 /\ DOMAIN sink[p] = 1 .. Len(sink[p])
          /\ Len(sink[p]) \in Nat
          /\ \A j \in 1 .. Len(sink[p]) - 1 : sink'[o][j] = sink[p][j + 1]
      BY <1>1, <3>1
    <3> QED BY <2>1, <3>2 DEF SinkAt
  <2>2. CASE o # p
    BY <1>2, <2>2 DEF SinkAt, SinkBounded
  <2> QED BY <2>1, <2>2
<1>7. SinkAt(e, p, 1)
  BY <1>1 DEF SinkAt
<1>8. OnePlace(r) /\ (stage[r] # "served" => ~Somewhere(r))
  BY DEF NoTwoPlaces
<1>9. \A o, i : SinkAt(r, o, i) => i \in Nat /\ i >= 1
  BY DEF SinkAt, SinkBounded
<1>10. OnePlace(r)'
  <2>1. ASSUME NEW o, NEW i, NEW q, NEW j, SinkAt(r, o, i)', SinkAt(r, q, j)'
        PROVE  o = q /\ i = j
    <3>1. PICK n, m : /\ SinkAt(r, o, n) /\ SinkAt(r, q, m)
                      /\ n = IF o = p THEN i + 1 ELSE i
                      /\ m = IF q = p THEN j + 1 ELSE j
                      /\ o = p => i \in Nat
                      /\ q = p => j \in Nat
      BY <1>6, <2>1
    <3>2. o = q /\ n = m
      BY <1>8, <3>1 DEF OnePlace
    <3> QED BY <3>1, <3>2
  <2>2. r = e => \A o, i : ~BufAt(r, o, i) /\ ~TakenAt(r, o, i)
    BY <1>7, <1>8 DEF OnePlace
  <2>3. r = e => \A o, i : ~SinkAt(r, o, i)'
    <3>1. ASSUME r = e, NEW o, NEW i, SinkAt(r, o, i)' PROVE FALSE
      <4>1. CASE o # p
        <5>1. SinkAt(r, o, i) /\ SinkAt(r, p, 1)
          BY <1>6, <1>7, <3>1, <4>1
        <5> QED BY <1>8, <4>1, <5>1 DEF OnePlace
      <4>2. CASE o = p
        <5>1. SinkAt(r, p, i + 1) /\ SinkAt(r, p, 1) /\ i \in Nat /\ i >= 1
          BY <1>6, <1>7, <3>1, <4>2
        <5>2. i + 1 = 1
          BY <1>8, <5>1 DEF OnePlace
        <5> QED BY <5>1, <5>2
      <4> QED BY <4>1, <4>2
    <3> QED BY <3>1
  <2>4. \A o, i, q, j : BufAt(r, o, i)' /\ BufAt(r, q, j)' => o = q /\ i = j
    <3>1. CASE r = e
      BY <1>5, <2>2, <3>1
    <3>2. CASE r # e
      BY <1>5, <1>8, <3>2 DEF OnePlace
    <3> QED BY <3>1, <3>2
  <2>5. \A o, i, q, j : TakenAt(r, o, i)' /\ TakenAt(r, q, j)' => o = q /\ i = j
    BY <1>4, <1>8 DEF OnePlace
  <2>6. (\E o, i : SinkAt(r, o, i)') => ~\E q, j : BufAt(r, q, j)' \/ TakenAt(r, q, j)'
    <3>1. (\E o, i : SinkAt(r, o, i)') => \E o, i : SinkAt(r, o, i)
      BY <1>6
    <3>2. CASE r = e
      BY <2>3, <3>2
    <3>3. CASE r # e
      BY <1>4, <1>5, <1>8, <3>1, <3>3 DEF OnePlace
    <3> QED BY <3>2, <3>3
  <2>7. (\E o, i : BufAt(r, o, i)') => ~\E q, j : TakenAt(r, q, j)'
    <3>1. CASE r = e
      BY <1>4, <2>2, <3>1
    <3>2. CASE r # e
      BY <1>4, <1>5, <1>8, <3>2 DEF OnePlace
    <3> QED BY <3>1, <3>2
  <2> QED BY <2>1, <2>4, <2>5, <2>6, <2>7 DEF OnePlace
<1>11. Somewhere(r)' => Somewhere(r)
  BY <1>4, <1>5, <1>6, <1>7 DEF Somewhere
<1>12. Somewhere(r) => Somewhere(r)'
  <2>1. ASSUME NEW o, NEW i, SinkAt(r, o, i) PROVE Somewhere(r)'
    <3>1. CASE o # p
      BY <1>6, <2>1, <3>1 DEF Somewhere
    <3>2. CASE o = p /\ i = 1
      <4>1. r = e
        BY <1>1, <2>1, <3>2 DEF SinkAt
      <4> QED BY <1>5, <4>1 DEF Somewhere
    <3>3. CASE o = p /\ i # 1
      <4>1. i - 1 \in Nat /\ i - 1 >= 1 /\ (i - 1) + 1 = i
        BY <1>9, <2>1, <3>3
      <4>2. SinkAt(r, p, i - 1)'
        BY <1>6, <2>1, <3>3, <4>1
      <4> QED BY <4>2 DEF Somewhere
    <3> QED BY <3>1, <3>2, <3>3
  <2> QED BY <1>4, <1>5, <2>1 DEF Somewhere
<1> QED BY <1>2, <1>8, <1>10, <1>11, <1>12

\* flush moves a shard's buffer into its own batch, which was empty.
LEMMA TakePlaces ==
    ASSUME NoTwoPlaces, TypeOK, RestingIsEmpty, UNCHANGED sink,
           NEW f \in Flushers, TakeBatch(f), NEW r \in Requests
    PROVE  OnePlace(r)' /\ (stage'[r] # "served" => ~Somewhere(r)')
<1> DEFINE k == Of[f]
<1>1. /\ batch' = [batch EXCEPT ![f] = buf[k]]
      /\ buf' = [buf EXCEPT ![k] = << >>]
      /\ pc[f] = "woken" /\ stage' = stage
  BY DEF TakeBatch, handler
<1>2. batch[f] = << >> /\ k \in Shards
  BY <1>1, Topology DEF RestingIsEmpty
<1> HIDE DEF k
<1>3. batch'[f] = buf[k] /\ buf'[k] = << >>
  BY <1>1, <1>2 DEF TypeOK
<1>4. \A o, i : SinkAt(r, o, i)' <=> SinkAt(r, o, i)
  BY DEF SinkAt
<1>5. \A o, i : BufAt(r, o, i)' <=> o # k /\ BufAt(r, o, i)
  <2>1. \A i : ~BufAt(r, k, i)'
    BY <1>3 DEF BufAt
  <2>2. \A o \in Shards \ {k} : buf'[o] = buf[o]
    BY <1>1 DEF TypeOK
  <2> QED BY <2>1, <2>2 DEF BufAt
<1>6. \A o, i : TakenAt(r, o, i)' <=> \/ o = f /\ BufAt(r, k, i)
                                      \/ o # f /\ TakenAt(r, o, i)
  <2>1. \A i : TakenAt(r, f, i)' <=> BufAt(r, k, i)
    BY <1>2, <1>3 DEF TakenAt, BufAt
  <2>2. \A o \in Flushers \ {f} : batch'[o] = batch[o]
    BY <1>1 DEF TypeOK
  <2>3. \A o, i : o # f => (TakenAt(r, o, i)' <=> TakenAt(r, o, i))
    BY <2>2 DEF TakenAt
  <2> QED BY <2>1, <2>3
<1>7. OnePlace(r) /\ (stage[r] # "served" => ~Somewhere(r))
  BY DEF NoTwoPlaces
<1>8. \A o, i, q, j : SinkAt(r, o, i)' /\ SinkAt(r, q, j)' => o = q /\ i = j
  BY <1>4, <1>7 DEF OnePlace
<1>9. \A o, i, q, j : BufAt(r, o, i)' /\ BufAt(r, q, j)' => o = q /\ i = j
  BY <1>5, <1>7 DEF OnePlace
<1>10. \A o, i, q, j : TakenAt(r, o, i)' /\ TakenAt(r, q, j)' => o = q /\ i = j
  BY <1>6, <1>7 DEF OnePlace
<1>11. (\E o, i : SinkAt(r, o, i)') => ~\E q, j : BufAt(r, q, j)' \/ TakenAt(r, q, j)'
  BY <1>4, <1>5, <1>6, <1>7 DEF OnePlace
<1>12. (\E o, i : BufAt(r, o, i)') => ~\E q, j : TakenAt(r, q, j)'
  BY <1>5, <1>6, <1>7 DEF OnePlace
<1>13. Somewhere(r)' => Somewhere(r)
  BY <1>4, <1>5, <1>6 DEF Somewhere
<1> QED BY <1>1, <1>7, <1>8, <1>9, <1>10, <1>11, <1>12, <1>13 DEF OnePlace

\* A script of the pipeline drops the first row of the flusher's batch.
LEMMA SettlePlaces ==
    ASSUME NoTwoPlaces, TypeOK, UNCHANGED sink,
           NEW f \in Flushers, BatchSettle(f), NEW r \in Requests
    PROVE  OnePlace(r)' /\ (stage'[r] # "served" => ~Somewhere(r)')
<1>1. /\ batch' = [batch EXCEPT ![f] = Tail(batch[f])]
      /\ UNCHANGED <<buf, stage>>
      /\ batch[f] \in Seq(Row) /\ batch[f] # << >>
  BY DEF BatchSettle, handler, shard, TypeOK
<1>2. \A o, i : /\ SinkAt(r, o, i)' <=> SinkAt(r, o, i)
                /\ BufAt(r, o, i)' <=> BufAt(r, o, i)
  BY <1>1 DEF SinkAt, BufAt
<1>3. ASSUME NEW i, TakenAt(r, f, i)'
      PROVE  i \in Nat /\ TakenAt(r, f, i + 1)
  <2>1. batch'[f] = Tail(batch[f])
    BY <1>1 DEF TypeOK
  <2>2. i \in 1 .. Len(batch[f]) - 1 /\ Tail(batch[f])[i].req = r
    <3>1. i \in DOMAIN Tail(batch[f]) /\ Tail(batch[f])[i].req = r
      BY <1>3, <2>1 DEF TakenAt
    <3>2. DOMAIN Tail(batch[f]) = 1 .. Len(batch[f]) - 1
      BY <1>1
    <3> QED BY <3>1, <3>2
  <2>3. i + 1 \in DOMAIN batch[f] /\ Tail(batch[f])[i] = batch[f][i + 1]
    BY <1>1, <2>2
  <2> QED BY <2>2, <2>3 DEF TakenAt
<1>4. \A o, i : o # f => (TakenAt(r, o, i)' <=> TakenAt(r, o, i))
  BY <1>1 DEF TakenAt, TypeOK
<1>5. OnePlace(r) /\ (stage[r] # "served" => ~Somewhere(r))
  BY DEF NoTwoPlaces
<1>6. ASSUME NEW o, NEW i, NEW q, NEW j, TakenAt(r, o, i)', TakenAt(r, q, j)'
      PROVE  o = q /\ i = j
  <2>1. PICK n, m : /\ TakenAt(r, o, n) /\ TakenAt(r, q, m)
                    /\ n = IF o = f THEN i + 1 ELSE i
                    /\ m = IF q = f THEN j + 1 ELSE j
                    /\ o = f => i \in Nat
                    /\ q = f => j \in Nat
    BY <1>3, <1>4, <1>6
  <2>2. o = q /\ n = m
    BY <1>5, <2>1 DEF OnePlace
  <2> QED BY <2>1, <2>2
<1>7. (\E o, i : TakenAt(r, o, i)') => \E o, i : TakenAt(r, o, i)
  BY <1>3, <1>4
<1>8. OnePlace(r)'
  BY <1>2, <1>5, <1>6, <1>7 DEF OnePlace
<1>9. Somewhere(r)' => Somewhere(r)
  BY <1>2, <1>7 DEF Somewhere
<1> QED BY <1>1, <1>5, <1>8, <1>9

\* No step of the single-node gateway, failing or not, makes a second copy.
LEMMA NoTwoPlacesStep ==
    TypeOK /\ RestingIsEmpty /\ SinkBounded /\ NoTwoPlaces /\ [SinkNext]_allVars => NoTwoPlaces'
<1> SUFFICES ASSUME TypeOK, RestingIsEmpty, SinkBounded, NoTwoPlaces, [SinkNext]_allVars,
                    NEW r \in Requests
             PROVE  OnePlace(r)' /\ (stage'[r] # "served" => ~Somewhere(r)')
  BY DEF NoTwoPlaces
<1> DEFINE Goal == OnePlace(r)' /\ (stage'[r] # "served" => ~Somewhere(r)')
<1>1. CASE UNCHANGED <<sink, buf, batch>> /\ (stage[r] = "served" => stage'[r] = "served")
  BY <1>1, RemovingKeepsOne DEF SinkAt, BufAt, TakenAt
<1>2. ASSUME NEW e \in Requests, NEW ev \in Event, SinkEmit(e, ev) PROVE Goal
  BY <1>2, EmitPlaces
<1>3. ASSUME NEW p \in Procs, SinkHandle(p) PROVE Goal
  BY <1>3, HandlePlaces
<1>4. ASSUME NEW p \in Procs, ProcessEnds(p) PROVE Goal
  <2>1. \A o, i : SinkAt(r, o, i)' => SinkAt(r, o, i)
    BY <1>4 DEF ProcessEnds, SinkAt, SinkBounded
  <2>2. \A o, i : BufAt(r, o, i)' => BufAt(r, o, i)
    BY <1>4 DEF ProcessEnds, Crash, BufAt
  <2>3. \A o, i : TakenAt(r, o, i)' => TakenAt(r, o, i)
    BY <1>4 DEF ProcessEnds, Crash, TakenAt
  <2>4. stage[r] = "served" => stage'[r] = "served"
    BY <1>4 DEF ProcessEnds, Crash
  <2> QED BY <2>1, <2>2, <2>3, <2>4, RemovingKeepsOne
<1>5. ASSUME NEW f \in Flushers, UNCHANGED sink,
             BatchSettleError(f) \/ \E stores \in SUBSET Stores : InsertError(f, stores)
      PROVE  Goal
  <2>1. /\ batch' = [batch EXCEPT ![f] = << >>] /\ UNCHANGED <<sink, buf, stage>>
    BY <1>5 DEF BatchSettleError, InsertError, handler, shard
  <2>2. \A o, i : TakenAt(r, o, i)' => TakenAt(r, o, i)
    BY <2>1 DEF TakenAt, TypeOK
  <2>3. \A o, i : (SinkAt(r, o, i)' => SinkAt(r, o, i)) /\ (BufAt(r, o, i)' => BufAt(r, o, i))
    BY <2>1 DEF SinkAt, BufAt
  <2> QED BY <2>1, <2>2, <2>3, RemovingKeepsOne
<1>6. ASSUME UNCHANGED sink, FlusherNext PROVE Goal
  <2>1. ASSUME NEW f \in Flushers, TakeBatch(f) PROVE Goal
    BY <1>6, <2>1, TakePlaces
  <2>2. ASSUME NEW f \in Flushers, BatchSettle(f) PROVE Goal
    BY <1>6, <2>2, SettlePlaces
  <2> HIDE DEF Goal
  <2>3. ASSUME NEW f \in Flushers, WakeOnTrigger(f) \/ WakeOnTick(f) \/ Insert(f) PROVE Goal
    BY <1>1, <1>6, <2>3 DEF WakeOnTrigger, WakeOnTick, Insert, shard, handler, Goal
  <2>4. ASSUME NEW k \in Shards, SignalFlush(k) PROVE Goal
    BY <1>1, <1>6, <2>4 DEF SignalFlush, flusher, handler, Goal
  <2> QED BY <1>5, <1>6, <2>1, <2>2, <2>3, <2>4 DEF FlusherNext
<1>7. ASSUME UNCHANGED sink, RedisNext \/ AdmissionNext PROVE Goal
  <2>1. UNCHANGED <<buf, batch>>
    BY <1>7
    DEF RedisNext, TopUp, Expire, AdmissionNext, AdmitUnreserved, Admit, Refuse,
        RefuseAfterScript, StreamingUnsupported, shard, flusher
  <2>2. stage[r] = "served" => stage'[r] = "served"
    BY <1>7
    DEF RedisNext, TopUp, Expire, AdmissionNext, AdmitUnreserved, Admit, Refuse,
        RefuseAfterScript, StreamingUnsupported, handler, TypeOK
  <2> QED BY <1>1, <1>7, <2>1, <2>2
<1>8. ASSUME NEW p \in Procs, SinkClose(p) \/ SinkDrained(p) PROVE Goal
  BY <1>1, <1>8 DEF SinkClose, SinkDrained, vars, shard, flusher, handler
<1>9. CASE UNCHANGED allVars
  BY <1>1, <1>9 DEF allVars, sinkVars, vars, shard, flusher, handler
<1> HIDE DEF Goal
<1> QED
  BY <1>2, <1>3, <1>4, <1>6, <1>7, <1>8, <1>9 DEF SinkNext, sinkVars, Goal

\* An event that found room in its channel stays in memory until it is settled.
Delivered ==
    \A r \in Requests : stage[r] = "served" /\ r \notin dropped =>
        Somewhere(r) \/ SettledFor(r)

\* Each step of the channel sink is a step of the core that loses nothing, or
\* the end of a process.
LEMMA SinkCalmStep ==
    SinkBounded /\ [SinkNext]_allVars => CalmStep \/ \E p \in Procs : ProcessEnds(p)
<1> SUFFICES ASSUME SinkBounded, SinkNext
             PROVE  CalmStep \/ \E p \in Procs : ProcessEnds(p)
  BY DEF allVars, CalmStep
<1>1. CASE (RedisNext \/ AdmissionNext \/ FlusherNext) /\ UNCHANGED sinkVars
  BY <1>1 DEF CalmStep, HandlerNext
<1>2. CASE \E r \in Requests, ev \in Event : SinkEmit(r, ev)
  BY <1>2 DEF SinkEmit, CalmStep, HandlerNext
<1>3. ASSUME NEW p \in Procs, SinkHandle(p) PROVE CalmStep
  <2>1. sink[p] \in Seq(Requests) /\ sink[p] # << >>
    BY <1>3 DEF SinkHandle, SinkBounded
  <2>2. Head(sink[p]) \in Requests
    BY <2>1
  <2> QED BY <1>3, <2>2 DEF SinkHandle, CalmStep
<1> QED
  BY <1>1, <1>2, <1>3 DEF SinkNext, SinkClose, SinkDrained, CalmStep

\* Emit's event is in the channel, unless it is counted as dropped; every other
\* event of a channel stays in it.
LEMMA EmitKeeps ==
    ASSUME SinkBounded, NEW e \in Requests, NEW ev \in Event, SinkEmit(e, ev), NEW r \in Requests
    PROVE  /\ Somewhere(r) => Somewhere(r)'
           /\ Somewhere(e)' \/ e \in dropped'
<1>1. PICK p \in Procs : p = Home[e] /\ sink[p] \in Seq(Requests)
  BY ConstantsAssumption DEF ConstantsAssumption, SinkBounded
<1>2. /\ UNCHANGED <<buf, batch>>
      /\ \/ sink' = [sink EXCEPT ![p] = Append(sink[p], e)]
         \/ sink' = sink /\ e \in dropped'
  BY <1>1 DEF SinkEmit, Emit, shard, flusher
<1>3. ASSUME NEW o, NEW i, SinkAt(r, o, i) PROVE SinkAt(r, o, i)'
  <2>1. sink[o] \in Seq(Requests) /\ o \in Procs /\ i \in DOMAIN sink[o]
    BY <1>3 DEF SinkAt, SinkBounded
  <2>2. sink'[o] = sink[o] \/ sink'[o] = Append(sink[o], e)
    BY <1>2, <2>1 DEF SinkBounded
  <2>3. i \in DOMAIN sink'[o] /\ sink'[o][i] = sink[o][i]
    BY <2>1, <2>2
  <2> QED BY <1>3, <2>3 DEF SinkAt
<1>4. Somewhere(r) => Somewhere(r)'
  BY <1>2, <1>3 DEF Somewhere, BufAt, TakenAt
<1>5. ASSUME sink' = [sink EXCEPT ![p] = Append(sink[p], e)] PROVE Somewhere(e)'
  <2>1. sink'[p] = Append(sink[p], e)
    BY <1>1, <1>5 DEF SinkBounded
  <2>2. Len(sink[p]) + 1 \in DOMAIN sink'[p] /\ sink'[p][Len(sink[p]) + 1] = e
    BY <1>1, <2>1
  <2> QED BY <2>2 DEF Somewhere, SinkAt
<1> QED BY <1>2, <1>4, <1>5

\* Without failures no event leaves the memory before it is settled.
LEMMA DeliveredStep ==
    ASSUME "insert" \notin Faults, "redis" \notin Faults, "crash" \notin Faults,
           TypeOK, RowsAreFaithful, SettlingIsDurable, RestingIsEmpty,
           SinkBounded, NoTwoPlaces, Delivered, [SinkNext]_allVars
    PROVE  Delivered'
<1> SUFFICES ASSUME NEW r \in Requests, stage'[r] = "served", r \notin dropped'
             PROVE  Somewhere(r)' \/ SettledFor(r)'
  BY DEF Delivered
<1>1. CalmStep
  BY SinkCalmStep DEF ProcessEnds, Crash
<1>2. [Next]_vars
  BY SinkStep
<1>3. CASE SettledFor(r)
  BY <1>2, <1>3, SettledStays
<1>4. ASSUME NEW o, NEW i, BufAt(r, o, i) \/ TakenAt(r, o, i)
      PROVE  Somewhere(r)' \/ SettledFor(r)'
  <2>1. PICK k \in Shards : InShard(k, r)
    BY <1>4, Topology DEF BufAt, TakenAt, InShard, In
  <2>2. InShard(k, r)' \/ SettledFor(r)'
    BY <1>1, <2>1, RowLeavesSettled DEF SettledFor
  <2> QED BY <2>2 DEF InShard, In, Somewhere, BufAt, TakenAt
<1>5. ASSUME NEW e \in Requests, NEW ev \in Event, SinkEmit(e, ev), ~SettledFor(r)
      PROVE  Somewhere(r)' \/ SettledFor(r)'
  <2>1. CASE r = e
    BY <1>5, <2>1, EmitKeeps
  <2>2. CASE r # e
    <3>1. stage[r] = "served" /\ r \notin dropped
      BY <1>5, <2>2 DEF SinkEmit, Emit, TypeOK
    <3> QED BY <1>5, <3>1, EmitKeeps DEF Delivered
  <2> QED BY <2>1, <2>2
<1>6. ASSUME NEW p \in Procs, SinkHandle(p), ~SettledFor(r)
      PROVE  Somewhere(r)' \/ SettledFor(r)'
  <2>1. UNCHANGED <<stage, dropped>>
    BY <1>6 DEF SinkHandle, Handle, handler
  <2>2. Somewhere(r)
    BY <1>6, <2>1 DEF Delivered
  <2> QED BY <1>6, <2>2, HandlePlaces
<1>7. ASSUME UNCHANGED <<sink, dropped>>, stage[r] = "served", ~SettledFor(r)
      PROVE  Somewhere(r)' \/ SettledFor(r)'
  <2>1. Somewhere(r)
    BY <1>7 DEF Delivered
  <2>2. \A o, i : SinkAt(r, o, i) => SinkAt(r, o, i)'
    BY <1>7 DEF SinkAt
  <2> QED BY <1>4, <2>1, <2>2 DEF Somewhere
<1>8. CASE (RedisNext \/ AdmissionNext \/ FlusherNext) /\ UNCHANGED sinkVars
  <2>1. stage[r] = "served"
    <3>1. CASE UNCHANGED stage
      BY <3>1
    <3>2. CASE AdmissionNext
      BY <3>2
      DEF AdmissionNext, AdmitUnreserved, Admit, Refuse, RefuseAfterScript,
          StreamingUnsupported, TypeOK
    <3> QED
      BY <1>8, <3>1, <3>2
      DEF RedisNext, TopUp, Expire, FlusherNext, SignalFlush, WakeOnTrigger, WakeOnTick,
          TakeBatch, Insert, InsertError, BatchSettle, BatchSettleError, handler
  <2> QED BY <1>3, <1>7, <1>8, <2>1 DEF sinkVars
<1>9. CASE UNCHANGED <<vars, sink, dropped>>
  BY <1>3, <1>7, <1>9 DEF vars, handler
<1> QED
  BY <1>3, <1>5, <1>6, <1>8, <1>9
  DEF SinkNext, SinkClose, SinkDrained, ProcessEnds, Crash, allVars, sinkVars

\* What the invariants say of the set of places.
LEMMA CopiesAreOne ==
    ASSUME NoTwoPlaces, NEW r \in Requests
    PROVE  /\ Somewhere(r) => Cardinality(Copies(r)) = 1
           /\ ~Somewhere(r) => Copies(r) = {}
<1>1. \A c : c \in Copies(r) <=>
                \E o, i : \/ SinkAt(r, o, i) /\ c = <<"sink", o, i>>
                          \/ BufAt(r, o, i) /\ c = <<"shard", o, i>>
                          \/ TakenAt(r, o, i) /\ c = <<"flusher", o, i>>
  <2>1. \A c : c \in SinkPlaces(r) <=> \E o, i : SinkAt(r, o, i) /\ c = <<"sink", o, i>>
    BY DEF SinkAt, SinkPlaces
  <2>2. \A c : c \in ShardPlaces(r) <=> \E o, i : BufAt(r, o, i) /\ c = <<"shard", o, i>>
    BY DEF BufAt, ShardPlaces
  <2>3. \A c : c \in FlusherPlaces(r) <=> \E o, i : TakenAt(r, o, i) /\ c = <<"flusher", o, i>>
    BY DEF TakenAt, FlusherPlaces
  <2> QED BY <2>1, <2>2, <2>3 DEF Copies
<1>2. ~Somewhere(r) => Copies(r) = {}
  BY <1>1 DEF Somewhere
<1>3. ASSUME Somewhere(r) PROVE Cardinality(Copies(r)) = 1
  <2>1. OnePlace(r)
    BY DEF NoTwoPlaces
  <2>2. PICK c : c \in Copies(r)
    BY <1>1, <1>3, ZenonT(30) DEF Somewhere
  <2>3. \A d \in Copies(r) : d = c
    BY <1>1, <2>1, <2>2 DEF OnePlace
  <2>4. Copies(r) = {c}
    BY <2>2, <2>3
  <2> QED BY <2>4, FS_Singleton
<1> QED BY <1>2, <1>3

\* The single-node deployment keeps the invariants of the rows.
LEMMA SinkInvariant ==
    SinkSpec => [](TypeOK /\ Provenance /\ RestingIsEmpty /\ SinkBounded /\ NoTwoPlaces)
<1>1. SinkSpec => Spec
  BY SinkImplementsSettlement DEF ImplementsSettlement
<1>2. SinkInit => RestingIsEmpty
  BY RestingInit DEF SinkInit
<1>3. TypeOK /\ RestingIsEmpty /\ SinkBounded /\ [SinkNext]_allVars => RestingIsEmpty'
  BY RestingStep, SinkStep
<1> QED
  BY <1>1, <1>2, <1>3, TypeCorrect, ProvenanceInvariant, SinkBoundedInit, SinkBoundedStep,
     NoTwoPlacesInit, NoTwoPlacesStep, PTL DEF SinkSpec

\* While nothing fails, an event that found room in the channel is in exactly
\* one place until its order is stored and its reservation settled.
THEOREM OneCopy ==
    ASSUME "insert" \notin Faults, "redis" \notin Faults, "crash" \notin Faults
    PROVE  SinkSpec => []OneCopyUntilSettled
<1> DEFINE I == TypeOK /\ Provenance /\ RestingIsEmpty /\ SinkBounded /\ NoTwoPlaces
<1>1. SinkInit => Delivered
  BY DEF SinkInit, Init, Delivered
<1>2. I /\ Delivered /\ [SinkNext]_allVars => Delivered'
  BY DeliveredStep DEF Provenance
<1>3. NoTwoPlaces /\ Delivered => OneCopyUntilSettled
  BY CopiesAreOne DEF Delivered, SettledFor, OneCopyUntilSettled
<1> QED BY <1>1, <1>2, <1>3, SinkInvariant, PTL DEF SinkSpec

\* An event stays in the process that served its request: in its channel, then
\* in its own Settler's shard.
AtHome ==
    /\ \A p \in Procs : \A i \in DOMAIN sink[p] : Home[sink[p][i]] = p
    /\ \A k \in Shards : \A i \in DOMAIN buf[k] : Home[buf[k][i].req] = ProcOf[k]
    /\ \A f \in Flushers : \A i \in DOMAIN batch[f] : Home[batch[f][i].req] = ProcOf[Of[f]]

\* Emit uses the handler's own sink, the sink its own Settler, and a flusher its
\* own shard: no event changes process.
LEMMA AtHomeStep ==
    ASSUME TypeOK, SinkBounded, AtHome, [SinkNext]_allVars
    PROVE  AtHome'
<1>1. CASE UNCHANGED <<sink, buf, batch>>
  BY <1>1 DEF AtHome
<1>2. ASSUME NEW e \in Requests, NEW ev \in Event, SinkEmit(e, ev) PROVE AtHome'
  <2>1. PICK p \in Procs : p = Home[e] /\ sink[p] \in Seq(Requests)
    BY ConstantsAssumption DEF ConstantsAssumption, SinkBounded
  <2>2. /\ UNCHANGED <<buf, batch>>
        /\ sink' = sink \/ sink' = [sink EXCEPT ![p] = Append(sink[p], e)]
    BY <1>2, <2>1 DEF SinkEmit, Emit, shard, flusher
  <2>3. ASSUME NEW q \in Procs, NEW i \in DOMAIN sink'[q] PROVE Home[sink'[q][i]] = q
    <3>1. CASE sink'[q] = sink[q]
      BY <2>3, <3>1, ZenonT(30) DEF AtHome
    <3>2. CASE q = p /\ sink'[q] = Append(sink[p], e)
      <4>1. (i \in DOMAIN sink[p] /\ sink'[q][i] = sink[p][i]) \/ sink'[q][i] = e
        BY <2>1, <2>3, <3>2, AppendAt
      <4> QED BY <2>1, <3>2, <4>1 DEF AtHome
    <3> QED BY <2>2, <3>1, <3>2 DEF SinkBounded
  <2> QED BY <2>2, <2>3 DEF AtHome
<1>3. ASSUME NEW p \in Procs, SinkHandle(p) PROVE AtHome'
  <2>1. PICK e : /\ e = Head(sink[p]) /\ e \in Requests /\ Home[e] = p
                 /\ sink[p] \in Seq(Requests) /\ sink[p] # << >>
    BY <1>3 DEF SinkHandle, SinkBounded, AtHome
  <2>2. PICK k \in Shards : k = ShardIndex[p][e] /\ ProcOf[k] = p /\ buf[k] \in Seq(Row)
    <3>1. ShardIndex[p][e] \in Shards /\ ProcOf[ShardIndex[p][e]] = p
      BY <2>1, ConstantsAssumption DEF ConstantsAssumption
    <3> QED BY <3>1 DEF TypeOK
  <2>3. PICK row : row = [req |-> e, order |-> OrderFromEvent(event[e])]
    OBVIOUS
  <2>4. /\ sink' = [sink EXCEPT ![p] = Tail(sink[p])] /\ batch' = batch
        /\ buf' = [buf EXCEPT ![k] = Append(buf[k], row)] /\ row.req = e
    BY <1>3, <2>1, <2>2, <2>3 DEF SinkHandle, Handle, flusher
  <2>5. ASSUME NEW q \in Procs, NEW i \in DOMAIN sink'[q] PROVE Home[sink'[q][i]] = q
    <3>1. CASE q # p
      BY <2>4, <2>5, <3>1 DEF AtHome, SinkBounded
    <3>2. CASE q = p
      <4>1. sink'[q] = Tail(sink[p])
        BY <2>4, <3>2 DEF SinkBounded
      <4>2. i + 1 \in DOMAIN sink[p] /\ sink'[q][i] = sink[p][i + 1]
        BY <2>1, <2>5, <4>1, TailAt
      <4> QED BY <3>2, <4>2 DEF AtHome
    <3> QED BY <3>1, <3>2
  <2>6. ASSUME NEW m \in Shards, NEW i \in DOMAIN buf'[m] PROVE Home[buf'[m][i].req] = ProcOf[m]
    <3>1. CASE m # k
      BY <2>4, <2>6, <3>1 DEF AtHome, TypeOK
    <3>2. CASE m = k
      <4>1. buf'[m] = Append(buf[k], row)
        BY <2>4, <3>2 DEF TypeOK
      <4>2. (i \in DOMAIN buf[k] /\ buf'[m][i] = buf[k][i]) \/ buf'[m][i] = row
        BY <2>2, <2>6, <4>1, AppendAt
      <4>3. CASE buf'[m][i] = row
        BY <2>1, <2>2, <2>4, <3>2, <4>3
      <4>4. CASE i \in DOMAIN buf[k] /\ buf'[m][i] = buf[k][i]
        <5>1. Home[buf[k][i].req] = ProcOf[k]
          BY <4>4 DEF AtHome
        <5> QED BY <3>2, <4>4, <5>1
      <4> QED BY <4>2, <4>3, <4>4
    <3> QED BY <3>1, <3>2
  <2> QED BY <2>4, <2>5, <2>6 DEF AtHome
<1>4. ASSUME NEW p \in Procs, ProcessEnds(p) PROVE AtHome'
  <2>1. /\ \A q \in Procs : sink'[q] = sink[q] \/ sink'[q] = << >>
        /\ \A k \in Shards : buf'[k] = buf[k] \/ buf'[k] = << >>
        /\ \A f \in Flushers : batch'[f] = batch[f] \/ batch'[f] = << >>
    BY <1>4 DEF ProcessEnds, Crash, SinkBounded
  <2> QED BY <2>1 DEF AtHome
<1>5. ASSUME UNCHANGED sink, NEW f \in Flushers, TakeBatch(f) PROVE AtHome'
  <2>1. /\ batch' = [batch EXCEPT ![f] = buf[Of[f]]]
        /\ buf' = [buf EXCEPT ![Of[f]] = << >>] /\ Of[f] \in Shards
    BY <1>5, Topology DEF TakeBatch
  <2>2. /\ \A k \in Shards : buf'[k] = buf[k] \/ buf'[k] = << >>
        /\ \A g \in Flushers : batch'[g] = batch[g] \/ (g = f /\ batch'[g] = buf[Of[f]])
    BY <2>1 DEF TypeOK
  <2> QED BY <1>5, <2>1, <2>2 DEF AtHome
<1>6. ASSUME UNCHANGED sink, NEW f \in Flushers, BatchSettle(f) \/ LetsGo(f) PROVE AtHome'
  <2>1. /\ buf' = buf /\ batch[f] \in Seq(Row)
        /\ \/ batch' = [batch EXCEPT ![f] = << >>]
           \/ batch' = [batch EXCEPT ![f] = Tail(batch[f])] /\ batch[f] # << >>
    BY <1>6 DEF BatchSettle, LetsGo, BatchSettleError, InsertError, shard, TypeOK
  <2>2. ASSUME NEW g \in Flushers, NEW i \in DOMAIN batch'[g]
        PROVE  Home[batch'[g][i].req] = ProcOf[Of[g]]
    <3>1. CASE g # f
      <4>1. batch'[g] = batch[g]
        BY <2>1, <3>1 DEF TypeOK
      <4> QED BY <2>2, <4>1, ZenonT(30) DEF AtHome
    <3>2. CASE g = f
      <4>1. batch'[g] = Tail(batch[f]) /\ batch[f] # << >>
        <5>1. batch'[g] = << >> \/ (batch'[g] = Tail(batch[f]) /\ batch[f] # << >>)
          <6>1. batch \in [Flushers -> Seq(Row)]
            BY DEF TypeOK
          <6> QED BY <2>1, <3>2, <6>1
        <5> QED BY <2>2, <5>1
      <4>2. i + 1 \in DOMAIN batch[f] /\ batch'[g][i] = batch[f][i + 1]
        BY <2>1, <2>2, <4>1, TailAt
      <4> QED BY <3>2, <4>2 DEF AtHome
    <3> QED BY <3>1, <3>2
  <2> QED BY <1>6, <2>1, <2>2 DEF AtHome
<1>7. ASSUME UNCHANGED sink, FlusherNext PROVE AtHome'
  <2>1. ASSUME NEW f \in Flushers, WakeOnTrigger(f) \/ WakeOnTick(f) \/ Insert(f) PROVE AtHome'
    BY <1>1, <1>7, <2>1 DEF WakeOnTrigger, WakeOnTick, Insert, shard
  <2>2. ASSUME NEW k \in Shards, SignalFlush(k) PROVE AtHome'
    BY <1>1, <1>7, <2>2 DEF SignalFlush, flusher
  <2> QED BY <1>5, <1>6, <1>7, <2>1, <2>2 DEF FlusherNext, LetsGo
<1>8. ASSUME UNCHANGED sink, RedisNext \/ AdmissionNext PROVE AtHome'
  <2>1. UNCHANGED <<buf, batch>>
    BY <1>8
    DEF RedisNext, TopUp, Expire, AdmissionNext, AdmitUnreserved, Admit, Refuse,
        RefuseAfterScript, StreamingUnsupported, shard, flusher
  <2> QED BY <1>1, <1>8, <2>1
<1>9. ASSUME NEW p \in Procs, SinkClose(p) \/ SinkDrained(p) PROVE AtHome'
  BY <1>1, <1>9 DEF SinkClose, SinkDrained, vars, shard, flusher
<1>10. CASE UNCHANGED allVars
  BY <1>1, <1>10 DEF allVars, sinkVars, vars, shard, flusher
<1> QED
  BY <1>2, <1>3, <1>4, <1>7, <1>8, <1>9, <1>10 DEF SinkNext, sinkVars

\* What leaves memory: a settled row, the batch of a failed flush, or the memory
\* of the event's own process.
LEMMA EventLeaves ==
    ASSUME TypeOK, SettlingIsDurable, RestingIsEmpty, SinkBounded, NoTwoPlaces, AtHome,
           SinkNext, NEW r \in Requests, Somewhere(r)
    PROVE  \/ Somewhere(r)'
           \/ orders'[r] # NoOrder /\ precharge'[r] = 0
           \/ ProcessEnds(Home[r])
           \/ \E f \in Flushers : LetsGo(f) /\ In(batch[f], r)
<1> DEFINE Goal == \/ Somewhere(r)'
                   \/ orders'[r] # NoOrder /\ precharge'[r] = 0
                   \/ ProcessEnds(Home[r])
                   \/ \E f \in Flushers : LetsGo(f) /\ In(batch[f], r)
<1>1. ASSUME NEW e \in Requests, NEW ev \in Event, SinkEmit(e, ev) PROVE Goal
  BY <1>1, EmitKeeps
<1>2. ASSUME NEW p \in Procs, SinkHandle(p) PROVE Goal
  BY <1>2, HandlePlaces
<1>3. ASSUME NEW p \in Procs, ProcessEnds(p), p # Home[r] PROVE Goal
  <2>1. ASSUME NEW o, NEW i, SinkAt(r, o, i) PROVE SinkAt(r, o, i)'
    <3>1. o # p /\ o \in Procs
      BY <1>3, <2>1 DEF SinkAt, AtHome
    <3>2. sink'[o] = sink[o]
      BY <1>3, <3>1 DEF ProcessEnds, SinkBounded
    <3> QED BY <2>1, <3>2 DEF SinkAt
  <2>2. ASSUME NEW o, NEW i, BufAt(r, o, i) PROVE BufAt(r, o, i)'
    <3>1. o \in Shards /\ ProcOf[o] # p
      BY <1>3, <2>2 DEF BufAt, AtHome
    <3>2. buf'[o] = buf[o]
      BY <1>3, <3>1 DEF ProcessEnds, Crash
    <3> QED BY <2>2, <3>2 DEF BufAt
  <2>3. ASSUME NEW o, NEW i, TakenAt(r, o, i) PROVE TakenAt(r, o, i)'
    <3>1. o \in Flushers /\ ProcOf[Of[o]] # p
      BY <1>3, <2>3 DEF TakenAt, AtHome
    <3>2. batch'[o] = batch[o]
      BY <1>3, <3>1 DEF ProcessEnds, Crash
    <3> QED BY <2>3, <3>2 DEF TakenAt
  <2> QED BY <2>1, <2>2, <2>3 DEF Somewhere
<1>4. ASSUME UNCHANGED sink, CalmStep PROVE Goal
  <2>1. ASSUME NEW o, NEW i, SinkAt(r, o, i) PROVE Goal
    BY <1>4, <2>1 DEF Somewhere, SinkAt
  <2>2. ASSUME NEW o, NEW i, BufAt(r, o, i) \/ TakenAt(r, o, i) PROVE Goal
    <3>1. PICK k \in Shards : InShard(k, r)
      BY <2>2, Topology DEF BufAt, TakenAt, InShard, In
    <3>2. InShard(k, r)' => Somewhere(r)'
      BY <3>1 DEF InShard, In, Somewhere, BufAt, TakenAt
    <3> QED BY <1>4, <3>1, <3>2, RowLeaves
  <2> HIDE DEF Goal
  <2> QED BY <2>1, <2>2 DEF Somewhere
<1>5. (RedisNext \/ AdmissionNext \/ FlusherNext) /\ UNCHANGED sinkVars => Goal
  BY <1>4 DEF CalmStep, HandlerNext, sinkVars
<1>6. ASSUME NEW p \in Procs, SinkClose(p) \/ SinkDrained(p) PROVE Goal
  BY <1>4, <1>6 DEF SinkClose, SinkDrained, CalmStep
<1>7. ASSUME NEW p \in Procs, ProcessEnds(p) PROVE Goal
  BY <1>3, <1>7
<1> HIDE DEF Goal
<1>8. Goal
  BY <1>1, <1>2, <1>5, <1>6, <1>7 DEF SinkNext
<1> QED BY <1>8 DEF Goal

\* Only Emit makes an admitted request a served one.
LEMMA ServedByEmit ==
    ASSUME TypeOK, SinkNext, NEW r \in Requests, stage[r] = "admitted", stage'[r] = "served"
    PROVE  \E ev \in Event : SinkEmit(r, ev)
<1>1. stage' # stage
  OBVIOUS
<1>2. ~(RedisNext \/ FlusherNext)
  BY <1>1
  DEF RedisNext, TopUp, Expire, FlusherNext, SignalFlush, WakeOnTrigger, WakeOnTick,
      TakeBatch, Insert, InsertError, BatchSettle, BatchSettleError, handler
<1>3. ~AdmissionNext
  BY DEF AdmissionNext, AdmitUnreserved, Admit, Refuse, RefuseAfterScript,
         StreamingUnsupported, TypeOK
<1>4. ~\E p \in Procs : SinkHandle(p) \/ SinkClose(p) \/ SinkDrained(p)
  <2>1. ASSUME NEW p \in Procs, SinkHandle(p) PROVE FALSE
    BY <1>1, <2>1 DEF SinkHandle, Handle, handler
  <2>2. ASSUME NEW p \in Procs, SinkClose(p) \/ SinkDrained(p) PROVE FALSE
    <3>1. UNCHANGED vars
      BY <2>2 DEF SinkClose, SinkDrained
    <3>2. stage' = stage
      BY <3>1 DEF vars, handler
    <3> QED BY <1>1, <3>2
  <2> QED BY <2>1, <2>2
<1>5. ~\E p \in Procs : ProcessEnds(p)
  BY DEF ProcessEnds, Crash
<1>6. PICK e \in Requests, ev \in Event : SinkEmit(e, ev)
  BY <1>2, <1>3, <1>4, <1>5 DEF SinkNext
<1>7. stage' = [stage EXCEPT ![e] = "served"]
  BY <1>6 DEF SinkEmit, Emit
<1>8. e = r
  BY <1>7 DEF TypeOK
<1> QED BY <1>6, <1>8

\* Whatever fails, the single-node gateway hands an event over and never copies
\* it; the event enters memory with Emit, unless the channel is full, and leaves
\* it settled, with the batch of a failed flush, or with its own process.
THEOREM EventIsHandedOver == SinkSpec => HandedOver
<1> DEFINE I == TypeOK /\ Provenance /\ RestingIsEmpty /\ SinkBounded /\ NoTwoPlaces
           Counted == \A r \in Requests : /\ Somewhere(r) => Cardinality(Copies(r)) = 1
                                          /\ ~Somewhere(r) => Copies(r) = {}
           Step == \A r \in Requests :
              /\ Copies(r)' = {} \/ Cardinality(Copies(r)') = 1
              /\ stage[r] = "admitted" /\ stage'[r] = "served" =>
                    Copies(r)' # {} \/ r \in dropped'
              /\ Copies(r) # {} /\ Copies(r)' = {} =>
                    \/ orders'[r] # NoOrder /\ precharge'[r] = 0
                    \/ ProcessEnds(Home[r])
                    \/ \E f \in Flushers :
                          LetsGo(f) /\ \E i \in DOMAIN batch[f] : batch[f][i].req = r
<1>1. SinkInit => AtHome
  BY DEF SinkInit, Init, AtHome
<1>2. I /\ AtHome /\ [SinkNext]_allVars => AtHome'
  BY AtHomeStep
<1>3. ASSUME I, Counted', AtHome, SinkNext PROVE Step
  <2> SUFFICES ASSUME NEW r \in Requests
               PROVE  /\ Copies(r)' = {} \/ Cardinality(Copies(r)') = 1
                      /\ stage[r] = "admitted" /\ stage'[r] = "served" =>
                            Copies(r)' # {} \/ r \in dropped'
                      /\ Copies(r) # {} /\ Copies(r)' = {} =>
                            \/ orders'[r] # NoOrder /\ precharge'[r] = 0
                            \/ ProcessEnds(Home[r])
                            \/ \E f \in Flushers : LetsGo(f) /\ In(batch[f], r)
    BY DEF In
  <2>1. Copies(r) # {} => Somewhere(r)
    BY <1>3, CopiesAreOne
  <2>2. /\ Somewhere(r)' => Cardinality(Copies(r)') = 1
        /\ ~Somewhere(r)' => Copies(r)' = {}
    BY <1>3
  <2>3. Somewhere(r)' => Copies(r)' # {}
    BY <2>2, FS_EmptySet
  <2>4. stage[r] = "admitted" /\ stage'[r] = "served" => Copies(r)' # {} \/ r \in dropped'
    BY <1>3, <2>3, ServedByEmit, EmitKeeps
  <2> HIDE DEF I
  <2>5. Copies(r) # {} /\ Copies(r)' = {} =>
            \/ orders'[r] # NoOrder /\ precharge'[r] = 0
            \/ ProcessEnds(Home[r])
            \/ \E f \in Flushers : LetsGo(f) /\ In(batch[f], r)
    BY <1>3, <2>1, <2>3, EventLeaves DEF I, Provenance
  <2> QED BY <2>2, <2>4, <2>5
<1> HIDE DEF Step
<1>4. I /\ Counted' /\ AtHome /\ [SinkNext]_allVars => [Step]_allVars
  BY <1>3
<1>5. I => Counted
  BY CopiesAreOne
<1>6. SinkSpec => [][Step]_allVars
  BY <1>1, <1>2, <1>4, <1>5, SinkInvariant, PTL DEF SinkSpec
<1> QED BY <1>6 DEF HandedOver, Step
=============================================================================
