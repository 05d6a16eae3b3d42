----------------------------- MODULE AccessProofs -----------------------------
(***************************************************************************)
(* Proofs about who is let in and under which limits: the key cache        *)
(* answers freshly (KeyCache), an account is one person's (Identity), and  *)
(* an administrator sees what is enforced (Directory), for any keys, users,*)
(* callers, tables and lifetimes.                                          *)
(***************************************************************************)
EXTENDS KeyCache, Identity, Directory, FiniteSetTheorems, TLAPS

\* Most leaves are first-order reasoning: Zenon is tried before the SMT solver.
USE ZenonT(10), SMTT(30)

-----------------------------------------------------------------------------
(* KeyCache *)

\* What the history, the cache and a caller owe to the clock: what the database
\* holds can be answered now; an entry's value could be answered less than a
\* lifetime before the entry expires; a caller that has read a value read it
\* after it looked at the clock, and one that has answered answered freshly.
HistoryInv ==
    /\ tick > 0
    /\ \A i \in CacheItems : held[i][stored[i]] = tick
    /\ \A i \in CacheItems, v \in CacheValues : held[i][v] <= tick

CacheInv ==
    \A i \in CacheItems : cached[i].expires > 0 =>
        /\ held[i][cached[i].value] > 0
        /\ held[i][cached[i].value] + Lifetime(cached[i].value) >= cached[i].expires

CallerOK(c) ==
    LET last == held[caller[c].item][caller[c].value] IN
    /\ caller[c].pc # "idle" => caller[c].now > 0 /\ caller[c].now <= tick
    /\ caller[c].pc = "store" => last >= caller[c].now
    /\ caller[c].pc = "answered" => last > 0 /\ last + Lifetime(caller[c].value) > caller[c].now

KeyInv == KeyTypeOK /\ HistoryInv /\ CacheInv /\ \A c \in KeyCallers : CallerOK(c)

\* The callers' records, as KeyTypeOK has them.
CallerStates == [pc : {"idle", "check", "load", "store", "answered"},
                 item : CacheItems, now : Nat, value : CacheValues]

\* The history only moves forward.
HeldGrows ==
    \A i \in CacheItems, v \in CacheValues : held'[i][v] >= held[i][v]

\* Both lifetimes are positive.
LEMMA LifetimePositive == \A v : Lifetime(v) \in Nat \ {0}
  BY KeyCacheAssumption DEF Lifetime

\* A caller's promise outlives the steps of others: time and history move
\* forward, its record stays.
LEMMA CallerKept ==
    ASSUME KeyTypeOK, KeyTypeOK', NEW c \in KeyCallers, CallerOK(c), HeldGrows,
           tick' >= tick, caller'[c] = caller[c]
    PROVE  CallerOK(c)'
  <1>1. /\ caller[c].item \in CacheItems /\ caller[c].value \in CacheValues /\ caller[c].now \in Nat
        /\ tick \in Nat /\ tick' \in Nat
    BY DEF KeyTypeOK
  <1>2. /\ held'[caller[c].item][caller[c].value] >= held[caller[c].item][caller[c].value]
        /\ held'[caller[c].item][caller[c].value] \in Nat
        /\ held[caller[c].item][caller[c].value] \in Nat
    BY <1>1 DEF KeyTypeOK, HeldGrows
  <1>3. Lifetime(caller[c].value) \in Nat
    BY LifetimePositive
  <1> QED
    BY <1>1, <1>2, <1>3 DEF CallerOK

\* So does the promise of the entries that are not overwritten.
LEMMA EntryKept ==
    ASSUME KeyTypeOK, KeyTypeOK', NEW i \in CacheItems, HeldGrows, CacheInv,
           cached'[i] = cached[i], cached'[i].expires > 0
    PROVE  /\ held'[i][cached'[i].value] > 0
           /\ held'[i][cached'[i].value] + Lifetime(cached'[i].value) >= cached'[i].expires
  <1>1. cached[i].value \in CacheValues /\ cached[i].expires \in Nat
    BY DEF KeyTypeOK
  <1>2. /\ held'[i][cached[i].value] >= held[i][cached[i].value]
        /\ held'[i][cached[i].value] \in Nat /\ held[i][cached[i].value] \in Nat
    BY <1>1 DEF KeyTypeOK, HeldGrows
  <1>3. Lifetime(cached[i].value) \in Nat
    BY LifetimePositive
  <1> QED
    BY <1>1, <1>2, <1>3 DEF CacheInv

\* The cache starts empty, and what is stored is current.
LEMMA KeyInvInit == KeyInit => KeyInv
  <1> SUFFICES ASSUME KeyInit PROVE KeyInv
    OBVIOUS
  <1>1. FirstChain \in CacheValues /\ "none" \in CacheValues
    BY KeyCacheAssumption DEF CacheValues
  <1>2. IdleCaller.item \in CacheItems
    BY KeyCacheAssumption DEF IdleCaller, CacheItems
  <1>3. stored \in [CacheItems -> CacheValues]
    BY <1>1 DEF KeyInit
  <1>4. /\ caller \in [KeyCallers -> CallerStates]
        /\ \A c \in KeyCallers : caller[c].pc = "idle"
    BY <1>1, <1>2 DEF KeyInit, IdleCaller, CallerStates
  <1>5. /\ cached \in [CacheItems -> [value : CacheValues, expires : Nat]]
        /\ \A i \in CacheItems : cached[i].expires = 0
    BY <1>1 DEF KeyInit
  <1>6. /\ held \in [CacheItems -> [CacheValues -> Nat]]
        /\ \A i \in CacheItems, v \in CacheValues :
              held[i][v] = IF v = stored[i] THEN 1 ELSE 0
    BY DEF KeyInit
  <1>7. tick = 1
    BY DEF KeyInit
  <1>8. KeyTypeOK
    BY <1>3, <1>4, <1>5, <1>6, <1>7 DEF KeyTypeOK, CallerStates
  <1>9. HistoryInv
    BY <1>3, <1>6, <1>7 DEF HistoryInv
  <1> QED
    BY <1>4, <1>5, <1>8, <1>9 DEF KeyInv, CacheInv, CallerOK

\* CreateKey, RevokeKey, SetUserProject: the value written is current from now.
LEMMA WriteStep ==
    ASSUME KeyInv, NEW i \in CacheItems, NEW v \in CacheValues, Write(i, v)
    PROVE  KeyInv'
  <1>1. KeyTypeOK /\ HistoryInv /\ CacheInv /\ \A c \in KeyCallers : CallerOK(c)
    BY DEF KeyInv
  <1>2. UNCHANGED <<tick, cached, caller>> /\ tick \in Nat
    BY <1>1 DEF Write, KeyTypeOK
  <1>3. /\ stored' \in [CacheItems -> CacheValues] /\ stored'[i] = v
        /\ \A j \in CacheItems \ {i} : stored'[j] = stored[j]
    BY <1>1 DEF Write, KeyTypeOK
  <1>4. /\ held' \in [CacheItems -> [CacheValues -> Nat]] /\ held'[i][v] = tick
        /\ \A j \in CacheItems, u \in CacheValues :
              j # i \/ u # v => held'[j][u] = held[j][u]
    BY <1>1 DEF Write, KeyTypeOK
  <1>5. KeyTypeOK'
    BY <1>1, <1>2, <1>3, <1>4 DEF KeyTypeOK
  <1>6. HeldGrows
    BY <1>1, <1>4 DEF HeldGrows, HistoryInv, KeyTypeOK
  <1>7. HistoryInv'
    <2>1. ASSUME NEW j \in CacheItems PROVE held'[j][stored'[j]] = tick
      <3>1. CASE j = i
        BY <1>3, <1>4, <3>1
      <3>2. CASE j # i
        <4>1. stored'[j] = stored[j] /\ stored[j] \in CacheValues /\ held[j][stored[j]] = tick
          BY <1>1, <1>3, <3>2 DEF HistoryInv, KeyTypeOK
        <4> QED
          BY <1>4, <3>2, <4>1
      <3> QED
        BY <3>1, <3>2
    <2>2. \A j \in CacheItems, u \in CacheValues : held'[j][u] <= tick
      BY <1>1, <1>2, <1>4 DEF HistoryInv
    <2> QED
      BY <1>1, <1>2, <2>1, <2>2 DEF HistoryInv
  <1>8. CacheInv'
    BY <1>1, <1>2, <1>5, <1>6, EntryKept DEF CacheInv
  <1>9. \A c \in KeyCallers : CallerOK(c)'
    BY <1>1, <1>2, <1>5, <1>6, CallerKept
  <1> QED
    BY <1>5, <1>7, <1>8, <1>9 DEF KeyInv

\* A second passes: what is stored stays current.
LEMMA KeyTickStep ==
    ASSUME KeyInv, KeyTick
    PROVE  KeyInv'
  <1>1. KeyTypeOK /\ HistoryInv /\ CacheInv /\ \A c \in KeyCallers : CallerOK(c)
    BY DEF KeyInv
  <1>2. UNCHANGED <<stored, cached, caller>> /\ tick' = tick + 1 /\ tick \in Nat
    BY <1>1 DEF KeyTick, KeyTypeOK
  <1>3. \A j \in CacheItems : held'[j] = [held[j] EXCEPT ![stored[j]] = tick + 1]
    BY DEF KeyTick
  <1>4. /\ held' = [j \in CacheItems |-> held'[j]]
        /\ \A j \in CacheItems : held'[j] \in [CacheValues -> Nat]
        /\ \A j \in CacheItems, u \in CacheValues :
              held'[j][u] = IF u = stored[j] THEN tick + 1 ELSE held[j][u]
    BY <1>1, <1>2, <1>3 DEF KeyTick, KeyTypeOK
  <1>5. held' \in [CacheItems -> [CacheValues -> Nat]]
    BY <1>4
  <1>6. KeyTypeOK'
    BY <1>1, <1>2, <1>5 DEF KeyTypeOK
  <1>7. HeldGrows
    BY <1>1, <1>2, <1>4 DEF HeldGrows, HistoryInv, KeyTypeOK
  <1>8. HistoryInv'
    <2>1. \A j \in CacheItems : held'[j][stored[j]] = tick + 1
      BY <1>1, <1>4 DEF KeyTypeOK
    <2>2. ASSUME NEW j \in CacheItems, NEW u \in CacheValues PROVE held'[j][u] <= tick + 1
      <3>1. held[j][u] \in Nat /\ held[j][u] <= tick
        BY <1>1 DEF HistoryInv, KeyTypeOK
      <3> QED
        BY <1>2, <1>4, <3>1
    <2> QED
      BY <1>2, <2>1, <2>2 DEF HistoryInv
  <1>9. CacheInv'
    BY <1>1, <1>2, <1>6, <1>7, EntryKept DEF CacheInv
  <1>10. \A c \in KeyCallers : CallerOK(c)'
    BY <1>1, <1>2, <1>6, <1>7, CallerKept
  <1> QED
    BY <1>6, <1>8, <1>9, <1>10 DEF KeyInv

\* The steps of a caller that store nothing in the cache.
LEMMA CallerMoves ==
    ASSUME KeyInv, NEW c \in KeyCallers, NEW s \in CallerStates,
           caller' = [caller EXCEPT ![c] = s], CallerOK(c)', HeldGrows,
           held' \in [CacheItems -> [CacheValues -> Nat]], HistoryInv',
           UNCHANGED <<tick, stored, cached>>
    PROVE  KeyInv'
  <1>1. KeyTypeOK /\ HistoryInv /\ CacheInv /\ \A d \in KeyCallers : CallerOK(d)
    BY DEF KeyInv
  <1>2. /\ caller' \in [KeyCallers -> CallerStates]
        /\ \A d \in KeyCallers \ {c} : caller'[d] = caller[d]
    BY <1>1 DEF KeyTypeOK, CallerStates
  <1>3. KeyTypeOK'
    BY <1>1, <1>2 DEF KeyTypeOK, CallerStates
  <1>4. CacheInv'
    BY <1>1, <1>3, EntryKept DEF CacheInv
  <1>5. tick' >= tick
    BY <1>1 DEF KeyTypeOK
  <1>6. \A d \in KeyCallers : CallerOK(d)'
    BY <1>1, <1>2, <1>3, <1>5, CallerKept
  <1> QED
    BY <1>3, <1>4, <1>6 DEF KeyInv

\* A request begins, and looks at the cache.
LEMMA LookupSteps ==
    ASSUME KeyInv, NEW c \in KeyCallers,
           (\E i \in CacheItems : Begin(c, i)) \/ CheckCache(c)
    PROVE  KeyInv'
  <1>1. /\ KeyTypeOK /\ HistoryInv /\ CacheInv /\ CallerOK(c) /\ tick \in Nat /\ tick > 0
        /\ caller[c] \in CallerStates /\ held \in [CacheItems -> [CacheValues -> Nat]]
    BY DEF KeyInv, KeyTypeOK, CallerStates, HistoryInv
  <1>2. UNCHANGED <<tick, stored, cached, held>>
    BY DEF Begin, CheckCache
  <1>3. HeldGrows /\ HistoryInv'
    BY <1>1, <1>2 DEF HeldGrows, HistoryInv
  <1>4. ASSUME NEW i \in CacheItems, Begin(c, i) PROVE KeyInv'
    <2> DEFINE s == [pc |-> "check", item |-> i, now |-> tick, value |-> "none"]
    <2>1. s \in CallerStates /\ caller' = [caller EXCEPT ![c] = s]
      BY <1>1, <1>4 DEF CallerStates, CacheValues, Begin
    <2>2. caller'[c] = s
      BY <1>1, <2>1 DEF KeyTypeOK
    <2>3. CallerOK(c)'
      BY <1>1, <1>2, <2>2 DEF CallerOK
    <2> QED
      BY <1>1, <1>2, <1>3, <2>1, <2>3, CallerMoves
  <1>5. CASE CheckCache(c)
    <2> DEFINE e == cached[caller[c].item]
    <2>1. /\ caller[c].pc = "check" /\ e \in [value : CacheValues, expires : Nat]
          /\ caller[c].now \in Nat /\ caller[c].now > 0 /\ caller[c].now <= tick
          /\ caller[c].item \in CacheItems
      BY <1>1, <1>5 DEF CheckCache, CallerOK, CallerStates, KeyTypeOK
    <2>2. CASE caller[c].now < e.expires
      <3> DEFINE s == [caller[c] EXCEPT !.pc = "answered", !.value = e.value]
      <3>1. caller' = [caller EXCEPT ![c] = s]
        BY <1>5, <2>2 DEF CheckCache
      <3>2. /\ s \in CallerStates /\ s.pc = "answered" /\ s.value = e.value
            /\ s.item = caller[c].item /\ s.now = caller[c].now
        BY <1>1, <2>1 DEF CallerStates
      <3>3. caller'[c] = s
        BY <1>1, <3>1 DEF KeyTypeOK
      <3>4. /\ held[caller[c].item][e.value] > 0 /\ held[caller[c].item][e.value] \in Nat
            /\ held[caller[c].item][e.value] + Lifetime(e.value) >= e.expires
        <4>1. e.expires \in Nat /\ e.value \in CacheValues
          BY <2>1
        <4>2. e.expires > 0
          <5> HIDE DEF e
          <5> QED BY <2>1, <2>2, <4>1
        <4>3. held[caller[c].item][e.value] \in Nat
          BY <1>1, <2>1, <4>1
        <4> QED BY <1>1, <2>1, <4>2, <4>3 DEF CacheInv
      <3>5. Lifetime(e.value) \in Nat
        BY LifetimePositive
      <3>6. e.expires \in Nat
        BY <2>1
      <3>7. held[caller[c].item][e.value] + Lifetime(e.value) > caller[c].now
        <4> HIDE DEF e
        <4> QED BY <2>1, <2>2, <3>4, <3>5, <3>6
      <3> HIDE DEF s
      <3>8. /\ caller'[c].pc = "answered" /\ caller'[c].value = e.value
            /\ caller'[c].item = caller[c].item /\ caller'[c].now = caller[c].now
        BY <3>2, <3>3
      <3> HIDE DEF e
      <3>9. CallerOK(c)'
        BY <1>2, <2>1, <3>4, <3>7, <3>8 DEF CallerOK
      <3> QED
        BY <1>1, <1>2, <1>3, <3>1, <3>2, <3>9, CallerMoves
    <2>3. CASE ~(caller[c].now < e.expires)
      <3> DEFINE s == [caller[c] EXCEPT !.pc = "load"]
      <3>1. caller' = [caller EXCEPT ![c] = s]
        BY <1>5, <2>3 DEF CheckCache
      <3>2. s \in CallerStates /\ s.pc = "load" /\ s.now = caller[c].now
        BY <1>1 DEF CallerStates
      <3>3. caller'[c] = s
        BY <1>1, <3>1 DEF KeyTypeOK
      <3>4. CallerOK(c)'
        BY <1>2, <2>1, <3>2, <3>3 DEF CallerOK
      <3> HIDE DEF s
      <3> QED
        BY <1>1, <1>2, <1>3, <3>1, <3>2, <3>4, CallerMoves
    <2> QED
      BY <2>2, <2>3
  <1> QED
    BY <1>4, <1>5

\* The query: what it answers, or that it failed, is current when it is read.
LEMMA LoadSteps ==
    ASSUME KeyInv, NEW c \in KeyCallers, Load(c) \/ LoadError(c)
    PROVE  KeyInv'
  <1> DEFINE i == caller[c].item
  <1>1. /\ KeyTypeOK /\ HistoryInv /\ CallerOK(c) /\ tick \in Nat /\ tick > 0
        /\ caller[c] \in CallerStates /\ held \in [CacheItems -> [CacheValues -> Nat]]
    BY DEF KeyInv, KeyTypeOK, CallerStates, HistoryInv
  <1>2. /\ i \in CacheItems /\ stored[i] \in CacheValues /\ caller[c].now \in Nat
        /\ caller[c].now > 0 /\ caller[c].now <= tick
        /\ UNCHANGED <<tick, stored, cached>>
    BY <1>1 DEF Load, LoadError, CallerOK, CallerStates, KeyTypeOK
  <1>3. ASSUME NEW pc \in {"store", "answered"}, NEW v \in CacheValues,
               caller' = [caller EXCEPT ![c].pc = pc, ![c].value = v],
               held'[i][v] = tick, HeldGrows, HistoryInv',
               held' \in [CacheItems -> [CacheValues -> Nat]]
        PROVE  KeyInv'
    <2> DEFINE s == [caller[c] EXCEPT !.pc = pc, !.value = v]
    <2>1. caller' = [caller EXCEPT ![c] = s]
      BY <1>3
    <2>2. /\ s \in CallerStates /\ s.pc = pc /\ s.value = v
          /\ s.item = i /\ s.now = caller[c].now
      BY <1>1, <1>3 DEF CallerStates
    <2>3. caller'[c] = s
      BY <1>1, <2>1 DEF KeyTypeOK
    <2>4. Lifetime(v) \in Nat \ {0}
      BY LifetimePositive
    <2>5. CallerOK(c)'
      <3>1. /\ caller'[c].pc = pc /\ caller'[c].value = v
            /\ caller'[c].item = i /\ caller'[c].now = caller[c].now
        BY <2>2, <2>3
      <3>2. held'[caller'[c].item][caller'[c].value] = tick
        BY <1>3, <3>1
      <3>3. tick + Lifetime(caller'[c].value) > caller'[c].now /\ tick' = tick
        <4>1. tick \in Nat /\ tick' = tick /\ caller[c].now \in Nat /\ caller[c].now <= tick
          BY <1>1, <1>2
        <4>2. tick + Lifetime(v) > caller[c].now
          BY <2>4, <4>1
        <4> QED BY <3>1, <4>1, <4>2
      <3> QED
        BY <1>1, <1>2, <3>1, <3>2, <3>3 DEF CallerOK
    <2> HIDE DEF s
    <2> QED
      BY <1>2, <1>3, <2>1, <2>2, <2>5, CallerMoves
  <1>4. CASE Load(c)
    <2>1. held' = held /\ caller' = [caller EXCEPT ![c].pc = "store", ![c].value = stored[i]]
      BY <1>4 DEF Load
    <2>2. held'[i][stored[i]] = tick /\ HeldGrows /\ HistoryInv'
      BY <1>1, <1>2, <2>1 DEF HistoryInv, HeldGrows
    <2> QED
      BY <1>1, <1>2, <1>3, <2>1, <2>2
  <1>5. CASE LoadError(c)
    <2>1. held' = [held EXCEPT ![i]["failed"] = tick] /\ "failed" \in CacheValues
      BY <1>5 DEF LoadError, CacheValues
    <2>2. /\ held' \in [CacheItems -> [CacheValues -> Nat]] /\ held'[i]["failed"] = tick
          /\ \A j \in CacheItems, u \in CacheValues :
                held'[j][u] = held[j][u] \/ (held'[j][u] = tick)
      BY <1>1, <1>2, <2>1
    <2>3. HeldGrows
      BY <1>1, <2>2 DEF HeldGrows, HistoryInv
    <2>4. HistoryInv'
      <3>1. ASSUME NEW j \in CacheItems PROVE held'[j][stored[j]] = tick
        <4>1. stored[j] \in CacheValues /\ held[j][stored[j]] = tick
          BY <1>1 DEF HistoryInv, KeyTypeOK
        <4> QED
          BY <2>2, <4>1
      <3>2. \A j \in CacheItems, u \in CacheValues : held'[j][u] <= tick
        BY <1>1, <2>2 DEF HistoryInv
      <3> QED
        BY <1>1, <1>2, <3>1, <3>2 DEF HistoryInv
    <2>5. PICK pc \in {"store", "answered"} :
            caller' = [caller EXCEPT ![c].pc = pc, ![c].value = "failed"]
      BY <1>5 DEF LoadError
    <2> QED
      BY <1>3, <2>1, <2>2, <2>3, <2>4, <2>5
  <1> QED
    BY <1>4, <1>5

\* The answer is stored for a life counted from the caller's reading of the
\* clock, which is before the read of the database.
LEMMA StoreAnswerStep ==
    ASSUME KeyInv, NEW c \in KeyCallers, StoreAnswer(c)
    PROVE  KeyInv'
  <1> DEFINE i == caller[c].item
             v == caller[c].value
  <1>1. /\ KeyTypeOK /\ HistoryInv /\ CacheInv /\ \A d \in KeyCallers : CallerOK(d)
        /\ caller[c] \in CallerStates /\ caller \in [KeyCallers -> CallerStates]
        /\ held \in [CacheItems -> [CacheValues -> Nat]]
        /\ cached \in [CacheItems -> [value : CacheValues, expires : Nat]]
    BY DEF KeyInv, KeyTypeOK, CallerStates
  <1>2. /\ i \in CacheItems /\ v \in CacheValues /\ caller[c].now \in Nat /\ caller[c].now > 0
        /\ caller[c].now <= tick /\ tick \in Nat
        /\ held[i][v] >= caller[c].now /\ held[i][v] \in Nat
        /\ UNCHANGED <<tick, stored, held>>
    BY <1>1 DEF StoreAnswer, CallerOK, CallerStates, KeyTypeOK
  <1>3. Lifetime(v) \in Nat \ {0}
    BY LifetimePositive
  <1>4. /\ cached' \in [CacheItems -> [value : CacheValues, expires : Nat]]
        /\ cached'[i].value = v /\ cached'[i].expires = caller[c].now + Lifetime(v)
        /\ \A j \in CacheItems \ {i} : cached'[j] = cached[j]
    <2> DEFINE e == [value |-> v, expires |-> caller[c].now + Lifetime(v)]
    <2>1. cached' = [cached EXCEPT ![i] = e] /\ e \in [value : CacheValues, expires : Nat]
      BY <1>2, <1>3 DEF StoreAnswer
    <2> QED
      BY <1>1, <1>2, <2>1
  <1>5. /\ caller' \in [KeyCallers -> CallerStates]
        /\ \A d \in KeyCallers \ {c} : caller'[d] = caller[d]
        /\ caller'[c].pc = "answered" /\ caller'[c].now = caller[c].now
        /\ caller'[c].item = i /\ caller'[c].value = v
    BY <1>1 DEF StoreAnswer, CallerStates
  <1>6. KeyTypeOK' /\ HeldGrows /\ HistoryInv'
    BY <1>1, <1>2, <1>4, <1>5 DEF KeyTypeOK, CallerStates, HeldGrows, HistoryInv
  <1>7. CacheInv'
    <2>1. ASSUME NEW j \in CacheItems, cached'[j].expires > 0
          PROVE  /\ held'[j][cached'[j].value] > 0
                 /\ held'[j][cached'[j].value] + Lifetime(cached'[j].value) >= cached'[j].expires
      <3>1. CASE j = i
        <4> HIDE DEF i, v
        <4>1. held[i][v] > 0 /\ held[i][v] + Lifetime(v) >= caller[c].now + Lifetime(v)
          BY <1>2, <1>3
        <4> QED BY <1>2, <1>4, <3>1, <4>1
      <3>2. CASE j # i
        BY <1>1, <1>4, <1>6, <2>1, <3>2, EntryKept
      <3> QED
        BY <3>1, <3>2
    <2> QED
      BY <2>1 DEF CacheInv
  <1>8. CallerOK(c)'
    BY <1>2, <1>3, <1>5 DEF CallerOK
  <1>9. \A d \in KeyCallers : CallerOK(d)'
    BY <1>1, <1>2, <1>5, <1>6, <1>8, CallerKept
  <1> QED
    BY <1>6, <1>7, <1>9 DEF KeyInv

\* Every step of the cache, its callers and the database preserves the
\* invariant.
LEMMA KeyInvStep == KeyInv /\ [KeyNext]_keyVars => KeyInv'
  <1> SUFFICES ASSUME KeyInv, [KeyNext]_keyVars PROVE KeyInv'
    OBVIOUS
  <1>1. CASE UNCHANGED keyVars
    BY <1>1 DEF KeyInv, keyVars, KeyTypeOK, HistoryInv, CacheInv, CallerOK
  <1>2. ASSUME NEW k \in RawKeys, CreateKey(k) \/ RevokeKey(k) PROVE KeyInv'
    <2>1. k \in CacheItems /\ "active" \in CacheValues /\ "revoked" \in CacheValues
      BY DEF CacheItems, CacheValues
    <2> QED
      BY <1>2, <2>1, WriteStep DEF CreateKey, RevokeKey
  <1>3. ASSUME NEW u \in ChainUsers, NEW ch \in Chains, SetUserProject(u, ch) PROVE KeyInv'
    <2>1. u \in CacheItems /\ ch \in CacheValues
      BY DEF CacheItems, CacheValues
    <2> QED
      BY <1>3, <2>1, WriteStep DEF SetUserProject
  <1> QED
    BY <1>1, <1>2, <1>3, LookupSteps, LoadSteps, StoreAnswerStep, KeyTickStep DEF KeyNext

\* "cached, 60s TTL" (README), for any number of keys, users and callers and
\* any lifetimes: an answer was the truth less than its lifetime before its
\* request began, or later.
THEOREM AnswersAreFresh == KeySpec => []FreshAnswer
  <1>1. KeyInv => FreshAnswer
    BY DEF KeyInv, CallerOK, FreshAnswer
  <1> QED
    BY <1>1, KeyInvInit, KeyInvStep, PTL DEF KeySpec

-----------------------------------------------------------------------------
(* Identity *)

\* An account of that name is in the users table under that id.
Account(uid, name) == uid \in DOMAIN users /\ users[uid].name = name

IdTypeOK ==
    /\ users \in Seq([name : STRING, password : {"own", "random"}])
    /\ identities \in [Subjects -> Nat]
    /\ attempt \in [Attempts ->
          [pc : {"idle", "idp", "callback", "lookup", "register", "link", "done", "failed",
                 "panicked"},
           subject : Subjects \cup {Fresh.subject}, uid : Nat]]

\* The users table has no two rows of one name.
NamesAreUnique ==
    \A i, j \in DOMAIN users : users[i].name = users[j].name => i = j

\* What a login holds between two exchanges.
AttemptOK(a) ==
    /\ attempt[a].pc \in {"callback", "lookup", "register", "link"} =>
         attempt[a].subject \in Subjects
    /\ attempt[a].pc = "link" => Account(attempt[a].uid, EmailOf[attempt[a].subject])

\* A subject's link leads to the account of its email.
LinkOK(s) == identities[s] # 0 => Account(identities[s], EmailOf[s])

\* Links, logins under way and sessions lead to the account named as the person.
IdInv ==
    /\ IdTypeOK
    /\ NamesAreUnique
    /\ \A s \in Subjects : LinkOK(s)
    /\ \A a \in Attempts : AttemptOK(a)
    /\ \A m \in sessions : Account(m.uid, NameOf(m.who))

\* Nobody is known at first.
LEMMA IdInvInit == IdInit => IdInv
<1>1. Fresh.pc = "idle" /\ Fresh \in [pc : {"idle"}, subject : {Fresh.subject}, uid : {0}]
  BY DEF Fresh
<1> QED BY <1>1 DEF IdInit, IdInv, IdTypeOK, NamesAreUnique, AttemptOK, LinkOK

\* A step of one login that adds no account.
LEMMA AttemptStep ==
    ASSUME IdInv, NEW a \in Attempts, UNCHANGED users,
           NEW x \in [pc : {"idle", "idp", "callback", "lookup", "register", "link", "done",
                            "failed", "panicked"},
                      subject : Subjects \cup {Fresh.subject}, uid : Nat],
           attempt' = [attempt EXCEPT ![a] = x],
           x.pc \in {"callback", "lookup", "register"} => x.subject \in Subjects, x.pc # "link",
           identities' = identities \/ (attempt[a].pc = "link" /\ identities' = Linked(a)),
           \A m \in sessions' : m \in sessions \/ Account(m.uid, NameOf(m.who))
    PROVE  IdInv'
<1>1. /\ IdTypeOK /\ NamesAreUnique
      /\ \A s \in Subjects : LinkOK(s)
      /\ \A b \in Attempts : AttemptOK(b)
      /\ \A m \in sessions : Account(m.uid, NameOf(m.who))
  BY DEF IdInv
<1>2. attempt'[a] = x /\ \A b \in Attempts : b # a => attempt'[b] = attempt[b]
  BY <1>1 DEF IdTypeOK
<1>3. \A b \in Attempts : AttemptOK(b)'
  BY <1>1, <1>2 DEF AttemptOK, Account
<1>4. /\ identities' \in [Subjects -> Nat]
      /\ \A s \in Subjects : LinkOK(s)'
  <2>1. CASE identities' = identities
    BY <1>1, <2>1 DEF IdTypeOK, Account, LinkOK
  <2>2. CASE attempt[a].pc = "link" /\ identities' = Linked(a)
    <3>1. /\ attempt[a].subject \in Subjects /\ attempt[a].uid \in Nat
          /\ Account(attempt[a].uid, EmailOf[attempt[a].subject])
      BY <1>1, <2>2 DEF AttemptOK, IdTypeOK
    <3>2. \A s \in Subjects : \/ identities'[s] = identities[s]
                              \/ s = attempt[a].subject /\ identities'[s] = attempt[a].uid
      BY <1>1, <2>2 DEF Linked, IdTypeOK
    <3>3. identities' \in [Subjects -> Nat]
      BY <1>1, <2>2, <3>1 DEF Linked, IdTypeOK
    <3> QED BY <1>1, <3>1, <3>2, <3>3 DEF Account, LinkOK
  <2> QED BY <2>1, <2>2
<1>5. \A m \in sessions' : Account(m.uid, NameOf(m.who))'
  BY <1>1 DEF Account
<1>6. IdTypeOK'
  BY <1>1, <1>4 DEF IdTypeOK
<1>7. NamesAreUnique'
  BY <1>1 DEF NamesAreUnique
<1> QED BY <1>3, <1>4, <1>5, <1>6, <1>7 DEF IdInv

\* INSERT ... ON CONFLICT: a new row has a name no other row has.
LEMMA RegisterAdds ==
    ASSUME IdTypeOK, NamesAreUnique, NEW name \in STRING, NEW password \in {"own", "random"},
           Register(name, password)
    PROVE  /\ users' \in Seq([name : STRING, password : {"own", "random"}])
           /\ NamesAreUnique'
           /\ \A uid, n : Account(uid, n) => Account(uid, n)'
           /\ \A i : i = Len(users) + 1 => Account(i, name)' /\ i \in Nat
<1> DEFINE row == [name |-> name, password |-> password]
<1>1. /\ users \in Seq([name : STRING, password : {"own", "random"}])
      /\ users' = Append(users, row) /\ row.name = name
      /\ row \in [name : STRING, password : {"own", "random"}]
  BY DEF IdTypeOK, Register
<1>2. \A i \in DOMAIN users : users[i].name # name
  <2>1. UserIDByUsername(name) = 0
    BY DEF Register
  <2>2. 0 \notin DOMAIN users
    BY <1>1
  <2> QED BY <2>1, <2>2 DEF UserIDByUsername
<1> HIDE DEF row
<1>3. /\ DOMAIN users' = DOMAIN users \cup {Len(users) + 1}
      /\ \A i \in DOMAIN users : users'[i] = users[i]
      /\ users'[Len(users) + 1] = row
      /\ Len(users) + 1 \in Nat
  BY <1>1
<1>4. NamesAreUnique'
  BY <1>1, <1>2, <1>3 DEF NamesAreUnique
<1>5. users' \in Seq([name : STRING, password : {"own", "random"}])
  BY <1>1
<1>6. ASSUME NEW i, i = Len(users) + 1 PROVE Account(i, name)' /\ i \in Nat
  BY <1>1, <1>3, <1>6 DEF Account
<1> QED BY <1>3, <1>4, <1>5, <1>6 DEF Account

\* Every step keeps the invariant: only Register adds accounts, and a link is
\* made and a session signed for the account the login has found or added.
LEMMA IdInvStep == IdInv /\ [IdNext]_idVars => IdInv'
<1> SUFFICES ASSUME IdInv, [IdNext]_idVars PROVE IdInv'
  OBVIOUS
<1>1. /\ IdTypeOK /\ NamesAreUnique
      /\ \A s \in Subjects : LinkOK(s)
      /\ \A a \in Attempts : AttemptOK(a)
      /\ \A m \in sessions : Account(m.uid, NameOf(m.who))
  BY DEF IdInv
<1> DEFINE Goes(a, p) == [attempt[a] EXCEPT !.pc = p]
<1>2. ASSUME NEW a \in Attempts, NEW p \in {"lookup", "register", "done", "failed", "panicked"}
      PROVE  /\ Goes(a, p).pc = p /\ Goes(a, p).subject = attempt[a].subject
             /\ Goes(a, p) \in [pc : {"idle", "idp", "callback", "lookup", "register", "link",
                                      "done", "failed", "panicked"},
                                subject : Subjects \cup {Fresh.subject}, uid : Nat]
             /\ Goto(a, p) => attempt' = [attempt EXCEPT ![a] = Goes(a, p)]
  BY <1>1, <1>2 DEF IdTypeOK, Goto
<1> HIDE DEF Goes
<1>3. ASSUME NEW name \in LocalNames, RegisterLocal(name) PROVE IdInv'
  <2>1. name \in STRING
    BY IdentityAssumption DEF IdentityAssumption
  <2>2. /\ users' \in Seq([name : STRING, password : {"own", "random"}])
        /\ NamesAreUnique'
        /\ \A uid, n : Account(uid, n) => Account(uid, n)'
        /\ UNCHANGED <<identities, attempt, sessions>>
    BY <1>1, <1>3, <2>1, RegisterAdds DEF RegisterLocal
  <2> QED BY <1>1, <2>2 DEF IdInv, IdTypeOK, LinkOK, AttemptOK
<1>4. ASSUME NEW name \in LocalNames, Login(name) PROVE IdInv'
  <2>1. UserIDByUsername(name) # 0 /\ UNCHANGED <<users, identities, attempt>>
    BY <1>4 DEF Login
  <2>2. Account(UserIDByUsername(name), name)
    BY <2>1 DEF UserIDByUsername, Account
  <2>3. \A m \in sessions' : m \in sessions \/ Account(m.uid, NameOf(m.who))
    BY <1>4, <2>2 DEF Login, Sign, NameOf
  <2> QED BY <1>1, <2>1, <2>3
      DEF IdInv, IdTypeOK, NamesAreUnique, LinkOK, AttemptOK, Account
<1>5. ASSUME NEW a \in Attempts, StartOIDC(a) PROVE IdInv'
  <2> DEFINE x == [Fresh EXCEPT !.pc = "idp"]
  <2>1. /\ x.pc = "idp"
        /\ x \in [pc : {"idle", "idp", "callback", "lookup", "register", "link", "done",
                         "failed", "panicked"},
                   subject : Subjects \cup {Fresh.subject}, uid : Nat]
    BY DEF Fresh
  <2>2. attempt' = [attempt EXCEPT ![a] = x] /\ UNCHANGED <<users, identities, sessions>>
    BY <1>5 DEF StartOIDC
  <2> HIDE DEF x
  <2> QED BY <2>1, <2>2, AttemptStep
<1>6. ASSUME NEW a \in Attempts, NEW s \in Subjects, Authorize(a, s) PROVE IdInv'
  <2> DEFINE x == [attempt[a] EXCEPT !.pc = "callback", !.subject = s]
  <2>1. /\ x.pc = "callback" /\ x.subject = s
        /\ x \in [pc : {"callback"}, subject : Subjects, uid : Nat]
        /\ attempt' = [attempt EXCEPT ![a] = x] /\ UNCHANGED <<users, identities, sessions>>
    BY <1>1, <1>6 DEF IdTypeOK, Authorize
  <2> HIDE DEF x
  <2> QED BY <2>1, AttemptStep
<1>7. ASSUME NEW a \in Attempts, HandleCallback(a) PROVE IdInv'
  <2>1. attempt[a].subject \in Subjects
    BY <1>1, <1>7 DEF HandleCallback, AttemptOK
  <2>2. PICK p \in {"lookup", "failed"} : Goto(a, p)
    BY <1>7 DEF HandleCallback
  <2>3. UNCHANGED <<users, identities, sessions>>
    BY <1>7 DEF HandleCallback
  <2> QED BY <1>2, <2>1, <2>2, <2>3, AttemptStep, ZenonT(30)
<1>8. ASSUME NEW a \in Attempts, CallbackFails(a) PROVE IdInv'
  <2>1. /\ Goto(a, "failed") /\ UNCHANGED <<users, sessions>>
        /\ identities' = identities \/ (attempt[a].pc = "link" /\ identities' = Linked(a))
    BY <1>8 DEF CallbackFails
  <2> QED BY <1>2, <2>1, AttemptStep
<1>9. ASSUME NEW a \in Attempts, SubjectUserID(a) PROVE IdInv'
  <2>1. attempt[a].subject \in Subjects /\ UNCHANGED <<users, identities>>
    BY <1>1, <1>9 DEF SubjectUserID, AttemptOK
  <2>2. PICK p \in {"done", "register", "failed"} : Goto(a, p)
    BY <1>9 DEF SubjectUserID
  <2>3. \A m \in sessions' : m \in sessions \/ Account(m.uid, NameOf(m.who))
    <3>1. LinkOK(attempt[a].subject)
      BY <1>1, <2>1
    <3> QED BY <1>9, <3>1 DEF SubjectUserID, Sign, NameOf, LinkOK
  <2> QED BY <1>2, <2>1, <2>2, <2>3, AttemptStep
<1>10. ASSUME NEW a \in Attempts, RegisterOIDC(a) PROVE IdInv'
  <2>0. PICK name : name = EmailOf[attempt[a].subject]
    OBVIOUS
  <2>1. /\ attempt[a].subject \in Subjects /\ name \in STRING
        /\ UNCHANGED <<identities, sessions>>
    BY <1>1, <1>10, <2>0, IdentityAssumption DEF RegisterOIDC, AttemptOK, IdentityAssumption
  <2>2. CASE Goto(a, "panicked") /\ UNCHANGED users
    BY <1>2, <2>1, <2>2, AttemptStep
  <2>3. CASE /\ Register(name, "random")
             /\ attempt' = [attempt EXCEPT ![a].pc = "link", ![a].uid = Len(users) + 1]
    <3>1. PICK i : i = Len(users) + 1
      OBVIOUS
    <3>2. /\ users' \in Seq([name : STRING, password : {"own", "random"}])
          /\ NamesAreUnique'
          /\ \A uid, n : Account(uid, n) => Account(uid, n)'
          /\ \A j : j = Len(users) + 1 => Account(j, name)' /\ j \in Nat
      BY <1>1, <2>1, <2>3, RegisterAdds
    <3>3. /\ attempt'[a].pc = "link" /\ attempt'[a].uid = i
          /\ attempt'[a].subject = attempt[a].subject
          /\ \A b \in Attempts : b # a => attempt'[b] = attempt[b]
      BY <1>1, <2>3, <3>1 DEF IdTypeOK
    <3>4. IdTypeOK'
      <4>1. i \in Nat /\ identities' \in [Subjects -> Nat]
        BY <1>1, <2>1, <3>1, <3>2 DEF IdTypeOK
      <4>2. attempt' = [attempt EXCEPT ![a].pc = "link", ![a].uid = i]
        BY <2>3, <3>1
      <4> QED BY <1>1, <3>2, <4>1, <4>2, ZenonT(30) DEF IdTypeOK
    <3>5. \A b \in Attempts : AttemptOK(b)'
      <4>1. AttemptOK(a)'
        BY <2>0, <2>1, <3>1, <3>2, <3>3 DEF AttemptOK, Account
      <4> QED BY <1>1, <3>2, <3>3, <4>1 DEF AttemptOK
    <3> QED BY <1>1, <2>1, <3>2, <3>4, <3>5 DEF IdInv, LinkOK
  <2> QED BY <1>10, <2>0, <2>2, <2>3 DEF RegisterOIDC
<1>11. ASSUME NEW a \in Attempts, LinkSubject(a) PROVE IdInv'
  <2>1. /\ attempt[a].pc = "link" /\ identities' = Linked(a)
        /\ Goto(a, "done") /\ UNCHANGED users
    BY <1>11 DEF LinkSubject
  <2>2. \A m \in sessions' : m \in sessions \/ Account(m.uid, NameOf(m.who))
    BY <1>1, <1>11, <2>1 DEF LinkSubject, Sign, NameOf, AttemptOK
  <2> QED BY <1>2, <2>1, <2>2, AttemptStep
<1>12. CASE PortalCrash
  <2>1. /\ UNCHANGED <<users, identities, sessions>>
        /\ attempt' \in [Attempts ->
                          [pc : {"idle", "idp", "callback", "lookup", "register", "link",
                                 "done", "failed", "panicked"},
                           subject : Subjects \cup {Fresh.subject}, uid : Nat]]
        /\ \A a \in Attempts : attempt'[a] = attempt[a] \/ attempt'[a].pc = "failed"
    BY <1>1, <1>12 DEF PortalCrash, IdTypeOK
  <2> QED BY <1>1, <2>1, ZenonT(30) DEF IdInv, IdTypeOK, NamesAreUnique, LinkOK, AttemptOK, Account
<1>13. CASE UNCHANGED idVars
  BY <1>1, <1>13 DEF idVars, IdInv, IdTypeOK, NamesAreUnique, LinkOK, AttemptOK, Account
<1> QED
  BY <1>3, <1>4, <1>5, <1>6, <1>7, <1>8, <1>9, <1>10, <1>11, <1>12, <1>13 DEF IdNext

\* However OIDC callbacks overlap, fail or die half way, the sessions of a
\* person are all for one account, and an account's sessions are all for
\* people of that name.
THEOREM OneAccount == IdSpec => []OneAccountPerSubject
<1>1. IdInv => OneAccountPerSubject
  BY DEF IdInv, NamesAreUnique, Account, OneAccountPerSubject
<1> QED BY <1>1, IdInvInit, IdInvStep, PTL DEF IdSpec

-----------------------------------------------------------------------------
(* Directory *)

\* The first rows of a table.
FirstRows(read, rows) ==
    /\ DOMAIN read \subseteq DOMAIN rows
    /\ \A id \in DOMAIN read : read[id] = rows[id]

\* Foreign keys hold, and while no write came between the queries of OrgTree,
\* it has read the first rows of the tables as they are, and all of them where
\* the query did not break off.
DirInv ==
    /\ ForeignKeys(tables)
    /\ view \in Seq(Seq(TableRows))
    /\ quiet \in BOOLEAN
    /\ quiet => \A i \in 1 .. Len(view) :
          /\ FirstRows(view[i], tables[Layers[i]])
          /\ Layers[i] \notin cut => view[i] = tables[Layers[i]]

\* The five tables, in the order OrgTree reads them.
LEMMA LayerNames ==
    /\ Range(Layers) = {"org", "team", "project", "user", "key"}
    /\ Len(Layers) = 5 /\ \A i \in 1 .. 5 : Layers[i] \in Range(Layers)
    /\ Layers[1] = "org" /\ Layers[2] = "team" /\ Layers[3] = "project"
    /\ Layers[4] = "user" /\ Layers[5] = "key"
    /\ DOMAIN ParentLayer = {"team", "project", "user", "key"}
    /\ ParentLayer["team"] = "org" /\ ParentLayer["project"] = "team"
    /\ ParentLayer["user"] = "project" /\ ParentLayer["key"] = "user"
BY DEF Layers, ParentLayer, Range

\* A statement that keeps its table's ids and foreign keys keeps all of them.
LEMMA WrittenKeeps ==
    ASSUME DirInv, NEW layer \in Range(Layers), NEW rows \in Seq(TableRows),
           Written(layer, rows), DOMAIN tables[layer] \subseteq DOMAIN rows,
           layer \in DOMAIN ParentLayer =>
              \A id \in DOMAIN rows :
                 \/ rows[id].parent \in DOMAIN tables[ParentLayer[layer]]
                 \/ rows[id].parent = 0 /\ layer \in {"project", "user"}
    PROVE  DirInv'
<1>1. /\ tables \in [Range(Layers) -> Seq(TableRows)]
      /\ tables' = [tables EXCEPT ![layer] = rows] /\ quiet' = FALSE /\ UNCHANGED view
  BY DEF DirInv, ForeignKeys, Written
<1>2. tables' \in [Range(Layers) -> Seq(TableRows)]
  BY <1>1
<1>3. \A l \in Range(Layers) : DOMAIN tables[l] \subseteq DOMAIN tables'[l]
  BY <1>1
<1>4. ASSUME NEW l \in DOMAIN ParentLayer, NEW id \in DOMAIN tables'[l]
      PROVE  \/ tables'[l][id].parent \in DOMAIN tables'[ParentLayer[l]]
             \/ tables'[l][id].parent = 0 /\ l \in {"project", "user"}
  <2>1. l \in Range(Layers) /\ ParentLayer[l] \in Range(Layers)
    BY LayerNames
  <2>2. \/ tables'[l][id].parent \in DOMAIN tables[ParentLayer[l]]
        \/ tables'[l][id].parent = 0 /\ l \in {"project", "user"}
    <3>1. CASE l = layer
      BY <1>1, <2>1, <3>1
    <3>2. CASE l # layer
      BY <1>1, <2>1, <3>2 DEF DirInv, ForeignKeys
    <3> QED BY <3>1, <3>2
  <2> QED BY <1>3, <2>1, <2>2
<1>5. ForeignKeys(tables)'
  BY <1>2, <1>4 DEF ForeignKeys
<1> QED BY <1>1, <1>5 DEF DirInv

\* INSERT: the new row's parent is a row, or there is none to have.
LEMMA InsertKeeps ==
    ASSUME DirInv, NEW layer \in Range(Layers), NEW parent \in Nat, NEW q \in Quotas \cup {0},
           Insert(layer, parent, q),
           layer \in DOMAIN ParentLayer =>
              \/ parent \in DOMAIN tables[ParentLayer[layer]]
              \/ parent = 0 /\ layer \in {"project", "user"}
    PROVE  DirInv'
<1>1. PICK row \in TableRows : row = [parent |-> parent, limit |-> q]
  BY DEF TableRows
<1>2. PICK old \in Seq(TableRows) : old = tables[layer]
  BY DEF DirInv, ForeignKeys
<1>3. PICK rows : rows = Append(old, row)
  OBVIOUS
<1>4. /\ rows \in Seq(TableRows) /\ Written(layer, rows) /\ DOMAIN old \subseteq DOMAIN rows
      /\ \A id \in DOMAIN rows : rows[id] = row \/ (id \in DOMAIN old /\ rows[id] = old[id])
  BY <1>1, <1>2, <1>3 DEF Insert
<1>5. row.parent = parent
  BY <1>1
<1>6. layer \in DOMAIN ParentLayer => \A id \in DOMAIN old :
                 \/ old[id].parent \in DOMAIN tables[ParentLayer[layer]]
                 \/ old[id].parent = 0 /\ layer \in {"project", "user"}
  BY <1>2 DEF DirInv, ForeignKeys
<1> QED BY <1>2, <1>4, <1>5, <1>6, WrittenKeeps

\* UPDATE of a limit: no parent changes.
LEMMA LimitKeeps ==
    ASSUME DirInv, NEW layer \in Range(Layers), NEW id, NEW q \in Quotas,
           UpdateLimit(layer, id, q)
    PROVE  DirInv'
<1>1. PICK old \in Seq(TableRows) : old = tables[layer]
  BY DEF DirInv, ForeignKeys
<1>2. id \in DOMAIN old /\ old[id] \in TableRows
  BY <1>1 DEF UpdateLimit, Ids
<1>3. PICK row : row = [old[id] EXCEPT !.limit = q]
  OBVIOUS
<1>8. row \in TableRows /\ row.parent = old[id].parent
  BY <1>2, <1>3 DEF TableRows
<1>4. PICK rows : rows = [old EXCEPT ![id] = row]
  OBVIOUS
<1>5. /\ rows \in Seq(TableRows) /\ DOMAIN rows = DOMAIN old
      /\ \A i \in DOMAIN rows : rows[i].parent = old[i].parent
  BY <1>2, <1>4, <1>8
<1>6. Written(layer, rows)
  BY <1>1, <1>3, <1>4 DEF UpdateLimit
<1>7. layer \in DOMAIN ParentLayer => \A i \in DOMAIN old :
                 \/ old[i].parent \in DOMAIN tables[ParentLayer[layer]]
                 \/ old[i].parent = 0 /\ layer \in {"project", "user"}
  BY <1>1 DEF DirInv, ForeignKeys
<1> QED BY <1>1, <1>5, <1>6, <1>7, WrittenKeeps

\* UPDATE of a parent: the foreign key has the new parent be a row.
LEMMA ParentKeeps ==
    ASSUME DirInv, NEW layer \in DOMAIN ParentLayer, NEW id, NEW parent,
           UpdateParent(layer, id, parent)
    PROVE  DirInv'
<1>1. layer \in Range(Layers) /\ ParentLayer[layer] \in Range(Layers)
  BY LayerNames
<1>2. PICK old \in Seq(TableRows) : old = tables[layer]
  BY <1>1 DEF DirInv, ForeignKeys
<1>3. id \in DOMAIN old /\ old[id] \in TableRows
  BY <1>2 DEF UpdateParent, Ids
<1>4. parent \in DOMAIN tables[ParentLayer[layer]] /\ parent \in Nat
  BY <1>1 DEF UpdateParent, Ids, DirInv, ForeignKeys
<1>5. PICK row : row = [old[id] EXCEPT !.parent = parent]
  OBVIOUS
<1>10. row \in TableRows /\ row.parent = parent
  BY <1>3, <1>4, <1>5 DEF TableRows
<1>6. PICK rows : rows = [old EXCEPT ![id] = row]
  OBVIOUS
<1>7. /\ rows \in Seq(TableRows) /\ DOMAIN rows = DOMAIN old
      /\ \A i \in DOMAIN rows : rows[i].parent \in {parent, old[i].parent}
  BY <1>3, <1>6, <1>10
<1>8. Written(layer, rows)
  BY <1>2, <1>5, <1>6 DEF UpdateParent
<1>9. \A i \in DOMAIN old :
                 \/ old[i].parent \in DOMAIN tables[ParentLayer[layer]]
                 \/ old[i].parent = 0 /\ layer \in {"project", "user"}
  BY <1>2 DEF DirInv, ForeignKeys
<1> QED BY <1>1, <1>2, <1>4, <1>7, <1>8, <1>9, WrittenKeeps

\* The tables and what OrgTree has read of them, from step to step.
LEMMA DirStep == DirInv /\ [DirNext]_dirVars => DirInv'
<1> SUFFICES ASSUME DirInv, [DirNext]_dirVars PROVE DirInv'
  OBVIOUS
<1>1. CASE UNCHANGED dirVars
  BY <1>1 DEF DirInv, dirVars
<1>2. ASSUME NEW q \in Quotas, CreateOrg(q) \/ CreateProject(q) PROVE DirInv'
  BY <1>2, InsertKeeps, LayerNames DEF CreateOrg, CreateProject
<1>3. CASE RegisterUser
  BY <1>3, InsertKeeps, LayerNames DEF RegisterUser
<1>4. ASSUME NEW id \in 1 .. MaxRows, NEW q \in Quotas,
             CreateTeam(id, q) \/ CreateUserKey(id, q)
      PROVE  DirInv'
  <2>1. id \in Nat
    BY DirectoryAssumption DEF DirectoryAssumption
  <2> QED BY <1>4, <2>1, InsertKeeps, LayerNames DEF CreateTeam, CreateUserKey, Ids
<1>5. ASSUME NEW id \in 1 .. MaxRows, NEW q \in Quotas,
             \/ SetOrgLimits(id, q) \/ SetTeamLimits(id, q) \/ SetProjectLimits(id, q)
             \/ SetUserLimits(id, q) \/ SetKeyLimits(id, q)
      PROVE  DirInv'
  BY <1>5, LimitKeeps, LayerNames
  DEF SetOrgLimits, SetTeamLimits, SetProjectLimits, SetUserLimits, SetKeyLimits
<1>6. ASSUME NEW id \in 1 .. MaxRows, NEW parent \in 1 .. MaxRows,
             SetProjectTeam(id, parent) \/ AssignUserProject(id, parent)
      PROVE  DirInv'
  BY <1>6, ParentKeeps, LayerNames DEF SetProjectTeam, AssignUserProject
<1>7. ASSUME NEW n \in 0 .. MaxRows, ReadTable(n)
      PROVE  DirInv'
  <2>1. PICK i \in 1 .. 5 : i = Len(view) + 1
    BY <1>7, LayerNames DEF ReadTable, DirInv
  <2>2. PICK rows \in Seq(TableRows) : rows = tables[Layers[i]]
    BY LayerNames DEF DirInv, ForeignKeys
  <2>r. PICK t : t = SubSeq(rows, 1, n)
    OBVIOUS
  <2>t. /\ t \in Seq(TableRows) /\ FirstRows(t, rows)
        /\ n >= Len(rows) => t = rows
    <3>1. n \in 0 .. Len(rows)
      BY <1>7, <2>1, <2>2 DEF ReadTable
    <3>2. t \in Seq(TableRows) /\ Len(t) = n /\ \A k \in 1 .. n : t[k] = rows[k]
      BY <2>2, <2>r, <3>1
    <3> QED BY <2>2, <3>1, <3>2 DEF FirstRows
  <2>3. /\ view' = Append(view, t) /\ UNCHANGED tables
        /\ quiet' = (quiet \/ view = <<>>)
        /\ cut \subseteq cut' /\ (Layers[i] \notin cut' => n >= Len(rows))
    <3>1. /\ n \in 0 .. Len(rows)
          /\ cut' = IF n < Len(rows) THEN cut \cup {Layers[i]} ELSE cut
      BY <1>7, <2>1, <2>2 DEF ReadTable
    <3>2. cut \subseteq cut' /\ (n < Len(rows) => Layers[i] \in cut')
      BY <3>1
    <3>3. Layers[i] \notin cut' => n >= Len(rows)
      BY <2>2, <3>1, <3>2
    <3> QED BY <1>7, <2>1, <2>2, <2>r, <3>2, <3>3 DEF ReadTable
  <2>4. /\ view' \in Seq(Seq(TableRows)) /\ Len(view') = i /\ view'[i] = t
        /\ \A j \in 1 .. Len(view) : view'[j] = view[j]
    BY <2>1, <2>t, <2>3 DEF DirInv
  <2>5. ASSUME quiet', NEW j \in 1 .. Len(view')
        PROVE  /\ FirstRows(view'[j], tables'[Layers[j]])
               /\ Layers[j] \notin cut' => view'[j] = tables'[Layers[j]]
    <3>1. CASE j = i
      BY <2>2, <2>t, <2>3, <2>4, <3>1
    <3>2. CASE j # i
      <4>1. j \in 1 .. Len(view) /\ quiet
        BY <2>1, <2>3, <2>4, <2>5, <3>2 DEF DirInv
      <4> QED BY <2>3, <2>4, <4>1 DEF DirInv
    <3> QED BY <3>1, <3>2
  <2>6. quiet' \in BOOLEAN
    BY <2>3 DEF DirInv
  <2> QED BY <2>3, <2>4, <2>5, <2>6 DEF DirInv
<1> QED BY <1>1, <1>2, <1>3, <1>4, <1>5, <1>6, <1>7 DEF DirNext

\* Foreign keys and OrgTree's readings hold in every state.
LEMMA DirInvariant == DirSpec => []DirInv
<1>1. DirInit => DirInv
  <2> SUFFICES ASSUME DirInit PROVE DirInv
    OBVIOUS
  <2>1. ForeignKeys(tables)
    BY DirectoryAssumption DEF DirInit, DirectoryAssumption
  <2>2. view \in Seq(Seq(TableRows)) /\ quiet = FALSE
    BY DEF DirInit
  <2> QED BY <2>1, <2>2 DEF DirInv
<1> QED BY <1>1, DirStep, PTL DEF DirSpec

\* Two teams of one organisation have different places (teamIdx).
LEMMA PlacesDiffer ==
    ASSUME view \in Seq(Seq(TableRows)), Len(view) = 5, NEW o,
           NEW s \in TeamsOfOrg(o), NEW t \in TeamsOfOrg(o), s # t
    PROVE  TeamIdx(s) # TeamIdx(t)
<1> DEFINE Before(x) == {y \in TeamsOfOrg(o) : y < x}
<1>1. view[2] \in Seq(TableRows) /\ TeamsOfOrg(o) \subseteq 1 .. Len(view[2])
  <2>1. PICK rows \in Seq(TableRows) : rows = view[2]
    OBVIOUS
  <2>2. TeamsOfOrg(o) \subseteq DOMAIN rows /\ DOMAIN rows = 1 .. Len(rows)
    BY <2>1 DEF TeamsOfOrg, Scanned
  <2> QED BY <2>1, <2>2
<1>2. IsFiniteSet(TeamsOfOrg(o))
  <2>1. IsFiniteSet(1 .. Len(view[2]))
    BY <1>1, FS_Interval
  <2> QED BY <1>1, <2>1, FS_Subset
<1>3. TeamIdx(s) = Cardinality(Before(s)) /\ TeamIdx(t) = Cardinality(Before(t))
  BY DEF TeamIdx, TeamsOfOrg
<1>4. ASSUME NEW x \in TeamsOfOrg(o), NEW y \in TeamsOfOrg(o), x < y
      PROVE  Cardinality(Before(x)) # Cardinality(Before(y))
  <2>1. Before(x) \subseteq Before(y) /\ x \in Before(y) /\ x \notin Before(x)
    BY <1>1, <1>4
  <2>2. IsFiniteSet(Before(y))
    BY <1>2, FS_Subset
  <2> HIDE DEF Before
  <2> QED BY <2>1, <2>2, FS_Subset
<1>5. s < t \/ t < s
  BY <1>1
<1> HIDE DEF Before
<1> QED BY <1>3, <1>4, <1>5

\* The team and the organisation OrgTree shows a project under are its own.
LEMMA ProjectPlace ==
    ASSUME view \in Seq(Seq(TableRows)), Len(view) = 5
    PROVE  /\ \A n \in ProjectNodes : n[2] = view[3][n[1]].parent /\ n[3] = view[2][n[2]].parent
           /\ \A p \in Scanned(view[3]) : view[3][p].parent \in PlacedTeams =>
                 <<p, view[3][p].parent, view[2][view[3][p].parent].parent>> \in ProjectNodes
<1>1. ASSUME NEW p, view[3][p].parent \in PlacedTeams
      PROVE  /\ OrgOfProject(p) = {view[2][view[3][p].parent].parent}
             /\ Min(OrgOfProject(p)) = view[2][view[3][p].parent].parent
  <2>1. PICK t \in PlacedTeams : t = view[3][p].parent
    BY <1>1
  <2>2. PICK o \in DOMAIN view[1] : o = view[2][t].parent
    BY DEF PlacedTeams
  <2>3. o \in Nat
    BY DEF TableRows
  <2>4. OrgOfProject(p) = {o}
    BY <2>1, <2>2 DEF OrgOfProject, TeamAt, TeamsOfOrg, PlacedTeams
  <2>5. Min({o}) = o
    BY <2>3 DEF Min
  <2> QED BY <2>1, <2>2, <2>4, <2>5
<1>2. ASSUME NEW n \in ProjectNodes
      PROVE  n[2] = view[3][n[1]].parent /\ n[3] = view[2][n[2]].parent
  <2>1. PICK t \in PlacedTeams : t = view[3][n[1]].parent
    BY DEF ProjectNodes
  <2>2. n[3] = view[2][t].parent
    BY <1>1, <2>1 DEF ProjectNodes
  <2>3. n[2] \in TeamsOfOrg(n[3]) /\ TeamIdx(n[2]) = TeamIdx(t)
    BY <2>1 DEF ProjectNodes, TeamAt
  <2>4. t \in TeamsOfOrg(n[3])
    BY <2>2 DEF TeamsOfOrg, PlacedTeams
  <2>5. n[2] = t
    BY <2>3, <2>4, PlacesDiffer
  <2> QED BY <2>1, <2>2, <2>5
<1>3. ASSUME NEW p \in Scanned(view[3]), view[3][p].parent \in PlacedTeams
      PROVE  <<p, view[3][p].parent, view[2][view[3][p].parent].parent>> \in ProjectNodes
  <2>1. PICK t \in PlacedTeams : t = view[3][p].parent
    BY <1>3
  <2>2. PICK o \in DOMAIN view[1] : o = view[2][t].parent
    BY DEF PlacedTeams
  <2>3. OrgOfProject(p) # {} /\ Min(OrgOfProject(p)) = o
    BY <1>1, <2>1, <2>2
  <2>4. t \in TeamAt(o, TeamIdx(t))
    BY <2>2 DEF TeamAt, TeamsOfOrg, PlacedTeams
  <2>5. PICK n : n = <<p, t, o>>
    OBVIOUS
  <2>6. n[1] = p /\ n[2] = t /\ n[3] = o /\ n \in Scanned(view[3]) \X PlacedTeams \X DOMAIN view[1]
    BY <2>5
  <2>7. n \in ProjectNodes
    BY <2>1, <2>3, <2>4, <2>6 DEF ProjectNodes
  <2> QED BY <2>1, <2>2, <2>5, <2>7
<1> QED BY <1>2, <1>3

\* What OrgTree shows of a user: it is found from the user's own row.
Shown(u) ==
    LET p == view[4][u].parent
        t == view[3][p].parent
        o == view[2][t].parent
    IN <<u, <<p, t, o, view[4][u].limit, view[3][p].limit, view[2][t].limit, view[1][o].limit>>,
         {k \in Scanned(view[5]) : view[5][k].parent = u}>>

\* A user is shown when the rows up to its organisation are.
Placed(u) ==
    /\ u \in Scanned(view[4])
    /\ view[4][u].parent \in Scanned(view[3])
    /\ view[3][view[4][u].parent].parent \in PlacedTeams

\* OrgTree shows the users it places, each as its own rows say.
LEMMA TreeIsShown ==
    ASSUME view \in Seq(Seq(TableRows)), Len(view) = 5
    PROVE  OrgTree = {Shown(u) : u \in {x \in Scanned(view[4]) : Placed(x)}}
<1> DEFINE Node(n) ==
             <<n[1], <<n[2][1], n[2][2], n[2][3], view[4][n[1]].limit, view[3][n[2][1]].limit,
               view[2][n[2][2]].limit, view[1][n[2][3]].limit>>,
               {k \in Scanned(view[5]) : view[5][k].parent = n[1]}>>
<1>0. OrgTree = {Node(n) : n \in UserNodes}
  BY DEF OrgTree
<1>1. ASSUME NEW n \in UserNodes PROVE Placed(n[1]) /\ Node(n) = Shown(n[1])
  <2>1. /\ n[1] \in Scanned(view[4]) /\ n[2] \in ProjectNodes /\ view[4][n[1]].parent = n[2][1]
    BY DEF UserNodes
  <2>2. n[2][2] = view[3][n[2][1]].parent /\ n[2][3] = view[2][n[2][2]].parent
    BY <2>1, ProjectPlace
  <2>3. n[2][1] \in Scanned(view[3]) /\ view[3][n[2][1]].parent \in PlacedTeams
    BY <2>1 DEF ProjectNodes
  <2> QED BY <2>1, <2>2, <2>3 DEF Placed, Shown
<1>2. ASSUME NEW u \in Scanned(view[4]), Placed(u)
      PROVE  \E n \in UserNodes : Node(n) = Shown(u)
  <2>1. PICK m \in ProjectNodes :
            m = <<view[4][u].parent, view[3][view[4][u].parent].parent,
                  view[2][view[3][view[4][u].parent].parent].parent>>
    BY <1>2, ProjectPlace DEF Placed
  <2>2. PICK n : n = <<u, m>>
    OBVIOUS
  <2>3. n \in UserNodes /\ n[1] = u
    BY <2>1, <2>2 DEF UserNodes
  <2>4. Node(n) = Shown(u)
    BY <1>1, <2>3
  <2> QED BY <2>3, <2>4
<1>3. ASSUME NEW n \in UserNodes PROVE n[1] \in Scanned(view[4])
  BY DEF UserNodes
<1> HIDE DEF Node
<1> QED BY <1>0, <1>1, <1>2, <1>3

\* The rows of a table in which every row has a parent are all scanned.
LEMMA AllScanned ==
    ASSUME NEW rows \in Seq(TableRows), \A id \in DOMAIN rows : rows[id].parent # 0
    PROVE  Scanned(rows) = DOMAIN rows
<1>1. DOMAIN rows = 1 .. Len(rows) /\ Len(rows) \in Nat
  OBVIOUS
<1>2. \A id \in DOMAIN rows : \A before \in 1 .. id : before \in DOMAIN rows
  BY <1>1
<1> QED BY <1>2 DEF Scanned

\* OrgTree and ChainOfUser agree: an administrator sees a user under the
\* project, team and organisation, and with the limits, that ChainOfUser's joins
\* yield over the five tables as OrgTree read them, and nobody twice, whatever
\* admin calls come between the queries and whichever of them break off.
\* Without such a call that is the chain the limiter enforces, and the keys are
\* the user's own.  For any number of rows.
THEOREM TreeAndChainAgree == DirSpec => []TreeAgreesWithChain
<1>1. DirInv => TreeAgreesWithChain
  <2> SUFFICES ASSUME DirInv, Len(view) = 5 PROVE TreeAgreesWithChain
    BY LayerNames DEF TreeAgreesWithChain
  <2>1. OrgTree = {Shown(u) : u \in {x \in Scanned(view[4]) : Placed(x)}}
    BY TreeIsShown DEF DirInv
  <2>2. \A u : Shown(u)[1] = u
    BY DEF Shown
  <2>3. \A m, n \in OrgTree : m[1] = n[1] => m = n
    BY <2>1, <2>2
  <2>4. ASSUME NEW n \in OrgTree
        PROVE  /\ n[2] = Chain(Seen, n[1])
               /\ quiet => n[2] = ChainOfUser(n[1])
    <3>1. PICK u \in Scanned(view[4]) : n = Shown(u) /\ Placed(u)
      BY <2>1
    <3>2. PICK p, t, o : p = view[4][u].parent /\ t = view[3][p].parent /\ o = view[2][t].parent
      OBVIOUS
    <3>3. /\ u \in DOMAIN view[4] /\ p \in DOMAIN view[3]
          /\ t \in DOMAIN view[2] /\ o \in DOMAIN view[1]
      BY <3>1, <3>2 DEF Placed, PlacedTeams, Scanned
    <3>4. /\ n[1] = u
          /\ n[2] = <<p, t, o, view[4][u].limit, view[3][p].limit, view[2][t].limit,
                      view[1][o].limit>>
      BY <3>1, <3>2 DEF Shown
    <3>5. Chain(Seen, u) = <<p, t, o, view[4][u].limit, view[3][p].limit, view[2][t].limit,
                             view[1][o].limit>>
      BY <3>2, <3>3 DEF Chain, RowOf, Seen
    <3>6. ASSUME quiet PROVE n[2] = ChainOfUser(u)
      <4>1. /\ FirstRows(view[1], tables["org"]) /\ FirstRows(view[2], tables["team"])
            /\ FirstRows(view[3], tables["project"]) /\ FirstRows(view[4], tables["user"])
        BY <3>6, LayerNames DEF DirInv
      <4>2. /\ u \in DOMAIN tables["user"] /\ p \in DOMAIN tables["project"]
            /\ t \in DOMAIN tables["team"] /\ o \in DOMAIN tables["org"]
            /\ tables["user"][u] = view[4][u] /\ tables["project"][p] = view[3][p]
            /\ tables["team"][t] = view[2][t] /\ tables["org"][o] = view[1][o]
        BY <3>3, <4>1 DEF FirstRows
      <4>3. ChainOfUser(u) = <<p, t, o, view[4][u].limit, view[3][p].limit, view[2][t].limit,
                               view[1][o].limit>>
        BY <3>2, <4>2 DEF ChainOfUser, Chain, RowOf
      <4> QED BY <3>4, <4>3
    <3> QED BY <3>4, <3>5, <3>6
  <2>5. ASSUME quiet, NEW n \in OrgTree
        PROVE  LET own == {k \in Ids("key") : tables["key"][k].parent = n[1]}
               IN n[3] \subseteq own /\ ("key" \notin cut => n[3] = own)
    <3>1. n[3] = {k \in Scanned(view[5]) : view[5][k].parent = n[1]}
      <4>1. PICK u : n = Shown(u)
        BY <2>1
      <4> QED BY <4>1 DEF Shown
    <3>2. FirstRows(view[5], tables["key"]) /\ ("key" \notin cut => view[5] = tables["key"])
      BY <2>5, LayerNames DEF DirInv
    <3>3. Scanned(tables["key"]) = Ids("key")
      <4>1. tables["key"] \in Seq(TableRows) /\ tables["user"] \in Seq(TableRows)
        BY LayerNames DEF DirInv, ForeignKeys
      <4>2. \A k \in DOMAIN tables["key"] : tables["key"][k].parent \in DOMAIN tables["user"]
        BY LayerNames DEF DirInv, ForeignKeys
      <4>3. \A k \in DOMAIN tables["key"] : tables["key"][k].parent # 0
        BY <4>1, <4>2
      <4> QED BY <4>1, <4>3, AllScanned DEF Ids
    <3>4. Scanned(view[5]) \subseteq DOMAIN view[5]
      BY DEF Scanned
    <3>5. n[3] \subseteq {k \in Ids("key") : tables["key"][k].parent = n[1]}
      BY <3>1, <3>2, <3>4 DEF FirstRows, Ids
    <3> QED BY <3>1, <3>2, <3>3, <3>5
  <2> QED BY <2>3, <2>4, <2>5, LayerNames DEF TreeAgreesWithChain
<1> QED BY <1>1, DirInvariant, PTL

\* OrgTree hides no user once every project and user is attached, as long as no
\* admin call comes between its queries and none of the first four fails or
\* breaks off: the foreign keys lead from each user to an organisation it holds.
THEOREM AttachedUsersAreShown == DirSpec => []AttachedTreeIsFull
<1>1. DirInv => AttachedTreeIsFull
  <2> SUFFICES ASSUME DirInv, Len(view) = 5, quiet, cut \subseteq {"key"},
                      \A layer \in {"project", "user"} : \A id \in Ids(layer) :
                         tables[layer][id].parent # 0
               PROVE  {n[1] : n \in OrgTree} = Ids("user")
    BY LayerNames DEF AttachedTreeIsFull
  <2>1. /\ view[1] = tables["org"] /\ view[2] = tables["team"] /\ view[3] = tables["project"]
        /\ view[4] = tables["user"]
    BY LayerNames DEF DirInv
  <2>2. \A layer \in {"org", "team", "project", "user"} : tables[layer] \in Seq(TableRows)
    BY LayerNames DEF DirInv, ForeignKeys
  <2>3. /\ \A id \in DOMAIN view[2] : view[2][id].parent \in DOMAIN view[1]
        /\ \A id \in DOMAIN view[3] : view[3][id].parent \in DOMAIN view[2]
        /\ \A id \in DOMAIN view[4] : view[4][id].parent \in DOMAIN view[3]
    BY <2>1, LayerNames DEF DirInv, ForeignKeys, Ids
  <2>4. /\ Scanned(view[2]) = DOMAIN view[2] /\ Scanned(view[3]) = DOMAIN view[3]
        /\ Scanned(view[4]) = DOMAIN view[4]
    <3>1. \A rows \in {view[1], view[2], view[3]} : 0 \notin DOMAIN rows
      BY <2>1, <2>2
    <3> QED BY <2>1, <2>2, <2>3, <3>1, AllScanned
  <2>5. \A u \in DOMAIN view[4] : Placed(u)
    BY <2>3, <2>4 DEF Placed, PlacedTeams
  <2>6. OrgTree = {Shown(u) : u \in {x \in Scanned(view[4]) : Placed(x)}}
    BY TreeIsShown DEF DirInv
  <2>7. \A u : Shown(u)[1] = u
    BY DEF Shown
  <2> QED BY <2>1, <2>4, <2>5, <2>6, <2>7 DEF Ids
<1> QED BY <1>1, DirInvariant, PTL
=============================================================================
